----------------------------- MODULE StepQueue -----------------------------
(***************************************************************************)
(* How a step of a plan reaches its tool: the executor adds a job to the   *)
(* BullMQ queue "steps" and waits for it at most 60 seconds; a step worker *)
(* takes the job and calls the tool through the registry, which checks the *)
(* rate, the tool's circuit and the idempotency cache.                     *)
(*                                                                         *)
(* Each process runs one run worker (so one executor at a time), one step  *)
(* worker and a registry of its own; the queue is shared.  A job whose     *)
(* executor gave up stays in the queue and is executed all the same.       *)
(*                                                                         *)
(* All runs have the same plan, and a run may be executed several times    *)
(* (resumed, retried): its calls then have the same idempotency keys.      *)
(***************************************************************************)
EXTENDS Circuit, Sequences, FiniteSets

CONSTANTS
  Processes,  \* the instances of the API process
  Runs,       \* run ids
  NSteps,     \* steps of a run's plan
  Tools,
  ToolOf,     \* [1..NSteps -> Tools]
  Inline,     \* tools the executor calls itself (chat.respond)
  Rebuilt,    \* tools registered again whenever a graph is built
  Slots,      \* places for jobs (bounds how many coexist)
  Attempts,   \* BullMQ 'attempts' of a step job
  Retries,    \* retries of withRetry
  MaxExecs,   \* how often a run is executed (bounds the runs of TLC)
  Faults      \* what may go wrong: "fail", "ambiguous" (a call fails after
              \* its effect), "limit", "queue", "skip", "evict", "crash"

None == 0
Step == 1..NSteps
Key == Runs \X Step

ASSUME StepQueueAssumption ==
  /\ Runs \subseteq Nat \ {None}
  /\ Slots \subseteq Nat \ {None}
  /\ NSteps \in Nat
  /\ ToolOf \in [Step -> Tools]
  /\ Inline \subseteq Tools /\ Rebuilt \subseteq Tools
  /\ Attempts \in Nat \ {0} /\ Retries \in Nat /\ MaxExecs \in Nat

VARIABLES
  exec,     \* [Processes -> what the executor of the process is doing]
  worker,   \* [Processes -> the job whose tool the step worker is calling]
  jobs,     \* [Slots -> the job]
  waiting,  \* the queue's list of jobs to be taken, in order
  circuit,  \* [Processes -> [Tools -> Circuits]]
  cache,    \* [Processes -> keys whose result the process remembers]
  ran,      \* how often the effect of a step of a run has happened
  calls,    \* how often the tool of a step of a run has been called
  execs,    \* how often a run has been executed
  streak,   \* [Processes -> [Tools -> failed calls since one succeeded]]
  skipped,  \* the steps of runs an executor skipped
  lost      \* keys whose effect may have happened with no result remembered

queueVars == <<jobs, waiting>>
counts == <<ran, calls, execs>>
history == <<streak, skipped, lost>>
vars == <<exec, worker, jobs, waiting, circuit, cache, counts, history>>

Many == 2   \* effects are counted 0, 1, Many

Execs == [pc : {"idle", "next", "wait"}, run : Runs \cup {None},
          step : 1..(NSteps + 1), slot : Slots \cup {None}, tries : 0..Retries]
Idle == [pc |-> "idle", run |-> None, step |-> 1, slot |-> None, tries |-> 0]

Jobs == [st : {"free", "waiting", "active", "delayed", "done", "failed"},
         run : Runs \cup {None}, step : Step \cup {None}, att : 0..Attempts,
         stalled : BOOLEAN]
NoJob == [st |-> "free", run |-> None, step |-> None, att |-> 0, stalled |-> FALSE]

KeyOf(j) == <<jobs[j].run, jobs[j].step>>
ToolOfJob(j) == ToolOf[jobs[j].step]

TypeOK ==
  /\ exec \in [Processes -> Execs]
  /\ worker \in [Processes -> [job : Slots \cup {None}, stale : BOOLEAN]]
  /\ jobs \in [Slots -> Jobs]
  /\ waiting \in Seq(Slots)
  /\ circuit \in [Processes -> [Tools -> Circuits]]
  /\ cache \in [Processes -> SUBSET Key]
  /\ ran \in [Key -> 0..Many] /\ calls \in [Key -> Nat]
  /\ execs \in [Runs -> 0..MaxExecs]
  /\ streak \in [Processes -> [Tools -> 0..Threshold]]
  /\ skipped \subseteq Key /\ lost \subseteq Key

Init ==
  /\ exec = [p \in Processes |-> Idle]
  /\ worker = [p \in Processes |-> [job |-> None, stale |-> FALSE]]
  /\ jobs = [j \in Slots |-> NoJob]
  /\ waiting = <<>>
  /\ circuit = [p \in Processes |-> [t \in Tools |-> NewCircuit]]
  /\ cache = [p \in Processes |-> {}]
  /\ ran = [k \in Key |-> 0] /\ calls = [k \in Key |-> 0]
  /\ execs = [r \in Runs |-> 0]
  /\ streak = [p \in Processes |-> [t \in Tools |-> 0]]
  /\ skipped = {} /\ lost = {}

-----------------------------------------------------------------------------
(* The executor. *)

NextStep(e) == [Idle EXCEPT !.pc = "next", !.run = e.run, !.step = e.step + 1]
Becomes(p, e) == exec' = [exec EXCEPT ![p] = e]

(* A job starts a run's execution: building the graph registers the tools  *)
(* again, each with a fresh circuit.  A call in progress keeps the circuit *)
(* it began with, which nobody looks at any more.                          *)
StartRun(p, r) ==
  /\ exec[p].pc = "idle"
  /\ execs[r] < MaxExecs
  /\ execs' = [execs EXCEPT ![r] = @ + 1]
  /\ Becomes(p, [Idle EXCEPT !.pc = "next", !.run = r])
  /\ circuit' = [circuit EXCEPT ![p] =
       [t \in Tools |-> IF t \in Rebuilt THEN NewCircuit ELSE @[t]]]
  /\ worker' = [worker EXCEPT ![p].stale =
       @ \/ (worker[p].job # None /\ ToolOfJob(worker[p].job) \in Rebuilt)]
  /\ UNCHANGED <<queueVars, cache, ran, calls, history>>

Current(p, inline) ==
  /\ exec[p].pc = "next"
  /\ exec[p].step \in Step
  /\ inline <=> ToolOf[exec[p].step] \in Inline

(* runStepViaQueue: add the job (to the lowest free place: places are all  *)
(* alike).                                                                 *)
Issue(p) ==
  /\ Current(p, FALSE)
  /\ \E j \in Slots :
       /\ jobs[j].st = "free" /\ \A i \in Slots : i < j => jobs[i].st # "free"
       /\ jobs' = [jobs EXCEPT ![j] =
            [NoJob EXCEPT !.st = "waiting", !.run = exec[p].run, !.step = exec[p].step]]
       /\ waiting' = Append(waiting, j)
       /\ Becomes(p, [exec[p] EXCEPT !.pc = "wait", !.slot = j])
  /\ UNCHANGED <<worker, circuit, cache, counts, history>>

(* A step is not executed when the one it depends on, the one before, had  *)
(* an empty result.                                                        *)
SkipStep(p) ==
  /\ "skip" \in Faults
  /\ exec[p].pc = "next" /\ exec[p].step \in Step \ {1}
  /\ ran[<<exec[p].run, exec[p].step - 1>>] > 0
  /\ skipped' = skipped \cup {<<exec[p].run, exec[p].step>>}
  /\ Becomes(p, NextStep(exec[p]))
  /\ UNCHANGED <<worker, queueVars, circuit, cache, counts, streak, lost>>

(* Redis is not there, or not configured: the step fails, the fallback     *)
(* node ends the graph.                                                    *)
IssueFails(p) ==
  /\ "queue" \in Faults
  /\ Current(p, FALSE)
  /\ Becomes(p, Idle)
  /\ UNCHANGED <<worker, queueVars, circuit, cache, counts, history>>

EndRun(p) ==
  /\ exec[p].pc = "next"
  /\ exec[p].step = NSteps + 1
  /\ Becomes(p, Idle)
  /\ UNCHANGED <<worker, queueVars, circuit, cache, counts, history>>

(* waitUntilFinished resolves: the job's result is the step's.             *)
Answered(p) ==
  /\ exec[p].pc = "wait"
  /\ jobs[exec[p].slot].st = "done"
  /\ jobs' = [jobs EXCEPT ![exec[p].slot] = NoJob]
  /\ Becomes(p, NextStep(exec[p]))
  /\ UNCHANGED <<worker, waiting, circuit, cache, counts, history>>

(* A defect: withRetry takes the error of a failed job for a transient one. *)
RefusedRetried(p) ==
  /\ exec[p].pc = "wait"
  /\ jobs[exec[p].slot].st = "failed"
  /\ jobs' = [jobs EXCEPT ![exec[p].slot] = NoJob]
  /\ Becomes(p, IF exec[p].tries < Retries
                THEN [exec[p] EXCEPT !.pc = "next", !.slot = None, !.tries = @ + 1]
                ELSE Idle)
  /\ UNCHANGED <<worker, waiting, circuit, cache, counts, history>>

(* waitUntilFinished rejects with the job's failedReason, a message without *)
(* a code, so withRetry never takes it for a transient error.              *)
Refused(p) ==
  /\ exec[p].pc = "wait"
  /\ jobs[exec[p].slot].st = "failed"
  /\ jobs' = [jobs EXCEPT ![exec[p].slot] = NoJob]
  /\ Becomes(p, Idle)
  /\ UNCHANGED <<worker, waiting, circuit, cache, counts, history>>

(* A defect: a step that timed out counts as a step without a result.      *)
TimeoutAsNull(p) ==
  /\ exec[p].pc = "wait"
  /\ jobs[exec[p].slot].st \notin {"done", "failed"}
  /\ Becomes(p, NextStep(exec[p]))
  /\ UNCHANGED <<worker, queueVars, circuit, cache, counts, history>>

(* A defect: the time a job spends behind other jobs does not count.       *)
TimeoutWhenActive(p) ==
  /\ exec[p].pc = "wait"
  /\ jobs[exec[p].slot].st = "active"
  /\ Becomes(p, Idle)
  /\ UNCHANGED <<worker, queueVars, circuit, cache, counts, history>>

(* Sixty seconds are over: the executor gives up, the job stays.           *)
Timeout(p) ==
  /\ exec[p].pc = "wait"
  /\ jobs[exec[p].slot].st \notin {"done", "failed"}
  /\ Becomes(p, Idle)
  /\ UNCHANGED <<worker, queueVars, circuit, cache, counts, history>>

-----------------------------------------------------------------------------
(* The registry. *)

SetCircuit(p, t, c) == circuit' = [circuit EXCEPT ![p][t] = c]
Lengthen(p, t) ==
  streak' = [streak EXCEPT ![p][t] = IF @ < Threshold THEN @ + 1 ELSE @]
Effect(k) == ran' = [ran EXCEPT ![k] = IF @ < Many THEN @ + 1 ELSE @]
UnseenEffect(k) == Effect(k) /\ lost' = lost \cup {k}
MayHaveEffect(k) ==
  \/ UNCHANGED <<ran, lost>>
  \/ "ambiguous" \in Faults /\ UnseenEffect(k)
Called(k) == calls' = [calls EXCEPT ![k] = @ + 1]

(* chat.respond: registry.call in the run worker itself, under withRetry.  *)
(* Here an error keeps its code: a rejected call (CIRCUIT_OPEN) and a      *)
(* transient failure are tried again, at most Retries times.               *)
TryAgain(p) ==
  /\ exec[p].tries < Retries
  /\ Becomes(p, [exec[p] EXCEPT !.tries = @ + 1])

InlineRejected(p) ==
  LET t == ToolOf[exec[p].step] IN
  /\ Current(p, TRUE)
  /\ MayReject(circuit[p][t])
  /\ TryAgain(p) \/ (exec[p].tries = Retries /\ Becomes(p, Idle))
  /\ UNCHANGED <<worker, queueVars, circuit, cache, counts, history>>

InlineReturns(p) ==
  LET t == ToolOf[exec[p].step]  k == <<exec[p].run, exec[p].step>> IN
  /\ Current(p, TRUE)
  /\ SetCircuit(p, t, Success(circuit[p][t]))
  /\ IF k \in cache[p] THEN UNCHANGED <<ran, calls, cache, streak>>
     ELSE /\ Effect(k) /\ Called(k)
          /\ cache' = [cache EXCEPT ![p] = @ \cup {k}]
          /\ streak' = [streak EXCEPT ![p][t] = 0]
  /\ Becomes(p, NextStep(exec[p]))
  /\ UNCHANGED <<worker, queueVars, execs, skipped, lost>>

InlineFails(p) ==
  LET t == ToolOf[exec[p].step]  k == <<exec[p].run, exec[p].step>> IN
  /\ "fail" \in Faults
  /\ Current(p, TRUE)
  /\ k \notin cache[p]
  /\ Called(k) /\ MayHaveEffect(k)
  /\ SetCircuit(p, t, Failure(LetThrough(circuit[p][t])))
  /\ Lengthen(p, t)
  /\ TryAgain(p) \/ Becomes(p, Idle)
  /\ UNCHANGED <<worker, queueVars, cache, execs, skipped>>

-----------------------------------------------------------------------------
(* The step worker. *)

Awaited(j) == \E p \in Processes : exec[p].slot = j
Settled(j, st) == IF Awaited(j) THEN [jobs[j] EXCEPT !.st = st] ELSE NoJob

JobDone(j) == jobs' = [jobs EXCEPT ![j] = Settled(j, "done")]

(* A defect: one attempt too many.                                         *)
AttemptFailsLate(j) ==
  jobs' = [jobs EXCEPT ![j] =
    IF jobs[j].att <= Attempts
    THEN [jobs[j] EXCEPT !.st = "delayed", !.att = @ + 1]
    ELSE Settled(j, "failed")]

(* BullMQ puts a job that threw back after a backoff, Attempts - 1 times.  *)
AttemptFails(j) ==
  jobs' = [jobs EXCEPT ![j] =
    IF jobs[j].att + 1 < Attempts
    THEN [jobs[j] EXCEPT !.st = "delayed", !.att = @ + 1]
    ELSE Settled(j, "failed")]

Backoff(j) ==
  /\ jobs[j].st = "delayed"
  /\ jobs' = [jobs EXCEPT ![j].st = "waiting"]
  /\ waiting' = Append(waiting, j)
  /\ UNCHANGED <<exec, worker, circuit, cache, counts, history>>

(* The step worker of p is free and takes job j, the first in the queue.   *)
Takes(p, j) ==
  /\ worker[p].job = None
  /\ waiting # <<>> /\ j = Head(waiting)
  /\ waiting' = Tail(waiting)

(* checkRate throws before the circuit is asked; an open circuit rejects.  *)
TurnedAway(p) ==
  \E j \in Slots :
    /\ Takes(p, j)
    /\ "limit" \in Faults \/ MayReject(circuit[p][ToolOfJob(j)])
    /\ AttemptFails(j)
    /\ UNCHANGED <<exec, worker, circuit, cache, counts, history>>

(* Idempotency.find has a result: for the circuit that is a success.       *)
Hit(p) ==
  \E j \in Slots :
    /\ Takes(p, j)
    /\ KeyOf(j) \in cache[p]
    /\ SetCircuit(p, ToolOfJob(j), Success(circuit[p][ToolOfJob(j)]))
    /\ JobDone(j)
    /\ UNCHANGED <<exec, worker, cache, counts, history>>

Begin(p) ==
  \E j \in Slots :
    /\ Takes(p, j)
    /\ KeyOf(j) \notin cache[p]
    /\ worker' = [worker EXCEPT ![p] = [job |-> j, stale |-> FALSE]]
    /\ jobs' = [jobs EXCEPT ![j].st = "active"]
    /\ Called(KeyOf(j))
    /\ SetCircuit(p, ToolOfJob(j), LetThrough(circuit[p][ToolOfJob(j)]))
    /\ UNCHANGED <<exec, cache, ran, execs, history>>

(* The call of p's step worker ends, and the circuit it began with moves.  *)
Ends(p, j) ==
  /\ worker[p].job = j
  /\ worker' = [worker EXCEPT ![p] = [job |-> None, stale |-> FALSE]]

Records(p, t, c) == IF worker[p].stale THEN UNCHANGED circuit ELSE SetCircuit(p, t, c)

(* A defect: the result is not stored.                                     *)
ReturnsUncached(p) ==
  \E j \in Slots :
    /\ Ends(p, j)
    /\ Effect(KeyOf(j))
    /\ Records(p, ToolOfJob(j), Success(circuit[p][ToolOfJob(j)]))
    /\ streak' = [streak EXCEPT ![p][ToolOfJob(j)] = 0]
    /\ JobDone(j)
    /\ UNCHANGED <<exec, waiting, cache, calls, execs, skipped, lost>>

Returns(p) ==
  \E j \in Slots :
    /\ Ends(p, j)
    /\ Effect(KeyOf(j))
    /\ cache' = [cache EXCEPT ![p] = @ \cup {KeyOf(j)}]
    /\ Records(p, ToolOfJob(j), Success(circuit[p][ToolOfJob(j)]))
    /\ streak' = [streak EXCEPT ![p][ToolOfJob(j)] = 0]
    /\ JobDone(j)
    /\ UNCHANGED <<exec, waiting, calls, execs, skipped, lost>>

Fails(p) ==
  \E j \in Slots :
    /\ "fail" \in Faults
    /\ Ends(p, j)
    /\ MayHaveEffect(KeyOf(j))
    /\ Records(p, ToolOfJob(j), Failure(circuit[p][ToolOfJob(j)]))
    /\ Lengthen(p, ToolOfJob(j))
    /\ AttemptFails(j)
    /\ UNCHANGED <<exec, waiting, cache, calls, execs, skipped>>

-----------------------------------------------------------------------------
(* A remembered result expires after fifteen minutes.                      *)
Evict(p, k) ==
  /\ "evict" \in Faults
  /\ k \in cache[p]
  /\ cache' = [cache EXCEPT ![p] = @ \ {k}]
  /\ lost' = lost \cup {k}
  /\ UNCHANGED <<exec, worker, queueVars, circuit, counts, streak, skipped>>

(* Process p dies, executor, step worker, circuits, cache and all.  BullMQ *)
(* finds the step worker's job stalled and puts it in front of the others, *)
(* the second time it fails it.  Its tool may have had its effect.         *)
ForgottenWith(p, j) == \A q \in Processes \ {p} : exec[q].slot # j

Crash(p) ==
  LET Had(j) == worker[p].job = j
      Again(j) == Had(j) /\ ~jobs[j].stalled
  IN
  /\ "crash" \in Faults
  /\ exec' = [exec EXCEPT ![p] = Idle]
  /\ worker' = [worker EXCEPT ![p] = [job |-> None, stale |-> FALSE]]
  /\ circuit' = [circuit EXCEPT ![p] = [t \in Tools |-> NewCircuit]]
  /\ streak' = [streak EXCEPT ![p] = [t \in Tools |-> 0]]
  /\ cache' = [cache EXCEPT ![p] = {}]
  /\ lost' = lost \cup cache[p] \cup {KeyOf(j) : j \in {i \in Slots : Had(i)}}
  /\ UNCHANGED ran \/ \E j \in Slots : Had(j) /\ Effect(KeyOf(j))
  /\ waiting' = IF \E j \in Slots : Again(j) THEN <<worker[p].job>> \o waiting ELSE waiting
  /\ jobs' = [j \in Slots |->
       IF Again(j) THEN [jobs[j] EXCEPT !.st = "waiting", !.stalled = TRUE]
       ELSE IF (Had(j) \/ jobs[j].st \in {"done", "failed"}) /\ ForgottenWith(p, j) THEN NoJob
       ELSE IF Had(j) THEN [jobs[j] EXCEPT !.st = "failed"] ELSE jobs[j]]
  /\ UNCHANGED <<calls, execs, skipped>>

-----------------------------------------------------------------------------
(* What an executor does by itself, the 60 s timer included. *)
Executes(p) ==
  \/ Issue(p) \/ SkipStep(p) \/ IssueFails(p) \/ EndRun(p)
  \/ Answered(p) \/ Refused(p) \/ Timeout(p)
  \/ InlineRejected(p) \/ InlineReturns(p) \/ InlineFails(p)

Next ==
  \/ \E p \in Processes :
       \/ \E r \in Runs : StartRun(p, r)
       \/ Executes(p)
       \/ TurnedAway(p) \/ Hit(p) \/ Begin(p) \/ Returns(p) \/ Fails(p)
       \/ \E k \in Key : Evict(p, k)
       \/ Crash(p)
  \/ \E j \in Slots : Backoff(j)

Spec == Init /\ [][Next]_vars

(***************************************************************************)
(* The executor goes on when it can and its timer fires.  Nothing makes a  *)
(* tool answer: it may hang, and the step worker with it.                  *)
(***************************************************************************)
FairSpec == Spec /\ \A p \in Processes : WF_vars(Executes(p))

-----------------------------------------------------------------------------
(***************************************************************************)
(* However late a step's tool is called, retried, given up or called again *)
(* after a crash, no step has its effect before the step that precedes it  *)
(* in the plan had its own, unless that one was skipped.                   *)
(***************************************************************************)
EffectsInOrder ==
  \A r \in Runs : \A s \in Step \ {1} :
    ran[<<r, s>>] > 0 => ran[<<r, s - 1>>] > 0 \/ <<r, s - 1>> \in skipped

(***************************************************************************)
(* With one process, a step executed late, the same step of a resumed run  *)
(* and the retries of both have one effect between them, as long as no     *)
(* result was lost: evicted, gone in a crash, or never seen.               *)
(***************************************************************************)
OneEffectPerKey == \A k \in Key : ran[k] > 1 => k \in lost

(***************************************************************************)
(* The retries of the queue and of withRetry do not multiply: an execution *)
(* of a run calls the tool of a queued step at most Attempts times, once   *)
(* more if a crash had it handed out again, and of an inline step once     *)
(* more than withRetry retries.                                            *)
(***************************************************************************)
CallsPerExecution(s) ==
  IF ToolOf[s] \in Inline THEN Retries + 1
  ELSE IF "crash" \in Faults THEN Attempts + 1 ELSE Attempts
CallsBounded == \A k \in Key : calls[k] <= execs[k[1]] * CallsPerExecution(k[2])

(***************************************************************************)
(* Why the order holds.  The queue's books agree: a job that exists has a  *)
(* step, is in the waiting list at most once and only while it waits, and  *)
(* is called by at most one step worker and only while it is active.  An   *)
(* executor waits for a job of its own step, which nobody else waits for.  *)
(***************************************************************************)
JobsInv ==
  /\ \A j \in Slots : jobs[j].st # "free" => KeyOf(j) \in Key
  /\ \A i \in DOMAIN waiting : jobs[waiting[i]].st = "waiting"
  /\ \A i, k \in DOMAIN waiting : waiting[i] = waiting[k] => i = k
  /\ \A p \in Processes : worker[p].job # None => jobs[worker[p].job].st = "active"
  /\ \A p, q \in Processes :
       worker[p].job # None /\ worker[p].job = worker[q].job => p = q

WaitsInv ==
  /\ \A p \in Processes : exec[p].pc # "idle" => exec[p].run \in Runs
  /\ \A p \in Processes : exec[p].slot # None <=> exec[p].pc = "wait"
  /\ \A p \in Processes : exec[p].pc = "wait" =>
       /\ jobs[exec[p].slot].st # "free"
       /\ KeyOf(exec[p].slot) = <<exec[p].run, exec[p].step>>
  /\ \A p, q \in Processes :
       exec[p].slot # None /\ exec[p].slot = exec[q].slot => p = q

QueueInv == JobsInv /\ WaitsInv

(***************************************************************************)
(* And whatever an executor or a job is about to do may be done: the step  *)
(* before it had its effect or was skipped.  A job is only done, and a     *)
(* result only remembered, when the effect has happened.                   *)
(***************************************************************************)
Ready(r, s) == s = 1 \/ ran[<<r, s - 1>>] > 0 \/ <<r, s - 1>> \in skipped

OrderInv ==
  /\ EffectsInOrder
  /\ \A p \in Processes : exec[p].pc # "idle" => Ready(exec[p].run, exec[p].step)
  /\ \A j \in Slots : jobs[j].st # "free" => Ready(jobs[j].run, jobs[j].step)
  /\ \A j \in Slots : jobs[j].st = "done" => ran[KeyOf(j)] > 0
  /\ \A p \in Processes : \A k \in cache[p] : ran[k] > 0

(***************************************************************************)
(* A tool that never answers cannot hang a run: neither the one that       *)
(* called it nor those whose steps wait behind it.                         *)
(***************************************************************************)
ExecutionEnds == \A p \in Processes : exec[p].pc # "idle" ~> exec[p].pc = "idle"

(***************************************************************************)
(* packages/agent/registry/support/circuit.ts:2, that many consecutive     *)
(* failures open the circuit.                                              *)
(***************************************************************************)
FailuresOpenCircuit ==
  \A p \in Processes : \A t \in Tools :
    streak[p][t] = Threshold => circuit[p][t].state # "CLOSED"
=============================================================================
