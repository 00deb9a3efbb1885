-------------------------- MODULE StepEffectProofs --------------------------
(***************************************************************************)
(* One process, one effect: why a step that was given up on, the same step *)
(* of a resumed run and the retries of both act once between them.  And    *)
(* calls are bounded whatever the processes lose: each execution of a run  *)
(* pays for so many calls of a step, and no retry, stall or crash makes    *)
(* more.  For any plan and any number of runs, executions, attempts and    *)
(* retries.                                                                *)
(***************************************************************************)
EXTENDS StepQueueProofs, FiniteSetTheorems

(***************************************************************************)
(* What happened is remembered or counted as lost; the tool being called   *)
(* is not remembered; and an inline step, which is called outside the      *)
(* queue, never has a job.                                                 *)
(***************************************************************************)
Remembered == \A q \in Processes : \A k \in Key : ran[k] > 0 => k \in cache[q] \/ k \in lost
CallIsNew == \A q \in Processes : worker[q].job # None => KeyOf(worker[q].job) \notin cache[q]
JobsAreQueued == \A j \in Slots : jobs[j].st # "free" => ToolOfJob(j) \notin Inline
OnceInv == OneEffectPerKey /\ Remembered /\ CallIsNew /\ JobsAreQueued

(* A step of the system adds an effect only where none is remembered, and  *)
(* forgets none without counting it as lost.                               *)
Accounted(p) ==
  /\ lost \subseteq lost'
  /\ \A k \in Key : \/ k \in lost'
                    \/ ran'[k] = ran[k] /\ (k \in cache[p] => k \in cache'[p])
                    \/ k \notin cache[p] /\ k \in cache'[p] /\ (ran[k] = 0 => ran'[k] = 1)

(* That is enough for the effects.                                         *)
LEMMA AccountedOnce ==
  ASSUME NEW p, Processes = {p}, TypeOK, OnceInv, Accounted(p)
  PROVE  OneEffectPerKey' /\ Remembered'
<1> SUFFICES ASSUME NEW k \in Key
             PROVE  (ran'[k] > 1 => k \in lost') /\ (ran'[k] > 0 => k \in cache'[p] \/ k \in lost')
  BY DEF OneEffectPerKey, Remembered
<1>1. ran[k] \in 0..2
  BY DEF TypeOK, Many
<1>2. (ran[k] > 1 => k \in lost) /\ (ran[k] > 0 => k \in cache[p] \/ k \in lost)
  BY DEF OnceInv, OneEffectPerKey, Remembered
<1> QED BY <1>1, <1>2 DEF Accounted

(* Effects that stay as they are are accounted for.                        *)
LEMMA NothingNew ==
  ASSUME NEW p, UNCHANGED <<ran, cache, lost>>
  PROVE  Accounted(p)
BY DEF Accounted

(* So is the first effect of a step, remembered with it, and one that is   *)
(* counted as lost.                                                        *)
LEMMA EffectAccounted ==
  ASSUME NEW p \in Processes, TypeOK, NEW k \in Key, UNCHANGED lost,
         k \notin cache[p], Effect(k), cache' = [cache EXCEPT ![p] = @ \cup {k}]
  PROVE  Accounted(p)
<1>1. \A x \in Key \ {k} : ran'[x] = ran[x]
  BY DEF Effect, TypeOK
<1>2. ran[k] = 0 => ran'[k] = 1
  BY DEF Effect, TypeOK, Many
<1>3. \A x \in Key : x \in cache'[p] <=> x \in cache[p] \/ x = k
  BY DEF TypeOK
<1> QED BY <1>1, <1>2, <1>3 DEF Accounted

LEMMA LossAccounted ==
  ASSUME NEW p \in Processes, TypeOK, NEW k \in Key, MayHaveEffect(k), UNCHANGED cache
  PROVE  Accounted(p)
<1>1. CASE UNCHANGED <<ran, lost>>
  BY <1>1 DEF Accounted
<1>2. CASE UnseenEffect(k)
  <2>1. \A x \in Key \ {k} : ran'[x] = ran[x]
    BY <1>2 DEF UnseenEffect, Effect, TypeOK
  <2>2. lost' = lost \cup {k}
    BY <1>2 DEF UnseenEffect
  <2> QED BY <2>1, <2>2 DEF Accounted
<1> QED BY <1>1, <1>2 DEF MayHaveEffect

-----------------------------------------------------------------------------
(* The job being called is not touched by an executor.                     *)
ActiveStay == \A j \in Slots : jobs[j].st = "active" => jobs'[j] = jobs[j]

(* What an executor does to the jobs: it adds the job of a queued step, or *)
(* drops a finished one.                                                   *)
LEMMA ExecutorJobs ==
  ASSUME TypeOK, QueueInv, JobsAreQueued, NEW p \in Processes, Executes(p)
  PROVE  JobsAreQueued' /\ ActiveStay
<1>1. CASE UNCHANGED jobs
  BY <1>1 DEF JobsAreQueued, ToolOfJob, ActiveStay
<1>2. CASE Issue(p)
  <2>1. PICK j \in Slots :
          /\ jobs[j].st = "free"
          /\ jobs' = [jobs EXCEPT ![j] =
               [NoJob EXCEPT !.st = "waiting", !.run = exec[p].run, !.step = exec[p].step]]
    BY <1>2 DEF Issue
  <2>2. jobs'[j].step = exec[p].step /\ \A i \in Slots \ {j} : jobs'[i] = jobs[i]
    BY <2>1, NoJobType DEF TypeOK, Jobs
  <2>3. ToolOf[exec[p].step] \notin Inline
    BY <1>2 DEF Issue, Current
  <2> QED BY <2>1, <2>2, <2>3 DEF JobsAreQueued, ToolOfJob, ActiveStay
<1>3. CASE Answered(p) \/ Refused(p)
  <2>1. /\ jobs[exec[p].slot].st \in {"done", "failed"}
        /\ jobs' = [jobs EXCEPT ![exec[p].slot] = NoJob]
    BY <1>3 DEF Answered, Refused
  <2>2. \A j \in Slots : jobs'[j] = jobs[j] \/ (j = exec[p].slot /\ jobs'[j].st = "free")
    BY <2>1 DEF TypeOK, NoJob
  <2> QED BY <2>1, <2>2 DEF JobsAreQueued, ToolOfJob, ActiveStay
<1> QED
  BY <1>1, <1>2, <1>3 DEF Executes, SkipStep, IssueFails, EndRun, Timeout, InlineRejected,
     InlineReturns, InlineFails, queueVars

(* What an executor does to the effects: at most the one of its own inline *)
(* step, which no job has.                                                 *)
LEMMA ExecutorOnce ==
  ASSUME TypeOK, QueueInv, OnceInv, NEW p \in Processes, Processes = {p}, Executes(p)
  PROVE  OnceInv'
<1> DEFINE e == exec[p]
           k == <<e.run, e.step>>
           quiet == UNCHANGED <<ran, cache, lost>>
<1>0. JobsAreQueued' /\ ActiveStay /\ UNCHANGED worker
  BY ExecutorJobs DEF OnceInv, Executes, Issue, SkipStep, IssueFails, EndRun, Answered, Refused,
     Timeout, InlineRejected, InlineReturns, InlineFails
<1>1. worker[p].job # None =>
        /\ worker[p].job \in Slots /\ jobs[worker[p].job].st = "active"
        /\ KeyOf(worker[p].job)' = KeyOf(worker[p].job)
        /\ ToolOf[KeyOf(worker[p].job)[2]] \notin Inline
  <2> SUFFICES ASSUME worker[p].job # None
               PROVE  /\ worker[p].job \in Slots /\ jobs[worker[p].job].st = "active"
                      /\ KeyOf(worker[p].job)' = KeyOf(worker[p].job)
                      /\ ToolOf[KeyOf(worker[p].job)[2]] \notin Inline
    OBVIOUS
  <2>1. worker[p].job \in Slots /\ jobs[worker[p].job].st = "active"
    BY DEF TypeOK, QueueInv, JobsInv
  <2>2. KeyOf(worker[p].job)' = KeyOf(worker[p].job)
    BY <1>0, <2>1 DEF ActiveStay, KeyOf
  <2>3. ToolOf[KeyOf(worker[p].job)[2]] \notin Inline
    BY <2>1 DEF OnceInv, JobsAreQueued, KeyOf, ToolOfJob
  <2> QED BY <2>1, <2>2, <2>3
<1>2. ASSUME NEW c \in Key, ToolOf[c[2]] \in Inline,
             cache' = cache \/ cache' = [cache EXCEPT ![p] = @ \cup {c}]
      PROVE  CallIsNew'
  <2>1. \A x \in Key : x \in cache'[p] => x \in cache[p] \/ x = c
    BY <1>2 DEF TypeOK
  <2>2. worker[p].job # None => KeyOf(worker[p].job) \in Key
    BY <1>1 DEF QueueInv, JobsInv
  <2>3. worker'[p].job # None => KeyOf(worker[p].job)' \notin cache'[p]
    BY <1>0, <1>1, <1>2, <2>1, <2>2 DEF OnceInv, CallIsNew
  <2> QED BY <1>0, <2>3 DEF CallIsNew
<1>3. ASSUME UNCHANGED cache PROVE CallIsNew'
  BY <1>0, <1>1, <1>3 DEF OnceInv, CallIsNew
<1>4. CASE quiet
  BY <1>0, <1>3, <1>4, NothingNew, AccountedOnce DEF OnceInv
<1>5. ASSUME Current(p, TRUE) PROVE k \in Key /\ ToolOf[k[2]] \in Inline
  <2>1. e.run \in Runs /\ e.step \in Step
    BY <1>5 DEF Current, QueueInv, WaitsInv
  <2> QED BY <1>5, <2>1, ConstantsType DEF Current
<1>6. CASE InlineReturns(p)
  <2>1. k \in Key /\ ToolOf[k[2]] \in Inline
    BY <1>5, <1>6 DEF InlineReturns
  <2>2. CASE k \in cache[p]
    BY <1>4, <1>6, <2>2 DEF InlineReturns
  <2>3. CASE k \notin cache[p]
    <3>1. Effect(k) /\ cache' = [cache EXCEPT ![p] = @ \cup {k}] /\ UNCHANGED lost
      BY <1>6, <2>3 DEF InlineReturns
    <3>2. Accounted(p)
      BY <2>1, <2>3, <3>1, EffectAccounted
    <3> QED BY <1>0, <1>2, <2>1, <3>1, <3>2, AccountedOnce DEF OnceInv
  <2> QED BY <2>2, <2>3
<1>7. CASE InlineFails(p)
  <2>1. k \in Key /\ MayHaveEffect(k) /\ UNCHANGED cache
    BY <1>5, <1>7 DEF InlineFails
  <2>2. Accounted(p)
    BY <2>1, LossAccounted
  <2> QED BY <1>0, <1>3, <2>1, <2>2, AccountedOnce DEF OnceInv
<1>8. ~InlineReturns(p) /\ ~InlineFails(p) => quiet
  BY DEF Executes, Issue, SkipStep, IssueFails, EndRun, Answered, Refused, Timeout,
     InlineRejected, counts, history
<1> QED BY <1>4, <1>6, <1>7, <1>8

(* The step worker calls what is not remembered, one job at a time, and    *)
(* remembers what the tool returned.                                       *)
LEMMA WorkerOnce ==
  ASSUME TypeOK, QueueInv, OnceInv, NEW p \in Processes, Processes = {p},
         TurnedAway(p) \/ Hit(p) \/ Begin(p) \/ Returns(p) \/ Fails(p)
  PROVE  OnceInv'
<1>a. ASSUME NEW j \in Slots, JobDone(j) \/ AttemptFails(j), jobs[j].st # "free"
      PROVE  JobsAreQueued'
  <2>1. PICK x \in Jobs :
          /\ jobs' = [jobs EXCEPT ![j] = x]
          /\ x.st # "free" => x.run = jobs[j].run /\ x.step = jobs[j].step
    BY <1>a, Finished
  <2>2. jobs'[j] = x /\ \A i \in Slots \ {j} : jobs'[i] = jobs[i]
    BY <2>1 DEF TypeOK
  <2> QED BY <1>a, <2>1, <2>2 DEF OnceInv, JobsAreQueued, ToolOfJob
<1>b. ASSUME worker'[p].job = None PROVE CallIsNew'
  BY <1>b DEF CallIsNew
<1>1. CASE TurnedAway(p) \/ Hit(p)
  <2>1. PICK j \in Slots : /\ Takes(p, j) /\ (JobDone(j) \/ AttemptFails(j))
                           /\ UNCHANGED <<worker, cache, ran, lost>>
    BY <1>1 DEF TurnedAway, Hit, counts, history
  <2>2. jobs[j].st # "free" /\ worker'[p].job = None
    BY <2>1, TakesType DEF Takes
  <2> QED BY <1>a, <1>b, <2>1, <2>2, NothingNew, AccountedOnce DEF OnceInv
<1>2. CASE Begin(p)
  <2>1. PICK j \in Slots : /\ Takes(p, j) /\ KeyOf(j) \notin cache[p]
                           /\ worker' = [worker EXCEPT ![p] = [job |-> j, stale |-> FALSE]]
                           /\ jobs' = [jobs EXCEPT ![j].st = "active"]
                           /\ UNCHANGED <<cache, ran, lost>>
    BY <1>2 DEF Begin, history
  <2>2. jobs[j].st = "waiting"
    BY <2>1, TakesType
  <2>3. /\ jobs'[j].run = jobs[j].run /\ jobs'[j].step = jobs[j].step
        /\ \A i \in Slots \ {j} : jobs'[i] = jobs[i]
    BY <2>1 DEF TypeOK, Jobs
  <2>4. JobsAreQueued'
    BY <2>2, <2>3 DEF OnceInv, JobsAreQueued, ToolOfJob
  <2>5. CallIsNew'
    <3>1. worker'[p].job = j
      BY <2>1 DEF TypeOK
    <3>2. KeyOf(j)' = KeyOf(j)
      BY <2>3 DEF KeyOf
    <3> QED BY <2>1, <3>1, <3>2 DEF CallIsNew, KeyOf
  <2> QED BY <2>1, <2>4, <2>5, NothingNew, AccountedOnce DEF OnceInv
<1>3. CASE Returns(p)
  <2>1. PICK j \in Slots :
          /\ Ends(p, j) /\ Effect(KeyOf(j)) /\ JobDone(j) /\ UNCHANGED lost
          /\ cache' = [cache EXCEPT ![p] = @ \cup {KeyOf(j)}]
    BY <1>3 DEF Returns
  <2>2. jobs[j].st = "active" /\ KeyOf(j) \in Key /\ worker[p].job = j /\ j # None
    BY <2>1, EndsType, ConstantsType DEF Ends
  <2>3. KeyOf(j) \notin cache[p]
    BY <2>2 DEF OnceInv, CallIsNew
  <2>4. Accounted(p)
    BY <2>1, <2>2, <2>3, EffectAccounted
  <2>5. worker'[p].job = None
    BY <2>1 DEF Ends, TypeOK
  <2> QED BY <1>a, <1>b, <2>1, <2>2, <2>4, <2>5, AccountedOnce DEF OnceInv
<1>4. CASE Fails(p)
  <2>1. PICK j \in Slots :
          Ends(p, j) /\ MayHaveEffect(KeyOf(j)) /\ AttemptFails(j) /\ UNCHANGED cache
    BY <1>4 DEF Fails
  <2>2. jobs[j].st = "active" /\ KeyOf(j) \in Key
    BY <2>1, EndsType
  <2>3. Accounted(p)
    BY <2>1, <2>2, LossAccounted
  <2>4. worker'[p].job = None
    BY <2>1 DEF Ends, TypeOK
  <2> QED BY <1>a, <1>b, <2>1, <2>2, <2>3, <2>4, AccountedOnce DEF OnceInv
<1> QED BY <1>1, <1>2, <1>3, <1>4

(* A process that dies forgets everything, and it is counted as lost.      *)
LEMMA CrashOnce ==
  ASSUME TypeOK, QueueInv, OnceInv, NEW p \in Processes, Processes = {p}, Crash(p)
  PROVE  OnceInv'
<1> DEFINE Had(j) == worker[p].job = j
<1>1. worker'[p].job = None
  BY DEF Crash, TypeOK
<1>2. JobsAreQueued'
  <2> SUFFICES ASSUME NEW j \in Slots, jobs'[j].st # "free"
               PROVE  jobs[j].st # "free" /\ jobs'[j].step = jobs[j].step
    BY DEF OnceInv, JobsAreQueued, ToolOfJob
  <2>1. jobs[j] \in Jobs /\ (Had(j) => jobs[j].st = "active")
    BY ConstantsType DEF TypeOK, QueueInv, JobsInv
  <2>2. \/ Had(j) /\ jobs'[j] = [jobs[j] EXCEPT !.st = "waiting", !.stalled = TRUE]
        \/ jobs'[j] = NoJob
        \/ Had(j) /\ jobs'[j] = [jobs[j] EXCEPT !.st = "failed"]
        \/ jobs'[j] = jobs[j]
    BY DEF Crash
  <2>3. NoJob.st = "free"
    BY DEF NoJob
  <2>4. CASE Had(j) /\ jobs'[j] = [jobs[j] EXCEPT !.st = "waiting", !.stalled = TRUE]
    BY <2>1, <2>4 DEF Jobs
  <2>5. CASE Had(j) /\ jobs'[j] = [jobs[j] EXCEPT !.st = "failed"]
    BY <2>1, <2>5 DEF Jobs
  <2> QED BY <2>2, <2>3, <2>4, <2>5
<1>3. Accounted(p)
  <2>1. /\ lost' = lost \cup cache[p] \cup {KeyOf(j) : j \in {i \in Slots : Had(i)}}
        /\ UNCHANGED ran \/ \E j \in Slots : Had(j) /\ Effect(KeyOf(j))
    BY DEF Crash
  <2>2. ASSUME NEW k \in Key, k \notin lost' PROVE ran'[k] = ran[k] /\ k \notin cache[p]
    <3>1. k \notin cache[p] /\ \A j \in Slots : Had(j) => KeyOf(j) # k
      BY <2>1, <2>2
    <3>2. ASSUME NEW j \in Slots, Had(j), Effect(KeyOf(j)) PROVE ran'[k] = ran[k]
      BY <3>1, <3>2 DEF Effect, TypeOK
    <3> QED BY <2>1, <3>1, <3>2
  <2> QED BY <2>1, <2>2 DEF Accounted
<1> QED BY <1>1, <1>2, <1>3, AccountedOnce DEF OnceInv, CallIsNew

(* So every step of the system keeps the books.                            *)
LEMMA NextOnce ==
  ASSUME NEW p \in Processes, Processes = {p}, TypeOK, QueueInv, OnceInv, Next
  PROVE  OnceInv'
<1>a. ASSUME UNCHANGED <<jobs, cache, ran, lost>>, \A q \in Processes : worker'[q].job = worker[q].job
      PROVE  OnceInv'
  <2>1. JobsAreQueued' /\ CallIsNew'
    BY <1>a DEF OnceInv, JobsAreQueued, ToolOfJob, CallIsNew, KeyOf
  <2> QED BY <1>a, <2>1, NothingNew, AccountedOnce DEF OnceInv
<1>1. ASSUME NEW r \in Runs, StartRun(p, r) PROVE OnceInv'
  <2>1. worker'[p].job = worker[p].job
    BY <1>1 DEF StartRun, TypeOK
  <2> QED BY <1>1, <1>a, <2>1 DEF StartRun, queueVars, history
<1>2. ASSUME NEW k \in Key, Evict(p, k) PROVE OnceInv'
  <2>1. /\ cache' = [cache EXCEPT ![p] = @ \ {k}] /\ lost' = lost \cup {k}
        /\ UNCHANGED <<jobs, worker, ran>>
    BY <1>2 DEF Evict, queueVars, counts
  <2>2. cache'[p] = cache[p] \ {k}
    BY <2>1 DEF TypeOK
  <2>3. Accounted(p)
    BY <2>1, <2>2 DEF Accounted
  <2>4. JobsAreQueued' /\ CallIsNew'
    BY <2>1, <2>2 DEF OnceInv, JobsAreQueued, ToolOfJob, CallIsNew, KeyOf
  <2> QED BY <2>3, <2>4, AccountedOnce DEF OnceInv
<1>3. ASSUME NEW j \in Slots, Backoff(j) PROVE OnceInv'
  <2>1. /\ jobs[j].st = "delayed" /\ jobs' = [jobs EXCEPT ![j].st = "waiting"]
        /\ UNCHANGED <<worker, cache, ran, lost>>
    BY <1>3 DEF Backoff, counts, history
  <2>2. \A i \in Slots : /\ jobs'[i].run = jobs[i].run /\ jobs'[i].step = jobs[i].step
                         /\ jobs'[i].st # "free" => jobs[i].st # "free"
    BY <2>1 DEF TypeOK, Jobs
  <2>3. worker[p].job # None => worker[p].job \in Slots
    BY DEF TypeOK
  <2>4. JobsAreQueued' /\ CallIsNew'
    BY <2>1, <2>2, <2>3 DEF OnceInv, JobsAreQueued, ToolOfJob, CallIsNew, KeyOf
  <2> QED BY <2>1, <2>4, NothingNew, AccountedOnce DEF OnceInv
<1> QED BY <1>1, <1>2, <1>3, ExecutorOnce, WorkerOnce, CrashOnce DEF Next

(***************************************************************************)
(* With one process, a step of a run has its effect once, whatever is      *)
(* retried, resumed, given up or executed late, unless the result of the   *)
(* first time was lost: evicted, gone in a crash, or never seen.           *)
(***************************************************************************)
THEOREM OneEffect ==
  ASSUME NEW p \in Processes, Processes = {p}
  PROVE  Spec => []OneEffectPerKey
<1>1. Init => OnceInv
  BY ConstantsType DEF Init, OnceInv, OneEffectPerKey, Remembered, CallIsNew, JobsAreQueued, NoJob
<1>2. IndInv /\ OnceInv /\ [Next]_vars => OnceInv'
  <2> SUFFICES ASSUME IndInv, OnceInv, [Next]_vars PROVE OnceInv'
    OBVIOUS
  <2>1. CASE Next
    BY <2>1, NextOnce DEF IndInv
  <2>2. CASE UNCHANGED vars
    BY <2>2 DEF vars, queueVars, counts, history, OnceInv, OneEffectPerKey, Remembered, CallIsNew,
       JobsAreQueued, ToolOfJob, KeyOf
  <2> QED BY <2>1, <2>2
<1>3. OnceInv => OneEffectPerKey
  BY DEF OnceInv
<1> QED BY <1>1, <1>2, <1>3, Invariance, PTL DEF Spec

-----------------------------------------------------------------------------
(* -- calls bounded -------------------------------------------------------- *)

(***************************************************************************)
(* A call is paid for with a ticket.  An executor holds those of the steps *)
(* it has not come to, and of its inline step as many as it has tries      *)
(* left; those of a queued step go to its job, which has one for each      *)
(* attempt left and one for being handed out again after a crash.          *)
(***************************************************************************)
Handed(x) == IF "crash" \in Faults /\ ~x.stalled THEN 1 ELSE 0
JobLeft(x) ==
  IF x.st \in {"waiting", "delayed"} THEN Attempts - x.att + Handed(x)
  ELSE IF x.st = "active" THEN Attempts - x.att - 1 + Handed(x)
  ELSE 0
ExecLeft(e, k) ==
  IF e.pc = "idle" \/ e.run # k[1] \/ e.step > k[2] THEN 0
  ELSE IF e.step < k[2] THEN CallsPerExecution(k[2])
  ELSE IF e.pc = "wait" THEN 0
  ELSE IF ToolOf[k[2]] \in Inline THEN Retries + 1 - e.tries
  ELSE CallsPerExecution(k[2])

JobTickets(k) ==
  {t \in Slots \X Nat : KeyOf(t[1]) = k /\ 1 <= t[2] /\ t[2] <= JobLeft(jobs[t[1]])}
ExecTickets(k) ==
  {t \in Processes \X Nat : 1 <= t[2] /\ t[2] <= ExecLeft(exec[t[1]], k)}

(***************************************************************************)
(* Calls made and tickets left never outnumber what the executions of the  *)
(* run were given.                                                         *)
(***************************************************************************)
AttemptsLeft == \A j \in Slots : jobs[j].att < Attempts
Paid(k) ==
  /\ IsFiniteSet(JobTickets(k)) /\ IsFiniteSet(ExecTickets(k))
  /\ calls[k] + Cardinality(JobTickets(k)) + Cardinality(ExecTickets(k))
       <= execs[k[1]] * CallsPerExecution(k[2])
TicketInv == AttemptsLeft /\ \A k \in Key : Paid(k)

(* The counts of one key are numbers.                                      *)
LEMMA Numbers ==
  ASSUME TypeOK, NEW k \in Key
  PROVE  /\ k[1] \in Runs /\ k[2] \in Step /\ k = <<k[1], k[2]>>
         /\ calls[k] \in Nat /\ execs[k[1]] \in Nat
         /\ CallsPerExecution(k[2]) \in Nat
         /\ execs[k[1]] * CallsPerExecution(k[2]) \in Nat
         /\ (execs[k[1]] + 1) * CallsPerExecution(k[2])
              = execs[k[1]] * CallsPerExecution(k[2]) + CallsPerExecution(k[2])
<1>1. k[1] \in Runs /\ k[2] \in Step /\ k = <<k[1], k[2]>>
  BY DEF Key
<1>2. calls[k] \in Nat /\ execs[k[1]] \in Nat
  BY <1>1, StepQueueAssumption DEF TypeOK
<1>3. CallsPerExecution(k[2]) \in Nat
  BY ConstantsType DEF CallsPerExecution
<1>4. \A a, c \in Nat : a * c \in Nat /\ (a + 1) * c = a * c + c
  OBVIOUS
<1> QED BY <1>1, <1>2, <1>3, <1>4

(* A holder's pile of c tickets.                                           *)
LEMMA Pile ==
  ASSUME NEW h, NEW c \in Nat
  PROVE  IsFiniteSet({h} \X (1 .. c)) /\ Cardinality({h} \X (1 .. c)) = c
<1>1. IsFiniteSet(1 .. c) /\ Cardinality(1 .. c) = c
  BY FS_Interval
<1>2. IsFiniteSet({h}) /\ Cardinality({h}) = 1
  BY FS_Singleton
<1> QED BY <1>1, <1>2, FS_Product

(* Tickets may be lost.                                                    *)
LEMMA PaidStays ==
  ASSUME TypeOK, NEW k \in Key, Paid(k), JobTickets(k)' \subseteq JobTickets(k),
         ExecTickets(k)' \subseteq ExecTickets(k), calls'[k] = calls[k],
         execs'[k[1]] = execs[k[1]]
  PROVE  Paid(k)'
<1> DEFINE J == JobTickets(k)
           E == ExecTickets(k)
<1>1. IsFiniteSet(J) /\ IsFiniteSet(E)
  BY DEF Paid
<1>2. /\ IsFiniteSet(J') /\ Cardinality(J') <= Cardinality(J)
      /\ IsFiniteSet(E') /\ Cardinality(E') <= Cardinality(E)
  BY <1>1, FS_Subset
<1>3. /\ Cardinality(J) \in Nat /\ Cardinality(J') \in Nat
      /\ Cardinality(E) \in Nat /\ Cardinality(E') \in Nat
  BY <1>1, <1>2, FS_CardinalityType
<1>4. calls[k] + Cardinality(J) + Cardinality(E) <= execs[k[1]] * CallsPerExecution(k[2])
  BY DEF Paid
<1> HIDE DEF J, E
<1>5. calls'[k] + Cardinality(J') + Cardinality(E') <= execs'[k[1]] * CallsPerExecution(k[2])
  BY <1>2, <1>3, <1>4, Numbers
<1> QED BY <1>2, <1>5 DEF Paid, J, E, CallsPerExecution

(* A call takes a ticket.                                                  *)
LEMMA PaidCall ==
  ASSUME TypeOK, NEW k \in Key, Paid(k), calls'[k] = calls[k] + 1,
         execs'[k[1]] = execs[k[1]],
         NEW x, \/ /\ x \in JobTickets(k) /\ JobTickets(k)' \subseteq JobTickets(k) \ {x}
                   /\ ExecTickets(k)' \subseteq ExecTickets(k)
                \/ /\ x \in ExecTickets(k) /\ ExecTickets(k)' \subseteq ExecTickets(k) \ {x}
                   /\ JobTickets(k)' \subseteq JobTickets(k)
  PROVE  Paid(k)'
<1> DEFINE J == JobTickets(k)
           E == ExecTickets(k)
<1>1. IsFiniteSet(J) /\ IsFiniteSet(E)
  BY DEF Paid
<1>2. /\ IsFiniteSet(J \ {x}) /\ IsFiniteSet(E \ {x})
      /\ x \in J => Cardinality(J \ {x}) = Cardinality(J) - 1
      /\ x \in E => Cardinality(E \ {x}) = Cardinality(E) - 1
  BY <1>1, FS_RemoveElement
<1>3. Cardinality(J) \in Nat /\ Cardinality(E) \in Nat
  BY <1>1, FS_CardinalityType
<1>4. calls[k] + Cardinality(J) + Cardinality(E) <= execs[k[1]] * CallsPerExecution(k[2])
  BY DEF Paid
<1>5. CASE x \in J /\ J' \subseteq J \ {x} /\ E' \subseteq E
  <2>1. /\ IsFiniteSet(J') /\ Cardinality(J') <= Cardinality(J \ {x})
        /\ IsFiniteSet(E') /\ Cardinality(E') <= Cardinality(E)
    BY <1>1, <1>2, <1>5, FS_Subset
  <2>2. Cardinality(J') \in Nat /\ Cardinality(E') \in Nat
    BY <2>1, FS_CardinalityType
  <2> HIDE DEF J, E
  <2>3. calls'[k] + Cardinality(J') + Cardinality(E') <= execs'[k[1]] * CallsPerExecution(k[2])
    BY <1>2, <1>3, <1>4, <1>5, <2>1, <2>2, Numbers
  <2> QED BY <2>1, <2>3 DEF Paid, J, E, CallsPerExecution
<1>6. CASE x \in E /\ E' \subseteq E \ {x} /\ J' \subseteq J
  <2>1. /\ IsFiniteSet(J') /\ Cardinality(J') <= Cardinality(J)
        /\ IsFiniteSet(E') /\ Cardinality(E') <= Cardinality(E \ {x})
    BY <1>1, <1>2, <1>6, FS_Subset
  <2>2. Cardinality(J') \in Nat /\ Cardinality(E') \in Nat
    BY <2>1, FS_CardinalityType
  <2> HIDE DEF J, E
  <2>3. calls'[k] + Cardinality(J') + Cardinality(E') <= execs'[k[1]] * CallsPerExecution(k[2])
    BY <1>2, <1>3, <1>4, <1>6, <2>1, <2>2, Numbers
  <2> QED BY <2>1, <2>3 DEF Paid, J, E, CallsPerExecution
<1> QED BY <1>5, <1>6

(* An executor that queues a step hands its tickets to the job.            *)
LEMMA PaidOver ==
  ASSUME TypeOK, NEW k \in Key, Paid(k), calls'[k] = calls[k], execs'[k[1]] = execs[k[1]],
         NEW p, NEW j, NEW c \in Nat, {p} \X (1 .. c) \subseteq ExecTickets(k),
         ExecTickets(k)' \subseteq ExecTickets(k) \ ({p} \X (1 .. c)),
         JobTickets(k)' \subseteq JobTickets(k) \cup ({j} \X (1 .. c))
  PROVE  Paid(k)'
<1> DEFINE J == JobTickets(k)
           E == ExecTickets(k)
           A == {p} \X (1 .. c)
           B == {j} \X (1 .. c)
<1>1. IsFiniteSet(J) /\ IsFiniteSet(E)
  BY DEF Paid
<1>2. /\ IsFiniteSet(A) /\ Cardinality(A) = c /\ IsFiniteSet(B) /\ Cardinality(B) = c
      /\ E' \subseteq E \ A /\ A \subseteq E /\ J' \subseteq J \cup B
  BY Pile
<1>3. calls[k] + Cardinality(J) + Cardinality(E) <= execs[k[1]] * CallsPerExecution(k[2])
  BY DEF Paid
<1> HIDE DEF A, B, J, E
<1>4. IsFiniteSet(E \ A) /\ Cardinality(E \ A) = Cardinality(E) - c
  <2>1. E \cap A = A
    BY <1>2
  <2> QED BY <1>1, <1>2, <2>1, FS_Difference
<1>5. IsFiniteSet(J \cup B) /\ Cardinality(J \cup B) <= Cardinality(J) + c
  <2>1. Cardinality(J \cap B) \in Nat /\ Cardinality(J) \in Nat
    BY <1>1, FS_Intersection, FS_CardinalityType
  <2>2. IsFiniteSet(J \cup B) /\ Cardinality(J \cup B) = Cardinality(J) + c - Cardinality(J \cap B)
    BY <1>1, <1>2, FS_Union
  <2> QED BY <2>1, <2>2
<1>6. /\ IsFiniteSet(J') /\ Cardinality(J') <= Cardinality(J \cup B)
      /\ IsFiniteSet(E') /\ Cardinality(E') <= Cardinality(E \ A)
  BY <1>2, <1>4, <1>5, FS_Subset
<1>7. /\ Cardinality(J) \in Nat /\ Cardinality(J') \in Nat /\ Cardinality(J \cup B) \in Nat
      /\ Cardinality(E) \in Nat /\ Cardinality(E') \in Nat
  BY <1>1, <1>5, <1>6, FS_CardinalityType
<1>8. calls'[k] + Cardinality(J') + Cardinality(E') <= execs'[k[1]] * CallsPerExecution(k[2])
  BY <1>3, <1>4, <1>5, <1>6, <1>7, Numbers
<1> QED BY <1>6, <1>8 DEF Paid, J, E, CallsPerExecution

(* An execution that starts is given the tickets of every step.            *)
LEMMA PaidOut ==
  ASSUME TypeOK, NEW k \in Key, Paid(k), calls'[k] = calls[k],
         execs'[k[1]] = execs[k[1]] + 1, NEW p,
         ExecTickets(k)' \subseteq
           ExecTickets(k) \cup ({p} \X (1 .. CallsPerExecution(k[2]))),
         JobTickets(k)' \subseteq JobTickets(k)
  PROVE  Paid(k)'
<1> DEFINE J == JobTickets(k)
           E == ExecTickets(k)
           c == CallsPerExecution(k[2])
           B == {p} \X (1 .. c)
<1>1. IsFiniteSet(J) /\ IsFiniteSet(E)
  BY DEF Paid
<1>2. c \in Nat
  BY Numbers
<1>3. calls[k] + Cardinality(J) + Cardinality(E) <= execs[k[1]] * c
  BY DEF Paid
<1> HIDE DEF c
<1>4. IsFiniteSet(B) /\ Cardinality(B) = c
  BY <1>2, Pile
<1>5. E' \subseteq E \cup B /\ J' \subseteq J
  BY DEF c
<1> HIDE DEF B, J, E
<1>6. IsFiniteSet(E \cup B) /\ Cardinality(E \cup B) <= Cardinality(E) + c
  <2>1. Cardinality(E \cap B) \in Nat /\ Cardinality(E) \in Nat
    BY <1>1, FS_Intersection, FS_CardinalityType
  <2>2. IsFiniteSet(E \cup B) /\ Cardinality(E \cup B) = Cardinality(E) + c - Cardinality(E \cap B)
    BY <1>1, <1>4, FS_Union
  <2> QED BY <1>2, <2>1, <2>2
<1>7. /\ IsFiniteSet(J') /\ Cardinality(J') <= Cardinality(J)
      /\ IsFiniteSet(E') /\ Cardinality(E') <= Cardinality(E \cup B)
  BY <1>1, <1>5, <1>6, FS_Subset
<1>8. /\ Cardinality(J) \in Nat /\ Cardinality(J') \in Nat /\ Cardinality(E \cup B) \in Nat
      /\ Cardinality(E) \in Nat /\ Cardinality(E') \in Nat
  BY <1>1, <1>6, <1>7, FS_CardinalityType
<1>9. execs'[k[1]] * c = execs[k[1]] * c + c /\ execs[k[1]] * c \in Nat
  BY Numbers DEF c
<1>10. calls'[k] + Cardinality(J') + Cardinality(E') <= execs'[k[1]] * c
  BY <1>2, <1>3, <1>6, <1>7, <1>8, <1>9, Numbers
<1> QED BY <1>7, <1>10 DEF Paid, J, E, c, CallsPerExecution

(* What is left of a job as it moves on.                                   *)
LEMMA Lefts ==
  ASSUME NEW x \in Jobs, x.att < Attempts
  PROVE  /\ JobLeft(x) \in Nat
         /\ x.st = "waiting" => JobLeft(x) >= 1
         /\ x.st = "waiting" => JobLeft([x EXCEPT !.st = "active"]) = JobLeft(x) - 1
         /\ x.st = "delayed" => JobLeft([x EXCEPT !.st = "waiting"]) = JobLeft(x)
         /\ \A st \in {"done", "failed"} : JobLeft([x EXCEPT !.st = st]) = 0
         /\ x.st \in {"waiting", "active"} =>
              JobLeft([x EXCEPT !.st = "delayed", !.att = @ + 1]) <= JobLeft(x)
         /\ "crash" \in Faults /\ x.st = "active" /\ ~x.stalled =>
              JobLeft([x EXCEPT !.st = "waiting", !.stalled = TRUE]) = JobLeft(x)
<1>1. Attempts \in Nat /\ x.att \in Nat /\ Handed(x) \in {0, 1}
  BY ConstantsType DEF Jobs, Handed
<1>2. \A st \in {"waiting", "active", "done", "failed"} :
        LET y == [x EXCEPT !.st = st]
        IN  y.st = st /\ y.att = x.att /\ Handed(y) = Handed(x)
  BY DEF Jobs, Handed
<1>3. LET y == [x EXCEPT !.st = "delayed", !.att = @ + 1]
      IN  y.st = "delayed" /\ y.att = x.att + 1 /\ Handed(y) = Handed(x)
  BY DEF Jobs, Handed
<1>4. LET y == [x EXCEPT !.st = "waiting", !.stalled = TRUE]
      IN  y.st = "waiting" /\ y.att = x.att /\ Handed(y) = 0
  BY DEF Jobs, Handed
<1>5. "crash" \in Faults /\ ~x.stalled => Handed(x) = 1
  BY DEF Handed
<1> QED BY <1>1, <1>2, <1>3, <1>4, <1>5 DEF JobLeft

(* What a job has left is a number.                                        *)
LEMMA JobLeftType ==
  ASSUME NEW x \in Jobs, x.att < Attempts
  PROVE  JobLeft(x) \in Nat
BY Lefts

(* A slot without a job has no ticket.                                     *)
LEMMA NoJobLeft == JobLeft(NoJob) = 0 /\ NoJob.att = 0
BY DEF JobLeft, NoJob

(* A step of the queue, or of a job, that gives nothing out.               *)
LEMMA JobsShrink ==
  ASSUME TypeOK, AttemptsLeft, NEW k \in Key,
         \A j \in Slots : \/ /\ KeyOf(j)' = KeyOf(j) /\ JobLeft(jobs'[j]) \in Int
                             /\ JobLeft(jobs'[j]) <= JobLeft(jobs[j])
                          \/ JobLeft(jobs'[j]) = 0
  PROVE  JobTickets(k)' \subseteq JobTickets(k)
<1>1. \A j \in Slots : JobLeft(jobs[j]) \in Nat
  BY JobLeftType DEF TypeOK, AttemptsLeft
<1> SUFFICES ASSUME NEW j \in Slots, NEW n \in Nat, KeyOf(j)' = k, 1 <= n,
                    n <= JobLeft(jobs'[j])
             PROVE  KeyOf(j) = k /\ n <= JobLeft(jobs[j])
  BY DEF JobTickets
<1> QED BY <1>1

(* A job whose attempt ends keeps what is left, or less.                   *)
LEMMA AttemptOver ==
  ASSUME TypeOK, AttemptsLeft, NEW j \in Slots, jobs[j].st \in {"waiting", "active"},
         AttemptFails(j) \/ JobDone(j)
  PROVE  AttemptsLeft' /\ \A k \in Key : JobTickets(k)' \subseteq JobTickets(k)
<1>0. jobs[j] \in Jobs /\ jobs[j].att < Attempts /\ Attempts \in Nat \ {0}
  BY StepQueueAssumption DEF TypeOK, AttemptsLeft
<1>1. \A i \in Slots \ {j} : jobs'[i] = jobs[i]
  BY DEF AttemptFails, JobDone, TypeOK
<1>2. \A st \in {"done", "failed"} :
        Settled(j, st) = NoJob \/ Settled(j, st) = [jobs[j] EXCEPT !.st = st]
  BY DEF Settled
<1>3. \/ jobs[j].att + 1 < Attempts /\ jobs'[j] = [jobs[j] EXCEPT !.st = "delayed", !.att = @ + 1]
      \/ jobs'[j] = NoJob
      \/ \E st \in {"done", "failed"} : jobs'[j] = [jobs[j] EXCEPT !.st = st]
  BY <1>2 DEF AttemptFails, JobDone, TypeOK
<1>4. /\ jobs'[j].att < Attempts
      /\ \/ KeyOf(j)' = KeyOf(j) /\ JobLeft(jobs'[j]) <= JobLeft(jobs[j])
         \/ JobLeft(jobs'[j]) = 0
  <2>1. CASE jobs[j].att + 1 < Attempts /\ jobs'[j] = [jobs[j] EXCEPT !.st = "delayed", !.att = @ + 1]
    <3>1. jobs'[j].att = jobs[j].att + 1 /\ KeyOf(j)' = KeyOf(j)
      BY <1>0, <2>1 DEF Jobs, KeyOf
    <3>2. JobLeft(jobs'[j]) <= JobLeft(jobs[j])
      BY <1>0, <2>1, Lefts
    <3> QED BY <2>1, <3>1, <3>2
  <2>2. CASE jobs'[j] = NoJob
    BY <1>0, <2>2, NoJobLeft
  <2>3. ASSUME NEW st \in {"done", "failed"}, jobs'[j] = [jobs[j] EXCEPT !.st = st]
        PROVE  jobs'[j].att < Attempts /\ JobLeft(jobs'[j]) = 0
    <3>1. jobs'[j].att = jobs[j].att
      BY <1>0, <2>3 DEF Jobs
    <3> QED BY <1>0, <2>3, <3>1, Lefts
  <2> QED BY <1>3, <2>1, <2>2, <2>3
<1>5. jobs' \in [Slots -> Jobs]
  BY JobChangesType
<1>6. AttemptsLeft'
  BY <1>1, <1>4 DEF AttemptsLeft
<1>7. \A i \in Slots : JobLeft(jobs'[i]) \in Int /\ JobLeft(jobs[i]) \in Int
  BY <1>5, <1>6, JobLeftType DEF TypeOK, AttemptsLeft
<1>8. \A i \in Slots : \/ KeyOf(i)' = KeyOf(i) /\ JobLeft(jobs'[i]) <= JobLeft(jobs[i])
                       \/ JobLeft(jobs'[i]) = 0
  BY <1>1, <1>4, <1>7 DEF KeyOf
<1> QED BY <1>6, <1>7, <1>8, JobsShrink

(* What an executor has left is a number, and less when it goes on.        *)
LEMMA ExecLefts ==
  ASSUME NEW e \in Execs, NEW k \in Key
  PROVE  ExecLeft(e, k) \in Nat
<1>1. CallsPerExecution(k[2]) \in Nat
  BY ConstantsType DEF CallsPerExecution, Key
<1>2. Retries + 1 - e.tries \in Nat
  BY ConstantsType DEF Execs
<1> QED BY <1>1, <1>2 DEF ExecLeft

(* An idle executor has no ticket.                                         *)
LEMMA NothingLeft == \A k : ExecLeft(Idle, k) = 0
BY DEF ExecLeft, Idle

(* Going on to the next step gives an executor no further ticket.          *)
LEMMA GoesOn ==
  ASSUME NEW e \in Execs, NEW k \in Key, e.step \in Step, e.pc # "idle"
  PROVE  ExecLeft(NextStep(e), k) <= ExecLeft(e, k)
<1>1. /\ CallsPerExecution(k[2]) \in Nat /\ k[2] \in Nat
      /\ (ToolOf[k[2]] \in Inline => CallsPerExecution(k[2]) = Retries + 1)
  BY ConstantsType DEF CallsPerExecution, Key, Step
<1>2. e.step \in Nat /\ ExecLeft(e, k) \in Nat /\ Retries \in Nat
  BY ConstantsType, ExecLefts DEF Step
<1>3. /\ NextStep(e).pc = "next" /\ NextStep(e).run = e.run /\ NextStep(e).step = e.step + 1
      /\ NextStep(e).tries = 0
  BY NextStepType DEF NextStep, Idle
<1>4. CASE e.run # k[1] \/ k[2] <= e.step
  <2>1. ExecLeft(NextStep(e), k) = 0
    BY <1>1, <1>2, <1>3, <1>4 DEF ExecLeft
  <2> QED BY <1>2, <2>1
<1>5. CASE e.run = k[1] /\ e.step < k[2]
  <2>1. ExecLeft(e, k) = CallsPerExecution(k[2])
    BY <1>1, <1>2, <1>5 DEF ExecLeft
  <2>2. ExecLeft(NextStep(e), k) = CallsPerExecution(k[2])
    BY <1>1, <1>2, <1>3, <1>5 DEF ExecLeft
  <2> QED BY <1>1, <2>1, <2>2
<1> QED BY <1>1, <1>2, <1>4, <1>5

(* An executor that gives nothing out.                                     *)
LEMMA ExecsShrink ==
  ASSUME TypeOK, NEW p \in Processes, NEW k \in Key, \A q \in Processes \ {p} : exec'[q] = exec[q],
         exec'[p] \in Execs, ExecLeft(exec'[p], k) <= ExecLeft(exec[p], k)
  PROVE  ExecTickets(k)' \subseteq ExecTickets(k)
<1>1. ExecLeft(exec'[p], k) \in Nat /\ ExecLeft(exec[p], k) \in Nat
  BY ExecLefts DEF TypeOK
<1> SUFFICES ASSUME NEW q \in Processes, NEW n \in Nat, 1 <= n, n <= ExecLeft(exec'[q], k)
             PROVE  n <= ExecLeft(exec[q], k)
  BY DEF ExecTickets
<1> QED BY <1>1

(* A step that calls no tool and hands nothing out.                        *)
LEMMA NoCall ==
  ASSUME TypeOK, TicketInv, AttemptsLeft', UNCHANGED <<calls, execs>>,
         \A k \in Key : JobTickets(k)' \subseteq JobTickets(k)
                          /\ ExecTickets(k)' \subseteq ExecTickets(k)
  PROVE  TicketInv'
<1> SUFFICES ASSUME NEW k \in Key PROVE Paid(k)'
  BY DEF TicketInv
<1>1. calls'[k] = calls[k] /\ execs'[k[1]] = execs[k[1]] /\ Paid(k)
  BY DEF TicketInv
<1> QED BY <1>1, PaidStays

(* Jobs that stay as they are have the tickets they had; so do executors.  *)
LEMMA JobsStay ==
  ASSUME UNCHANGED jobs
  PROVE  (AttemptsLeft => AttemptsLeft') /\ \A k : JobTickets(k)' = JobTickets(k)
BY DEF AttemptsLeft, JobTickets, KeyOf

(* Executors that stay as they are keep their tickets.                     *)
LEMMA ExecsStay ==
  ASSUME UNCHANGED exec
  PROVE  \A k : ExecTickets(k)' = ExecTickets(k)
BY DEF ExecTickets

(* An executor that calls a tool takes a ticket of its own.                *)
LEMMA ExecCalls ==
  ASSUME TypeOK, NEW p \in Processes, NEW k \in Key, \A q \in Processes \ {p} : exec'[q] = exec[q],
         exec'[p] \in Execs, ExecLeft(exec'[p], k) <= ExecLeft(exec[p], k) - 1
  PROVE  /\ <<p, ExecLeft(exec[p], k)>> \in ExecTickets(k)
         /\ ExecTickets(k)' \subseteq ExecTickets(k) \ {<<p, ExecLeft(exec[p], k)>>}
<1>1. ExecLeft(exec'[p], k) \in Nat /\ ExecLeft(exec[p], k) \in Nat
  BY ExecLefts DEF TypeOK
<1>2. <<p, ExecLeft(exec[p], k)>> \in ExecTickets(k)
  BY <1>1 DEF ExecTickets
<1>3. ASSUME NEW q \in Processes, NEW n \in Nat, 1 <= n, n <= ExecLeft(exec'[q], k)
      PROVE  n <= ExecLeft(exec[q], k) /\ <<q, n>> # <<p, ExecLeft(exec[p], k)>>
  BY <1>1, <1>3
<1>4. ExecTickets(k)' \subseteq ExecTickets(k) \ {<<p, ExecLeft(exec[p], k)>>}
  BY <1>3 DEF ExecTickets
<1> QED BY <1>2, <1>4

-----------------------------------------------------------------------------
(* A started execution of a run brings the tickets of every step.          *)
LEMMA StartPaid ==
  ASSUME TypeOK, TicketInv, NEW p \in Processes, NEW r \in Runs, StartRun(p, r)
  PROVE  TicketInv'
<1> DEFINE e == [Idle EXCEPT !.pc = "next", !.run = r]
<1>0. /\ UNCHANGED <<jobs, calls>> /\ execs' = [execs EXCEPT ![r] = @ + 1]
      /\ exec[p].pc = "idle"
      /\ exec'[p] = e /\ \A q \in Processes \ {p} : exec'[q] = exec[q]
  BY DEF StartRun, Becomes, queueVars, TypeOK
<1>1. e.pc = "next" /\ e.run = r /\ e.step = 1 /\ e.tries = 0
  BY DEF Idle
<1>2. AttemptsLeft' /\ \A k \in Key : JobTickets(k)' = JobTickets(k)
  BY <1>0, JobsStay DEF TicketInv
<1> SUFFICES ASSUME NEW k \in Key PROVE Paid(k)'
  BY <1>2 DEF TicketInv
<1> DEFINE c == CallsPerExecution(k[2])
<1>3. /\ k[1] \in Runs /\ k[2] \in Step /\ c \in Nat
      /\ (ToolOf[k[2]] \in Inline => c = Retries + 1) /\ Retries \in Nat
      /\ k[2] \in Nat /\ 1 <= k[2]
  BY Numbers, ConstantsType DEF CallsPerExecution, Step
<1>4. calls'[k] = calls[k] /\ Paid(k)
  BY <1>0 DEF TicketInv
<1>5. CASE k[1] = r
  <2>1. execs'[k[1]] = execs[k[1]] + 1
    BY <1>0, <1>5 DEF TypeOK
  <2>2. ExecLeft(e, k) = c
    BY <1>1, <1>3, <1>5 DEF ExecLeft
  <2> HIDE DEF c, e
  <2>3. ASSUME NEW q \in Processes, NEW n \in Nat, 1 <= n, n <= ExecLeft(exec'[q], k)
        PROVE  <<q, n>> \in ExecTickets(k) \cup ({p} \X (1 .. c))
    <3>1. CASE q = p
      BY <1>0, <1>3, <2>2, <2>3, <3>1
    <3>2. CASE q # p
      BY <1>0, <2>3, <3>2 DEF ExecTickets
    <3> QED BY <3>1, <3>2
  <2>4. ExecTickets(k)' \subseteq ExecTickets(k) \cup ({p} \X (1 .. c))
    BY <2>3 DEF ExecTickets
  <2> QED BY <1>2, <1>4, <2>1, <2>4, PaidOut DEF c
<1>6. CASE k[1] # r
  <2>1. execs'[k[1]] = execs[k[1]]
    BY <1>0, <1>3, <1>6 DEF TypeOK
  <2>2. ExecLeft(exec'[p], k) = 0
    BY <1>0, <1>1, <1>6 DEF ExecLeft
  <2> HIDE DEF c, e
  <2>3. ASSUME NEW q \in Processes, NEW n \in Nat, 1 <= n, n <= ExecLeft(exec'[q], k)
        PROVE  n <= ExecLeft(exec[q], k)
    BY <1>0, <2>2, <2>3
  <2>4. ExecTickets(k)' \subseteq ExecTickets(k)
    BY <2>3 DEF ExecTickets
  <2> QED BY <1>2, <1>4, <2>1, <2>4, PaidStays
<1> QED BY <1>5, <1>6

(* A queued step's tickets go to its job, all of them.                     *)
LEMMA IssuePaid ==
  ASSUME TypeOK, QueueInv, TicketInv, NEW p \in Processes, Issue(p)
  PROVE  TicketInv'
<1> DEFINE e == exec[p]
<1>1. PICK j \in Slots :
        /\ jobs[j].st = "free"
        /\ jobs' = [jobs EXCEPT ![j] =
             [NoJob EXCEPT !.st = "waiting", !.run = e.run, !.step = e.step]]
        /\ Becomes(p, [e EXCEPT !.pc = "wait", !.slot = j])
  BY DEF Issue
<1>2. /\ e \in Execs /\ e.pc = "next" /\ e.step \in Step /\ ToolOf[e.step] \notin Inline
      /\ UNCHANGED <<calls, execs>>
  BY DEF Issue, Current, TypeOK, counts
<1>3. /\ jobs'[j].st = "waiting" /\ jobs'[j].att = 0 /\ jobs'[j].stalled = FALSE
      /\ jobs'[j].run = e.run /\ jobs'[j].step = e.step
      /\ \A i \in Slots \ {j} : jobs'[i] = jobs[i]
  BY <1>1 DEF TypeOK, NoJob
<1>4. /\ exec'[p].pc = "wait" /\ exec'[p].run = e.run /\ exec'[p].step = e.step
      /\ \A q \in Processes \ {p} : exec'[q] = exec[q]
  BY <1>1, <1>2 DEF TypeOK, Becomes, Execs
<1>5. AttemptsLeft'
  BY <1>3, StepQueueAssumption DEF TicketInv, AttemptsLeft
<1>6. Attempts \in Nat \ {0} /\ e.step \in Nat
  BY <1>2, ConstantsType, StepQueueAssumption
<1> SUFFICES ASSUME NEW k \in Key PROVE Paid(k)'
  BY <1>5 DEF TicketInv
<1> DEFINE c == CallsPerExecution(k[2])
<1>7. /\ k = <<k[1], k[2]>> /\ c \in Nat /\ k[2] \in Nat
      /\ calls'[k] = calls[k] /\ execs'[k[1]] = execs[k[1]] /\ Paid(k)
  BY <1>2, Numbers, ConstantsType DEF TicketInv
<1>8. CASE k[1] = e.run /\ k[2] = e.step
  <2>1. JobLeft(jobs'[j]) = c
    BY <1>2, <1>3, <1>6, <1>8 DEF JobLeft, Handed, CallsPerExecution
  <2>2. ExecLeft(e, k) = c
    BY <1>2, <1>6, <1>8 DEF ExecLeft
  <2>3. ExecLeft(exec'[p], k) = 0
    BY <1>4, <1>6, <1>8 DEF ExecLeft
  <2> HIDE DEF c, e
  <2>4. {p} \X (1 .. c) \subseteq ExecTickets(k)
    BY <1>7, <2>2 DEF ExecTickets, e
  <2>5. ASSUME NEW q \in Processes, NEW n \in Nat, 1 <= n, n <= ExecLeft(exec'[q], k)
        PROVE  q # p /\ n <= ExecLeft(exec[q], k)
    BY <1>4, <2>3, <2>5
  <2>6. ExecTickets(k)' \subseteq ExecTickets(k) \ ({p} \X (1 .. c))
    BY <2>5 DEF ExecTickets
  <2>7. ASSUME NEW i \in Slots, NEW n \in Nat, 1 <= n, n <= JobLeft(jobs'[i]), KeyOf(i)' = k
        PROVE  <<i, n>> \in JobTickets(k) \cup ({j} \X (1 .. c))
    <3>1. CASE i = j
      BY <1>7, <2>1, <2>7, <3>1
    <3>2. CASE i # j
      BY <1>3, <2>7, <3>2 DEF JobTickets, KeyOf
    <3> QED BY <3>1, <3>2
  <2>8. JobTickets(k)' \subseteq JobTickets(k) \cup ({j} \X (1 .. c))
    BY <2>7 DEF JobTickets
  <2> QED BY <1>7, <2>4, <2>6, <2>8, PaidOver
<1>9. CASE ~(k[1] = e.run /\ k[2] = e.step)
  <2>1. ExecLeft(exec'[p], k) = ExecLeft(e, k)
    BY <1>2, <1>4, <1>6, <1>7, <1>9 DEF ExecLeft
  <2>2. KeyOf(j)' # k
    BY <1>3, <1>7, <1>9 DEF KeyOf
  <2>3. ASSUME NEW i \in Slots, NEW n \in Nat, KeyOf(i)' = k, n <= JobLeft(jobs'[i])
        PROVE  KeyOf(i) = k /\ n <= JobLeft(jobs[i])
    BY <1>3, <2>2, <2>3 DEF KeyOf
  <2>4. JobTickets(k)' \subseteq JobTickets(k)
    BY <2>3 DEF JobTickets
  <2>5. \A q \in Processes : ExecLeft(exec'[q], k) = ExecLeft(exec[q], k)
    BY <1>4, <2>1
  <2>6. ExecTickets(k)' \subseteq ExecTickets(k)
    BY <2>5 DEF ExecTickets
  <2> QED BY <1>7, <2>4, <2>6, PaidStays
<1> QED BY <1>8, <1>9

(* An executor that stops, or goes on to its next step, hands nothing out. *)
LEMMA GoesOnPaid ==
  ASSUME TypeOK, QueueInv, TicketInv, NEW p \in Processes, NEW e \in Execs, Becomes(p, e),
         e = Idle \/ (exec[p].pc # "idle" /\ exec[p].step \in Step /\ e = NextStep(exec[p])),
         AttemptsLeft', \A k \in Key : JobTickets(k)' \subseteq JobTickets(k),
         UNCHANGED <<calls, execs>>
  PROVE  TicketInv'
<1>1. exec'[p] = e /\ \A q \in Processes \ {p} : exec'[q] = exec[q]
  BY DEF Becomes, TypeOK
<1>2. ASSUME NEW k \in Key PROVE ExecLeft(e, k) <= ExecLeft(exec[p], k)
  <2>1. exec[p] \in Execs /\ ExecLeft(exec[p], k) \in Nat
    BY ExecLefts DEF TypeOK
  <2> QED BY <2>1, NothingLeft, GoesOn
<1>3. \A k \in Key : ExecTickets(k)' \subseteq ExecTickets(k)
  BY <1>1, <1>2, ExecsShrink
<1> QED BY <1>3, NoCall

(* A finished job takes no ticket along.                                   *)
LEMMA DropPaid ==
  ASSUME TypeOK, TicketInv, NEW j \in Slots, jobs' = [jobs EXCEPT ![j] = NoJob]
  PROVE  AttemptsLeft' /\ \A k \in Key : JobTickets(k)' \subseteq JobTickets(k)
<1>1. jobs'[j] = NoJob /\ \A i \in Slots \ {j} : jobs'[i] = jobs[i]
  BY DEF TypeOK
<1>2. AttemptsLeft'
  BY <1>1, NoJobLeft, StepQueueAssumption DEF TicketInv, AttemptsLeft
<1>3. \A i \in Slots : JobLeft(jobs[i]) \in Nat
  BY JobLeftType DEF TypeOK, TicketInv, AttemptsLeft
<1>4. \A i \in Slots : \/ /\ KeyOf(i)' = KeyOf(i) /\ JobLeft(jobs'[i]) \in Int
                          /\ JobLeft(jobs'[i]) <= JobLeft(jobs[i])
                       \/ JobLeft(jobs'[i]) = 0
  BY <1>1, <1>3, NoJobLeft DEF KeyOf
<1> QED BY <1>2, <1>4, JobsShrink DEF TicketInv

(* An executor that tries again has a try less.                            *)
LEMMA TriesLess ==
  ASSUME NEW e \in Execs, e.pc = "next", e.step \in Step, ToolOf[e.step] \in Inline,
         e.tries < Retries
  PROVE  LET f == [e EXCEPT !.tries = @ + 1]
         IN  /\ ExecLeft(f, <<e.run, e.step>>) = ExecLeft(e, <<e.run, e.step>>) - 1
             /\ \A k \in Key \ {<<e.run, e.step>>} : ExecLeft(f, k) = ExecLeft(e, k)
<1> DEFINE f == [e EXCEPT !.tries = @ + 1]
<1>1. /\ f.pc = e.pc /\ f.run = e.run /\ f.step = e.step /\ f.tries = e.tries + 1
      /\ e.tries \in Nat /\ Retries \in Nat /\ e.step \in Nat
  BY ConstantsType DEF Execs
<1> HIDE DEF f
<1>2. ExecLeft(f, <<e.run, e.step>>) = ExecLeft(e, <<e.run, e.step>>) - 1
  BY <1>1 DEF ExecLeft
<1>3. ASSUME NEW k \in Key, k # <<e.run, e.step>> PROVE ExecLeft(f, k) = ExecLeft(e, k)
  <2>0. k = <<k[1], k[2]>> /\ k[2] \in Step
    BY DEF Key
  <2>1. k = <<k[1], k[2]>> /\ k[2] \in Nat
    BY <2>0, ConstantsType
  <2>2. ~(e.run = k[1] /\ e.step = k[2])
    BY <1>3, <2>1
  <2> QED BY <1>1, <2>1, <2>2 DEF ExecLeft
<1> QED BY <1>2, <1>3 DEF f

(* A call of an inline step takes one of its executor's tickets; the call  *)
(* that was rejected wastes one.                                           *)
LEMMA InlinePaid ==
  ASSUME TypeOK, QueueInv, TicketInv, NEW p \in Processes, Current(p, TRUE),
         NEW e, Becomes(p, e), UNCHANGED <<jobs, execs>>,
         \/ e = Idle \/ e = NextStep(exec[p])
         \/ exec[p].tries < Retries /\ e = [exec[p] EXCEPT !.tries = @ + 1],
         Called(<<exec[p].run, exec[p].step>>) \/ UNCHANGED calls
  PROVE  TicketInv'
<1> DEFINE o == exec[p]
           own == <<o.run, o.step>>
<1>1. /\ o \in Execs /\ o.pc = "next" /\ o.step \in Step /\ o.run \in Runs
      /\ ToolOf[o.step] \in Inline /\ own \in Key
  BY ConstantsType DEF Current, TypeOK, QueueInv, WaitsInv
<1>2. e \in Execs
  <2>1. CASE o.tries < Retries /\ e = [o EXCEPT !.tries = @ + 1]
    BY <1>1, <2>1, ConstantsType DEF Execs
  <2> QED BY <1>1, <2>1, IdleType, NextStepType
<1>3. exec'[p] = e /\ \A q \in Processes \ {p} : exec'[q] = exec[q]
  BY DEF Becomes, TypeOK
<1>4. ExecLeft(e, own) <= ExecLeft(o, own) - 1
  <2>1. ExecLeft(o, own) = Retries + 1 - o.tries /\ Retries + 1 - o.tries >= 1
    BY <1>1, ConstantsType DEF ExecLeft, Execs
  <2>2. ExecLeft(NextStep(o), own) = 0
    BY <1>1, NextStepType, ConstantsType DEF ExecLeft
  <2>3. ExecLeft(o, own) \in Nat /\ Retries \in Nat
    BY <1>1, <2>1, ExecLefts, ConstantsType
  <2>4. CASE e = Idle \/ e = NextStep(o)
    BY <2>1, <2>2, <2>3, <2>4, NothingLeft
  <2>5. CASE o.tries < Retries /\ e = [o EXCEPT !.tries = @ + 1]
    BY <1>1, <2>3, <2>5, TriesLess
  <2> QED BY <2>4, <2>5
<1>5. ASSUME NEW k \in Key PROVE ExecLeft(e, k) <= ExecLeft(o, k)
  <2>1. ExecLeft(o, k) \in Nat /\ ExecLeft(o, own) \in Nat /\ ExecLeft(e, own) \in Nat
    BY <1>1, <1>2, ExecLefts
  <2>2. CASE e = Idle \/ e = NextStep(o)
    BY <1>1, <2>1, <2>2, NothingLeft, GoesOn
  <2>3. CASE o.tries < Retries /\ e = [o EXCEPT !.tries = @ + 1]
    BY <1>1, <1>4, <2>1, <2>3, TriesLess
  <2> QED BY <2>2, <2>3
<1>6. AttemptsLeft' /\ \A k \in Key : JobTickets(k)' \subseteq JobTickets(k)
  BY JobsStay DEF TicketInv
<1>7. \A k \in Key : ExecTickets(k)' \subseteq ExecTickets(k)
  BY <1>2, <1>3, <1>5, ExecsShrink
<1>8. CASE UNCHANGED calls
  BY <1>6, <1>7, <1>8, NoCall
<1>9. CASE Called(own)
  <2> SUFFICES ASSUME NEW k \in Key PROVE Paid(k)'
    BY <1>6 DEF TicketInv
  <2>1. execs'[k[1]] = execs[k[1]] /\ Paid(k)
    BY DEF TicketInv
  <2>2. CASE k = own
    <3>1. calls'[k] = calls[k] + 1
      BY <1>1, <1>9, <2>2 DEF Called, TypeOK
    <3>2. /\ <<p, ExecLeft(o, k)>> \in ExecTickets(k)
          /\ ExecTickets(k)' \subseteq ExecTickets(k) \ {<<p, ExecLeft(o, k)>>}
      BY <1>2, <1>3, <1>4, <2>2, ExecCalls
    <3> QED BY <1>6, <2>1, <3>1, <3>2, PaidCall
  <2>3. CASE k # own
    <3>1. calls'[k] = calls[k]
      BY <1>9, <2>3 DEF Called, TypeOK
    <3> QED BY <1>6, <1>7, <2>1, <3>1, PaidStays
  <2> QED BY <2>2, <2>3
<1> QED BY <1>8, <1>9

(* What an executor does is paid for.                                      *)
LEMMA ExecutorPaid ==
  ASSUME TypeOK, QueueInv, TicketInv, NEW p \in Processes, Executes(p)
  PROVE  TicketInv'
<1> DEFINE e == exec[p]
<1>0. /\ e \in Execs /\ Idle \in Execs
      /\ (e.pc = "wait" => e.slot \in Slots /\ e.step \in Step)
      /\ (e.step \in Step => NextStep(e) \in Execs)
  <2>1. e \in Execs /\ Idle \in Execs
    BY IdleType DEF TypeOK
  <2>2. ASSUME e.pc = "wait" PROVE e.slot \in Slots /\ <<e.run, e.step>> \in Key
    BY <2>1, <2>2, ExecsType DEF QueueInv, JobsInv, WaitsInv
  <2> QED BY <2>1, <2>2, NextStepType DEF Key
<1>1. CASE Issue(p)
  BY <1>1, IssuePaid
<1>2. CASE SkipStep(p)
  <2>1. /\ e.pc # "idle" /\ e.step \in Step /\ Becomes(p, NextStep(e)) /\ UNCHANGED <<jobs, calls, execs>>
    BY <1>2 DEF SkipStep, queueVars, counts
  <2> QED BY <1>0, <2>1, JobsStay, GoesOnPaid DEF TicketInv
<1>3. CASE IssueFails(p) \/ EndRun(p) \/ Timeout(p)
  <2>1. Becomes(p, Idle) /\ UNCHANGED <<jobs, calls, execs>>
    BY <1>3 DEF IssueFails, EndRun, Timeout, queueVars, counts
  <2> QED BY <1>0, <2>1, JobsStay, GoesOnPaid DEF TicketInv
<1>4. CASE Answered(p) \/ Refused(p)
  <2>1. /\ e.pc = "wait" /\ jobs' = [jobs EXCEPT ![e.slot] = NoJob] /\ UNCHANGED <<calls, execs>>
        /\ Becomes(p, Idle) \/ Becomes(p, NextStep(e))
    BY <1>4 DEF Answered, Refused, counts
  <2>2. AttemptsLeft' /\ \A k \in Key : JobTickets(k)' \subseteq JobTickets(k)
    BY <1>0, <2>1, DropPaid
  <2> QED BY <1>0, <2>1, <2>2, GoesOnPaid
<1>5. CASE InlineRejected(p)
  <2>1. /\ Current(p, TRUE) /\ UNCHANGED <<jobs, calls, execs>>
        /\ TryAgain(p) \/ Becomes(p, Idle)
    BY <1>5 DEF InlineRejected, queueVars, counts
  <2> QED BY <2>1, InlinePaid DEF TryAgain
<1>6. CASE InlineReturns(p)
  <2>1. /\ Current(p, TRUE) /\ UNCHANGED <<jobs, execs>> /\ Becomes(p, NextStep(e))
        /\ Called(<<e.run, e.step>>) \/ UNCHANGED calls
    BY <1>6 DEF InlineReturns, queueVars
  <2> QED BY <2>1, InlinePaid
<1>7. CASE InlineFails(p)
  <2>1. /\ Current(p, TRUE) /\ UNCHANGED <<jobs, execs>> /\ Called(<<e.run, e.step>>)
        /\ TryAgain(p) \/ Becomes(p, Idle)
    BY <1>7 DEF InlineFails, queueVars
  <2> QED BY <2>1, InlinePaid DEF TryAgain
<1> QED BY <1>1, <1>2, <1>3, <1>4, <1>5, <1>6, <1>7 DEF Executes

(* An attempt that ends, or is turned away, gives its tickets back to none. *)
LEMMA AttemptPaid ==
  ASSUME TypeOK, TicketInv, NEW j \in Slots, jobs[j].st \in {"waiting", "active"},
         AttemptFails(j) \/ JobDone(j), UNCHANGED <<exec, calls, execs>>
  PROVE  TicketInv'
<1>1. AttemptsLeft' /\ \A k \in Key : JobTickets(k)' \subseteq JobTickets(k)
  BY AttemptOver DEF TicketInv
<1> QED BY <1>1, ExecsStay, NoCall

(* The call of a step worker takes one of its job's tickets.               *)
LEMMA BeginPaid ==
  ASSUME TypeOK, QueueInv, TicketInv, NEW p \in Processes, Begin(p)
  PROVE  TicketInv'
<1>1. PICK j \in Slots : /\ Takes(p, j) /\ jobs' = [jobs EXCEPT ![j].st = "active"]
                         /\ Called(KeyOf(j)) /\ UNCHANGED <<exec, execs>>
  BY DEF Begin
<1> DEFINE n == JobLeft(jobs[j])
           x == <<j, n>>
<1>2. jobs[j] \in Jobs /\ jobs[j].st = "waiting" /\ KeyOf(j) \in Key /\ jobs[j].att < Attempts
  BY <1>1, TakesType DEF TypeOK, TicketInv, AttemptsLeft
<1>3. /\ jobs'[j] = [jobs[j] EXCEPT !.st = "active"] /\ \A i \in Slots \ {j} : jobs'[i] = jobs[i]
  BY <1>1 DEF TypeOK
<1>4. /\ jobs'[j].att = jobs[j].att /\ KeyOf(j)' = KeyOf(j)
      /\ n \in Nat /\ n >= 1 /\ JobLeft(jobs'[j]) = n - 1
  <2>1. jobs'[j].att = jobs[j].att /\ KeyOf(j)' = KeyOf(j)
    BY <1>2, <1>3 DEF Jobs, KeyOf
  <2>2. n \in Nat /\ n >= 1 /\ JobLeft(jobs'[j]) = n - 1
    BY <1>2, <1>3, Lefts
  <2> QED BY <2>1, <2>2
<1>5. AttemptsLeft'
  BY <1>3, <1>4 DEF TicketInv, AttemptsLeft
<1> HIDE DEF n
<1>6. ASSUME NEW i \in Slots, NEW m \in Nat, 1 <= m, m <= JobLeft(jobs'[i])
      PROVE  m <= JobLeft(jobs[i]) /\ <<i, m>> # x /\ KeyOf(i)' = KeyOf(i)
  <2>1. CASE i = j
    BY <1>4, <1>6, <2>1 DEF n
  <2>2. CASE i # j
    BY <1>3, <1>6, <2>2 DEF KeyOf
  <2> QED BY <2>1, <2>2
<1> SUFFICES ASSUME NEW k \in Key PROVE Paid(k)'
  BY <1>5 DEF TicketInv
<1>7. execs'[k[1]] = execs[k[1]] /\ Paid(k) /\ ExecTickets(k)' \subseteq ExecTickets(k)
  BY <1>1, ExecsStay DEF TicketInv
<1>8. JobTickets(k)' \subseteq JobTickets(k) \ {x}
  BY <1>6 DEF JobTickets
<1>9. CASE k = KeyOf(j)
  <2>1. calls'[k] = calls[k] + 1
    BY <1>1, <1>9 DEF Called, TypeOK
  <2>2. x \in JobTickets(k)
    BY <1>4, <1>9 DEF JobTickets, n
  <2> QED BY <1>7, <1>8, <2>1, <2>2, PaidCall
<1>10. CASE k # KeyOf(j)
  <2>1. calls'[k] = calls[k]
    BY <1>1, <1>10 DEF Called, TypeOK
  <2> QED BY <1>7, <1>8, <2>1, PaidStays
<1> QED BY <1>9, <1>10

(* A job that waits again after its backoff has what it had.               *)
LEMMA BackoffPaid ==
  ASSUME TypeOK, TicketInv, NEW j \in Slots, Backoff(j)
  PROVE  TicketInv'
<1>1. /\ jobs[j].st = "delayed" /\ jobs' = [jobs EXCEPT ![j].st = "waiting"]
      /\ UNCHANGED <<exec, calls, execs>>
  BY DEF Backoff, counts
<1>2. jobs[j] \in Jobs /\ jobs[j].att < Attempts
  BY DEF TypeOK, TicketInv, AttemptsLeft
<1>3. jobs'[j] = [jobs[j] EXCEPT !.st = "waiting"] /\ \A i \in Slots \ {j} : jobs'[i] = jobs[i]
  BY <1>1 DEF TypeOK
<1>4. jobs'[j].att = jobs[j].att /\ KeyOf(j)' = KeyOf(j)
  BY <1>2, <1>3 DEF Jobs, KeyOf
<1>5. JobLeft(jobs'[j]) = JobLeft(jobs[j])
  BY <1>1, <1>2, <1>3, Lefts
<1>6. AttemptsLeft'
  BY <1>3, <1>4 DEF TicketInv, AttemptsLeft
<1>7. \A i \in Slots : KeyOf(i)' = KeyOf(i) /\ JobLeft(jobs'[i]) = JobLeft(jobs[i])
  BY <1>3, <1>4, <1>5 DEF KeyOf
<1>8. \A k \in Key : JobTickets(k)' \subseteq JobTickets(k)
  BY <1>7 DEF JobTickets
<1> QED BY <1>1, <1>6, <1>8, ExecsStay, NoCall

(* The job of a process that dies has its ticket for that; the executor's  *)
(* are lost.                                                               *)
LEMMA CrashPaid ==
  ASSUME TypeOK, QueueInv, TicketInv, NEW p \in Processes, Crash(p)
  PROVE  TicketInv'
<1> DEFINE Had(j) == worker[p].job = j
<1>1. /\ "crash" \in Faults /\ Becomes(p, Idle) /\ UNCHANGED <<calls, execs>>
  BY DEF Crash, Becomes
<1>2. ASSUME NEW j \in Slots
      PROVE  /\ jobs'[j].att < Attempts
             /\ \/ /\ KeyOf(j)' = KeyOf(j) /\ JobLeft(jobs'[j]) \in Int
                   /\ JobLeft(jobs'[j]) <= JobLeft(jobs[j])
                \/ JobLeft(jobs'[j]) = 0
  <2>1. jobs[j] \in Jobs /\ jobs[j].att < Attempts /\ (Had(j) => jobs[j].st = "active")
    BY ConstantsType DEF TypeOK, QueueInv, JobsInv, TicketInv, AttemptsLeft
  <2>2. JobLeft(jobs[j]) \in Nat /\ Attempts \in Nat \ {0}
    BY <2>1, JobLeftType, StepQueueAssumption
  <2>3. \/ Had(j) /\ ~jobs[j].stalled /\ jobs'[j] = [jobs[j] EXCEPT !.st = "waiting", !.stalled = TRUE]
        \/ jobs'[j] = NoJob
        \/ jobs'[j] = [jobs[j] EXCEPT !.st = "failed"]
        \/ jobs'[j] = jobs[j]
    BY DEF Crash
  <2>4. CASE /\ Had(j) /\ ~jobs[j].stalled
             /\ jobs'[j] = [jobs[j] EXCEPT !.st = "waiting", !.stalled = TRUE]
    <3>1. jobs'[j].att = jobs[j].att /\ KeyOf(j)' = KeyOf(j)
      BY <2>1, <2>4 DEF Jobs, KeyOf
    <3>2. JobLeft(jobs'[j]) = JobLeft(jobs[j])
      BY <1>1, <2>1, <2>4, Lefts
    <3> QED BY <2>1, <2>2, <3>1, <3>2
  <2>5. CASE jobs'[j] = NoJob
    BY <2>2, <2>5, NoJobLeft
  <2>6. CASE jobs'[j] = [jobs[j] EXCEPT !.st = "failed"]
    <3>1. jobs'[j].att = jobs[j].att
      BY <2>1, <2>6 DEF Jobs
    <3> QED BY <2>1, <2>6, <3>1, Lefts
  <2>7. CASE jobs'[j] = jobs[j]
    BY <2>1, <2>2, <2>7 DEF KeyOf
  <2> QED BY <2>3, <2>4, <2>5, <2>6, <2>7
<1>3. AttemptsLeft' /\ \A k \in Key : JobTickets(k)' \subseteq JobTickets(k)
  BY <1>2, JobsShrink DEF TicketInv, AttemptsLeft
<1> QED BY <1>1, <1>3, IdleType, GoesOnPaid

(* Every step of the system pays for its calls.                            *)
LEMMA NextPaid ==
  ASSUME TypeOK, QueueInv, TicketInv, Next
  PROVE  TicketInv'
<1>1. ASSUME NEW p \in Processes, TurnedAway(p) \/ Hit(p) PROVE TicketInv'
  <2>1. PICK j \in Slots : /\ Takes(p, j) /\ (AttemptFails(j) \/ JobDone(j))
                           /\ UNCHANGED <<exec, calls, execs>>
    BY <1>1 DEF TurnedAway, Hit, counts
  <2> QED BY <2>1, TakesType, AttemptPaid
<1>2. ASSUME NEW p \in Processes, Returns(p) \/ Fails(p) PROVE TicketInv'
  <2>1. PICK j \in Slots : /\ Ends(p, j) /\ (AttemptFails(j) \/ JobDone(j))
                           /\ UNCHANGED <<exec, calls, execs>>
    BY <1>2 DEF Returns, Fails
  <2> QED BY <2>1, EndsType, AttemptPaid
<1>3. ASSUME NEW p \in Processes, NEW k \in Key, Evict(p, k) PROVE TicketInv'
  <2>1. UNCHANGED <<exec, jobs, calls, execs>>
    BY <1>3 DEF Evict, queueVars, counts
  <2> QED BY <2>1, JobsStay, ExecsStay, NoCall DEF TicketInv
<1> QED
  BY <1>1, <1>2, <1>3, StartPaid, ExecutorPaid, BeginPaid, CrashPaid, BackoffPaid DEF Next

(* Nothing has been called and nothing given out.                          *)
LEMMA InitPaid == Init => TicketInv
<1> SUFFICES ASSUME Init PROVE TicketInv
  OBVIOUS
<1>1. \A j \in Slots : jobs[j] = NoJob
  BY DEF Init
<1>2. AttemptsLeft
  BY <1>1, NoJobLeft, StepQueueAssumption DEF AttemptsLeft
<1> SUFFICES ASSUME NEW k \in Key PROVE Paid(k)
  BY <1>2 DEF TicketInv
<1>3. JobTickets(k) = {}
  BY <1>1, NoJobLeft DEF JobTickets
<1>4. ExecTickets(k) = {}
  BY NothingLeft DEF Init, ExecTickets
<1>5. calls[k] = 0 /\ execs[k[1]] * CallsPerExecution(k[2]) \in Nat
  BY Numbers, InitType DEF Init
<1> QED BY <1>3, <1>4, <1>5, FS_EmptySet DEF Paid

(***************************************************************************)
(* Whatever fails, waits, is retried or crashes, the calls of a step's     *)
(* tool stay within what the executions of its run allow: the attempts of  *)
(* the queue and the retries of withRetry do not multiply.                 *)
(***************************************************************************)
THEOREM RetriesDoNotMultiply == Spec => []CallsBounded
<1>1. Init => TicketInv
  BY InitPaid
<1>2. IndInv /\ TicketInv /\ [Next]_vars => TicketInv'
  <2> SUFFICES ASSUME IndInv, TicketInv, [Next]_vars PROVE TicketInv'
    OBVIOUS
  <2>1. CASE Next
    BY <2>1, NextPaid DEF IndInv
  <2>2. CASE UNCHANGED vars
    <3>1. UNCHANGED <<exec, jobs, calls, execs>>
      BY <2>2 DEF vars, queueVars, counts
    <3> QED BY <3>1, JobsStay, ExecsStay, NoCall DEF TicketInv, IndInv
  <2> QED BY <2>1, <2>2
<1>3. IndInv /\ TicketInv => CallsBounded
  <2> SUFFICES ASSUME IndInv, TicketInv, NEW k \in Key
               PROVE  calls[k] <= execs[k[1]] * CallsPerExecution(k[2])
    BY DEF CallsBounded
  <2>1. Cardinality(JobTickets(k)) \in Nat /\ Cardinality(ExecTickets(k)) \in Nat
    BY FS_CardinalityType DEF TicketInv, Paid
  <2>2. calls[k] \in Nat /\ execs[k[1]] * CallsPerExecution(k[2]) \in Nat
    BY Numbers DEF IndInv
  <2> QED BY <2>1, <2>2 DEF TicketInv, Paid
<1> QED BY <1>1, <1>2, <1>3, Invariance, PTL DEF Spec

=============================================================================
