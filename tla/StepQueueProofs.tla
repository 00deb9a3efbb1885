--------------------------- MODULE StepQueueProofs ---------------------------
(***************************************************************************)
(* Theorems about StepQueue, for every plan, every number of processes,    *)
(* runs, executions, attempts and retries, and any set of faults.          *)
(***************************************************************************)
EXTENDS StepQueue, TLAPS

(* What the assumptions say, in the form the proofs need.                  *)
LEMMA ConstantsType ==
  /\ Step \subseteq Nat /\ NSteps \in Nat /\ Attempts \in Nat /\ Retries \in Nat
  /\ None \notin Runs /\ None \notin Slots /\ Runs \subseteq Nat /\ Slots \subseteq Nat
  /\ ToolOf \in [Step -> Tools] /\ Threshold \in Nat \ {0}
  /\ \A r \in Runs, s \in Step : <<r, s>> \in Key
BY StepQueueAssumption, CircuitAssumption DEF Step, None, Key

(* An executor that does nothing is one.                                   *)
LEMMA IdleType == Idle \in Execs
BY ConstantsType DEF Idle, Execs, None

(* So is an empty place for a job.                                         *)
LEMMA NoJobType == NoJob \in Jobs
BY ConstantsType DEF NoJob, Jobs, None

(* The circuit breaker only produces circuits.                             *)
LEMMA CircuitType ==
  /\ NewCircuit \in Circuits
  /\ \A c \in Circuits :
       LetThrough(c) \in Circuits /\ Success(c) \in Circuits /\ Failure(c) \in Circuits
<1>1. NewCircuit \in Circuits
  BY CircuitAssumption DEF NewCircuit, Circuits
<1>2. ASSUME NEW c \in Circuits PROVE LetThrough(c) \in Circuits
  BY <1>2 DEF LetThrough, Circuits
<1>3. ASSUME NEW c \in Circuits PROVE Failure(c) \in Circuits
  BY <1>3, CircuitAssumption DEF Failure, Circuits
<1> QED BY <1>1, <1>2, <1>3 DEF Success

(* The fields of an executor.                                              *)
LEMMA ExecsType ==
  ASSUME NEW e \in Execs
  PROVE  /\ e.run \in Runs \cup {None} /\ e.step \in 1..(NSteps + 1)
         /\ e.slot \in Slots \cup {None} /\ e.tries \in 0..Retries
         /\ e.pc \in {"idle", "next", "wait"}
BY DEF Execs

(* A job stays one when its status, its attempts or its stall change.      *)
LEMMA JobsType ==
  ASSUME NEW e \in Jobs
  PROVE  /\ e.run \in Runs \cup {None} /\ e.step \in Step \cup {None}
         /\ e.att \in 0..Attempts /\ e.stalled \in BOOLEAN
         /\ e.st \in {"free", "waiting", "active", "delayed", "done", "failed"}
         /\ \A st \in {"waiting", "active", "delayed", "done", "failed"} :
              [e EXCEPT !.st = st] \in Jobs
         /\ [e EXCEPT !.st = "waiting", !.stalled = TRUE] \in Jobs
         /\ e.att + 1 < Attempts => [e EXCEPT !.st = "delayed", !.att = @ + 1] \in Jobs
<1>1. e.att \in 0..Attempts
  BY DEF Jobs
<1>2. e.att + 1 < Attempts => e.att + 1 \in 0..Attempts
  BY <1>1, ConstantsType
<1> QED BY <1>2 DEF Jobs

(* An executor goes from a step of the plan to the next, or past the last. *)
LEMMA NextStepType ==
  ASSUME NEW e \in Execs, e.step \in Step
  PROVE  /\ NextStep(e) \in Execs
         /\ NextStep(e).pc = "next" /\ NextStep(e).run = e.run
         /\ NextStep(e).step = e.step + 1 /\ NextStep(e).slot = None
<1>1. e.step + 1 \in 1..(NSteps + 1)
  BY ConstantsType DEF Step
<1>2. Idle \in Execs /\ Idle.slot = None
  BY IdleType DEF Idle
<1> QED BY <1>1, <1>2 DEF NextStep, Execs

(* A job that waits again goes behind the others.                          *)
LEMMA Appended ==
  ASSUME NEW S, NEW s \in Seq(S), NEW x \in S
  PROVE  /\ Append(s, x) \in Seq(S)
         /\ DOMAIN Append(s, x) = 1..(Len(s) + 1) /\ DOMAIN s = 1..Len(s) /\ Len(s) \in Nat
         /\ \A i \in DOMAIN s : Append(s, x)[i] = s[i]
         /\ Append(s, x)[Len(s) + 1] = x
OBVIOUS

(* A stalled job goes in front of the others.                              *)
LEMMA Prepended ==
  ASSUME NEW S, NEW s \in Seq(S), NEW x \in S
  PROVE  /\ <<x>> \o s \in Seq(S)
         /\ DOMAIN (<<x>> \o s) = 1..(Len(s) + 1) /\ DOMAIN s = 1..Len(s) /\ Len(s) \in Nat
         /\ (<<x>> \o s)[1] = x
         /\ \A i \in DOMAIN s : (<<x>> \o s)[i + 1] = s[i]
OBVIOUS

(* Taking the first job moves the others one place.                        *)
LEMMA Shortened ==
  ASSUME NEW S, NEW s \in Seq(S), s # <<>>
  PROVE  /\ Tail(s) \in Seq(S) /\ Head(s) \in S /\ Head(s) = s[1]
         /\ 1 \in DOMAIN s /\ DOMAIN s \subseteq Nat
         /\ \A i \in DOMAIN Tail(s) : i \in DOMAIN s /\ i + 1 \in DOMAIN s /\ Tail(s)[i] = s[i + 1]
OBVIOUS

(* The system starts in its types.                                         *)
LEMMA InitType == Init => TypeOK
<1> SUFFICES ASSUME Init PROVE TypeOK
  OBVIOUS
<1>1. [job |-> None, stale |-> FALSE] \in [job : Slots \cup {None}, stale : BOOLEAN]
  OBVIOUS
<1>2. streak \in [Processes -> [Tools -> 0..Threshold]]
  BY CircuitAssumption DEF Init
<1>3. ran \in [Key -> 0..Many] /\ calls \in [Key -> Nat] /\ execs \in [Runs -> 0..MaxExecs]
  BY StepQueueAssumption DEF Init, Many
<1> QED
  BY <1>1, <1>2, <1>3, IdleType, NoJobType, CircuitType DEF Init, TypeOK

(***************************************************************************)
(* The steps of an executor keep every variable in its type.               *)
(***************************************************************************)
LEMMA CallsType ==
  ASSUME TypeOK, NEW k \in Key
  PROVE  /\ Effect(k) => ran' \in [Key -> 0..Many]
         /\ Called(k) => calls' \in [Key -> Nat]
         /\ MayHaveEffect(k) => ran' \in [Key -> 0..Many] /\ lost' \subseteq Key
<1>1. Effect(k) => ran' \in [Key -> 0..Many]
  <2>1. ran[k] \in {0, 1, 2}
    BY DEF TypeOK, Many
  <2>2. (IF ran[k] < Many THEN ran[k] + 1 ELSE ran[k]) \in 0..Many
    BY <2>1 DEF Many
  <2> QED BY <2>2 DEF TypeOK, Effect
<1>2. Called(k) => calls' \in [Key -> Nat]
  BY DEF TypeOK, Called
<1>3. MayHaveEffect(k) => ran' \in [Key -> 0..Many] /\ lost' \subseteq Key
  BY <1>1 DEF TypeOK, MayHaveEffect, UnseenEffect
<1> QED BY <1>1, <1>2, <1>3

(* What a call leaves in the streak and in the circuit of its tool.        *)
LEMMA RecordsType ==
  ASSUME TypeOK, NEW p \in Processes, NEW t \in Tools
  PROVE  /\ circuit[p][t] \in Circuits
         /\ Lengthen(p, t) => streak' \in [Processes -> [Tools -> 0..Threshold]]
         /\ streak' = [streak EXCEPT ![p][t] = 0]
              => streak' \in [Processes -> [Tools -> 0..Threshold]]
         /\ \A c \in Circuits :
              SetCircuit(p, t, c) => circuit' \in [Processes -> [Tools -> Circuits]]
<1>1. ASSUME NEW n \in 0..Threshold, streak' = [streak EXCEPT ![p][t] = n]
      PROVE  streak' \in [Processes -> [Tools -> 0..Threshold]]
  BY <1>1 DEF TypeOK
<1>2. streak[p][t] \in 0..Threshold /\ 0 \in 0..Threshold
  BY CircuitAssumption DEF TypeOK
<1>3. (IF streak[p][t] < Threshold THEN streak[p][t] + 1 ELSE streak[p][t]) \in 0..Threshold
  BY <1>2, CircuitAssumption
<1>4. Lengthen(p, t) => streak' \in [Processes -> [Tools -> 0..Threshold]]
  BY <1>1, <1>3 DEF Lengthen
<1>5. ASSUME NEW c \in Circuits, SetCircuit(p, t, c)
      PROVE circuit' \in [Processes -> [Tools -> Circuits]]
  BY <1>5 DEF TypeOK, SetCircuit
<1>6. circuit[p][t] \in Circuits
  BY DEF TypeOK
<1> QED BY <1>1, <1>2, <1>4, <1>5, <1>6

(* The executor of a process becomes another one.                          *)
LEMMA BecomesType ==
  ASSUME TypeOK, NEW p \in Processes, NEW e \in Execs, Becomes(p, e)
  PROVE  exec' \in [Processes -> Execs]
BY DEF TypeOK, Becomes

(* withRetry counts no further than Retries.                               *)
LEMMA TryAgainType ==
  ASSUME TypeOK, NEW p \in Processes, TryAgain(p)
  PROVE  exec' \in [Processes -> Execs]
<1>1. exec[p] \in Execs /\ exec[p].tries \in 0..Retries
  BY DEF TypeOK, Execs
<1>2. exec[p].tries + 1 \in 0..Retries
  BY <1>1, ConstantsType DEF TryAgain
<1>3. [exec[p] EXCEPT !.tries = @ + 1] \in Execs
  BY <1>1, <1>2 DEF Execs
<1> QED BY <1>3, BecomesType DEF TryAgain

(* No step of an executor breaks a type.                                   *)
LEMMA ExecutorType ==
  ASSUME TypeOK, QueueInv, NEW p \in Processes, Executes(p)
  PROVE  TypeOK'
<1> DEFINE e == exec[p]
<1>0. e \in Execs /\ Idle \in Execs /\ NoJob \in Jobs
  BY IdleType, NoJobType DEF TypeOK
<1>a. e.pc # "idle" => e.run \in Runs
  BY DEF QueueInv, JobsInv, WaitsInv
<1>b. e.pc = "wait" => e.slot \in Slots /\ e.step \in Step
  <2>1. ASSUME e.pc = "wait" PROVE e.slot \in Slots /\ <<e.run, e.step>> \in Key
    BY <1>0, <2>1, ExecsType DEF QueueInv, JobsInv, WaitsInv
  <2> QED BY <2>1 DEF Key
<1>1. CASE Issue(p)
  <2>1. e.step \in Step /\ e.run \in Runs
    BY <1>1, <1>a DEF Issue, Current
  <2>2. PICK j \in Slots :
          /\ jobs' = [jobs EXCEPT ![j] =
               [NoJob EXCEPT !.st = "waiting", !.run = exec[p].run, !.step = exec[p].step]]
          /\ waiting' = Append(waiting, j)
          /\ Becomes(p, [exec[p] EXCEPT !.pc = "wait", !.slot = j])
    BY <1>1 DEF Issue
  <2>3. [NoJob EXCEPT !.st = "waiting", !.run = e.run, !.step = e.step] \in Jobs
    BY <1>0, <2>1 DEF Jobs
  <2>4. jobs' \in [Slots -> Jobs]
    BY <2>2, <2>3 DEF TypeOK
  <2>5. [e EXCEPT !.pc = "wait", !.slot = j] \in Execs
    BY <1>0 DEF Execs
  <2>6. exec' \in [Processes -> Execs]
    BY <2>2, <2>5, BecomesType
  <2>7. waiting' \in Seq(Slots)
    BY <2>2, Appended DEF TypeOK
  <2> QED BY <1>1, <2>4, <2>6, <2>7 DEF Issue, TypeOK, counts, history
<1>2. CASE SkipStep(p)
  <2>1. e.step \in Step /\ <<e.run, e.step>> \in Key
    BY <1>2, <1>a, ConstantsType DEF SkipStep
  <2>2. exec' \in [Processes -> Execs]
    BY <1>2, <1>0, <2>1, NextStepType, BecomesType DEF SkipStep
  <2> QED BY <1>2, <2>1, <2>2 DEF SkipStep, TypeOK, counts, queueVars
<1>3. CASE IssueFails(p)
  BY <1>3, <1>0, BecomesType DEF IssueFails, TypeOK, counts, history, queueVars
<1>4. CASE EndRun(p)
  BY <1>4, <1>0, BecomesType DEF EndRun, TypeOK, counts, history, queueVars
<1>5. CASE Answered(p)
  <2>1. e.step \in Step
    BY <1>5, <1>b DEF Answered
  <2>2. exec' \in [Processes -> Execs]
    BY <1>5, <1>0, <2>1, NextStepType, BecomesType DEF Answered
  <2>3. jobs' \in [Slots -> Jobs]
    BY <1>5, <1>0 DEF Answered, TypeOK
  <2> QED BY <1>5, <2>2, <2>3 DEF Answered, TypeOK, counts, history
<1>6. CASE Refused(p)
  <2>1. exec' \in [Processes -> Execs] /\ jobs' \in [Slots -> Jobs]
    BY <1>6, <1>0, BecomesType DEF Refused, TypeOK
  <2> QED BY <1>6, <2>1 DEF Refused, TypeOK, counts, history
<1>7. CASE Timeout(p)
  BY <1>7, <1>0, BecomesType DEF Timeout, TypeOK, counts, history, queueVars
<1>8. CASE InlineRejected(p)
  <2>1. exec' \in [Processes -> Execs]
    BY <1>8, <1>0, BecomesType, TryAgainType DEF InlineRejected
  <2> QED BY <1>8, <2>1 DEF InlineRejected, TypeOK, counts, history, queueVars
<1> DEFINE t == ToolOf[e.step]
           k == <<e.run, e.step>>
<1>c. ASSUME Current(p, TRUE)
      PROVE  e.step \in Step /\ k \in Key /\ t \in Tools /\ circuit[p][t] \in Circuits
  <2>1. e.step \in Step /\ e.run \in Runs
    BY <1>c, <1>a DEF Current
  <2>2. t \in Tools
    BY <2>1, ConstantsType
  <2>3. k \in Key
    BY <2>1, ConstantsType
  <2> QED BY <2>1, <2>2, <2>3, RecordsType
<1>9. CASE InlineReturns(p)
  <2>1. e.step \in Step /\ k \in Key /\ t \in Tools /\ circuit[p][t] \in Circuits
    BY <1>9, <1>c DEF InlineReturns
  <2>2. exec' \in [Processes -> Execs]
    BY <1>9, <1>0, <2>1, NextStepType, BecomesType DEF InlineReturns
  <2>3. circuit' \in [Processes -> [Tools -> Circuits]]
    BY <1>9, <2>1, CircuitType, RecordsType DEF InlineReturns
  <2>4. CASE k \in cache[p]
    BY <1>9, <2>2, <2>3, <2>4 DEF InlineReturns, TypeOK, queueVars
  <2>5. CASE k \notin cache[p]
    <3>1. ran' \in [Key -> 0..Many] /\ calls' \in [Key -> Nat]
      BY <1>9, <2>1, <2>5, CallsType DEF InlineReturns
    <3>2. cache' \in [Processes -> SUBSET Key]
      <4>1. cache' = [cache EXCEPT ![p] = @ \cup {k}]
        BY <1>9, <2>5 DEF InlineReturns
      <4> QED BY <2>1, <4>1 DEF TypeOK
    <3>3. streak' \in [Processes -> [Tools -> 0..Threshold]]
      BY <1>9, <2>1, <2>5, RecordsType DEF InlineReturns
    <3> QED BY <1>9, <2>2, <2>3, <3>1, <3>2, <3>3 DEF InlineReturns, TypeOK, queueVars
  <2> QED BY <2>4, <2>5
<1>10. CASE InlineFails(p)
  <2>1. k \in Key /\ t \in Tools /\ circuit[p][t] \in Circuits
    BY <1>10, <1>c DEF InlineFails
  <2>2. exec' \in [Processes -> Execs]
    BY <1>10, <1>0, BecomesType, TryAgainType DEF InlineFails
  <2>3. circuit' \in [Processes -> [Tools -> Circuits]]
    <3>1. Failure(LetThrough(circuit[p][t])) \in Circuits
      BY <2>1, CircuitType
    <3> QED BY <1>10, <2>1, <3>1, RecordsType DEF InlineFails
  <2>4. /\ ran' \in [Key -> 0..Many] /\ calls' \in [Key -> Nat] /\ lost' \subseteq Key
        /\ streak' \in [Processes -> [Tools -> 0..Threshold]]
    BY <1>10, <2>1, CallsType, RecordsType DEF InlineFails
  <2> QED BY <1>10, <2>2, <2>3, <2>4 DEF InlineFails, TypeOK, queueVars
<1> QED
  BY <1>1, <1>2, <1>3, <1>4, <1>5, <1>6, <1>7, <1>8, <1>9, <1>10 DEF Executes

(***************************************************************************)
(* And so do the step workers, the queue and a process that dies.          *)
(***************************************************************************)
LEMMA JobChangesType ==
  ASSUME TypeOK, NEW j \in Slots
  PROVE  /\ JobDone(j) => jobs' \in [Slots -> Jobs]
         /\ AttemptFails(j) => jobs' \in [Slots -> Jobs]
         /\ \A st \in {"waiting", "active"} :
              jobs' = [jobs EXCEPT ![j].st = st] => jobs' \in [Slots -> Jobs]
<1>0. jobs[j] \in Jobs
  BY DEF TypeOK
<1>1. \A x \in Jobs : jobs' = [jobs EXCEPT ![j] = x] => jobs' \in [Slots -> Jobs]
  BY DEF TypeOK
<1>2. \A st \in {"done", "failed"} : Settled(j, st) \in Jobs
  BY <1>0, JobsType, NoJobType DEF Settled
<1>3. JobDone(j) => jobs' \in [Slots -> Jobs]
  BY <1>1, <1>2 DEF JobDone
<1>4. AttemptFails(j) => jobs' \in [Slots -> Jobs]
  <2> DEFINE x == IF jobs[j].att + 1 < Attempts
                  THEN [jobs[j] EXCEPT !.st = "delayed", !.att = @ + 1]
                  ELSE Settled(j, "failed")
  <2>1. x \in Jobs
    BY <1>0, <1>2, JobsType
  <2>2. AttemptFails(j) => jobs' = [jobs EXCEPT ![j] = x]
    BY DEF AttemptFails
  <2> HIDE DEF x
  <2> QED BY <1>1, <2>1, <2>2
<1>5. \A st \in {"waiting", "active"} : [jobs[j] EXCEPT !.st = st] \in Jobs
  BY <1>0, JobsType
<1> QED BY <1>1, <1>3, <1>4, <1>5

(* The job a step worker takes is one, and names a tool.                   *)
LEMMA TakesType ==
  ASSUME TypeOK, QueueInv, NEW p \in Processes, NEW j \in Slots, Takes(p, j)
  PROVE  /\ waiting' \in Seq(Slots) /\ jobs[j].st = "waiting" /\ KeyOf(j) \in Key
         /\ ToolOfJob(j) \in Tools
<1>1. waiting # <<>> /\ j = waiting[1] /\ 1 \in DOMAIN waiting /\ waiting' \in Seq(Slots)
  BY Shortened DEF Takes, TypeOK
<1>2. jobs[j].st = "waiting"
  BY <1>1 DEF QueueInv, JobsInv, WaitsInv
<1>3. KeyOf(j) \in Key
  BY <1>2 DEF QueueInv, JobsInv, WaitsInv
<1>4. ToolOfJob(j) \in Tools
  BY <1>3, ConstantsType DEF KeyOf, Key, ToolOfJob
<1> QED BY <1>1, <1>2, <1>3, <1>4

(* And so is the job whose call ends.                                      *)
LEMMA EndsType ==
  ASSUME TypeOK, QueueInv, NEW p \in Processes, NEW j \in Slots, Ends(p, j)
  PROVE  /\ worker' \in [Processes -> [job : Slots \cup {None}, stale : BOOLEAN]]
         /\ jobs[j].st = "active" /\ KeyOf(j) \in Key
         /\ ToolOfJob(j) \in Tools
<1>1. worker[p].job = j /\ j # None
  BY ConstantsType DEF Ends
<1>2. jobs[j].st = "active"
  BY <1>1 DEF QueueInv, JobsInv, WaitsInv
<1>3. KeyOf(j) \in Key
  BY <1>2 DEF QueueInv, JobsInv, WaitsInv
<1>4. ToolOfJob(j) \in Tools
  BY <1>3, ConstantsType DEF KeyOf, Key, ToolOfJob
<1>5. worker' \in [Processes -> [job : Slots \cup {None}, stale : BOOLEAN]]
  BY DEF TypeOK, Ends
<1> QED BY <1>2, <1>3, <1>4, <1>5

(* No step of a step worker breaks a type.                                 *)
LEMMA WorkerType ==
  ASSUME TypeOK, QueueInv, NEW p \in Processes,
         TurnedAway(p) \/ Hit(p) \/ Begin(p) \/ Returns(p) \/ Fails(p)
  PROVE  TypeOK'
<1>1. CASE TurnedAway(p)
  <2>1. PICK j \in Slots : /\ Takes(p, j) /\ AttemptFails(j)
                           /\ UNCHANGED <<exec, worker, circuit, cache, counts, history>>
    BY <1>1 DEF TurnedAway
  <2>2. waiting' \in Seq(Slots) /\ jobs' \in [Slots -> Jobs]
    BY <2>1, TakesType, JobChangesType
  <2> QED BY <2>1, <2>2 DEF TypeOK, counts, history
<1>2. CASE Hit(p)
  <2>1. PICK j \in Slots :
          /\ Takes(p, j) /\ JobDone(j)
          /\ SetCircuit(p, ToolOfJob(j), Success(circuit[p][ToolOfJob(j)]))
          /\ UNCHANGED <<exec, worker, cache, counts, history>>
    BY <1>2 DEF Hit
  <2>2. /\ waiting' \in Seq(Slots) /\ jobs' \in [Slots -> Jobs] /\ ToolOfJob(j) \in Tools
    BY <2>1, TakesType, JobChangesType
  <2>3. circuit' \in [Processes -> [Tools -> Circuits]]
    BY <2>1, <2>2, RecordsType, CircuitType
  <2> QED BY <2>1, <2>2, <2>3 DEF TypeOK, counts, history
<1>3. CASE Begin(p)
  <2>1. PICK j \in Slots :
          /\ Takes(p, j)
          /\ worker' = [worker EXCEPT ![p] = [job |-> j, stale |-> FALSE]]
          /\ jobs' = [jobs EXCEPT ![j].st = "active"]
          /\ Called(KeyOf(j))
          /\ SetCircuit(p, ToolOfJob(j), LetThrough(circuit[p][ToolOfJob(j)]))
          /\ UNCHANGED <<exec, cache, ran, execs, history>>
    BY <1>3 DEF Begin
  <2>2. /\ waiting' \in Seq(Slots) /\ jobs' \in [Slots -> Jobs]
        /\ ToolOfJob(j) \in Tools /\ KeyOf(j) \in Key
    BY <2>1, TakesType, JobChangesType
  <2>3. circuit' \in [Processes -> [Tools -> Circuits]]
    BY <2>1, <2>2, RecordsType, CircuitType
  <2>4. calls' \in [Key -> Nat]
    BY <2>1, <2>2, CallsType
  <2>5. worker' \in [Processes -> [job : Slots \cup {None}, stale : BOOLEAN]]
    BY <2>1 DEF TypeOK
  <2> QED BY <2>1, <2>2, <2>3, <2>4, <2>5 DEF TypeOK, history
<1>a. ASSUME NEW t \in Tools, NEW c \in Circuits, Records(p, t, c)
      PROVE  circuit' \in [Processes -> [Tools -> Circuits]]
  BY <1>a, RecordsType DEF Records, TypeOK
<1>4. CASE Returns(p)
  <2>1. PICK j \in Slots :
          /\ Ends(p, j) /\ Effect(KeyOf(j)) /\ JobDone(j)
          /\ cache' = [cache EXCEPT ![p] = @ \cup {KeyOf(j)}]
          /\ Records(p, ToolOfJob(j), Success(circuit[p][ToolOfJob(j)]))
          /\ streak' = [streak EXCEPT ![p][ToolOfJob(j)] = 0]
          /\ UNCHANGED <<exec, waiting, calls, execs, skipped, lost>>
    BY <1>4 DEF Returns
  <2>2. /\ worker' \in [Processes -> [job : Slots \cup {None}, stale : BOOLEAN]]
        /\ KeyOf(j) \in Key /\ ToolOfJob(j) \in Tools /\ jobs' \in [Slots -> Jobs]
    BY <2>1, EndsType, JobChangesType
  <2>3. circuit' \in [Processes -> [Tools -> Circuits]]
    BY <1>a, <2>1, <2>2, RecordsType, CircuitType
  <2>4. ran' \in [Key -> 0..Many] /\ streak' \in [Processes -> [Tools -> 0..Threshold]]
    BY <2>1, <2>2, CallsType, RecordsType
  <2>5. cache' \in [Processes -> SUBSET Key]
    BY <2>1, <2>2 DEF TypeOK
  <2> QED BY <2>1, <2>2, <2>3, <2>4, <2>5 DEF TypeOK
<1>5. CASE Fails(p)
  <2>1. PICK j \in Slots :
          /\ Ends(p, j) /\ MayHaveEffect(KeyOf(j)) /\ AttemptFails(j)
          /\ Records(p, ToolOfJob(j), Failure(circuit[p][ToolOfJob(j)]))
          /\ Lengthen(p, ToolOfJob(j))
          /\ UNCHANGED <<exec, waiting, cache, calls, execs, skipped>>
    BY <1>5 DEF Fails
  <2>2. /\ worker' \in [Processes -> [job : Slots \cup {None}, stale : BOOLEAN]]
        /\ KeyOf(j) \in Key /\ ToolOfJob(j) \in Tools /\ jobs' \in [Slots -> Jobs]
    BY <2>1, EndsType, JobChangesType
  <2>3. circuit' \in [Processes -> [Tools -> Circuits]]
    BY <1>a, <2>1, <2>2, RecordsType, CircuitType
  <2>4. /\ ran' \in [Key -> 0..Many] /\ lost' \subseteq Key
        /\ streak' \in [Processes -> [Tools -> 0..Threshold]]
    BY <2>1, <2>2, CallsType, RecordsType
  <2> QED BY <2>1, <2>2, <2>3, <2>4 DEF TypeOK
<1> QED BY <1>1, <1>2, <1>3, <1>4, <1>5

(* A process that dies leaves well-typed debris.                           *)
LEMMA CrashType ==
  ASSUME TypeOK, QueueInv, NEW p \in Processes, Crash(p)
  PROVE  TypeOK'
<1> DEFINE Had(j) == worker[p].job = j
           Again(j) == Had(j) /\ ~jobs[j].stalled
<1>1. exec' \in [Processes -> Execs]
  BY IdleType DEF Crash, TypeOK
<1>2. /\ worker' \in [Processes -> [job : Slots \cup {None}, stale : BOOLEAN]]
      /\ cache' \in [Processes -> SUBSET Key]
  BY DEF Crash, TypeOK
<1>3. circuit' \in [Processes -> [Tools -> Circuits]]
  BY CircuitType DEF Crash, TypeOK
<1>4. streak' \in [Processes -> [Tools -> 0..Threshold]]
  <2>1. [t \in Tools |-> 0] \in [Tools -> 0..Threshold]
    BY CircuitAssumption
  <2> QED BY <2>1 DEF Crash, TypeOK
<1>5. \A j \in Slots : Had(j) => KeyOf(j) \in Key
  BY ConstantsType DEF QueueInv, JobsInv, WaitsInv
<1>6. lost' \subseteq Key
  <2>1. lost' = lost \cup cache[p] \cup {KeyOf(j) : j \in {i \in Slots : Had(i)}}
    BY DEF Crash
  <2> QED BY <1>5, <2>1 DEF TypeOK
<1>7. ran' \in [Key -> 0..Many]
  <2>1. UNCHANGED ran \/ \E j \in Slots : Had(j) /\ Effect(KeyOf(j))
    BY DEF Crash
  <2> QED BY <1>5, <2>1, CallsType DEF TypeOK
<1>8. waiting' \in Seq(Slots)
  <2>1. waiting' = IF \E j \in Slots : Again(j) THEN <<worker[p].job>> \o waiting ELSE waiting
    BY DEF Crash
  <2>2. ASSUME NEW j \in Slots, Again(j) PROVE <<worker[p].job>> \o waiting \in Seq(Slots)
    BY <2>2, Prepended DEF TypeOK
  <2> QED BY <2>1, <2>2 DEF TypeOK
<1>9. jobs' \in [Slots -> Jobs]
  <2>1. jobs' = [j \in Slots |->
       IF Again(j) THEN [jobs[j] EXCEPT !.st = "waiting", !.stalled = TRUE]
       ELSE IF (Had(j) \/ jobs[j].st \in {"done", "failed"}) /\ ForgottenWith(p, j) THEN NoJob
       ELSE IF Had(j) THEN [jobs[j] EXCEPT !.st = "failed"] ELSE jobs[j]]
    BY DEF Crash
  <2>2. \A j \in Slots : jobs[j] \in Jobs
    BY DEF TypeOK
  <2>3. ASSUME NEW j \in Slots PROVE jobs'[j] \in Jobs
    BY <2>1, <2>2, JobsType, NoJobType
  <2> QED BY <2>1, <2>3
<1>10. UNCHANGED <<calls, execs, skipped>>
  BY DEF Crash
<1> QED
  BY <1>1, <1>2, <1>3, <1>4, <1>6, <1>7, <1>8, <1>9, <1>10 DEF TypeOK

(* No step of the system breaks a type.                                    *)
LEMMA NextType ==
  ASSUME TypeOK, QueueInv, Next
  PROVE  TypeOK'
<1>1. ASSUME NEW p \in Processes, NEW r \in Runs, StartRun(p, r) PROVE TypeOK'
  <2>1. [Idle EXCEPT !.pc = "next", !.run = r] \in Execs
    BY IdleType DEF Execs
  <2>2. exec' \in [Processes -> Execs]
    BY <1>1, <2>1, BecomesType DEF StartRun
  <2>3. execs' \in [Runs -> 0..MaxExecs]
    <3>1. execs[r] \in 0..MaxExecs /\ execs[r] < MaxExecs
      BY <1>1 DEF StartRun, TypeOK
    <3>2. execs[r] + 1 \in 0..MaxExecs
      BY <3>1, StepQueueAssumption
    <3> QED BY <1>1, <3>2 DEF StartRun, TypeOK
  <2>4. circuit' \in [Processes -> [Tools -> Circuits]]
    <3>1. [t \in Tools |-> IF t \in Rebuilt THEN NewCircuit ELSE circuit[p][t]] \in [Tools -> Circuits]
      BY CircuitType, RecordsType
    <3> QED BY <1>1, <3>1 DEF StartRun, TypeOK
  <2>5. worker' \in [Processes -> [job : Slots \cup {None}, stale : BOOLEAN]]
    <3>1. worker[p].stale \in BOOLEAN
      BY DEF TypeOK
    <3>2. (worker[p].stale \/ (worker[p].job # None /\ ToolOfJob(worker[p].job) \in Rebuilt)) \in BOOLEAN
      OBVIOUS
    <3> QED BY <1>1, <3>2 DEF StartRun, TypeOK
  <2> QED BY <1>1, <2>2, <2>3, <2>4, <2>5 DEF StartRun, TypeOK, history, queueVars
<1>2. ASSUME NEW p \in Processes, NEW k \in Key, Evict(p, k) PROVE TypeOK'
  BY <1>2 DEF Evict, TypeOK, counts, queueVars
<1>3. ASSUME NEW j \in Slots, Backoff(j) PROVE TypeOK'
  <2>1. jobs' \in [Slots -> Jobs]
    BY <1>3, JobChangesType DEF Backoff
  <2>2. waiting' \in Seq(Slots)
    BY <1>3, Appended DEF Backoff, TypeOK
  <2> QED BY <1>3, <2>1, <2>2 DEF Backoff, TypeOK, counts, history
<1> QED
  BY <1>1, <1>2, <1>3, ExecutorType, WorkerType, CrashType DEF Next

(***************************************************************************)
(* The queue's books.  A job's record changes in one of few ways.          *)
(***************************************************************************)
LEMMA Finished ==
  ASSUME TypeOK, NEW j \in Slots, JobDone(j) \/ AttemptFails(j)
  PROVE  \E x \in Jobs :
           /\ jobs' = [jobs EXCEPT ![j] = x]
           /\ x.st \in {"free", "delayed", "done", "failed"}
           /\ x.st = "free" => ~Awaited(j)
           /\ x.st # "free" => x.run = jobs[j].run /\ x.step = jobs[j].step
<1>0. jobs[j] \in Jobs
  BY DEF TypeOK
<1>1. ASSUME NEW st \in {"done", "failed"}
      PROVE  /\ Settled(j, st) \in Jobs /\ Settled(j, st).st \in {"free", st}
             /\ Settled(j, st).st = "free" => ~Awaited(j)
             /\ Settled(j, st).st # "free" =>
                  Settled(j, st).run = jobs[j].run /\ Settled(j, st).step = jobs[j].step
  <2>1. CASE Awaited(j)
    <3>1. Settled(j, st) = [jobs[j] EXCEPT !.st = st]
      BY <2>1 DEF Settled
    <3> QED BY <1>0, <2>1, <3>1 DEF Jobs
  <2>2. CASE ~Awaited(j)
    <3>1. Settled(j, st) = NoJob /\ NoJob.st = "free"
      BY <2>2 DEF Settled, NoJob
    <3> QED BY <2>2, <3>1, NoJobType
  <2> QED BY <2>1, <2>2
<1>2. CASE JobDone(j)
  <2>1. jobs' = [jobs EXCEPT ![j] = Settled(j, "done")]
    BY <1>2 DEF JobDone
  <2> QED BY <1>1, <1>2, <2>1
<1>3. CASE AttemptFails(j)
  <2> DEFINE x == IF jobs[j].att + 1 < Attempts
                  THEN [jobs[j] EXCEPT !.st = "delayed", !.att = @ + 1]
                  ELSE Settled(j, "failed")
  <2>1. jobs' = [jobs EXCEPT ![j] = x]
    BY <1>3 DEF AttemptFails
  <2>2. CASE jobs[j].att + 1 < Attempts
    <3>1. x = [jobs[j] EXCEPT !.st = "delayed", !.att = @ + 1]
      BY <2>2
    <3>2. x \in Jobs
      BY <1>0, <2>2, <3>1, JobsType
    <3>3. x.st = "delayed" /\ x.run = jobs[j].run /\ x.step = jobs[j].step
      BY <1>0, <3>1 DEF Jobs
    <3> QED BY <2>1, <3>2, <3>3
  <2>3. CASE ~(jobs[j].att + 1 < Attempts)
    <3>1. x = Settled(j, "failed")
      BY <2>3
    <3> QED BY <1>1, <2>1, <3>1
  <2> QED BY <2>2, <2>3
<1> QED BY <1>2, <1>3

(* A failed attempt does not make a job done.                              *)
LEMMA NotDone ==
  ASSUME TypeOK, NEW j \in Slots, AttemptFails(j)
  PROVE  jobs'[j].st # "done"
<1>1. jobs[j] \in Jobs
  BY DEF TypeOK
<1>2. \/ jobs'[j] = [jobs[j] EXCEPT !.st = "delayed", !.att = @ + 1]
      \/ jobs'[j] = [jobs[j] EXCEPT !.st = "failed"]
      \/ jobs'[j] = NoJob
  BY DEF AttemptFails, Settled, TypeOK
<1>3. [jobs[j] EXCEPT !.st = "delayed", !.att = @ + 1].st = "delayed"
  BY <1>1 DEF Jobs
<1>4. [jobs[j] EXCEPT !.st = "failed"].st = "failed" /\ NoJob.st = "free"
  BY <1>1 DEF Jobs, NoJob
<1> QED BY <1>2, <1>3, <1>4

(* A job that neither waits nor is active any more disturbs no one.        *)
LEMMA FinishedWaits ==
  ASSUME TypeOK, QueueInv, NEW j \in Slots, UNCHANGED exec, NEW x \in Jobs,
         jobs' = [jobs EXCEPT ![j] = x],
         x.st = "free" => ~Awaited(j),
         x.st # "free" => x.run = jobs[j].run /\ x.step = jobs[j].step
  PROVE  WaitsInv'
<1>1. ASSUME NEW p \in Processes, exec[p].pc = "wait"
      PROVE  /\ jobs'[exec[p].slot].st # "free"
             /\ KeyOf(exec[p].slot)' = <<exec[p].run, exec[p].step>>
  <2>1. exec[p].slot \in Slots
    BY <1>1, ExecsType DEF QueueInv, WaitsInv, TypeOK
  <2>2. CASE exec[p].slot = j
    <3>1. Awaited(j)
      BY <2>2 DEF Awaited
    <3>2. x.st # "free" /\ x.run = jobs[j].run /\ x.step = jobs[j].step
      BY <3>1
    <3>3. jobs'[j] = x
      BY DEF TypeOK
    <3> QED BY <1>1, <2>2, <3>2, <3>3 DEF QueueInv, WaitsInv, KeyOf
  <2>3. CASE exec[p].slot # j
    <3>1. jobs'[exec[p].slot] = jobs[exec[p].slot]
      BY <2>1, <2>3 DEF TypeOK
    <3> QED BY <1>1, <3>1 DEF QueueInv, WaitsInv, KeyOf
  <2> QED BY <2>2, <2>3
<1> QED BY <1>1 DEF QueueInv, WaitsInv, KeyOf

(* The jobs that still wait when one is taken are others.                  *)
LEMMA TakenJobs ==
  ASSUME TypeOK, QueueInv, NEW p \in Processes, NEW j \in Slots, Takes(p, j)
  PROVE  /\ \A i \in DOMAIN waiting' : waiting'[i] \in Slots \ {j} /\ jobs[waiting'[i]].st = "waiting"
         /\ \A i, k \in DOMAIN waiting' : waiting'[i] = waiting'[k] => i = k
<1>1. /\ waiting' = Tail(waiting) /\ waiting # <<>> /\ waiting \in Seq(Slots) /\ j = waiting[1]
      /\ 1 \in DOMAIN waiting /\ DOMAIN waiting \subseteq Nat
      /\ \A i \in DOMAIN waiting' :
           i \in DOMAIN waiting /\ i + 1 \in DOMAIN waiting /\ waiting'[i] = waiting[i + 1]
  BY Shortened DEF Takes, TypeOK
<1>2. ASSUME NEW i \in DOMAIN waiting'
      PROVE  waiting'[i] \in Slots \ {j} /\ jobs[waiting'[i]].st = "waiting"
  <2>1. waiting'[i] = waiting[i + 1] /\ i + 1 # 1 /\ i + 1 \in DOMAIN waiting
    <3>1. i \in Nat /\ i # 0
      BY <1>1, <1>2
    <3> QED BY <1>1, <3>1
  <2>2. waiting[i + 1] \in Slots
    BY <1>1, <2>1
  <2> QED BY <1>1, <2>1, <2>2 DEF QueueInv, JobsInv
<1>3. ASSUME NEW i \in DOMAIN waiting', NEW k \in DOMAIN waiting', waiting'[i] = waiting'[k]
      PROVE  i = k
  <2>1. i + 1 = k + 1
    BY <1>1, <1>3 DEF QueueInv, JobsInv
  <2> QED BY <1>1, <2>1
<1> QED BY <1>2, <1>3

(* The books agree at the start: there is no job.                          *)
LEMMA InitQueue == Init => QueueInv
BY ConstantsType DEF Init, QueueInv, JobsInv, WaitsInv, Idle, NoJob

(* Where neither the jobs nor the calls change, only executors count.      *)
LEMMA JobsFrame ==
  ASSUME QueueInv, UNCHANGED <<jobs, waiting>>,
         \A p \in Processes : worker'[p].job = worker[p].job
  PROVE  JobsInv'
BY DEF QueueInv, JobsInv, KeyOf

(* An executor that waits for nothing is no trouble.                       *)
LEMMA LeavesWaits ==
  ASSUME TypeOK, QueueInv, NEW p \in Processes, NEW e \in Execs, Becomes(p, e),
         e.slot = None, e.pc # "wait", e.pc # "idle" => e.run \in Runs, UNCHANGED jobs
  PROVE  WaitsInv'
<1>1. exec'[p] = e /\ \A q \in Processes \ {p} : exec'[q] = exec[q]
  BY DEF Becomes, TypeOK
<1> QED BY <1>1 DEF QueueInv, WaitsInv, KeyOf

(* Nor is the job it was waiting for, once that is finished and dropped.   *)
LEMMA DropsJob ==
  ASSUME TypeOK, QueueInv, NEW p \in Processes, NEW e \in Execs, Becomes(p, e),
         exec[p].pc = "wait", jobs[exec[p].slot].st \in {"done", "failed"},
         jobs' = [jobs EXCEPT ![exec[p].slot] = NoJob], UNCHANGED <<waiting, worker>>,
         e.slot = None, e.pc # "wait", e.pc # "idle" => e.run \in Runs
  PROVE  QueueInv'
<1> DEFINE j == exec[p].slot
<1>0. j \in Slots
  BY ExecsType DEF QueueInv, WaitsInv, TypeOK
<1>1. exec'[p] = e /\ \A q \in Processes \ {p} : exec'[q] = exec[q]
  BY DEF Becomes, TypeOK
<1>2. jobs'[j].st = "free" /\ \A i \in Slots \ {j} : jobs'[i] = jobs[i]
  BY <1>0 DEF TypeOK, NoJob
<1>3. JobsInv'
  <2>1. \A i \in DOMAIN waiting : waiting[i] \in Slots
    BY DEF TypeOK
  <2>2. \A q \in Processes : worker[q].job \in Slots \cup {None}
    BY DEF TypeOK
  <2>3. \A i \in Slots : jobs'[i].st # "free" => KeyOf(i)' \in Key
    BY <1>2 DEF QueueInv, JobsInv, KeyOf
  <2>4. \A i \in DOMAIN waiting : jobs'[waiting[i]].st = "waiting"
    BY <1>2, <2>1 DEF QueueInv, JobsInv
  <2>5. \A q \in Processes : worker[q].job # None => jobs'[worker[q].job].st = "active"
    BY <1>2, <2>2 DEF QueueInv, JobsInv
  <2> QED BY <2>3, <2>4, <2>5 DEF QueueInv, JobsInv
<1>4. WaitsInv'
  <2>1. ASSUME NEW q \in Processes, q # p, exec[q].pc = "wait"
        PROVE  exec[q].slot \in Slots \ {j}
    BY <1>0, <2>1, ExecsType, ConstantsType DEF QueueInv, WaitsInv, TypeOK
  <2> QED BY <1>1, <1>2, <2>1 DEF QueueInv, WaitsInv, KeyOf
<1> QED BY <1>3, <1>4 DEF QueueInv

(* The books agree after every step of an executor.                        *)
LEMMA ExecutorQueue ==
  ASSUME TypeOK, QueueInv, NEW p \in Processes, Executes(p)
  PROVE  QueueInv'
<1> DEFINE e == exec[p]
<1>0. /\ e \in Execs /\ Idle \in Execs
      /\ Idle.pc = "idle" /\ Idle.slot = None
  BY IdleType DEF TypeOK, Idle
<1>a. e.pc # "idle" => e.run \in Runs
  BY DEF QueueInv, WaitsInv
<1>b. e.pc = "next" => e.slot = None
  BY DEF QueueInv, WaitsInv
<1>1. CASE Issue(p)
  <2>1. e.step \in Step /\ e.run \in Runs /\ e.pc = "next"
    BY <1>1, <1>a DEF Issue, Current
  <2>2. PICK j \in Slots :
          /\ jobs[j].st = "free"
          /\ jobs' = [jobs EXCEPT ![j] =
               [NoJob EXCEPT !.st = "waiting", !.run = exec[p].run, !.step = exec[p].step]]
          /\ waiting' = Append(waiting, j)
          /\ Becomes(p, [exec[p] EXCEPT !.pc = "wait", !.slot = j])
    BY <1>1 DEF Issue
  <2>3. /\ jobs'[j].st = "waiting" /\ jobs'[j].run = e.run /\ jobs'[j].step = e.step
        /\ \A i \in Slots \ {j} : jobs'[i] = jobs[i]
    BY <2>2, NoJobType DEF TypeOK, Jobs
  <2>4. /\ exec'[p].pc = "wait" /\ exec'[p].slot = j /\ exec'[p].run = e.run /\ exec'[p].step = e.step
        /\ \A q \in Processes \ {p} : exec'[q] = exec[q]
    BY <2>2, <1>0 DEF TypeOK, Becomes, Execs
  <2>5. UNCHANGED worker
    BY <1>1 DEF Issue
  <2>6. KeyOf(j)' = <<e.run, e.step>> /\ KeyOf(j)' \in Key
    BY <2>1, <2>3, ConstantsType DEF KeyOf
  <2>7. JobsInv'
    <3>1. \A i \in DOMAIN waiting : waiting[i] \in Slots \ {j}
      BY <2>2 DEF TypeOK, QueueInv, JobsInv
    <3>2. /\ DOMAIN waiting' = 1..(Len(waiting) + 1) /\ DOMAIN waiting = 1..Len(waiting)
          /\ Len(waiting) \in Nat /\ waiting'[Len(waiting) + 1] = j
          /\ \A i \in DOMAIN waiting : waiting'[i] = waiting[i]
      BY <2>2, Appended DEF TypeOK
    <3>3. \A i \in DOMAIN waiting' : i \in DOMAIN waiting \/ i = Len(waiting) + 1
      BY <3>2
    <3>4. \A i \in DOMAIN waiting' : jobs'[waiting'[i]].st = "waiting"
      BY <2>3, <3>1, <3>2, <3>3 DEF QueueInv, JobsInv
    <3>5. \A i, k \in DOMAIN waiting' : waiting'[i] = waiting'[k] => i = k
      BY <3>1, <3>2, <3>3 DEF QueueInv, JobsInv
    <3>6. \A q \in Processes : worker[q].job # None => worker[q].job \in Slots \ {j}
      BY <2>2 DEF TypeOK, QueueInv, JobsInv
    <3>7. \A i \in Slots : jobs'[i].st # "free" => KeyOf(i)' \in Key
      BY <2>3, <2>6 DEF QueueInv, JobsInv, KeyOf
    <3> QED BY <2>3, <2>5, <3>4, <3>5, <3>6, <3>7 DEF QueueInv, JobsInv
  <2>8. WaitsInv'
    <3>1. \A q \in Processes \ {p} : exec[q].pc = "wait" => exec[q].slot \in Slots \ {j}
      BY <2>2, ExecsType DEF TypeOK, QueueInv, WaitsInv
    <3>2. \A q \in Processes \ {p} : exec[q].slot # None => exec[q].slot # j
      BY <3>1 DEF QueueInv, WaitsInv
    <3>3. j # None
      BY ConstantsType
    <3>4. \A q \in Processes : exec'[q].pc # "idle" => exec'[q].run \in Runs
      BY <2>1, <2>4 DEF QueueInv, WaitsInv
    <3>5. \A q \in Processes : exec'[q].slot # None <=> exec'[q].pc = "wait"
      BY <2>4, <3>3 DEF QueueInv, WaitsInv
    <3>6. ASSUME NEW q \in Processes, exec'[q].pc = "wait"
          PROVE  /\ jobs'[exec'[q].slot].st # "free"
                 /\ KeyOf(exec[q].slot)' = <<exec'[q].run, exec'[q].step>>
      <4>1. CASE q = p
        BY <2>3, <2>4, <2>6, <4>1 DEF KeyOf
      <4>2. CASE q # p
        <5>1. exec'[q] = exec[q] /\ exec[q].slot \in Slots \ {j}
          BY <2>4, <3>1, <3>6, <4>2
        <5>2. jobs'[exec[q].slot] = jobs[exec[q].slot]
          BY <2>3, <5>1
        <5> QED BY <3>6, <5>1, <5>2 DEF QueueInv, WaitsInv, KeyOf
      <4> QED BY <4>1, <4>2
    <3>7. ASSUME NEW q \in Processes, NEW r \in Processes,
                 exec'[q].slot # None, exec'[q].slot = exec'[r].slot
          PROVE  q = r
      BY <2>4, <3>2, <3>7 DEF QueueInv, WaitsInv
    <3> QED BY <3>4, <3>5, <3>6, <3>7 DEF WaitsInv
  <2> QED BY <2>7, <2>8 DEF QueueInv
<1>c. ASSUME NEW x \in Execs, Becomes(p, x), x.slot = None, x.pc # "wait",
             x.pc # "idle" => x.run \in Runs, UNCHANGED <<jobs, waiting, worker>>
      PROVE  QueueInv'
  BY <1>c, JobsFrame, LeavesWaits DEF QueueInv
<1>2. CASE SkipStep(p)
  <2>1. e.step \in Step /\ e.run \in Runs
    BY <1>2, <1>a DEF SkipStep
  <2>2. NextStep(e) \in Execs /\ NextStep(e).pc = "next" /\ NextStep(e).run = e.run /\ NextStep(e).slot = None
    BY <1>0, <2>1, NextStepType
  <2> QED BY <1>2, <1>c, <2>1, <2>2 DEF SkipStep, queueVars
<1>3. CASE IssueFails(p)
  BY <1>3, <1>0, <1>c DEF IssueFails, queueVars
<1>4. CASE EndRun(p)
  BY <1>4, <1>0, <1>c DEF EndRun, queueVars
<1>5. CASE Answered(p)
  <2>1. e.pc = "wait" /\ e.slot \in Slots /\ <<e.run, e.step>> \in Key
    BY <1>5, <1>0, ExecsType DEF Answered, QueueInv, JobsInv, WaitsInv
  <2>2. e.step \in Step /\ e.run \in Runs
    BY <2>1 DEF Key
  <2>3. NextStep(e) \in Execs /\ NextStep(e).pc = "next" /\ NextStep(e).run = e.run /\ NextStep(e).slot = None
    BY <1>0, <2>2, NextStepType
  <2> QED BY <1>5, <2>2, <2>3, DropsJob DEF Answered
<1>6. CASE Refused(p)
  BY <1>6, <1>0, DropsJob DEF Refused
<1>7. CASE Timeout(p)
  BY <1>7, <1>0, <1>c DEF Timeout, queueVars
<1>d. ASSUME TryAgain(p), e.pc = "next", UNCHANGED <<jobs, waiting, worker>>
      PROVE  QueueInv'
  <2> DEFINE x == [e EXCEPT !.tries = @ + 1]
  <2>1. e.tries + 1 \in 0..Retries
    BY <1>0, <1>d, ExecsType, ConstantsType DEF TryAgain
  <2>2. x \in Execs /\ x.pc = "next" /\ x.slot = None /\ x.run = e.run
    BY <1>0, <1>b, <1>d, <2>1 DEF Execs
  <2>3. Becomes(p, x)
    BY <1>d DEF TryAgain
  <2> HIDE DEF x
  <2> QED BY <1>a, <1>c, <1>d, <2>2, <2>3
<1>8. CASE InlineRejected(p)
  BY <1>8, <1>0, <1>c, <1>d DEF InlineRejected, Current, queueVars
<1>9. CASE InlineReturns(p)
  <2>1. e.step \in Step /\ e.run \in Runs
    BY <1>9, <1>a DEF InlineReturns, Current
  <2>2. NextStep(e) \in Execs /\ NextStep(e).pc = "next" /\ NextStep(e).run = e.run /\ NextStep(e).slot = None
    BY <1>0, <2>1, NextStepType
  <2> QED BY <1>9, <1>c, <2>1, <2>2 DEF InlineReturns, queueVars
<1>10. CASE InlineFails(p)
  BY <1>10, <1>0, <1>c, <1>d DEF InlineFails, Current, queueVars
<1> QED
  BY <1>1, <1>2, <1>3, <1>4, <1>5, <1>6, <1>7, <1>8, <1>9, <1>10 DEF Executes

(* And after every step of a step worker.                                  *)
LEMMA WorkerQueue ==
  ASSUME TypeOK, QueueInv, NEW p \in Processes,
         TurnedAway(p) \/ Hit(p) \/ Begin(p) \/ Returns(p) \/ Fails(p)
  PROVE  QueueInv'
<1>0. \A q \in Processes : worker[q].job \in Slots \cup {None}
  BY DEF TypeOK
<1>a. ASSUME NEW j \in Slots, Takes(p, j), JobDone(j) \/ AttemptFails(j), UNCHANGED <<exec, worker>>
      PROVE  QueueInv'
  <2>1. PICK x \in Jobs :
          /\ jobs' = [jobs EXCEPT ![j] = x]
          /\ x.st = "free" => ~Awaited(j)
          /\ x.st # "free" => x.run = jobs[j].run /\ x.step = jobs[j].step
    BY <1>a, Finished
  <2>2. jobs'[j] = x /\ \A i \in Slots \ {j} : jobs'[i] = jobs[i]
    BY <2>1 DEF TypeOK
  <2>3. jobs[j].st = "waiting" /\ KeyOf(j) \in Key
    BY <1>a, TakesType
  <2>4. WaitsInv'
    BY <1>a, <2>1, FinishedWaits
  <2>5. \A i \in Slots : jobs'[i].st # "free" => KeyOf(i)' \in Key
    BY <2>1, <2>2, <2>3 DEF QueueInv, JobsInv, KeyOf
  <2>6. /\ \A i \in DOMAIN waiting' : jobs'[waiting'[i]].st = "waiting"
        /\ \A i, k \in DOMAIN waiting' : waiting'[i] = waiting'[k] => i = k
    BY <1>a, <2>2, TakenJobs
  <2>7. \A q \in Processes : worker[q].job # None => jobs'[worker[q].job].st = "active"
    BY <1>0, <2>2, <2>3 DEF QueueInv, JobsInv
  <2> QED BY <1>a, <2>4, <2>5, <2>6, <2>7 DEF QueueInv, JobsInv
<1>1. CASE TurnedAway(p)
  BY <1>1, <1>a DEF TurnedAway
<1>2. CASE Hit(p)
  BY <1>2, <1>a DEF Hit
<1>3. CASE Begin(p)
  <2>1. PICK j \in Slots :
          /\ Takes(p, j)
          /\ worker' = [worker EXCEPT ![p] = [job |-> j, stale |-> FALSE]]
          /\ jobs' = [jobs EXCEPT ![j].st = "active"]
          /\ UNCHANGED exec
    BY <1>3 DEF Begin
  <2>2. jobs[j].st = "waiting" /\ KeyOf(j) \in Key
    BY <2>1, TakesType
  <2>3. /\ jobs'[j].st = "active" /\ jobs'[j].run = jobs[j].run /\ jobs'[j].step = jobs[j].step
        /\ \A i \in Slots \ {j} : jobs'[i] = jobs[i]
    BY <2>1 DEF TypeOK, Jobs
  <2>4. worker'[p].job = j /\ \A q \in Processes \ {p} : worker'[q] = worker[q]
    BY <2>1 DEF TypeOK
  <2>5. WaitsInv'
    <3> DEFINE x == [jobs[j] EXCEPT !.st = "active"]
    <3>1. x \in Jobs /\ jobs' = [jobs EXCEPT ![j] = x]
      BY <2>1, JobsType DEF TypeOK
    <3>2. x.st = "active" /\ x.run = jobs[j].run /\ x.step = jobs[j].step
      BY DEF TypeOK, Jobs
    <3> HIDE DEF x
    <3> QED BY <2>1, <3>1, <3>2, FinishedWaits
  <2>6. \A i \in Slots : jobs'[i].st # "free" => KeyOf(i)' \in Key
    BY <2>2, <2>3 DEF QueueInv, JobsInv, KeyOf
  <2>7. /\ \A i \in DOMAIN waiting' : jobs'[waiting'[i]].st = "waiting"
        /\ \A i, k \in DOMAIN waiting' : waiting'[i] = waiting'[k] => i = k
    BY <2>1, <2>3, TakenJobs
  <2>8. \A q \in Processes \ {p} : worker[q].job # None => worker[q].job \in Slots \ {j}
    BY <1>0, <2>2 DEF QueueInv, JobsInv
  <2>9. \A q \in Processes : worker'[q].job # None => jobs'[worker'[q].job].st = "active"
    BY <2>3, <2>4, <2>8 DEF QueueInv, JobsInv
  <2>10. ASSUME NEW q \in Processes, NEW r \in Processes,
                worker'[q].job # None, worker'[q].job = worker'[r].job
         PROVE  q = r
    BY <2>4, <2>8, <2>10 DEF QueueInv, JobsInv
  <2> QED BY <2>5, <2>6, <2>7, <2>9, <2>10 DEF QueueInv, JobsInv
<1>b. ASSUME NEW j \in Slots, Ends(p, j), JobDone(j) \/ AttemptFails(j), UNCHANGED <<exec, waiting>>
      PROVE  QueueInv'
  <2>1. PICK x \in Jobs :
          /\ jobs' = [jobs EXCEPT ![j] = x]
          /\ x.st = "free" => ~Awaited(j)
          /\ x.st # "free" => x.run = jobs[j].run /\ x.step = jobs[j].step
    BY <1>b, Finished
  <2>2. jobs'[j] = x /\ \A i \in Slots \ {j} : jobs'[i] = jobs[i]
    BY <2>1 DEF TypeOK
  <2>3. jobs[j].st = "active" /\ KeyOf(j) \in Key /\ worker[p].job = j /\ j # None
    BY <1>b, EndsType, ConstantsType DEF Ends
  <2>4. WaitsInv'
    BY <1>b, <2>1, FinishedWaits
  <2>5. \A i \in Slots : jobs'[i].st # "free" => KeyOf(i)' \in Key
    BY <2>1, <2>2, <2>3 DEF QueueInv, JobsInv, KeyOf
  <2>6. \A i \in DOMAIN waiting : waiting[i] \in Slots
    BY DEF TypeOK
  <2>7. \A i \in DOMAIN waiting : jobs'[waiting[i]].st = "waiting"
    BY <2>2, <2>3, <2>6 DEF QueueInv, JobsInv
  <2>8. worker'[p].job = None /\ \A q \in Processes \ {p} : worker'[q] = worker[q]
    BY <1>b DEF TypeOK, Ends
  <2>9. \A q \in Processes \ {p} : worker[q].job # j
    BY <2>3 DEF QueueInv, JobsInv
  <2>10. \A q \in Processes : worker'[q].job # None => jobs'[worker'[q].job].st = "active"
    BY <1>0, <2>2, <2>8, <2>9 DEF QueueInv, JobsInv
  <2>11. ASSUME NEW q \in Processes, NEW r \in Processes,
                worker'[q].job # None, worker'[q].job = worker'[r].job
         PROVE  q = r
    BY <2>8, <2>11 DEF QueueInv, JobsInv
  <2> QED BY <1>b, <2>4, <2>5, <2>7, <2>10, <2>11 DEF QueueInv, JobsInv
<1>4. CASE Returns(p)
  BY <1>4, <1>b DEF Returns
<1>5. CASE Fails(p)
  BY <1>5, <1>b DEF Fails
<1> QED BY <1>1, <1>2, <1>3, <1>4, <1>5

(* And when a delayed job waits again.                                     *)
LEMMA BackoffQueue ==
  ASSUME TypeOK, QueueInv, NEW j \in Slots, Backoff(j)
  PROVE  QueueInv'
<1>1. /\ jobs[j].st = "delayed" /\ waiting' = Append(waiting, j)
      /\ jobs' = [jobs EXCEPT ![j].st = "waiting"] /\ UNCHANGED <<exec, worker>>
  BY DEF Backoff
<1>2. /\ jobs'[j].st = "waiting" /\ jobs'[j].run = jobs[j].run /\ jobs'[j].step = jobs[j].step
      /\ \A i \in Slots \ {j} : jobs'[i] = jobs[i]
  BY <1>1 DEF TypeOK, Jobs
<1>3. WaitsInv'
  <2> DEFINE x == [jobs[j] EXCEPT !.st = "waiting"]
  <2>1. x \in Jobs /\ jobs' = [jobs EXCEPT ![j] = x]
    BY <1>1, JobsType DEF TypeOK
  <2>2. x.st = "waiting" /\ x.run = jobs[j].run /\ x.step = jobs[j].step
    BY DEF TypeOK, Jobs
  <2> HIDE DEF x
  <2> QED BY <1>1, <2>1, <2>2, FinishedWaits
<1>4. JobsInv'
  <2>1. \A i \in DOMAIN waiting : waiting[i] \in Slots \ {j}
    BY <1>1 DEF TypeOK, QueueInv, JobsInv
  <2>2. /\ DOMAIN waiting' = 1..(Len(waiting) + 1) /\ DOMAIN waiting = 1..Len(waiting)
        /\ Len(waiting) \in Nat /\ waiting'[Len(waiting) + 1] = j
        /\ \A i \in DOMAIN waiting : waiting'[i] = waiting[i]
    BY <1>1, Appended DEF TypeOK
  <2>3. \A i \in DOMAIN waiting' : i \in DOMAIN waiting \/ i = Len(waiting) + 1
    BY <2>2
  <2>4. \A i \in DOMAIN waiting' : jobs'[waiting'[i]].st = "waiting"
    BY <1>2, <2>1, <2>2, <2>3 DEF QueueInv, JobsInv
  <2>5. \A i, k \in DOMAIN waiting' : waiting'[i] = waiting'[k] => i = k
    BY <2>1, <2>2, <2>3 DEF QueueInv, JobsInv
  <2>6. \A q \in Processes : worker[q].job # None => worker[q].job \in Slots \ {j}
    BY <1>1 DEF TypeOK, QueueInv, JobsInv
  <2>7. \A i \in Slots : jobs'[i].st # "free" => KeyOf(i)' \in Key
    BY <1>1, <1>2 DEF QueueInv, JobsInv, KeyOf
  <2> QED BY <1>1, <1>2, <2>4, <2>5, <2>6, <2>7 DEF QueueInv, JobsInv
<1> QED BY <1>3, <1>4 DEF QueueInv

(* And when a process dies, with its job and its wait.                     *)
LEMMA CrashQueue ==
  ASSUME TypeOK, QueueInv, NEW p \in Processes, Crash(p)
  PROVE  QueueInv'
<1> DEFINE Had(j) == worker[p].job = j
           Again(j) == Had(j) /\ ~jobs[j].stalled
           w == worker[p].job
<1>1. /\ exec'[p] = Idle /\ \A q \in Processes \ {p} : exec'[q] = exec[q]
      /\ worker'[p].job = None /\ \A q \in Processes \ {p} : worker'[q] = worker[q]
  BY DEF Crash, TypeOK
<1>2. Idle.pc = "idle" /\ Idle.slot = None
  BY DEF Idle
<1>3. /\ jobs' = [j \in Slots |->
           IF Again(j) THEN [jobs[j] EXCEPT !.st = "waiting", !.stalled = TRUE]
           ELSE IF (Had(j) \/ jobs[j].st \in {"done", "failed"}) /\ ForgottenWith(p, j) THEN NoJob
           ELSE IF Had(j) THEN [jobs[j] EXCEPT !.st = "failed"] ELSE jobs[j]]
      /\ waiting' = IF \E j \in Slots : Again(j) THEN <<w>> \o waiting ELSE waiting
  BY DEF Crash
<1>4. ASSUME NEW j \in Slots
      PROVE  /\ jobs[j] \in Jobs
             /\ jobs'[j].st = "free" => jobs[j].st = "free" \/ ForgottenWith(p, j)
             /\ jobs'[j].st # "free" =>
                  /\ jobs[j].st # "free"
                  /\ jobs'[j].run = jobs[j].run /\ jobs'[j].step = jobs[j].step
             /\ ~Had(j) /\ jobs[j].st \in {"waiting", "active"} => jobs'[j] = jobs[j]
             /\ Again(j) => jobs'[j].st = "waiting"
  <2>0. jobs[j] \in Jobs
    BY DEF TypeOK
  <2>1. CASE Again(j)
    <3>1. jobs'[j] = [jobs[j] EXCEPT !.st = "waiting", !.stalled = TRUE]
      BY <1>3, <2>1
    <3>2. jobs[j].st = "active"
      BY <2>1, ConstantsType DEF QueueInv, JobsInv
    <3> QED BY <2>0, <2>1, <3>1, <3>2 DEF Jobs
  <2>2. CASE ~Again(j) /\ (Had(j) \/ jobs[j].st \in {"done", "failed"}) /\ ForgottenWith(p, j)
    <3>1. jobs'[j] = NoJob /\ NoJob.st = "free"
      BY <1>3, <2>2 DEF NoJob
    <3> QED BY <2>0, <2>2, <3>1
  <2>3. CASE ~Again(j) /\ Had(j) /\ ~ForgottenWith(p, j)
    <3>1. jobs'[j] = [jobs[j] EXCEPT !.st = "failed"]
      BY <1>3, <2>3
    <3>2. jobs[j].st = "active"
      BY <2>3, ConstantsType DEF QueueInv, JobsInv
    <3> QED BY <2>0, <2>3, <3>1, <3>2 DEF Jobs
  <2>4. CASE ~Had(j) /\ ~(jobs[j].st \in {"done", "failed"} /\ ForgottenWith(p, j))
    <3>1. jobs'[j] = jobs[j]
      BY <1>3, <2>4
    <3> QED BY <2>0, <2>4, <3>1
  <2> QED BY <2>1, <2>2, <2>3, <2>4
<1>5. JobsInv'
  <2>1. \A j \in Slots : jobs'[j].st # "free" => KeyOf(j)' \in Key
    BY <1>4 DEF QueueInv, JobsInv, KeyOf
  <2>2. \A q \in Processes : worker[q].job \in Slots \cup {None}
    BY DEF TypeOK
  <2>3. w # None => w \in Slots /\ jobs[w].st = "active"
    BY <2>2 DEF QueueInv, JobsInv
  <2>4. \A i \in DOMAIN waiting : waiting[i] \in Slots /\ waiting[i] # w /\ jobs[waiting[i]].st = "waiting"
    BY <2>3, ConstantsType DEF TypeOK, QueueInv, JobsInv
  <2>5. \A i \in DOMAIN waiting : jobs'[waiting[i]].st = "waiting"
    BY <1>4, <2>4
  <2>6. \A q \in Processes : worker'[q].job # None => jobs'[worker'[q].job].st = "active"
    <3>1. ASSUME NEW q \in Processes, q # p, worker[q].job # None
          PROVE  jobs'[worker[q].job].st = "active"
      <4>1. worker[q].job # w /\ worker[q].job \in Slots /\ jobs[worker[q].job].st = "active"
        BY <2>2, <3>1 DEF QueueInv, JobsInv
      <4> QED BY <1>4, <4>1
    <3> QED BY <1>1, <3>1
  <2>7. ASSUME NEW q \in Processes, NEW r \in Processes,
               worker'[q].job # None, worker'[q].job = worker'[r].job
        PROVE  q = r
    BY <1>1, <2>7 DEF QueueInv, JobsInv
  <2>8. /\ \A i \in DOMAIN waiting' : jobs'[waiting'[i]].st = "waiting"
        /\ \A i, k \in DOMAIN waiting' : waiting'[i] = waiting'[k] => i = k
    <3>1. CASE \E j \in Slots : Again(j)
      <4>1. w \in Slots /\ Again(w) /\ jobs'[w].st = "waiting"
        BY <1>4, <3>1
      <4>2. waiting' = <<w>> \o waiting
        BY <1>3, <3>1
      <4>3. /\ DOMAIN waiting' = 1..(Len(waiting) + 1) /\ DOMAIN waiting = 1..Len(waiting)
            /\ Len(waiting) \in Nat /\ waiting'[1] = w
            /\ \A i \in DOMAIN waiting : waiting'[i + 1] = waiting[i]
        BY <4>1, <4>2, Prepended DEF TypeOK
      <4>4. ASSUME NEW i \in DOMAIN waiting', i # 1
            PROVE  i - 1 \in DOMAIN waiting /\ waiting'[i] = waiting[i - 1]
        <5>1. i - 1 \in DOMAIN waiting /\ (i - 1) + 1 = i
          BY <4>3, <4>4
        <5> QED BY <4>3, <5>1
      <4>5. \A i \in DOMAIN waiting' : jobs'[waiting'[i]].st = "waiting"
        BY <2>5, <4>1, <4>3, <4>4
      <4>6. ASSUME NEW i \in DOMAIN waiting', NEW k \in DOMAIN waiting', waiting'[i] = waiting'[k]
            PROVE  i = k
        <5>1. CASE i = 1 \/ k = 1
          BY <2>4, <4>3, <4>4, <4>6, <5>1
        <5>2. CASE i # 1 /\ k # 1
          <6>1. i - 1 = k - 1
            BY <4>4, <4>6, <5>2 DEF QueueInv, JobsInv
          <6> QED BY <4>3, <6>1
        <5> QED BY <5>1, <5>2
      <4> QED BY <4>5, <4>6
    <3>2. CASE ~\E j \in Slots : Again(j)
      BY <1>3, <2>5, <3>2 DEF QueueInv, JobsInv
    <3> QED BY <3>1, <3>2
  <2> QED BY <2>1, <2>6, <2>7, <2>8 DEF JobsInv
<1>6. WaitsInv'
  <2>1. ASSUME NEW q \in Processes, q # p, exec[q].pc = "wait"
        PROVE  /\ jobs'[exec[q].slot].st # "free"
               /\ KeyOf(exec[q].slot)' = <<exec[q].run, exec[q].step>>
    <3>1. exec[q].slot \in Slots /\ ~ForgottenWith(p, exec[q].slot)
      BY <2>1, ExecsType DEF TypeOK, QueueInv, WaitsInv, ForgottenWith
    <3>2. jobs[exec[q].slot].st # "free" /\ KeyOf(exec[q].slot) = <<exec[q].run, exec[q].step>>
      BY <2>1 DEF QueueInv, WaitsInv
    <3>3. jobs'[exec[q].slot].st # "free"
      BY <1>4, <3>1, <3>2
    <3>4. /\ jobs'[exec[q].slot].run = jobs[exec[q].slot].run
          /\ jobs'[exec[q].slot].step = jobs[exec[q].slot].step
      BY <1>4, <3>1, <3>3
    <3>5. KeyOf(exec[q].slot)' = KeyOf(exec[q].slot)
      <4>1. exec'[q] = exec[q]
        BY <1>1, <2>1
      <4> QED BY <3>4, <4>1 DEF KeyOf
    <3> QED BY <3>2, <3>3, <3>5
  <2> QED BY <1>1, <1>2, <2>1 DEF QueueInv, WaitsInv, KeyOf
<1> QED BY <1>5, <1>6 DEF QueueInv

(* And after every step of the system.                                     *)
LEMMA NextQueue ==
  ASSUME TypeOK, QueueInv, Next
  PROVE  QueueInv'
<1>1. ASSUME NEW p \in Processes, NEW r \in Runs, StartRun(p, r) PROVE QueueInv'
  <2> DEFINE x == [Idle EXCEPT !.pc = "next", !.run = r]
  <2>1. x \in Execs /\ x.pc = "next" /\ x.run = r /\ x.slot = None
    BY IdleType DEF Execs, Idle
  <2>2. Becomes(p, x) /\ UNCHANGED <<jobs, waiting>>
    BY <1>1 DEF StartRun, queueVars
  <2>3. \A q \in Processes : worker'[q].job = worker[q].job
    BY <1>1 DEF StartRun, TypeOK
  <2> HIDE DEF x
  <2> QED BY <2>1, <2>2, <2>3, JobsFrame, LeavesWaits DEF QueueInv
<1>2. ASSUME NEW p \in Processes, NEW k \in Key, Evict(p, k) PROVE QueueInv'
  BY <1>2 DEF Evict, queueVars, QueueInv, JobsInv, WaitsInv, KeyOf
<1> QED
  BY <1>1, <1>2, ExecutorQueue, WorkerQueue, CrashQueue, BackoffQueue DEF Next

(***************************************************************************)
(* The order of effects.  Of every step of the system five things have to  *)
(* be known: what happened stays so; new effects are those of ready steps; *)
(* executors, jobs and results stay ready or become so.                    *)
(***************************************************************************)
Grows == (\A k \in Key : ran[k] > 0 => ran'[k] > 0) /\ skipped \subseteq skipped'
EffectsWereReady ==
  \A r \in Runs : \A s \in Step : ran'[<<r, s>>] > 0 => ran[<<r, s>>] > 0 \/ Ready(r, s)
ExecsStayReady ==
  \A p \in Processes : exec'[p].pc # "idle" =>
    \/ exec[p].pc # "idle" /\ exec'[p].run = exec[p].run /\ exec'[p].step = exec[p].step
    \/ Ready(exec[p].run, exec[p].step)'
JobsStayReady ==
  \A j \in Slots : jobs'[j].st # "free" =>
    \/ jobs[j].st # "free" /\ jobs'[j].run = jobs[j].run /\ jobs'[j].step = jobs[j].step
    \/ \E p \in Processes :
         exec[p].pc # "idle" /\ jobs'[j].run = exec[p].run /\ jobs'[j].step = exec[p].step
ResultsHappened ==
  /\ \A j \in Slots : jobs'[j].st = "done" =>
       \/ jobs[j].st = "done" /\ KeyOf(j)' = KeyOf(j)
       \/ ran'[<<jobs'[j].run, jobs'[j].step>>] > 0
  /\ \A p \in Processes : \A k \in cache'[p] : k \in cache[p] \/ ran'[k] > 0

(* What is ready stays ready.                                              *)
LEMMA ReadyGrows ==
  ASSUME Grows, NEW r \in Runs, NEW s \in 1..(NSteps + 1), Ready(r, s)
  PROVE  Ready(r, s)'
<1>1. s # 1 => s - 1 \in Step
  BY ConstantsType DEF Step
<1>2. s # 1 => <<r, s - 1>> \in Key
  BY <1>1, ConstantsType
<1> QED BY <1>2 DEF Grows, Ready

(* The five facts are enough.                                              *)
LEMMA OrderStep ==
  ASSUME TypeOK, QueueInv, OrderInv, TypeOK', QueueInv',
         Grows, EffectsWereReady, ExecsStayReady, JobsStayReady, ResultsHappened
  PROVE  OrderInv'
<1>1. EffectsInOrder'
  <2> SUFFICES ASSUME NEW r \in Runs, NEW s \in Step \ {1}, ran'[<<r, s>>] > 0
               PROVE  ran'[<<r, s - 1>>] > 0 \/ <<r, s - 1>> \in skipped'
    BY DEF EffectsInOrder
  <2>1. s \in 1..(NSteps + 1)
    BY ConstantsType DEF Step
  <2>2. Ready(r, s)
    <3>1. CASE ran[<<r, s>>] > 0
      BY <3>1 DEF OrderInv, EffectsInOrder, Ready
    <3> QED BY <3>1 DEF EffectsWereReady
  <2>3. Ready(r, s)'
    BY <2>1, <2>2, ReadyGrows
  <2> QED BY <2>3 DEF Ready
<1>2. ASSUME NEW p \in Processes, exec'[p].pc # "idle" PROVE Ready(exec[p].run, exec[p].step)'
  <2>1. CASE exec[p].pc # "idle" /\ exec'[p].run = exec[p].run /\ exec'[p].step = exec[p].step
    <3>1. exec[p].run \in Runs /\ exec[p].step \in 1..(NSteps + 1) /\ Ready(exec[p].run, exec[p].step)
      BY <2>1, ExecsType DEF TypeOK, QueueInv, WaitsInv, OrderInv
    <3> DEFINE r == exec[p].run
               s == exec[p].step
    <3>2. r \in Runs /\ s \in 1..(NSteps + 1) /\ Ready(r, s)
      BY <3>1
    <3>3. Grows /\ (s # 1 => <<r, s - 1>> \in Key)
      <4>1. s # 1 => s - 1 \in Step
        BY <3>2, ConstantsType DEF Step
      <4> QED BY <3>2, <4>1, ConstantsType
    <3>4. s = 1 \/ ran'[<<r, s - 1>>] > 0 \/ <<r, s - 1>> \in skipped'
      BY <3>2, <3>3 DEF Grows, Ready
    <3> QED BY <2>1, <3>4 DEF Ready
  <2> QED BY <1>2, <2>1 DEF ExecsStayReady
<1>a. ASSUME NEW r \in Runs, NEW s \in 1..(NSteps + 1), Ready(r, s)
      PROVE  s = 1 \/ ran'[<<r, s - 1>>] > 0 \/ <<r, s - 1>> \in skipped'
  BY <1>a, ReadyGrows DEF Ready
<1>3. ASSUME NEW j \in Slots, jobs'[j].st # "free" PROVE Ready(jobs[j].run, jobs[j].step)'
  <2>1. CASE jobs[j].st # "free" /\ jobs'[j].run = jobs[j].run /\ jobs'[j].step = jobs[j].step
    <3>1. jobs[j].run \in Runs /\ jobs[j].step \in Step /\ Ready(jobs[j].run, jobs[j].step)
      BY <2>1 DEF QueueInv, JobsInv, OrderInv, KeyOf, Key
    <3>2. jobs[j].step \in 1..(NSteps + 1)
      BY <3>1, ConstantsType DEF Step
    <3> QED BY <1>a, <2>1, <3>1, <3>2 DEF Ready
  <2>2. ASSUME NEW p \in Processes, exec[p].pc # "idle",
               jobs'[j].run = exec[p].run, jobs'[j].step = exec[p].step
        PROVE  Ready(jobs[j].run, jobs[j].step)'
    <3>1. exec[p].run \in Runs /\ exec[p].step \in 1..(NSteps + 1) /\ Ready(exec[p].run, exec[p].step)
      BY <2>2, ExecsType DEF TypeOK, QueueInv, WaitsInv, OrderInv
    <3> QED BY <1>a, <2>2, <3>1 DEF Ready
  <2> QED BY <1>3, <2>1, <2>2 DEF JobsStayReady
<1>4. ASSUME NEW j \in Slots, jobs'[j].st = "done" PROVE ran'[KeyOf(j)'] > 0
  <2>1. CASE jobs[j].st = "done" /\ KeyOf(j)' = KeyOf(j)
    BY <2>1 DEF Grows, OrderInv, QueueInv, JobsInv
  <2>2. CASE ran'[<<jobs'[j].run, jobs'[j].step>>] > 0
    BY <2>2 DEF KeyOf
  <2> QED BY <1>4, <2>1, <2>2 DEF ResultsHappened
<1>5. ASSUME NEW p \in Processes, NEW k \in cache'[p] PROVE ran'[k] > 0
  BY <1>5 DEF ResultsHappened, OrderInv, Grows, TypeOK
<1> QED BY <1>1, <1>2, <1>3, <1>4, <1>5 DEF OrderInv, KeyOf

(* An effect is added, or none.                                            *)
LEMMA EffectGrows ==
  ASSUME TypeOK, NEW k \in Key, Effect(k) \/ UNCHANGED ran
  PROVE  /\ \A x \in Key : ran[x] > 0 => ran'[x] > 0
         /\ \A x \in Key : ran'[x] > 0 => ran[x] > 0 \/ x = k
         /\ Effect(k) => ran'[k] > 0
<1>1. ran[k] \in {0, 1, 2}
  BY DEF TypeOK, Many
<1>2. (IF ran[k] < Many THEN ran[k] + 1 ELSE ran[k]) > 0
  BY <1>1 DEF Many
<1> QED BY <1>2 DEF TypeOK, Effect

(* The effect of a ready step is as it should be.                          *)
LEMMA ReadyEffects ==
  ASSUME TypeOK, NEW r \in Runs, NEW s \in Step, Ready(r, s),
         Effect(<<r, s>>) \/ UNCHANGED ran, UNCHANGED skipped
  PROVE  Grows /\ EffectsWereReady
<1>1. <<r, s>> \in Key /\ \A x \in Runs, y \in Step : <<x, y>> \in Key
  BY ConstantsType
<1> QED BY <1>1, EffectGrows DEF Grows, EffectsWereReady

(* So is no effect at all.                                                 *)
LEMMA NoEffects ==
  ASSUME UNCHANGED ran, skipped \subseteq skipped'
  PROVE  Grows /\ EffectsWereReady
BY DEF Grows, EffectsWereReady

(* Jobs and results that stay what they are.                               *)
LEMMA SameJobs ==
  ASSUME UNCHANGED <<jobs, cache>>
  PROVE  JobsStayReady /\ ResultsHappened
BY DEF JobsStayReady, ResultsHappened, KeyOf

(* An executor that stops, repeats its step, or has its step behind it.    *)
LEMMA ExecMoves ==
  ASSUME TypeOK, NEW p \in Processes, NEW x \in Execs, Becomes(p, x),
         \/ x.pc = "idle" \/ x.step = 1
         \/ exec[p].pc # "idle" /\ x.run = exec[p].run /\ x.step = exec[p].step
         \/ /\ x.run = exec[p].run /\ x.step = exec[p].step + 1 /\ exec[p].step \in Step
            /\ \/ ran'[<<exec[p].run, exec[p].step>>] > 0
               \/ <<exec[p].run, exec[p].step>> \in skipped'
  PROVE  ExecsStayReady
<1>1. exec'[p] = x /\ \A q \in Processes \ {p} : exec'[q] = exec[q]
  BY DEF Becomes, TypeOK
<1>2. exec[p].step \in Step => (exec[p].step + 1) - 1 = exec[p].step
  BY StepQueueAssumption DEF Step
<1>3. x.pc = "idle" \/ Ready(exec[p].run, exec[p].step)'
      \/ (exec[p].pc # "idle" /\ x.run = exec[p].run /\ x.step = exec[p].step)
  BY <1>1, <1>2 DEF Ready
<1> QED BY <1>1, <1>3 DEF ExecsStayReady

(* The job of an executor that is done with it.                            *)
LEMMA DroppedJob ==
  ASSUME TypeOK, NEW i, jobs' = [jobs EXCEPT ![i] = NoJob], UNCHANGED cache
  PROVE  JobsStayReady /\ ResultsHappened
<1>1. \A j \in Slots : jobs'[j] = jobs[j] \/ jobs'[j].st = "free"
  BY DEF TypeOK, NoJob
<1> QED BY <1>1 DEF JobsStayReady, ResultsHappened, KeyOf

(* The five facts, of the steps of an executor.                            *)
LEMMA ExecutorOrder ==
  ASSUME TypeOK, QueueInv, OrderInv, NEW p \in Processes, Executes(p)
  PROVE  Grows /\ EffectsWereReady /\ ExecsStayReady /\ JobsStayReady /\ ResultsHappened
<1> DEFINE e == exec[p]
           k == <<e.run, e.step>>
<1>0. e \in Execs /\ Idle \in Execs /\ Idle.pc = "idle"
  BY IdleType DEF TypeOK, Idle
<1>a. e.pc # "idle" => e.run \in Runs /\ Ready(e.run, e.step)
  BY DEF QueueInv, WaitsInv, OrderInv
<1>b. e.pc = "wait" => e.slot \in Slots /\ KeyOf(e.slot) = k /\ k \in Key /\ e.step \in Step
  <2>1. ASSUME e.pc = "wait" PROVE e.slot \in Slots /\ KeyOf(e.slot) = k /\ k \in Key
    BY <1>0, <2>1, ExecsType DEF QueueInv, WaitsInv, JobsInv
  <2> QED BY <2>1 DEF Key
<1>c. ASSUME Becomes(p, Idle) PROVE ExecsStayReady
  BY <1>0, <1>c, ExecMoves
<1>d. ASSUME e.pc # "idle", e.step \in Step, Becomes(p, NextStep(e)), ran'[k] > 0 \/ k \in skipped'
      PROVE  ExecsStayReady
  <2>1. NextStep(e) \in Execs /\ NextStep(e).run = e.run /\ NextStep(e).step = e.step + 1
    BY <1>0, <1>d, NextStepType
  <2> QED BY <1>d, <2>1, ExecMoves
<1>1. CASE Issue(p)
  <2>1. e.pc = "next" /\ UNCHANGED <<cache, ran, skipped>>
    BY <1>1 DEF Issue, Current, counts, history
  <2>2. PICK j \in Slots :
          /\ jobs' = [jobs EXCEPT ![j] =
               [NoJob EXCEPT !.st = "waiting", !.run = exec[p].run, !.step = exec[p].step]]
          /\ Becomes(p, [exec[p] EXCEPT !.pc = "wait", !.slot = j])
    BY <1>1 DEF Issue
  <2>3. /\ jobs'[j].st = "waiting" /\ jobs'[j].run = e.run /\ jobs'[j].step = e.step
        /\ \A i \in Slots \ {j} : jobs'[i] = jobs[i]
    BY <2>2, NoJobType DEF TypeOK, Jobs
  <2>4. ExecsStayReady
    <3> DEFINE x == [e EXCEPT !.pc = "wait", !.slot = j]
    <3>1. x \in Execs /\ x.run = e.run /\ x.step = e.step
      BY <1>0 DEF Execs
    <3>2. Becomes(p, x)
      BY <2>2
    <3> HIDE DEF x
    <3> QED BY <2>1, <3>1, <3>2, ExecMoves
  <2>5. JobsStayReady
    BY <2>1, <2>3 DEF JobsStayReady
  <2>6. ResultsHappened
    BY <2>1, <2>3 DEF ResultsHappened, KeyOf
  <2> QED BY <2>1, <2>4, <2>5, <2>6, NoEffects
<1>2. CASE SkipStep(p)
  <2>1. /\ e.pc # "idle" /\ e.step \in Step /\ k \in skipped' /\ Becomes(p, NextStep(e))
        /\ UNCHANGED <<ran, jobs, cache>> /\ skipped \subseteq skipped'
    BY <1>2 DEF SkipStep, counts, queueVars
  <2> QED BY <1>d, <2>1, NoEffects, SameJobs
<1>3. CASE IssueFails(p)
  BY <1>3, <1>c, NoEffects, SameJobs DEF IssueFails, counts, history, queueVars
<1>4. CASE EndRun(p)
  BY <1>4, <1>c, NoEffects, SameJobs DEF EndRun, counts, history, queueVars
<1>5. CASE Answered(p)
  <2>1. /\ e.pc = "wait" /\ jobs[e.slot].st = "done" /\ Becomes(p, NextStep(e))
        /\ jobs' = [jobs EXCEPT ![exec[p].slot] = NoJob] /\ UNCHANGED <<ran, skipped, cache>>
    BY <1>5 DEF Answered, counts, history
  <2>2. ran'[k] > 0
    BY <1>b, <2>1 DEF OrderInv
  <2> QED BY <1>b, <1>d, <2>1, <2>2, NoEffects, DroppedJob
<1>6. CASE Refused(p)
  <2>1. /\ Becomes(p, Idle) /\ jobs' = [jobs EXCEPT ![exec[p].slot] = NoJob]
        /\ UNCHANGED <<ran, skipped, cache>>
    BY <1>6 DEF Refused, counts, history
  <2> QED BY <1>c, <2>1, NoEffects, DroppedJob
<1>7. CASE Timeout(p)
  BY <1>7, <1>c, NoEffects, SameJobs DEF Timeout, counts, history, queueVars
<1>e. ASSUME TryAgain(p), e.pc = "next" PROVE ExecsStayReady
  <2> DEFINE x == [e EXCEPT !.tries = @ + 1]
  <2>1. e.tries + 1 \in 0..Retries
    BY <1>0, <1>e, ExecsType, ConstantsType DEF TryAgain
  <2>2. x \in Execs /\ x.run = e.run /\ x.step = e.step
    BY <1>0, <2>1 DEF Execs
  <2>3. Becomes(p, x)
    BY <1>e DEF TryAgain
  <2> HIDE DEF x
  <2> QED BY <1>e, <2>2, <2>3, ExecMoves
<1>8. CASE InlineRejected(p)
  <2>1. e.pc = "next" /\ (TryAgain(p) \/ Becomes(p, Idle)) /\ UNCHANGED <<ran, skipped, jobs, cache>>
    BY <1>8 DEF InlineRejected, Current, counts, history, queueVars
  <2> QED BY <1>c, <1>e, <2>1, NoEffects, SameJobs
<1>9. CASE InlineReturns(p)
  <2>1. /\ e.pc = "next" /\ e.step \in Step /\ Becomes(p, NextStep(e))
        /\ UNCHANGED <<jobs, skipped>>
    BY <1>9 DEF InlineReturns, Current, queueVars
  <2>2. e.run \in Runs /\ Ready(e.run, e.step) /\ k \in Key
    BY <1>a, <2>1, ConstantsType
  <2>3. CASE k \in cache[p]
    <3>1. UNCHANGED <<ran, cache>>
      BY <1>9, <2>3 DEF InlineReturns
    <3>2. ran'[k] > 0
      BY <2>3, <3>1 DEF OrderInv
    <3> QED BY <1>d, <2>1, <3>1, <3>2, NoEffects, SameJobs
  <2>4. CASE k \notin cache[p]
    <3>1. Effect(k) /\ cache' = [cache EXCEPT ![p] = @ \cup {k}]
      BY <1>9, <2>4 DEF InlineReturns
    <3>2. ran'[k] > 0 /\ Grows /\ EffectsWereReady
      BY <2>1, <2>2, <3>1, EffectGrows, ReadyEffects
    <3>3. JobsStayReady
      BY <2>1 DEF JobsStayReady
    <3>4. ResultsHappened
      BY <2>1, <3>1, <3>2 DEF ResultsHappened, TypeOK, KeyOf
    <3> QED BY <1>d, <2>1, <3>2, <3>3, <3>4
  <2> QED BY <2>3, <2>4
<1>10. CASE InlineFails(p)
  <2>1. /\ e.pc = "next" /\ e.step \in Step /\ (TryAgain(p) \/ Becomes(p, Idle))
        /\ Effect(k) \/ UNCHANGED ran
        /\ UNCHANGED <<jobs, cache, skipped>>
    BY <1>10 DEF InlineFails, Current, MayHaveEffect, UnseenEffect, queueVars
  <2>2. e.run \in Runs /\ Ready(e.run, e.step)
    BY <1>a, <2>1
  <2>3. Grows /\ EffectsWereReady
    BY <2>1, <2>2, ReadyEffects
  <2> QED BY <1>c, <1>e, <2>1, <2>3, SameJobs
<1> QED
  BY <1>1, <1>2, <1>3, <1>4, <1>5, <1>6, <1>7, <1>8, <1>9, <1>10 DEF Executes

(* The five facts, of the steps of a step worker.                          *)
LEMMA WorkerOrder ==
  ASSUME TypeOK, QueueInv, OrderInv, NEW p \in Processes,
         TurnedAway(p) \/ Hit(p) \/ Begin(p) \/ Returns(p) \/ Fails(p)
  PROVE  Grows /\ EffectsWereReady /\ ExecsStayReady /\ JobsStayReady /\ ResultsHappened
<1>0. UNCHANGED exec => ExecsStayReady
  BY DEF ExecsStayReady
<1>a. ASSUME NEW j \in Slots, (JobDone(j) /\ ran'[KeyOf(j)] > 0) \/ AttemptFails(j),
             jobs[j].st # "free",
             \A q \in Processes : \A k \in cache'[q] : k \in cache[q] \/ ran'[k] > 0
      PROVE  JobsStayReady /\ ResultsHappened
  <2>1. PICK x \in Jobs :
          /\ jobs' = [jobs EXCEPT ![j] = x]
          /\ x.st # "free" => x.run = jobs[j].run /\ x.step = jobs[j].step
    BY <1>a, Finished
  <2>2. jobs'[j] = x /\ \A i \in Slots \ {j} : jobs'[i] = jobs[i]
    BY <2>1 DEF TypeOK
  <2>3. JobsStayReady
    BY <1>a, <2>1, <2>2 DEF JobsStayReady
  <2>4. jobs'[j].st = "done" => ran'[KeyOf(j)] > 0
    BY <1>a, NotDone
  <2>5. jobs'[j].st = "done" => ran'[<<jobs'[j].run, jobs'[j].step>>] > 0
    BY <2>1, <2>2, <2>4 DEF KeyOf
  <2>6. ResultsHappened
    BY <1>a, <2>2, <2>5 DEF ResultsHappened, KeyOf
  <2> QED BY <2>3, <2>6
<1>b. \A j \in Slots : KeyOf(j) \in Key /\ jobs[j].st # "free" =>
        jobs[j].run \in Runs /\ jobs[j].step \in Step /\ Ready(jobs[j].run, jobs[j].step)
  BY DEF OrderInv, KeyOf, Key
<1>1. CASE TurnedAway(p)
  <2>1. PICK j \in Slots : Takes(p, j) /\ AttemptFails(j) /\ UNCHANGED <<exec, cache, ran, skipped>>
    BY <1>1 DEF TurnedAway, counts, history
  <2>2. jobs[j].st = "waiting"
    BY <2>1, TakesType
  <2> QED BY <1>0, <1>a, <2>1, <2>2, NoEffects
<1>2. CASE Hit(p)
  <2>1. PICK j \in Slots : /\ Takes(p, j) /\ JobDone(j) /\ KeyOf(j) \in cache[p]
                           /\ UNCHANGED <<exec, cache, ran, skipped>>
    BY <1>2 DEF Hit, counts, history
  <2>2. jobs[j].st = "waiting" /\ ran[KeyOf(j)] > 0
    BY <2>1, TakesType DEF OrderInv
  <2> QED BY <1>0, <1>a, <2>1, <2>2, NoEffects
<1>3. CASE Begin(p)
  <2>1. PICK j \in Slots : /\ Takes(p, j) /\ jobs' = [jobs EXCEPT ![j].st = "active"]
                           /\ UNCHANGED <<exec, cache, ran, skipped>>
    BY <1>3 DEF Begin, history
  <2>2. jobs[j].st = "waiting"
    BY <2>1, TakesType
  <2>3. /\ jobs'[j].st = "active" /\ jobs'[j].run = jobs[j].run /\ jobs'[j].step = jobs[j].step
        /\ \A i \in Slots \ {j} : jobs'[i] = jobs[i]
    BY <2>1 DEF TypeOK, Jobs
  <2>4. JobsStayReady
    BY <2>2, <2>3 DEF JobsStayReady
  <2>5. ResultsHappened
    BY <2>1, <2>3 DEF ResultsHappened, KeyOf
  <2> QED BY <1>0, <2>1, <2>4, <2>5, NoEffects
<1>c. ASSUME NEW j \in Slots, KeyOf(j) \in Key, jobs[j].st # "free",
             Effect(KeyOf(j)) \/ UNCHANGED ran, UNCHANGED skipped
      PROVE  Grows /\ EffectsWereReady
  <2>1. /\ jobs[j].run \in Runs /\ jobs[j].step \in Step /\ Ready(jobs[j].run, jobs[j].step)
    BY <1>b, <1>c
  <2> QED BY <1>c, <2>1, ReadyEffects DEF KeyOf
<1>4. CASE Returns(p)
  <2>1. PICK j \in Slots :
          /\ Ends(p, j) /\ Effect(KeyOf(j)) /\ JobDone(j)
          /\ cache' = [cache EXCEPT ![p] = @ \cup {KeyOf(j)}]
          /\ UNCHANGED <<exec, skipped>>
    BY <1>4 DEF Returns
  <2>2. jobs[j].st = "active" /\ KeyOf(j) \in Key
    BY <2>1, EndsType
  <2>3. Grows /\ EffectsWereReady /\ ran'[KeyOf(j)] > 0
    BY <1>c, <2>1, <2>2, EffectGrows
  <2>4. \A q \in Processes : \A k \in cache'[q] : k \in cache[q] \/ ran'[k] > 0
    BY <2>1, <2>3 DEF TypeOK
  <2> QED BY <1>0, <1>a, <2>1, <2>2, <2>3, <2>4
<1>5. CASE Fails(p)
  <2>1. PICK j \in Slots :
          /\ Ends(p, j) /\ AttemptFails(j)
          /\ Effect(KeyOf(j)) \/ UNCHANGED ran
          /\ UNCHANGED <<exec, cache, skipped>>
    BY <1>5 DEF Fails, MayHaveEffect, UnseenEffect
  <2>2. jobs[j].st = "active" /\ KeyOf(j) \in Key
    BY <2>1, EndsType
  <2>3. Grows /\ EffectsWereReady
    BY <1>c, <2>1, <2>2
  <2> QED BY <1>0, <1>a, <2>1, <2>2, <2>3
<1> QED BY <1>1, <1>2, <1>3, <1>4, <1>5

(* The five facts, of a process that dies.                                 *)
LEMMA CrashOrder ==
  ASSUME TypeOK, QueueInv, OrderInv, NEW p \in Processes, Crash(p)
  PROVE  Grows /\ EffectsWereReady /\ ExecsStayReady /\ JobsStayReady /\ ResultsHappened
<1> DEFINE Had(j) == worker[p].job = j
<1>0. UNCHANGED skipped /\ cache' = [cache EXCEPT ![p] = {}]
  BY DEF Crash
<1>1. Grows /\ EffectsWereReady
  <2>1. CASE UNCHANGED ran
    BY <1>0, <2>1, NoEffects
  <2>2. ASSUME NEW j \in Slots, Had(j), Effect(KeyOf(j)) PROVE Grows /\ EffectsWereReady
    <3>1. jobs[j].st = "active"
      BY <2>2, ConstantsType DEF QueueInv, JobsInv
    <3>2. jobs[j].run \in Runs /\ jobs[j].step \in Step /\ Ready(jobs[j].run, jobs[j].step)
      BY <3>1 DEF QueueInv, JobsInv, OrderInv, KeyOf, Key
    <3> QED BY <1>0, <2>2, <3>2, ReadyEffects DEF KeyOf
  <2> QED BY <2>1, <2>2 DEF Crash
<1>2. ExecsStayReady
  <2>1. exec'[p] = Idle /\ \A q \in Processes \ {p} : exec'[q] = exec[q]
    BY DEF Crash, TypeOK
  <2> QED BY <2>1 DEF ExecsStayReady, Idle
<1>3. ASSUME NEW j \in Slots
      PROVE  \/ jobs'[j].st = "free"
             \/ /\ jobs[j].st # "free"
                /\ jobs'[j].run = jobs[j].run /\ jobs'[j].step = jobs[j].step
                /\ jobs'[j].st = "done" => jobs[j].st = "done"
  <2>1. jobs[j] \in Jobs /\ (Had(j) => jobs[j].st = "active")
    BY ConstantsType DEF TypeOK, QueueInv, JobsInv
  <2>2. \/ Had(j) /\ jobs'[j] = [jobs[j] EXCEPT !.st = "waiting", !.stalled = TRUE]
        \/ jobs'[j] = NoJob
        \/ Had(j) /\ jobs'[j] = [jobs[j] EXCEPT !.st = "failed"]
        \/ jobs'[j] = jobs[j]
    BY DEF Crash
  <2>3. CASE Had(j) /\ jobs'[j] = [jobs[j] EXCEPT !.st = "waiting", !.stalled = TRUE]
    <3>1. jobs'[j].st = "waiting" /\ jobs'[j].run = jobs[j].run /\ jobs'[j].step = jobs[j].step
      BY <2>1, <2>3 DEF Jobs
    <3> QED BY <2>1, <2>3, <3>1
  <2>4. CASE Had(j) /\ jobs'[j] = [jobs[j] EXCEPT !.st = "failed"]
    <3>1. jobs'[j].st = "failed" /\ jobs'[j].run = jobs[j].run /\ jobs'[j].step = jobs[j].step
      BY <2>1, <2>4 DEF Jobs
    <3> QED BY <2>1, <2>4, <3>1
  <2>5. CASE jobs'[j] = NoJob
    BY <2>5 DEF NoJob
  <2>6. CASE jobs'[j] = jobs[j]
    <3>1. jobs[j].st = "free" => jobs'[j].st = "free"
      BY <2>6
    <3> QED BY <2>6, <3>1
  <2> QED BY <2>2, <2>3, <2>4, <2>5, <2>6
<1>4. JobsStayReady
  BY <1>3 DEF JobsStayReady
<1>5. ResultsHappened
  <2>1. \A j \in Slots : jobs'[j].st = "done" => jobs[j].st = "done" /\ KeyOf(j)' = KeyOf(j)
    BY <1>3 DEF KeyOf
  <2>2. \A q \in Processes : \A k \in cache'[q] : k \in cache[q]
    BY <1>0 DEF TypeOK
  <2> QED BY <2>1, <2>2 DEF ResultsHappened
<1> QED BY <1>1, <1>2, <1>4, <1>5

(* So every step of the system keeps the order.                            *)
LEMMA NextOrder ==
  ASSUME TypeOK, QueueInv, OrderInv, Next
  PROVE  OrderInv'
<1>0. TypeOK' /\ QueueInv'
  BY NextType, NextQueue
<1>1. ASSUME NEW p \in Processes, NEW r \in Runs, StartRun(p, r) PROVE OrderInv'
  <2> DEFINE x == [Idle EXCEPT !.pc = "next", !.run = r]
  <2>1. x \in Execs /\ x.step = 1
    BY IdleType DEF Execs, Idle
  <2>2. Becomes(p, x) /\ UNCHANGED <<jobs, cache, ran, skipped>>
    BY <1>1 DEF StartRun, queueVars, history
  <2> HIDE DEF x
  <2> QED BY <1>0, <2>1, <2>2, ExecMoves, NoEffects, SameJobs, OrderStep
<1>2. ASSUME NEW p \in Processes, NEW k \in Key, Evict(p, k) PROVE OrderInv'
  <2>1. UNCHANGED <<exec, jobs, ran, skipped>> /\ \A q \in Processes : cache'[q] \subseteq cache[q]
    BY <1>2 DEF Evict, queueVars, counts, TypeOK
  <2>2. ExecsStayReady /\ JobsStayReady /\ ResultsHappened
    BY <2>1 DEF ExecsStayReady, JobsStayReady, ResultsHappened, KeyOf
  <2> QED BY <1>0, <2>1, <2>2, NoEffects, OrderStep
<1>3. ASSUME NEW j \in Slots, Backoff(j) PROVE OrderInv'
  <2>1. /\ jobs[j].st = "delayed" /\ jobs' = [jobs EXCEPT ![j].st = "waiting"]
        /\ UNCHANGED <<exec, cache, ran, skipped>>
    BY <1>3 DEF Backoff, counts, history
  <2>2. /\ jobs'[j].st = "waiting" /\ jobs'[j].run = jobs[j].run /\ jobs'[j].step = jobs[j].step
        /\ \A i \in Slots \ {j} : jobs'[i] = jobs[i]
    BY <2>1 DEF TypeOK, Jobs
  <2>3. JobsStayReady
    BY <2>1, <2>2 DEF JobsStayReady
  <2>4. ExecsStayReady /\ ResultsHappened
    BY <2>1, <2>2 DEF ExecsStayReady, ResultsHappened, KeyOf
  <2> QED BY <1>0, <2>1, <2>3, <2>4, NoEffects, OrderStep
<1>4. ASSUME NEW p \in Processes,
             \/ Executes(p) \/ Crash(p)
             \/ TurnedAway(p) \/ Hit(p) \/ Begin(p) \/ Returns(p) \/ Fails(p)
      PROVE  OrderInv'
  BY <1>0, <1>4, ExecutorOrder, WorkerOrder, CrashOrder, OrderStep
<1> QED BY <1>1, <1>2, <1>3, <1>4 DEF Next

(* Nothing has happened at the start.                                      *)
LEMMA InitOrder == Init => OrderInv
BY ConstantsType DEF Init, OrderInv, EffectsInOrder, Idle, NoJob

(***************************************************************************)
(* The inductive invariant: types, the queue's books, and readiness.       *)
(***************************************************************************)
IndInv == TypeOK /\ QueueInv /\ OrderInv

(***************************************************************************)
(* It holds in every state, however many processes, runs and faults.       *)
(***************************************************************************)
THEOREM Invariance == Spec => []IndInv
<1>1. Init => IndInv
  BY InitType, InitQueue, InitOrder DEF IndInv
<1>2. IndInv /\ [Next]_vars => IndInv'
  <2> SUFFICES ASSUME IndInv, [Next]_vars PROVE IndInv'
    OBVIOUS
  <2>1. CASE Next
    BY <2>1, NextType, NextQueue, NextOrder DEF IndInv
  <2>2. CASE UNCHANGED vars
    <3>1. TypeOK'
      BY <2>2 DEF IndInv, TypeOK, vars, counts, history
    <3>2. QueueInv'
      BY <2>2 DEF IndInv, QueueInv, JobsInv, WaitsInv, KeyOf, vars
    <3>3. OrderInv'
      BY <2>2 DEF IndInv, OrderInv, EffectsInOrder, Ready, KeyOf, vars, counts, history
    <3> QED BY <3>1, <3>2, <3>3 DEF IndInv
  <2> QED BY <2>1, <2>2
<1> QED BY <1>1, <1>2, PTL DEF Spec

(***************************************************************************)
(* Every variable of the step queue keeps its type.                        *)
(***************************************************************************)
THEOREM TypeCorrect == Spec => []TypeOK
<1>1. IndInv => TypeOK
  BY DEF IndInv
<1> QED BY <1>1, Invariance, PTL

(***************************************************************************)
(* With any number of processes and executions, under every fault: no step *)
(* has its effect before the step that precedes it in the plan had its own *)
(* or was skipped.                                                         *)
(***************************************************************************)
THEOREM OrderHolds == Spec => []EffectsInOrder
<1>1. IndInv => EffectsInOrder
  BY DEF IndInv, OrderInv
<1> QED BY <1>1, Invariance, PTL

==============================================================================
