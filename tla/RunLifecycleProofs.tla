------------------------- MODULE RunLifecycleProofs -------------------------
(***************************************************************************)
(* What holds of a run for every number of steps, jobs, requests, workers  *)
(* and attempts, with proofs for TLAPS.                                    *)
(***************************************************************************)
EXTENDS RunLifecycle, TLAPS

(* A list of approved ids may be missing, and then it names no step.       *)
LEMMA ListsType ==
  /\ NoList \in Lists /\ NoList \cap Step = {}
  /\ \A S \in SUBSET Step : S \in Lists
<1>1. NotGiven \notin Step
  BY StoreAssumption DEF NotGiven, Step
<1>2. NoList \cap Step = {}
  BY <1>1 DEF NoList
<1>3. NoList \in Lists /\ \A S \in SUBSET Step : S \in Lists
  BY DEF Lists
<1>4. QED
  BY <1>2, <1>3

(* A job is typed by what the enqueuing handler puts into it.              *)
LEMMA JobType ==
  /\ NoJob \in JobRecs /\ NoJob.st = "free" /\ NoJob.approved = NoList
  /\ \A p \in PlanOrNone \cup {NotGiven} : \A S \in Lists :
       /\ NewJob(p, S) \in JobRecs
       /\ NewJob(p, S).st = "waiting" /\ NewJob(p, S).approved = S
<1>1. NoJob \in JobRecs /\ NoJob.st = "free" /\ NoJob.approved = NoList
  BY StoreAssumption, ListsType DEF NoJob, JobRecs
<1>2. QED
  BY <1>1 DEF NewJob, JobRecs

(* So are an idle request and a free worker.                               *)
LEMMA IdleType ==
  /\ NoReq \in Reqs /\ NoReq.pc = "idle" /\ NoReq.approved = NoList
  /\ NoProc \in Procs /\ NoProc.pc = "none" /\ NoProc.approved = NoList
<1>1. NoOutput \in Output /\ NoPlan \in PlanOrNone
  BY DEF NoOutput, Output, PlanOrNone
<1>2. NoReq \in Reqs /\ NoReq.pc = "idle" /\ NoReq.approved = NoList
  BY <1>1, ListsType DEF NoReq, Reqs, ReqPcs
<1>3. NoProc \in Procs /\ NoProc.pc = "none" /\ NoProc.approved = NoList
  BY <1>1, ListsType, StoreAssumption DEF NoProc, Procs, ProcPcs, Outcomes
<1>4. QED
  BY <1>2, <1>3

(* The run starts in its type.                                             *)
LEMMA InitType == Init => TypeOK
<1> SUFFICES ASSUME Init PROVE TypeOK
  OBVIOUS
<1> USE StoreAssumption
<1>0. \/ \E m \in Modes : InitFromPrompt(m)
      \/ \E m \in BOOLEAN : InitFromPlan(m)
  BY DEF Init
<1>1. run \in Rows
  <2>1. ASSUME NEW m \in Modes PROVE PromptRow(m) \in Rows
    <3>1. InitialStatus(m) \in Statuses
      BY <2>1 DEF InitialStatus, Modes, Statuses
    <3>2. QED
      BY <3>1, ListsType DEF PromptRow, Rows, PlanOrNone, NoOutput, Output
  <2>2. ASSUME NEW p \in Plans, NEW m \in BOOLEAN PROVE PlanRow(p, m) \in Rows
    BY ListsType DEF PlanRow, Rows, Modes, Statuses, PlanOrNone, NoOutput, Output
  <2>3. QED
    BY <1>0, <2>1, <2>2 DEF InitFromPrompt, InitFromPlan
<1>2. queue \in [Jobs -> JobRecs]
  <2>1. NoJob \in JobRecs /\ NewJob(NotGiven, {}) \in JobRecs
    BY JobType, ListsType
  <2>2. QED
    BY <1>0, <2>1 DEF InitFromPrompt, InitFromPlan
<1>3. proc \in [Jobs -> Procs]
  BY IdleType DEF Init
<1>4. tasks \subseteq Tasks /\ reqs \in [Requests -> Reqs]
  BY IdleType DEF Init
<1>5. ran \in [Act -> 0..Many] /\ cache \subseteq Act /\ consent \subseteq Seen
  BY DEF Init, Many
<1>6. shown \in [plan : PlanOrNone, asked : SUBSET Step]
  BY <1>0 DEF InitFromPrompt, InitFromPlan, PlanOrNone
<1>7. budget \in Nat \cup {Unlimited}
  BY DEF Init
<1>8. QED
  BY <1>1, <1>2, <1>3, <1>4, <1>5, <1>6, <1>7 DEF TypeOK

(***************************************************************************)
(* The handlers of the API keep every variable in its type.                *)
(***************************************************************************)
LEMMA ApiType ==
  ASSUME TypeOK, NEW r \in Requests, Ask(r) \/ Proceed(r)
  PROVE  TypeOK'
<1> USE DEF TypeOK, worldUnchanged
<1>0. NoReq \in Reqs
  BY IdleType
<1>a. ASSUME NEW op, Idle(r, op) PROVE budget' \in Nat \cup {Unlimited}
  BY <1>a DEF Idle, Unlimited
<1>1. ASSUME NEW S \in Approvable, Approve(r, S) PROVE TypeOK'
  <2>1. S \subseteq Step /\ {shown.plan} \X S \subseteq Seen
    BY DEF Approvable, Seen
  <2>2. reqs' \in [Requests -> Reqs]
    BY <1>0, <1>1, <2>1, ListsType DEF Approve, Reqs, ReqPcs, Rows, Output
  <2>3. QED
    BY <1>a, <1>1, <2>2 DEF Approve
<1>2. ASSUME NEW b \in BOOLEAN, Continue(r, b) PROVE TypeOK'
  BY <1>0, <1>a, <1>2 DEF Continue, Reqs, ReqPcs, Rows, Statuses
<1>3. ASSUME NEW b \in BOOLEAN, Confirm(r, b) PROVE TypeOK'
  BY <1>0, <1>a, <1>3 DEF Confirm, Reqs, ReqPcs, Rows
<1>4. ASSUME Cancel(r) PROVE TypeOK'
  BY <1>0, <1>a, <1>4 DEF Cancel, Reqs, ReqPcs
<1>5. ASSUME Install(r) PROVE TypeOK'
  BY <1>a, <1>5 DEF Install, Rows, Statuses
<1>6. ASSUME Refresh(r) PROVE TypeOK'
  BY <1>0, <1>a, <1>6 DEF Refresh, Reqs, ReqPcs
<1>7. ASSUME ApproveWrite(r) PROVE TypeOK'
  BY <1>0, <1>7 DEF ApproveWrite, Reqs, ReqPcs, Rows, Statuses
<1>8. ASSUME CancelWrite(r) PROVE TypeOK'
  BY <1>0, <1>8 DEF CancelWrite, Rows, Statuses
<1>9. ASSUME ExecuteRead(r) PROVE TypeOK'
  BY <1>0, <1>9 DEF ExecuteRead, Reqs, ReqPcs, Rows
<1>10. ASSUME ExecuteWrite(r) PROVE TypeOK'
  BY <1>0, <1>10 DEF ExecuteWrite, Reqs, ReqPcs, Rows, Statuses
<1>11. ASSUME ConfirmWrite(r) PROVE TypeOK'
  BY <1>0, <1>11 DEF ConfirmWrite, Reqs, ReqPcs, Rows
<1>12. ASSUME RefreshWrite(r) PROVE TypeOK'
  BY <1>0, <1>12 DEF RefreshWrite, Rows, Statuses
<1>13. ASSUME Load(r) PROVE TypeOK'
  <2>1. reqs[r] \in Reqs /\ run.approved \in Lists
    BY DEF Rows
  <2>2. [reqs[r] EXCEPT !.pc = "add", !.approved = run.approved] \in Reqs
    BY <2>1 DEF Reqs, ReqPcs
  <2>3. QED
    BY <1>13, <2>2 DEF Load
<1>14. ASSUME Add(r) PROVE TypeOK'
  <2>1. NewJob(reqs[r].plan, reqs[r].approved) \in JobRecs
    BY JobType DEF Reqs
  <2>2. queue' \in [Jobs -> JobRecs] /\ reqs' \in [Requests -> Reqs]
    BY <1>0, <1>14, <2>1 DEF Add
  <2>3. QED
    BY <1>14, <2>2 DEF Add
<1>15. QED
  BY <1>1, <1>2, <1>3, <1>4, <1>5, <1>6, <1>7, <1>8, <1>9, <1>10, <1>11, <1>12, <1>13, <1>14
     DEF Ask, Proceed

(***************************************************************************)
(* The worker keeps every variable in its type: the executor never runs    *)
(* past the plan's last step, and a job never counts more attempts than it *)
(* is allowed.                                                             *)
(***************************************************************************)
LEMMA WorkType ==
  ASSUME TypeOK, CallsAreCleared, NEW j \in Jobs, PickUp(j) \/ WorkOn(j)
  PROVE  TypeOK'
<1> USE DEF TypeOK, ApiUnchanged, Goto
<1> DEFINE p == proc[j]
<1>0. p \in Procs /\ NoProc \in Procs /\ queue[j] \in JobRecs /\ run \in Rows
  BY IdleType
<1>a. ASSUME NEW q \in Procs PROVE [proc EXCEPT ![j] = q] \in [Jobs -> Procs]
  BY <1>a
<1>b. ASSUME p.plan \in Plans, p.next \in Step PROVE Advance(p) \in Procs /\ Current(j) \in Act
  <2>1. p.next + 1 \in 1..(NSteps + 1) /\ p.commits \cup {p.next} \subseteq Step
    BY <1>b, <1>0, StoreAssumption DEF Procs, Step
  <2>2. [p EXCEPT !.pc = "exec", !.next = @ + 1, !.commits = @ \cup {p.next}]
          = [p EXCEPT !.pc = "exec", !.next = p.next + 1, !.commits = p.commits \cup {p.next}]
    BY <1>0 DEF Procs
  <2>3. QED
    BY <1>b, <1>0, <2>1, <2>2 DEF Advance, Procs, ProcPcs, Current, Act
<1>c. HasStep(j) => p.plan \in Plans /\ p.next \in Step
  BY <1>0, StoreAssumption DEF HasStep, Procs, PlanOrNone, Step
<1>d. p.pc = "call" => p.plan \in Plans /\ p.next \in Step
  BY DEF CallsAreCleared
<1>e. ASSUME NEW a \in Act, Effect(a) PROVE ran' \in [Act -> 0..Many]
  BY <1>e DEF Effect, Many
<1>1. ASSUME PickUp(j) PROVE TypeOK'
  <2>1. StartPlan(run, queue[j]) \in PlanOrNone
    BY <1>0 DEF StartPlan, JobRecs, Rows, Output
  <2>2. queue' \in [Jobs -> JobRecs]
    BY <1>0, <1>1 DEF PickUp, JobRecs
  <2>3. proc' \in [Jobs -> Procs]
    <3>1. StartApproved(run, queue[j]) \in Lists
      BY <1>0 DEF StartApproved, JobRecs, Rows
    <3>2. run.resume \in BOOLEAN /\ run.out.commits \in SUBSET Step
      BY <1>0 DEF Rows, Output
    <3>3. [NoProc EXCEPT !.pc = "mark", !.resume = run.resume, !.plan = StartPlan(run, queue[j]),
             !.approved = StartApproved(run, queue[j]), !.kept = run.out.commits] \in Procs
      BY <1>0, <2>1, <3>1, <3>2 DEF Procs, ProcPcs
    <3>4. QED
      BY <1>1, <3>3 DEF PickUp
  <2>4. QED
    BY <1>1, <2>2, <2>3 DEF PickUp
<1>2. ASSUME MarkRunning(j) PROVE TypeOK'
  BY <1>0, <1>2 DEF MarkRunning, Procs, ProcPcs, Rows, Statuses
<1>3. ASSUME MakePlan(j) PROVE TypeOK'
  <2>1. PICK q \in PlanOrNone :
          /\ tasks' = tasks \cup {[pc |-> "load", plan |-> q, commits |-> {}]}
          /\ shown' = [plan |-> q, asked |-> Step]
          /\ \/ Goto(j, [proc[j] EXCEPT !.plan = q, !.pc = "exec"])
             \/ Goto(j, EndOfGraph(j, q, "done"))
             \/ Goto(j, EndOfGraph(j, q, "approval"))
    BY <1>3 DEF MakePlan
  <2>2. tasks' \subseteq Tasks /\ shown' \in [plan : PlanOrNone, asked : SUBSET Step]
    BY <2>1 DEF Tasks
  <2>3. proc' \in [Jobs -> Procs]
    <3>1. [p EXCEPT !.plan = q, !.pc = "exec"] \in Procs
      BY <1>0 DEF Procs, ProcPcs
    <3>2. EndOfGraph(j, q, "done") \in Procs /\ EndOfGraph(j, q, "approval") \in Procs
      BY <1>0 DEF Procs, ProcPcs, Outcomes, EndOfGraph
    <3>3. QED
      BY <2>1, <3>1, <3>2
  <2>4. QED
    BY <1>3, <2>2, <2>3 DEF MakePlan
<1>4. ASSUME SummarizeFails(j) PROVE TypeOK'
  BY <1>0, <1>4 DEF SummarizeFails, Procs, ProcPcs, Outcomes
<1>5. ASSUME SkipStep(j) PROVE TypeOK'
  BY <1>0, <1>5, <1>c, StoreAssumption DEF SkipStep, Procs, Step
<1>6. ASSUME HaltForApproval(j) PROVE TypeOK'
  BY <1>0, <1>6, <1>c DEF HaltForApproval, Procs, ProcPcs, Outcomes, PlanOrNone
<1>7. ASSUME Lookup(j) PROVE TypeOK'
  <2>1. [p EXCEPT !.pc = "call"] \in Procs
    BY <1>0 DEF Procs, ProcPcs
  <2>2. QED
    BY <1>7, <2>1, <1>a, <1>b, <1>c DEF Lookup
<1>8. ASSUME CallTool(j) PROVE TypeOK'
  BY <1>8, <1>a, <1>b, <1>d, <1>e DEF CallTool
<1>9. ASSUME CallFails(j) PROVE TypeOK'
  <2>1. [p EXCEPT !.pc = "persist", !.outcome = "done", !.commits = p.kept] \in Procs
    BY <1>0 DEF Procs, ProcPcs, Outcomes
  <2>2. ran' \in [Act -> 0..Many]
    BY <1>9, <1>b, <1>d, <1>e DEF CallFails
  <2>3. QED
    BY <1>9, <2>1, <2>2 DEF CallFails
<1>10. ASSUME FinishPlan(j) PROVE TypeOK'
  BY <1>0, <1>10 DEF FinishPlan, Procs, ProcPcs, Outcomes
<1>11. ASSUME Persist(j) PROVE TypeOK'
  <2>1. run' \in Rows
    BY <1>0, <1>11 DEF Persist, Rows, Procs, Output, NoOutput, PlanOrNone
  <2>2. QED
    BY <1>0, <1>11, <2>1 DEF Persist, Procs, ProcPcs
<1>f. ASSUME Failed(j) PROVE queue' \in [Jobs -> JobRecs]
  <2>1. ASSUME queue[j].att + 1 < MaxAttempts
        PROVE  [queue[j] EXCEPT !.st = "waiting", !.att = queue[j].att + 1] \in JobRecs
    <3>1. queue[j].att + 1 \in 0..MaxAttempts
      BY <1>0, <2>1, StoreAssumption DEF JobRecs
    <3>2. QED
      BY <1>0, <3>1 DEF JobRecs
  <2>2. CASE queue[j].att + 1 < MaxAttempts
    BY <1>f, <2>1, <2>2 DEF Failed
  <2>3. CASE ~(queue[j].att + 1 < MaxAttempts)
    BY <1>f, <2>3, JobType DEF Failed
  <2>4. QED
    BY <2>2, <2>3
<1>12. ASSUME Settle(j) PROVE TypeOK'
  <2>1. FinalStatus(p.outcome) \in Statuses
    BY DEF FinalStatus, Statuses
  <2>2. run' \in Rows
    BY <1>0, <1>12, <2>1 DEF Settle, Rows
  <2>3. queue' \in [Jobs -> JobRecs]
    <3>1. CASE Completed(j)
      BY <3>1, JobType DEF Completed
    <3>2. QED
      BY <1>12, <1>f, <3>1 DEF Settle
  <2>4. QED
    BY <1>0, <1>12, <2>2, <2>3 DEF Settle
<1>13. ASSUME WriteFails(j) PROVE TypeOK'
  BY <1>0, <1>13 DEF WriteFails, Procs, ProcPcs, Outcomes
<1>14. ASSUME ErrorEscapes(j) PROVE TypeOK'
  BY <1>0, <1>14, <1>f DEF ErrorEscapes
<1>15. QED
  BY <1>1, <1>2, <1>3, <1>4, <1>5, <1>6, <1>7, <1>8, <1>9, <1>10, <1>11, <1>12, <1>13, <1>14 DEF WorkOn

(* persistPlan, the eviction of a cache entry and a crash do so too.       *)
LEMMA RestType ==
  ASSUME TypeOK, Housekeep \/ (\E a \in Act : Evict(a)) \/ Crash
  PROVE  TypeOK'
<1> USE DEF TypeOK, ApiUnchanged
<1>1. ASSUME NEW t \in tasks, LoadTask(t) PROVE TypeOK'
  BY <1>1 DEF LoadTask, Tasks, Rows, Output
<1>2. ASSUME NEW t \in tasks, WriteTask(t) PROVE TypeOK'
  BY <1>2 DEF WriteTask, Tasks, Rows, Output
<1>3. ASSUME NEW a \in Act, Evict(a) PROVE TypeOK'
  BY <1>3 DEF Evict
<1>4. ASSUME Crash PROVE TypeOK'
  <2>1. NoProc \in Procs
    BY IdleType
  <2>2. NoReq \in Reqs
    BY IdleType
  <2>3. queue' \in [Jobs -> JobRecs]
    <3>1. \A k \in Jobs : [queue[k] EXCEPT !.st = "waiting", !.stalled = TRUE] \in JobRecs
      BY DEF JobRecs
    <3>2. QED
      BY <1>4, <3>1, JobType DEF Crash
  <2>4. QED
    BY <1>4, <2>1, <2>2, <2>3 DEF Crash
<1>5. QED
  BY <1>1, <1>2, <1>3, <1>4 DEF Housekeep

-----------------------------------------------------------------------------
(* What a handler leaves to the other actors: no handler touches what has  *)
(* happened or what is being processed, and none takes an approval back.   *)
LEMMA ApiFrame ==
  ASSUME TypeOK, NEW r \in Requests, Ask(r) \/ Proceed(r)
  PROVE  /\ proc' = proc /\ ran' = ran
         /\ consent \subseteq consent'
         /\ \A k \in Jobs : queue'[k] # queue[k] =>
              queue[k].st = "free" /\ queue'[k].approved = reqs[r].approved /\ Add(r)
  BY DEF TypeOK, Ask, Proceed, Approve, Continue, Confirm, Cancel, Install, Refresh, ApproveWrite,
         CancelWrite, ExecuteRead, ExecuteWrite, ConfirmWrite, RefreshWrite, Load, Add,
         worldUnchanged, NewJob, NoJob

(* Every handler hands on approved ids only.                               *)
LEMMA ApiGate ==
  ASSUME TypeOK, GateInv, NEW r \in Requests, Ask(r) \/ Proceed(r)
  PROVE  GateInv'
<1> USE DEF GateInv
<1>1. /\ proc' = proc /\ ran' = ran /\ ActedIds' = ActedIds
      /\ ApprovedIds \subseteq ApprovedIds'
  BY ApiFrame DEF ApprovedIds, ActedIds, Happened
<1>2. ProcessedIsActive'
  BY <1>1, ApiFrame DEF ProcessedIsActive
<1>3. CallsAreCleared'
  BY <1>1, ApiFrame DEF CallsAreCleared, ProcessedIsActive, Cleared
<1>4. HighRiskGated'
  BY <1>1 DEF HighRiskGated
<1>5. ASSUME NEW q \in Requests
      PROVE  reqs'[q].approved \cap Step \subseteq
               IF reqs'[q].pc = "approve" THEN {a[2] : a \in reqs'[q].seen} ELSE ApprovedIds'
  <2>1. CASE reqs'[q] = reqs[q]
    BY <1>1, <2>1 DEF CopiesApproved
  <2>2. CASE reqs'[q].approved = NoList
    BY <2>2, ListsType
  <2>3. CASE q = r /\ \E S \in Approvable : Approve(r, S)
    <3>1. PICK S \in Approvable : Approve(r, S)
      BY <2>3
    <3>2. /\ reqs'[q].approved = S
          /\ reqs'[q].seen = {shown.plan} \X S
          /\ reqs'[q].pc = "approve"
      BY <2>3, <3>1, IdleType DEF Approve, TypeOK, Reqs
    <3>3. \A s \in S : <<shown.plan, s>> \in {shown.plan} \X S /\ <<shown.plan, s>>[2] = s
      OBVIOUS
    <3>4. QED
      BY <3>2, <3>3
  <2>4. CASE q = r /\ (ExecuteRead(r) \/ Load(r))
    <3>1. reqs'[q].approved = run.approved /\ reqs'[q].pc # "approve"
      BY <2>4, IdleType DEF ExecuteRead, Load, TypeOK, Reqs
    <3>2. QED
      BY <1>1, <3>1 DEF CopiesApproved
  <2>5. QED
    <3>1. q # r => reqs'[q] = reqs[q]
      BY DEF TypeOK, Ask, Proceed, Approve, Continue, Confirm, Cancel, Install, Refresh,
         ApproveWrite, CancelWrite, ExecuteRead, ExecuteWrite, ConfirmWrite, RefreshWrite, Load, Add
    <3>2. ASSUME NEW b \in BOOLEAN, Continue(r, b) \/ Confirm(r, b) PROVE reqs'[r].approved = NoList
      BY <3>2, IdleType DEF TypeOK, Reqs, Continue, Confirm
    <3>3. \/ Cancel(r) \/ Refresh(r) \/ ApproveWrite(r) \/ CancelWrite(r) \/ ExecuteWrite(r)
          \/ ConfirmWrite(r) \/ RefreshWrite(r) \/ Add(r)
          => reqs'[r].approved = NoList
      <4>1. NoReq \in Reqs /\ NoReq.approved = NoList
        BY IdleType
      <4>2. Cancel(r) \/ Refresh(r) \/ CancelWrite(r) \/ RefreshWrite(r) \/ Add(r)
            => reqs'[r].approved = NoList
        BY <4>1 DEF TypeOK, Reqs, Cancel, Refresh, CancelWrite, RefreshWrite, Add
      <4>3. ApproveWrite(r) => reqs'[r].approved = NoList
        BY <4>1 DEF TypeOK, Reqs, ApproveWrite
      <4>4. ExecuteWrite(r) => reqs'[r].approved = NoList
        BY <4>1 DEF TypeOK, Reqs, ExecuteWrite
      <4>5. ConfirmWrite(r) => reqs'[r].approved = NoList
        BY <4>1 DEF TypeOK, Reqs, ConfirmWrite
      <4>6. QED
        BY <4>2, <4>3, <4>4, <4>5
    <3>4. Install(r) => reqs'[r] = reqs[r]
      BY DEF Install
    <3>5. QED
      BY <2>1, <2>2, <2>3, <2>4, <3>1, <3>2, <3>3, <3>4 DEF Ask, Proceed
<1>6. run'.approved \cap Step \subseteq ApprovedIds'
  <2>1. CASE run'.approved = run.approved
    BY <1>1, <2>1 DEF CopiesApproved
  <2>2. CASE ApproveWrite(r)
    <3>1. run'.approved = reqs[r].approved /\ consent' = consent \cup reqs[r].seen
      BY <2>2 DEF ApproveWrite, TypeOK, Rows
    <3>2. reqs[r].approved \cap Step \subseteq {a[2] : a \in reqs[r].seen}
      BY <2>2 DEF ApproveWrite, CopiesApproved
    <3>3. QED
      BY <3>1, <3>2 DEF ApprovedIds
  <2>3. CASE ExecuteWrite(r)
    <3>1. run'.approved = reqs[r].approved /\ reqs[r].pc # "approve"
      BY <2>3 DEF ExecuteWrite, TypeOK, Rows
    <3>2. QED
      BY <1>1, <3>1 DEF CopiesApproved
  <2>4. QED
    BY <2>1, <2>2, <2>3 DEF TypeOK, Rows, Ask, Proceed, Approve, Continue, Confirm, Cancel,
       Install, Refresh, CancelWrite, ExecuteRead, ConfirmWrite, RefreshWrite, Load, Add
<1>7. \A k \in Jobs : (queue'[k].approved \cup proc'[k].approved) \cap Step \subseteq ApprovedIds'
  <2> SUFFICES ASSUME NEW k \in Jobs
               PROVE  (queue'[k].approved \cup proc[k].approved) \cap Step \subseteq ApprovedIds'
    BY <1>1
  <2>1. CASE queue'[k] = queue[k]
    BY <1>1, <2>1 DEF CopiesApproved
  <2>2. CASE queue'[k].approved = reqs[r].approved /\ Add(r)
    BY <1>1, <2>2 DEF CopiesApproved, Add
  <2>3. QED
    BY <2>1, <2>2, ApiFrame
<1>8. QED
  BY <1>2, <1>3, <1>4, <1>5, <1>6, <1>7 DEF CopiesApproved

(* A tool is called only after registry.call found no cached result.       *)
LEMMA OnlyLookupCalls ==
  ASSUME TypeOK, NEW j \in Jobs, PickUp(j) \/ WorkOn(j)
  PROVE  proc'[j].pc = "call" => Lookup(j) /\ queue' = queue /\ proc'[j].plan = proc[j].plan
                                 /\ proc'[j].next = proc[j].next
                                 /\ proc'[j].approved = proc[j].approved
<1> USE DEF TypeOK, Goto
<1>0. NoProc \in Procs /\ NoProc.pc = "none"
  BY IdleType
<1>1. PickUp(j) => proc'[j].pc # "call"
  BY <1>0 DEF PickUp, Procs
<1>2. MarkRunning(j) => proc'[j].pc # "call"
  BY DEF MarkRunning, Procs
<1>3. MakePlan(j) => proc'[j].pc # "call"
  <2>1. ASSUME NEW q \in PlanOrNone, NEW o PROVE EndOfGraph(j, q, o).pc = "persist"
    BY DEF EndOfGraph, Procs
  <2>2. ASSUME NEW q \in PlanOrNone PROVE [proc[j] EXCEPT !.plan = q, !.pc = "exec"].pc = "exec"
    BY DEF Procs
  <2>3. QED
    BY <2>1, <2>2 DEF MakePlan
<1>4. SummarizeFails(j) => proc'[j].pc # "call"
  BY DEF SummarizeFails, Procs
<1>5. SkipStep(j) => proc'[j].pc # "call"
  BY DEF SkipStep, HasStep, Procs
<1>6. HaltForApproval(j) => proc'[j].pc # "call"
  BY DEF HaltForApproval, Procs
<1>7. Advance(proc[j]).pc = "exec"
  BY DEF Advance, Procs
<1>8. Lookup(j) /\ proc'[j].pc = "call" =>
        proc'[j] = [proc[j] EXCEPT !.pc = "call"] /\ queue' = queue
  BY <1>7 DEF Lookup
<1>9. CallTool(j) => proc'[j].pc # "call"
  BY <1>7 DEF CallTool
<1>10. CallFails(j) => proc'[j].pc # "call"
  BY DEF CallFails, Procs
<1>11. FinishPlan(j) => proc'[j].pc # "call"
  BY DEF FinishPlan, Procs
<1>12. Persist(j) => proc'[j].pc # "call"
  BY DEF Persist, Procs
<1>13. Settle(j) => proc'[j].pc # "call"
  BY <1>0 DEF Settle
<1>14. WriteFails(j) => proc'[j].pc # "call"
  BY DEF WriteFails, Procs
<1>15. ErrorEscapes(j) => proc'[j].pc # "call"
  BY <1>0 DEF ErrorEscapes
<1>16. QED
  BY <1>1, <1>2, <1>3, <1>4, <1>5, <1>6, <1>8, <1>9, <1>10, <1>11, <1>12, <1>13, <1>14, <1>15
     DEF WorkOn, Procs

(* The graph runs on the list of approved ids it was started with.         *)
LEMMA GraphKeepsList ==
  ASSUME TypeOK, NEW j \in Jobs, WorkOn(j), ~Settle(j), ~ErrorEscapes(j)
  PROVE  proc'[j].approved = proc[j].approved
<1> USE DEF TypeOK, Goto
<1>1. MarkRunning(j) => proc'[j].approved = proc[j].approved
  BY DEF MarkRunning, Procs
<1>2. MakePlan(j) => proc'[j].approved = proc[j].approved
  <2>1. ASSUME NEW q \in PlanOrNone, NEW o
        PROVE  EndOfGraph(j, q, o).approved = proc[j].approved
    BY DEF EndOfGraph, Procs
  <2>2. ASSUME NEW q \in PlanOrNone
        PROVE  [proc[j] EXCEPT !.plan = q, !.pc = "exec"].approved = proc[j].approved
    BY DEF Procs
  <2>3. MakePlan(j) => \E q \in PlanOrNone : \/ Goto(j, [proc[j] EXCEPT !.plan = q, !.pc = "exec"])
                                            \/ Goto(j, EndOfGraph(j, q, "done"))
                                            \/ Goto(j, EndOfGraph(j, q, "approval"))
    BY Zenon DEF MakePlan
  <2>4. SUFFICES ASSUME MakePlan(j) PROVE proc'[j].approved = proc[j].approved
    OBVIOUS
  <2>5. PICK q \in PlanOrNone : \/ Goto(j, [proc[j] EXCEPT !.plan = q, !.pc = "exec"])
                               \/ Goto(j, EndOfGraph(j, q, "done"))
                               \/ Goto(j, EndOfGraph(j, q, "approval"))
    BY <2>3, <2>4
  <2>6. \/ proc'[j] = [proc[j] EXCEPT !.plan = q, !.pc = "exec"]
        \/ proc'[j] = EndOfGraph(j, q, "done")
        \/ proc'[j] = EndOfGraph(j, q, "approval")
    BY <2>5
  <2>7. QED
    BY <2>1, <2>2, <2>6
<1>3. SummarizeFails(j) \/ SkipStep(j) \/ HaltForApproval(j) => proc'[j].approved = proc[j].approved
  BY DEF SummarizeFails, SkipStep, HaltForApproval, Procs
<1>4. Advance(proc[j]).approved = proc[j].approved
  BY DEF Advance, Procs
<1>5. [proc[j] EXCEPT !.pc = "call"].approved = proc[j].approved
  BY DEF Procs
<1>6. Lookup(j) \/ CallTool(j) => proc'[j].approved = proc[j].approved
  BY <1>4, <1>5 DEF Lookup, CallTool
<1>7. CallFails(j) => proc'[j].approved = proc[j].approved
  BY DEF CallFails, Procs
<1>8. FinishPlan(j) => proc'[j].approved = proc[j].approved
  BY DEF FinishPlan, Procs
<1>9. Persist(j) => proc'[j].approved = proc[j].approved
  BY DEF Persist, Procs
<1>10. WriteFails(j) => proc'[j].approved = proc[j].approved
  BY DEF WriteFails, Procs
<1>11. QED
  BY <1>1, <1>2, <1>3, <1>6, <1>7, <1>8, <1>9, <1>10 DEF WorkOn

(***************************************************************************)
(* The worker calls a tool only past the executor's gate, with the ids of  *)
(* the job it is processing, and takes over no other job's slot.           *)
(***************************************************************************)
LEMMA WorkGate ==
  ASSUME TypeOK, GateInv, NEW j \in Jobs, PickUp(j) \/ WorkOn(j)
  PROVE  GateInv'
<1> USE DEF GateInv
<1> DEFINE p == proc[j]
<1>1. /\ reqs' = reqs /\ consent' = consent /\ ApprovedIds' = ApprovedIds
      /\ run'.approved = run.approved
  BY DEF TypeOK, Rows, ApprovedIds, WorkOn, PickUp, MarkRunning, MakePlan, SummarizeFails, SkipStep,
     HaltForApproval, Lookup, CallTool, CallFails, FinishPlan, Persist, Settle, WriteFails, ErrorEscapes, ApiUnchanged
<1>2. \A k \in Jobs \ {j} : proc'[k] = proc[k] /\ queue'[k] = queue[k]
  BY DEF TypeOK, WorkOn, PickUp, MarkRunning, MakePlan, SummarizeFails, SkipStep, HaltForApproval,
     Lookup, CallTool, CallFails, FinishPlan, Persist, Settle, WriteFails, ErrorEscapes, Completed, Failed, Goto
<1>3. \/ PickUp(j) /\ proc'[j].pc = "mark" /\ queue'[j].st = "active"
      \/ (Settle(j) \/ ErrorEscapes(j)) /\ proc'[j].pc = "none"
      \/ p.pc # "none" /\ queue' = queue
  <2>1. PickUp(j) => proc'[j].pc = "mark" /\ queue'[j].st = "active"
    BY IdleType DEF PickUp, Goto, TypeOK, JobRecs, Procs
  <2>2. Settle(j) => proc'[j].pc = "none"
    BY IdleType DEF Settle, Goto, TypeOK
  <2>3. ErrorEscapes(j) => proc'[j].pc = "none"
    BY IdleType DEF ErrorEscapes, Goto, TypeOK
  <2>4. WorkOn(j) /\ ~Settle(j) /\ ~ErrorEscapes(j) => p.pc # "none" /\ queue' = queue
    BY DEF WorkOn, MarkRunning, MakePlan, SummarizeFails, SkipStep, HaltForApproval,
       HasStep, Lookup, CallTool, CallFails, FinishPlan, Persist, WriteFails
  <2>5. QED
    BY <2>1, <2>2, <2>3, <2>4
<1>4. ProcessedIsActive'
  BY <1>2, <1>3 DEF ProcessedIsActive
<1>5. queue'[j].approved = queue[j].approved \/ queue'[j].approved = NoList
  <2>1. CASE PickUp(j)
    BY <2>1 DEF PickUp, TypeOK, JobRecs
  <2>2. CASE Settle(j) \/ ErrorEscapes(j)
    <3>1. CASE Completed(j)
      BY <3>1, JobType DEF Completed, TypeOK
    <3>2. CASE Failed(j) /\ queue[j].att + 1 < MaxAttempts
      BY <3>2 DEF Failed, TypeOK, JobRecs
    <3>3. CASE Failed(j) /\ ~(queue[j].att + 1 < MaxAttempts)
      BY <3>3, JobType DEF Failed, TypeOK
    <3>4. QED
      BY <2>2, <3>1, <3>2, <3>3 DEF Settle, ErrorEscapes
  <2>3. QED
    BY <1>3, <2>1, <2>2
<1>a. proc'[j].approved \in {p.approved, queue[j].approved, run.approved, NoList}
  <2>1. CASE PickUp(j)
    BY <2>1, IdleType DEF PickUp, Goto, StartApproved, TypeOK, Procs
  <2>2. CASE Settle(j) \/ ErrorEscapes(j)
    BY <2>2, IdleType DEF Settle, ErrorEscapes, Goto, TypeOK
  <2>3. QED
    BY <2>1, <2>2, GraphKeepsList
<1>6. CopiesApproved'
  <2>1. (queue'[j].approved \cup proc'[j].approved) \cap Step \subseteq ApprovedIds
    BY <1>5, <1>a, ListsType DEF CopiesApproved
  <2>2. QED
    BY <1>1, <1>2, <2>1 DEF CopiesApproved
<1>7. CallsAreCleared'
  <2>1. proc'[j].pc = "call" => Lookup(j) /\ queue' = queue /\ proc'[j].plan = p.plan
                                /\ proc'[j].next = p.next /\ proc'[j].approved = p.approved
    BY OnlyLookupCalls
  <2>2. Lookup(j) => p.plan \in Plans /\ p.next \in Step /\ Cleared(j, p.next)
    BY StoreAssumption DEF Lookup, HasStep, TypeOK, Procs, PlanOrNone, Step
  <2>3. QED
    BY <1>2, <2>1, <2>2 DEF CallsAreCleared, Cleared
<1>8. HighRiskGated'
  <2>1. \A a \in Act : ran'[a] # ran[a] => a = Current(j) /\ p.pc = "call"
    BY DEF TypeOK, WorkOn, PickUp, MarkRunning, MakePlan, SummarizeFails, SkipStep, HaltForApproval,
       Lookup, CallTool, CallFails, FinishPlan, Persist, Settle, WriteFails, ErrorEscapes, Effect
  <2>2. p.pc = "call" => (p.next \in HighRisk => p.next \in ApprovedIds)
    BY DEF CallsAreCleared, Cleared, CopiesApproved
  <2>3. QED
    BY <1>1, <2>1, <2>2 DEF HighRiskGated, ActedIds, Happened, Current
<1>9. QED
  BY <1>4, <1>6, <1>7, <1>8

(* persistPlan, the cache and a crash leave the gate alone.                *)
LEMMA RestGate ==
  ASSUME TypeOK, GateInv, Housekeep \/ (\E a \in Act : Evict(a)) \/ Crash
  PROVE  GateInv'
<1> USE DEF GateInv
<1>1. ran' = ran /\ consent' = consent /\ run'.approved = run.approved
  BY DEF TypeOK, Rows, Housekeep, LoadTask, WriteTask, Evict, Crash, ApiUnchanged
<1>2. HighRiskGated' /\ ApprovedIds' = ApprovedIds
  BY <1>1 DEF HighRiskGated, ActedIds, ApprovedIds, Happened
<1>3. ASSUME Housekeep \/ \E a \in Act : Evict(a) PROVE GateInv'
  BY <1>1, <1>2, <1>3 DEF Housekeep, LoadTask, WriteTask, Evict, ApiUnchanged,
     ProcessedIsActive, CallsAreCleared, CopiesApproved, Cleared
<1>4. ASSUME Crash PROVE GateInv'
  <2>1. \A k \in Jobs : /\ proc'[k].pc = "none" /\ proc'[k].approved = NoList
                        /\ queue'[k].approved \in {queue[k].approved, NoList}
    <3>1. NoJob.approved = NoList /\ NoProc.pc = "none" /\ NoProc.approved = NoList
      BY JobType, IdleType
    <3>2. \A k \in Jobs : [queue[k] EXCEPT !.st = "waiting", !.stalled = TRUE].approved
                            = queue[k].approved
      BY DEF TypeOK, JobRecs
    <3>3. QED
      BY <1>4, <3>1, <3>2 DEF Crash
  <2>2. \A q \in Requests : reqs'[q].pc = "idle" /\ reqs'[q].approved = NoList
    BY <1>4, IdleType DEF Crash
  <2>3. CopiesApproved'
    BY <1>1, <1>2, <2>1, <2>2, ListsType DEF CopiesApproved
  <2>4. QED
    BY <1>2, <2>1, <2>3 DEF ProcessedIsActive, CallsAreCleared
<1>5. QED
  BY <1>3, <1>4

(***************************************************************************)
(* Every reachable state is typed and satisfies the gate's invariant.      *)
(***************************************************************************)
THEOREM Invariance == Spec => [](TypeOK /\ GateInv)
<1>1. Init => TypeOK /\ GateInv
  <2>1. Init => GateInv
    <3> SUFFICES ASSUME Init PROVE GateInv
      OBVIOUS
    <3>1. NoJob.approved = NoList /\ NewJob(NotGiven, {}).approved = {}
      BY JobType, ListsType
    <3>2. \A k \in Jobs : /\ proc[k].pc = "none" /\ proc[k].approved = NoList
                          /\ queue[k].approved \in {NoList, {}}
      BY <3>1, IdleType DEF Init, InitFromPrompt, InitFromPlan
    <3>3. \A r \in Requests : reqs[r].approved = NoList
      BY IdleType DEF Init
    <3>4. run.approved \in {NoList, {}}
      BY DEF Init, InitFromPrompt, InitFromPlan, PromptRow, PlanRow
    <3>5. ActedIds = {}
      BY DEF Init, ActedIds, Happened
    <3>6. CopiesApproved
      BY <3>2, <3>3, <3>4, ListsType DEF CopiesApproved
    <3>7. QED
      BY <3>2, <3>5, <3>6 DEF GateInv, ProcessedIsActive, CallsAreCleared, HighRiskGated
  <2>2. QED
    BY <2>1, InitType
<1>2. TypeOK /\ GateInv /\ [Next]_vars => (TypeOK /\ GateInv)'
  <2> SUFFICES ASSUME TypeOK, GateInv, [Next]_vars PROVE (TypeOK /\ GateInv)'
    OBVIOUS
  <2>1. ASSUME NEW r \in Requests, Ask(r) \/ Proceed(r) PROVE (TypeOK /\ GateInv)'
    BY <2>1, ApiType, ApiGate
  <2>2. ASSUME NEW j \in Jobs, PickUp(j) \/ WorkOn(j) PROVE (TypeOK /\ GateInv)'
    BY <2>2, WorkType, WorkGate DEF GateInv
  <2>3. ASSUME Housekeep \/ (\E a \in Act : Evict(a)) \/ Crash PROVE (TypeOK /\ GateInv)'
    BY <2>3, RestType, RestGate
  <2>4. CASE UNCHANGED vars
    BY <2>4 DEF vars, TypeOK, GateInv, ProcessedIsActive, CallsAreCleared, CopiesApproved,
       HighRiskGated, ActedIds, Happened, ApprovedIds, Cleared
  <2>5. QED
    BY <2>1, <2>2, <2>3, <2>4 DEF Next
<1>3. QED
  BY <1>1, <1>2, PTL DEF Spec

(* Every variable always has its type.                                     *)
THEOREM TypeCorrect == Spec => []TypeOK
BY Invariance, PTL

(***************************************************************************)
(* A high-risk step has its effect only after an approval naming its id,   *)
(* for any number of steps, jobs, requests and workers, and with every     *)
(* fault of the model.                                                     *)
(***************************************************************************)
THEOREM GateHolds == Spec => []HighRiskGated
<1>1. GateInv => HighRiskGated
  BY DEF GateInv
<1>2. QED
  BY <1>1, Invariance, PTL

-----------------------------------------------------------------------------
(* A step of a handler grants the ids it approves, and does nothing else.  *)
LEMMA ApiGrants ==
  ASSUME TypeOK, GateInv, NEW r \in Requests, Ask(r) \/ Proceed(r)
  PROVE  Gate!GateNext \/ UNCHANGED Gate!gate
<1>1. ActedIds' = ActedIds
  BY ApiFrame DEF ActedIds, Happened
<1>2. consent' = consent \/ ApproveWrite(r)
  BY DEF Ask, Proceed, Approve, Continue, Confirm, Cancel, Install, Refresh, CancelWrite,
     ExecuteRead, ExecuteWrite, ConfirmWrite, RefreshWrite, Load, Add
<1>3. CASE consent' = consent
  BY <1>1, <1>3 DEF ApprovedIds, Gate!gate
<1>4. CASE ApproveWrite(r)
  <2> DEFINE S == {a[2] : a \in reqs[r].seen}
  <2>1. S \subseteq Step
    BY DEF TypeOK, Reqs, Seen
  <2>2. ApprovedIds' = ApprovedIds \cup S
    BY <1>4 DEF ApproveWrite, ApprovedIds
  <2>3. Gate!Grant(S)
    BY <1>1, <2>2 DEF Gate!Grant
  <2>4. QED
    BY <2>1, <2>3 DEF Gate!GateNext
<1>5. QED
  BY <1>2, <1>3, <1>4

(* A step of the worker acts once at most, on a step the gate lets pass.   *)
LEMMA WorkActs ==
  ASSUME TypeOK, GateInv, NEW j \in Jobs, PickUp(j) \/ WorkOn(j)
  PROVE  Gate!GateNext \/ UNCHANGED Gate!gate
<1>1. ApprovedIds' = ApprovedIds
  BY DEF ApprovedIds, WorkOn, PickUp, MarkRunning, MakePlan, SummarizeFails, SkipStep, HaltForApproval,
     Lookup, CallTool, CallFails, FinishPlan, Persist, Settle, WriteFails, ErrorEscapes, ApiUnchanged
<1>2. ran' = ran \/ (proc[j].pc = "call" /\ Effect(Current(j)))
  BY DEF WorkOn, PickUp, MarkRunning, MakePlan, SummarizeFails, SkipStep, HaltForApproval,
     Lookup, CallTool, CallFails, FinishPlan, Persist, Settle, WriteFails, ErrorEscapes
<1>3. CASE ran' = ran
  BY <1>1, <1>3 DEF ActedIds, Happened, Gate!gate
<1>4. CASE proc[j].pc = "call" /\ Effect(Current(j))
  <2> DEFINE s == proc[j].next
  <2>1. s \in Step /\ Current(j) \in Act /\ (s \in HighRisk => s \in ApprovedIds)
    BY <1>4 DEF GateInv, CallsAreCleared, CopiesApproved, Cleared, Current, Act
  <2>2. \A a \in Act : Happened(a)' <=> Happened(a) \/ a = Current(j)
    BY <1>4, <2>1 DEF Happened, Effect, TypeOK, Many
  <2>3. ActedIds' = ActedIds \cup {s}
    BY <2>1, <2>2 DEF ActedIds, Current
  <2>4. Gate!GateAct(s)
    BY <1>1, <2>1, <2>3 DEF Gate!GateAct
  <2>5. QED
    BY <2>1, <2>4 DEF Gate!GateNext
<1>5. QED
  BY <1>2, <1>3, <1>4

(***************************************************************************)
(* A run implements the approval gate: seen through the ids approved and   *)
(* the ids that acted, every step of it grants, acts as granted, or does   *)
(* nothing.                                                                *)
(***************************************************************************)
THEOREM RunImplementsGate == Spec => ImplementsGate
<1>1. Init => Gate!GateInit
  BY DEF Init, Gate!GateInit, ApprovedIds, ActedIds, Happened
<1>2. TypeOK /\ GateInv /\ [Next]_vars => [Gate!GateNext]_(Gate!gate)
  <2> SUFFICES ASSUME TypeOK, GateInv, [Next]_vars
               PROVE  Gate!GateNext \/ UNCHANGED Gate!gate
    OBVIOUS
  <2>1. CASE \E r \in Requests : Ask(r) \/ Proceed(r)
    BY <2>1, ApiGrants
  <2>2. CASE \E j \in Jobs : PickUp(j) \/ WorkOn(j)
    BY <2>2, WorkActs
  <2>3. CASE Housekeep \/ (\E a \in Act : Evict(a)) \/ Crash \/ UNCHANGED vars
    BY <2>3 DEF Housekeep, LoadTask, WriteTask, Evict, Crash, ApiUnchanged, vars, Gate!gate,
       ApprovedIds, ActedIds, Happened
  <2>4. QED
    BY <2>1, <2>2, <2>3 DEF Next
<1>3. QED
  BY <1>1, <1>2, Invariance, PTL DEF Spec, ImplementsGate, Gate!GateSpec

-----------------------------------------------------------------------------
(* A handler that makes the run due goes on to enqueue it, and hands over  *)
(* to the queue: only a lost 'add' or a crash could break the chain.       *)
LEMMA ApiCarries ==
  ASSUME TypeOK, NoForgottenRun, "queue" \notin Faults, NEW r \in Requests, Ask(r) \/ Proceed(r)
  PROVE  NoForgottenRun'
<1> USE DEF NoForgottenRun, HandlerCarries
<1> DEFINE carrying == {"read", "write", "load", "add"}
<1>0. NoReq.pc = "idle" /\ NoReq \in Reqs
  BY IdleType
<1>1. JobCarries => JobCarries'
  BY ApiFrame DEF JobCarries
<1>2. \A q \in Requests \ {r} : reqs'[q] = reqs[q]
  BY DEF TypeOK, Ask, Proceed, Approve, Continue, Confirm, Cancel, Install, Refresh,
     ApproveWrite, CancelWrite, ExecuteRead, ExecuteWrite, ConfirmWrite, RefreshWrite, Load, Add
<1>3. reqs'[r].pc \in carrying => NoForgottenRun'
  OBVIOUS
<1>4. CASE /\ reqs[r].pc \notin carrying \/ reqs'[r].pc \in carrying
           /\ run'.status = run.status
  BY <1>1, <1>2, <1>4
<1>5. CASE run'.status \notin {"QUEUED", "APPROVED", "PENDING"}
  BY <1>5
<1>6. CASE Add(r)
  <2>1. CASE Waiting # {} /\ UNCHANGED queue
    BY <2>1, <1>1 DEF Waiting, JobCarries
  <2>2. CASE \E k \in Jobs : queue' = [queue EXCEPT ![k] = NewJob(reqs[r].plan, reqs[r].approved)]
    <3>1. NewJob(reqs[r].plan, reqs[r].approved).st = "waiting"
      BY DEF NewJob, NoJob
    <3>2. QED
      BY <2>2, <3>1 DEF JobCarries, TypeOK
  <2>3. QED
    BY <1>6, <2>1, <2>2 DEF Add
<1>7. CASE ApproveWrite(r) \/ ExecuteRead(r) \/ ExecuteWrite(r) \/ Load(r)
  <2>1. reqs[r] \in Reqs
    BY DEF TypeOK
  <2>2. ApproveWrite(r) => reqs'[r].pc = "load"
    BY <1>0 DEF ApproveWrite, TypeOK, Reqs
  <2>3. ExecuteRead(r) => reqs'[r].pc = "write"
    BY <1>0 DEF ExecuteRead, TypeOK, Reqs
  <2>4. ExecuteWrite(r) => reqs'[r].pc = "load"
    BY <1>0 DEF ExecuteWrite, TypeOK, Reqs
  <2>5. Load(r) => reqs'[r].pc = "add"
    BY <2>1 DEF Load, TypeOK, Reqs
  <2>6. QED
    BY <1>3, <1>7, <2>2, <2>3, <2>4, <2>5
<1>8. CASE CancelWrite(r) \/ Install(r) \/ RefreshWrite(r)
  <2>1. run'.status \in {"CANCELED", "PENDING_APPS_INSTALL", "AWAITING_INPUT"}
    BY <1>8 DEF CancelWrite, Install, RefreshWrite, TypeOK, Rows
  <2>2. QED
    BY <1>5, <2>1
<1>9. CASE ConfirmWrite(r)
  BY <1>4, <1>9 DEF ConfirmWrite, TypeOK, Rows
<1>10. CASE Cancel(r) \/ Refresh(r) \/ \E S \in Approvable : Approve(r, S)
  BY <1>4, <1>10 DEF Cancel, Refresh, Approve, Idle
<1>11. ASSUME NEW b \in BOOLEAN, Confirm(r, b) PROVE NoForgottenRun'
  BY <1>4, <1>11 DEF Confirm, Idle
<1>12. ASSUME NEW b \in BOOLEAN, Continue(r, b) PROVE NoForgottenRun'
  <2>1. reqs'[r].pc = "read"
    BY <1>0, <1>12 DEF Continue, TypeOK, Reqs
  <2>2. QED
    BY <1>3, <2>1
<1>13. QED
  BY <1>6, <1>7, <1>8, <1>9, <1>10, <1>11, <1>12 DEF Ask, Proceed

(* The worker drops a job from the queue only after it has marked the run. *)
LEMMA WorkCarries ==
  ASSUME TypeOK, ProcessedIsActive, NoForgottenRun, "db" \notin Faults, NEW j \in Jobs,
         PickUp(j) \/ WorkOn(j)
  PROVE  NoForgottenRun'
<1> USE DEF NoForgottenRun
<1>1. HandlerCarries' = HandlerCarries
  BY DEF HandlerCarries, WorkOn, PickUp, MarkRunning, MakePlan, SummarizeFails, SkipStep,
     HaltForApproval, Lookup, CallTool, CallFails, FinishPlan, Persist, Settle, WriteFails, ErrorEscapes, ApiUnchanged
<1>2. \A k \in Jobs \ {j} : proc'[k] = proc[k] /\ queue'[k] = queue[k]
  BY DEF TypeOK, WorkOn, PickUp, MarkRunning, MakePlan, SummarizeFails, SkipStep, HaltForApproval,
     Lookup, CallTool, CallFails, FinishPlan, Persist, Settle, WriteFails, ErrorEscapes, Completed, Failed, Goto
<1>3. CASE PickUp(j)
  <2>1. NoProc \in Procs
    BY IdleType
  <2>2. proc'[j].pc = "mark"
    BY <1>3, <2>1 DEF PickUp, Goto, TypeOK, Procs
  <2>3. QED
    BY <2>2 DEF JobCarries
<1>4. CASE MarkRunning(j) \/ Settle(j)
  <2>1. run'.status \in {"RUNNING", "AWAITING_APPROVAL", "FAILED", "DONE"}
    BY <1>4 DEF MarkRunning, Settle, FinalStatus, TypeOK, Rows
  <2>2. QED
    BY <2>1
<1>5. CASE WorkOn(j) /\ ~MarkRunning(j) /\ ~Settle(j)
  <2>1. run'.status = run.status /\ proc[j].pc \notin {"none", "mark"} /\ queue' = queue
    BY <1>5 DEF WorkOn, MakePlan, SummarizeFails, SkipStep, HaltForApproval, HasStep, Lookup, CallTool,
       CallFails, FinishPlan, Persist, WriteFails, ErrorEscapes, TypeOK, Rows
  <2>2. QED
    BY <1>1, <1>2, <2>1 DEF JobCarries, ProcessedIsActive
<1>6. QED
  BY <1>3, <1>4, <1>5

(***************************************************************************)
(* Unless Redis refuses a job, a write fails or the process dies, a run    *)
(* that is due is always on its way to the worker, whatever handlers and   *)
(* workers interleave and even when BullMQ drops a job with a duplicate id.*)
(***************************************************************************)
THEOREM NothingForgotten ==
  ASSUME "queue" \notin Faults, "db" \notin Faults, "crash" \notin Faults
  PROVE  Spec => []NoForgottenRun
<1>1. Init => NoForgottenRun
  <2> SUFFICES ASSUME Init PROVE NoForgottenRun
    OBVIOUS
  <2>1. CASE \E m \in Created \cap Modes : InitFromPrompt(m)
    <3>1. NewJob(NotGiven, {}).st = "waiting"
      BY JobType, ListsType
    <3>2. QED
      BY <2>1, <3>1 DEF InitFromPrompt, PromptRow, InitialStatus, NoForgottenRun, JobCarries
  <2>2. CASE InitFromPlan(TRUE) \/ InitFromPlan(FALSE)
    BY <2>2 DEF InitFromPlan, PlanRow, NoForgottenRun
  <2>3. QED
    BY <2>1, <2>2 DEF Init
<1>2. TypeOK /\ GateInv /\ NoForgottenRun /\ [Next]_vars => NoForgottenRun'
  <2> SUFFICES ASSUME TypeOK, GateInv, NoForgottenRun, [Next]_vars PROVE NoForgottenRun'
    OBVIOUS
  <2>1. CASE \E r \in Requests : Ask(r) \/ Proceed(r)
    BY <2>1, ApiCarries
  <2>2. CASE \E j \in Jobs : PickUp(j) \/ WorkOn(j)
    BY <2>2, WorkCarries DEF GateInv
  <2>3. CASE Housekeep \/ (\E a \in Act : Evict(a)) \/ UNCHANGED vars
    BY <2>3 DEF Housekeep, LoadTask, WriteTask, Evict, ApiUnchanged, vars, NoForgottenRun,
       HandlerCarries, JobCarries, TypeOK, Rows
  <2>4. QED
    BY <2>1, <2>2, <2>3 DEF Next, Crash
<1>3. QED
  BY <1>1, <1>2, Invariance, PTL DEF Spec
=============================================================================
