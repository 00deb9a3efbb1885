-------------------------- MODULE RunEffectProofs ---------------------------
(***************************************************************************)
(* More that holds of a run for every value of the constants: what its     *)
(* output says has happened, what happens twice, and who works on a run    *)
(* that is shown as RUNNING.                                               *)
(***************************************************************************)
EXTENDS RunLifecycleProofs, FiniteSetTheorems

(* Planning leaves the worker at the executor or at the end of the graph,  *)
(* where it has committed nothing new.                                     *)
LEMMA PlanMade ==
  ASSUME TypeOK, NEW j \in Jobs, MakePlan(j)
  PROVE  /\ proc'[j].pc \in {"exec", "persist"}
         /\ proc'[j].kept = proc[j].kept
         /\ proc'[j].commits \in {proc[j].commits, proc[j].kept}
<1> USE DEF TypeOK, Goto
<1>1. PICK q \in PlanOrNone : \/ proc' = [proc EXCEPT ![j] = [proc[j] EXCEPT !.plan = q, !.pc = "exec"]]
                              \/ proc' = [proc EXCEPT ![j] = EndOfGraph(j, q, "done")]
                              \/ proc' = [proc EXCEPT ![j] = EndOfGraph(j, q, "approval")]
  BY Zenon DEF MakePlan
<1>2. \/ proc'[j] = [proc[j] EXCEPT !.plan = q, !.pc = "exec"]
      \/ proc'[j] = EndOfGraph(j, q, "done")
      \/ proc'[j] = EndOfGraph(j, q, "approval")
  BY <1>1
<1>3. ASSUME NEW o
      PROVE  LET e == EndOfGraph(j, q, o)
             IN  e.pc = "persist" /\ e.kept = proc[j].kept /\ e.commits = proc[j].kept
  BY DEF EndOfGraph, Procs
<1>4. LET e == [proc[j] EXCEPT !.plan = q, !.pc = "exec"]
      IN  e.pc = "exec" /\ e.kept = proc[j].kept /\ e.commits = proc[j].commits
  BY DEF Procs
<1>5. QED
  BY <1>2, <1>3, <1>4

(* The graph's own steps leave the worker busy with its job.               *)
LEMMA GraphStaysBusy ==
  ASSUME TypeOK, NEW j \in Jobs, WorkOn(j), ~Settle(j), ~ErrorEscapes(j)
  PROVE  proc'[j].pc \notin {"none", "mark"}
<1> USE DEF TypeOK, Goto
<1> DEFINE busy == {"plan", "exec", "call", "persist", "settle"}
<1>1. MarkRunning(j) => proc'[j].pc \in busy
  BY DEF MarkRunning, Procs
<1>2. MakePlan(j) => proc'[j].pc \in busy
  BY PlanMade
<1>3. SkipStep(j) => proc'[j].pc \in busy
  BY DEF SkipStep, HasStep, Procs
<1>4. HaltForApproval(j) \/ SummarizeFails(j) \/ FinishPlan(j) => proc'[j].pc \in busy
  <2>1. HaltForApproval(j) => proc'[j].pc \in busy
    BY DEF HaltForApproval, Procs
  <2>2. SummarizeFails(j) => proc'[j].pc \in busy
    BY DEF SummarizeFails, Procs
  <2>3. FinishPlan(j) => proc'[j].pc \in busy
    BY DEF FinishPlan, Procs
  <2>4. QED
    BY <2>1, <2>2, <2>3
<1>5. Advance(proc[j]).pc = "exec" /\ [proc[j] EXCEPT !.pc = "call"].pc = "call"
  BY DEF Advance, Procs
<1>6. Lookup(j) \/ CallTool(j) => proc'[j].pc \in busy
  BY <1>5 DEF Lookup, CallTool
<1>7. CallFails(j) => proc'[j].pc \in busy
  BY DEF CallFails, Procs
<1>8. Persist(j) => proc'[j].pc \in busy
  BY DEF Persist, Procs
<1>9. WriteFails(j) => proc'[j].pc \in busy
  BY DEF WriteFails, Procs
<1>10. QED
  BY <1>1, <1>2, <1>3, <1>4, <1>6, <1>7, <1>8, <1>9 DEF WorkOn

(* No handler writes RUNNING.                                              *)
LEMMA OnlyWorkerRuns ==
  ASSUME TypeOK, NEW r \in Requests, Ask(r) \/ Proceed(r), run'.status = "RUNNING"
  PROVE  run.status = "RUNNING"
BY DEF TypeOK, Rows, Ask, Proceed, Approve, Continue, Confirm, Cancel, Install, Refresh,
   ApproveWrite, CancelWrite, ExecuteRead, ExecuteWrite, ConfirmWrite, RefreshWrite, Load, Add

(***************************************************************************)
(* As long as no process dies and no write fails, a run shown as RUNNING   *)
(* is being worked on, however many jobs of it are processed, retried or   *)
(* still queued: the status a job writes last is never covered by an older *)
(* RUNNING.                                                                *)
(***************************************************************************)
THEOREM RunningIsNotLeft ==
  ASSUME "db" \notin Faults, "crash" \notin Faults
  PROVE  Spec => []RunningIsWorkedOn
<1>1. Init => RunningIsWorkedOn
  BY DEF Init, InitFromPrompt, InitFromPlan, PromptRow, PlanRow, InitialStatus, RunningIsWorkedOn
<1>2. TypeOK /\ GateInv /\ RunningIsWorkedOn /\ [Next]_vars => RunningIsWorkedOn'
  <2> SUFFICES ASSUME TypeOK, GateInv, RunningIsWorkedOn, [Next]_vars,
                      run'.status = "RUNNING"
               PROVE  \E k \in Jobs : proc'[k].pc \notin {"none", "mark"}
    BY DEF RunningIsWorkedOn
  <2>1. CASE \E r \in Requests : Ask(r) \/ Proceed(r)
    <3>1. run.status = "RUNNING" /\ proc' = proc
      BY <2>1, OnlyWorkerRuns, ApiFrame
    <3>2. QED
      BY <3>1 DEF RunningIsWorkedOn
  <2>2. ASSUME NEW j \in Jobs, PickUp(j)
        PROVE  \E k \in Jobs : proc'[k].pc \notin {"none", "mark"}
    <3>1. run.status = "RUNNING" /\ proc[j].pc = "none"
      BY <2>2 DEF PickUp, GateInv, ProcessedIsActive
    <3>2. \A k \in Jobs \ {j} : proc'[k] = proc[k]
      BY <2>2 DEF PickUp, Goto, TypeOK
    <3>3. QED
      BY <3>1, <3>2 DEF RunningIsWorkedOn
  <2>3. ASSUME NEW j \in Jobs, WorkOn(j)
        PROVE  \E k \in Jobs : proc'[k].pc \notin {"none", "mark"}
    <3>1. Settle(j) => run'.status # "RUNNING"
      BY DEF Settle, FinalStatus, TypeOK, Rows
    <3>2. ~ErrorEscapes(j)
      BY DEF ErrorEscapes
    <3>3. QED
      BY <2>3, <3>1, <3>2, GraphStaysBusy
  <2>4. CASE Housekeep \/ (\E a \in Act : Evict(a)) \/ UNCHANGED vars
    <3>1. run.status = "RUNNING" /\ proc' = proc
      BY <2>4 DEF Housekeep, LoadTask, WriteTask, Evict, vars, TypeOK, Rows
    <3>2. QED
      BY <3>1 DEF RunningIsWorkedOn
  <2>5. QED
    BY <2>1, <2>2, <2>3, <2>4 DEF Next, Crash
<1>3. QED
  BY <1>1, <1>2, Invariance, PTL DEF Spec
-----------------------------------------------------------------------------
(* Why the output names only what happened: so do all its copies, in the   *)
(* graph, in a persistPlan nobody waits for and in a confirm between its   *)
(* read and its write, and a result is only remembered after the effect.   *)
CommitsInv ==
  /\ CommitsHappened
  /\ \A t \in tasks : t.commits \subseteq ActedIds
  /\ \A r \in Requests : reqs[r].out.commits \subseteq ActedIds
  /\ \A j \in Jobs : proc[j].kept \cup proc[j].commits \subseteq ActedIds
  /\ \A a \in cache : Happened(a)

(* What happened stays.                                                    *)
LEMMA ActedGrows ==
  ASSUME TypeOK, \A a \in Act : Happened(a) => Happened(a)'
  PROVE  ActedIds \subseteq ActedIds'
BY DEF ActedIds

(* A handler writes back commits it read.                                  *)
LEMMA ApiCommits ==
  ASSUME TypeOK, CommitsInv, NEW r \in Requests, Ask(r) \/ Proceed(r)
  PROVE  CommitsInv'
<1> USE DEF CommitsInv
<1>1. /\ proc' = proc /\ ran' = ran /\ tasks' = tasks /\ cache' = cache
      /\ ActedIds' = ActedIds /\ \A a \in cache : Happened(a)'
  <2>1. proc' = proc /\ ran' = ran
    BY ApiFrame
  <2>2. tasks' = tasks /\ cache' = cache
    BY DEF Ask, Proceed, Approve, Continue, Confirm, Cancel, Install, Refresh, ApproveWrite,
       CancelWrite, ExecuteRead, ExecuteWrite, ConfirmWrite, RefreshWrite, Load, Add, worldUnchanged
  <2>3. QED
    BY <2>1, <2>2 DEF ActedIds, Happened
<1>2. run'.out.commits \in {run.out.commits, reqs[r].out.commits}
  <2>1. ConfirmWrite(r) => run'.out = reqs[r].out
    BY DEF ConfirmWrite, TypeOK, Rows
  <2>2. ~ConfirmWrite(r) => run'.out = run.out
    BY DEF TypeOK, Rows, Ask, Proceed, Approve, Continue, Confirm, Cancel, Install, Refresh,
       ApproveWrite, CancelWrite, ExecuteRead, ExecuteWrite, RefreshWrite, Load, Add
  <2>3. QED
    BY <2>1, <2>2
<1>3. \A q \in Requests \ {r} : reqs'[q] = reqs[q]
  BY DEF TypeOK, Ask, Proceed, Approve, Continue, Confirm, Cancel, Install, Refresh,
     ApproveWrite, CancelWrite, ExecuteRead, ExecuteWrite, ConfirmWrite, RefreshWrite, Load, Add
<1>4. reqs'[r].out \in {reqs[r].out, run.out, NoOutput}
  <2>0. NoReq \in Reqs /\ NoReq.out = NoOutput
    BY IdleType DEF NoReq
  <2>1. ASSUME NEW b \in BOOLEAN, Confirm(r, b) PROVE reqs'[r].out = run.out
    BY <2>0, <2>1 DEF Confirm, TypeOK, Reqs
  <2>2. ASSUME NEW b \in BOOLEAN, Continue(r, b) PROVE reqs'[r].out = NoOutput
    BY <2>0, <2>2 DEF Continue, TypeOK, Reqs
  <2>3. ASSUME NEW S \in Approvable, Approve(r, S) PROVE reqs'[r].out = NoOutput
    BY <2>0, <2>3 DEF Approve, TypeOK, Reqs
  <2>4. Cancel(r) \/ Refresh(r) => reqs'[r].out = NoOutput
    BY <2>0 DEF Cancel, Refresh, TypeOK, Reqs
  <2>5. Install(r) => reqs'[r] = reqs[r]
    BY DEF Install
  <2>6. ApproveWrite(r) => reqs'[r].out = NoOutput
    BY <2>0 DEF ApproveWrite, TypeOK, Reqs
  <2>12. ExecuteRead(r) => reqs'[r].out = NoOutput
    BY <2>0 DEF ExecuteRead, TypeOK, Reqs
  <2>7. ExecuteWrite(r) => reqs'[r].out = NoOutput
    BY <2>0 DEF ExecuteWrite, TypeOK, Reqs
  <2>8. ConfirmWrite(r) => reqs'[r].out = NoOutput
    BY <2>0 DEF ConfirmWrite, TypeOK, Reqs
  <2>9. CancelWrite(r) \/ RefreshWrite(r) \/ Add(r) => reqs'[r].out = NoOutput
    BY <2>0 DEF CancelWrite, RefreshWrite, Add, TypeOK
  <2>10. Load(r) => reqs'[r].out = reqs[r].out
    BY DEF Load, TypeOK, Reqs
  <2>11. QED
    BY <2>1, <2>2, <2>3, <2>4, <2>5, <2>6, <2>7, <2>8, <2>9, <2>10,
       <2>12 DEF Ask, Proceed
<1>5. NoOutput.commits = {}
  BY DEF NoOutput
<1>6. CommitsHappened'
  BY <1>1, <1>2 DEF CommitsHappened
<1>7. \A q \in Requests : reqs'[q].out.commits \subseteq ActedIds
  BY <1>3, <1>4, <1>5 DEF CommitsHappened
<1>8. QED
  BY <1>1, <1>6, <1>7

(* A step of the worker undoes no effect, and what it calls has happened.  *)
LEMMA WorkHappens ==
  ASSUME TypeOK, GateInv, NEW j \in Jobs, PickUp(j) \/ WorkOn(j)
  PROVE  /\ \A a \in Act : Happened(a) => Happened(a)'
         /\ ran' = ran \/ proc[j].pc = "call"
         /\ proc[j].pc = "call" => Current(j) \in Act
         /\ CallTool(j) => ran'[Current(j)] > 0
<1>1. ran' = ran \/ (proc[j].pc = "call" /\ Effect(Current(j)))
  BY DEF WorkOn, PickUp, MarkRunning, MakePlan, SummarizeFails, SkipStep, HaltForApproval,
     Lookup, CallTool, CallFails, FinishPlan, Persist, Settle, WriteFails, ErrorEscapes
<1>2. proc[j].pc = "call" => Current(j) \in Act
  BY DEF GateInv, CallsAreCleared, Current, Act
<1>3. ASSUME proc[j].pc = "call", Effect(Current(j))
      PROVE  /\ ran'[Current(j)] > 0
             /\ \A a \in Act : a # Current(j) => ran'[a] = ran[a]
  BY <1>2, <1>3 DEF Effect, TypeOK, Many
<1>4. \A a \in Act : Happened(a) => Happened(a)'
  BY <1>1, <1>3 DEF Happened
<1>5. CallTool(j) => ran'[Current(j)] > 0
  BY <1>3 DEF CallTool
<1>6. QED
  BY <1>1, <1>2, <1>4, <1>5

(* So a worker claims only what happened: what it kept from the row, or a  *)
(* step whose result it was given.                                         *)
LEMMA WorkClaims ==
  ASSUME TypeOK, GateInv, CommitsInv, NEW j \in Jobs, PickUp(j) \/ WorkOn(j)
  PROVE  proc'[j].kept \cup proc'[j].commits \subseteq ActedIds'
<1> DEFINE p == proc[j]
           claims(q) == q.kept \cup q.commits
<1>0. /\ NoProc \in Procs /\ claims(NoProc) = {} /\ p \in Procs
      /\ proc \in [Jobs -> Procs]
  BY IdleType DEF NoProc, TypeOK
<1>1. ActedIds \subseteq ActedIds'
  BY WorkHappens, ActedGrows
<1>2. claims(p) \subseteq ActedIds /\ run.out.commits \subseteq ActedIds
  BY DEF CommitsInv, CommitsHappened
<1>3. ASSUME CallTool(j) \/ (Lookup(j) /\ Current(j) \in cache) PROVE p.next \in ActedIds'
  <2>1. Current(j) \in Act /\ ran'[Current(j)] > 0
    <3>1. CASE CallTool(j)
      BY <3>1, WorkHappens DEF CallTool
    <3>2. CASE Lookup(j) /\ Current(j) \in cache
      BY <3>2, WorkHappens DEF CommitsInv, Happened, TypeOK, Lookup
    <3>3. QED
      BY <1>3, <3>1, <3>2
  <2>2. QED
    BY <2>1 DEF ActedIds, Happened, Current
<1>4. claims(Advance(p)) = claims(p) \cup {p.next}
  BY <1>0 DEF Advance, Procs
<1>5. PickUp(j) => claims(proc'[j]) \subseteq ActedIds
  <2>1. ASSUME PickUp(j) PROVE proc'[j].kept = run.out.commits /\ proc'[j].commits = {}
    BY <1>0, <2>1 DEF PickUp, Goto, NoProc
  <2>2. QED
    BY <1>2, <2>1
<1>6. MarkRunning(j) => claims(proc'[j]) = claims(p)
  BY <1>0 DEF MarkRunning, Goto, Procs
<1>7. MakePlan(j) => claims(proc'[j]) \subseteq claims(p)
  BY PlanMade
<1>8. SkipStep(j) => claims(proc'[j]) = claims(p)
  BY <1>0 DEF SkipStep, Goto, Procs
<1>9. HaltForApproval(j) => claims(proc'[j]) = claims(p)
  BY <1>0 DEF HaltForApproval, Goto, Procs
<1>10. ASSUME Lookup(j) PROVE claims(proc'[j]) \subseteq ActedIds'
  <2>1. CASE Current(j) \in cache
    <3>1. proc'[j] = Advance(p)
      BY <1>0, <1>10, <2>1 DEF Lookup, Goto
    <3>2. QED
      BY <1>1, <1>2, <1>3, <1>4, <1>10, <2>1, <3>1
  <2>2. CASE Current(j) \notin cache
    <3>1. claims(proc'[j]) = claims(p)
      BY <1>0, <1>10, <2>2 DEF Lookup, Goto, Procs
    <3>2. QED
      BY <1>1, <1>2, <3>1
  <2>3. QED
    BY <2>1, <2>2
<1>11. ASSUME CallTool(j) PROVE claims(proc'[j]) \subseteq ActedIds'
  <2>1. proc'[j] = Advance(p)
    BY <1>0, <1>11 DEF CallTool, Goto
  <2>2. QED
    BY <1>1, <1>2, <1>3, <1>4, <1>11, <2>1
<1>12. CallFails(j) => claims(proc'[j]) \subseteq claims(p)
  BY <1>0 DEF CallFails, Goto, Procs
<1>13. FinishPlan(j) => claims(proc'[j]) = claims(p)
  BY <1>0 DEF FinishPlan, Goto, Procs
<1>14. SummarizeFails(j) => claims(proc'[j]) = claims(p)
  BY <1>0 DEF SummarizeFails, Goto, Procs
<1>15. Persist(j) => claims(proc'[j]) = claims(p)
  BY <1>0 DEF Persist, Goto, Procs
<1>16. Settle(j) => claims(proc'[j]) = {}
  BY <1>0 DEF Settle, Goto
<1>17. WriteFails(j) => claims(proc'[j]) = claims(p)
  BY <1>0 DEF WriteFails, Goto, Procs
<1>18. ErrorEscapes(j) => claims(proc'[j]) = {}
  BY <1>0 DEF ErrorEscapes, Goto
<1>19. QED
  BY <1>1, <1>2, <1>5, <1>6, <1>7, <1>8, <1>9, <1>10, <1>11, <1>12, <1>13, <1>14, <1>15, <1>16,
     <1>17, <1>18 DEF WorkOn

(* What it writes into the output, the plan it leaves to persistPlan and   *)
(* what it adds to the cache are no different.                             *)
LEMMA WorkCommits ==
  ASSUME TypeOK, GateInv, CommitsInv, NEW j \in Jobs, PickUp(j) \/ WorkOn(j)
  PROVE  CommitsInv'
<1> USE DEF CommitsInv
<1>1. ActedIds \subseteq ActedIds' /\ \A a \in Act : Happened(a) => Happened(a)'
  BY WorkHappens, ActedGrows
<1>2. \A k \in Jobs : proc'[k].kept \cup proc'[k].commits \subseteq ActedIds'
  <2>1. \A k \in Jobs \ {j} : proc'[k] = proc[k]
    BY DEF TypeOK, WorkOn, PickUp, MarkRunning, MakePlan, SummarizeFails, SkipStep, HaltForApproval,
       Lookup, CallTool, CallFails, FinishPlan, Persist, Settle, WriteFails, ErrorEscapes, Goto
  <2>2. QED
    BY <1>1, <2>1, WorkClaims
<1>3. \A r \in Requests : reqs'[r].out.commits \subseteq ActedIds'
  <2>1. reqs' = reqs
    BY DEF WorkOn, PickUp, MarkRunning, MakePlan, SummarizeFails, SkipStep, HaltForApproval,
       Lookup, CallTool, CallFails, FinishPlan, Persist, Settle, WriteFails, ErrorEscapes, ApiUnchanged
  <2>2. QED
    BY <1>1, <2>1
<1>4. \A t \in tasks' : t.commits \subseteq ActedIds'
  <2>1. ASSUME MakePlan(j) PROVE \A t \in tasks' : t \in tasks \/ t.commits = {}
    <3>1. PICK q \in PlanOrNone : tasks' = tasks \cup {[pc |-> "load", plan |-> q, commits |-> {}]}
      BY <2>1, Zenon DEF MakePlan
    <3>2. QED
      BY <3>1
  <2>2. ~MakePlan(j) => tasks' = tasks
    BY DEF WorkOn, PickUp, MarkRunning, SummarizeFails, SkipStep, HaltForApproval,
       Lookup, CallTool, CallFails, FinishPlan, Persist, Settle, WriteFails, ErrorEscapes
  <2>3. QED
    BY <1>1, <2>1, <2>2
<1>5. \A a \in cache' : Happened(a)'
  <2>1. CASE CallTool(j)
    <3>1. ran'[Current(j)] > 0 /\ cache' = cache \cup {Current(j)}
      BY <2>1, WorkHappens DEF CallTool
    <3>2. QED
      BY <1>1, <3>1 DEF Happened, TypeOK
  <2>2. CASE ~CallTool(j)
    <3>1. cache' = cache
      BY <2>2 DEF WorkOn, PickUp, MarkRunning, MakePlan, SummarizeFails, SkipStep, HaltForApproval,
         Lookup, CallFails, FinishPlan, Persist, Settle, WriteFails, ErrorEscapes
    <3>2. QED
      BY <1>1, <3>1 DEF TypeOK
  <2>3. QED
    BY <2>1, <2>2
<1>6. run'.out.commits \subseteq ActedIds'
  <2>1. CASE Persist(j)
    <3>1. run'.out = CASE proc[j].outcome = "halt" -> [plan |-> proc[j].plan, commits |-> proc[j].kept]
                       [] proc[j].outcome = "fail" -> NoOutput
                       [] OTHER -> [plan |-> NoPlan, commits |-> proc[j].commits]
      BY <2>1 DEF Persist, TypeOK, Rows
    <3>2. run'.out.commits \in {proc[j].kept, proc[j].commits, {}}
      BY <3>1 DEF NoOutput
    <3>3. QED
      BY <1>1, <3>2
  <2>2. CASE ~Persist(j)
    <3>1. run'.out = run.out
      BY <2>2 DEF WorkOn, PickUp, MarkRunning, MakePlan, SummarizeFails, SkipStep, HaltForApproval,
         Lookup, CallTool, CallFails, FinishPlan, Settle, WriteFails, ErrorEscapes, TypeOK, Rows
    <3>2. QED
      BY <1>1, <3>1 DEF CommitsHappened
  <2>3. QED
    BY <2>1, <2>2
<1>7. QED
  BY <1>2, <1>3, <1>4, <1>5, <1>6 DEF CommitsHappened

(* Nor is a persistPlan that writes back an output it read, or a crash.    *)
LEMMA RestCommits ==
  ASSUME TypeOK, CommitsInv, Housekeep \/ (\E a \in Act : Evict(a)) \/ Crash
  PROVE  CommitsInv'
<1> USE DEF CommitsInv
<1>1. ran' = ran /\ ActedIds' = ActedIds /\ \A a : Happened(a)' <=> Happened(a)
  BY DEF Housekeep, LoadTask, WriteTask, Evict, Crash, ActedIds, Happened
<1>2. ASSUME NEW t \in tasks, LoadTask(t) PROVE CommitsInv'
  <2>1. [t EXCEPT !.pc = "write", !.commits = run.out.commits].commits = run.out.commits
    BY DEF TypeOK, Tasks
  <2>2. \A u \in tasks' : u \in tasks \/ u.commits = run.out.commits
    BY <1>2, <2>1 DEF LoadTask
  <2>3. run' = run /\ proc' = proc /\ cache' = cache /\ reqs' = reqs
    BY <1>2 DEF LoadTask, ApiUnchanged
  <2>4. QED
    BY <1>1, <2>2, <2>3 DEF CommitsHappened
<1>3. ASSUME NEW t \in tasks, WriteTask(t) PROVE CommitsInv'
  <2>1. run'.out.commits = t.commits
    BY <1>3 DEF WriteTask, TypeOK, Rows
  <2>2. tasks' \subseteq tasks /\ proc' = proc /\ cache' = cache /\ reqs' = reqs
    BY <1>3 DEF WriteTask, ApiUnchanged
  <2>3. QED
    BY <1>1, <2>1, <2>2 DEF CommitsHappened
<1>4. ASSUME NEW a \in Act, Evict(a) PROVE CommitsInv'
  <2>1. /\ run' = run /\ proc' = proc /\ reqs' = reqs /\ tasks' = tasks
        /\ cache' \subseteq cache
    BY <1>4 DEF Evict, ApiUnchanged
  <2>2. QED
    BY <1>1, <2>1 DEF CommitsHappened
<1>5. ASSUME Crash PROVE CommitsInv'
  <2>1. NoProc.kept = {} /\ NoProc.commits = {} /\ NoReq.out.commits = {}
    BY DEF NoProc, NoReq, NoOutput
  <2>2. /\ run' = run /\ tasks' = {} /\ cache' = {}
        /\ \A k \in Jobs : proc'[k] = NoProc
        /\ \A r \in Requests : reqs'[r] = NoReq
    BY <1>5 DEF Crash
  <2>3. QED
    BY <1>1, <2>1, <2>2 DEF CommitsHappened
<1>6. QED
  BY <1>2, <1>3, <1>4, <1>5 DEF Housekeep

(***************************************************************************)
(* The output of a run names as committed only steps that had their        *)
(* effect, with every fault of the model: neither a retry, a crash nor a   *)
(* persistPlan or confirm that writes an old output back invents one.      *)
(***************************************************************************)
THEOREM CommitsAreTrue == Spec => []CommitsHappened
<1>1. Init => CommitsInv
  <2> SUFFICES ASSUME Init PROVE CommitsInv
    OBVIOUS
  <2>1. NoProc.kept = {} /\ NoProc.commits = {} /\ NoReq.out.commits = {} /\ NoOutput.commits = {}
    BY DEF NoProc, NoReq, NoOutput
  <2>2. run.out = NoOutput
    BY DEF Init, InitFromPrompt, InitFromPlan, PromptRow, PlanRow
  <2>3. /\ \A k \in Jobs : proc[k] = NoProc
        /\ \A r \in Requests : reqs[r] = NoReq
        /\ tasks = {} /\ cache = {}
    BY DEF Init
  <2>4. QED
    BY <2>1, <2>2, <2>3 DEF CommitsInv, CommitsHappened
<1>2. TypeOK /\ GateInv /\ CommitsInv /\ [Next]_vars => CommitsInv'
  <2> SUFFICES ASSUME TypeOK, GateInv, CommitsInv, [Next]_vars PROVE CommitsInv'
    OBVIOUS
  <2>1. CASE UNCHANGED vars
    BY <2>1 DEF vars, CommitsInv, CommitsHappened, ActedIds, Happened
  <2>2. QED
    BY <2>1, ApiCommits, WorkCommits, RestCommits DEF Next
<1>3. CommitsInv => CommitsHappened
  BY DEF CommitsInv
<1>4. QED
  BY <1>1, <1>2, <1>3, Invariance, PTL DEF Spec
-----------------------------------------------------------------------------
(* Why one worker repeats nothing: what happened is remembered, the one    *)
(* call under way is not remembered yet, and no other job is processed.    *)
OneActive == \A j, k \in Jobs : queue[j].st = "active" /\ queue[k].st = "active" => j = k

OnceInv ==
  /\ \A a \in Act : ran[a] > 0 => ran[a] = 1 /\ a \in cache
  /\ \A j \in Jobs : proc[j].pc = "call" => Current(j) \notin cache
  /\ OneActive

(* One worker takes a job only when it has none.                           *)
LEMMA WorkAlone ==
  ASSUME Workers = 1, IsFiniteSet(Jobs), TypeOK, OneActive, NEW j \in Jobs, PickUp(j) \/ WorkOn(j)
  PROVE  OneActive'
<1>1. \A k \in Jobs \ {j} : queue'[k] = queue[k]
  BY DEF TypeOK, WorkOn, PickUp, MarkRunning, MakePlan, SummarizeFails, SkipStep, HaltForApproval,
     Lookup, CallTool, CallFails, FinishPlan, Persist, Settle, WriteFails, ErrorEscapes, Completed, Failed
<1>2. CASE PickUp(j)
  <2>1. IsFiniteSet(Active)
    BY FS_Subset DEF Active
  <2>2. Cardinality(Active) \in Nat /\ Cardinality(Active) < 1
    BY <1>2, <2>1, FS_CardinalityType DEF PickUp
  <2>3. Active = {}
    BY <2>1, <2>2, FS_EmptySet
  <2>4. QED
    BY <1>1, <2>3 DEF Active, OneActive
<1>3. CASE Settle(j) \/ ErrorEscapes(j)
  <2>1. queue'[j].st # "active"
    <3>1. NoJob.st # "active"
      BY JobType
    <3>2. [queue[j] EXCEPT !.st = "waiting", !.att = queue[j].att + 1].st = "waiting"
      BY DEF TypeOK, JobRecs
    <3>3. Completed(j) \/ Failed(j)
      BY <1>3 DEF Settle, ErrorEscapes
    <3>4. Completed(j) => queue'[j] = NoJob
      BY DEF Completed, TypeOK
    <3>5. Failed(j) => queue'[j] \in {NoJob, [queue[j] EXCEPT !.st = "waiting", !.att = queue[j].att + 1]}
      BY DEF Failed, TypeOK
    <3>6. QED
      BY <3>1, <3>2, <3>3, <3>4, <3>5
  <2>2. QED
    BY <1>1, <2>1 DEF OneActive
<1>4. CASE WorkOn(j) /\ ~Settle(j) /\ ~ErrorEscapes(j)
  <2>1. queue' = queue
    BY <1>4 DEF WorkOn, MarkRunning, MakePlan, SummarizeFails, SkipStep, HaltForApproval,
       Lookup, CallTool, CallFails, FinishPlan, Persist, WriteFails
  <2>2. QED
    BY <2>1 DEF OneActive
<1>5. QED
  BY <1>2, <1>3, <1>4

(* It calls a tool only for a step that never acted, and remembers it.     *)
LEMMA WorkOnce ==
  ASSUME Workers = 1, IsFiniteSet(Jobs), "ambiguous" \notin Faults,
         TypeOK, GateInv, OnceInv, NEW j \in Jobs, PickUp(j) \/ WorkOn(j)
  PROVE  OnceInv'
<1>1. OneActive'
  BY WorkAlone DEF OnceInv
<1>2. \A k \in Jobs \ {j} : proc'[k] = proc[k]
  BY DEF TypeOK, WorkOn, PickUp, MarkRunning, MakePlan, SummarizeFails, SkipStep, HaltForApproval,
     Lookup, CallTool, CallFails, FinishPlan, Persist, Settle, WriteFails, ErrorEscapes, Goto
<1>3. CASE CallTool(j)
  <2>1. Current(j) \in Act /\ Current(j) \notin cache /\ ran[Current(j)] = 0
    <3>1. Current(j) \in Act /\ Current(j) \notin cache
      BY <1>3, WorkHappens DEF CallTool, OnceInv
    <3>2. ran[Current(j)] \in 0..2
      BY <3>1 DEF TypeOK, Many
    <3>3. QED
      BY <3>1, <3>2 DEF OnceInv
  <2>2. /\ ran' = [ran EXCEPT ![Current(j)] = 1]
        /\ cache' = cache \cup {Current(j)}
    BY <1>3, <2>1 DEF CallTool, Effect, Many
  <2>3. \A a \in Act : ran'[a] > 0 => ran'[a] = 1 /\ a \in cache'
    BY <2>1, <2>2 DEF OnceInv, TypeOK
  <2>4. \A k \in Jobs : proc'[k].pc # "call"
    <3>1. proc'[j].pc # "call"
      BY <1>3, OnlyLookupCalls DEF CallTool, Lookup, HasStep
    <3>2. \A k \in Jobs \ {j} : proc[k].pc # "call"
      BY <1>3 DEF CallTool, GateInv, ProcessedIsActive, OnceInv, OneActive
    <3>3. QED
      BY <1>2, <3>1, <3>2
  <2>5. QED
    BY <1>1, <2>3, <2>4 DEF OnceInv
<1>4. CASE ~CallTool(j)
  <2>1. ran' = ran /\ cache' = cache
    BY <1>4 DEF WorkOn, PickUp, MarkRunning, MakePlan, SummarizeFails, SkipStep, HaltForApproval,
       Lookup, CallFails, FinishPlan, Persist, Settle, WriteFails, ErrorEscapes
  <2>2. ASSUME proc'[j].pc = "call" PROVE Current(j)' \notin cache
    <3>1. Lookup(j) /\ Current(j)' = Current(j)
      BY <2>2, OnlyLookupCalls DEF Current
    <3>2. Advance(proc[j]).pc = "exec"
      BY DEF Advance, TypeOK, Procs
    <3>3. QED
      BY <2>2, <3>1, <3>2 DEF Lookup, Goto, TypeOK
  <2>3. \A k \in Jobs : proc'[k].pc = "call" => Current(k)' \notin cache
    BY <1>2, <2>2 DEF OnceInv, Current
  <2>4. QED
    BY <1>1, <2>1, <2>3 DEF OnceInv
<1>5. QED
  BY <1>3, <1>4

(***************************************************************************)
(* With one worker nothing a run does is done twice, however often it is   *)
(* approved, continued, confirmed or retried: as long as no cache entry    *)
(* expires, no process dies and no tool fails after its effect.            *)
(***************************************************************************)
THEOREM NothingDoneTwice ==
  ASSUME Workers = 1, IsFiniteSet(Jobs),
         "evict" \notin Faults, "ambiguous" \notin Faults, "crash" \notin Faults
  PROVE  Spec => []EffectsAtMostOnce
<1>1. Init => OnceInv
  <2> SUFFICES ASSUME Init PROVE OnceInv
    OBVIOUS
  <2>1. \A k \in Jobs : queue[k].st # "active" /\ proc[k].pc # "call"
    <3>1. NoJob.st # "active" /\ NewJob(NotGiven, {}).st # "active" /\ NoProc.pc # "call"
      BY JobType, ListsType, IdleType
    <3>2. QED
      BY <3>1 DEF Init, InitFromPrompt, InitFromPlan
  <2>2. \A a \in Act : ran[a] = 0
    BY DEF Init
  <2>3. QED
    BY <2>1, <2>2 DEF OnceInv, OneActive
<1>2. TypeOK /\ GateInv /\ OnceInv /\ [Next]_vars => OnceInv'
  <2> SUFFICES ASSUME TypeOK, GateInv, OnceInv, [Next]_vars PROVE OnceInv'
    OBVIOUS
  <2>1. ASSUME NEW r \in Requests, Ask(r) \/ Proceed(r) PROVE OnceInv'
    <3>1. proc' = proc /\ ran' = ran
      BY <2>1, ApiFrame
    <3>2. cache' = cache
      BY <2>1 DEF Ask, Proceed, Approve, Continue, Confirm, Cancel, Install, Refresh, ApproveWrite,
         CancelWrite, ExecuteRead, ExecuteWrite, ConfirmWrite, RefreshWrite, Load, Add, worldUnchanged
    <3>3. \A k \in Jobs : queue'[k].st = "active" => queue[k].st = "active"
      <4>1. ASSUME NEW k \in Jobs, Add(r), queue'[k] # queue[k] PROVE queue'[k].st = "waiting"
        <5>1. NewJob(reqs[r].plan, reqs[r].approved).st = "waiting"
          BY DEF NewJob, NoJob
        <5>2. QED
          BY <4>1, <5>1 DEF Add, TypeOK
      <4>2. QED
        BY <2>1, <4>1, ApiFrame
    <3>4. QED
      BY <3>1, <3>2, <3>3 DEF OnceInv, OneActive, Current
  <2>2. ASSUME NEW j \in Jobs, PickUp(j) \/ WorkOn(j) PROVE OnceInv'
    BY <2>2, WorkOnce
  <2>3. CASE Housekeep \/ UNCHANGED vars
    <3>1. proc' = proc /\ ran' = ran /\ cache' = cache /\ queue' = queue
      BY <2>3 DEF Housekeep, LoadTask, WriteTask, vars
    <3>2. QED
      BY <3>1 DEF OnceInv, OneActive, Current
  <2>4. QED
    BY <2>1, <2>2, <2>3 DEF Next, Crash, Evict
<1>3. TypeOK /\ OnceInv => EffectsAtMostOnce
  BY DEF OnceInv, EffectsAtMostOnce, TypeOK, Many
<1>4. QED
  BY <1>1, <1>2, <1>3, Invariance, PTL DEF Spec

=============================================================================
