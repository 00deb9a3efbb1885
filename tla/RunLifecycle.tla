---------------------------- MODULE RunLifecycle ----------------------------
(***************************************************************************)
(* One run from creation to its last job: the handlers of RunApi and the   *)
(* worker of RunProcessor interleaved on the state of RunStore, and the    *)
(* properties of the whole.                                                *)
(***************************************************************************)
EXTENDS RunApi, RunProcessor

Next ==
  \/ \E r \in Requests : Ask(r) \/ Proceed(r)
  \/ \E j \in Jobs : PickUp(j) \/ WorkOn(j)
  \/ Housekeep
  \/ \E a \in Act : Evict(a)
  \/ Crash

Spec == Init /\ [][Next]_vars

(***************************************************************************)
(* The event loop runs what can run: a request in flight, a job being      *)
(* processed and an unawaited promise go on until they end, and BullMQ     *)
(* hands out a waiting job when a worker is free.  Nothing makes the user  *)
(* ask for anything.                                                       *)
(***************************************************************************)
ServerFairness ==
  /\ \A r \in Requests : WF_vars(Proceed(r))
  /\ \A j \in Jobs : WF_vars(WorkOn(j)) /\ WF_vars(PickUp(j))
  /\ WF_vars(Housekeep)

FairSpec == Spec /\ ServerFairness

-----------------------------------------------------------------------------
Happened(a) == ran[a] > 0

(* The step ids approved so far, and the step ids whose effect happened. *)
ApprovedIds == {a[2] : a \in consent}
ActedIds == {a[2] : a \in {b \in Act : Happened(b)}}

(* Some handler or job is about to move the run on. *)
HandlerCarries == \E r \in Requests : reqs[r].pc \in {"read", "write", "load", "add"}
JobCarries == \E j \in Jobs : queue[j].st = "waiting" \/ proc[j].pc = "mark"

(***************************************************************************)
(* No run is forgotten between a handler and the worker: while the row     *)
(* says that the run is about to execute, a request that will enqueue it   *)
(* is in flight or a job that will mark it RUNNING is in the queue.        *)
(***************************************************************************)
NoForgottenRun ==
  run.status \in {"QUEUED", "APPROVED", "PENDING"} => HandlerCarries \/ JobCarries

(***************************************************************************)
(* A run that is shown as RUNNING is being worked on: the status a job     *)
(* writes last is never covered by the RUNNING of a job that already ended.*)
(***************************************************************************)
RunningIsWorkedOn ==
  run.status = "RUNNING" => \E j \in Jobs : proc[j].pc \notin {"none", "mark"}

(***************************************************************************)
(* The output names no step as committed that never had its effect, not    *)
(* even after a stale persistPlan or confirm wrote an old output back.     *)
(***************************************************************************)
CommitsHappened == run.out.commits \subseteq ActedIds

(***************************************************************************)
(* The approval gate: a high-risk step has its effect only after an        *)
(* approval naming its id was accepted, whatever was retried, resumed,     *)
(* approved twice, enqueued or lost in between.                            *)
(***************************************************************************)
HighRiskGated == ActedIds \cap HighRisk \subseteq ApprovedIds

(* The same promise as a specification: the run implements the gate. *)
Gate == INSTANCE ApprovalGate
          WITH Steps <- Step, Risky <- HighRisk, granted <- ApprovedIds, acted <- ActedIds
ImplementsGate == Gate!GateSpec

(***************************************************************************)
(* Why the gate holds: every copy of approved ids, in the row, in a job's  *)
(* payload, in the graph's context and in a handler between its read and   *)
(* its write, was approved; a job stays active while it is processed; and  *)
(* a tool is called for a step of a plan that the graph's copy clears.     *)
(***************************************************************************)
ProcessedIsActive == \A j \in Jobs : proc[j].pc # "none" => queue[j].st = "active"

CallsAreCleared ==
  \A j \in Jobs : proc[j].pc = "call" =>
    proc[j].plan \in Plans /\ proc[j].next \in Step /\ Cleared(j, proc[j].next)

CopiesApproved ==
  /\ run.approved \cap Step \subseteq ApprovedIds
  /\ \A j \in Jobs : (queue[j].approved \cup proc[j].approved) \cap Step \subseteq ApprovedIds
  /\ \A r \in Requests :
       reqs[r].approved \cap Step \subseteq
         IF reqs[r].pc = "approve" THEN {a[2] : a \in reqs[r].seen} ELSE ApprovedIds

GateInv == ProcessedIsActive /\ CallsAreCleared /\ CopiesApproved /\ HighRiskGated

(***************************************************************************)
(* Resuming starts the plan over, yet repeats nothing: with one worker the *)
(* idempotency cache makes every effect happen at most once as long as no  *)
(* entry expires, no process dies and no tool fails after its effect.      *)
(***************************************************************************)
EffectsAtMostOnce == \A a \in Act : ran[a] <= 1

(***************************************************************************)
(* A queued, approved or answered run does reach the worker, and a run     *)
(* shown as RUNNING does get out of it.                                    *)
(***************************************************************************)
Due == run.status \in {"QUEUED", "APPROVED", "PENDING"}
DueReachesWorker == Due ~> ~Due
RunningEnds == run.status = "RUNNING" ~> run.status # "RUNNING"

(***************************************************************************)
(* A run that was created in mode 'auto' and meets no fault: a user who,   *)
(* whenever it waits for approval, approves the whole plan, ends with a    *)
(* run that is DONE and has executed every step of the plan that was       *)
(* shown.  In modes 'approval' and 'scheduled' the run may be resumed      *)
(* without its plan: see ResumedJobHasPlan.                                *)
(***************************************************************************)
UserApproves == WF_vars(\E r \in Requests : \E S \in Approvable : Approve(r, S))
AttentiveSpec == FairSpec /\ UserApproves
WholePlanDone ==
  run.mode = "auto" =>
  <>[](/\ run.status = "DONE"
       /\ shown.plan # NoPlan => \A s \in Step : Happened(<<shown.plan, s>>))

-----------------------------------------------------------------------------
(***************************************************************************)
(* What the repository says of the run and the code does not do.  Each is  *)
(* refuted by a run of its own.                                            *)
(***************************************************************************)

(* docs/approval-flow-architecture.md:24, "Cancels run and prevents        *)
(* execution".                                                             *)
CanceledNeverRuns == [][run.status = "CANCELED" => run'.status # "RUNNING"]_vars

(* docs/approval-flow-architecture.md:295, completed -> approved is an     *)
(* invalid transition, rejected by the backend.                            *)
DoneNeverApproved == [][run.status = "DONE" => run'.status # "APPROVED"]_vars

(* docs/approval-flow-architecture.md:211, on resuming the plan is already *)
(* in initialState.scratch.plan.                                           *)
ResumedJobHasPlan ==
  \A j \in Jobs : proc[j].pc = "exec" /\ proc[j].resume => proc[j].plan # NoPlan

(* docs/step-confirmation-and-queued-execution.md:8, high-risk steps are   *)
(* blocked until the user approves specific plan steps.                    *)
ConsentNamesPlan ==
  \A a \in Act : Happened(a) /\ a[2] \in HighRisk => a \in consent

(* docs/step-confirmation-and-queued-execution.md:133, after the approval  *)
(* the executor resumes, and the run summarizes and completes.             *)
StepwiseApprovalCompletes == <>(run.status = "DONE")
=============================================================================
