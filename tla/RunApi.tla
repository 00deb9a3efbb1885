------------------------------- MODULE RunApi -------------------------------
(***************************************************************************)
(* The endpoints of RunsController that change a run, as RunsService       *)
(* carries them out.  A handler is split where it awaits the database or   *)
(* the queue: other handlers and the worker run in between, and nothing in *)
(* the code locks the row or re-checks what was read.  A request the       *)
(* handler refuses (wrong status, invalid answers) and that writes nothing *)
(* is no step.                                                             *)
(***************************************************************************)
EXTENDS RunStore

Cancelable == {"PLANNING", "QUEUED", "SCHEDULED", "AWAITING_APPROVAL", "APPROVED"}

(* Which step ids an approve call may carry. *)
Approvable ==
  {S \in SUBSET Step : \/ "any" \in Approves
                       \/ "all" \in Approves /\ S = Step
                       \/ "asked" \in Approves /\ S = shown.asked}

(* A free connection on which the user may send one more request. *)
Idle(r, op) ==
  /\ op \in Ops
  /\ reqs[r].pc = "idle"
  /\ budget # 0
  /\ budget' = IF budget = Unlimited THEN budget ELSE budget - 1

worldUnchanged == UNCHANGED <<proc, tasks, ran, cache, shown>>

-----------------------------------------------------------------------------
(* approveSteps: the status check and the plan that will be resumed both   *)
(* come from one read; config and status are then written in one update,   *)
(* approvedSteps replacing whatever was approved before.                   *)
Approve(r, S) ==
  /\ Idle(r, "approve")
  /\ run.status = "AWAITING_APPROVAL"
  /\ reqs' = [reqs EXCEPT ![r] =
       [NoReq EXCEPT !.pc = "approve", !.approved = S,
          !.plan = IF run.out.plan = NoPlan THEN NotGiven ELSE run.out.plan,
          !.seen = {shown.plan} \X S]]
  /\ UNCHANGED <<run, queue, consent>> /\ worldUnchanged

(* A defect: the status is written, but the controller never enqueues.     *)
ApproveWithoutEnqueue(r) ==
  /\ reqs[r].pc = "approve"
  /\ run' = [run EXCEPT !.status = "APPROVED", !.resume = TRUE,
                        !.approved = reqs[r].approved]
  /\ consent' = consent \cup reqs[r].seen
  /\ reqs' = [reqs EXCEPT ![r] = NoReq]
  /\ UNCHANGED <<queue, budget>> /\ worldUnchanged

ApproveWrite(r) ==
  /\ reqs[r].pc = "approve"
  /\ run' = [run EXCEPT !.status = "APPROVED", !.resume = TRUE,
                        !.approved = reqs[r].approved]
  /\ consent' = consent \cup reqs[r].seen
  /\ reqs' = [reqs EXCEPT ![r] = [NoReq EXCEPT !.pc = "load", !.plan = reqs[r].plan]]
  /\ UNCHANGED <<queue, budget>> /\ worldUnchanged

(* cancel: a read-time check, then an unconditional write.  The job that   *)
(* carries the run stays in the queue.                                     *)
Cancel(r) ==
  /\ Idle(r, "cancel")
  /\ run.status \in Cancelable
  /\ reqs' = [reqs EXCEPT ![r] = [NoReq EXCEPT !.pc = "cancel"]]
  /\ UNCHANGED <<run, queue, consent>> /\ worldUnchanged

CancelWrite(r) ==
  /\ reqs[r].pc = "cancel"
  /\ run' = [run EXCEPT !.status = "CANCELED"]
  /\ reqs' = [reqs EXCEPT ![r] = NoReq]
  /\ UNCHANGED <<queue, consent, budget>> /\ worldUnchanged

-----------------------------------------------------------------------------
(* continueWithAnswers: no status check.  Without answers, or with all the *)
(* required ones (storeAnswers, which also writes status PENDING), it goes *)
(* on to executePlanWithAnswers.                                           *)
Continue(r, answers) ==
  /\ Idle(r, "continue")
  /\ run' = IF answers THEN [run EXCEPT !.status = "PENDING"] ELSE run
  /\ reqs' = [reqs EXCEPT ![r] = [NoReq EXCEPT !.pc = "read"]]
  /\ UNCHANGED <<queue, consent>> /\ worldUnchanged

(* executePlanWithAnswers: the payload's plan is the plan column ([] when  *)
(* there is none), and config is rewritten from the copy it read.          *)
ExecuteRead(r) ==
  /\ reqs[r].pc = "read"
  /\ reqs' = [reqs EXCEPT ![r] =
       [NoReq EXCEPT !.pc = "write", !.plan = run.plan, !.approved = run.approved]]
  /\ UNCHANGED <<run, queue, consent, budget>> /\ worldUnchanged

ExecuteWrite(r) ==
  /\ reqs[r].pc = "write"
  /\ run' = [run EXCEPT !.status = "PENDING", !.resume = TRUE,
                        !.approved = reqs[r].approved]
  /\ reqs' = [reqs EXCEPT ![r] = [NoReq EXCEPT !.pc = "load", !.plan = reqs[r].plan]]
  /\ UNCHANGED <<queue, consent, budget>> /\ worldUnchanged

(* confirm: no status check either.  Valid answers or not, run.output is   *)
(* read and written back with the answers or the errors added; valid ones  *)
(* enqueue the run again, without a plan in the payload.                   *)
Confirm(r, valid) ==
  /\ Idle(r, "confirm")
  /\ reqs' = [reqs EXCEPT ![r] =
       [NoReq EXCEPT !.pc = IF valid THEN "rewrite" ELSE "reject", !.out = run.out]]
  /\ UNCHANGED <<run, queue, consent>> /\ worldUnchanged

ConfirmWrite(r) ==
  /\ reqs[r].pc \in {"rewrite", "reject"}
  /\ run' = [run EXCEPT !.out = reqs[r].out]
  /\ reqs' = [reqs EXCEPT ![r] =
       IF reqs[r].pc = "rewrite" THEN [NoReq EXCEPT !.pc = "load"] ELSE NoReq]
  /\ UNCHANGED <<queue, consent, budget>> /\ worldUnchanged

-----------------------------------------------------------------------------
(* setPendingAppsInstall writes the status whatever it was. *)
Install(r) ==
  /\ Idle(r, "install")
  /\ run' = [run EXCEPT !.status = "PENDING_APPS_INSTALL"]
  /\ UNCHANGED <<queue, reqs, consent>> /\ worldUnchanged

(* refreshRunCredentials, once every step of the run has a credential: a   *)
(* run that waits for apps is asked for input if run.missing is not empty, *)
(* and executed otherwise.                                                 *)
Refresh(r) ==
  /\ Idle(r, "refresh")
  /\ run.status = "PENDING_APPS_INSTALL"
  /\ reqs' = [reqs EXCEPT ![r] =
       [NoReq EXCEPT !.pc = IF run.missing THEN "toinput" ELSE "read"]]
  /\ UNCHANGED <<run, queue, consent>> /\ worldUnchanged

RefreshWrite(r) ==
  /\ reqs[r].pc = "toinput"
  /\ run' = [run EXCEPT !.status = "AWAITING_INPUT"]
  /\ reqs' = [reqs EXCEPT ![r] = NoReq]
  /\ UNCHANGED <<queue, consent, budget>> /\ worldUnchanged

-----------------------------------------------------------------------------
(* A defect: a job that resumes a run counts every step as approved.       *)
LoadAllOnResume(r) ==
  /\ reqs[r].pc = "load"
  /\ reqs' = [reqs EXCEPT ![r] =
       [@ EXCEPT !.pc = "add", !.approved = IF run.resume THEN Step ELSE run.approved]]
  /\ UNCHANGED <<run, queue, consent, budget>> /\ worldUnchanged

(* enqueue, first half: read the row again and put its approvedSteps into  *)
(* the job's meta.                                                         *)
Load(r) ==
  /\ reqs[r].pc = "load"
  /\ reqs' = [reqs EXCEPT ![r] = [@ EXCEPT !.pc = "add", !.approved = run.approved]]
  /\ UNCHANGED <<run, queue, consent, budget>> /\ worldUnchanged

(* enqueue, second half: add the job.  Redis may refuse it (the request    *)
(* fails, what it wrote stays); and the job id is run + mode + the current *)
(* millisecond, so a job added in the same millisecond as another one of   *)
(* this run is silently dropped by BullMQ.                                 *)
Add(r) ==
  /\ reqs[r].pc = "add"
  /\ \/ \E j \in Jobs : /\ queue[j].st = "free"
                        /\ queue' = [queue EXCEPT ![j] = NewJob(reqs[r].plan, reqs[r].approved)]
     \/ "queue" \in Faults /\ UNCHANGED queue
     \/ "clash" \in Faults /\ Waiting # {} /\ UNCHANGED queue
  /\ reqs' = [reqs EXCEPT ![r] = NoReq]
  /\ UNCHANGED <<run, consent, budget>> /\ worldUnchanged

(* What a request in flight does next: the server needs no more input.     *)
Proceed(r) ==
  \/ ApproveWrite(r) \/ CancelWrite(r)
  \/ ExecuteRead(r) \/ ExecuteWrite(r) \/ ConfirmWrite(r) \/ RefreshWrite(r)
  \/ Load(r) \/ Add(r)

(* What the user may ask for. *)
Ask(r) ==
  \/ \E S \in Approvable : Approve(r, S)
  \/ \E b \in BOOLEAN : Continue(r, b) \/ Confirm(r, b)
  \/ Cancel(r) \/ Install(r) \/ Refresh(r)
=============================================================================
