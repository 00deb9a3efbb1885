------------------------------ MODULE RunStore ------------------------------
(***************************************************************************)
(* What the API handlers and the queue worker of one run share: the run's  *)
(* row in Postgres, the jobs of the BullMQ queue "runs" that carry it, the *)
(* idempotency cache of the tool registry, and the effects that tools have *)
(* had on the outside world.                                               *)
(*                                                                         *)
(* Every handler and every job is keyed by a run id and touches no other   *)
(* run's row, so one run is modelled; other runs only compete for workers. *)
(*                                                                         *)
(* A plan is an identifier: two calls of the planner may return different  *)
(* plans, and all plans have NSteps steps, executed in order.  A plan's    *)
(* step ids ("step-01", "step-02", ...) do NOT name the plan: the planner  *)
(* numbers every plan from one, so a step id is a member of Step whatever  *)
(* plan it belongs to.  NoPlan stands for a plan with nothing to execute   *)
(* (empty, or only chat.respond).                                          *)
(***************************************************************************)
EXTENDS Integers, FiniteSets

CONSTANTS
  NSteps,       \* how many steps a plan has
  HighRisk,     \* the steps whose tool is registered with risk 'high'
  Plans,        \* the plans the planner may return
  Jobs,         \* job slots of the queue (bounds how many jobs coexist)
  Requests,     \* HTTP requests that may be in flight at the same time
  Workers,      \* how many jobs are processed at the same time
  MaxAttempts,  \* BullMQ 'attempts' of a run job
  Created,      \* the ways the run may have been created
  Ops,          \* the endpoints its user may call
  Approves,     \* which steps an approval may name: "asked", "all", "any"
  Budget,       \* how many requests the user makes (bounds the runs of TLC)
  Faults        \* what may go wrong

NoPlan == 0
NotGiven == -1   \* a job whose scratch has no 'plan' key
NoList == {NotGiven}  \* no approvedSteps list at all, which is not an empty one
Unlimited == -1  \* a Budget that is never used up

Step == 1..NSteps

Statuses == {"QUEUED", "PLANNING", "AWAITING_APPROVAL", "AWAITING_INPUT",
             "SCHEDULED", "APPROVED", "PENDING", "PENDING_APPS_INSTALL",
             "RUNNING", "DONE", "FAILED", "CANCELED"}
Modes == {"preview", "approval", "auto", "scheduled"}
AllOps == {"approve", "cancel", "continue", "confirm", "install", "refresh"}
AllFaults == {"tool", "ambiguous", "llm", "skip", "evict", "queue", "clash", "db", "crash"}

ASSUME StoreAssumption ==
  /\ NSteps \in Nat
  /\ HighRisk \subseteq Step
  /\ Plans \subseteq Nat \ {NoPlan}
  /\ Workers \in Nat \ {0}
  /\ MaxAttempts \in Nat \ {0}
  /\ Created \subseteq Modes \cup {"plan", "plan+missing"}
  /\ Ops \subseteq AllOps
  /\ Budget \in Nat \cup {Unlimited}
  /\ Approves \subseteq {"asked", "all", "any"}
  /\ Faults \subseteq AllFaults

VARIABLES
  run,      \* the row: status, mode, config, plan column, output
  queue,    \* [Jobs -> the job and its payload]
  proc,     \* [Jobs -> what the worker processing the job is doing]
  tasks,    \* persistPlan calls nobody awaits
  reqs,     \* [Requests -> what the handler of the request is doing]
  ran,      \* how often the effect of a step of a plan has happened
  cache,    \* steps of plans whose result the idempotency cache holds (one
            \* per process: with several, "evict" is a look into another one's)
  shown,    \* the plan, and the steps of it, the user was last asked about
  consent,  \* steps of plans the user has approved
  budget    \* requests the user may still make

vars == <<run, queue, proc, tasks, reqs, ran, cache, shown, consent, budget>>

PlanOrNone == Plans \cup {NoPlan}
Act == Plans \X Step
Seen == PlanOrNone \X Step   \* what an approval was given for: NoPlan if no plan was shown
Lists == (SUBSET Step) \cup {NoList}   \* an optional approvedSteps
Many == 2     \* effects are counted 0, 1, Many
Output == [plan : PlanOrNone, commits : SUBSET Step]
NoOutput == [plan |-> NoPlan, commits |-> {}]

Rows == [status : Statuses, mode : Modes, resume : BOOLEAN,
         approved : Lists, plan : PlanOrNone, missing : BOOLEAN,
         out : Output]

(***************************************************************************)
(* A job: "free" slots hold no job.  att is the attempts already made;     *)
(* plan and approved are what the enqueuing handler put into the payload.  *)
(***************************************************************************)
JobRecs == [st : {"free", "waiting", "active"}, att : 0..MaxAttempts,
            stalled : BOOLEAN, plan : PlanOrNone \cup {NotGiven},
            approved : Lists]
NoJob == [st |-> "free", att |-> 0, stalled |-> FALSE, plan |-> NotGiven,
          approved |-> NoList]

(* enqueue: at most MaxAttempts attempts, payload frozen when it is added. *)
NewJob(plan, approved) ==
  [NoJob EXCEPT !.st = "waiting", !.plan = plan, !.approved = approved]

(***************************************************************************)
(* The plan a job starts from: the run's plan column if it has one, else   *)
(* the plan in the payload, else the plan persisted in run.output.scratch. *)
(***************************************************************************)
StartPlan(row, job) ==
  IF row.plan # NoPlan THEN row.plan
  ELSE IF job.plan # NotGiven THEN job.plan
  ELSE row.out.plan

(* Likewise the approved ids: those of the payload, and where it has no    *)
(* list because nothing was approved when it was enqueued, those of the    *)
(* row as the worker reads it.                                             *)
StartApproved(row, job) == IF job.approved # NoList THEN job.approved ELSE row.approved

ProcPcs == {"none", "mark", "plan", "exec", "call", "persist", "settle"}
Outcomes == {"none", "approval", "halt", "done", "fail"}
Procs == [pc : ProcPcs, resume : BOOLEAN, plan : PlanOrNone, approved : Lists,
          next : 1..(NSteps + 1), commits : SUBSET Step, kept : SUBSET Step,
          outcome : Outcomes]
NoProc == [pc |-> "none", resume |-> FALSE, plan |-> NoPlan, approved |-> NoList, next |-> 1,
           commits |-> {}, kept |-> {}, outcome |-> "none"]

Tasks == [pc : {"load", "write"}, plan : PlanOrNone, commits : SUBSET Step]

ReqPcs == {"idle", "approve", "cancel", "read", "write", "rewrite", "reject",
           "toinput", "load", "add"}
Reqs == [pc : ReqPcs, plan : PlanOrNone \cup {NotGiven}, approved : Lists,
         out : Output, seen : SUBSET Seen]
NoReq == [pc |-> "idle", plan |-> NotGiven, approved |-> NoList, out |-> NoOutput,
          seen |-> {}]

Active == {j \in Jobs : queue[j].st = "active"}
Waiting == {j \in Jobs : queue[j].st = "waiting"}

-----------------------------------------------------------------------------
(***************************************************************************)
(* How the run came to be.  createFromPrompt inserts the row with the      *)
(* status of its mode and enqueues the first job (a scheduled run's job is *)
(* delayed, which only postpones its pick-up, and when no date was given   *)
(* there is none); if the enqueue fails the row stays.  createPlanRun      *)
(* inserts a run of mode 'preview' that already has a plan in its column,  *)
(* and enqueues nothing.                                                   *)
(***************************************************************************)
InitialStatus(mode) ==
  CASE mode = "preview"   -> "PLANNING"
    [] mode = "approval"  -> "AWAITING_APPROVAL"
    [] mode = "scheduled" -> "SCHEDULED"
    [] OTHER              -> "QUEUED"

PromptRow(mode) ==
  [status |-> InitialStatus(mode), mode |-> mode, resume |-> FALSE,
   approved |-> {}, plan |-> NoPlan, missing |-> FALSE, out |-> NoOutput]

PlanRow(p, missing) ==
  [status |-> IF missing THEN "AWAITING_INPUT" ELSE "PLANNING",
   mode |-> "preview", resume |-> FALSE, approved |-> NoList, plan |-> p,
   missing |-> missing, out |-> NoOutput]

InitFromPrompt(mode) ==
  /\ run = PromptRow(mode)
  /\ \/ \E j \in Jobs :
          queue = [k \in Jobs |-> IF k = j THEN NewJob(NotGiven, {}) ELSE NoJob]
     \/ /\ "queue" \in Faults \/ mode = "scheduled"
        /\ queue = [k \in Jobs |-> NoJob]
  /\ shown = [plan |-> NoPlan, asked |-> {}]

InitFromPlan(missing) ==
  \E p \in Plans :
    /\ run = PlanRow(p, missing)
    /\ queue = [k \in Jobs |-> NoJob]
    /\ shown = [plan |-> p, asked |-> Step]

Init ==
  /\ \/ \E m \in Created \cap Modes : InitFromPrompt(m)
     \/ "plan" \in Created /\ InitFromPlan(FALSE)
     \/ "plan+missing" \in Created /\ InitFromPlan(TRUE)
  /\ proc = [j \in Jobs |-> NoProc]
  /\ tasks = {}
  /\ reqs = [r \in Requests |-> NoReq]
  /\ ran = [a \in Act |-> 0]
  /\ cache = {}
  /\ consent = {}
  /\ budget = Budget

TypeOK ==
  /\ run \in Rows
  /\ queue \in [Jobs -> JobRecs]
  /\ proc \in [Jobs -> Procs]
  /\ tasks \subseteq Tasks
  /\ reqs \in [Requests -> Reqs]
  /\ ran \in [Act -> 0..Many]
  /\ cache \subseteq Act
  /\ shown \in [plan : PlanOrNone, asked : SUBSET Step]
  /\ consent \subseteq Seen
  /\ budget \in Nat \cup {Unlimited}
=============================================================================
