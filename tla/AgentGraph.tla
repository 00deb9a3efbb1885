----------------------------- MODULE AgentGraph -----------------------------
(***************************************************************************)
(* The agent's graph (packages/agent/buildMainGraph.ts run by              *)
(* runtime/graph.ts): extract the goal, plan, confirm, execute, summarise  *)
(* or fall back.  A fresh run enters at extractGoal, a resumed one at the  *)
(* executor with its stored plan, and the plan endpoint runs the first two *)
(* nodes only.  safeNode turns an error of a node into state.error.        *)
(***************************************************************************)
EXTENDS AgentExecutor

CONSTANTS
    Drafts,     \* the drafts the language model may return (<<>>: none)
    Approvals   \* the sets of step numbers a user may have approved

ASSUME GraphAssumption ==
    Drafts \subseteq Seq(DraftStep) /\ Approvals \subseteq SUBSET Nat

VARIABLES
    node,       \* the node the graph is at, END, or thrown when run() throws
    entry,      \* extractGoal, executor, or planOnly
    mode,       \* s.mode
    gated,      \* are approvals and the team policy switched on?
    goal,       \* s.scratch.goal
    err,        \* s.error
    halted,     \* the error that stopped the graph asks for an approval
    asked,      \* output.diff says status 'awaiting_input'
    said        \* what the output holds: nothing, summary or fallback

graphVars == <<node, entry, mode, gated, goal, err, halted, asked, said>>
vars_ == <<executorVars, graphVars>>

NoGoal == [ask |-> "question", confident |-> FALSE, provided |-> FALSE]

Init ==
    /\ entry \in {"extractGoal", "executor", "planOnly"}
    /\ node = IF entry = "executor" THEN "executor" ELSE "extractGoal"
    /\ mode \in {"PREVIEW", "APPROVAL", "AUTO"}
    /\ gated \in BOOLEAN
    /\ answered \in BOOLEAN
    /\ approved \in IF entry = "executor" THEN Approvals ELSE {{}}
    /\ goal = NoGoal /\ err = FALSE /\ halted = FALSE /\ asked = FALSE
    /\ said = "nothing"
    /\ plan = <<>> /\ queue = <<>> /\ empty = {}
    /\ vars = [f \in Fields |-> NotAList]
    /\ commits = <<>> /\ calls = <<>> /\ walk = "idle"

(* An empty prompt is a goal without confidence; a failed extraction is    *)
(* one at the threshold, which still counts as confident.                  *)
ExtractGoal ==
    /\ node = "extractGoal"
    /\ goal' \in Goals
    /\ goal'.provided => goal'.ask \in {"send email", "draft email"}
    /\ node' = "planner"
    /\ UNCHANGED <<executorVars, entry, mode, gated, err, halted, asked, said>>

(* The plan endpoint calls the first two nodes itself. *)
PlanOnly == entry = "planOnly"

(* Mutants: APPROVAL mode acts; a plan to look at is planned again. *)
ActsInApproval(p) ==
    IF entry = "planOnly" THEN "END"
    ELSE IF OnlyChat(p) THEN "confirm"
    ELSE IF mode = "PREVIEW" THEN "END" ELSE "confirm"
PlansAgain(p) ==
    IF entry = "planOnly" THEN "END"
    ELSE IF OnlyChat(p) THEN "confirm"
    ELSE IF mode \in {"PREVIEW", "APPROVAL"} THEN "planner" ELSE "confirm"

(* What a language model, or a look at empty arguments, finds missing.     *)
MissingInputs == IF goal.confident THEN BOOLEAN ELSE {FALSE}

(* The planner never fails, but asks for what it finds missing in words    *)
(* only: its answer carries status awaiting_input, and the router looks at *)
(* a list that goal extraction no longer fills, so the plan goes on.       *)
NodeAfterPlanner(p) ==
    IF PlanOnly THEN "END"
    ELSE IF OnlyChat(p) THEN "confirm"
    ELSE IF mode \in {"PREVIEW", "APPROVAL"} THEN "END" ELSE "confirm"

Planner ==
    /\ node = "planner"
    /\ \E draft \in Drafts : plan' = MakePlan(goal, draft)
    /\ asked' \in MissingInputs
    /\ node' = NodeAfterPlanner(plan')
    /\ UNCHANGED <<approved, answered, queue, empty, vars, commits,
                   calls, walk, entry, mode, gated, goal, err, halted, said>>

(* needsApproval: some step other than chat has a high risk. *)
NeedsApproval ==
    gated /\ \E i \in DOMAIN plan : plan[i].tool \in HighRisk
Pending == {i \in DOMAIN plan : i \notin approved}

Confirm ==
    /\ node = "confirm"
    /\ IF NeedsApproval /\ Pending # {}
       THEN /\ node' = "thrown" /\ halted' = TRUE
            /\ UNCHANGED executorVars
       ELSE /\ node' = "executor"
            /\ Enter(plan)
            /\ UNCHANGED halted
    /\ UNCHANGED <<entry, mode, gated, goal, err, asked, said>>

(* A resumed run executes the plan it stored, whatever goal it came from,  *)
(* or none when the stored one was lost.                                   *)
StoredPlans == {<<>>} \cup {MakePlan(g, draft) : g \in Goals, draft \in Drafts}
Resume ==
    /\ node = "executor" /\ walk = "idle"
    /\ \E p \in StoredPlans : Enter(p)
    /\ UNCHANGED graphVars

(* The executor node, one step of its queue at a time. *)
Executor == node = "executor" /\ Execute /\ UNCHANGED graphVars

(* safeNode catches an error and names it in the state; a halt passes      *)
(* through and leaves the graph.                                           *)
SafeNode == IF walk = "halted" THEN "thrown" ELSE "fallback"

(* The executor returns its commits, or ends as safeNode has it. *)
LeaveExecutor ==
    /\ node = "executor" /\ walk \in {"done", "failed", "halted"}
    /\ err' = (walk # "done")
    /\ halted' = (walk = "halted")
    /\ node' = IF walk # "done" THEN SafeNode
               ELSE IF OnlyChat(plan) THEN "END" ELSE "summarize"
    /\ UNCHANGED <<executorVars, entry, mode, gated, goal, asked, said>>

(* summarize is not wrapped by safeNode: when the model fails, run() throws. *)
Summarize ==
    /\ node = "summarize"
    /\ \/ node' = "END" /\ said' = "summary"
       \/ node' = "thrown" /\ UNCHANGED said
    /\ UNCHANGED <<executorVars, entry, mode, gated, goal, err, halted, asked>>

Fallback ==
    /\ node = "fallback"
    /\ node' = "END" /\ said' = "fallback"
    /\ UNCHANGED <<executorVars, entry, mode, gated, goal, err, halted, asked>>

Ended == node \in {"END", "thrown"}
Stay == Ended /\ UNCHANGED vars_

Step == \/ ExtractGoal \/ Planner \/ Confirm \/ Resume \/ Executor
        \/ LeaveExecutor \/ Summarize \/ Fallback
Next == Step \/ Stay

(* One promise chain runs the graph, every call in it has a time limit.    *)
Spec == Init /\ [][Next]_vars_ /\ WF_vars_(Step)
-----------------------------------------------------------------------------
(* The graph's records keep their types. *)
TypeOK ==
    /\ plan \in Seq(PlanStep)
    /\ node \in {"extractGoal", "planner", "confirm", "executor", "summarize",
                 "fallback", "END", "thrown"}
    /\ vars \in [Fields -> Sizes]
    /\ empty \subseteq DOMAIN plan
    /\ walk \in {"idle", "walking", "done", "failed", "halted"}

(* A run that must not act yet, in PREVIEW or APPROVAL mode or asked only  *)
(* for a plan, calls no tool but chat, whatever the model drafts           *)
(* (buildMainGraph.ts, the planner's router).                              *)
PlansBeforeActing ==
    entry # "executor" /\ (entry = "planOnly" \/ mode # "AUTO") =>
        \A i \in DOMAIN calls : calls[i].tool = Chat

(* A high-risk tool is called only for a step whose number was approved;   *)
(* a child of an expansion stands under its step's approval and no other   *)
(* (executor.ts isApprovedStep).                                           *)
RiskIsApproved ==
    \A i \in DOMAIN calls :
        calls[i].tool \in HighRisk => calls[i].id[1] \in approved

(* Commits are pushed in the plan's order, the children of a step in their *)
(* list's order and before any later step, no id twice, although steps are *)
(* put in front of a queue that is being worked on (executor.ts planQueue).*)
Before(a, b) == a[1] < b[1] \/ (a[1] = b[1] /\ a[2] < b[2])
CommitsInOrder ==
    \A i, j \in DOMAIN commits : i < j => Before(commits[i].id, commits[j].id)

(* When the executor returns normally every step of the plan is accounted  *)
(* for: one commit of its own, or, if the last earlier call that binds its *)
(* variable found a list, one for each item with none left out.            *)
CommitsOf(n) == {commits[i].id[2] : i \in {j \in DOMAIN commits :
                                              commits[j].id[1] = n}}
Binders(n) == {i \in DOMAIN calls :
    calls[i].id[1] < n /\ plan[n].on \in plan[calls[i].id[1]].binds}
Children(n) ==
    LET last == calls[CHOOSE i \in Binders(n) : \A j \in Binders(n) : j <= i]
    IN  IF Binders(n) = {} \/ last.field # plan[n].on \/ last.found <= 0
        THEN {-1} ELSE 0 .. (last.found - 1)
EveryStepAccounted ==
    walk = "done" => \A n \in DOMAIN plan : CommitsOf(n) = Children(n)

(* No tool is called for a step when the last call of the step before it   *)
(* found nothing (executor.ts, dependency gating); a skipped step makes no *)
(* call and so does not count.                                             *)
LastFoundOf(cs, n, i) ==
    LET past == {j \in 1 .. (i - 1) : cs[j].id[1] = n}
    IN  IF past = {} THEN 1
        ELSE cs[CHOOSE j \in past : \A k \in past : k <= j].found
NothingFoundNothingDone ==
    \A i \in DOMAIN calls :
        calls[i].id[1] > 1 => LastFoundOf(calls, calls[i].id[1] - 1, i) > 0

(* However many steps expand, the graph comes to an end. *)
Terminates == <>Ended

(* The executor walks the plan as StepWalk says: behind it are the steps   *)
(* before the one at the head of the queue, whose children may be queued   *)
(* too.                                                                    *)
Walk == INSTANCE StepWalk WITH
            size <- IF walk = "idle" THEN 0 ELSE Len(plan),
            behind <- IF walk = "idle" THEN 0
                      ELSE IF queue = <<>> THEN Len(plan) ELSE Head1.n - 1,
            outcome <- walk
WalksThePlan == Walk!Spec

(* -- documented, and not so ---------------------------------------------- *)

(* docs/executor-runtime.md: unresolved placeholders are an error, so no   *)
(* tool is called with the text of one.                                    *)
NoRawTemplate == \A i \in DOMAIN calls : ~calls[i].raw

(* packages/agent/README.md: the graph pauses when input is missing.       *)
MissingInputPauses == asked /\ ~answered => calls = <<>>
=============================================================================
