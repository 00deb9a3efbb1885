--------------------------- MODULE AgentExecutor ---------------------------
(***************************************************************************)
(* The executor node (packages/agent/nodes/executor.ts): it takes the      *)
(* plan's steps off a queue, expands a step over the items of a list that  *)
(* an earlier step found, skips a step whose predecessor found nothing,    *)
(* checks the arguments, stops for an approval, calls the tool, and binds  *)
(* parts of the result to variables for the steps that follow.             *)
(***************************************************************************)
EXTENDS AgentPlan, FiniteSets

CONSTANTS
    MaxItems    \* the longest list a tool returns

ASSUME ExecutorAssumption == MaxItems \in Nat

VARIABLES
    plan,       \* s.scratch.plan
    approved,   \* s.ctx.meta.approvedSteps: numbers of approved steps
    answered,   \* do the user's answers supply the missing values?
    queue,      \* planQueue
    empty,      \* steps whose hasOutput is false
    vars,       \* s.scratch.vars: the size of the list bound to each field
    commits,    \* commits, in the order they are pushed
    calls,      \* the tool calls made: what the outside world saw
    walk        \* idle, walking, done, failed or halted

executorVars == <<plan, approved, answered, queue, empty, vars,
                  commits, calls, walk>>

NotAList == -1
Sizes == {NotAList} \cup 0 .. MaxItems

(* A tool finds nothing (null), one value, or a list in one of its fields. *)
Results == [field : {NoField}, size : {0, 1}] \cup
           [field : Fields, size : 0 .. MaxItems]
ComputeHasOutput(r) == r.size > 0

(* A queued step: a step of the plan, or the child c of one, whose item is *)
(* the c-th of the list (c = -1: no child).                                *)
Entry(step, c, arg) == [n |-> step.n, c |-> c, tool |-> step.tool,
    arg |-> arg, on |-> IF c >= 0 THEN NoField ELSE step.on,
    binds |-> step.binds]
Id(e) == <<e.n, e.c>>
Head1 == queue[1]

(* Mutant: the last item of a list is left out. *)
ExpandButLast(e) ==
    LET size == IF e.on = NoField THEN NotAList ELSE vars[e.on]
    IN  IF size <= 1 THEN <<e>>
        ELSE [i \in 1 .. (size - 1) |-> Entry(e, i - 1, "item")]

ExpandStepForArray(e) ==
    LET size == IF e.on = NoField THEN NotAList ELSE vars[e.on]
    IN  IF size <= 0 THEN <<e>>     \* an empty list runs the step itself
        ELSE [i \in 1 .. size |-> Entry(e, i - 1, "item")]
Current == ExpandStepForArray(Head1)[1]
Many == Len(ExpandStepForArray(Head1)) > 1

(* Mutant: an empty result is not recognised. *)
BlockedNever(e) == plan[e.n].dep < 0

(* Gating looks at the step just before, by its own number. *)
Blocked(e) == plan[e.n].dep \in empty

(* The user's answers are laid over the arguments of every step. *)
Arg(e) == IF answered /\ e.arg \in {"null", "one"} THEN "given" ELSE e.arg
Unresolved(e) == Arg(e) = "one"
(* A chat step is called with whatever it has; "$each.x" left in a text    *)
(* passes a schema of plain strings and fails a stricter one.              *)
MayBeInvalid(e) == e.tool # Chat /\ Arg(e) \in {"null", "each"}
MayBeValid(e) == e.tool = Chat \/ Arg(e) # "null"
(* Mutant: any approval approves every step. *)
ApprovedIfAny(e) == e.tool \notin HighRisk \/ approved # {}
IsApprovedStep(e) == e.tool \notin HighRisk \/ e.n \in approved

(* Ids in the queue are unique, so processedStepIds never holds the head.  *)
Ready == walk = "walking" /\ queue # <<>>
Runnable == Ready /\ ~Many /\ ~Blocked(Current)

Enter(p) ==
    /\ plan' = p
    /\ queue' = [i \in DOMAIN p |-> Entry(p[i], -1, p[i].arg)]
    /\ walk' = "walking"
    /\ empty' = {} /\ commits' = <<>>
    /\ UNCHANGED <<approved, answered, vars, calls>>

(* Mutant: the children wait behind the steps already queued. *)
ExpandAtTheEnd ==
    /\ Ready /\ Many
    /\ queue' = Tail(queue) \o ExpandStepForArray(Head1)
    /\ UNCHANGED <<plan, approved, answered, empty, vars, commits, calls,
                   walk>>

(* The children go to the front; the step itself will not run. *)
Expand ==
    /\ Ready /\ Many
    /\ queue' = ExpandStepForArray(Head1) \o Tail(queue)
    /\ UNCHANGED <<plan, approved, answered, empty, vars, commits, calls,
                   walk>>

(* Mutant: break where the code continues. *)
SkipAllBehind ==
    /\ Ready /\ ~Many /\ Blocked(Current)
    /\ queue' = <<>>
    /\ commits' = Append(commits, [id |-> Id(Current), skipped |-> TRUE])
    /\ UNCHANGED <<plan, approved, answered, empty, vars, calls, walk>>

SkipBlocked ==
    /\ Ready /\ ~Many /\ Blocked(Current)
    /\ queue' = Tail(queue)
    /\ commits' = Append(commits, [id |-> Id(Current), skipped |-> TRUE])
    /\ UNCHANGED <<plan, approved, answered, empty, vars, calls, walk>>

(* E_ARGS_UNRESOLVED, E_ARGS_INVALID *)
RefuseArgs ==
    /\ Runnable
    /\ Unresolved(Current) \/ MayBeInvalid(Current)
    /\ walk' = "failed"
    /\ UNCHANGED <<plan, approved, answered, queue, empty, vars,
                   commits, calls>>

Callable == Runnable /\ ~Unresolved(Current) /\ MayBeValid(Current)

HaltForApproval ==
    /\ Callable /\ ~IsApprovedStep(Current)
    /\ walk' = "halted"
    /\ UNCHANGED <<plan, approved, answered, queue, empty, vars,
                   commits, calls>>

Call(e, r) == [id |-> Id(e), tool |-> e.tool, raw |-> e.arg = "each",
               field |-> r.field, found |-> r.size]

(* The tool answers: commit, hasOutput of the step (a child's overwrites   *)
(* its siblings'), and each bound variable, undefined when the result has  *)
(* no such field.  A chat step answers with text.                          *)
CallSucceeds(r) ==
    /\ Callable /\ IsApprovedStep(Current)
    /\ Current.tool = Chat => r = [field |-> NoField, size |-> 1]
    /\ queue' = Tail(queue)
    /\ commits' = Append(commits, [id |-> Id(Current), skipped |-> FALSE])
    /\ empty' = IF ComputeHasOutput(r) THEN empty \ {Current.n}
                ELSE empty \cup {Current.n}
    /\ vars' = [f \in Fields |->
                   IF f \notin Current.binds THEN vars[f]
                   ELSE IF f = r.field THEN r.size ELSE NotAList]
    /\ calls' = Append(calls, Call(Current, r))
    /\ UNCHANGED <<plan, approved, answered, walk>>

(* Retries are used up, or the error is not one to retry. *)
CallFails ==
    /\ Callable /\ IsApprovedStep(Current)
    /\ calls' = Append(calls, Call(Current, [field |-> NoField, size |-> NotAList]))
    /\ walk' = "failed"
    /\ UNCHANGED <<plan, approved, answered, queue, empty, vars,
                   commits>>

Finish ==
    /\ walk = "walking" /\ queue = <<>>
    /\ walk' = "done"
    /\ UNCHANGED <<plan, approved, answered, queue, empty, vars,
                   commits, calls>>

Execute ==
    \/ Expand \/ SkipBlocked \/ RefuseArgs
    \/ HaltForApproval \/ CallFails \/ Finish
    \/ \E r \in Results : CallSucceeds(r)
=============================================================================
