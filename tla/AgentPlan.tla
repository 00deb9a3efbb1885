------------------------------ MODULE AgentPlan ------------------------------
(***************************************************************************)
(* The plan the agent runs: what the planner makes of the draft a language *)
(* model returns (packages/agent/nodes/planner.ts), and how references to  *)
(* an earlier step's list become an expansion over a bound variable        *)
(* (nodes/executor/planNormalize.ts).  A pure module: no state.            *)
(*                                                                         *)
(* A draft step is [tool, arg, ref, field].  "arg" says how the model      *)
(* filled the arguments:                                                   *)
(*   given  values that pass the tool's schema                             *)
(*   null   a required value left empty                                    *)
(*   bad    values of the wrong type                                       *)
(*   list   "$step-ref.field[*].x", one call for each item of a list       *)
(*   one    "$step-ref.field", one value of an earlier result              *)
(***************************************************************************)
EXTENDS Integers, Sequences

CONSTANTS
    Tools,      \* the registered tools other than chat.respond
    HighRisk,   \* those of them registered with risk 'high'
    SendTool,   \* email.send
    DraftTool,  \* email.draft.create
    Fields      \* names of result fields

Chat == "chat.respond"
NoField == "none"

ASSUME PlanAssumption ==
    /\ HighRisk \subseteq Tools /\ {SendTool, DraftTool} \subseteq Tools
    /\ NoField \notin Fields

Args == {"given", "null", "bad", "list", "one"}
OnlyChat(plan) ==
    plan # <<>> /\ \A i \in DOMAIN plan : plan[i].tool = Chat

(* What the planner reads of the extracted goal: what its words ask for,   *)
(* whether the extraction was confident, whether it provided the values.   *)
Asks == {"send email", "draft email", "other action", "question"}
Goals == [ask : Asks, confident : BOOLEAN, provided : BOOLEAN]

DraftStep == [tool : Tools \cup {Chat, "unknown"}, arg : Args, ref : Nat,
              field : Fields]
PlanStep == [n : Nat, tool : Tools \cup {Chat},
             arg : {"given", "null", "one", "each"}, dep : Nat,
             on : Fields \cup {NoField}, binds : SUBSET Fields]

(* Mutant: a list reference keeps its text. *)
NormalizeKeepsList(steps) ==
    [i \in DOMAIN steps |->
        [n |-> i, tool |-> steps[i].tool, dep |-> steps[i].dep,
         arg |-> steps[i].arg, on |-> NoField, binds |-> {}]]

(* finalizeSteps numbers the steps that are left, so that a reference      *)
(* counted in the draft's numbering may now mean another step; each step   *)
(* depends on the one before it (dep = 0: on none).                        *)
FinalizeSteps(steps) ==
    [i \in DOMAIN steps |->
        [n |-> i, dep |-> i - 1, tool |-> steps[i].tool, arg |-> steps[i].arg,
         ref |-> steps[i].ref, field |-> steps[i].field]]

(* A step that refers to a list of a step of the plan expands over a       *)
(* variable named after the list's field, which the producer binds.  When  *)
(* the plan has no such step the text "$each.x" is all that is left.  A    *)
(* reference to one value makes the producer bind it, but the reference    *)
(* itself stays: the pattern meant to replace it ends in a backspace, the  *)
(* \b of a template literal, and matches nothing.                          *)
NormalizePlanToExplicitExpansion(steps) ==
    LET producer(i) == steps[i].ref \in DOMAIN steps
    IN  [i \in DOMAIN steps |->
          [n |-> i, tool |-> steps[i].tool, dep |-> steps[i].dep,
           arg |-> IF steps[i].arg = "list" THEN "each" ELSE steps[i].arg,
           on |-> IF steps[i].arg = "list" /\ producer(i)
                  THEN steps[i].field ELSE NoField,
           binds |-> {steps[j].field : j \in {k \in DOMAIN steps :
                          steps[k].arg \in {"list", "one"}
                          /\ steps[k].ref = i}}]]

(* The plan schema refuses a draft that names an unknown tool, all of it.  *)
ParsePlan(draft) ==
    IF \E i \in DOMAIN draft : draft[i].tool \notin Tools \cup {Chat}
    THEN <<>> ELSE draft

(* The steps whose arguments pass the tool's schema, or all they lack is a *)
(* value.                                                                  *)
ValidArgs(d) == d.arg # "bad"
Kept(steps) ==
    LET upTo[i \in 0 .. Len(steps)] ==
            IF i = 0 THEN <<>>
            ELSE IF ValidArgs(steps[i]) THEN Append(upTo[i - 1], steps[i])
            ELSE upTo[i - 1]
    IN  upTo[Len(steps)]

(* A plan that only talks is rejected for a goal that asks for an action,  *)
(* and steps whose arguments fail their tool's schema are dropped, unless  *)
(* a value is just missing.                                                *)
PatchAndHardenPlan(ask, draft) ==
    LET steps == IF ask # "question" /\ OnlyChat(draft) THEN <<>> ELSE draft
    IN  NormalizePlanToExplicitExpansion(FinalizeSteps(Kept(steps)))

(* A plan of one step on no other, as the planner writes them itself. *)
OneStep(tool, arg) ==
    <<[n |-> 1, tool |-> tool, dep |-> 0, arg |-> arg, on |-> NoField,
       binds |-> {}]>>

(* With no step left the planner falls back on the words of the goal: an   *)
(* e-mail to send or to draft, its fields empty unless the goal provided   *)
(* them, else an answer in chat.                                           *)
InferredPlan(goal) ==
    LET arg == IF goal.provided THEN "given" ELSE "null"
    IN  IF goal.ask = "send email" THEN OneStep(SendTool, arg)
        ELSE IF goal.ask = "draft email" THEN OneStep(DraftTool, arg)
        ELSE OneStep(Chat, "given")

(* The whole planner: a goal below the confidence threshold is answered in *)
(* chat; "draft" is <<>> when the model's answer did not arrive or parse.  *)
MakePlan(goal, draft) ==
    IF ~goal.confident THEN OneStep(Chat, "given")
    ELSE LET hardened == PatchAndHardenPlan(goal.ask, ParsePlan(draft))
         IN  IF hardened = <<>> THEN InferredPlan(goal) ELSE hardened
=============================================================================
