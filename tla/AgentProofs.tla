---------------------------- MODULE AgentProofs ----------------------------
(***************************************************************************)
(* What holds of the agent's graph for all tools, drafts, list lengths and *)
(* approvals, with proofs for TLAPS.                                       *)
(***************************************************************************)
EXTENDS AgentGraph, SequenceTheorems, FiniteSetTheorems, TLAPS

-----------------------------------------------------------------------------
(* -- the invariant -------------------------------------------------------- *)

EntryType == [n : Nat, c : Int, tool : Tools \cup {Chat},
              arg : {"given", "null", "one", "each", "item"},
              on : Fields \cup {NoField}, binds : SUBSET Fields]
CallType == [id : Nat \X Int, tool : Tools \cup {Chat}, raw : BOOLEAN,
             field : Fields \cup {NoField}, found : Int]
CommitType == [id : Nat \X Int, skipped : BOOLEAN]

(* The planner numbers its steps and makes each depend on the one before.  *)
Numbered(p) == \A i \in DOMAIN p : p[i].n = i /\ p[i].dep = i - 1

(* What is queued stands for a step of the plan, and a child expands into  *)
(* nothing more.                                                           *)
QueueOfPlan ==
  \A i \in DOMAIN queue :
    /\ queue[i].n \in DOMAIN plan /\ queue[i].c >= -1
    /\ queue[i].c >= 0 => queue[i].on = NoField

TypeInv ==
  /\ TypeOK /\ Numbered(plan)
  /\ queue \in Seq(EntryType) /\ QueueOfPlan
  /\ calls \in Seq(CallType) /\ commits \in Seq(CommitType)
  /\ goal \in Goals

(* Before the executor is entered nothing is queued, called or committed;  *)
(* only a resumed run reaches it without passing through confirm.          *)
PhaseInv ==
  /\ node \in {"extractGoal", "planner", "confirm"} => walk = "idle"
  /\ walk = "idle" => /\ queue = <<>> /\ calls = <<>> /\ commits = <<>>
                      /\ empty = {}
  /\ node = "executor" /\ walk = "idle" => entry = "executor"

-----------------------------------------------------------------------------
(* -- induction ------------------------------------------------------------ *)

(***************************************************************************)
(* The library's induction theorems take a predicate as a parameter, which *)
(* the provers at hand cannot give them.  That strict inclusion of finite  *)
(* sets is well-founded takes none, and {0, ..., n - 1} grows with n.      *)
(***************************************************************************)
LEMMA Least ==
  ASSUME NEW T, T \subseteq Nat, T # {}
  PROVE  \E n \in T : \A m \in T : n <= m
<1> DEFINE U == {0 .. (n - 1) : n \in T}
           R == StrictSubsetOrdering(Nat)
<1>1. IsWellFoundedOn(R, FiniteSubsetsOf(Nat))
  BY FS_StrictSubsetOrderingWellFounded
<1>2. \A n \in Nat : 0 .. (n - 1) \subseteq Nat /\ IsFiniteSet(0 .. (n - 1))
  BY FS_Interval
<1>3. U \subseteq FiniteSubsetsOf(Nat) /\ U # {}
  BY <1>2 DEF FiniteSubsetsOf
<1> HIDE DEF R
<1>4. PICK x \in U : \A y \in U : <<y, x>> \notin R
  <2> HIDE DEF U
  <2>1. QED
    BY <1>1, <1>3, WFMin
<1>5. PICK n \in T : x = 0 .. (n - 1)
  OBVIOUS
<1>6. ASSUME NEW m \in T, m < n PROVE FALSE
  <2>1. m \in Nat /\ n \in Nat
    OBVIOUS
  <2>2. 0 .. (m - 1) \subseteq 0 .. (n - 1) /\ m \in 0 .. (n - 1) /\ m \notin 0 .. (m - 1)
    BY <1>6, <2>1
  <2>3. <<0 .. (m - 1), x>> \in R
    BY <1>5, <2>1, <2>2 DEF R, StrictSubsetOrdering
  <2>4. QED
    BY <1>4, <1>6, <2>3
<1>7. QED
  BY <1>6

(* So induction is a statement about the set of numbers that comply.       *)
LEMMA Induct ==
  ASSUME NEW S, 0 \in S, \A n \in Nat : n \in S => n + 1 \in S
  PROVE  Nat \subseteq S
<1> SUFFICES ASSUME Nat \ S # {} PROVE FALSE
  OBVIOUS
<1>1. PICK n \in Nat \ S : \A m \in Nat \ S : n <= m
  BY Least
<1>2. n - 1 \in Nat /\ n - 1 \in S
  BY <1>1
<1>3. QED
  BY <1>1, <1>2

-----------------------------------------------------------------------------
(* -- the planner ---------------------------------------------------------- *)

(* The plans the planner writes itself are plans, numbered as all are.     *)
LEMMA OneStepType ==
  ASSUME NEW tool \in Tools \cup {Chat}, NEW arg \in {"given", "null"}
  PROVE  OneStep(tool, arg) \in Seq(PlanStep) /\ Numbered(OneStep(tool, arg))
<1> DEFINE s == [n |-> 1, tool |-> tool, dep |-> 0, arg |-> arg,
                 on |-> NoField, binds |-> {}]
<1>1. s \in PlanStep
  BY DEF PlanStep
<1>2. OneStep(tool, arg) = <<s>>
  BY DEF OneStep
<1> HIDE DEF s
<1>3. <<s>> \in Seq(PlanStep) /\ DOMAIN <<s>> = {1} /\ <<s>>[1] = s
  BY <1>1
<1>4. s.n = 1 /\ s.dep = 0
  BY DEF s
<1>5. QED
  BY <1>2, <1>3, <1>4 DEF Numbered

(* What the recursion of Kept asks of a function.                          *)
Filters(steps, f, n) ==
  f = [i \in 0 .. n |-> IF i = 0 THEN <<>>
                        ELSE IF ValidArgs(steps[i]) THEN Append(f[i - 1], steps[i])
                        ELSE f[i - 1]]

(* There is such a function for every length.                              *)
LEMMA FilterExists ==
  ASSUME NEW steps, NEW k \in Nat
  PROVE  \E f : Filters(steps, f, k)
<1> DEFINE S == {n \in Nat : \E f : Filters(steps, f, n)}
<1>1. 0 \in S
  <2> DEFINE f == [i \in 0 .. 0 |-> <<>>]
  <2>1. Filters(steps, f, 0)
    BY DEF Filters
  <2>2. QED
    BY <2>1
<1>2. ASSUME NEW n \in Nat, n \in S PROVE n + 1 \in S
  <2>1. PICK f : Filters(steps, f, n)
    BY <1>2
  <2> DEFINE x == IF ValidArgs(steps[n + 1]) THEN Append(f[n], steps[n + 1]) ELSE f[n]
             g == [i \in 0 .. (n + 1) |-> IF i = n + 1 THEN x ELSE f[i]]
  <2>2. g[n + 1] = x /\ \A i \in 0 .. n : g[i] = f[i]
    OBVIOUS
  <2>3. \A i \in 0 .. n : f[i] = IF i = 0 THEN <<>>
                                 ELSE IF ValidArgs(steps[i]) THEN Append(f[i - 1], steps[i])
                                 ELSE f[i - 1]
    BY <2>1 DEF Filters
  <2> HIDE DEF x
  <2>4. \A i \in 0 .. (n + 1) : g[i] = IF i = 0 THEN <<>>
                                       ELSE IF ValidArgs(steps[i]) THEN Append(g[i - 1], steps[i])
                                       ELSE g[i - 1]
    <3> HIDE DEF g
    <3>1. /\ (n + 1) - 1 = n /\ n \in 0 .. n /\ \A i \in 1 .. n : i - 1 \in 0 .. n
          /\ \A i \in 0 .. (n + 1) : i = 0 \/ i = n + 1 \/ i \in 1 .. n
      OBVIOUS
    <3>2. g[n + 1] = IF ValidArgs(steps[n + 1]) THEN Append(g[n], steps[n + 1]) ELSE g[n]
      BY <2>2, <3>1 DEF x
    <3>3. \A i \in 1 .. n : g[i] = IF ValidArgs(steps[i]) THEN Append(g[i - 1], steps[i])
                                   ELSE g[i - 1]
      BY <2>2, <2>3, <3>1
    <3>4. g[0] = <<>>
      BY <2>2, <2>3
    <3>5. QED
      BY <3>1, <3>2, <3>3, <3>4
  <2>5. Filters(steps, g, n + 1)
    BY <2>4 DEF Filters
  <2>6. QED
    BY <2>5
<1>3. Nat \subseteq S
  <2> HIDE DEF S
  <2>1. QED
    BY <1>1, <1>2, Induct
<1>4. QED
  BY <1>3

(* The filter of the first n of some steps, by their places: t has those   *)
(* that pass, all of them, in their order.                                 *)
Selects(steps, n, t) ==
  \E h \in [DOMAIN t -> 1 .. n] :
    /\ \A i, j \in DOMAIN t : i < j => h[i] < h[j]
    /\ \A i \in DOMAIN t : t[i] = steps[h[i]] /\ ValidArgs(steps[h[i]])
    /\ \A m \in 1 .. n : ValidArgs(steps[m]) => \E i \in DOMAIN t : h[i] = m

(* A step that passes goes behind those selected.                          *)
LEMMA SelectsMore ==
  ASSUME NEW D, NEW steps \in Seq(D), NEW n \in Nat, n + 1 \in DOMAIN steps,
         NEW t \in Seq(D), Selects(steps, n, t)
  PROVE  /\ ValidArgs(steps[n + 1]) => Selects(steps, n + 1, Append(t, steps[n + 1]))
         /\ ~ValidArgs(steps[n + 1]) => Selects(steps, n + 1, t)
<1>1. PICK h \in [DOMAIN t -> 1 .. n] :
        /\ \A i, j \in DOMAIN t : i < j => h[i] < h[j]
        /\ \A i \in DOMAIN t : t[i] = steps[h[i]] /\ ValidArgs(steps[h[i]])
        /\ \A m \in 1 .. n : ValidArgs(steps[m]) => \E i \in DOMAIN t : h[i] = m
  BY DEF Selects
<1>2. /\ \A m \in 1 .. (n + 1) : m = n + 1 \/ m \in 1 .. n
      /\ 1 .. n \subseteq 1 .. (n + 1) /\ n + 1 \in 1 .. (n + 1)
  OBVIOUS
<1>3. CASE ~ValidArgs(steps[n + 1])
  <2>1. h \in [DOMAIN t -> 1 .. (n + 1)]
    BY <1>2
  <2>2. \A m \in 1 .. (n + 1) : ValidArgs(steps[m]) => \E i \in DOMAIN t : h[i] = m
    BY <1>1, <1>2, <1>3
  <2>3. QED
    BY <1>1, <1>3, <2>1, <2>2 DEF Selects
<1>4. CASE ValidArgs(steps[n + 1])
  <2> DEFINE u == Append(t, steps[n + 1])
             l == Len(t) + 1
             g == [i \in 1 .. l |-> IF i = l THEN n + 1 ELSE h[i]]
  <2>1. /\ steps[n + 1] \in D /\ Len(t) \in Nat /\ DOMAIN t = 1 .. (l - 1) /\ DOMAIN u = 1 .. l
        /\ u[l] = steps[n + 1] /\ \A i \in 1 .. (l - 1) : u[i] = t[i]
    OBVIOUS
  <2>2. /\ \A i \in 1 .. l : i = l \/ i \in 1 .. (l - 1)
        /\ l \in 1 .. l /\ l \in Nat /\ \A i \in 1 .. (l - 1) : i \in 1 .. l /\ i # l
    BY <2>1
  <2> HIDE DEF u, l
  <2>3. g[l] = n + 1 /\ \A i \in 1 .. (l - 1) : g[i] = h[i] /\ h[i] \in 1 .. n
    BY <2>1, <2>2
  <2>4. g \in [DOMAIN u -> 1 .. (n + 1)]
    BY <1>2, <2>1, <2>2, <2>3
  <2> HIDE DEF g
  <2>5. \A i, j \in DOMAIN u : i < j => g[i] < g[j]
    <3> SUFFICES ASSUME NEW i \in 1 .. l, NEW j \in 1 .. l, i < j PROVE g[i] < g[j]
      BY <2>1
    <3>1. i \in 1 .. (l - 1)
      BY <2>2
    <3>2. CASE j = l
      BY <2>3, <3>1, <3>2
    <3>3. CASE j # l
      BY <1>1, <2>1, <2>2, <2>3, <3>1, <3>3
    <3>4. QED
      BY <3>2, <3>3
  <2>6. \A i \in DOMAIN u : u[i] = steps[g[i]] /\ ValidArgs(steps[g[i]])
    BY <1>1, <1>4, <2>1, <2>2, <2>3
  <2>7. \A m \in 1 .. (n + 1) : ValidArgs(steps[m]) => \E i \in DOMAIN u : g[i] = m
    BY <1>1, <1>2, <2>1, <2>2, <2>3
  <2>8. QED
    BY <1>4, <2>4, <2>5, <2>6, <2>7 DEF Selects, u
<1>5. QED
  BY <1>3, <1>4

(* The validation of a drafted plan keeps exactly the steps whose          *)
(* arguments pass, or lack no more than a value, each once and in the      *)
(* order they were drafted, however many they are (planner.ts, the loop    *)
(* over steps of patchAndHardenPlan).                                      *)
THEOREM KeepsWhatPasses ==
  ASSUME NEW D, NEW steps \in Seq(D)
  PROVE  Kept(steps) \in Seq(D) /\ Selects(steps, Len(steps), Kept(steps))
<1> DEFINE l == Len(steps)
           f == CHOOSE g : Filters(steps, g, l)
           S == {n \in Nat : n \in 0 .. l => f[n] \in Seq(D) /\ Selects(steps, n, f[n])}
<1>1. l \in Nat /\ DOMAIN steps = 1 .. l
  OBVIOUS
<1>2. Kept(steps) = f[l]
  BY DEF Kept, Filters
<1> HIDE DEF l
<1>3. Filters(steps, f, l)
  BY <1>1, FilterExists
<1> HIDE DEF f
<1>4. \A i \in 0 .. l : f[i] = IF i = 0 THEN <<>>
                               ELSE IF ValidArgs(steps[i]) THEN Append(f[i - 1], steps[i])
                               ELSE f[i - 1]
  BY <1>3 DEF Filters
<1>5. 0 \in S
  <2>1. f[0] = <<>> /\ DOMAIN <<>> = {} /\ <<>> \in Seq(D)
    BY <1>1, <1>4, EmptySeq
  <2>2. <<>> \in [{} -> 1 .. 0] /\ 1 .. 0 = {}
    BY <2>1
  <2>3. Selects(steps, 0, f[0])
    BY <2>1, <2>2 DEF Selects
  <2>4. QED
    BY <2>1, <2>3
<1>6. ASSUME NEW n \in Nat, n \in S PROVE n + 1 \in S
  <2> SUFFICES ASSUME n + 1 \in 0 .. l
               PROVE  f[n + 1] \in Seq(D) /\ Selects(steps, n + 1, f[n + 1])
    OBVIOUS
  <2>1. n \in 0 .. l /\ n + 1 \in 1 .. l /\ (n + 1) - 1 = n /\ n + 1 # 0
    BY <1>1
  <2>2. f[n] \in Seq(D) /\ Selects(steps, n, f[n])
    BY <1>6, <2>1
  <2>3. f[n + 1] = IF ValidArgs(steps[n + 1]) THEN Append(f[n], steps[n + 1]) ELSE f[n]
    BY <1>4, <2>1
  <2>4. steps[n + 1] \in D
    BY <1>1, <2>1
  <2>5. f[n + 1] \in Seq(D)
    BY <2>2, <2>3, <2>4
  <2>6. Selects(steps, n + 1, f[n + 1])
    BY <1>1, <2>1, <2>2, <2>3, SelectsMore
  <2>7. QED
    BY <2>5, <2>6
<1>7. Nat \subseteq S
  <2> HIDE DEF S
  <2>1. QED
    BY <1>5, <1>6, Induct
<1>8. l \in 0 .. l
  BY <1>1
<1>9. QED
  BY <1>1, <1>2, <1>7, <1>8 DEF l

(* Filtering, numbering and normalising a draft of known tools makes a     *)
(* plan; whatever a draft refers to, its steps depend on their neighbour.  *)
LEMMA HardenedType ==
  ASSUME NEW ask, NEW d \in Drafts \cup {<<>>},
         \A i \in DOMAIN d : d[i].tool \in Tools \cup {Chat}
  PROVE  /\ PatchAndHardenPlan(ask, d) \in Seq(PlanStep)
         /\ Numbered(PatchAndHardenPlan(ask, d))
<1> DEFINE steps == IF ask # "question" /\ OnlyChat(d) THEN <<>> ELSE d
           Known == {s \in DraftStep : s.tool \in Tools \cup {Chat}
                                       /\ s.arg # "bad"}
           kept == Kept(steps)
           final == FinalizeSteps(kept)
           p == NormalizePlanToExplicitExpansion(final)
<1>1. steps \in Drafts \cup {<<>>} /\ steps \in Seq(DraftStep)
      /\ \A i \in DOMAIN steps : steps[i].tool \in Tools \cup {Chat}
  <2>1. <<>> \in Seq(DraftStep) /\ DOMAIN <<>> = {}
    BY EmptySeq
  <2>2. d \in Seq(DraftStep)
    BY <2>1, GraphAssumption
  <2>3. steps = <<>> \/ steps = d
    OBVIOUS
  <2> HIDE DEF steps
  <2>4. QED
    BY <2>1, <2>2, <2>3
<1>2. {steps[i] : i \in {j \in DOMAIN steps : ValidArgs(steps[j])}} \subseteq Known
  <2> SUFFICES ASSUME NEW i \in DOMAIN steps, ValidArgs(steps[i])
               PROVE  steps[i] \in Known
    OBVIOUS
  <2>1. steps[i] \in DraftStep
    BY <1>1
  <2>2. QED
    BY <1>1, <2>1 DEF ValidArgs
<1>3. kept \in Seq(Known)
  <2>1. kept \in Seq(DraftStep) /\ Selects(steps, Len(steps), kept)
    BY <1>1, KeepsWhatPasses
  <2>2. \A i \in DOMAIN kept : \E j \in DOMAIN steps : kept[i] = steps[j] /\ ValidArgs(steps[j])
    BY <1>1, <2>1 DEF Selects
  <2> HIDE DEF kept
  <2>3. \A i \in DOMAIN kept : kept[i] \in Known
    BY <1>2, <2>2
  <2>4. QED
    BY <2>1, <2>3
<1> HIDE DEF kept, steps
<1>4. \A i \in DOMAIN kept :
        /\ kept[i].tool \in Tools \cup {Chat} /\ kept[i].field \in Fields
        /\ kept[i].ref \in Nat /\ kept[i].arg \in Args \ {"bad"}
  <2> TAKE i \in DOMAIN kept
  <2>1. kept[i] \in Known
    BY <1>3
  <2>2. QED
    BY <2>1 DEF DraftStep
<1>5. DOMAIN kept = 1 .. Len(kept) /\ Len(kept) \in Nat
  BY <1>3
<1>6. /\ DOMAIN final = DOMAIN kept
      /\ \A i \in DOMAIN final :
           /\ final[i].n = i /\ final[i].dep = i - 1
           /\ final[i].tool = kept[i].tool /\ final[i].arg = kept[i].arg
           /\ final[i].ref = kept[i].ref /\ final[i].field = kept[i].field
  BY DEF FinalizeSteps
<1> HIDE DEF final
<1>7. DOMAIN p = DOMAIN final
  BY DEF NormalizePlanToExplicitExpansion
<1>8. ASSUME NEW i \in DOMAIN p
      PROVE  p[i] \in PlanStep /\ p[i].n = i /\ p[i].dep = i - 1
  <2> DEFINE on == IF final[i].arg = "list" /\ final[i].ref \in DOMAIN final
                   THEN final[i].field ELSE NoField
             arg == IF final[i].arg = "list" THEN "each" ELSE final[i].arg
             binds == {final[j].field : j \in {k \in DOMAIN final :
                          final[k].arg \in {"list", "one"}
                          /\ final[k].ref = i}}
  <2>1. i \in DOMAIN final /\ i \in Nat /\ i - 1 \in Nat
    BY <1>5, <1>6, <1>7
  <2>2. p[i] = [n |-> i, tool |-> final[i].tool, dep |-> final[i].dep,
                arg |-> arg, on |-> on, binds |-> binds]
    BY <1>7, <2>1 DEF NormalizePlanToExplicitExpansion
  <2>3. on \in Fields \cup {NoField} /\ binds \subseteq Fields
    BY <1>4, <1>6, <2>1
  <2>4. arg \in {"given", "null", "one", "each"}
    BY <1>4, <1>6, <2>1 DEF Args
  <2> HIDE DEF on, arg, binds
  <2>5. final[i].tool \in Tools \cup {Chat} /\ final[i].dep = i - 1
    BY <1>4, <1>6, <2>1
  <2>6. QED
    BY <2>1, <2>2, <2>3, <2>4, <2>5 DEF PlanStep
<1>9. p \in Seq(PlanStep)
  <2>1. p = [i \in 1 .. Len(kept) |-> p[i]]
    BY <1>5, <1>6, <1>7 DEF NormalizePlanToExplicitExpansion
  <2> HIDE DEF p
  <2>2. p \in [1 .. Len(kept) -> PlanStep]
    BY <1>5, <1>6, <1>7, <1>8, <2>1
  <2>3. QED
    BY <1>5, <2>2, SeqDef
<1>10. Numbered(p)
  BY <1>8 DEF Numbered
<1>11. PatchAndHardenPlan(ask, d) = p
  BY DEF PatchAndHardenPlan, p, final, kept, steps
<1>12. QED
  BY <1>9, <1>10, <1>11

(* So the planner makes a plan of every goal and draft.                    *)
LEMMA MakePlanType ==
  ASSUME NEW g \in Goals, NEW d \in Drafts
  PROVE  MakePlan(g, d) \in Seq(PlanStep) /\ Numbered(MakePlan(g, d))
<1>1. OneStep(Chat, "given") \in Seq(PlanStep) /\ Numbered(OneStep(Chat, "given"))
  BY OneStepType
<1>2. InferredPlan(g) \in Seq(PlanStep) /\ Numbered(InferredPlan(g))
  BY <1>1, OneStepType, PlanAssumption DEF InferredPlan
<1>3. /\ ParsePlan(d) \in Drafts \cup {<<>>}
      /\ \A i \in DOMAIN ParsePlan(d) : ParsePlan(d)[i].tool \in Tools \cup {Chat}
  BY DEF ParsePlan
<1>4. /\ PatchAndHardenPlan(g.ask, ParsePlan(d)) \in Seq(PlanStep)
      /\ Numbered(PatchAndHardenPlan(g.ask, ParsePlan(d)))
  BY <1>3, HardenedType
<1>5. QED
  BY <1>1, <1>2, <1>4 DEF MakePlan

(* A stored plan is one the planner made, or none.                         *)
LEMMA StoredPlanType ==
  ASSUME NEW p \in StoredPlans
  PROVE  p \in Seq(PlanStep) /\ Numbered(p)
<1>1. <<>> \in Seq(PlanStep) /\ DOMAIN <<>> = {}
  BY EmptySeq
<1>2. p = <<>> \/ \E g \in Goals, d \in Drafts : p = MakePlan(g, d)
  BY DEF StoredPlans
<1>3. p = <<>> => p \in Seq(PlanStep) /\ Numbered(p)
  BY <1>1 DEF Numbered
<1>4. QED
  BY <1>2, <1>3, MakePlanType

-----------------------------------------------------------------------------
(* -- the executor's queue -------------------------------------------------- *)

(* An expansion is the step itself or its children, all of the same step.  *)
Expansion(x, e) ==
  /\ x \in Seq(EntryType) /\ Len(x) \in Nat /\ Len(x) > 0
  /\ DOMAIN x = 1 .. Len(x)
  /\ \/ x = <<e>> /\ Len(x) = 1
     \/ /\ e.on # NoField
        /\ \A i \in DOMAIN x : x[i].c = i - 1 /\ x[i].on = NoField
  /\ \A i \in DOMAIN x :
       x[i].n = e.n /\ x[i].tool = e.tool /\ x[i].binds = e.binds

(* Expanding a step leaves children of that step at the head of the queue. *)
LEMMA ExpandType ==
  ASSUME TypeInv, NEW e \in EntryType
  PROVE  Expansion(ExpandStepForArray(e), e)
<1> DEFINE size == IF e.on = NoField THEN NotAList ELSE vars[e.on]
           x == ExpandStepForArray(e)
<1>1. size \in Int
  BY ExecutorAssumption DEF TypeInv, TypeOK, EntryType, Sizes, NotAList
<1>2. x = IF size <= 0 THEN <<e>> ELSE [i \in 1 .. size |-> Entry(e, i - 1, "item")]
  BY DEF ExpandStepForArray
<1>3. e.on = NoField => size <= 0
  BY DEF NotAList
<1> HIDE DEF size, x
<1>4. ASSUME size <= 0 PROVE Expansion(x, e)
  <2>1. x = <<e>>
    BY <1>2, <1>4
  <2>2. /\ <<e>> \in Seq(EntryType) /\ Len(<<e>>) = 1 /\ DOMAIN <<e>> = 1 .. 1
        /\ <<e>>[1] = e
    OBVIOUS
  <2>3. QED
    BY <2>1, <2>2 DEF Expansion
<1>5. ASSUME size > 0 PROVE Expansion(x, e)
  <2>1. x = [i \in 1 .. size |-> Entry(e, i - 1, "item")]
    BY <1>1, <1>2, <1>5
  <2>2. \A i \in 1 .. size :
          /\ Entry(e, i - 1, "item") \in EntryType
          /\ x[i].c = i - 1 /\ x[i].on = NoField /\ x[i].n = e.n
          /\ x[i].tool = e.tool /\ x[i].binds = e.binds
    BY <1>1, <2>1 DEF Entry, EntryType
  <2>3. size \in Nat /\ x \in [1 .. size -> EntryType]
    BY <1>1, <1>5, <2>1, <2>2
  <2>4. x \in Seq(EntryType) /\ Len(x) = size /\ DOMAIN x = 1 .. size
    BY <2>3, SeqDef, LenProperties
  <2>5. QED
    BY <1>1, <1>3, <1>5, <2>2, <2>4 DEF Expansion
<1>6. Expansion(x, e)
  BY <1>1, <1>4, <1>5
<1>7. QED
  BY <1>6 DEF x

(* What the executor takes off the queue is the head or its only child.    *)
LEMMA CurrentType ==
  ASSUME TypeInv, Ready, ~Many
  PROVE  /\ queue # <<>> /\ 1 \in DOMAIN queue
         /\ Current \in EntryType /\ Current.n = Head1.n
         /\ Current.n \in DOMAIN plan /\ Current.tool = Head1.tool
         /\ Current.binds = Head1.binds
         /\ \/ Current = Head1
            \/ Head1.c = -1 /\ Current.c = 0
<1>1. queue # <<>> /\ 1 \in DOMAIN queue /\ Head1 \in EntryType
  BY DEF Ready, TypeInv, Head1
<1> DEFINE x == ExpandStepForArray(Head1)
<1>2. Expansion(x, Head1) /\ ~(Len(x) > 1)
  BY <1>1, ExpandType DEF Many
<1>3. Current = x[1]
  BY DEF Current
<1> HIDE DEF x
<1>4. Head1.on # NoField => Head1.c = -1
  BY <1>1 DEF TypeInv, QueueOfPlan, Head1, EntryType
<1>5. Head1.n \in DOMAIN plan
  BY <1>1 DEF TypeInv, QueueOfPlan, Head1
<1>6. 1 \in DOMAIN x /\ x[1] \in EntryType
  BY <1>2 DEF Expansion
<1>7. x[1].n = Head1.n /\ x[1].tool = Head1.tool /\ x[1].binds = Head1.binds
  BY <1>2, <1>6 DEF Expansion
<1>8. x[1] = Head1 \/ (Head1.c = -1 /\ x[1].c = 0)
  <2>1. CASE x = <<Head1>>
    BY <2>1
  <2>2. CASE Head1.on # NoField /\ x[1].c = 1 - 1
    BY <1>4, <2>2
  <2>3. QED
    BY <1>2, <1>6, <2>1, <2>2 DEF Expansion
<1>9. QED
  BY <1>1, <1>3, <1>5, <1>6, <1>7, <1>8

(* What a tool may return, as the variables keep it.                       *)
LEMMA ResultType ==
  ASSUME NEW r \in Results
  PROVE  /\ r.field \in Fields \cup {NoField} /\ r.size \in Int
         /\ r.field \in Fields => r.size \in Sizes
<1>1. r.field \in Fields \cup {NoField} /\ r.size \in Int
  BY ExecutorAssumption DEF Results
<1>2. r.field \in Fields => r.size \in 0 .. MaxItems
  BY PlanAssumption DEF Results
<1>3. QED
  BY <1>1, <1>2 DEF Sizes

(* A call and a commit name the step they are about.                       *)
LEMMA RecordType ==
  ASSUME NEW e \in EntryType, NEW r, r.field \in Fields \cup {NoField},
         r.size \in Int, NEW b \in BOOLEAN
  PROVE  /\ Call(e, r) \in CallType /\ [id |-> Id(e), skipped |-> b] \in CommitType
         /\ Call(e, r).id = Id(e) /\ Call(e, r).tool = e.tool
         /\ Call(e, r).found = r.size
         /\ Id(e)[1] = e.n /\ Id(e)[2] = e.c
<1>1. Id(e) \in Nat \X Int /\ Id(e)[1] = e.n /\ Id(e)[2] = e.c
  BY DEF Id, EntryType
<1>2. e.tool \in Tools \cup {Chat} /\ (e.arg = "each") \in BOOLEAN
  BY DEF EntryType
<1>3. QED
  BY <1>1, <1>2 DEF Call, CallType, CommitType

-----------------------------------------------------------------------------
(* -- types and phases ------------------------------------------------------ *)

(* The types and phases hold when the graph starts.                        *)
LEMMA TypeInit == Init => TypeInv /\ PhaseInv
<1> SUFFICES ASSUME Init PROVE TypeInv /\ PhaseInv
  OBVIOUS
<1>1. /\ <<>> \in Seq(PlanStep) /\ <<>> \in Seq(EntryType)
      /\ <<>> \in Seq(CallType) /\ <<>> \in Seq(CommitType)
      /\ DOMAIN <<>> = {}
  BY EmptySeq
<1>2. vars \in [Fields -> Sizes]
  BY DEF Init, Sizes
<1>3. goal \in Goals
  BY DEF Init, NoGoal, Goals, Asks
<1>4. TypeOK
  BY <1>1, <1>2 DEF Init, TypeOK
<1>5. QED
  BY <1>1, <1>3, <1>4 DEF Init, TypeInv, PhaseInv, Numbered, QueueOfPlan

(* Entering the executor puts every step of the plan on its queue.         *)
LEMMA EnterType ==
  ASSUME TypeInv, PhaseInv, walk = "idle", goal' = goal, node' = "executor",
         NEW p \in Seq(PlanStep), Numbered(p), Enter(p)
  PROVE  /\ TypeInv' /\ PhaseInv' /\ plan' = p /\ calls' = <<>> /\ commits' = <<>>
         /\ DOMAIN queue' = DOMAIN p
         /\ \A i \in DOMAIN queue' : /\ queue'[i].n = i /\ queue'[i].c = -1
                                    /\ queue'[i].tool = p[i].tool
<1>1. DOMAIN p = 1 .. Len(p) /\ Len(p) \in Nat
  OBVIOUS
<1>2. \A i \in DOMAIN p :
        /\ Entry(p[i], -1, p[i].arg) \in EntryType
        /\ Entry(p[i], -1, p[i].arg).n = i
        /\ Entry(p[i], -1, p[i].arg).c = -1
        /\ Entry(p[i], -1, p[i].arg).tool = p[i].tool
  <2> TAKE i \in DOMAIN p
  <2>1. p[i] \in PlanStep /\ p[i].n = i
    BY DEF Numbered
  <2>2. QED
    BY <2>1 DEF Entry, EntryType, PlanStep
<1>3. queue' = [i \in 1 .. Len(p) |-> Entry(p[i], -1, p[i].arg)]
  BY <1>1 DEF Enter
<1>4. queue' \in [1 .. Len(p) -> EntryType]
  BY <1>1, <1>2, <1>3
<1>5. queue' \in Seq(EntryType)
  BY <1>1, <1>4, SeqDef
<1>6. /\ DOMAIN queue' = DOMAIN p
      /\ \A i \in DOMAIN queue' : /\ queue'[i].n = i /\ queue'[i].c = -1
                                 /\ queue'[i].tool = p[i].tool
  BY <1>1, <1>2, <1>3
<1>7. /\ plan' = p /\ walk' = "walking" /\ empty' = {} /\ commits' = <<>>
      /\ calls' = calls /\ vars' = vars /\ calls = <<>>
  BY DEF Enter, PhaseInv
<1>8. TypeOK'
  BY <1>7 DEF TypeOK, TypeInv
<1>9. QueueOfPlan'
  BY <1>6, <1>7 DEF QueueOfPlan
<1>10. TypeInv'
  BY <1>5, <1>7, <1>8, <1>9, EmptySeq DEF TypeInv, Numbered
<1>11. PhaseInv'
  BY <1>7 DEF PhaseInv
<1>12. QED
  BY <1>6, <1>7, <1>10, <1>11

(* One step of the executor's loop.                                        *)
LEMMA ExecuteType ==
  ASSUME TypeInv, PhaseInv, node = "executor", Execute, UNCHANGED graphVars
  PROVE  TypeInv' /\ PhaseInv' /\ walk = "walking" /\ walk' # "idle" /\ plan' = plan
<1>1. /\ walk = "walking" /\ plan' = plan
      /\ walk' \in {"walking", "failed", "halted", "done"}
  BY DEF Execute, Expand, SkipBlocked, RefuseArgs, HaltForApproval, CallFails,
         Finish, CallSucceeds, Ready, Runnable, Callable
<1>2. PhaseInv'
  BY <1>1 DEF graphVars, PhaseInv
<1>3. goal' = goal /\ node' = node
  BY DEF graphVars
<1>4. ASSUME queue' = queue, calls' = calls, commits' = commits, vars' = vars,
             empty' = empty
      PROVE  TypeInv'
  BY <1>1, <1>3, <1>4 DEF TypeInv, TypeOK, Numbered, QueueOfPlan
<1>5. ASSUME Ready, ~Many
      PROVE  /\ Tail(queue) \in Seq(EntryType)
             /\ queue' = Tail(queue) => QueueOfPlan'
  <2>1. queue # <<>> /\ queue \in Seq(EntryType)
    BY <1>5 DEF Ready, TypeInv
  <2>2. /\ Tail(queue) \in Seq(EntryType)
        /\ DOMAIN Tail(queue) = 1 .. Len(queue) - 1
        /\ \A i \in DOMAIN Tail(queue) :
             i + 1 \in DOMAIN queue /\ Tail(queue)[i] = queue[i + 1]
    BY <2>1
  <2>3. QED
    BY <1>1, <2>2 DEF QueueOfPlan, TypeInv
<1>6. CASE Expand
  <2>1. queue # <<>> /\ Head1 \in EntryType /\ 1 \in DOMAIN queue
    BY <1>6 DEF Expand, Ready, TypeInv, Head1
  <2> DEFINE x == ExpandStepForArray(Head1)
  <2>2. Expansion(x, Head1)
    BY <2>1, ExpandType
  <2>3. queue' = x \o Tail(queue)
    BY <1>6 DEF Expand
  <2>4. x # <<Head1>>
    BY <1>6 DEF Expand, Many
  <2> HIDE DEF x
  <2>5. Tail(queue) \in Seq(EntryType) /\ queue' \in Seq(EntryType)
    BY <2>1, <2>2, <2>3 DEF TypeInv, Expansion
  <2>6. ASSUME NEW i \in DOMAIN queue'
        PROVE  \/ i \in DOMAIN x /\ queue'[i] = x[i]
               \/ /\ i - Len(x) + 1 \in DOMAIN queue
                  /\ queue'[i] = queue[i - Len(x) + 1]
    BY <2>1, <2>2, <2>3, <2>5 DEF TypeInv, Expansion
  <2>7. QueueOfPlan'
    <3> SUFFICES ASSUME NEW i \in DOMAIN queue'
                 PROVE  /\ queue'[i].n \in DOMAIN plan /\ queue'[i].c >= -1
                        /\ queue'[i].c >= 0 => queue'[i].on = NoField
      BY <1>1 DEF QueueOfPlan
    <3>1. CASE i \in DOMAIN x /\ queue'[i] = x[i]
      <4>1. Head1.n \in DOMAIN plan
        BY <2>1 DEF TypeInv, QueueOfPlan, Head1
      <4>2. x[i].n = Head1.n /\ x[i].c = i - 1 /\ x[i].on = NoField /\ i \in Nat
            /\ i >= 1
        BY <2>2, <2>4, <3>1 DEF Expansion
      <4>3. QED
        BY <3>1, <4>1, <4>2
    <3>2. CASE /\ i - Len(x) + 1 \in DOMAIN queue
               /\ queue'[i] = queue[i - Len(x) + 1]
      BY <3>2 DEF TypeInv, QueueOfPlan
    <3>3. QED
      BY <2>6, <3>1, <3>2
  <2>8. QED
    BY <1>1, <1>2, <1>3, <1>6, <2>5, <2>7 DEF Expand, TypeInv, TypeOK, Numbered
<1>7. CASE SkipBlocked
  <2>1. [id |-> Id(Current), skipped |-> TRUE] \in CommitType
    <3>1. Current \in EntryType
      BY <1>7, CurrentType DEF SkipBlocked
    <3>2. QED
      BY <3>1 DEF Id, EntryType, CommitType
  <2>2. commits' \in Seq(CommitType)
    BY <1>7, <2>1 DEF SkipBlocked, TypeInv
  <2>3. QED
    BY <1>1, <1>2, <1>3, <1>5, <1>7, <2>2
       DEF SkipBlocked, TypeInv, TypeOK, Numbered
<1>8. CASE \E r \in Results : CallSucceeds(r)
  <2>1. PICK r \in Results : CallSucceeds(r)
    BY <1>8
  <2>2. Ready /\ ~Many
    BY <2>1 DEF CallSucceeds, Callable, Runnable
  <2>3. Current \in EntryType /\ Current.n \in DOMAIN plan
    BY <2>2, CurrentType
  <2>4. /\ Call(Current, r) \in CallType
        /\ [id |-> Id(Current), skipped |-> FALSE] \in CommitType
    BY <2>3, ResultType, RecordType
  <2>5. calls' \in Seq(CallType) /\ commits' \in Seq(CommitType)
    BY <2>1, <2>4 DEF CallSucceeds, TypeInv
  <2>6. vars' \in [Fields -> Sizes]
    BY <2>1, ResultType DEF CallSucceeds, TypeInv, TypeOK, Sizes
  <2>7. empty' \subseteq DOMAIN plan
    BY <2>1, <2>3 DEF CallSucceeds, TypeInv, TypeOK
  <2>8. queue' \in Seq(EntryType) /\ QueueOfPlan'
    BY <1>5, <2>1, <2>2 DEF CallSucceeds
  <2>9. QED
    BY <1>1, <1>2, <1>3, <2>5, <2>6, <2>7, <2>8 DEF TypeInv, TypeOK, Numbered
<1>9. CASE CallFails
  <2>1. Current \in EntryType
    BY <1>9, CurrentType DEF CallFails, Callable, Runnable
  <2> DEFINE r == [field |-> NoField, size |-> NotAList]
  <2>2. r.field = NoField /\ r.size \in Int
    BY DEF NotAList
  <2>3. calls' \in Seq(CallType)
    <3>1. calls' = Append(calls, Call(Current, r))
      BY <1>9 DEF CallFails
    <3> HIDE DEF r
    <3>2. Call(Current, r) \in CallType
      BY <2>1, <2>2, RecordType
    <3>3. QED
      BY <3>1, <3>2 DEF TypeInv
  <2>4. QED
    BY <1>1, <1>2, <1>3, <1>9, <2>3
       DEF CallFails, TypeInv, TypeOK, Numbered, QueueOfPlan
<1>10. CASE RefuseArgs \/ HaltForApproval \/ Finish
  BY <1>1, <1>2, <1>4, <1>10 DEF RefuseArgs, HaltForApproval, Finish
<1>11. QED
  BY <1>1, <1>6, <1>7, <1>8, <1>9, <1>10 DEF Execute

(* One step of the graph.                                                  *)
LEMMA TypeStep ==
  TypeInv /\ PhaseInv /\ [Next]_vars_ => TypeInv' /\ PhaseInv'
<1> SUFFICES ASSUME TypeInv, PhaseInv, [Next]_vars_ PROVE TypeInv' /\ PhaseInv'
  OBVIOUS
<1>1. ASSUME UNCHANGED executorVars, goal' \in Goals,
             node' \in {"extractGoal", "planner", "confirm", "executor",
                       "summarize", "fallback", "END", "thrown"}
      PROVE  TypeInv'
  BY <1>1 DEF executorVars, TypeInv, TypeOK, Numbered, QueueOfPlan
<1>2. CASE ExtractGoal
  BY <1>1, <1>2 DEF ExtractGoal, PhaseInv, executorVars
<1>3. CASE Planner
  <2>1. plan' \in Seq(PlanStep) /\ Numbered(plan')
    <3>1. goal \in Goals
      BY DEF TypeInv
    <3>2. QED
      BY <1>3, <3>1, MakePlanType DEF Planner
  <2>2. queue = <<>> /\ empty = {} /\ walk = "idle"
    BY <1>3 DEF Planner, PhaseInv
  <2>3. node' \in {"END", "confirm"}
    BY <1>3 DEF Planner, NodeAfterPlanner
  <2>4. QueueOfPlan'
    <3>1. queue' = <<>> /\ DOMAIN <<>> = {}
      BY <1>3, <2>2, EmptySeq DEF Planner
    <3>2. QED
      BY <3>1 DEF QueueOfPlan
  <2>5. TypeInv'
    BY <1>3, <2>1, <2>2, <2>3, <2>4 DEF Planner, TypeInv, TypeOK, Numbered
  <2>6. QED
    BY <1>3, <2>2, <2>3, <2>5 DEF Planner, PhaseInv
<1>4. CASE Confirm
  <2>1. walk = "idle" /\ goal' = goal
    BY <1>4 DEF Confirm, PhaseInv
  <2>2. CASE node' = "thrown" /\ UNCHANGED executorVars
    <3>1. TypeInv'
      BY <1>1, <2>1, <2>2 DEF TypeInv
    <3>2. QED
      BY <2>1, <2>2, <3>1 DEF PhaseInv, executorVars
  <2>3. CASE node' = "executor" /\ Enter(plan)
    BY <2>1, <2>3, EnterType DEF TypeInv, TypeOK
  <2>4. QED
    BY <1>4, <2>2, <2>3 DEF Confirm
<1>5. CASE Resume
  <2>1. PICK p \in StoredPlans : Enter(p)
    BY <1>5 DEF Resume
  <2>2. p \in Seq(PlanStep) /\ Numbered(p)
    BY <2>1, StoredPlanType
  <2>3. walk = "idle" /\ goal' = goal /\ node' = "executor"
    BY <1>5 DEF Resume, graphVars
  <2>4. QED
    BY <2>1, <2>2, <2>3, EnterType
<1>6. CASE Executor
  BY <1>6, ExecuteType DEF Executor
<1>7. CASE LeaveExecutor
  <2>1. node' \in {"thrown", "fallback", "END", "summarize"}
    BY <1>7 DEF LeaveExecutor, SafeNode
  <2>2. TypeInv'
    BY <1>1, <1>7, <2>1 DEF LeaveExecutor, TypeInv
  <2>3. QED
    BY <1>7, <2>1, <2>2 DEF LeaveExecutor, PhaseInv, executorVars
<1>8. CASE Summarize
  <2>1. TypeInv'
    BY <1>1, <1>8 DEF Summarize, TypeInv
  <2>2. QED
    BY <1>8, <2>1 DEF Summarize, PhaseInv, executorVars
<1>9. CASE Fallback
  <2>1. TypeInv'
    BY <1>1, <1>9 DEF Fallback, TypeInv
  <2>2. QED
    BY <1>9, <2>1 DEF Fallback, PhaseInv, executorVars
<1>10. CASE UNCHANGED vars_
  BY <1>1, <1>10 DEF vars_, graphVars, executorVars, TypeInv, TypeOK, PhaseInv
<1>11. QED
  BY <1>2, <1>3, <1>4, <1>5, <1>6, <1>7, <1>8, <1>9, <1>10 DEF Next, Step, Stay

(* Every reachable state of every instance has the declared types; the     *)
(* plan is numbered, and what is queued is of the plan.                    *)
THEOREM TypeCorrect == Spec => [](TypeOK /\ TypeInv /\ PhaseInv)
<1>1. TypeInv => TypeOK
  BY DEF TypeInv
<1>2. QED
  BY <1>1, TypeInit, TypeStep, PTL DEF Spec

-----------------------------------------------------------------------------
(* -- approvals and planning modes ------------------------------------------ *)

(* Every call is made for the current entry, which no gate holds back.     *)
LEMMA CallMade ==
  ASSUME TypeInv, Execute
  PROVE  \/ calls' = calls
         \/ \E r : /\ r.field \in Fields \cup {NoField} /\ r.size \in Int
                  /\ calls' = Append(calls, Call(Current, r))
                  /\ Ready /\ ~Many /\ ~Blocked(Current)
                  /\ IsApprovedStep(Current)
<1>1. CASE CallFails
  <2> DEFINE r == [field |-> NoField, size |-> NotAList]
  <2>1. r.field = NoField /\ r.size \in Int
    BY DEF NotAList
  <2>2. calls' = Append(calls, Call(Current, r))
    BY <1>1 DEF CallFails
  <2> HIDE DEF r
  <2>3. QED
    BY <1>1, <2>1, <2>2 DEF CallFails, Callable, Runnable
<1>2. CASE \E r \in Results : CallSucceeds(r)
  BY <1>2, ResultType DEF CallSucceeds, Callable, Runnable
<1>3. CASE Expand \/ SkipBlocked \/ RefuseArgs \/ HaltForApproval \/ Finish
  BY <1>3 DEF Expand, SkipBlocked, RefuseArgs, HaltForApproval, Finish
<1>4. QED
  BY <1>1, <1>2, <1>3 DEF Execute

(* What is queued next comes from what was queued.                         *)
LEMMA QueueFrom ==
  ASSUME TypeInv, Execute, NEW i \in DOMAIN queue'
  PROVE  \E j \in DOMAIN queue : queue'[i].tool = queue[j].tool
<1>1. ASSUME Ready, queue' = Tail(queue)
      PROVE  \E j \in DOMAIN queue : queue'[i].tool = queue[j].tool
  <2>1. queue # <<>> /\ queue \in Seq(EntryType)
    BY <1>1 DEF Ready, TypeInv
  <2>2. i + 1 \in DOMAIN queue /\ queue'[i] = queue[i + 1]
    BY <1>1, <2>1
  <2>3. QED
    BY <2>2
<1>2. CASE Expand
  <2>1. queue # <<>> /\ Head1 \in EntryType /\ 1 \in DOMAIN queue
    BY <1>2 DEF Expand, Ready, TypeInv, Head1
  <2> DEFINE x == ExpandStepForArray(Head1)
  <2>2. Expansion(x, Head1) /\ queue' = x \o Tail(queue)
    BY <1>2, <2>1, ExpandType DEF Expand
  <2> HIDE DEF x
  <2>3. \/ i \in DOMAIN x /\ queue'[i] = x[i]
        \/ /\ i - Len(x) + 1 \in DOMAIN queue
           /\ queue'[i] = queue[i - Len(x) + 1]
    BY <2>1, <2>2 DEF TypeInv, Expansion
  <2>4. i \in DOMAIN x => x[i].tool = queue[1].tool
    BY <2>2 DEF Expansion, Head1
  <2>5. QED
    BY <2>1, <2>3, <2>4
<1>3. CASE SkipBlocked \/ \E r \in Results : CallSucceeds(r)
  BY <1>1, <1>3 DEF SkipBlocked, CallSucceeds, Callable, Runnable
<1>4. CASE RefuseArgs \/ HaltForApproval \/ CallFails \/ Finish
  BY <1>4 DEF RefuseArgs, HaltForApproval, CallFails, Finish
<1>5. QED
  BY <1>2, <1>3, <1>4 DEF Execute

(* The approval that lets a call through names the step of the call, and   *)
(* approvals do not change while the graph runs.                           *)
LEMMA RiskStep ==
  TypeInv /\ PhaseInv /\ RiskIsApproved /\ [Next]_vars_ => RiskIsApproved'
<1> SUFFICES ASSUME TypeInv, PhaseInv, RiskIsApproved, [Next]_vars_
             PROVE  RiskIsApproved'
  OBVIOUS
<1>1. approved' = approved
  BY DEF Next, Step, Stay, ExtractGoal, Planner, Confirm, Resume, Executor,
         LeaveExecutor, Summarize, Fallback, vars_, executorVars, Enter, Execute,
         Expand, SkipBlocked, RefuseArgs, HaltForApproval, CallFails, Finish,
         CallSucceeds
<1>2. CASE calls' = calls
  BY <1>1, <1>2 DEF RiskIsApproved
<1>3. CASE Executor
  <2>1. PICK r : /\ r.field \in Fields \cup {NoField} /\ r.size \in Int
                 /\ calls' = Append(calls, Call(Current, r))
                 /\ Ready /\ ~Many /\ ~Blocked(Current)
                 /\ IsApprovedStep(Current)
        \/ calls' = calls
    BY <1>3, CallMade DEF Executor
  <2>2. CASE calls' = calls
    BY <1>2, <2>2
  <2>3. CASE calls' # calls
    <3> DEFINE c == Call(Current, r)
    <3>1. Current \in EntryType
      BY <2>1, <2>3, CurrentType
    <3>2. c \in CallType /\ c.tool = Current.tool /\ c.id[1] = Current.n
      BY <2>1, <2>3, <3>1, RecordType
    <3>3. c.tool \in HighRisk => c.id[1] \in approved
      BY <2>1, <2>3, <3>2 DEF IsApprovedStep
    <3> HIDE DEF c
    <3>4. calls' = Append(calls, c) /\ calls \in Seq(CallType)
      BY <2>1, <2>3 DEF TypeInv, c
    <3>5. \A i \in DOMAIN calls' : calls'[i] = c \/ (i \in DOMAIN calls
                                                  /\ calls'[i] = calls[i])
      BY <3>2, <3>4
    <3>6. QED
      BY <1>1, <3>3, <3>5 DEF RiskIsApproved
  <2>4. QED
    BY <2>2, <2>3
<1>4. CASE ~Executor
  BY <1>2, <1>4 DEF Next, Step, Stay, ExtractGoal, Planner, Confirm, Resume,
     LeaveExecutor, Summarize, Fallback, vars_, executorVars, Enter
<1>5. QED
  BY <1>3, <1>4

(* A high-risk tool is called only for a step whose number was approved,   *)
(* whatever is drafted, expanded and approved.                             *)
THEOREM RiskNeedsApproval == Spec => []RiskIsApproved
<1>1. Init => RiskIsApproved
  BY EmptySeq DEF Init, RiskIsApproved
<1>2. QED
  BY <1>1, TypeInit, TypeStep, RiskStep, PTL DEF Spec

(* A run that may not act yet either stops at the planner or goes on with  *)
(* a plan that only talks; only a resumed run brings another one.          *)
Quiet == entry # "executor" /\ (entry = "planOnly" \/ mode # "AUTO")
TalkInv ==
  /\ mode \in {"PREVIEW", "APPROVAL", "AUTO"}
  /\ Quiet => /\ PlansBeforeActing
              /\ \A i \in DOMAIN queue : queue[i].tool = Chat
              /\ node = "confirm" => \A i \in DOMAIN plan : plan[i].tool = Chat

(* A run that is only planned keeps its calls to chat through every step.  *)
LEMMA TalkStep ==
  TypeInv /\ PhaseInv /\ TalkInv /\ [Next]_vars_ => TalkInv'
<1>1. ASSUME [Next]_vars_ PROVE entry' = entry /\ mode' = mode
  BY <1>1 DEF Next, Step, Stay, ExtractGoal, Planner, Confirm, Resume, Executor,
     LeaveExecutor, Summarize, Fallback, vars_, graphVars
<1> SUFFICES ASSUME TypeInv, PhaseInv, TalkInv, [Next]_vars_, Quiet'
             PROVE  /\ \A i \in DOMAIN calls' : calls'[i].tool = Chat
                    /\ \A i \in DOMAIN queue' : queue'[i].tool = Chat
                    /\ node' = "confirm" =>
                         \A i \in DOMAIN plan' : plan'[i].tool = Chat
  BY <1>1 DEF TalkInv, PlansBeforeActing
<1>2. Quiet
  BY <1>1 DEF Quiet
<1>3. /\ \A i \in DOMAIN calls : calls[i].tool = Chat
      /\ \A i \in DOMAIN queue : queue[i].tool = Chat
      /\ node = "confirm" => \A i \in DOMAIN plan : plan[i].tool = Chat
  BY <1>2 DEF TalkInv, PlansBeforeActing, Quiet
<1>4. CASE Planner
  <2>1. calls' = calls /\ queue' = queue /\ node' = NodeAfterPlanner(plan')
    BY <1>4 DEF Planner
  <2>2. node' = "confirm" => OnlyChat(plan')
    BY <1>2, <2>1 DEF NodeAfterPlanner, PlanOnly, Quiet, TalkInv
  <2>3. QED
    BY <1>3, <2>1, <2>2 DEF OnlyChat
<1>5. CASE Confirm
  <2>1. walk = "idle" /\ goal' = goal
    BY <1>5 DEF Confirm, PhaseInv
  <2>2. CASE node' = "thrown" /\ UNCHANGED executorVars
    BY <1>3, <2>2 DEF executorVars
  <2>3. CASE node' = "executor" /\ Enter(plan)
    <3>1. plan \in Seq(PlanStep) /\ Numbered(plan)
      BY DEF TypeInv, TypeOK
    <3>2. /\ calls' = <<>> /\ DOMAIN queue' = DOMAIN plan
          /\ \A i \in DOMAIN queue' : queue'[i].tool = plan[i].tool
      BY <2>1, <2>3, <3>1, EnterType
    <3>3. node = "confirm" /\ DOMAIN <<>> = {}
      BY <1>5, EmptySeq DEF Confirm
    <3>4. QED
      BY <1>3, <2>3, <3>2, <3>3
  <2>4. QED
    BY <1>5, <2>2, <2>3 DEF Confirm
<1>6. CASE Executor
  <2>1. node' = "executor"
    BY <1>6 DEF Executor, graphVars
  <2>2. \A i \in DOMAIN queue' : queue'[i].tool = Chat
    BY <1>3, <1>6, QueueFrom DEF Executor
  <2>3. CASE calls' = calls
    BY <1>3, <2>1, <2>2, <2>3
  <2>4. CASE calls' # calls
    <3>1. PICK r : /\ r.field \in Fields \cup {NoField} /\ r.size \in Int
                   /\ calls' = Append(calls, Call(Current, r))
                   /\ Ready /\ ~Many
      BY <1>6, <2>4, CallMade DEF Executor
    <3> DEFINE c == Call(Current, r)
    <3>2. /\ Current \in EntryType /\ Current.tool = Head1.tool
          /\ 1 \in DOMAIN queue
      BY <3>1, CurrentType
    <3>3. c \in CallType /\ c.tool = Chat
      BY <1>3, <3>1, <3>2, RecordType DEF Head1
    <3> HIDE DEF c
    <3>4. calls' = Append(calls, c) /\ calls \in Seq(CallType)
      BY <3>1 DEF TypeInv, c
    <3>5. \A i \in DOMAIN calls' : calls'[i] = c \/ (i \in DOMAIN calls
                                                  /\ calls'[i] = calls[i])
      BY <3>3, <3>4
    <3>6. QED
      BY <1>3, <2>1, <2>2, <3>3, <3>5
  <2>5. QED
    BY <2>3, <2>4
<1>7. ~Resume
  BY <1>2 DEF Resume, PhaseInv, Quiet
<1>8. CASE \/ ExtractGoal \/ LeaveExecutor \/ Summarize \/ Fallback
           \/ UNCHANGED vars_
  BY <1>3, <1>8 DEF ExtractGoal, LeaveExecutor, Summarize, Fallback, SafeNode,
     vars_, graphVars, executorVars
<1>9. QED
  BY <1>4, <1>5, <1>6, <1>7, <1>8 DEF Next, Step, Stay

(* In PREVIEW and APPROVAL mode, and when only a plan is asked for, no     *)
(* tool but chat is called, whatever the model drafts.                     *)
THEOREM PlanningDoesNotAct == Spec => []PlansBeforeActing
<1>1. Init => TalkInv
  <2>1. DOMAIN <<>> = {}
    BY EmptySeq
  <2>2. QED
    BY <2>1 DEF Init, TalkInv, PlansBeforeActing, Quiet
<1>2. TalkInv => PlansBeforeActing
  BY DEF TalkInv, PlansBeforeActing, Quiet
<1>3. QED
  BY <1>1, <1>2, TypeInit, TypeStep, TalkStep, PTL DEF Spec

-----------------------------------------------------------------------------
(* -- the order of commits --------------------------------------------------- *)

(* The queue is sorted: by step, and the children of a step by item, so    *)
(* that a step which is queued itself is the only entry of its number.     *)
(* Everything committed comes before everything queued.                    *)
QueueSorted ==
  \A i, j \in DOMAIN queue : i < j =>
     \/ queue[i].n < queue[j].n
     \/ queue[i].n = queue[j].n /\ 0 <= queue[i].c /\ queue[i].c < queue[j].c
OrderInv ==
  /\ QueueSorted
  /\ \A i \in DOMAIN commits : \A j \in DOMAIN queue :
        Before(commits[i].id, Id(queue[j]))
  /\ CommitsInOrder

(* Committing the current entry keeps the order.                           *)
LEMMA CommitStep ==
  ASSUME TypeInv, OrderInv, Ready, ~Many, NEW b \in BOOLEAN,
         queue' = Tail(queue),
         commits' = Append(commits, [id |-> Id(Current), skipped |-> b])
  PROVE  OrderInv' /\ \A j \in DOMAIN queue' : Before(Id(Current), Id(queue'[j]))
<1> DEFINE c == [id |-> Id(Current), skipped |-> b]
<1>1. /\ Current \in EntryType /\ Current.n = queue[1].n /\ queue # <<>>
      /\ 1 \in DOMAIN queue
      /\ Current = queue[1] \/ (queue[1].c = -1 /\ Current.c = 0)
  BY CurrentType DEF Head1
<1>2. c \in CommitType /\ c.id[1] = Current.n /\ c.id[2] = Current.c
  BY <1>1 DEF Id, CommitType, EntryType
<1>3. commits' = Append(commits, c)
  OBVIOUS
<1> HIDE DEF c
<1>4. queue \in Seq(EntryType) /\ commits \in Seq(CommitType)
  BY DEF TypeInv
<1>5. /\ DOMAIN queue' \subseteq Nat
      /\ \A i \in DOMAIN queue' : /\ i + 1 \in DOMAIN queue
                                 /\ queue'[i] = queue[i + 1] /\ 1 < i + 1
  BY <1>1, <1>4
<1>6. /\ DOMAIN commits' = 1 .. Len(commits) + 1 /\ Len(commits) \in Nat
      /\ DOMAIN commits = 1 .. Len(commits)
      /\ commits'[Len(commits) + 1] = c
      /\ \A i \in DOMAIN commits : commits'[i] = commits[i]
  BY <1>2, <1>3, <1>4
<1>7. \A i \in DOMAIN queue : /\ queue[i].n \in Int /\ queue[i].c \in Int
                            /\ Id(queue[i])[1] = queue[i].n
                            /\ Id(queue[i])[2] = queue[i].c
  <2> TAKE i \in DOMAIN queue
  <2>1. queue[i] \in EntryType
    BY <1>4
  <2>2. QED
    BY <2>1 DEF EntryType, Id
<1>8. \A i \in DOMAIN commits : commits[i].id[1] \in Int /\ commits[i].id[2] \in Int
  <2> TAKE i \in DOMAIN commits
  <2>1. commits[i] \in CommitType
    BY <1>4
  <2>2. commits[i].id \in Nat \X Int
    BY <2>1 DEF CommitType
  <2>3. QED
    BY <2>2
<1>9. QueueSorted'
  <2> SUFFICES ASSUME NEW i \in DOMAIN queue', NEW j \in DOMAIN queue', i < j
               PROVE  \/ queue'[i].n < queue'[j].n
                      \/ /\ queue'[i].n = queue'[j].n /\ 0 <= queue'[i].c
                         /\ queue'[i].c < queue'[j].c
    BY DEF QueueSorted
  <2>1. i + 1 \in DOMAIN queue /\ j + 1 \in DOMAIN queue /\ i + 1 < j + 1
    BY <1>5
  <2>2. \/ queue[i + 1].n < queue[j + 1].n
        \/ /\ queue[i + 1].n = queue[j + 1].n /\ 0 <= queue[i + 1].c
           /\ queue[i + 1].c < queue[j + 1].c
    BY <2>1 DEF OrderInv, QueueSorted
  <2>3. QED
    BY <1>5, <2>2
<1>10. \A j \in DOMAIN queue' : Before(c.id, Id(queue'[j]))
  <2> TAKE j \in DOMAIN queue'
  <2>1. \/ queue[1].n < queue[j + 1].n
        \/ /\ queue[1].n = queue[j + 1].n /\ 0 <= queue[1].c
           /\ queue[1].c < queue[j + 1].c
    BY <1>1, <1>5 DEF OrderInv, QueueSorted
  <2>2. Current.n = queue[1].n /\ (queue[1].c # -1 => Current.c = queue[1].c)
    BY <1>1
  <2>3. QED
    BY <1>1, <1>2, <1>5, <1>7, <2>1, <2>2 DEF Before
<1>11. \A i \in DOMAIN commits' : \A j \in DOMAIN queue' :
         Before(commits'[i].id, Id(queue'[j]))
  BY <1>5, <1>6, <1>10 DEF OrderInv
<1>12. \A i \in DOMAIN commits : Before(commits[i].id, c.id)
  <2> TAKE i \in DOMAIN commits
  <2>1. Before(commits[i].id, Id(queue[1]))
    BY <1>1 DEF OrderInv
  <2>2. QED
    BY <1>1, <1>2, <1>7, <1>8, <2>1 DEF Before
<1>13. CommitsInOrder'
  BY <1>6, <1>12 DEF OrderInv, CommitsInOrder
<1>14. c.id = Id(Current)
  BY DEF c
<1>15. QED
  BY <1>9, <1>10, <1>11, <1>13, <1>14 DEF OrderInv

(* The children x of the head of q take its place in r: all of them come   *)
(* before what was queued behind it.                                       *)
Opened(q, r, x) ==
  /\ q[1].c = -1 /\ q[1].n \in Int /\ q[1].on # NoField /\ 1 \in DOMAIN q
  /\ DOMAIN q \subseteq Nat /\ DOMAIN r \subseteq Nat
  /\ Len(x) \in Nat /\ Len(x) > 1 /\ DOMAIN x = 1 .. Len(x)
  /\ \A i \in DOMAIN x : /\ x[i].n = q[1].n /\ x[i].c = i - 1
                        /\ x[i].binds = q[1].binds
                        /\ i \in DOMAIN r /\ r[i] = x[i]
  /\ \A i \in DOMAIN q : 1 < i => /\ q[1].n < q[i].n
                                 /\ i + Len(x) - 1 \in DOMAIN r
                                 /\ r[i + Len(x) - 1] = q[i]
  /\ \A i \in DOMAIN r : \/ i \in DOMAIN x /\ r[i] = x[i]
                        \/ /\ i - Len(x) + 1 \in DOMAIN q /\ i > Len(x)
                           /\ r[i] = q[i - Len(x) + 1]

(* A step's children stand in order before whatever was queued behind it.  *)
LEMMA ExpandQueue ==
  ASSUME TypeInv, QueueSorted, Expand
  PROVE  Opened(queue, queue', ExpandStepForArray(Head1))
<1> DEFINE x == ExpandStepForArray(Head1)
<1>1. queue # <<>> /\ Head1 \in EntryType /\ 1 \in DOMAIN queue
      /\ queue \in Seq(EntryType)
  BY DEF Expand, Ready, TypeInv, Head1
<1>2. Expansion(x, Head1) /\ Len(x) > 1
  BY <1>1, ExpandType DEF Expand, Many
<1>3. queue' = x \o Tail(queue)
  BY DEF Expand
<1> HIDE DEF x
<1>4. /\ \A i \in DOMAIN x : x[i].n = Head1.n /\ x[i].c = i - 1
                           /\ x[i].binds = Head1.binds
      /\ Head1.on # NoField
  BY <1>2 DEF Expansion
<1>5. Head1.c = -1
  <2>1. Head1.c \in Int /\ Head1.c >= -1 /\ (Head1.c >= 0 => Head1.on = NoField)
    BY <1>1 DEF TypeInv, QueueOfPlan, Head1, EntryType
  <2>2. QED
    BY <1>4, <2>1
<1>6. /\ DOMAIN queue' \subseteq Nat /\ DOMAIN queue \subseteq Nat
      /\ \A i \in DOMAIN queue' :
           \/ i \in DOMAIN x /\ queue'[i] = x[i]
           \/ /\ i - Len(x) + 1 \in DOMAIN queue /\ i > Len(x)
              /\ queue'[i] = queue[i - Len(x) + 1]
  BY <1>1, <1>2, <1>3 DEF Expansion
<1>7. \A i \in DOMAIN queue : 1 < i => Head1.n < queue[i].n
  <2> SUFFICES ASSUME NEW i \in DOMAIN queue, 1 < i PROVE queue[1].n < queue[i].n
    BY DEF Head1
  <2>1. queue[1].c = -1
    BY <1>5 DEF Head1
  <2>2. QED
    BY <1>1, <2>1 DEF QueueSorted
<1>8. \A i \in DOMAIN x : i \in DOMAIN queue' /\ queue'[i] = x[i]
  BY <1>1, <1>2, <1>3 DEF Expansion
<1>9. \A i \in DOMAIN queue : 1 < i => /\ i + Len(x) - 1 \in DOMAIN queue'
                                     /\ queue'[i + Len(x) - 1] = queue[i]
  BY <1>1, <1>2, <1>3 DEF Expansion
<1>10. Head1.n \in Int /\ Len(x) \in Nat /\ Len(x) > 1 /\ DOMAIN x = 1 .. Len(x)
  BY <1>1, <1>2 DEF EntryType, Expansion
<1>11. Opened(queue, queue', x)
  BY <1>1, <1>4, <1>5, <1>6, <1>7, <1>8, <1>9, <1>10 DEF Opened, Head1
<1>12. QED
  BY <1>11 DEF x

(* What came before the head still comes before its children.              *)
LEMMA OpenedAfter ==
  ASSUME NEW q \in Seq(EntryType), NEW r, NEW x, Opened(q, r, x),
         NEW id \in Nat \X Int, \A j \in DOMAIN q : Before(id, Id(q[j]))
  PROVE  \A j \in DOMAIN r : Before(id, Id(r[j]))
<1> TAKE j \in DOMAIN r
<1>1. id[1] \in Int /\ id[2] \in Int /\ j \in Nat /\ Len(x) \in Nat
  BY DEF Opened
<1>2. CASE j \in DOMAIN x /\ r[j] = x[j]
  <2>1. /\ r[j].n = q[1].n /\ r[j].c = j - 1 /\ j >= 1 /\ q[1].c = -1
        /\ q[1].n \in Int /\ 1 \in DOMAIN q
    BY <1>1, <1>2 DEF Opened
  <2>2. Before(id, <<q[1].n, -1>>)
    BY <2>1 DEF Id
  <2>3. Id(r[j]) = <<q[1].n, j - 1>>
    BY <2>1 DEF Id
  <2>4. QED
    BY <1>1, <2>1, <2>2, <2>3 DEF Before
<1>3. CASE j - Len(x) + 1 \in DOMAIN q /\ r[j] = q[j - Len(x) + 1]
  BY <1>3
<1>4. QED
  BY <1>2, <1>3 DEF Opened

(* Expanding a step of several items keeps the queue in order.             *)
LEMMA ExpandStep ==
  ASSUME TypeInv, OrderInv, Expand
  PROVE  OrderInv'
<1> DEFINE x == ExpandStepForArray(Head1)
<1>1. Opened(queue, queue', x)
  BY ExpandQueue DEF OrderInv
<1> HIDE DEF x
<1>2. QueueSorted'
  <2> SUFFICES ASSUME NEW i \in DOMAIN queue', NEW j \in DOMAIN queue', i < j
               PROVE  \/ queue'[i].n < queue'[j].n
                      \/ /\ queue'[i].n = queue'[j].n /\ 0 <= queue'[i].c
                         /\ queue'[i].c < queue'[j].c
    BY DEF QueueSorted
  <2>1. i \in Nat /\ j \in Nat /\ Len(x) \in Nat
    BY <1>1 DEF Opened
  <2>2. CASE i \in DOMAIN x /\ j \in DOMAIN x
    BY <1>1, <2>1, <2>2 DEF Opened
  <2>3. CASE /\ i \in DOMAIN x /\ j > Len(x) /\ j - Len(x) + 1 \in DOMAIN queue
             /\ queue'[j] = queue[j - Len(x) + 1]
    <3>1. 1 < j - Len(x) + 1
      BY <2>1, <2>3
    <3>2. QED
      BY <1>1, <2>3, <3>1 DEF Opened
  <2>4. CASE /\ i > Len(x) /\ i - Len(x) + 1 \in DOMAIN queue
             /\ j - Len(x) + 1 \in DOMAIN queue
             /\ queue'[i] = queue[i - Len(x) + 1]
             /\ queue'[j] = queue[j - Len(x) + 1]
    <3>1. i - Len(x) + 1 < j - Len(x) + 1
      BY <2>1
    <3>2. QED
      BY <2>4, <3>1 DEF OrderInv, QueueSorted
  <2>5. ~(i > Len(x) /\ j \in DOMAIN x)
    BY <1>1, <2>1 DEF Opened
  <2>6. QED
    BY <1>1, <2>2, <2>3, <2>4, <2>5 DEF Opened
<1>3. ASSUME NEW i \in DOMAIN commits
      PROVE  \A j \in DOMAIN queue' : Before(commits[i].id, Id(queue'[j]))
  <2>1. commits[i] \in CommitType /\ queue \in Seq(EntryType)
    BY DEF TypeInv
  <2>2. commits[i].id \in Nat \X Int
    BY <2>1 DEF CommitType
  <2>3. \A j \in DOMAIN queue : Before(commits[i].id, Id(queue[j]))
    BY DEF OrderInv
  <2>4. QED
    BY <1>1, <2>1, <2>2, <2>3, OpenedAfter
<1>4. commits' = commits
  BY DEF Expand
<1>5. QED
  BY <1>2, <1>3, <1>4 DEF OrderInv, CommitsInOrder

(* One step of the graph.                                                  *)
LEMMA OrderStep ==
  TypeInv /\ PhaseInv /\ OrderInv /\ [Next]_vars_ => OrderInv'
<1> SUFFICES ASSUME TypeInv, PhaseInv, OrderInv, [Next]_vars_ PROVE OrderInv'
  OBVIOUS
<1>1. ASSUME queue' = queue, commits' = commits PROVE OrderInv'
  BY <1>1 DEF OrderInv, QueueSorted, CommitsInOrder
<1>2. ASSUME NEW p \in Seq(PlanStep), Numbered(p), Enter(p), walk = "idle",
             goal' = goal, node' = "executor"
      PROVE  OrderInv'
  <2>1. /\ commits' = <<>> /\ DOMAIN queue' = DOMAIN p
        /\ \A i \in DOMAIN queue' : queue'[i].n = i /\ queue'[i].c = -1
    BY <1>2, EnterType
  <2>2. DOMAIN <<>> = {}
    BY EmptySeq
  <2>3. QueueSorted'
    BY <2>1 DEF QueueSorted
  <2>4. QED
    BY <2>1, <2>2, <2>3 DEF OrderInv, CommitsInOrder
<1>3. CASE Confirm
  <2>1. walk = "idle" /\ goal' = goal /\ plan \in Seq(PlanStep) /\ Numbered(plan)
    BY <1>3 DEF Confirm, PhaseInv, TypeInv, TypeOK
  <2>2. QED
    BY <1>1, <1>2, <1>3, <2>1 DEF Confirm, executorVars
<1>4. CASE Resume
  <2>1. PICK p \in StoredPlans : Enter(p)
    BY <1>4 DEF Resume
  <2>2. p \in Seq(PlanStep) /\ Numbered(p)
    BY <2>1, StoredPlanType
  <2>3. walk = "idle" /\ goal' = goal /\ node' = "executor"
    BY <1>4 DEF Resume, graphVars
  <2>4. QED
    BY <1>2, <2>1, <2>2, <2>3
<1>5. CASE Executor
  <2>1. CASE Expand
    BY <2>1, ExpandStep
  <2>2. CASE SkipBlocked
    BY <2>2, CommitStep DEF SkipBlocked
  <2>3. CASE \E r \in Results : CallSucceeds(r)
    BY <2>3, CommitStep DEF CallSucceeds, Callable, Runnable
  <2>4. CASE RefuseArgs \/ HaltForApproval \/ CallFails \/ Finish
    BY <1>1, <2>4 DEF RefuseArgs, HaltForApproval, CallFails, Finish
  <2>5. QED
    BY <1>5, <2>1, <2>2, <2>3, <2>4 DEF Executor, Execute
<1>6. CASE \/ ExtractGoal \/ Planner \/ LeaveExecutor \/ Summarize \/ Fallback
           \/ UNCHANGED vars_
  BY <1>1, <1>6 DEF ExtractGoal, Planner, LeaveExecutor, Summarize, Fallback,
     vars_, executorVars
<1>7. QED
  BY <1>3, <1>4, <1>5, <1>6 DEF Next, Step, Stay

(* Commits follow the plan, and the lists its steps expand over, whatever  *)
(* the plan, the lists and the failures.                                   *)
THEOREM CommitsFollowPlan == Spec => []CommitsInOrder
<1>1. Init => OrderInv
  <2>1. DOMAIN <<>> = {}
    BY EmptySeq
  <2>2. QED
    BY <2>1 DEF Init, OrderInv, QueueSorted, CommitsInOrder
<1>2. OrderInv => CommitsInOrder
  BY DEF OrderInv
<1>3. QED
  BY <1>1, <1>2, TypeInit, TypeStep, OrderStep, PTL DEF Spec

-----------------------------------------------------------------------------
(* -- gating ------------------------------------------------------------------ *)

(* A set of calls that has a last one: the one nearest to their end.       *)
HasTop(S) == S = {} \/ \E j \in S : \A k \in S : k <= j

(* Any set of calls that is not empty has one.                             *)
LEMMA CallsHaveTop ==
  ASSUME NEW D, NEW cs \in Seq(D), NEW S \in SUBSET DOMAIN cs
  PROVE  HasTop(S)
<1> DEFINE T == {Len(cs) - j : j \in S}
<1>1. Len(cs) \in Nat /\ \A j \in S : j \in Nat /\ j <= Len(cs)
  OBVIOUS
<1> SUFFICES ASSUME S # {} PROVE \E j \in S : \A k \in S : k <= j
  BY DEF HasTop
<1>2. T \subseteq Nat /\ T # {}
  BY <1>1
<1>3. PICK n \in T : \A m \in T : n <= m
  <2> HIDE DEF T
  <2>1. QED
    BY <1>2, Least
<1>4. PICK j \in S : n = Len(cs) - j
  BY <1>3
<1>5. ASSUME NEW k \in S PROVE k <= j
  <2>1. Len(cs) - k \in T /\ k \in Nat /\ j \in Nat
    BY <1>1
  <2> HIDE DEF T
  <2>2. Len(cs) - j <= Len(cs) - k
    BY <1>3, <1>4, <2>1
  <2>3. QED
    BY <1>1, <2>1, <2>2
<1>6. QED
  BY <1>5

(* The calls for a step before the i-th, and the last of a set of calls.   *)
Past(cs, n, i) == {j \in 1 .. (i - 1) : cs[j].id[1] = n}
Top(S) == CHOOSE j \in S : \A k \in S : k <= j

(* The last of a set of calls is one of them.                              *)
LEMMA TopIs ==
  ASSUME NEW S, HasTop(S), S # {}
  PROVE  Top(S) \in S
<1>1. \E j \in S : \A k \in S : k <= j
  BY DEF HasTop
<1>2. QED
  BY <1>1 DEF Top

(* A further call leaves what was last found before it, and becomes what   *)
(* its own step last found.                                                *)
LEMMA LastFoundAppend ==
  ASSUME NEW cs \in Seq(CallType), NEW c \in CallType,
         NEW n \in Int
  PROVE  LET ds == Append(cs, c)
             l == Len(cs) + 1
         IN  /\ \A i \in 1 .. l : LastFoundOf(ds, n, i) = LastFoundOf(cs, n, i)
             /\ LastFoundOf(ds, n, l + 1) =
                  IF c.id[1] = n THEN c.found ELSE LastFoundOf(cs, n, l)
             /\ \A i \in 1 .. l : LastFoundOf(cs, n, i) \in Int
<1> DEFINE ds == Append(cs, c)
           l == Len(cs) + 1
<1>1. /\ l \in Nat /\ l >= 1 /\ DOMAIN cs = 1 .. (l - 1) /\ DOMAIN ds = 1 .. l
      /\ ds[l] = c /\ \A j \in 1 .. (l - 1) : ds[j] = cs[j]
  OBVIOUS
<1>2. \A s, i : LastFoundOf(s, n, i) = IF Past(s, n, i) = {} THEN 1
                                    ELSE s[Top(Past(s, n, i))].found
  BY DEF LastFoundOf, Past, Top
<1> HIDE DEF ds, l
<1>3. ASSUME NEW S \in SUBSET DOMAIN cs, S # {}
      PROVE  Top(S) \in S
  BY <1>3, CallsHaveTop, TopIs
<1>4. ASSUME NEW i \in 1 .. l
      PROVE  /\ LastFoundOf(ds, n, i) = LastFoundOf(cs, n, i)
             /\ LastFoundOf(cs, n, i) \in Int
  <2>1. Past(ds, n, i) = Past(cs, n, i) /\ Past(cs, n, i) \in SUBSET DOMAIN cs
    BY <1>1, <1>4 DEF Past
  <2>2. CASE Past(cs, n, i) = {}
    BY <1>2, <2>1, <2>2
  <2>3. CASE Past(cs, n, i) # {}
    <3>1. Top(Past(cs, n, i)) \in DOMAIN cs
      BY <1>3, <2>1, <2>3
    <3> DEFINE t == Top(Past(cs, n, i))
    <3>2. ds[t] = cs[t] /\ cs[t] \in CallType
      BY <1>1, <3>1
    <3>3. cs[t].found \in Int
      BY <3>2 DEF CallType
    <3>4. QED
      BY <1>2, <2>1, <2>3, <3>2, <3>3
  <2>4. QED
    BY <2>2, <2>3
<1>5. CASE c.id[1] = n
  <2>1. l \in Past(ds, n, l + 1) /\ \A k \in Past(ds, n, l + 1) : k <= l
    BY <1>1, <1>5 DEF Past
  <2>2. Top(Past(ds, n, l + 1)) = l
    <3> DEFINE S == Past(ds, n, l + 1)
    <3>1. Past(ds, n, l + 1) \subseteq Nat
      BY <1>1 DEF Past
    <3> HIDE DEF S
    <3>2. S \subseteq Nat /\ l \in S /\ \A k \in S : k <= l
      BY <2>1, <3>1 DEF S
    <3>3. \A j \in S : (\A k \in S : k <= j) => j = l
      <4>1. l \in Nat
        BY <1>1
      <4>2. ASSUME NEW j \in S, \A k \in S : k <= j PROVE j = l
        <5>1. j \in Nat /\ l <= j /\ j <= l
          BY <3>2, <4>2
        <5>2. QED
          BY <4>1, <5>1
      <4>3. QED
        BY <4>2
    <3>4. Top(S) = l
      BY <3>2, <3>3 DEF Top
    <3>5. QED
      BY <3>4 DEF S
  <2>3. LastFoundOf(ds, n, l + 1) = c.found
    BY <1>1, <1>2, <2>1, <2>2
  <2>4. QED
    BY <1>4, <1>5, <2>3 DEF ds, l
<1>6. CASE c.id[1] # n
  <2>1. Past(ds, n, l + 1) = Past(ds, n, l)
    BY <1>1, <1>6 DEF Past
  <2>2. LastFoundOf(ds, n, l + 1) = LastFoundOf(ds, n, l)
    BY <1>2, <2>1
  <2>3. l \in 1 .. l
    BY <1>1
  <2>4. QED
    BY <1>4, <1>6, <2>2, <2>3 DEF ds, l
<1>7. QED
  BY <1>5, <1>6

(* What the executor remembers of empty results is what the calls found.   *)
FoundInv ==
  /\ walk # "failed" => \A n \in DOMAIN plan :
       n \in empty <=> LastFoundOf(calls, n, Len(calls) + 1) <= 0
  /\ NothingFoundNothingDone

(* Without calls there is nothing to remember.                             *)
LEMMA FoundNothing == \A n : LastFoundOf(<<>>, n, Len(<<>>) + 1) = 1
<1> SUFFICES ASSUME NEW n PROVE LastFoundOf(<<>>, n, Len(<<>>) + 1) = 1
  OBVIOUS
<1>1. DOMAIN <<>> = {} /\ Len(<<>>) = 0
  BY EmptySeq
<1>2. {j \in 1 .. (Len(<<>>) + 1 - 1) : <<>>[j].id[1] = n} = {}
  BY <1>1
<1>3. QED
  BY <1>2 DEF LastFoundOf

(* A call is made for a step whose predecessor is not known to be empty.   *)
LEMMA FoundCall ==
  ASSUME TypeInv, FoundInv, walk = "walking", Ready, ~Many, ~Blocked(Current),
         NEW r, r.field \in Fields \cup {NoField}, r.size \in Int,
         calls' = Append(calls, Call(Current, r))
  PROVE  /\ NothingFoundNothingDone' /\ Current.n \in DOMAIN plan
         /\ \A n \in DOMAIN plan : LastFoundOf(calls', n, Len(calls') + 1) =
              IF n = Current.n THEN r.size
              ELSE LastFoundOf(calls, n, Len(calls) + 1)
<1> DEFINE c == Call(Current, r)
           m == Current.n
           l == Len(calls) + 1
<1>1. Current \in EntryType /\ m \in DOMAIN plan
  BY CurrentType
<1>2. c \in CallType /\ c.id[1] = m /\ c.found = r.size
  BY <1>1, RecordType
<1>3. calls' = Append(calls, c) /\ calls \in Seq(CallType)
  BY DEF TypeInv
<1>4. plan \in Seq(PlanStep) /\ DOMAIN plan = 1 .. Len(plan) /\ Len(plan) \in Nat
  BY DEF TypeInv, TypeOK
<1>5. plan[m].dep = m - 1 /\ m \in Nat
  BY <1>1, <1>4 DEF TypeInv, Numbered
<1>6. m - 1 \notin empty
  BY <1>5 DEF Blocked
<1> HIDE DEF c, m
<1>7. /\ l \in Nat /\ l >= 1 /\ DOMAIN calls = 1 .. (l - 1) /\ DOMAIN calls' = 1 .. l
      /\ calls'[l] = c /\ \A j \in 1 .. (l - 1) : calls'[j] = calls[j]
      /\ Len(calls') = l
  BY <1>2, <1>3
<1>9. ASSUME NEW n \in Int
      PROVE  /\ \A i \in 1 .. l : LastFoundOf(calls', n, i) = LastFoundOf(calls, n, i)
             /\ LastFoundOf(calls', n, l + 1) =
                  IF m = n THEN c.found ELSE LastFoundOf(calls, n, l)
             /\ \A i \in 1 .. l : LastFoundOf(calls, n, i) \in Int
  <2>1. c.id[1] = m /\ c \in CallType
    BY <1>2
  <2>2. calls \in Seq(CallType) /\ n \in Int
    BY <1>3, <1>9
  <2> HIDE DEF l
  <2>3. LET ds == Append(calls, c)
            k == Len(calls) + 1
        IN  /\ \A i \in 1 .. k : LastFoundOf(ds, n, i) = LastFoundOf(calls, n, i)
            /\ LastFoundOf(ds, n, k + 1) =
                 IF c.id[1] = n THEN c.found ELSE LastFoundOf(calls, n, k)
            /\ \A i \in 1 .. k : LastFoundOf(calls, n, i) \in Int
    BY <2>1, <2>2, LastFoundAppend
  <2>4. l = Len(calls) + 1
    BY DEF l
  <2>5. QED
    BY <1>3, <2>1, <2>3, <2>4
<1>10. m > 1 => LastFoundOf(calls, m - 1, l) > 0
  <2> SUFFICES ASSUME m > 1 PROVE LastFoundOf(calls, m - 1, l) > 0
    OBVIOUS
  <2>1. m - 1 \in DOMAIN plan /\ m - 1 \in Int
    BY <1>1, <1>4, <1>5 DEF m
  <2>2. ~(LastFoundOf(calls, m - 1, l) <= 0)
    BY <1>6, <2>1 DEF FoundInv
  <2>3. l \in 1 .. l
    BY <1>7
  <2>4. LastFoundOf(calls, m - 1, l) \in Int
    BY <1>9, <2>1, <2>3
  <2>5. QED
    BY <2>2, <2>4
<1>11. NothingFoundNothingDone'
  <2> SUFFICES ASSUME NEW i \in 1 .. l, calls'[i].id[1] > 1
               PROVE  LastFoundOf(calls', calls'[i].id[1] - 1, i) > 0
    BY <1>7 DEF NothingFoundNothingDone
  <2>1. CASE i = l
    <3>1. calls'[i].id[1] = m /\ m - 1 \in Int
      BY <1>2, <1>5, <1>7, <2>1
    <3>2. LastFoundOf(calls', m - 1, l) = LastFoundOf(calls, m - 1, l)
      BY <1>7, <1>9, <3>1
    <3>3. QED
      BY <1>10, <2>1, <3>1, <3>2
  <2>2. CASE i \in 1 .. (l - 1)
    <3>1. calls'[i] = calls[i] /\ i \in DOMAIN calls
      BY <1>7, <2>2
    <3>2. calls[i].id[1] \in Int
      <4>1. calls[i] \in CallType
        BY <1>3, <3>1
      <4>2. calls[i].id \in Nat \X Int
        BY <4>1 DEF CallType
      <4>3. QED
        BY <4>2
    <3>3. LastFoundOf(calls, calls[i].id[1] - 1, i) > 0
      BY <3>1 DEF FoundInv, NothingFoundNothingDone
    <3> DEFINE n == calls[i].id[1] - 1
    <3>4. n \in Int
      BY <3>2
    <3> HIDE DEF n
    <3>5. LastFoundOf(calls', n, i) = LastFoundOf(calls, n, i)
      BY <1>9, <3>4
    <3>6. QED
      BY <3>1, <3>3, <3>5 DEF n
  <2>3. QED
    BY <1>7, <2>1, <2>2
<1>12. \A n \in DOMAIN plan : LastFoundOf(calls', n, Len(calls') + 1) =
              IF n = m THEN r.size ELSE LastFoundOf(calls, n, l)
  <2> TAKE n \in DOMAIN plan
  <2>1. n \in Int
    BY <1>4
  <2>2. QED
    BY <1>2, <1>7, <1>9, <2>1
<1>13. QED
  BY <1>1, <1>11, <1>12 DEF m

(* What the executor believes empty was found so, through every step.      *)
LEMMA FoundStep ==
  TypeInv /\ PhaseInv /\ FoundInv /\ [Next]_vars_ => FoundInv'
<1> SUFFICES ASSUME TypeInv, PhaseInv, FoundInv, [Next]_vars_ PROVE FoundInv'
  OBVIOUS
<1>1. ASSUME calls' = calls, empty' = empty, plan' = plan,
             walk' = "failed" \/ walk # "failed"
      PROVE  FoundInv'
  BY <1>1 DEF FoundInv, NothingFoundNothingDone
<1>2. ASSUME calls' = <<>>, empty' = {} PROVE FoundInv'
  <2>1. NothingFoundNothingDone'
    BY <1>2, FoundNothing, EmptySeq DEF NothingFoundNothingDone
  <2>2. \A n \in DOMAIN plan' : ~(LastFoundOf(calls', n, Len(calls') + 1) <= 0)
    BY <1>2, FoundNothing
  <2>3. QED
    BY <1>2, <2>1, <2>2 DEF FoundInv
<1>3. CASE Planner
  BY <1>2, <1>3 DEF Planner, PhaseInv
<1>4. CASE Confirm
  <2>1. CASE UNCHANGED executorVars
    BY <1>1, <2>1, <1>4 DEF executorVars, Confirm, PhaseInv
  <2>2. CASE Enter(plan)
    BY <1>2, <1>4, <2>2 DEF Enter, Confirm, PhaseInv
  <2>3. QED
    BY <1>4, <2>1, <2>2 DEF Confirm
<1>5. CASE Resume
  BY <1>2, <1>5 DEF Resume, Enter, PhaseInv
<1>6. CASE Executor
  <2>1. walk = "walking" /\ plan' = plan
    BY <1>6, ExecuteType DEF Executor
  <2>2. CASE \E r \in Results : CallSucceeds(r)
    <3>1. PICK r \in Results : CallSucceeds(r)
      BY <2>2
    <3>2. /\ r.field \in Fields \cup {NoField} /\ r.size \in Int /\ Ready /\ ~Many
          /\ ~Blocked(Current) /\ calls' = Append(calls, Call(Current, r))
      BY <3>1, ResultType DEF CallSucceeds, Callable, Runnable
    <3>3. /\ NothingFoundNothingDone' /\ Current.n \in DOMAIN plan
          /\ \A n \in DOMAIN plan : LastFoundOf(calls', n, Len(calls') + 1) =
               IF n = Current.n THEN r.size
               ELSE LastFoundOf(calls, n, Len(calls) + 1)
      BY <2>1, <3>2, FoundCall
    <3>4. empty' = IF r.size > 0 THEN empty \ {Current.n} ELSE empty \cup {Current.n}
      BY <3>1 DEF CallSucceeds, ComputeHasOutput
    <3>5. \A n \in DOMAIN plan :
            n \in empty <=> LastFoundOf(calls, n, Len(calls) + 1) <= 0
      BY <2>1 DEF FoundInv
    <3>6. \A n \in DOMAIN plan :
            n \in empty' <=> LastFoundOf(calls', n, Len(calls') + 1) <= 0
      <4> TAKE n \in DOMAIN plan
      <4>1. CASE n = Current.n
        BY <3>2, <3>3, <3>4, <4>1
      <4>2. CASE n # Current.n
        BY <3>3, <3>4, <3>5, <4>2
      <4>3. QED
        BY <4>1, <4>2
    <3>7. QED
      BY <2>1, <3>3, <3>6 DEF FoundInv
  <2>3. CASE CallFails
    <3> DEFINE r == [field |-> NoField, size |-> NotAList]
    <3>1. r.field = NoField /\ r.size \in Int
      BY DEF NotAList
    <3>2. /\ Ready /\ ~Many /\ ~Blocked(Current) /\ walk' = "failed"
          /\ calls' = Append(calls, Call(Current, r))
      BY <2>3 DEF CallFails, Callable, Runnable
    <3> HIDE DEF r
    <3>3. NothingFoundNothingDone'
      BY <2>1, <3>1, <3>2, FoundCall
    <3>4. QED
      BY <3>2, <3>3 DEF FoundInv
  <2>4. CASE Expand \/ SkipBlocked \/ RefuseArgs \/ HaltForApproval \/ Finish
    BY <1>1, <2>1, <2>4 DEF Expand, SkipBlocked, RefuseArgs, HaltForApproval, Finish
  <2>5. QED
    BY <1>6, <2>2, <2>3, <2>4 DEF Executor, Execute
<1>7. CASE \/ ExtractGoal \/ LeaveExecutor \/ Summarize \/ Fallback
           \/ UNCHANGED vars_
  BY <1>1, <1>7 DEF ExtractGoal, LeaveExecutor, Summarize, Fallback,
     vars_, executorVars
<1>8. QED
  BY <1>3, <1>4, <1>5, <1>6, <1>7 DEF Next, Step, Stay

(* No tool is called for a step after the step before it found nothing,    *)
(* however the results of an expansion's children follow one another.      *)
THEOREM EmptyResultStopsTheNext == Spec => []NothingFoundNothingDone
<1>1. Init => FoundInv
  <2>1. DOMAIN <<>> = {}
    BY EmptySeq
  <2>2. QED
    BY <2>1, FoundNothing DEF Init, FoundInv, NothingFoundNothingDone
<1>2. FoundInv => NothingFoundNothingDone
  BY DEF FoundInv
<1>3. QED
  BY <1>1, <1>2, TypeInit, TypeStep, FoundStep, PTL DEF Spec

-----------------------------------------------------------------------------
(* -- every step accounted for ---------------------------------------------- *)

(* The size of the list that the last of the calls S left for f.           *)
LastSize(cs, S, f) ==
  IF S = {} \/ cs[Top(S)].field # f THEN NotAList ELSE cs[Top(S)].found
Binds(f) == {i \in DOMAIN calls : f \in plan[calls[i].id[1]].binds}

QueuedIn(q, n) == {q[i].c : i \in {j \in DOMAIN q : q[j].n = n}}
Queued(n) == QueuedIn(queue, n)
Waiting(n) == Queued(n) = {-1} /\ CommitsOf(n) = {}

(* While the plan is walked the variables hold what the calls left in them,*)
(* and a step either waits, queued itself and untouched, or what is        *)
(* committed and queued of it together is what it expands into.            *)
Accounted ==
  /\ \A f \in Fields : vars[f] = LastSize(calls, Binds(f), f)
  /\ \A i \in DOMAIN calls :
       /\ calls[i].id[1] \in DOMAIN plan /\ calls[i].id[2] >= -1
       /\ \A j \in DOMAIN queue : Before(calls[i].id, Id(queue[j]))
  /\ \A i \in DOMAIN commits : commits[i].id[2] >= -1
  /\ \A i \in DOMAIN queue :
       /\ queue[i].binds = plan[queue[i].n].binds
       /\ queue[i].c = -1 => queue[i].on = plan[queue[i].n].on
       /\ queue[1].n < queue[i].n => queue[i].c = -1
  /\ \A n \in DOMAIN plan : Waiting(n) \/ CommitsOf(n) \cup Queued(n) = Children(n)

AccountInv ==
  /\ walk = "idle" => vars = [f \in Fields |-> NotAList]
  /\ walk = "done" => queue = <<>>
  /\ walk \in {"walking", "done"} => Accounted

(* What a step expands into is read off the list its variable was left.    *)
LEMMA ChildrenAre ==
  ASSUME NEW n
  PROVE  LET k == LastSize(calls, Binders(n), plan[n].on)
         IN  Children(n) = IF k <= 0 THEN {-1} ELSE 0 .. (k - 1)
  BY DEF Children, LastSize, Top, NotAList

(* What a set of calls left in a variable is a size, or no list.           *)
LEMMA LastSizeType ==
  ASSUME NEW cs \in Seq(CallType), NEW f, NEW S \in SUBSET DOMAIN cs
  PROVE  LastSize(cs, S, f) \in Int
<1>1. CASE S = {}
  BY <1>1 DEF LastSize, NotAList
<1>2. CASE S # {}
  <2>1. Top(S) \in DOMAIN cs
    BY <1>2, CallsHaveTop, TopIs
  <2>2. cs[Top(S)] \in CallType
    BY <2>1
  <2>3. cs[Top(S)].found \in Int
    BY <2>2 DEF CallType
  <2>4. QED
    BY <2>3 DEF LastSize, NotAList
<1>3. QED
  BY <1>1, <1>2

(* A further call becomes the last of a set it joins.                      *)
LEMMA TopOfMore ==
  ASSUME NEW S \in SUBSET Nat, NEW l \in Nat, \A k \in S : k < l
  PROVE  Top(S \cup {l}) = l
<1> DEFINE R == S \cup {l}
<1>1. R \subseteq Nat /\ l \in R /\ \A k \in R : k <= l
  OBVIOUS
<1> HIDE DEF R
<1>2. \A j \in R : (\A k \in R : k <= j) => j = l
  BY <1>1
<1>3. Top(R) = l
  BY <1>1, <1>2 DEF Top
<1>4. QED
  BY <1>3 DEF R

(* At the head of the queue all calls so far are calls of earlier steps,   *)
(* so that the variable a step expands over is the one its children are    *)
(* counted by.                                                             *)
LEMMA HeadChildren ==
  ASSUME TypeInv, PhaseInv, Accounted, Ready, Head1.c = -1
  PROVE  LET k == IF Head1.on = NoField THEN NotAList ELSE vars[Head1.on]
         IN  /\ k \in Int
             /\ Children(Head1.n) = IF k <= 0 THEN {-1} ELSE 0 .. (k - 1)
<1> DEFINE n == Head1.n
           f == Head1.on
<1>1. queue # <<>> /\ Head1 \in EntryType /\ 1 \in DOMAIN queue
  BY DEF Ready, TypeInv, Head1
<1>2. f = plan[n].on /\ n \in DOMAIN plan /\ n \in Nat /\ f \in Fields \cup {NoField}
  BY <1>1 DEF Accounted, Head1, TypeInv, QueueOfPlan, EntryType
<1>3. ASSUME NEW i \in DOMAIN calls
      PROVE  calls[i].id[1] \in Nat /\ calls[i].id[1] < n
  <2>1. calls[i] \in CallType
    BY DEF TypeInv
  <2>2. calls[i].id \in Nat \X Int
    BY <2>1 DEF CallType
  <2>3. Before(calls[i].id, Id(queue[1])) /\ calls[i].id[2] >= -1
    BY <1>1 DEF Accounted
  <2>4. Id(queue[1]) = <<n, -1>>
    BY DEF Id, Head1
  <2>5. QED
    BY <1>2, <2>2, <2>3, <2>4 DEF Before
<1>4. Binders(n) = Binds(f)
  BY <1>2, <1>3 DEF Binders, Binds
<1> HIDE DEF n, f
<1>5. CASE f = NoField
  <2>1. Binds(f) = {}
    <3>1. ASSUME NEW i \in DOMAIN calls, calls[i].id[1] \in DOMAIN plan
          PROVE  NoField \notin plan[calls[i].id[1]].binds
      <4>1. plan[calls[i].id[1]] \in PlanStep
        BY <3>1 DEF TypeInv, TypeOK
      <4>2. QED
        BY <4>1, PlanAssumption DEF PlanStep
    <3>2. \A i \in DOMAIN calls : calls[i].id[1] \in DOMAIN plan
      BY DEF Accounted
    <3>3. QED
      BY <1>5, <3>1, <3>2 DEF Binds
  <2>2. LastSize(calls, Binders(n), plan[n].on) = NotAList
    BY <1>4, <2>1 DEF LastSize
  <2>3. QED
    BY <1>5, <2>2, ChildrenAre DEF NotAList, n, f
<1>6. CASE f # NoField
  <2>1. f \in Fields /\ vars[f] \in Int /\ vars[f] = LastSize(calls, Binds(f), f)
    BY <1>2, <1>6, ExecutorAssumption DEF Accounted, TypeInv, TypeOK, Sizes, NotAList
  <2>2. LastSize(calls, Binders(n), plan[n].on) = vars[f]
    BY <1>2, <1>4, <2>1
  <2>3. QED
    BY <1>6, <2>1, <2>2, ChildrenAre DEF n, f
<1>7. QED
  BY <1>5, <1>6

(* Expanding the head queues exactly its children.                         *)
LEMMA AccountExpand ==
  ASSUME TypeInv, PhaseInv, OrderInv, Accounted, Expand
  PROVE  Accounted'
<1> DEFINE x == ExpandStepForArray(Head1)
           m == Head1.n
           k == IF Head1.on = NoField THEN NotAList ELSE vars[Head1.on]
<1>1. Opened(queue, queue', x)
  BY ExpandQueue DEF OrderInv
<1>2. /\ plan' = plan /\ calls' = calls /\ commits' = commits /\ vars' = vars
      /\ Ready /\ queue \in Seq(EntryType) /\ Head1 = queue[1]
  BY DEF Expand, TypeInv, Head1
<1>3. Head1.c = -1 /\ Head1.n \in Int /\ Head1.on # NoField
  BY <1>1, <1>2 DEF Opened
<1>4. k \in Int /\ Children(m) = IF k <= 0 THEN {-1} ELSE 0 .. (k - 1)
  BY <1>2, <1>3, HeadChildren
<1>0. x = IF k <= 0 THEN <<Head1>> ELSE [i \in 1 .. k |-> Entry(Head1, i - 1, "item")]
  BY DEF ExpandStepForArray
<1> HIDE DEF x, k, m
<1>5. Len(x) = k /\ k > 1
  <2>1. k \in Int
    BY <1>4
  <2>2. Len(x) > 1 /\ Len(x) \in Nat /\ DOMAIN x = 1 .. Len(x)
    BY <1>1 DEF Opened
  <2>3. k > 0
    <3>1. Len(<<Head1>>) = 1
      OBVIOUS
    <3>2. QED
      BY <1>4, <1>0, <2>2, <3>1
  <2>4. DOMAIN x = 1 .. k
    BY <1>4, <1>0, <2>3
  <2>5. Len(x) \in DOMAIN x /\ k \in DOMAIN x
    BY <1>4, <2>2, <2>3, <2>4
  <2>6. Len(x) <= k /\ k <= Len(x)
    BY <1>4, <2>2, <2>4, <2>5
  <2>7. Len(x) = k
    <3>1. \A a, b \in Int : a <= b /\ b <= a => a = b
      OBVIOUS
    <3>2. Len(x) \in Int
      BY <2>2
    <3>3. QED
      BY <2>1, <2>6, <3>1, <3>2
  <2>8. QED
    BY <2>2, <2>7
<1>6. ASSUME NEW i \in DOMAIN calls, NEW j \in DOMAIN queue'
      PROVE  Before(calls[i].id, Id(queue'[j]))
  <2>1. calls[i] \in CallType
    BY DEF TypeInv
  <2>2. calls[i].id \in Nat \X Int
    BY <2>1 DEF CallType
  <2>3. \A a \in DOMAIN queue : Before(calls[i].id, Id(queue[a]))
    BY DEF Accounted
  <2>4. QED
    BY <1>1, <1>2, <2>2, <2>3, OpenedAfter
<1>7. ASSUME NEW i \in DOMAIN queue'
      PROVE  /\ queue'[i].binds = plan[queue'[i].n].binds
             /\ queue'[i].c = -1 => queue'[i].on = plan[queue'[i].n].on
             /\ queue'[1].n < queue'[i].n => queue'[i].c = -1
  <2>1. /\ queue'[1].n = queue[1].n /\ 1 \in DOMAIN queue /\ i \in Nat /\ Len(x) \in Nat
        /\ queue[1].n \in Int
    BY <1>1 DEF Opened
  <2>2. CASE i \in DOMAIN x /\ queue'[i] = x[i]
    <3>1. x[i].n = queue[1].n /\ x[i].c = i - 1 /\ x[i].binds = queue[1].binds /\ i >= 1
      BY <1>1, <2>2 DEF Opened
    <3>2. QED
      BY <2>1, <2>2, <3>1 DEF Accounted
  <2>3. CASE i - Len(x) + 1 \in DOMAIN queue /\ queue'[i] = queue[i - Len(x) + 1]
    BY <2>1, <2>3 DEF Accounted
  <2>4. QED
    BY <1>1, <2>2, <2>3 DEF Opened
<1>8. \A n : CommitsOf(n)' = CommitsOf(n) /\ Children(n)' = Children(n)
             /\ \A f : Binds(f)' = Binds(f)
  BY <1>2 DEF CommitsOf, Children, Binders, Binds
<1>9. CommitsOf(m) = {}
  <2> SUFFICES ASSUME NEW i \in DOMAIN commits, commits[i].id[1] = m PROVE FALSE
    BY DEF CommitsOf
  <2>1. Before(commits[i].id, Id(queue[1])) /\ commits[i].id[2] >= -1
    BY <1>1 DEF OrderInv, Opened, Accounted
  <2>2. Id(queue[1]) = <<m, -1>> /\ m \in Int
    BY <1>2, <1>3 DEF Id, m
  <2>3. commits[i] \in CommitType
    BY DEF TypeInv
  <2>4. commits[i].id \in Nat \X Int
    BY <2>3 DEF CommitType
  <2>5. QED
    BY <2>1, <2>2, <2>4 DEF Before
<1>10. QueuedIn(queue', m) = 0 .. (k - 1)
  <2>1. ASSUME NEW i \in DOMAIN queue', queue'[i].n = m
        PROVE  i \in 1 .. k /\ queue'[i].c = i - 1
    <3>1. CASE i \in DOMAIN x /\ queue'[i] = x[i]
      BY <1>1, <1>5, <3>1 DEF Opened
    <3>2. CASE /\ i - Len(x) + 1 \in DOMAIN queue /\ i > Len(x)
               /\ queue'[i] = queue[i - Len(x) + 1]
      <4>1. 1 < i - Len(x) + 1
        BY <1>1, <3>2 DEF Opened
      <4>2. queue[1].n < queue'[i].n
        BY <1>1, <3>2, <4>1 DEF Opened
      <4>3. QED
        BY <1>2, <1>3, <2>1, <4>2 DEF m
    <3>3. QED
      BY <1>1, <3>1, <3>2 DEF Opened
  <2>2. ASSUME NEW i \in 1 .. k
        PROVE  i \in DOMAIN queue' /\ queue'[i].n = m /\ queue'[i].c = i - 1
    BY <1>1, <1>2, <1>5, <2>2 DEF Opened, m
  <2>3. {j \in DOMAIN queue' : queue'[j].n = m} = 1 .. k
    BY <2>1, <2>2
  <2>4. QueuedIn(queue', m) = {i - 1 : i \in 1 .. k}
    BY <2>2, <2>3 DEF QueuedIn
  <2>5. ASSUME NEW a \in 0 .. (k - 1) PROVE a + 1 \in 1 .. k /\ a = (a + 1) - 1
    BY <1>4
  <2>6. {i - 1 : i \in 1 .. k} = 0 .. (k - 1)
    BY <1>4, <2>5
  <2>7. QED
    BY <2>4, <2>6
<1>11. ASSUME NEW n, n # m PROVE QueuedIn(queue', n) = QueuedIn(queue, n)
  <2>1. ASSUME NEW i \in DOMAIN queue', queue'[i].n = n
        PROVE  \E j \in DOMAIN queue : queue[j].n = n /\ queue[j].c = queue'[i].c
    <3>1. CASE i \in DOMAIN x /\ queue'[i] = x[i]
      BY <1>1, <1>2, <1>11, <2>1, <3>1 DEF Opened, m
    <3>2. CASE /\ i - Len(x) + 1 \in DOMAIN queue
               /\ queue'[i] = queue[i - Len(x) + 1]
      BY <2>1, <3>2
    <3>3. QED
      BY <1>1, <3>1, <3>2 DEF Opened
  <2>2. ASSUME NEW j \in DOMAIN queue, queue[j].n = n
        PROVE  \E i \in DOMAIN queue' : queue'[i].n = n /\ queue'[i].c = queue[j].c
    <3>1. 1 < j
      BY <1>1, <1>2, <1>11, <2>2 DEF Opened, m, TypeInv
    <3>2. j + Len(x) - 1 \in DOMAIN queue' /\ queue'[j + Len(x) - 1] = queue[j]
      BY <1>1, <3>1 DEF Opened
    <3>3. QED
      BY <2>2, <3>2
  <2>3. QED
    BY <2>1, <2>2 DEF QueuedIn
<1>12. \A n \in DOMAIN plan :
         Waiting(n)' \/ CommitsOf(n)' \cup QueuedIn(queue', n) = Children(n)'
  <2> TAKE n \in DOMAIN plan
  <2>1. CASE n = m
    BY <1>4, <1>5, <1>8, <1>9, <1>10, <2>1
  <2>2. CASE n # m
    <3>1. QueuedIn(queue', n) = Queued(n) /\ CommitsOf(n)' = CommitsOf(n)
          /\ Children(n)' = Children(n)
      BY <1>8, <1>11, <2>2 DEF Queued
    <3>2. Waiting(n)' <=> QueuedIn(queue', n) = {-1} /\ CommitsOf(n)' = {}
      BY DEF Waiting, Queued
    <3>3. QED
      BY <3>1, <3>2 DEF Accounted, Waiting
  <2>3. QED
    BY <2>1, <2>2
<1>13. QED
  BY <1>2, <1>6, <1>7, <1>8, <1>12 DEF Accounted, Queued

(* Committing the current entry moves it from what is queued of its step   *)
(* to what is committed of it.                                             *)
LEMMA AccountCommit ==
  ASSUME TypeInv, PhaseInv, OrderInv, Accounted, Ready, ~Many, NEW b \in BOOLEAN,
         queue' = Tail(queue), plan' = plan,
         commits' = Append(commits, [id |-> Id(Current), skipped |-> b]),
         \A n \in DOMAIN plan : n <= Head1.n => Children(n)' = Children(n)
  PROVE  /\ \A i \in DOMAIN commits' : commits'[i].id[2] >= -1
         /\ \A i \in DOMAIN queue' :
              /\ queue'[i].binds = plan[queue'[i].n].binds
              /\ queue'[i].c = -1 => queue'[i].on = plan[queue'[i].n].on
              /\ queue'[1].n < queue'[i].n => queue'[i].c = -1
         /\ \A n \in DOMAIN plan' :
              Waiting(n)' \/ (CommitsOf(n) \cup Queued(n) = Children(n))'
<1> DEFINE c == [id |-> Id(Current), skipped |-> b]
           h == queue[1]
           k == IF h.on = NoField THEN NotAList ELSE vars[h.on]
<1>1. /\ Current \in EntryType /\ Current.n = h.n /\ queue # <<>>
      /\ 1 \in DOMAIN queue /\ h \in EntryType /\ Head1 = h
      /\ Current = h \/ (h.c = -1 /\ Current.c = 0)
  BY CurrentType DEF Head1, TypeInv
<1>2. c \in CommitType /\ c.id[1] = h.n /\ c.id[2] = Current.c
  BY <1>1 DEF Id, CommitType, EntryType
<1>3. queue \in Seq(EntryType) /\ commits \in Seq(CommitType)
      /\ commits' = Append(commits, c) /\ plan \in Seq(PlanStep)
  BY DEF TypeInv, TypeOK
<1>4. /\ DOMAIN queue' \subseteq Nat /\ DOMAIN queue \subseteq Nat
      /\ \A i \in DOMAIN queue' : /\ i + 1 \in DOMAIN queue
                                 /\ queue'[i] = queue[i + 1] /\ 1 < i + 1
      /\ \A i \in DOMAIN queue : 1 < i => /\ i - 1 \in DOMAIN queue'
                                         /\ queue'[i - 1] = queue[i]
      /\ DOMAIN queue' # {} => 2 \in DOMAIN queue /\ queue'[1] = queue[2]
  BY <1>1, <1>3
<1>5. ASSUME NEW i \in DOMAIN queue, 1 < i
      PROVE  \/ h.n < queue[i].n
             \/ h.n = queue[i].n /\ 0 <= h.c /\ h.c < queue[i].c
  BY <1>1, <1>5 DEF OrderInv, QueueSorted
<1>6. ASSUME NEW i \in DOMAIN queue
      PROVE  /\ queue[i].n \in Nat /\ queue[i].c \in Int /\ queue[i].c >= -1
             /\ queue[i].n \in DOMAIN plan
  <2>1. queue[i] \in EntryType
    BY <1>3
  <2>2. QED
    BY <2>1 DEF EntryType, TypeInv, QueueOfPlan
<1>7. Current.c >= -1 /\ Current.c \in Int
  BY <1>1, <1>6
<1> HIDE DEF c, h, k
<1>8. /\ DOMAIN commits' = DOMAIN commits \cup {Len(commits) + 1}
      /\ commits'[Len(commits) + 1] = c /\ Len(commits) + 1 \notin DOMAIN commits
      /\ \A i \in DOMAIN commits : commits'[i] = commits[i]
  BY <1>2, <1>3
<1>9. \A i \in DOMAIN commits' : commits'[i].id[2] >= -1
  BY <1>2, <1>7, <1>8 DEF Accounted
<1>10. ASSUME NEW i \in DOMAIN queue'
       PROVE  /\ queue'[i].binds = plan[queue'[i].n].binds
              /\ queue'[i].c = -1 => queue'[i].on = plan[queue'[i].n].on
              /\ queue'[1].n < queue'[i].n => queue'[i].c = -1
  <2>1. i + 1 \in DOMAIN queue /\ queue'[i] = queue[i + 1]
    BY <1>4
  <2>2. 2 \in DOMAIN queue /\ queue'[1] = queue[2]
    BY <1>4
  <2>3. h.n <= queue[2].n /\ h.n \in Nat /\ queue[2].n \in Nat /\ queue[i + 1].n \in Nat
    BY <1>1, <1>5, <1>6, <2>1, <2>2 DEF h
  <2>4. queue[1].n < queue[i + 1].n => queue[i + 1].c = -1
    BY <2>1 DEF Accounted
  <2>5. QED
    BY <2>1, <2>2, <2>3, <2>4 DEF Accounted, h
<1>11. ASSUME NEW n
       PROVE  CommitsOf(n)' = IF n = h.n THEN CommitsOf(n) \cup {Current.c}
                              ELSE CommitsOf(n)
  <2>1. CommitsOf(n)' = {commits'[i].id[2] : i \in {j \in DOMAIN commits' :
                                                commits'[j].id[1] = n}}
    BY DEF CommitsOf
  <2>2. CASE n = h.n
    <3>1. {j \in DOMAIN commits' : commits'[j].id[1] = n} =
          {j \in DOMAIN commits : commits[j].id[1] = n} \cup {Len(commits) + 1}
      BY <1>2, <1>8, <2>2
    <3>2. QED
      BY <1>2, <1>8, <2>1, <2>2, <3>1 DEF CommitsOf
  <2>3. CASE n # h.n
    <3>1. {j \in DOMAIN commits' : commits'[j].id[1] = n} =
          {j \in DOMAIN commits : commits[j].id[1] = n}
      BY <1>2, <1>8, <2>3
    <3>2. QED
      BY <1>8, <2>1, <2>3, <3>1 DEF CommitsOf
  <2>4. QED
    BY <2>2, <2>3
<1>12. ASSUME NEW n
       PROVE  Queued(n) = IF n = h.n THEN QueuedIn(queue', n) \cup {h.c}
                          ELSE QueuedIn(queue', n)
  <2>1. ASSUME NEW i \in DOMAIN queue', queue'[i].n = n
        PROVE  \E j \in DOMAIN queue : queue[j].n = n /\ queue[j].c = queue'[i].c
    BY <1>4, <2>1
  <2>2. ASSUME NEW j \in DOMAIN queue, queue[j].n = n, j # 1
        PROVE  \E i \in DOMAIN queue' : queue'[i].n = n /\ queue'[i].c = queue[j].c
    <3>1. 1 < j
      BY <1>3, <2>2
    <3>2. QED
      BY <1>4, <2>2, <3>1
  <2>3. CASE n = h.n
    <3>1. queue[1].n = n /\ queue[1].c = h.c /\ 1 \in DOMAIN queue
      BY <1>1, <2>3 DEF h
    <3>2. ASSUME NEW a \in Queued(n) PROVE a \in QueuedIn(queue', n) \cup {h.c}
      <4>1. PICK j \in DOMAIN queue : queue[j].n = n /\ queue[j].c = a
        BY DEF Queued, QueuedIn
      <4>2. QED
        BY <2>2, <3>1, <4>1 DEF QueuedIn
    <3>3. QueuedIn(queue', n) \subseteq Queued(n) /\ h.c \in Queued(n)
      BY <2>1, <3>1 DEF Queued, QueuedIn
    <3>4. QED
      BY <2>3, <3>2, <3>3
  <2>4. CASE n # h.n
    <3>1. queue[1].n # n
      BY <2>4 DEF h
    <3>2. QED
      <4>1. ASSUME NEW a \in Queued(n) PROVE a \in QueuedIn(queue', n)
        <5>1. PICK j \in DOMAIN queue : queue[j].n = n /\ queue[j].c = a
          BY DEF Queued, QueuedIn
        <5>2. j # 1
          BY <3>1, <5>1
        <5>3. QED
          BY <2>2, <5>1, <5>2 DEF QueuedIn
      <4>2. ASSUME NEW a \in QueuedIn(queue', n) PROVE a \in Queued(n)
        <5>1. PICK i \in DOMAIN queue' : queue'[i].n = n /\ queue'[i].c = a
          BY <4>2 DEF QueuedIn
        <5>2. QED
          BY <2>1, <5>1 DEF Queued, QueuedIn
      <4>3. Queued(n) = QueuedIn(queue', n)
        <5> HIDE DEF Queued, QueuedIn
        <5>1. QED
          BY <4>1, <4>2
      <4>4. QED
        BY <2>4, <4>3
  <2>5. QED
    BY <2>3, <2>4
<1>13. ASSUME NEW i \in DOMAIN commits
       PROVE  /\ commits[i].id[1] \in Nat /\ commits[i].id[2] \in Int
              /\ commits[i].id[2] >= -1 /\ commits[i].id[1] <= h.n
              /\ h.c = -1 => commits[i].id[1] # h.n
  <2>1. commits[i] \in CommitType
    BY <1>3
  <2>2. commits[i].id \in Nat \X Int
    BY <2>1 DEF CommitType
  <2>3. Before(commits[i].id, Id(queue[1])) /\ commits[i].id[2] >= -1
    BY <1>1 DEF OrderInv, Accounted
  <2>4. Id(queue[1]) = <<h.n, h.c>> /\ h.n \in Nat /\ h.c \in Int
    BY <1>1, <1>6 DEF Id, h
  <2>5. QED
    BY <2>2, <2>3, <2>4 DEF Before
<1>14. ASSUME h.c = -1
       PROVE  /\ CommitsOf(h.n) = {} /\ QueuedIn(queue', h.n) = {}
              /\ Children(h.n) = {Current.c}
  <2>1. CommitsOf(h.n) = {}
    BY <1>13, <1>14 DEF CommitsOf
  <2>2. QueuedIn(queue', h.n) = {}
    <3> SUFFICES ASSUME NEW i \in DOMAIN queue', queue'[i].n = h.n PROVE FALSE
      BY DEF QueuedIn
    <3>1. i + 1 \in DOMAIN queue /\ queue'[i] = queue[i + 1] /\ 1 < i + 1
      BY <1>4
    <3>2. h.n < queue[i + 1].n
      BY <1>5, <1>14, <3>1
    <3>3. h.n \in Nat
      BY <1>1, <1>6 DEF h
    <3>4. QED
      BY <3>1, <3>2, <3>3
  <2>3. Children(h.n) = {Current.c}
    <3>1. k \in Int /\ Children(h.n) = IF k <= 0 THEN {-1} ELSE 0 .. (k - 1)
      BY <1>1, <1>14, HeadChildren DEF k
    <3> DEFINE x == ExpandStepForArray(Head1)
    <3>2. /\ x = IF k <= 0 THEN <<Head1>>
                 ELSE [i \in 1 .. k |-> Entry(Head1, i - 1, "item")]
          /\ ~(Len(x) > 1) /\ Current = x[1]
      BY <1>1 DEF ExpandStepForArray, k, Many, Current
    <3> HIDE DEF x
    <3>3. CASE k <= 0
      <4>1. <<Head1>>[1] = Head1
        OBVIOUS
      <4>2. QED
        BY <1>1, <1>14, <3>1, <3>2, <3>3, <4>1
    <3>4. CASE k > 0
      <4>1. x = [i \in 1 .. k |-> Entry(Head1, i - 1, "item")]
        BY <3>1, <3>2, <3>4
      <4>2. Len(x) = k
        <5>1. k \in Nat
          BY <3>1, <3>4
        <5>2. QED
          BY <4>1, <5>1
      <4>3. k = 1 /\ 1 \in 1 .. k
        BY <3>1, <3>2, <3>4, <4>2
      <4>4. Current.c = 0
        BY <3>2, <4>1, <4>3 DEF Entry
      <4>5. QED
        BY <3>1, <4>3, <4>4
    <3>5. k <= 0 \/ k > 0
      BY <3>1
    <3>6. QED
      BY <3>3, <3>4, <3>5
  <2>4. QED
    BY <2>1, <2>2, <2>3
<1>15. \A n \in DOMAIN plan :
         \/ QueuedIn(queue', n) = {-1} /\ CommitsOf(n)' = {}
         \/ CommitsOf(n)' \cup QueuedIn(queue', n) = Children(n)'
  <2> TAKE n \in DOMAIN plan
  <2>1. n \in Nat /\ h.n \in Nat
    BY <1>1, <1>3, <1>6 DEF h
  <2>2. Waiting(n) \/ CommitsOf(n) \cup Queued(n) = Children(n)
    BY DEF Accounted
  <2>3. Children(n) # {}
    <3>1. \A a \in Int : ~(a <= 0) => 0 \in 0 .. (a - 1)
      OBVIOUS
    <3> DEFINE a == LastSize(calls, Binders(n), plan[n].on)
    <3>2. Children(n) = IF a <= 0 THEN {-1} ELSE 0 .. (a - 1)
      BY ChildrenAre
    <3>3. a \in Int
      <4>1. Binders(n) \in SUBSET DOMAIN calls /\ calls \in Seq(CallType)
        BY DEF Binders, TypeInv
      <4>2. QED
        BY <4>1, LastSizeType
    <3>4. QED
      BY <3>1, <3>2, <3>3
  <2>4. CASE n = h.n
    <3>1. Children(n)' = Children(n)
      BY <1>1, <2>1, <2>4
    <3>2. CASE h.c = -1
      BY <1>11, <1>14, <2>4, <3>1, <3>2
    <3>3. CASE h.c # -1
      <4>1. Current.c = h.c /\ h.c \in Queued(n)
        BY <1>1, <1>12, <2>4, <3>3
      <4>2. CommitsOf(n) \cup Queued(n) = Children(n)
        BY <2>2, <3>3, <4>1 DEF Waiting
      <4>3. QED
        BY <1>11, <1>12, <2>4, <3>1, <4>1, <4>2
    <3>4. QED
      BY <3>2, <3>3
  <2>5. CASE n < h.n
    <3>1. Children(n)' = Children(n)
      BY <1>1, <2>1, <2>5
    <3>2. QED
      BY <1>11, <1>12, <2>1, <2>2, <2>5, <3>1 DEF Waiting
  <2>6. CASE h.n < n
    <3>1. CommitsOf(n) = {}
      BY <1>13, <2>1, <2>6 DEF CommitsOf
    <3>2. Queued(n) \subseteq {-1}
      BY <2>6 DEF Queued, QueuedIn, Accounted, h
    <3>3. Queued(n) = {-1}
      BY <2>2, <2>3, <3>1, <3>2 DEF Waiting
    <3>4. QED
      BY <1>11, <1>12, <2>1, <2>6, <3>1, <3>3
  <2>7. QED
    BY <2>1, <2>4, <2>5, <2>6
<1>16. \A n \in DOMAIN plan' :
         Waiting(n)' \/ (CommitsOf(n) \cup Queued(n) = Children(n))'
  BY <1>15 DEF Waiting, Queued
<1>17. QED
  BY <1>9, <1>10, <1>16

(* A call leaves its findings in the variables its step binds, and does    *)
(* not change what earlier steps, or its own, expand into.                 *)
LEMMA AccountCall ==
  ASSUME TypeInv, PhaseInv, OrderInv, Accounted,
         NEW r \in Results, CallSucceeds(r)
  PROVE  Accounted'
<1> DEFINE c == Call(Current, r)
           l == Len(calls) + 1
           m == Current.n
<1>1. /\ Ready /\ ~Many /\ queue' = Tail(queue) /\ plan' = plan
      /\ commits' = Append(commits, [id |-> Id(Current), skipped |-> FALSE])
      /\ calls' = Append(calls, c)
  BY DEF CallSucceeds, Callable, Runnable
<1>2. /\ Current \in EntryType /\ Current.n = Head1.n /\ Current.n \in DOMAIN plan
      /\ Current.binds = Head1.binds /\ Current.c >= -1 /\ Current.c \in Int
      /\ 1 \in DOMAIN queue /\ queue \in Seq(EntryType)
  <2>1. /\ Current \in EntryType /\ Current.n = Head1.n /\ Current.n \in DOMAIN plan
        /\ Current.binds = Head1.binds /\ 1 \in DOMAIN queue
        /\ Current = Head1 \/ (Head1.c = -1 /\ Current.c = 0)
    BY <1>1, CurrentType
  <2>2. Head1.c >= -1 /\ queue \in Seq(EntryType)
    BY <2>1 DEF TypeInv, QueueOfPlan, Head1
  <2>3. Current.c \in Int
    BY <2>1 DEF EntryType
  <2>4. QED
    BY <2>1, <2>2, <2>3
<1>3. r.field \in Fields \cup {NoField} /\ r.size \in Int
  BY ResultType
<1>4. /\ c \in CallType /\ c.id = Id(Current) /\ c.found = r.size /\ c.id[1] = m
      /\ c.id[2] = Current.c
  BY <1>2, <1>3, RecordType
<1>5. c.field = r.field
  BY DEF Call
<1>6. m \in Nat /\ m \in DOMAIN plan /\ m = Head1.n
      /\ Current.binds = plan[m].binds
  <2>1. Head1.binds = plan[Head1.n].binds
    BY <1>2 DEF Accounted, Head1
  <2>2. QED
    BY <1>2, <2>1 DEF EntryType
<1> HIDE DEF c, m
<1>7. /\ calls \in Seq(CallType) /\ l \in Nat /\ DOMAIN calls = 1 .. (l - 1)
      /\ DOMAIN calls' = DOMAIN calls \cup {l} /\ calls'[l] = c /\ l \notin DOMAIN calls
      /\ \A i \in DOMAIN calls : calls'[i] = calls[i]
  BY <1>1, <1>4 DEF TypeInv
<1> HIDE DEF l
<1>8. \A i \in DOMAIN queue' : \E j \in DOMAIN queue : queue'[i] = queue[j]
  <2> TAKE i \in DOMAIN queue'
  <2>1. i + 1 \in DOMAIN queue /\ queue'[i] = queue[i + 1]
    BY <1>1, <1>2
  <2>2. QED
    BY <2>1
<1>9. \A j \in DOMAIN queue' : Before(Id(Current), Id(queue'[j]))
  BY <1>1, CommitStep
<1>10. ASSUME NEW i \in DOMAIN calls'
       PROVE  /\ calls'[i].id[1] \in DOMAIN plan /\ calls'[i].id[2] >= -1
              /\ \A j \in DOMAIN queue' : Before(calls'[i].id, Id(queue'[j]))
  <2>1. CASE i = l
    BY <1>2, <1>4, <1>6, <1>7, <1>9, <2>1
  <2>2. CASE i \in DOMAIN calls
    BY <1>7, <1>8, <2>2 DEF Accounted
  <2>3. QED
    BY <1>7, <2>1, <2>2
<1>11. ASSUME NEW n \in DOMAIN plan, n <= Head1.n
       PROVE  Children(n)' = Children(n)
  <2>1. Binders(n)' = Binders(n)
    <3>1. n \in Nat /\ ~(c.id[1] < n)
      BY <1>4, <1>6, <1>11 DEF TypeInv, TypeOK
    <3>2. QED
      BY <1>1, <1>7, <3>1 DEF Binders
  <2>2. Binders(n) \in SUBSET DOMAIN calls /\ HasTop(Binders(n))
    BY CallsHaveTop DEF Binders, TypeInv
  <2>3. CASE Binders(n) = {}
    BY <2>1, <2>3 DEF Children
  <2>4. CASE Binders(n) # {}
    <3>1. Top(Binders(n)) \in DOMAIN calls
      BY <2>2, <2>4, TopIs
    <3>2. calls'[Top(Binders(n))] = calls[Top(Binders(n))]
      BY <1>7, <3>1
    <3>3. QED
      BY <1>1, <2>1, <3>2 DEF Children, Top
  <2>5. QED
    BY <2>3, <2>4
<1>12. ASSUME NEW f \in Fields
       PROVE  vars'[f] = LastSize(calls', Binds(f)', f)
  <2>1. Binds(f) \in SUBSET DOMAIN calls /\ HasTop(Binds(f))
    BY CallsHaveTop DEF Binds, TypeInv
  <2>2. /\ LastSize(calls', Binds(f), f) = LastSize(calls, Binds(f), f)
        /\ LastSize(calls', Binds(f) \cup {l}, f) =
             IF r.field = f THEN r.size ELSE NotAList
    <3> DEFINE S == Binds(f)
    <3>1. S \in SUBSET DOMAIN calls /\ HasTop(S)
      BY <2>1
    <3>2. S \in SUBSET Nat /\ \A k \in S : k < l
      BY <1>7, <3>1
    <3> HIDE DEF S
    <3>3. S = {} \/ calls'[Top(S)] = calls[Top(S)]
      BY <1>7, <3>1, TopIs
    <3>4. LastSize(calls', S, f) = LastSize(calls, S, f)
      BY <3>3 DEF LastSize
    <3>5. Top(S \cup {l}) = l /\ S \cup {l} # {}
      BY <1>7, <3>2, TopOfMore
    <3>6. LastSize(calls', S \cup {l}, f) =
            IF c.field = f THEN c.found ELSE NotAList
      BY <1>7, <3>5 DEF LastSize
    <3>7. QED
      BY <1>4, <1>5, <3>4, <3>6 DEF S
  <2>3. vars'[f] = IF f \notin plan[m].binds THEN vars[f]
                   ELSE IF f = r.field THEN r.size ELSE NotAList
    BY <1>6 DEF CallSucceeds
  <2>4. vars[f] = LastSize(calls, Binds(f), f)
    BY DEF Accounted
  <2>5. CASE f \in plan[m].binds
    <3>1. Binds(f)' = Binds(f) \cup {l}
      BY <1>1, <1>4, <1>7, <2>5 DEF Binds
    <3>2. QED
      BY <2>2, <2>3, <2>5, <3>1
  <2>6. CASE f \notin plan[m].binds
    <3>1. Binds(f)' = Binds(f)
      BY <1>1, <1>4, <1>7, <2>6 DEF Binds
    <3>2. QED
      BY <2>2, <2>3, <2>4, <2>6, <3>1
  <2>7. QED
    BY <2>5, <2>6
<1>13. /\ \A i \in DOMAIN commits' : commits'[i].id[2] >= -1
       /\ \A i \in DOMAIN queue' :
            /\ queue'[i].binds = plan[queue'[i].n].binds
            /\ queue'[i].c = -1 => queue'[i].on = plan[queue'[i].n].on
            /\ queue'[1].n < queue'[i].n => queue'[i].c = -1
       /\ \A n \in DOMAIN plan' :
            Waiting(n)' \/ (CommitsOf(n) \cup Queued(n) = Children(n))'
  BY <1>1, <1>11, AccountCommit
<1>14. QED
  BY <1>1, <1>10, <1>12, <1>13 DEF Accounted

(* Nothing is accounted for differently while the queue stands still.      *)
LEMMA AccountedFrame ==
  ASSUME Accounted, UNCHANGED <<plan, queue, vars, commits, calls>>
  PROVE  Accounted'
<1>1. \A n : /\ CommitsOf(n)' = CommitsOf(n) /\ Queued(n)' = Queued(n)
             /\ Binds(n)' = Binds(n)
  BY DEF CommitsOf, Queued, Binds
<1>2. \A n : Children(n)' = Children(n)
  BY DEF Children, Binders
<1>3. \A n : Waiting(n)' <=> Waiting(n)
  BY <1>1 DEF Waiting
<1>4. \A f \in Fields : vars'[f] = LastSize(calls', Binds(f)', f)
  BY <1>1 DEF Accounted
<1>5. \A n \in DOMAIN plan' :
        Waiting(n)' \/ (CommitsOf(n) \cup Queued(n) = Children(n))'
  BY <1>1, <1>2, <1>3 DEF Accounted
<1>6. QED
  BY <1>4, <1>5 DEF Accounted

(* The account of the plan's steps is kept by every step of the graph.     *)
LEMMA AccountStep ==
  /\ TypeInv /\ PhaseInv /\ OrderInv /\ FoundInv /\ AccountInv
  /\ [Next]_vars_
  => AccountInv'
<1> SUFFICES ASSUME TypeInv, PhaseInv, OrderInv, FoundInv, AccountInv, [Next]_vars_
             PROVE  AccountInv'
  OBVIOUS
<1>1. ASSUME UNCHANGED executorVars PROVE AccountInv'
  BY <1>1, AccountedFrame DEF executorVars, AccountInv
<1>2. ASSUME NEW p \in Seq(PlanStep), Numbered(p), Enter(p), walk = "idle",
             goal' = goal, node' = "executor"
      PROVE  AccountInv'
  <2>1. /\ commits' = <<>> /\ calls' = <<>> /\ DOMAIN queue' = DOMAIN p /\ plan' = p
        /\ \A i \in DOMAIN queue' : queue'[i].n = i /\ queue'[i].c = -1
    BY <1>2, EnterType
  <2>2. /\ vars' = [f \in Fields |-> NotAList] /\ walk' = "walking"
        /\ \A i \in DOMAIN queue' : /\ queue'[i].on = p[i].on
                                   /\ queue'[i].binds = p[i].binds
    BY <1>2 DEF AccountInv, Enter, Entry
  <2>3. DOMAIN <<>> = {}
    BY EmptySeq
  <2>4. \A f \in Fields : vars'[f] = LastSize(calls', Binds(f)', f)
    BY <2>1, <2>2, <2>3 DEF LastSize, Binds
  <2>5. \A n \in DOMAIN plan' : Waiting(n)'
    BY <2>1, <2>3 DEF Waiting, Queued, QueuedIn, CommitsOf
  <2>6. \A i \in DOMAIN queue' :
          /\ queue'[i].binds = plan'[queue'[i].n].binds
          /\ queue'[i].c = -1 => queue'[i].on = plan'[queue'[i].n].on
          /\ queue'[1].n < queue'[i].n => queue'[i].c = -1
    BY <2>1, <2>2
  <2>7. Accounted'
    BY <2>1, <2>3, <2>4, <2>5, <2>6 DEF Accounted
  <2>8. QED
    BY <2>2, <2>7 DEF AccountInv
<1>3. CASE Planner
  BY <1>3 DEF Planner, PhaseInv, AccountInv
<1>4. CASE Confirm
  <2>1. walk = "idle" /\ goal' = goal /\ plan \in Seq(PlanStep) /\ Numbered(plan)
    BY <1>4 DEF Confirm, PhaseInv, TypeInv, TypeOK
  <2>2. QED
    BY <1>1, <1>2, <1>4, <2>1 DEF Confirm
<1>5. CASE Resume
  <2>1. PICK p \in StoredPlans : Enter(p)
    BY <1>5 DEF Resume
  <2>2. p \in Seq(PlanStep) /\ Numbered(p)
    BY <2>1, StoredPlanType
  <2>3. walk = "idle" /\ goal' = goal /\ node' = "executor"
    BY <1>5 DEF Resume, graphVars
  <2>4. QED
    BY <1>2, <2>1, <2>2, <2>3
<1>6. CASE Executor
  <2>1. walk = "walking" /\ Accounted
    BY <1>6, ExecuteType DEF Executor, AccountInv, FoundInv
  <2>2. CASE Expand
    <3>1. walk' = "walking" /\ Accounted'
      BY <2>1, <2>2, AccountExpand DEF Expand
    <3>2. QED
      BY <3>1 DEF AccountInv
  <2>3. CASE SkipBlocked
    <3>1. /\ Ready /\ ~Many /\ queue' = Tail(queue) /\ plan' = plan
          /\ commits' = Append(commits, [id |-> Id(Current), skipped |-> TRUE])
          /\ calls' = calls /\ vars' = vars /\ walk' = walk
      BY <2>3 DEF SkipBlocked
    <3>2. \A n \in DOMAIN plan : n <= Head1.n => Children(n)' = Children(n)
      BY <3>1 DEF Children, Binders
    <3>3. /\ \A i \in DOMAIN commits' : commits'[i].id[2] >= -1
          /\ \A i \in DOMAIN queue' :
               /\ queue'[i].binds = plan[queue'[i].n].binds
               /\ queue'[i].c = -1 => queue'[i].on = plan[queue'[i].n].on
               /\ queue'[1].n < queue'[i].n => queue'[i].c = -1
          /\ \A n \in DOMAIN plan' :
               Waiting(n)' \/ (CommitsOf(n) \cup Queued(n) = Children(n))'
      BY <2>1, <3>1, <3>2, AccountCommit
    <3>4. queue \in Seq(EntryType) /\ queue # <<>>
      BY <3>1 DEF TypeInv, Ready
    <3>5. \A i \in DOMAIN queue' : \E j \in DOMAIN queue : queue'[i] = queue[j]
      <4> TAKE i \in DOMAIN queue'
      <4>1. i + 1 \in DOMAIN queue /\ queue'[i] = queue[i + 1]
        BY <3>1, <3>4
      <4>2. QED
        BY <4>1
    <3>6. \A i \in DOMAIN calls' :
            /\ calls'[i].id[1] \in DOMAIN plan /\ calls'[i].id[2] >= -1
            /\ \A j \in DOMAIN queue' : Before(calls'[i].id, Id(queue'[j]))
      BY <2>1, <3>1, <3>5 DEF Accounted
    <3>7. \A f \in Fields : vars'[f] = LastSize(calls', Binds(f)', f)
      BY <2>1, <3>1 DEF Accounted, Binds
    <3>8. Accounted'
      BY <3>1, <3>3, <3>6, <3>7 DEF Accounted
    <3>9. QED
      BY <2>1, <3>1, <3>8 DEF AccountInv
  <2>4. CASE \E r \in Results : CallSucceeds(r)
    <3>1. PICK r \in Results : CallSucceeds(r)
      BY <2>4
    <3>2. walk' = "walking"
      BY <2>1, <3>1 DEF CallSucceeds
    <3>3. Accounted'
      BY <2>1, <3>1, AccountCall
    <3>4. QED
      BY <3>2, <3>3 DEF AccountInv
  <2>5. CASE RefuseArgs \/ HaltForApproval \/ CallFails
    BY <2>5 DEF RefuseArgs, HaltForApproval, CallFails, AccountInv
  <2>6. CASE Finish
    <3>1. Accounted'
      BY <2>1, <2>6, AccountedFrame DEF Finish
    <3>2. QED
      BY <2>6, <3>1 DEF Finish, AccountInv
  <2>7. QED
    BY <1>6, <2>2, <2>3, <2>4, <2>5, <2>6 DEF Executor, Execute
<1>7. CASE \/ ExtractGoal \/ LeaveExecutor \/ Summarize \/ Fallback
           \/ UNCHANGED vars_
  BY <1>1, <1>7 DEF ExtractGoal, LeaveExecutor, Summarize, Fallback, vars_
<1>8. QED
  BY <1>3, <1>4, <1>5, <1>6, <1>7 DEF Next, Step, Stay

(* When the executor returns, every step has its one commit, or one for    *)
(* each item of the list its variable held, whatever the plan and lists.   *)
THEOREM NoStepLost == Spec => []EveryStepAccounted
<1>1. Init => OrderInv /\ FoundInv /\ AccountInv
  <2>1. DOMAIN <<>> = {}
    BY EmptySeq
  <2>2. QED
    BY <2>1, FoundNothing DEF Init, OrderInv, QueueSorted, CommitsInOrder, FoundInv,
       NothingFoundNothingDone, AccountInv
<1>2. AccountInv => EveryStepAccounted
  <2> SUFFICES ASSUME AccountInv, walk = "done", NEW n \in DOMAIN plan
               PROVE  CommitsOf(n) = Children(n)
    BY DEF EveryStepAccounted
  <2>1. queue = <<>> /\ DOMAIN <<>> = {}
    BY EmptySeq DEF AccountInv
  <2>2. Queued(n) = {}
    BY <2>1 DEF Queued, QueuedIn
  <2>3. QED
    BY <2>2 DEF AccountInv, Accounted, Waiting
<1>3. QED
  BY <1>1, <1>2, TypeInit, TypeStep, OrderStep, FoundStep, AccountStep, PTL DEF Spec

-----------------------------------------------------------------------------
(* -- the walk -------------------------------------------------------------- *)

(* The queue goes through the plan step by step and to its end.            *)
Steady(q) ==
  /\ \A i \in DOMAIN q : i + 1 \in DOMAIN q => q[i + 1].n \in {q[i].n, q[i].n + 1}
  /\ q # <<>> => q[Len(q)].n = Len(plan)
WalkInv == walk # "idle" => Steady(queue)

Behind == IF queue = <<>> THEN Len(plan) ELSE Head1.n - 1

(* Taking the head off leaves its step behind, or another entry of it.     *)
LEMMA TakenOff ==
  ASSUME TypeInv, Steady(queue), queue # <<>>, queue' = Tail(queue), plan' = plan
  PROVE  /\ Steady(queue)'
         /\ Behind < Len(plan) /\ Behind' \in {Behind, Behind + 1}
<1>1. /\ queue \in Seq(EntryType) /\ Len(queue) \in Nat /\ Len(queue) >= 1
      /\ DOMAIN queue = 1 .. Len(queue)
  BY EmptySeq DEF TypeInv
<1>2. /\ queue' \in Seq(EntryType) /\ Len(queue') = Len(queue) - 1
      /\ DOMAIN queue' = 1 .. (Len(queue) - 1)
      /\ \A i \in DOMAIN queue' : i + 1 \in DOMAIN queue /\ queue'[i] = queue[i + 1]
  <2>1. /\ queue' \in Seq(EntryType) /\ Len(queue') = Len(queue) - 1
        /\ \A i \in 1 .. Len(queue') : queue'[i] = queue[i + 1]
    BY <1>1, HeadTailProperties
  <2>2. DOMAIN queue' = 1 .. Len(queue')
    BY <2>1
  <2>3. DOMAIN queue' = 1 .. (Len(queue) - 1)
    BY <2>1, <2>2
  <2>4. \A i \in DOMAIN queue' : i + 1 \in DOMAIN queue /\ queue'[i] = queue[i + 1]
    BY <1>1, <2>1, <2>2, <2>3
  <2> QED BY <2>1, <2>3, <2>4
<1>3. Len(plan) \in Nat /\ DOMAIN plan = 1 .. Len(plan)
  BY DEF TypeInv, TypeOK
<1>4. queue[1].n \in DOMAIN plan
  BY <1>1 DEF TypeInv, QueueOfPlan
<1>5. queue' # <<>> <=> Len(queue) > 1
  <2>1. queue' # <<>> => Len(queue') \in Nat \ {0}
    BY <1>2, EmptySeq
  <2>2. Len(queue') > 0 => queue' # <<>>
    BY EmptySeq
  <2> QED BY <1>1, <1>2, <2>1, <2>2
<1>6. Steady(queue)'
  <2>1. ASSUME NEW i \in DOMAIN queue', i + 1 \in DOMAIN queue'
        PROVE  queue'[i + 1].n \in {queue'[i].n, queue'[i].n + 1}
    BY <1>2, <2>1 DEF Steady
  <2>2. queue' # <<>> => queue'[Len(queue')].n = Len(plan)
    BY <1>1, <1>2, <1>5 DEF Steady
  <2> QED BY <2>1, <2>2 DEF Steady
<1>7. CASE Len(queue) = 1
  <2>1. queue[1].n = Len(plan)
    BY <1>7 DEF Steady
  <2> QED BY <1>3, <1>5, <1>6, <1>7, <2>1 DEF Behind, Head1
<1>8. CASE Len(queue) > 1
  <2>1. 1 \in DOMAIN queue /\ 1 + 1 \in DOMAIN queue /\ queue'[1] = queue[1 + 1]
    BY <1>1, <1>2, <1>8
  <2>2. queue'[1].n \in {queue[1].n, queue[1].n + 1}
    BY <2>1 DEF Steady
  <2> QED BY <1>3, <1>4, <1>5, <1>6, <1>8, <2>2 DEF Behind, Head1
<1> QED BY <1>1, <1>7, <1>8

(* Expanding the head leaves nothing behind.                               *)
LEMMA OpenedUp ==
  ASSUME TypeInv, Steady(queue), Expand
  PROVE  Steady(queue)' /\ Behind' = Behind
<1> DEFINE x == ExpandStepForArray(Head1)
<1>1. queue # <<>> /\ Head1 \in EntryType /\ queue \in Seq(EntryType) /\ plan' = plan
  BY EmptySeq DEF Expand, Ready, TypeInv, Head1
<1>2. Expansion(x, Head1) /\ Len(x) > 1 /\ queue' = x \o Tail(queue)
  BY <1>1, ExpandType DEF Expand, Many
<1> HIDE DEF x
<1>3. x \in Seq(EntryType) /\ Len(x) \in Nat /\ DOMAIN x = 1 .. Len(x)
      /\ \A i \in DOMAIN x : x[i].n = Head1.n
  BY <1>2 DEF Expansion
<1>4. Len(queue) \in Nat /\ Len(queue) >= 1 /\ DOMAIN queue = 1 .. Len(queue)
  BY <1>1, EmptySeq
<1>5. /\ Len(queue') = Len(x) + Len(queue) - 1
      /\ DOMAIN queue' = 1 .. (Len(x) + Len(queue) - 1)
      /\ queue' \in Seq(EntryType)
  BY <1>1, <1>2, <1>3, <1>4
<1>6. \A i \in DOMAIN queue' :
        /\ i <= Len(x) => queue'[i].n = Head1.n
        /\ i > Len(x) => i - Len(x) + 1 \in DOMAIN queue /\ queue'[i] = queue[i - Len(x) + 1]
  BY <1>1, <1>2, <1>3, <1>4, <1>5
<1>7. queue' # <<>> /\ Head1' = queue'[1] /\ queue'[1].n = Head1.n
  BY <1>2, <1>3, <1>4, <1>5, <1>6, EmptySeq DEF Head1
<1>8. ASSUME NEW i \in DOMAIN queue', i + 1 \in DOMAIN queue'
      PROVE  queue'[i + 1].n \in {queue'[i].n, queue'[i].n + 1}
  <2>1. CASE i < Len(x)
    BY <1>3, <1>5, <1>6, <1>8, <2>1
  <2>2. CASE i = Len(x)
    <3>1. /\ queue'[i].n = queue[1].n /\ (i + 1) - Len(x) + 1 = 2 /\ 1 + 1 = 2
          /\ 2 \in DOMAIN queue /\ queue'[i + 1] = queue[2]
      BY <1>3, <1>5, <1>6, <1>8, <2>2 DEF Head1
    <3> QED BY <1>4, <3>1 DEF Steady
  <2>3. CASE i > Len(x)
    <3>1. /\ (i + 1) - Len(x) + 1 = (i - Len(x) + 1) + 1
          /\ i - Len(x) + 1 \in DOMAIN queue /\ (i - Len(x) + 1) + 1 \in DOMAIN queue
          /\ queue'[i] = queue[i - Len(x) + 1] /\ queue'[i + 1] = queue[(i - Len(x) + 1) + 1]
      BY <1>3, <1>5, <1>6, <1>8, <2>3
    <3> QED BY <3>1 DEF Steady
  <2> QED BY <1>3, <1>5, <2>1, <2>2, <2>3
<1>9. queue'[Len(queue')].n = Len(plan)
  <2>1. Len(queue') \in DOMAIN queue'
    BY <1>2, <1>3, <1>4, <1>5
  <2>2. CASE Len(queue) = 1
    BY <1>1, <1>3, <1>5, <1>6, <2>1, <2>2 DEF Steady, Head1
  <2>3. CASE Len(queue) > 1
    <3>1. Len(queue') - Len(x) + 1 = Len(queue) /\ Len(queue') > Len(x)
      BY <1>3, <1>4, <1>5, <2>3
    <3> QED BY <1>1, <1>6, <2>1, <3>1 DEF Steady
  <2> QED BY <1>4, <2>2, <2>3
<1> QED BY <1>1, <1>7, <1>8, <1>9 DEF Steady, Behind

(* A plan is entered with nothing behind.                                  *)
LEMMA Entered ==
  ASSUME TypeInv, PhaseInv, walk = "idle", goal' = goal, node' = "executor",
         NEW p \in Seq(PlanStep), Numbered(p), Enter(p)
  PROVE  Steady(queue)' /\ Walk!Start
<1>1. /\ DOMAIN queue' = DOMAIN p /\ plan' = p /\ walk' = "walking" /\ TypeInv'
      /\ \A i \in DOMAIN queue' : queue'[i].n = i
  BY EnterType DEF Enter
<1>2. /\ Len(p) \in Nat /\ DOMAIN p = 1 .. Len(p) /\ queue' \in Seq(EntryType)
      /\ Len(queue') \in Nat /\ DOMAIN queue' = 1 .. Len(queue')
  BY <1>1 DEF TypeInv
<1>3. Len(queue') = Len(p) /\ (queue' = <<>> <=> Len(p) = 0)
  BY <1>1, <1>2, EmptySeq
<1>4. Steady(queue)'
  BY <1>1, <1>2, <1>3 DEF Steady
<1>5. Behind' = 0
  BY <1>1, <1>2, <1>3 DEF Behind, Head1
<1> QED BY <1>1, <1>2, <1>4, <1>5 DEF Walk!Start, Behind

(* Every step of the graph keeps the queue steady, and is a step of the    *)
(* walk or none.                                                           *)
WalkVars == <<IF walk = "idle" THEN 0 ELSE Len(plan),
              IF walk = "idle" THEN 0
              ELSE IF queue = <<>> THEN Len(plan) ELSE Head1.n - 1, walk>>
WalkNext == Walk!Start \/ Walk!Leave \/ Walk!EndWell \/ Walk!EndBadly
(* Every step of the graph is a step of the walk, or none.                 *)
LEMMA WalkStep ==
  ASSUME TypeInv, PhaseInv, WalkInv, [Next]_vars_
  PROVE  WalkInv' /\ [WalkNext]_WalkVars
<1>1. ASSUME UNCHANGED <<walk, queue, plan>> PROVE WalkInv' /\ UNCHANGED WalkVars
  BY <1>1 DEF WalkInv, Steady, WalkVars, Head1
<1>2. ASSUME NEW p \in Seq(PlanStep), Numbered(p), Enter(p), walk = "idle",
             goal' = goal, node' = "executor"
      PROVE  WalkInv' /\ WalkNext
  BY <1>2, Entered DEF WalkInv, WalkNext
<1>3. CASE Confirm
  <2>1. walk = "idle" /\ goal' = goal /\ plan \in Seq(PlanStep) /\ Numbered(plan)
    BY <1>3 DEF Confirm, PhaseInv, TypeInv, TypeOK
  <2> QED BY <1>1, <1>2, <1>3, <2>1 DEF Confirm, executorVars
<1>4. CASE Resume
  <2>1. PICK p \in StoredPlans : Enter(p)
    BY <1>4 DEF Resume
  <2>2. p \in Seq(PlanStep) /\ Numbered(p)
    BY <2>1, StoredPlanType
  <2>3. walk = "idle" /\ goal' = goal /\ node' = "executor"
    BY <1>4 DEF Resume, graphVars
  <2> QED BY <1>2, <2>1, <2>2, <2>3
<1>5. CASE Executor
  <2>1. CASE Expand
    <3>1. walk = "walking" /\ walk' = walk /\ plan' = plan
      BY <2>1 DEF Expand, Ready
    <3>2. Steady(queue)' /\ Behind' = Behind
      BY <2>1, <3>1, OpenedUp DEF WalkInv
    <3> QED BY <3>1, <3>2 DEF WalkInv, WalkVars, Behind
  <2>2. CASE SkipBlocked \/ \E r \in Results : CallSucceeds(r)
    <3>1. walk = "walking" /\ walk' = walk /\ plan' = plan /\ queue # <<>> /\ queue' = Tail(queue)
      BY <2>2 DEF SkipBlocked, CallSucceeds, Callable, Runnable, Ready
    <3>2. Steady(queue)' /\ Behind < Len(plan) /\ Behind' \in {Behind, Behind + 1}
      BY <3>1, TakenOff DEF WalkInv
    <3> QED BY <3>1, <3>2 DEF WalkInv, WalkVars, WalkNext, Walk!Leave, Behind
  <2>3. CASE RefuseArgs \/ HaltForApproval \/ CallFails
    <3>1. /\ walk = "walking" /\ walk' \in {"failed", "halted"} /\ queue # <<>>
          /\ UNCHANGED <<plan, queue>>
      BY <2>3 DEF RefuseArgs, HaltForApproval, CallFails, Callable, Runnable, Ready
    <3>2. Head1.n \in 1 .. Len(plan) /\ Len(plan) \in Nat
      <4>1. 1 \in DOMAIN queue
        BY <3>1, EmptySeq DEF TypeInv
      <4> QED BY <4>1 DEF TypeInv, TypeOK, QueueOfPlan, Head1
    <3> QED BY <3>1, <3>2 DEF WalkInv, Steady, WalkNext, Walk!EndBadly, Head1
  <2>4. CASE Finish
    BY <2>4 DEF Finish, WalkInv, Steady, WalkNext, Walk!EndWell, Head1
  <2> QED BY <1>5, <2>1, <2>2, <2>3, <2>4 DEF Executor, Execute
<1>6. CASE Planner
  <2>1. walk = "idle" /\ walk' = walk
    BY <1>6 DEF Planner, PhaseInv
  <2> QED BY <2>1 DEF WalkInv, WalkVars
<1>7. CASE ExtractGoal \/ LeaveExecutor \/ Summarize \/ Fallback \/ UNCHANGED vars_
  BY <1>1, <1>7 DEF ExtractGoal, LeaveExecutor, Summarize, Fallback, vars_, executorVars
<1> QED BY <1>3, <1>4, <1>5, <1>6, <1>7 DEF Next, Step, Stay

(* However steps expand, the executor leaves the plan's steps behind one   *)
(* at a time and in their order, ends well only behind the last of them,   *)
(* and is over when it has ended (executor.ts, the loop over planQueue).   *)
THEOREM WalkImplemented == Spec => WalksThePlan
<1>1. Init => WalkInv /\ Walk!Init
  BY DEF Init, WalkInv, Walk!Init
<1>2. TypeInv /\ PhaseInv /\ WalkInv /\ [Next]_vars_ => WalkInv' /\ [WalkNext]_WalkVars
  BY WalkStep
<1> QED
  BY <1>1, <1>2, TypeInit, TypeStep, PTL DEF Spec, WalksThePlan, Walk!Spec, WalkNext, WalkVars
=============================================================================
