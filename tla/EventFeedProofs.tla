--------------------------- MODULE EventFeedProofs ---------------------------
(***************************************************************************)
(* What EventFeed promises of every way a job may end, proved for every    *)
(* race of its writes.                                                     *)
(***************************************************************************)
EXTENDS EventFeed, SequenceTheorems, TLAPS

Places == {"find", "make", "check", "write", "announce"}
Kinds == {"status", "plan", "result"}
Writes == [job : Nat, kind : Kinds, todo : Seq(Items), at : Places, awaited : BOOLEAN]
Rows == [kind : {"row"}, status : Finals]

Apart(A, B) == \A x \in A : x \notin B
ToWrite == {j \in DOMAIN script : script[j].kind # "row"}

Types ==
    /\ jobs \in Seq(Job) /\ Len(jobs) \in 1 .. MaxJobs
    /\ chatless \in BOOLEAN /\ chat \in BOOLEAN
    /\ row \in {"running"} \cup Finals
    /\ script \in Seq(Writes \cup Rows)
    /\ writers \subseteq Writes
    /\ items \subseteq (1 .. Len(jobs)) \X Items /\ announced \subseteq items

(* A write has something to do, nothing twice, and only a status message   *)
(* is checked for repetition; what closes a job is waited for.             *)
Orderly(w) ==
    /\ w.todo # <<>>
    /\ \A j, k \in DOMAIN w.todo : w.todo[j] = w.todo[k] => j = k
    /\ w.kind = "status" => Len(w.todo) = 1
    /\ \A k \in DOMAIN w.todo : w.todo[k] \in Finals => w.awaited
    /\ w.at = "check" => w.kind = "status" /\ w.todo[1] \in RunStatusMsgs

(* The script of job n writes nothing twice, sets the row at most once, and *)
(* has set it when it comes to a closing item.                             *)
InOrder(s, status, n) ==
    /\ \A j \in DOMAIN s : s[j].kind # "row" =>
           Orderly(s[j]) /\ s[j].at = "find" /\ s[j].job = n
    /\ \A j, k \in DOMAIN s : s[j].kind # "row" /\ s[k].kind # "row" /\ j # k =>
           Apart(Todo(s[j]), Todo(s[k]))
    /\ \A j, k \in DOMAIN s : s[j].kind = "row" /\ s[k].kind = "row" => j = k
    /\ \A j \in DOMAIN s : s[j].kind = "row" => status = "running"
    /\ \A j \in DOMAIN s : s[j].kind # "row" =>
           \A i \in Todo(s[j]) : i[2] \in Finals =>
               status = i[2] \/ \E k \in 1 .. (j - 1) : s[k].kind = "row" /\ s[k].status = i[2]

ScriptInv ==
    /\ InOrder(script, row, Len(jobs))
    /\ \A j \in ToWrite : Apart(Todo(script[j]), items)
    /\ \A j \in ToWrite : \A w \in writers : Apart(Todo(script[j]), Todo(w))

(* No item is up to two writes, and each is where its write says it is;    *)
(* a write may be left over from an earlier job, but not of a later one.   *)
WriterInv ==
    /\ \A w \in writers : Orderly(w) /\ w.job \in 1 .. Len(jobs)
    /\ \A v, w \in writers : v # w => Apart(Todo(v), Todo(w))
    /\ \A w \in writers : \A i \in Todo(w) : i[2] \in Finals => row = i[2]
    /\ \A w \in writers : \A k \in DOMAIN w.todo :
           <<w.job, w.todo[k]>> \in items => k = 1 /\ w.at = "announce"
    /\ \A w \in writers :
           w.at = "announce" => Item(w) \in items /\ Item(w) \notin announced

(* No message is lost of a run that has its chat.                          *)
Repeated(m) ==
    m[2] \in RunStatusMsgs /\ \E i \in items : StatusOf(i[2]) = StatusOf(m[2])
Pursued(m) == \/ \E j \in ToWrite : m \in Todo(script[j])
              \/ \E w \in writers : m \in Todo(w)
CoverInv ==
    /\ last # "none" => \E i \in items : StatusOf(i[2]) = last
    /\ ~chatless => /\ chat
                    /\ \A w \in writers : w.at # "make"
                    /\ \A n \in DOMAIN jobs : \A m \in Messages(n) :
                           m \in items \/ Pursued(m) \/ Repeated(m)

IndInv == Types /\ ScriptInv /\ WriterInv /\ CoverInv
-----------------------------------------------------------------------------
(* -- the scripts ---------------------------------------------------------- *)

(* A write that job n has not begun, and what it is to write.              *)
Fresh(w, n, T) == /\ w \in Writes /\ Orderly(w) /\ Todo(w) = {n} \X T
                  /\ w.kind # "row" /\ w.at = "find" /\ w.job = n

(* What a plan or a status is written with is a fresh piece of work.       *)
LEMMA FreshWrites ==
  ASSUME NEW n \in Nat
  PROVE  /\ \A m \in StatusMsgs \ Finals : Fresh(Status(n, m), n, {m})
         /\ \A m \in StatusMsgs : Fresh(Awaited(n, m), n, {m})
         /\ \A i \in Items : Fresh(Result(n, <<i>>), n, {i})
         /\ Fresh(Result(n, <<"log", "output">>), n, {"log", "output"})
         /\ Fresh(Writer(n, "plan", <<"plan", "questions">>, FALSE), n, {"plan", "questions"})
<1>1. ASSUME NEW kind \in Kinds, NEW i \in Items, NEW a \in BOOLEAN, i \in Finals => a
      PROVE  Fresh(Writer(n, kind, <<i>>, a), n, {i})
  BY <1>1 DEF Fresh, Writer, Writes, Orderly, Todo, Places, Kinds
<1>2. ASSUME NEW kind \in Kinds \ {"status"}, NEW i \in Items \ Finals,
             NEW j \in (Items \ Finals) \ {i}, NEW a \in BOOLEAN
      PROVE  Fresh(Writer(n, kind, <<i, j>>, a), n, {i, j})
  BY DEF Fresh, Writer, Writes, Orderly, Todo, Places, Kinds
<1> QED BY <1>1, <1>2 DEF Status, Awaited, Result, Items, StatusMsgs, RunStatusMsgs, Kinds, Finals

(* The row a run ends with carries that ending as its status.              *)
LEMMA Setting ==
  ASSUME NEW f \in Finals
  PROVE  Row(f) \in Rows /\ Row(f).kind = "row" /\ Row(f).status = f
BY DEF Row, Rows

(* Short tuples over a set are sequences over it.                          *)
LEMMA Tuples ==
  ASSUME NEW X
  PROVE  /\ \A a, b \in X : <<a, b>> \in Seq(X)
         /\ \A a, b, c \in X : <<a, b, c>> \in Seq(X)
         /\ \A a, b, c, d \in X : <<a, b, c, d>> \in Seq(X)
         /\ \A a, b, c, d, e \in X : <<a, b, c, d, e>> \in Seq(X)
OBVIOUS

(* The part every script begins with is made of writes and rows.           *)
LEMMA FreshPlan == ASSUME NEW n \in Nat PROVE Planned(n) \in Seq(Writes \cup Rows)
<1>1. Status(n, "plan_generated") \in Writes
      /\ Writer(n, "plan", <<"plan", "questions">>, FALSE) \in Writes
  BY FreshWrites DEF Fresh, StatusMsgs, Finals
<1> QED BY <1>1, Tuples DEF Planned, PlanItems

(* Two sequences over a set join to one over it.                           *)
LEMMA Joined ==
  ASSUME NEW X, NEW p \in Seq(X), NEW q \in Seq(X)
  PROVE  p \o q \in Seq(X)
OBVIOUS

(* A plan, what comes of it, and the row: every script is so made up.      *)
LEMMA Script_preview ==
  ASSUME NEW n \in Nat
  PROVE  /\ Say(n)["preview"] \in Seq(Writes \cup Rows)
         /\ Planned(n) \o Say(n)["preview"] \in Seq(Writes \cup Rows)
         /\ InOrder(Planned(n) \o Say(n)["preview"], "running", n)
<1> DEFINE s == Planned(n) \o Say(n)["preview"]
           rest == <<Result(n, <<"output">>),
                     Row("done"),
                     Awaited(n, "done")>>
<1>1. Say(n)["preview"] = rest
  BY DEF Say
<1>2. /\ DOMAIN s = 1 .. 5
      /\ s[1] = Status(n, "plan_generated")
      /\ s[2] = Writer(n, "plan", <<"plan", "questions">>, FALSE)
      /\ s[3] = Result(n, <<"output">>)
      /\ s[4] = Row("done")
      /\ s[5] = Awaited(n, "done")
  BY DEF Say, Planned, PlanItems
<1>3. /\ Fresh(s[1], n, {"plan_generated"})
      /\ Fresh(s[2], n, {"plan", "questions"})
      /\ Fresh(s[3], n, {"output"})
      /\ Fresh(s[5], n, {"done"})
  BY <1>2, FreshWrites DEF Items, StatusMsgs, RunStatusMsgs, Finals
<1>4. s[4] \in Rows /\ s[4].kind = "row" /\ s[4].status = "done"
  BY <1>2, Setting DEF Finals
<1>5. rest \in Seq(Writes \cup Rows)
  <2>1. rest = <<s[3], s[4], s[5]>>
    BY <1>2
  <2>2. /\ s[3] \in Writes \cup Rows
        /\ s[4] \in Writes \cup Rows
        /\ s[5] \in Writes \cup Rows
    BY <1>3, <1>4 DEF Fresh
  <2> HIDE DEF rest
  <2> QED BY <2>1, <2>2, Tuples
<1>6. InOrder(s, "running", n)
  <2>1. DOMAIN s = 1 .. 5
    BY <1>2
  <2> HIDE DEF s, rest
  <2> QED BY <2>1, <1>3, <1>4 DEF InOrder, Fresh, Apart, Finals
<1> QED BY <1>1, <1>5, <1>6, FreshPlan, Joined

(* The script of a run that waits for approval, the same way.              *)
LEMMA Script_approval ==
  ASSUME NEW n \in Nat
  PROVE  /\ Say(n)["approval"] \in Seq(Writes \cup Rows)
         /\ Planned(n) \o Say(n)["approval"] \in Seq(Writes \cup Rows)
         /\ InOrder(Planned(n) \o Say(n)["approval"], "running", n)
<1> DEFINE s == Planned(n) \o Say(n)["approval"]
           rest == <<Result(n, <<"output">>),
                     Row("awaiting_approval"),
                     Awaited(n, "awaiting_approval")>>
<1>1. Say(n)["approval"] = rest
  BY DEF Say
<1>2. /\ DOMAIN s = 1 .. 5
      /\ s[1] = Status(n, "plan_generated")
      /\ s[2] = Writer(n, "plan", <<"plan", "questions">>, FALSE)
      /\ s[3] = Result(n, <<"output">>)
      /\ s[4] = Row("awaiting_approval")
      /\ s[5] = Awaited(n, "awaiting_approval")
  BY DEF Say, Planned, PlanItems
<1>3. /\ Fresh(s[1], n, {"plan_generated"})
      /\ Fresh(s[2], n, {"plan", "questions"})
      /\ Fresh(s[3], n, {"output"})
      /\ Fresh(s[5], n, {"awaiting_approval"})
  BY <1>2, FreshWrites DEF Items, StatusMsgs, RunStatusMsgs, Finals
<1>4. s[4] \in Rows /\ s[4].kind = "row" /\ s[4].status = "awaiting_approval"
  BY <1>2, Setting DEF Finals
<1>5. rest \in Seq(Writes \cup Rows)
  <2>1. rest = <<s[3], s[4], s[5]>>
    BY <1>2
  <2>2. /\ s[3] \in Writes \cup Rows
        /\ s[4] \in Writes \cup Rows
        /\ s[5] \in Writes \cup Rows
    BY <1>3, <1>4 DEF Fresh
  <2> HIDE DEF rest
  <2> QED BY <2>1, <2>2, Tuples
<1>6. InOrder(s, "running", n)
  <2>1. DOMAIN s = 1 .. 5
    BY <1>2
  <2> HIDE DEF s, rest
  <2> QED BY <2>1, <1>3, <1>4 DEF InOrder, Fresh, Apart, Finals
<1> QED BY <1>1, <1>5, <1>6, FreshPlan, Joined

(* The script of a run that ends well, the same way.                       *)
LEMMA Script_done ==
  ASSUME NEW n \in Nat
  PROVE  /\ Say(n)["done"] \in Seq(Writes \cup Rows)
         /\ Planned(n) \o Say(n)["done"] \in Seq(Writes \cup Rows)
         /\ InOrder(Planned(n) \o Say(n)["done"], "running", n)
<1> DEFINE s == Planned(n) \o Say(n)["done"]
           rest == <<Status(n, "step_succeeded"),
                     Result(n, <<"log", "output">>),
                     Row("done"),
                     Awaited(n, "done")>>
<1>1. Say(n)["done"] = rest
  BY DEF Say
<1>2. /\ DOMAIN s = 1 .. 6
      /\ s[1] = Status(n, "plan_generated")
      /\ s[2] = Writer(n, "plan", <<"plan", "questions">>, FALSE)
      /\ s[3] = Status(n, "step_succeeded")
      /\ s[4] = Result(n, <<"log", "output">>)
      /\ s[5] = Row("done")
      /\ s[6] = Awaited(n, "done")
  BY DEF Say, Planned, PlanItems
<1>3. /\ Fresh(s[1], n, {"plan_generated"})
      /\ Fresh(s[2], n, {"plan", "questions"})
      /\ Fresh(s[3], n, {"step_succeeded"})
      /\ Fresh(s[4], n, {"log", "output"})
      /\ Fresh(s[6], n, {"done"})
  BY <1>2, FreshWrites DEF Items, StatusMsgs, RunStatusMsgs, Finals
<1>4. s[5] \in Rows /\ s[5].kind = "row" /\ s[5].status = "done"
  BY <1>2, Setting DEF Finals
<1>5. rest \in Seq(Writes \cup Rows)
  <2>1. rest = <<s[3], s[4], s[5], s[6]>>
    BY <1>2
  <2>2. /\ s[3] \in Writes \cup Rows
        /\ s[4] \in Writes \cup Rows
        /\ s[5] \in Writes \cup Rows
        /\ s[6] \in Writes \cup Rows
    BY <1>3, <1>4 DEF Fresh
  <2> HIDE DEF rest
  <2> QED BY <2>1, <2>2, Tuples
<1>6. InOrder(s, "running", n)
  <2>1. DOMAIN s = 1 .. 6
    BY <1>2
  <2> HIDE DEF s, rest
  <2> QED BY <2>1, <1>3, <1>4 DEF InOrder, Fresh, Apart, Finals
<1> QED BY <1>1, <1>5, <1>6, FreshPlan, Joined

(* The script of a run that halts for approval on its way.                 *)
LEMMA Script_halt ==
  ASSUME NEW n \in Nat
  PROVE  /\ Say(n)["halt"] \in Seq(Writes \cup Rows)
         /\ Planned(n) \o Say(n)["halt"] \in Seq(Writes \cup Rows)
         /\ InOrder(Planned(n) \o Say(n)["halt"], "running", n)
<1> DEFINE s == Planned(n) \o Say(n)["halt"]
           rest == <<Status(n, "ask"),
                     Result(n, <<"output">>),
                     Row("awaiting_approval"),
                     Awaited(n, "awaiting_approval")>>
<1>1. Say(n)["halt"] = rest
  BY DEF Say
<1>2. /\ DOMAIN s = 1 .. 6
      /\ s[1] = Status(n, "plan_generated")
      /\ s[2] = Writer(n, "plan", <<"plan", "questions">>, FALSE)
      /\ s[3] = Status(n, "ask")
      /\ s[4] = Result(n, <<"output">>)
      /\ s[5] = Row("awaiting_approval")
      /\ s[6] = Awaited(n, "awaiting_approval")
  BY DEF Say, Planned, PlanItems
<1>3. /\ Fresh(s[1], n, {"plan_generated"})
      /\ Fresh(s[2], n, {"plan", "questions"})
      /\ Fresh(s[3], n, {"ask"})
      /\ Fresh(s[4], n, {"output"})
      /\ Fresh(s[6], n, {"awaiting_approval"})
  BY <1>2, FreshWrites DEF Items, StatusMsgs, RunStatusMsgs, Finals
<1>4. s[5] \in Rows /\ s[5].kind = "row" /\ s[5].status = "awaiting_approval"
  BY <1>2, Setting DEF Finals
<1>5. rest \in Seq(Writes \cup Rows)
  <2>1. rest = <<s[3], s[4], s[5], s[6]>>
    BY <1>2
  <2>2. /\ s[3] \in Writes \cup Rows
        /\ s[4] \in Writes \cup Rows
        /\ s[5] \in Writes \cup Rows
        /\ s[6] \in Writes \cup Rows
    BY <1>3, <1>4 DEF Fresh
  <2> HIDE DEF rest
  <2> QED BY <2>1, <2>2, Tuples
<1>6. InOrder(s, "running", n)
  <2>1. DOMAIN s = 1 .. 6
    BY <1>2
  <2> HIDE DEF s, rest
  <2> QED BY <2>1, <1>3, <1>4 DEF InOrder, Fresh, Apart, Finals
<1> QED BY <1>1, <1>5, <1>6, FreshPlan, Joined

(* The script of a run that falls back on an answer.                       *)
LEMMA Script_fallback ==
  ASSUME NEW n \in Nat
  PROVE  /\ Say(n)["fallback"] \in Seq(Writes \cup Rows)
         /\ Planned(n) \o Say(n)["fallback"] \in Seq(Writes \cup Rows)
         /\ InOrder(Planned(n) \o Say(n)["fallback"], "running", n)
<1> DEFINE s == Planned(n) \o Say(n)["fallback"]
           rest == <<Status(n, "step_failed"),
                     Status(n, "fallback"),
                     Result(n, <<"log", "output">>),
                     Row("done"),
                     Awaited(n, "done")>>
<1>1. Say(n)["fallback"] = rest
  BY DEF Say
<1>2. /\ DOMAIN s = 1 .. 7
      /\ s[1] = Status(n, "plan_generated")
      /\ s[2] = Writer(n, "plan", <<"plan", "questions">>, FALSE)
      /\ s[3] = Status(n, "step_failed")
      /\ s[4] = Status(n, "fallback")
      /\ s[5] = Result(n, <<"log", "output">>)
      /\ s[6] = Row("done")
      /\ s[7] = Awaited(n, "done")
  BY DEF Say, Planned, PlanItems
<1>3. /\ Fresh(s[1], n, {"plan_generated"})
      /\ Fresh(s[2], n, {"plan", "questions"})
      /\ Fresh(s[3], n, {"step_failed"})
      /\ Fresh(s[4], n, {"fallback"})
      /\ Fresh(s[5], n, {"log", "output"})
      /\ Fresh(s[7], n, {"done"})
  BY <1>2, FreshWrites DEF Items, StatusMsgs, RunStatusMsgs, Finals
<1>4. s[6] \in Rows /\ s[6].kind = "row" /\ s[6].status = "done"
  BY <1>2, Setting DEF Finals
<1>5. rest \in Seq(Writes \cup Rows)
  <2>1. rest = <<s[3], s[4], s[5], s[6], s[7]>>
    BY <1>2
  <2>2. /\ s[3] \in Writes \cup Rows
        /\ s[4] \in Writes \cup Rows
        /\ s[5] \in Writes \cup Rows
        /\ s[6] \in Writes \cup Rows
        /\ s[7] \in Writes \cup Rows
    BY <1>3, <1>4 DEF Fresh
  <2> HIDE DEF rest
  <2> QED BY <2>1, <2>2, Tuples
<1>6. InOrder(s, "running", n)
  <2>1. DOMAIN s = 1 .. 7
    BY <1>2
  <2> HIDE DEF s, rest
  <2> QED BY <2>1, <1>3, <1>4 DEF InOrder, Fresh, Apart, Finals
<1> QED BY <1>1, <1>5, <1>6, FreshPlan, Joined

(* The script of a run that fails.                                         *)
LEMMA Script_failed ==
  ASSUME NEW n \in Nat
  PROVE  /\ Say(n)["failed"] \in Seq(Writes \cup Rows)
         /\ Planned(n) \o Say(n)["failed"] \in Seq(Writes \cup Rows)
         /\ InOrder(Planned(n) \o Say(n)["failed"], "running", n)
<1> DEFINE s == Planned(n) \o Say(n)["failed"]
           rest == <<Result(n, <<"error">>),
                     Row("failed"),
                     Awaited(n, "failed")>>
<1>1. Say(n)["failed"] = rest
  BY DEF Say
<1>2. /\ DOMAIN s = 1 .. 5
      /\ s[1] = Status(n, "plan_generated")
      /\ s[2] = Writer(n, "plan", <<"plan", "questions">>, FALSE)
      /\ s[3] = Result(n, <<"error">>)
      /\ s[4] = Row("failed")
      /\ s[5] = Awaited(n, "failed")
  BY DEF Say, Planned, PlanItems
<1>3. /\ Fresh(s[1], n, {"plan_generated"})
      /\ Fresh(s[2], n, {"plan", "questions"})
      /\ Fresh(s[3], n, {"error"})
      /\ Fresh(s[5], n, {"failed"})
  BY <1>2, FreshWrites DEF Items, StatusMsgs, RunStatusMsgs, Finals
<1>4. s[4] \in Rows /\ s[4].kind = "row" /\ s[4].status = "failed"
  BY <1>2, Setting DEF Finals
<1>5. rest \in Seq(Writes \cup Rows)
  <2>1. rest = <<s[3], s[4], s[5]>>
    BY <1>2
  <2>2. /\ s[3] \in Writes \cup Rows
        /\ s[4] \in Writes \cup Rows
        /\ s[5] \in Writes \cup Rows
    BY <1>3, <1>4 DEF Fresh
  <2> HIDE DEF rest
  <2> QED BY <2>1, <2>2, Tuples
<1>6. InOrder(s, "running", n)
  <2>1. DOMAIN s = 1 .. 5
    BY <1>2
  <2> HIDE DEF s, rest
  <2> QED BY <2>1, <1>3, <1>4 DEF InOrder, Fresh, Apart, Finals
<1> QED BY <1>1, <1>5, <1>6, FreshPlan, Joined

(* What follows two elements of a sequence comes two later.                *)
LEMMA AfterTwo ==
  ASSUME NEW X, NEW p \in Seq(X), NEW rest \in Seq(X), Len(p) = 2
  PROVE  /\ Len(rest) \in Nat /\ DOMAIN rest = 1 .. Len(rest)
         /\ \A j \in DOMAIN rest : j + 2 \in DOMAIN (p \o rest) /\ (p \o rest)[j + 2] = rest[j]
         /\ (p \o rest)[1] = p[1] /\ (p \o rest)[2] = p[2]
<1>1. Len(rest) \in Nat /\ DOMAIN rest = 1 .. Len(rest)
  OBVIOUS
<1> DEFINE s == p \o rest
<1>2. /\ s \in Seq(X) /\ Len(s) = Len(p) + Len(rest)
      /\ \A i \in 1 .. Len(p) + Len(rest) : s[i] = IF i <= Len(p) THEN p[i] ELSE rest[i - Len(p)]
  BY ConcatProperties, Zenon
<1> HIDE DEF s
<1>3. /\ s \in Seq(X) /\ Len(s) = 2 + Len(rest)
      /\ \A i \in 1 .. 2 + Len(rest) : s[i] = IF i <= 2 THEN p[i] ELSE rest[i - 2]
  BY <1>2
<1>4. DOMAIN s = 1 .. (2 + Len(rest))
  BY <1>3
<1>5. \A j \in DOMAIN rest : j + 2 \in DOMAIN s /\ s[j + 2] = rest[j]
  BY <1>1, <1>3, <1>4
<1>6. s[1] = p[1] /\ s[2] = p[2]
  BY <1>1, <1>3
<1> QED BY <1>1, <1>5, <1>6 DEF s

(* A script that does not plan is in order, as its continuation is.        *)
LEMMA Unplanned ==
  ASSUME NEW n \in Nat, NEW rest \in Seq(Writes \cup Rows),
         InOrder(Planned(n) \o rest, "running", n)
  PROVE  InOrder(rest, "running", n)
<1> DEFINE s == Planned(n) \o rest
<1>1. /\ Len(Planned(n)) = 2 /\ Planned(n) \in Seq(Writes \cup Rows)
      /\ Planned(n)[1].kind # "row" /\ Planned(n)[2].kind # "row"
  BY FreshPlan DEF Planned, Status, Writer
<1>2. /\ Len(rest) \in Nat /\ DOMAIN rest = 1 .. Len(rest)
      /\ \A j \in DOMAIN rest : j + 2 \in DOMAIN s /\ s[j + 2] = rest[j]
      /\ s[1].kind # "row" /\ s[2].kind # "row"
  <2> DEFINE p == Planned(n)
  <2>1. p \in Seq(Writes \cup Rows) /\ Len(p) = 2 /\ p[1].kind # "row" /\ p[2].kind # "row"
    BY <1>1
  <2> HIDE DEF p
  <2>2. /\ Len(rest) \in Nat /\ DOMAIN rest = 1 .. Len(rest)
        /\ \A j \in DOMAIN rest : j + 2 \in DOMAIN (p \o rest) /\ (p \o rest)[j + 2] = rest[j]
        /\ (p \o rest)[1] = p[1] /\ (p \o rest)[2] = p[2]
    BY ONLY <2>1, rest \in Seq(Writes \cup Rows), AfterTwo
  <2> QED BY <2>1, <2>2 DEF p
<1>3. InOrder(s, "running", n)
  OBVIOUS
<1> HIDE DEF s
<1>4. \A j, k \in DOMAIN rest : j # k => j + 2 # k + 2
  BY <1>2
<1>5. ASSUME NEW j \in DOMAIN rest, rest[j].kind # "row", NEW i \in Todo(rest[j]), i[2] \in Finals
      PROVE  "running" = i[2] \/ \E k \in 1 .. (j - 1) : rest[k].kind = "row" /\ rest[k].status = i[2]
  <2> DEFINE l == j + 2
  <2>3. l \in DOMAIN s /\ s[l].kind # "row" /\ i \in Todo(s[l])
    BY <1>2, <1>5
  <2> HIDE DEF l
  <2>4. "running" = i[2] \/ \E k \in 1 .. (l - 1) : s[k].kind = "row" /\ s[k].status = i[2]
    BY <1>3, <1>5, <2>3 DEF InOrder
  <2>1. PICK k \in 1 .. ((j + 2) - 1) : s[k].kind = "row" /\ s[k].status = i[2]
    BY <1>5, <2>4 DEF Finals, l
  <2>2. k # 1 /\ k # 2
    BY <1>2, <2>1
  <2>5. k - 2 \in 1 .. (j - 1) /\ k - 2 \in DOMAIN rest /\ (k - 2) + 2 = k
    BY <1>2, <2>2
  <2> QED BY <1>2, <2>1, <2>5
<1> QED BY <1>2, <1>3, <1>4, <1>5 DEF InOrder

(* So every job has a script of writes and rows, in their order.           *)
LEMMA AllScripts ==
  ASSUME NEW n \in Nat, NEW k \in Job
  PROVE  Script(n, k) \in Seq(Writes \cup Rows) /\ InOrder(Script(n, k), "running", n)
<1> DEFINE rest == Say(n)[k.ending]
<1>1. k.ending \in {"preview", "approval", "done", "halt", "fallback", "failed"}
  BY FeedAssumption DEF Job, Outcomes
<1>2. /\ rest \in Seq(Writes \cup Rows) /\ Planned(n) \o rest \in Seq(Writes \cup Rows)
      /\ InOrder(Planned(n) \o rest, "running", n)
  BY <1>1, Script_preview, Script_approval, Script_done, Script_halt, Script_fallback, Script_failed
<1> HIDE DEF rest
<1>3. InOrder(rest, "running", n)
  BY <1>2, Unplanned
<1>4. rest = <<>> \o rest
  BY <1>2
<1>5. Script(n, k) = (IF k.resumes THEN <<>> ELSE Planned(n)) \o rest
  BY DEF Script, rest
<1>6. CASE k.resumes
  BY <1>2, <1>3, <1>4, <1>5, <1>6
<1>7. CASE ~k.resumes
  BY <1>2, <1>5, <1>7
<1> QED BY <1>6, <1>7

(* Each message a job owes is one that a write of its script announces.    *)
LEMMA MessagesOfScript ==
  ASSUME NEW n, NEW m \in Messages(n)
  PROVE  LET s == Script(n, jobs[n])
         IN  \E j \in DOMAIN s : s[j].kind # "row" /\ m \in Todo(s[j])
BY DEF Messages

(* The invariant holds before the first step of the run.                   *)
LEMMA InitInv == Init => IndInv
<1> SUFFICES ASSUME Init PROVE IndInv
  OBVIOUS
<1>1. PICK k \in Job : jobs = <<k>>
  BY DEF Init
<1>2. jobs \in Seq(Job) /\ Len(jobs) = 1 /\ jobs[1] = k /\ DOMAIN jobs = {1}
  BY <1>1
<1>3. Script(1, k) \in Seq(Writes \cup Rows) /\ InOrder(Script(1, k), "running", 1)
  BY AllScripts
<1>4. script = Script(1, k) /\ row = "running"
  BY <1>2 DEF Init
<1>5. chatless \in BOOLEAN /\ chat \in BOOLEAN
  BY Zenon DEF Init
<1>6. ~chatless => chat
  BY Zenon DEF Init
<1>7. Len(jobs) \in 1 .. MaxJobs
  BY <1>2, FeedAssumption
<1>8. Types
  BY <1>2, <1>3, <1>4, <1>5, <1>7 DEF Init, Types
<1>9. ScriptInv
  BY <1>2, <1>3, <1>4 DEF Init, ScriptInv, Apart
<1>10. WriterInv
  BY DEF Init, WriterInv
<1>11. \A n \in DOMAIN jobs : \A m \in Messages(n) : Pursued(m)
  BY <1>2, <1>4, MessagesOfScript DEF Pursued, ToWrite
<1>12. CoverInv
  BY <1>6, <1>11 DEF Init, CoverInv
<1> QED BY <1>8, <1>9, <1>10, <1>12 DEF IndInv

-----------------------------------------------------------------------------
(* -- the steps ------------------------------------------------------------ *)

(* A write that moves on is the same write elsewhere.                      *)
LEMMA Moved ==
  ASSUME NEW w \in Writes, NEW at \in Places
  PROVE  LET v == [w EXCEPT !.at = at]
         IN  /\ v \in Writes /\ v.todo = w.todo /\ v.kind = w.kind /\ v.at = at
             /\ v.job = w.job /\ v.awaited = w.awaited /\ Todo(v) = Todo(w) /\ Item(v) = Item(w)
BY DEF Writes, Todo, Item

(* A write that announced its first item has the others before it.         *)
LEMMA Shortened ==
  ASSUME NEW w \in Writes, Orderly(w), Len(w.todo) # 1
  PROVE  LET v == [w EXCEPT !.todo = Tail(@), !.at = "write"]
         IN  /\ v \in Writes /\ v.at = "write" /\ v.kind = w.kind /\ v.job = w.job
             /\ Orderly(v) /\ Todo(v) = Todo(w) \ {Item(w)}
             /\ \A k \in DOMAIN v.todo : k + 1 \in DOMAIN w.todo /\ v.todo[k] = w.todo[k + 1]
<1> DEFINE v == [w EXCEPT !.todo = Tail(@), !.at = "write"]
<1>1. /\ w.todo \in Seq(Items) /\ Len(w.todo) \in Nat /\ Len(w.todo) > 1
      /\ DOMAIN w.todo = 1 .. Len(w.todo)
  <2>1. w.todo \in Seq(Items) /\ w.todo # <<>>
    BY DEF Writes, Orderly
  <2> QED BY <2>1, EmptySeq
<1>2. /\ v \in Writes /\ v.at = "write" /\ v.kind = w.kind /\ v.job = w.job
      /\ v.awaited = w.awaited /\ v.todo = Tail(w.todo)
  <2>1. Tail(w.todo) \in Seq(Items)
    BY <1>1
  <2> QED BY <2>1 DEF Writes, Places
<1> HIDE DEF v
<1>3. /\ v.todo # <<>> /\ DOMAIN v.todo = 1 .. (Len(w.todo) - 1)
      /\ \A k \in DOMAIN v.todo : v.todo[k] = w.todo[k + 1]
  <2> DEFINE t == w.todo
  <2>1. t \in Seq(Items) /\ t # <<>>
    BY <1>1, EmptySeq
  <2>2. /\ Tail(t) \in Seq(Items) /\ Len(Tail(t)) = Len(t) - 1
        /\ \A k \in 1 .. Len(Tail(t)) : Tail(t)[k] = t[k + 1]
    <3> HIDE DEF t
    <3> QED BY <2>1, HeadTailProperties
  <2>3. DOMAIN Tail(t) = 1 .. (Len(t) - 1) /\ Len(Tail(t)) # 0
    BY <1>1, <2>2
  <2> QED BY <1>2, <2>2, <2>3, EmptySeq
<1>4. \A k \in DOMAIN v.todo : k + 1 \in DOMAIN w.todo /\ k + 1 # 1
  BY <1>1, <1>3
<1>5. Todo(v) = Todo(w) \ {Item(w)}
  <2>1. ASSUME NEW k \in DOMAIN v.todo PROVE <<v.job, v.todo[k]>> \in Todo(w) \ {Item(w)}
    <3>1. v.todo[k] = w.todo[k + 1] /\ k + 1 \in DOMAIN w.todo /\ 1 \in DOMAIN w.todo /\ k + 1 # 1
      BY <1>1, <1>3, <1>4
    <3>2. w.todo[k + 1] # w.todo[1]
      BY <3>1 DEF Orderly
    <3> QED BY <1>2, <3>1, <3>2 DEF Todo, Item
  <2>2. ASSUME NEW k \in DOMAIN w.todo, <<w.job, w.todo[k]>> # Item(w)
        PROVE  <<w.job, w.todo[k]>> \in Todo(v)
    <3>1. k \in 1 .. Len(w.todo) /\ k # 1
      BY <1>1, <2>2 DEF Item
    <3>2. k - 1 \in DOMAIN v.todo /\ (k - 1) + 1 = k
      BY <1>1, <1>3, <3>1
    <3>3. v.todo[k - 1] = w.todo[k]
      BY <1>3, <3>2
    <3> QED BY <1>2, <3>2, <3>3 DEF Todo
  <2> QED BY <2>1, <2>2 DEF Todo
<1>6. Orderly(v)
  <2>1. \A j, k \in DOMAIN v.todo : v.todo[j] = v.todo[k] => j = k
    BY <1>1, <1>3, <1>4 DEF Orderly
  <2>2. v.kind # "status"
    BY <1>1, <1>2 DEF Orderly
  <2>3. \A k \in DOMAIN v.todo : v.todo[k] \in Finals => v.awaited
    BY <1>2, <1>3, <1>4 DEF Orderly
  <2> QED BY <1>2, <1>3, <2>1, <2>2, <2>3 DEF Orderly
<1> QED BY <1>2, <1>3, <1>4, <1>5, <1>6 DEF v

(* What the worker does next.                                              *)
LEMMA Advances ==
  ASSUME Types, Advance
  PROVE  /\ script' \in Seq(Writes \cup Rows)
         /\ Len(script) \in Nat /\ DOMAIN script = 1 .. Len(script) /\ 1 \in DOMAIN script
         /\ DOMAIN script' = 1 .. (Len(script) - 1)
         /\ \A j \in DOMAIN script' : j + 1 \in DOMAIN script /\ script'[j] = script[j + 1]
         /\ UNCHANGED jobs
         /\ \/ /\ script[1].kind = "row" /\ script[1] \in Rows
               /\ row' = script[1].status /\ row' \in Finals /\ writers' = writers
            \/ /\ script[1].kind # "row" /\ script[1] \in Writes
               /\ writers' = writers \cup {script[1]} /\ row' = row
<1>1. script \in Seq(Writes \cup Rows) /\ script # <<>> /\ script' = Tail(script)
  BY DEF Types, Advance
<1>2. Head(script) = script[1] /\ script[1] \in Writes \cup Rows
  BY <1>1
<1>3. /\ Len(script) \in Nat /\ DOMAIN script = 1 .. Len(script) /\ 1 \in DOMAIN script
      /\ DOMAIN script' = 1 .. (Len(script) - 1)
  BY <1>1
<1>4. \A j \in DOMAIN script' : j + 1 \in DOMAIN script /\ script'[j] = script[j + 1]
  BY <1>1, <1>3
<1>5. IF script[1].kind = "row" THEN row' = script[1].status /\ writers' = writers
      ELSE writers' = writers \cup {script[1]} /\ row' = row
  BY <1>2 DEF Advance
<1>6. script[1].kind = "row" => script[1] \in Rows /\ script[1].status \in Finals
  BY <1>2 DEF Writes, Rows, Kinds
<1>7. script[1].kind # "row" => script[1] \in Writes
  BY <1>2 DEF Writes, Rows
<1>8. UNCHANGED jobs
  BY DEF Advance
<1> QED BY <1>1, <1>3, <1>4, <1>5, <1>6, <1>7, <1>8

(* What a write does next: it moves on, ends, or turns to its next item.   *)
Where(w, at) == at \in Places /\ (at = "check" => w.kind = "status" /\ w.todo[1] \in RunStatusMsgs)
(* A writer that looks for its chat only moves on, or ends.                *)
LEMMA Moves ==
  ASSUME Types, NEW w \in writers, FindChat(w) \/ MakeChat(w) \/ CheckLast(w)
  PROVE  /\ Ends(w) \/ \E at \in Places \ {"announce"} : Where(w, at) /\ Goes(w, at)
         /\ w.at # "announce" /\ UNCHANGED <<jobs, chatless, row, script, items, last, announced>>
<1>1. /\ Ends(w) \/ Goes(w, "make") \/ Goes(w, Found(w)) \/ Goes(w, "write")
      /\ w.at # "announce" /\ UNCHANGED <<jobs, chatless, row, script, items, last, announced>>
  BY DEF FindChat, MakeChat, CheckLast
<1>2. /\ Found(w) \in Places \ {"announce"} /\ Where(w, Found(w))
      /\ "make" \in Places \ {"announce"} /\ Where(w, "make")
      /\ "write" \in Places \ {"announce"} /\ Where(w, "write")
  BY DEF Found, Where, Places
<1> QED BY <1>1, <1>2

(* A write adds one item, and leaves its writer to announce it.            *)
LEMMA Writing ==
  ASSUME Types, WriterInv, NEW w \in writers, Write(w)
  PROVE  LET v == [w EXCEPT !.at = "announce"]
         IN  /\ v \in Writes /\ v.todo = w.todo /\ v.kind = w.kind /\ v.at = "announce"
             /\ v.job = w.job /\ v.awaited = w.awaited
             /\ Todo(v) = Todo(w) /\ Item(v) = Item(w)
             /\ 1 \in DOMAIN w.todo /\ Item(w) \in Todo(w)
             /\ Item(w) \in (1 .. Len(jobs)) \X Items
             /\ writers' = (writers \ {w}) \cup {v} /\ w.at = "write"
             /\ items' = items \cup {Item(w)}
             /\ UNCHANGED <<jobs, row, script, announced>>
<1>1. w \in Writes /\ "announce" \in Places
  BY DEF Types, Places
<1>2. 1 \in DOMAIN w.todo /\ w.todo[1] \in Items
  BY EmptySeq DEF Types, WriterInv, Orderly, Writes
<1>3. Item(w) \in Todo(w) /\ Item(w) \in (1 .. Len(jobs)) \X Items
  BY <1>2 DEF Item, Todo, WriterInv
<1> QED BY <1>1, <1>2, <1>3, Moved DEF Write, Goes

(* An announcement takes the first item off what its writer has to do.     *)
LEMMA Announcing ==
  ASSUME Types, WriterInv, NEW w \in writers, Announce(w)
  PROVE  LET v == [w EXCEPT !.todo = Tail(@), !.at = "write"]
         IN  /\ \/ Len(w.todo) = 1 /\ writers' = writers \ {w}
                \/ /\ writers' = (writers \ {w}) \cup {v}
                   /\ v \in Writes /\ v.at = "write" /\ v.kind = w.kind /\ v.job = w.job
                   /\ Orderly(v) /\ Todo(v) = Todo(w) \ {Item(w)}
                   /\ \A k \in DOMAIN v.todo : k + 1 \in DOMAIN w.todo /\ v.todo[k] = w.todo[k + 1]
             /\ w.at = "announce" /\ announced' = announced \cup {Item(w)}
             /\ UNCHANGED <<jobs, row, script, items>>
<1>1. w \in Writes /\ Orderly(w)
  BY DEF Types, WriterInv
<1>2. CASE Len(w.todo) = 1
  BY <1>2 DEF Announce
<1>3. CASE Len(w.todo) # 1
  BY <1>1, <1>3, Shortened DEF Announce
<1> QED BY <1>2, <1>3

(* The steps of the feed, one by one.                                      *)
LEMMA Steps ==
  ASSUME [Next]_vars
  PROVE  \/ UNCHANGED vars
         \/ Advance
         \/ \E w \in writers : FindChat(w) \/ MakeChat(w) \/ CheckLast(w)
         \/ \E w \in writers : Write(w)
         \/ \E w \in writers : Announce(w)
         \/ \E k \in Job : NextJob(k)
BY DEF Next, Works, WriterStep

(* A job that begins finds nothing written of it, and nobody who closes    *)
(* another one.                                                            *)
LEMMA Begins ==
  ASSUME IndInv, NEW k \in Job, NextJob(k)
  PROVE  LET n == Len(jobs) + 1
         IN  /\ n \in Nat /\ jobs' \in Seq(Job) /\ Len(jobs') = n /\ n \in 1 .. MaxJobs
             /\ jobs'[n] = k /\ DOMAIN jobs' = DOMAIN jobs \cup {n}
             /\ \A j \in DOMAIN jobs : jobs'[j] = jobs[j]
             /\ script = <<>> /\ script' = Script(n, k) /\ row' = "running"
             /\ script' \in Seq(Writes \cup Rows) /\ InOrder(script', "running", n)
             /\ UNCHANGED <<writers, items, last, announced>>
             /\ \A w \in writers : \A i \in Todo(w) : i[2] \notin Finals /\ i[1] # n
             /\ \A i \in items : i[1] # n
<1> DEFINE n == Len(jobs) + 1
<1>1. jobs \in Seq(Job) /\ Len(jobs) \in Nat /\ MaxJobs \in Nat
  BY FeedAssumption DEF IndInv, Types
<1>2. jobs' = Append(jobs, k) /\ Len(jobs) < MaxJobs
  BY DEF NextJob
<1>3. /\ n \in Nat /\ jobs' \in Seq(Job) /\ Len(jobs') = n /\ n \in 1 .. MaxJobs
      /\ jobs'[n] = k /\ DOMAIN jobs' = DOMAIN jobs \cup {n}
      /\ \A j \in DOMAIN jobs : jobs'[j] = jobs[j]
  BY <1>1, <1>2
<1> HIDE DEF n
<1>4. script = <<>> /\ script' = Script(n, k) /\ row' = "running"
  BY <1>3 DEF NextJob, JobOver
<1>5. script' \in Seq(Writes \cup Rows) /\ InOrder(script', "running", n)
  BY <1>3, <1>4, AllScripts
<1>6. UNCHANGED <<writers, items, last, announced>>
  BY DEF NextJob
<1>7. n \notin 1 .. Len(jobs)
  BY <1>1 DEF n
<1>8. ASSUME NEW w \in writers, NEW i \in Todo(w) PROVE i[2] \notin Finals /\ i[1] # n
  <2>1. ~w.awaited
    BY DEF NextJob, JobOver
  <2>2. Orderly(w) /\ w.job \in 1 .. Len(jobs)
    BY DEF IndInv, WriterInv
  <2> QED BY <1>7, <2>1, <2>2 DEF Orderly, Todo
<1>9. \A i \in items : i[1] # n
  BY <1>7 DEF IndInv, Types
<1> QED BY <1>3, <1>4, <1>5, <1>6, <1>8, <1>9 DEF n

(* Every step keeps the types.                                             *)
LEMMA TypesStep == ASSUME IndInv, [Next]_vars PROVE Types'
<1>1. CASE UNCHANGED vars
  BY <1>1 DEF IndInv, Types, vars
<1>2. CASE Advance
  <2>1. UNCHANGED <<jobs, items, announced>>
    BY <1>2 DEF IndInv, Types, Advance
  <2>2. chatless' \in BOOLEAN /\ chat' \in BOOLEAN
    BY <1>2, Zenon DEF IndInv, Types, Advance
  <2>3. script' \in Seq(Writes \cup Rows) /\ row' \in {"running"} \cup Finals
        /\ writers' \subseteq Writes
    BY <1>2, Advances DEF IndInv, Types
  <2> QED BY <2>1, <2>2, <2>3 DEF IndInv, Types
<1>3. ASSUME NEW w \in writers, FindChat(w) \/ MakeChat(w) \/ CheckLast(w) PROVE Types'
  <2>1. chatless' \in BOOLEAN /\ chat' \in BOOLEAN
    BY <1>3, Zenon DEF IndInv, Types, FindChat, MakeChat, CheckLast
  <2>2. writers' \subseteq Writes
    BY <1>3, Moves, Moved DEF IndInv, Types, Ends, Goes
  <2>3. UNCHANGED <<jobs, row, script, items, announced>>
    BY <1>3, Moves DEF IndInv
  <2> QED BY <2>1, <2>2, <2>3 DEF IndInv, Types
<1>4. ASSUME NEW w \in writers, Write(w) PROVE Types'
  <2>1. chatless' \in BOOLEAN /\ chat' \in BOOLEAN
    BY <1>4, Zenon DEF IndInv, Types, Write
  <2>2. writers' \subseteq Writes
    BY <1>4, Writing DEF IndInv, Types
  <2>3. Item(w) \in (1 .. Len(jobs)) \X Items
    BY <1>4, Writing DEF IndInv
  <2>4. UNCHANGED <<jobs, row, script, announced>> /\ items' = items \cup {Item(w)}
    BY <1>4 DEF Write
  <2> QED BY <2>1, <2>2, <2>3, <2>4 DEF IndInv, Types
<1>5. ASSUME NEW w \in writers, Announce(w) PROVE Types'
  <2>1. chatless' \in BOOLEAN /\ chat' \in BOOLEAN
    BY <1>5, Zenon DEF IndInv, Types, Announce
  <2>2. writers' \subseteq Writes
    BY <1>5, Announcing DEF IndInv, Types
  <2>3. Item(w) \in items
    BY <1>5 DEF IndInv, WriterInv, Announce
  <2>4. UNCHANGED <<jobs, row, script, items>> /\ announced' = announced \cup {Item(w)}
    BY <1>5 DEF Announce
  <2> QED BY <2>1, <2>2, <2>3, <2>4 DEF IndInv, Types
<1>6. ASSUME NEW k \in Job, NextJob(k) PROVE Types'
  <2>1. chatless' \in BOOLEAN /\ chat' \in BOOLEAN
    BY <1>6, Zenon DEF IndInv, Types, NextJob
  <2>2. /\ jobs' \in Seq(Job) /\ Len(jobs') \in 1 .. MaxJobs /\ Len(jobs') = Len(jobs) + 1
        /\ script' \in Seq(Writes \cup Rows) /\ row' = "running"
        /\ UNCHANGED <<writers, items, announced>>
    BY <1>6, Begins
  <2>3. items \subseteq (1 .. (Len(jobs) + 1)) \X Items
    BY DEF IndInv, Types
  <2> QED BY <2>1, <2>2, <2>3 DEF IndInv, Types
<1> QED BY <1>1, <1>2, <1>3, <1>4, <1>5, <1>6, Steps

(* Writes that only become fewer, or do less, keep the script in order.    *)
LEMMA ScriptStays ==
  ASSUME ScriptInv, UNCHANGED <<jobs, row, script>>,
         \A v \in writers' : \E w \in writers : Todo(v) \subseteq Todo(w),
         \A i \in items' \ items : \E w \in writers : i \in Todo(w)
  PROVE  ScriptInv'
<1>1. ToWrite' = ToWrite
  BY DEF ToWrite
<1>2. InOrder(script, row, Len(jobs))'
  BY DEF ScriptInv
<1>3. \A j \in ToWrite : Apart(Todo(script[j]), items')
  BY DEF ScriptInv, Apart
<1>4. \A j \in ToWrite : \A v \in writers' : Apart(Todo(script[j]), Todo(v))
  BY DEF ScriptInv, Apart
<1> QED BY <1>1, <1>2, <1>3, <1>4 DEF ScriptInv

(* Every step keeps the script in order.                                   *)
LEMMA ScriptStep == ASSUME IndInv, [Next]_vars PROVE ScriptInv'
<1> USE DEF IndInv
<1>1. CASE UNCHANGED vars
  BY <1>1, ScriptStays DEF vars
<1>2. CASE Advance
  <2>1. /\ script' \in Seq(Writes \cup Rows)
        /\ Len(script) \in Nat /\ DOMAIN script = 1 .. Len(script) /\ 1 \in DOMAIN script
        /\ DOMAIN script' = 1 .. (Len(script) - 1)
        /\ \A j \in DOMAIN script' : j + 1 \in DOMAIN script /\ script'[j] = script[j + 1]
    BY <1>2, Advances
  <2>2. \A j, k \in DOMAIN script' : j # k => j + 1 # k + 1
    BY <2>1
  <2>3. \A j \in DOMAIN script' : j + 1 # 1
    BY <2>1
  <2>4. items' = items
    BY <1>2 DEF Advance
  <2>5. InOrder(script', row', Len(jobs'))
    <3>1. \A j \in DOMAIN script' : script'[j].kind # "row" =>
              Orderly(script'[j]) /\ script'[j].at = "find" /\ script'[j].job = Len(jobs')
      BY <1>2, <2>1, Advances DEF ScriptInv, InOrder
    <3>2. \A j, k \in DOMAIN script' : script'[j].kind # "row" /\ script'[k].kind # "row" /\ j # k =>
              Apart(Todo(script'[j]), Todo(script'[k]))
      BY <2>1, <2>2 DEF ScriptInv, InOrder
    <3>3. \A j, k \in DOMAIN script' : script'[j].kind = "row" /\ script'[k].kind = "row" => j = k
      BY <2>1, <2>2 DEF ScriptInv, InOrder
    <3>4. \A j \in DOMAIN script' : script'[j].kind = "row" => row' = "running"
      BY <1>2, <2>1, <2>3, Advances DEF ScriptInv, InOrder
    <3>5. ASSUME NEW j \in DOMAIN script', script'[j].kind # "row",
                 NEW i \in Todo(script'[j]), NEW f \in Finals, i[2] = f
          PROVE  row' = f \/ \E k \in 1 .. (j - 1) : script'[k].kind = "row" /\ script'[k].status = f
      <4>1. row = f \/ \E k \in 1 .. ((j + 1) - 1) : script[k].kind = "row" /\ script[k].status = f
        BY <2>1, <3>5 DEF ScriptInv, InOrder
      <4>2. CASE row = f
        BY <1>2, <4>2, <2>1, Advances DEF ScriptInv, InOrder, Finals
      <4>3. ASSUME NEW k \in 1 .. ((j + 1) - 1), script[k].kind = "row" /\ script[k].status = f
            PROVE  row' = f \/ \E l \in 1 .. (j - 1) : script'[l].kind = "row" /\ script'[l].status = f
        <5>1. CASE k = 1
          BY <1>2, <4>3, <5>1, Advances
        <5>2. CASE k # 1
          <6>1. k - 1 \in 1 .. (j - 1) /\ k - 1 \in DOMAIN script' /\ (k - 1) + 1 = k
            BY <2>1, <5>2
          <6> QED BY <2>1, <4>3, <6>1
        <5> QED BY <5>1, <5>2
      <4> QED BY <4>1, <4>2, <4>3
    <3> QED BY <3>1, <3>2, <3>3, <3>4, <3>5 DEF InOrder
  <2>6. \A j \in ToWrite' : j + 1 \in ToWrite /\ script'[j] = script[j + 1]
    BY <2>1 DEF ToWrite
  <2>7. \A j \in ToWrite' : Apart(Todo(script'[j]), items')
    BY <2>4, <2>6 DEF ScriptInv
  <2>8. ASSUME NEW j \in ToWrite', NEW w \in writers' PROVE Apart(Todo(script'[j]), Todo(w))
    <3>1. CASE w \in writers
      BY <2>6, <3>1 DEF ScriptInv
    <3>2. CASE w = script[1] /\ script[1].kind # "row"
      BY <2>1, <2>3, <2>6, <3>2 DEF ScriptInv, InOrder, ToWrite
    <3> QED BY <1>2, <3>1, <3>2, Advances
  <2> QED BY <2>5, <2>7, <2>8 DEF ScriptInv
<1>3. ASSUME NEW w \in writers, FindChat(w) \/ MakeChat(w) \/ CheckLast(w) PROVE ScriptInv'
  <2>1. \A v \in writers' : \E u \in writers : Todo(v) \subseteq Todo(u)
    BY <1>3, Moves, Moved DEF Types, Ends, Goes
  <2> QED BY <1>3, <2>1, Moves, ScriptStays
<1>4. ASSUME NEW w \in writers, Write(w) PROVE ScriptInv'
  <2>1. \A v \in writers' : \E u \in writers : Todo(v) \subseteq Todo(u)
    BY <1>4, Writing
  <2>2. Item(w) \in Todo(w)
    BY <1>4, Writing
  <2> QED BY <1>4, <2>1, <2>2, ScriptStays DEF Write
<1>5. ASSUME NEW w \in writers, Announce(w) PROVE ScriptInv'
  <2>1. \A v \in writers' : \E u \in writers : Todo(v) \subseteq Todo(u)
    BY <1>5, Announcing
  <2> QED BY <1>5, <2>1, ScriptStays DEF Announce
<1>6. ASSUME NEW k \in Job, NextJob(k) PROVE ScriptInv'
  <2> DEFINE n == Len(jobs) + 1
  <2>1. /\ InOrder(script', "running", n) /\ row' = "running" /\ Len(jobs') = n
        /\ UNCHANGED <<writers, items>>
        /\ \A w \in writers : \A i \in Todo(w) : i[1] # n
        /\ \A i \in items : i[1] # n
    BY <1>6, Begins
  <2> HIDE DEF n
  <2>2. \A j \in ToWrite' : \A i \in Todo(script'[j]) : i[1] = n
    BY <2>1 DEF ToWrite, InOrder, Todo
  <2> QED BY <2>1, <2>2 DEF ScriptInv, Apart
<1> QED BY <1>1, <1>2, <1>3, <1>4, <1>5, <1>6, Steps

(* Every step leaves the writers where they may be.                        *)
LEMMA WritersKept == ASSUME IndInv, [Next]_vars PROVE WriterInv'
<1> USE DEF IndInv
<1>1. CASE UNCHANGED vars
  BY <1>1 DEF vars, WriterInv
<1>2. CASE Advance
  <2>1. UNCHANGED <<jobs, items, announced>>
    BY <1>2 DEF Advance
  <2>2. CASE script[1].kind = "row" /\ writers' = writers
    <3>1. row = "running" /\ row \notin Finals
      BY <1>2, <2>2, Advances DEF ScriptInv, InOrder, Finals
    <3>2. \A w \in writers : \A i \in Todo(w) : i[2] \notin Finals
      BY <3>1 DEF WriterInv
    <3> QED BY <2>1, <2>2, <3>2 DEF WriterInv
  <2>3. CASE script[1].kind # "row" /\ writers' = writers \cup {script[1]} /\ row' = row
    <3> DEFINE v == script[1]
    <3>1. 1 \in DOMAIN script /\ 1 \in ToWrite /\ v \in Writes
      BY <1>2, <2>3, Advances DEF ToWrite
    <3>2. Orderly(v) /\ v.at = "find" /\ v.job \in 1 .. Len(jobs)
      BY <2>3, <3>1 DEF ScriptInv, InOrder, Types
    <3>3. Apart(Todo(v), items) /\ \A w \in writers : Apart(Todo(v), Todo(w)) /\ Apart(Todo(w), Todo(v))
      BY <3>1 DEF ScriptInv, Apart
    <3>4. \A i \in Todo(v) : i[2] \in Finals => row = i[2]
      BY <2>3, <3>1 DEF ScriptInv, InOrder
    <3>5. \A k \in DOMAIN v.todo : <<v.job, v.todo[k]>> \notin items
      BY <3>3 DEF Apart, Todo
    <3> HIDE DEF v
    <3>6. writers' = writers \cup {v}
      BY <2>3 DEF v
    <3> QED BY <2>1, <2>3, <3>2, <3>3, <3>4, <3>5, <3>6 DEF WriterInv
  <2> QED BY <1>2, <2>2, <2>3, Advances
<1>3. ASSUME NEW w \in writers, FindChat(w) \/ MakeChat(w) \/ CheckLast(w) PROVE WriterInv'
  <2>1. w.at # "announce" /\ UNCHANGED <<jobs, row, items, announced>> /\ w \in Writes
    BY <1>3, Moves DEF Types
  <2>2. CASE Ends(w)
    BY <2>1, <2>2 DEF Ends, WriterInv
  <2>3. ASSUME NEW at \in Places \ {"announce"}, Where(w, at) /\ Goes(w, at) PROVE WriterInv'
    <3> DEFINE v == [w EXCEPT !.at = at]
    <3>1. /\ v.todo = w.todo /\ v.kind = w.kind /\ v.at = at /\ Todo(v) = Todo(w)
          /\ v.job = w.job /\ v.awaited = w.awaited
          /\ writers' = (writers \ {w}) \cup {v}
      BY <2>1, <2>3, Moved DEF Goes
    <3> HIDE DEF v
    <3>2. Orderly(v) /\ v.job \in 1 .. Len(jobs)
      BY <2>3, <3>1 DEF WriterInv, Orderly, Where
    <3>3. \A i \in Todo(v) : i[2] \in Finals => row = i[2]
      BY <3>1 DEF WriterInv
    <3>4. \A u \in writers \ {w} : Apart(Todo(v), Todo(u)) /\ Apart(Todo(u), Todo(v))
      BY <3>1 DEF WriterInv
    <3>5. \A k \in DOMAIN v.todo : <<v.job, v.todo[k]>> \notin items
      BY <2>1, <3>1 DEF WriterInv
    <3> QED BY <2>1, <2>3, <3>1, <3>2, <3>3, <3>4, <3>5 DEF WriterInv
  <2> QED BY <1>3, <2>2, <2>3, Moves
<1>4. ASSUME NEW w \in writers, Write(w) PROVE WriterInv'
  <2> DEFINE v == [w EXCEPT !.at = "announce"]
             t == Item(w)
  <2>1. /\ v.todo = w.todo /\ v.kind = w.kind /\ v.at = "announce" /\ Todo(v) = Todo(w)
        /\ v.job = w.job /\ v.awaited = w.awaited /\ Item(v) = t
        /\ 1 \in DOMAIN w.todo /\ writers' = (writers \ {w}) \cup {v} /\ w.at = "write"
        /\ items' = items \cup {t} /\ UNCHANGED <<jobs, row, announced>> /\ t \in Todo(w)
    BY <1>4, Writing
  <2>2. t \notin items /\ t \notin announced
    BY <2>1 DEF Item, WriterInv, Types
  <2> HIDE DEF v
  <2>3. Orderly(v) /\ v.job \in 1 .. Len(jobs)
    BY <2>1 DEF WriterInv, Orderly
  <2>4. \A i \in Todo(v) : i[2] \in Finals => row = i[2]
    BY <2>1 DEF WriterInv
  <2>5. \A u \in writers \ {w} : Apart(Todo(v), Todo(u)) /\ Apart(Todo(u), Todo(v))
    BY <2>1 DEF WriterInv
  <2>6. \A k \in DOMAIN v.todo : <<v.job, v.todo[k]>> \in items' => k = 1
    BY <2>1 DEF WriterInv, Orderly, Item
  <2>7. ASSUME NEW u \in writers \ {w}, NEW k \in DOMAIN u.todo, <<u.job, u.todo[k]>> \in items'
        PROVE  k = 1 /\ u.at = "announce"
    <3>1. <<u.job, u.todo[k]>> # t
      BY <2>2, <2>5, <2>1 DEF Apart, Todo
    <3> QED BY <2>1, <2>7, <3>1 DEF WriterInv
  <2>8. \A u \in writers' : u.at = "announce" => Item(u) \in items' /\ Item(u) \notin announced'
    BY <2>1, <2>2 DEF WriterInv
  <2> QED BY <2>1, <2>3, <2>4, <2>5, <2>6, <2>7, <2>8 DEF WriterInv
<1>5. ASSUME NEW w \in writers, Announce(w) PROVE WriterInv'
  <2> DEFINE v == [w EXCEPT !.todo = Tail(@), !.at = "write"]
             t == Item(w)
  <2>1. w.at = "announce" /\ announced' = announced \cup {t} /\ UNCHANGED <<jobs, row, items>>
    BY <1>5, Announcing
  <2>2. ASSUME NEW u \in writers \ {w}, u.at = "announce" PROVE Item(u) # t
    <3>1. Item(u) \in Todo(u) /\ t \in Todo(w)
      BY EmptySeq DEF Types, WriterInv, Orderly, Writes, Todo, Item
    <3> QED BY <2>2, <3>1 DEF WriterInv, Apart
  <2>3. CASE writers' = writers \ {w}
    BY <2>1, <2>2, <2>3 DEF WriterInv
  <2>4. CASE /\ writers' = (writers \ {w}) \cup {v}
             /\ v \in Writes /\ v.at = "write" /\ v.job = w.job
             /\ Orderly(v) /\ Todo(v) = Todo(w) \ {t}
             /\ \A k \in DOMAIN v.todo : k + 1 \in DOMAIN w.todo /\ v.todo[k] = w.todo[k + 1]
    <3> HIDE DEF v
    <3>1. \A i \in Todo(v) : i[2] \in Finals => row = i[2]
      BY <2>4 DEF WriterInv
    <3>2. \A u \in writers \ {w} : Apart(Todo(v), Todo(u)) /\ Apart(Todo(u), Todo(v))
      BY <2>4 DEF WriterInv, Apart
    <3>3. \A k \in DOMAIN v.todo : k \in Nat \ {0}
      BY <2>4 DEF Writes
    <3>4. ASSUME NEW k \in DOMAIN v.todo PROVE <<v.job, v.todo[k]>> \notin items
      <4>1. k + 1 \in DOMAIN w.todo /\ k + 1 # 1 /\ <<v.job, v.todo[k]>> = <<w.job, w.todo[k + 1]>>
        BY <2>4, <3>3
      <4> QED BY <4>1 DEF WriterInv
    <3> QED BY <2>1, <2>2, <2>4, <3>1, <3>2, <3>4 DEF WriterInv
  <2> QED BY <1>5, <2>3, <2>4, Announcing
<1>6. ASSUME NEW k \in Job, NextJob(k) PROVE WriterInv'
  <2>1. /\ Len(jobs') = Len(jobs) + 1 /\ UNCHANGED <<writers, items, announced>>
        /\ \A w \in writers : \A i \in Todo(w) : i[2] \notin Finals
    BY <1>6, Begins
  <2>2. \A w \in writers : w.job \in 1 .. (Len(jobs) + 1)
    BY DEF WriterInv
  <2> QED BY <2>1, <2>2 DEF WriterInv
<1> QED BY <1>1, <1>2, <1>3, <1>4, <1>5, <1>6, Steps

(* Messages that are pursued still, and items that stay, keep the cover.   *)
LEMMA CoverStays ==
  ASSUME CoverInv, UNCHANGED <<jobs, chatless>>, items \subseteq items',
         last' = last \/ (\E i \in items' : StatusOf(i[2]) = last'),
         ~chatless => /\ chat' /\ \A w \in writers' : w.at # "make"
                      /\ \A m : Pursued(m) => m \in items' \/ Pursued(m)' \/ Repeated(m)
  PROVE  CoverInv'
<1>1. \A n : Messages(n)' = Messages(n)
  BY DEF Messages
<1>2. \A m : Repeated(m) => Repeated(m)'
  BY DEF Repeated
<1>3. (last # "none" => \E i \in items : StatusOf(i[2]) = last)'
  BY DEF CoverInv
<1>4. ~chatless => \A n \in DOMAIN jobs : \A m \in Messages(n) :
                       m \in items' \/ Pursued(m)' \/ Repeated(m)'
  BY <1>2 DEF CoverInv
<1> QED BY <1>1, <1>3, <1>4 DEF CoverInv

(* Every step keeps each message written, being written or still to come.  *)
LEMMA CoverStep == ASSUME IndInv, [Next]_vars PROVE CoverInv'
<1> USE DEF IndInv
<1>1. CASE UNCHANGED vars
  <2>1. \A m : Pursued(m) => Pursued(m)'
    BY <1>1 DEF vars, Pursued, ToWrite
  <2> QED BY <1>1, <2>1, CoverStays DEF vars, CoverInv
<1>2. CASE Advance
  <2>1. UNCHANGED <<jobs, chatless, chat, items, last>>
    BY <1>2 DEF Advance
  <2>2. writers \subseteq writers' /\ \A w \in writers' : w \in writers \/ w.at = "find"
    BY <1>2, Advances DEF ScriptInv, InOrder
  <2>3. ASSUME NEW m, NEW j \in ToWrite, m \in Todo(script[j]) PROVE Pursued(m)'
    <3>1. CASE j = 1
      BY <1>2, <2>3, <3>1, Advances DEF Pursued, ToWrite
    <3>2. CASE j # 1
      <4>1. j - 1 \in DOMAIN script' /\ (j - 1) + 1 = j
        BY <1>2, <3>2, Advances DEF ToWrite
      <4>2. script'[j - 1] = script[j]
        BY <1>2, <4>1, Advances
      <4>3. j - 1 \in ToWrite'
        BY <4>1, <4>2 DEF ToWrite
      <4> QED BY <2>3, <4>2, <4>3 DEF Pursued
    <3> QED BY <3>1, <3>2
  <2>4. \A m : Pursued(m) => Pursued(m)'
    BY <2>2, <2>3 DEF Pursued
  <2> QED BY <2>1, <2>2, <2>4, CoverStays DEF CoverInv
<1>3. ASSUME NEW w \in writers, FindChat(w) \/ MakeChat(w) \/ CheckLast(w) PROVE CoverInv'
  <2>1. UNCHANGED <<jobs, chatless, script, items, last>> /\ w \in Writes
    BY <1>3, Moves DEF Types
  <2>2. ASSUME ~chatless
        PROVE  /\ chat'
               /\ (\E at \in Places \ {"make"} : Goes(w, at))
                  \/ (Ends(w) /\ \A m \in Todo(w) : Repeated(m))
    <3>1. chat /\ w.at # "make"
      BY <2>2 DEF CoverInv
    <3>2. CASE FindChat(w)
      BY <3>1, <3>2 DEF FindChat, Found, Places
    <3>3. CASE CheckLast(w)
      <4>1. chat'
        BY <3>1, <3>3 DEF CheckLast
      <4>2. CASE last # StatusOf(w.todo[1])
        BY <3>3, <4>1, <4>2 DEF CheckLast, Places
      <4>3. CASE last = StatusOf(w.todo[1])
        <5>1. w.todo[1] \in RunStatusMsgs /\ w.kind = "status"
          BY <3>3 DEF CheckLast, WriterInv, Orderly
        <5>2. Todo(w) = {Item(w)} /\ Item(w)[2] = w.todo[1]
          BY <5>1 DEF WriterInv, Orderly, Types, Writes, Todo, Item
        <5>3. last # "none"
          BY <4>3, <5>1 DEF StatusOf, RunStatusMsgs
        <5>4. Repeated(Item(w))
          BY <4>3, <5>1, <5>2, <5>3 DEF CoverInv, Repeated
        <5> QED BY <3>3, <4>1, <4>3, <5>2, <5>4 DEF CheckLast
      <4> QED BY <4>2, <4>3
    <3>4. ~MakeChat(w)
      BY <3>1 DEF MakeChat
    <3> QED BY <1>3, <3>2, <3>3, <3>4
  <2>3. ASSUME ~chatless, NEW at \in Places \ {"make"}, Goes(w, at)
        PROVE  /\ \A u \in writers' : u.at # "make"
               /\ \A m : Pursued(m) => Pursued(m)'
    <3>1. LET v == [w EXCEPT !.at = at]
          IN  v.at = at /\ Todo(v) = Todo(w) /\ writers' = (writers \ {w}) \cup {v}
      BY <2>1, <2>3, Moved DEF Goes
    <3>2. \A u \in writers : \E v \in writers' : Todo(u) = Todo(v)
      BY <3>1
    <3>3. ToWrite' = ToWrite
      BY <2>1 DEF ToWrite
    <3>4. \A m : Pursued(m) => Pursued(m)'
      BY <2>1, <3>2, <3>3 DEF Pursued
    <3> QED BY <2>3, <3>1, <3>4 DEF CoverInv
  <2>4. ASSUME ~chatless, Ends(w), \A m \in Todo(w) : Repeated(m)
        PROVE  /\ \A u \in writers' : u.at # "make"
               /\ \A m : Pursued(m) => Pursued(m)' \/ Repeated(m)
    BY <2>1, <2>4 DEF Ends, Pursued, ToWrite, CoverInv
  <2> QED BY <2>1, <2>2, <2>3, <2>4, CoverStays
<1>4. ASSUME NEW w \in writers, Write(w) PROVE CoverInv'
  <2>1. LET v == [w EXCEPT !.at = "announce"]
        IN  v.at = "announce" /\ Todo(v) = Todo(w) /\ writers' = (writers \ {w}) \cup {v}
    BY <1>4, Writing
  <2>2. \A u \in writers : \E v \in writers' : Todo(u) = Todo(v)
    BY <2>1
  <2>3. UNCHANGED <<jobs, chatless, chat, script>> /\ items' = items \cup {Item(w)}
        /\ (last' = last \/ last' = StatusOf(Item(w)[2]))
    BY <1>4 DEF Write, Item
  <2>4. \A m : Pursued(m) => Pursued(m)'
    BY <2>2, <2>3 DEF Pursued, ToWrite
  <2>5. ~chatless => chat' /\ \A u \in writers' : u.at # "make"
    BY <2>1, <2>3 DEF CoverInv
  <2> QED BY <2>3, <2>4, <2>5, CoverStays
<1>5. ASSUME NEW w \in writers, Announce(w) PROVE CoverInv'
  <2>1. UNCHANGED <<jobs, chatless, chat, script, items, last>>
    BY <1>5 DEF Announce
  <2>2. Item(w) \in items
    BY <1>5 DEF Announce, WriterInv
  <2>3. /\ \A u \in writers' : u \in writers \/ u.at # "make"
        /\ \A u \in writers \ {w} : u \in writers'
        /\ Todo(w) \subseteq {Item(w)} \/ \E v \in writers' : Todo(v) = Todo(w) \ {Item(w)}
    <3>1. Len(w.todo) = 1 => Todo(w) \subseteq {Item(w)}
      BY DEF Types, Writes, Todo, Item
    <3> QED BY <1>5, <3>1, Announcing
  <2>4. \A m : Pursued(m) => Pursued(m)' \/ m \in items
    BY <2>1, <2>2, <2>3 DEF Pursued, ToWrite
  <2> QED BY <2>1, <2>3, <2>4, CoverStays DEF CoverInv
<1>6. ASSUME NEW k \in Job, NextJob(k) PROVE CoverInv'
  <2>0. PICK n \in Nat : n = Len(jobs) + 1
    BY DEF Types
  <2>1. /\ jobs'[n] = k /\ DOMAIN jobs' = DOMAIN jobs \cup {n}
        /\ \A j \in DOMAIN jobs : jobs'[j] = jobs[j]
        /\ script = <<>> /\ script' = Script(n, k)
        /\ UNCHANGED <<writers, items, last>>
    BY <1>6, <2>0, Begins
  <2>2. UNCHANGED <<chatless, chat>>
    BY <1>6 DEF NextJob
  <2>3. \A m : Pursued(m) => Pursued(m)'
    BY <2>1 DEF Pursued, ToWrite
  <2>4. \A m : Repeated(m) => Repeated(m)'
    BY <2>1 DEF Repeated
  <2>5. \A j \in DOMAIN jobs : Messages(j)' = Messages(j)
    BY <2>1 DEF Messages
  <2>6. Messages(n)' = UNION {Todo(script'[j]) : j \in {l \in DOMAIN script' : script'[l].kind # "row"}}
    <3>1. Script(n, jobs'[n]) = script'
      BY <2>1
    <3> QED BY <3>1 DEF Messages
  <2>7. \A m \in Messages(n)' : Pursued(m)'
    BY <2>6 DEF Pursued, ToWrite
  <2>8. ASSUME ~chatless, NEW j \in DOMAIN jobs', NEW m \in Messages(j)'
        PROVE  m \in items' \/ Pursued(m)' \/ Repeated(m)'
    <3>1. CASE j \in DOMAIN jobs
      BY <2>1, <2>3, <2>4, <2>5, <2>8, <3>1 DEF CoverInv
    <3>2. CASE j = n
      BY <2>7, <2>8, <3>2
    <3> QED BY <2>1, <3>1, <3>2
  <2> QED BY <2>1, <2>2, <2>8 DEF CoverInv
<1> QED BY <1>1, <1>2, <1>3, <1>4, <1>5, <1>6, Steps

-----------------------------------------------------------------------------
(* -- the theorems --------------------------------------------------------- *)

(* IndInv is an invariant of the feed.                                     *)
THEOREM Invariance == Spec => []IndInv
<1>1. IndInv /\ [Next]_vars => IndInv'
  <2> SUFFICES ASSUME IndInv, [Next]_vars PROVE IndInv'
    OBVIOUS
  <2>1. Types' /\ ScriptInv' /\ WriterInv' /\ CoverInv'
    BY TypesStep, ScriptStep, WritersKept, CoverStep
  <2> QED BY <2>1 DEF IndInv
<1> QED BY <1>1, InitInv, PTL DEF Spec

(* The feed keeps its types, and announces no item it did not write        *)
(* (chat.service.ts, create before notifyChatUpdated).                     *)
THEOREM TypeCorrect == Spec => []TypeOK
<1>1. IndInv => TypeOK
  BY DEF IndInv, Types, WriterInv, Orderly, Writes, Places, Finals, TypeOK
<1> QED BY <1>1, Invariance, PTL

(* However many jobs a run has and however their writes race, once they    *)
(* are over every message is a chat item or repeated the status of one, if *)
(* the run had its chat (chat.service.ts createStatusChatItem).            *)
THEOREM NoMessageLost == Spec => []MessagesBecomeItems
<1>1. IndInv => MessagesBecomeItems
  <2> SUFFICES ASSUME IndInv, FeedEnded, ~chatless
               PROVE  \A n \in DOMAIN jobs : \A m \in Messages(n) \ items :
                          m[2] \in RunStatusMsgs
                          /\ \E i \in items : StatusOf(i[2]) = StatusOf(m[2])
    BY DEF MessagesBecomeItems
  <2>1. \A m : ~Pursued(m)
    BY DEF FeedEnded, Pursued, ToWrite
  <2> QED BY <2>1 DEF IndInv, CoverInv, Repeated
<1> QED BY <1>1, Invariance, PTL

(* The feed implements Announcements: every item is written once and       *)
(* announced once, after it is written, and the item that closes the job   *)
(* only when the run's row has its status (run.processor.ts, updateStatus  *)
(* before persistStatusChatItem).                                          *)
THEOREM KeepsThePromise == Spec => AnnouncesAsPromised
<1>1. Init => Promise!FeedInit
  BY DEF Init, Promise!FeedInit
<1>2. ASSUME IndInv, [Next]_vars
      PROVE  [\/ \E s \in Finals : Promise!SetRow(s)
              \/ Promise!Restart
              \/ \E i \in (1 .. MaxJobs) \X Items : Promise!Write(i) \/ Promise!Announce(i)
             ]_(Promise!feed)
  <2> USE <1>2 DEF IndInv
  <2>1. CASE UNCHANGED vars
    BY <2>1 DEF vars, Promise!feed
  <2>2. CASE Advance
    <3>1. UNCHANGED <<items, announced>>
      BY <2>2 DEF Advance
    <3>2. CASE script[1].kind = "row"
      BY <2>2, <3>1, <3>2, Advances DEF ScriptInv, InOrder, Promise!SetRow
    <3>3. CASE row' = row
      BY <3>1, <3>3 DEF Promise!feed
    <3> QED BY <2>2, <3>2, <3>3, Advances
  <2>3. ASSUME NEW w \in writers, FindChat(w) \/ MakeChat(w) \/ CheckLast(w)
        PROVE  UNCHANGED Promise!feed
    BY <2>3, Moves DEF Promise!feed
  <2>4. \A i \in (1 .. Len(jobs)) \X Items : i \in (1 .. MaxJobs) \X Items
    BY FeedAssumption DEF Types
  <2>5. ASSUME NEW w \in writers, Write(w)
        PROVE  \E i \in (1 .. MaxJobs) \X Items : Promise!Write(i)
    <3> DEFINE i == Item(w)
               closing == [c \in (1 .. MaxJobs) \X Finals |-> c[2]]
    <3>1. /\ 1 \in DOMAIN w.todo /\ i \in Todo(w) /\ w.at = "write"
          /\ items' = items \cup {i} /\ UNCHANGED <<row, announced>>
          /\ i \in (1 .. MaxJobs) \X Items
      BY <2>4, <2>5, Writing
    <3>2. i \notin items
      BY <3>1 DEF WriterInv, Item
    <3>3. i[2] \in Finals => row = i[2]
      BY <3>1 DEF WriterInv
    <3> HIDE DEF i
    <3>4. i \in DOMAIN closing => row = closing[i]
      BY <3>3
    <3> QED BY <3>1, <3>2, <3>4 DEF Promise!Write
  <2>6. ASSUME NEW w \in writers, Announce(w)
        PROVE  \E i \in (1 .. MaxJobs) \X Items : Promise!Announce(i)
    <3>1. /\ w.at = "announce" /\ announced' = announced \cup {Item(w)}
          /\ UNCHANGED <<row, items>>
      BY <2>6, Announcing
    <3>2. Item(w) \in items /\ Item(w) \notin announced /\ Item(w) \in (1 .. MaxJobs) \X Items
      BY <2>4, <3>1 DEF WriterInv, Types
    <3> QED BY <3>1, <3>2 DEF Promise!Announce
  <2>7. ASSUME NEW k \in Job, NextJob(k)
        PROVE  UNCHANGED Promise!feed \/ Promise!Restart
    <3>1. row' = "running" /\ UNCHANGED <<items, announced>> /\ row \in {"running"} \cup Finals
      BY <2>7, Begins DEF Types
    <3> QED BY <3>1 DEF Promise!feed, Promise!Restart
  <2> QED BY <2>1, <2>2, <2>3, <2>5, <2>6, <2>7, Steps
<1> QED BY <1>1, <1>2, Invariance, PTL DEF Spec, AnnouncesAsPromised, Promise!FeedSpec
=============================================================================
