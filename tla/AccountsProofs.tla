--------------------------- MODULE AccountsProofs ---------------------------
(***************************************************************************)
(* Theorems about Accounts, for any number of accounts, selections,        *)
(* validations and tool calls, any lifetime of a token and any margin.     *)
(***************************************************************************)
EXTENDS Accounts, TLAPS

Time == 0 .. (MaxTime + Life)
Token == [row : 0 .. MaxRows, exp : Time]
Choice == [pc : {"idle", "found", "unset"}, row : Nat, alone : BOOLEAN]
CallPcs == {"new", "planned", "again", "ask", "readback", "writeback", "call", "persist", "store",
            "done", "failed"}
ToolCall == [pc : CallPcs, leg : {"send", "client"}, acct : Nat, tok : Token, exp : Time,
             kept : BOOLEAN, made : BOOLEAN, cause : {"none", "answer", "database"}]
Saving == [pc : {"no", "read", "write"}, row : Nat, tok : Token, kept : BOOLEAN]

(***************************************************************************)
(* The types of the variables, in full.  Rows are never taken away, only   *)
(* marked as gone, so a row held on to stays one.  That there is a newest  *)
(* among any rows is part of the invariant, as it grows with each row.     *)
(***************************************************************************)
Tops == \A S \in SUBSET Ids : S # {} => \E i \in S : \A j \in S : j <= i
RowsType == rows \in Seq(Row) /\ Len(rows) <= MaxRows /\ Tops
HeldType ==
    /\ \A s \in Selectors : sel[s].pc # "idle" => sel[s].row \in Ids
    /\ \A v \in Validators : mark[v] \in Ids \cup {None}
    /\ \A e \in Effects : eff[e].acct \in Ids \cup {None} /\ save[e].row \in Ids \cup {None}
    /\ \A e \in Effects : eff[e].pc \notin {"new", "planned", "done", "failed"} => eff[e].acct \in Ids
    /\ \A e \in Effects : save[e].pc # "no" => save[e].row \in Ids
    /\ chosen \in Ids \cup {None}
VarsType ==
    /\ app \in {"gmail-email", "google-calendar"} /\ now \in 0 .. MaxTime
    /\ sel \in [Selectors -> Choice] /\ tangled \in BOOLEAN
    /\ eff \in [Effects -> ToolCall] /\ save \in [Effects -> Saving]
    /\ mark \in [Validators -> Nat]
Types == RowsType /\ HeldType /\ VarsType

(* The constants, as the proofs need them.                                 *)
LEMMA Bounds ==
    /\ MaxRows \in Nat /\ MaxTime \in Nat /\ Life \in Nat /\ Margin \in Nat
    /\ 0 \in Time /\ Unknown \in Emails /\ NoToken \in Token
<1>1. MaxRows \in Nat /\ MaxTime \in Nat /\ Life \in Nat /\ Margin \in Nat /\ Unknown \in Emails
  BY BoundsAssumption
<1>2. 0 \in Time
  BY <1>1 DEF Time
<1> QED BY <1>1, <1>2 DEF NoToken, Token, None

(* The ids are the first numbers.                                          *)
LEMMA IdsType ==
    ASSUME RowsType
    PROVE  /\ Len(rows) \in Nat /\ Ids \subseteq Nat /\ None \notin Ids /\ Ids \subseteq 0 .. MaxRows
           /\ \A i \in Ids : rows[i] \in Row
BY Bounds DEF RowsType, Ids, None

(* The newest of some rows is one of them.                                 *)
LEMMA LatestIs ==
    ASSUME RowsType, NEW S \in SUBSET Ids
    PROVE  /\ S = {} => Latest(S) = None
           /\ S # {} => Latest(S) \in S /\ \A j \in S : j <= Latest(S)
<1>1. CASE S # {}
  <2>1. \E i \in S : \A j \in S : j <= i
    BY <1>1 DEF RowsType, Tops
  <2> QED BY <1>1, <2>1 DEF Latest
<1> QED BY <1>1 DEF Latest

(* The account shown and the account used are accounts the user has.       *)
LEMMA PickedAccounts ==
    ASSUME RowsType
    PROVE  /\ Shown \in Ids \cup {None} /\ Newest \in Ids \cup {None}
           /\ Newest # None => Usable(Newest)
           /\ \A i \in Ids : Usable(i) => Newest # None /\ i <= Newest
<1>1. None \notin Ids
  BY IdsType
<1>2. Newest \in Ids \cup {None} /\ (Newest # None => Usable(Newest))
  BY LatestIs DEF Newest
<1>3. \A i \in Ids : Usable(i) => Newest # None /\ i <= Newest
  BY <1>1, LatestIs DEF Newest
<1>4. Shown \in Ids \cup {None}
  <2> DEFINE usable == {i \in Ids : Usable(i)}
  <2>1. Shown = Latest(IF Current \cap usable # {} THEN Current \cap usable ELSE usable)
    BY DEF Shown
  <2> QED BY <2>1, LatestIs
<1> QED BY <1>2, <1>3, <1>4

(* One row changes.                                                        *)
LEMMA OneRow ==
    ASSUME RowsType, NEW i \in Ids, NEW r \in Row, rows' = [rows EXCEPT ![i] = r]
    PROVE  /\ RowsType' /\ Ids' = Ids
           /\ rows'[i] = r /\ \A j \in Ids \ {i} : rows'[j] = rows[j]
BY DEF RowsType, Tops, Ids

(* A token issued now is one.                                              *)
LEMMA TokenType ==
    ASSUME RowsType, VarsType, NEW i \in 0 .. MaxRows
    PROVE  /\ NewToken(i) \in Token /\ now + Life \in Time
           /\ NewToken(i) = [row |-> i, exp |-> now + Life] /\ NewToken(i).row = i
<1>1. now + Life \in Time
  BY Bounds DEF VarsType, Time
<1> QED BY <1>1 DEF NewToken, Token

(* What a tool call starts and ends as.                                    *)
LEMMA FreshType ==
    /\ Fresh \in ToolCall /\ Quiet \in Saving /\ Idle \in Choice /\ Gone \in Row
    /\ Fresh.pc = "new" /\ Fresh.acct = None /\ ~Fresh.made /\ Quiet.row = None /\ Quiet.pc = "no"
    /\ Idle.pc = "idle" /\ Idle.alone /\ ~Gone.live /\ ~Gone.current
<1>1. Fresh \in ToolCall /\ Quiet \in Saving
  BY Bounds DEF Fresh, Quiet, ToolCall, CallPcs, Saving, None
<1>2. Idle \in Choice
  BY DEF Idle, Choice, None
<1>3. Gone \in Row
  BY Bounds DEF Gone, Row, NoToken, Token, Time, None
<1> QED BY <1>1, <1>2, <1>3 DEF Fresh, Quiet, Idle, Gone

(* How a row may be changed.                                               *)
LEMMA RowChanges ==
    ASSUME RowsType, NEW i \in Ids
    PROVE  /\ \A b \in BOOLEAN : /\ [rows[i] EXCEPT !.current = b] \in Row
                                 /\ [rows[i] EXCEPT !.invalid = b] \in Row
           /\ \A t \in Token : \A x \in Time : \A b \in BOOLEAN :
                [rows[i] EXCEPT !.access = t, !.exp = x, !.refresh = b] \in Row
<1>1. rows[i] \in Row
  BY IdsType
<1> QED BY <1>1 DEF Row, Token, Time

(* The initial state has its types.                                        *)
LEMMA InitTypes == Init => Types
<1> SUFFICES ASSUME Init PROVE Types
  OBVIOUS
<1>1. RowsType
  <2>1. rows = <<>> /\ Ids = {}
    BY DEF Init, Ids
  <2>2. rows \in Seq(Row) /\ Len(rows) = 0
    BY <2>1
  <2> QED BY <2>1, <2>2, Bounds DEF RowsType, Tops
<1>3. VarsType
  <2>1. sel \in [Selectors -> Choice] /\ eff \in [Effects -> ToolCall] /\ save \in [Effects -> Saving]
    BY FreshType DEF Init
  <2>2. app \in {"gmail-email", "google-calendar"} /\ now \in 0 .. MaxTime
    BY Bounds DEF Init
  <2>4. tangled \in BOOLEAN
    BY Zenon DEF Init
  <2>3. mark \in [Validators -> Nat]
    BY DEF Init, None
  <2> QED BY <2>1, <2>2, <2>3, <2>4 DEF VarsType
<1>2. HeldType
  BY FreshType DEF Init, HeldType
<1> QED BY <1>1, <1>2, <1>3 DEF Types

-----------------------------------------------------------------------------
(* What every step does to the rows: they keep their types, none goes away,*)
(* and none that was deleted comes back.                                   *)
RowsStay == RowsType' /\ Ids \subseteq Ids' /\ \A i \in Ids : Live(i)' => Live(i)

(* Rows that are not touched stay.                                         *)
LEMMA SameRows ==
    ASSUME RowsType, rows' = rows
    PROVE  RowsStay /\ Ids' = Ids
BY DEF RowsStay, RowsType, Tops, Ids, Live

(* So they do when one row changes, and is not brought back to life.       *)
LEMMA OneRowStays ==
    ASSUME RowsType, NEW i \in Ids, NEW r \in Row, rows' = [rows EXCEPT ![i] = r],
           r.live => Live(i)
    PROVE  RowsStay
<1>1. RowsType' /\ Ids' = Ids /\ rows'[i] = r /\ \A j \in Ids \ {i} : rows'[j] = rows[j]
  BY OneRow
<1> QED BY <1>1 DEF RowsStay, Live

(* What the owner does leaves the rows there.                              *)
LEMMA OwnerRows ==
    ASSUME Types, Owner
    PROVE  RowsStay
<1> USE DEF Types
<1>1. ASSUME NEW m \in Emails, Connect(m) PROVE RowsStay
  <2> DEFINE r == [email |-> m, live |-> TRUE, invalid |-> FALSE, current |-> FALSE,
                   access |-> NewToken(Len(rows) + 1), exp |-> now + Life, refresh |-> TRUE]
  <2>1. Len(rows) \in Nat /\ Len(rows) + 1 \in 0 .. MaxRows
    BY <1>1, Bounds DEF Connect, RowsType
  <2>2. r \in Row
    BY <2>1, TokenType DEF Row, Token, Time
  <2>3. rows' = Append(rows, r)
    BY <1>1 DEF Connect
  <2> HIDE DEF r
  <2>4. /\ rows' \in Seq(Row) /\ Len(rows') = Len(rows) + 1
        /\ \A i \in 1 .. Len(rows) : rows'[i] = rows[i]
    BY <2>2, <2>3 DEF RowsType
  <2>5. Tops'
    <3> SUFFICES ASSUME NEW S \in SUBSET (1 .. (Len(rows) + 1)), S # {}
                 PROVE  \E i \in S : \A j \in S : j <= i
      BY <2>4 DEF Tops, Ids
    <3>1. CASE Len(rows) + 1 \in S
      BY <2>1, <3>1
    <3>2. CASE Len(rows) + 1 \notin S
      <4>1. S \in SUBSET Ids
        BY <2>1, <3>2 DEF Ids
      <4> QED BY <4>1 DEF RowsType, Tops
    <3> QED BY <3>1, <3>2
  <2> QED BY <2>1, <2>4, <2>5 DEF RowsStay, RowsType, Ids, Live
<1>2. ASSUME NEW i \in Ids, Delete(i) PROVE RowsStay
  BY <1>2, FreshType, OneRowStays DEF Delete
<1>3. ASSUME NEW s \in Selectors, SelectUnset(s), rows' # rows PROVE RowsStay
  <2>1. \A i \in Ids : rows'[i] \in Row /\ rows'[i].live = rows[i].live
    <3>1. \A i \in Ids : rows'[i] \in {rows[i], [rows[i] EXCEPT !.current = FALSE]}
      BY <1>3 DEF SelectUnset
    <3>2. \A i \in Ids : /\ rows[i] \in Row /\ [rows[i] EXCEPT !.current = FALSE] \in Row
                         /\ [rows[i] EXCEPT !.current = FALSE].live = rows[i].live
      BY RowChanges, IdsType DEF Row
    <3> QED BY <3>1, <3>2
  <2>2. DOMAIN rows' = 1 .. Len(rows) /\ Len(rows) \in Nat /\ rows' = [i \in 1 .. Len(rows) |-> rows'[i]]
    BY <1>3 DEF SelectUnset, Ids, RowsType
  <2>3. rows' \in [1 .. Len(rows) -> Row]
    BY <2>1, <2>2 DEF Ids
  <2>4. rows' \in Seq(Row) /\ Len(rows') = Len(rows)
    BY <2>2, <2>3
  <2> QED BY <2>1, <2>4 DEF RowsStay, RowsType, Tops, Ids, Live
<1>4. ASSUME NEW s \in Selectors, SelectSet(s) PROVE RowsStay
  <2>1. sel[s].row \in Ids
    BY <1>4 DEF SelectSet, HeldType
  <2> DEFINE i == sel[s].row
  <2>2. rows' = rows \/ rows' = [rows EXCEPT ![i] = [rows[i] EXCEPT !.current = TRUE]]
    BY <1>4 DEF SelectSet
  <2>3. [rows[i] EXCEPT !.current = TRUE].live = rows[i].live
    BY <2>1, IdsType DEF Row
  <2> HIDE DEF i
  <2> QED BY <2>1, <2>2, <2>3, SameRows, OneRowStays, RowChanges DEF Live, i
<1>5. ASSUME NEW v \in Validators, ValidateMark(v), rows' # rows PROVE RowsStay
  <2>1. mark[v] \in Ids
    BY <1>5 DEF ValidateMark, HeldType
  <2> DEFINE i == mark[v]
             b == rows[i].invalid \/ Live(i)
  <2>2. rows' = [rows EXCEPT ![i] = [rows[i] EXCEPT !.invalid = b]]
    BY <1>5 DEF ValidateMark
  <2>3. b \in BOOLEAN /\ [rows[i] EXCEPT !.invalid = b].live = rows[i].live
    BY <2>1, IdsType DEF Row, Live
  <2>4. [rows[i] EXCEPT !.invalid = b] \in Row
    BY <2>1, <2>3, RowChanges
  <2> HIDE DEF i, b
  <2> QED BY <2>1, <2>2, <2>3, <2>4, OneRowStays DEF Live, i
<1>6. ASSUME rows' = rows PROVE RowsStay
  BY <1>6, SameRows
<1> QED
  BY <1>1, <1>2, <1>3, <1>4, <1>5, <1>6 DEF Owner, SelectFind, ValidateRead

(* Storing a key keeps whatever else is in the row.                        *)
LEMMA StoredRows ==
    ASSUME RowsType, NEW i \in Ids, NEW t \in Token, NEW x \in Time, NEW b \in BOOLEAN,
           rows' = Stored(i, t, x, b)
    PROVE  /\ RowsStay
           /\ rows'[i].access = t /\ rows'[i].exp = x /\ rows'[i].refresh = b
           /\ rows'[i].current = rows[i].current /\ rows'[i].live = rows[i].live
           /\ \A j \in Ids \ {i} : rows'[j] = rows[j]
<1> DEFINE r == [rows[i] EXCEPT !.access = t, !.exp = x, !.refresh = b]
<1>1. /\ r \in Row /\ r.live = rows[i].live /\ r.current = rows[i].current
      /\ r.access = t /\ r.exp = x /\ r.refresh = b
  <2>1. r \in Row
    BY RowChanges
  <2>2. rows[i] \in Row
    BY IdsType
  <2> QED BY <2>1, <2>2 DEF Row
<1>2. rows' = [rows EXCEPT ![i] = r]
  BY DEF Stored
<1> HIDE DEF r
<1>3. RowsStay
  BY <1>1, <1>2, OneRowStays DEF Live
<1>4. rows'[i] = r /\ \A j \in Ids \ {i} : rows'[j] = rows[j]
  BY <1>1, <1>2, OneRow
<1> QED BY <1>1, <1>3, <1>4

(* A step of a tool call leaves the rows there.                            *)
LEMMA ToolRows ==
    ASSUME Types, NEW e \in Effects, Tool(e)
    PROVE  RowsStay
<1> USE DEF Types
<1>0. eff[e] \in ToolCall /\ save[e] \in Saving
  BY DEF VarsType
<1>1. CASE WriteBack(e)
  <2>1. eff[e].acct \in Ids
    BY <1>1 DEF WriteBack, HeldType
  <2>2. eff[e].tok \in Token /\ eff[e].tok.exp \in Time /\ eff[e].kept \in BOOLEAN
    BY <1>0 DEF ToolCall, Token
  <2> QED BY <1>1, <2>1, <2>2, SameRows, StoredRows DEF WriteBack
<1>2. CASE SaveWrite(e)
  <2>1. save[e].row \in Ids
    BY <1>2 DEF SaveWrite, HeldType
  <2>2. save[e].tok \in Token /\ save[e].tok.exp \in Time /\ save[e].kept \in BOOLEAN
    BY <1>0 DEF Saving, Token
  <2> QED BY <1>2, <2>1, <2>2, SameRows, StoredRows DEF SaveWrite
<1>3. CASE PersistWrite(e)
  <2>1. eff[e].acct \in Ids
    BY <1>3 DEF PersistWrite, HeldType
  <2>2. eff[e].tok \in Token /\ eff[e].exp \in Time /\ eff[e].kept \in BOOLEAN
    BY <1>0 DEF ToolCall
  <2> QED BY <1>3, <2>1, <2>2, SameRows, StoredRows DEF PersistWrite
<1>4. CASE rows' = rows
  BY <1>4, SameRows
<1> QED
  BY <1>1, <1>2, <1>3, <1>4 DEF Tool, Plan, Reresolve, Resolve, Ask, ReadBack, CallFails, Call,
     CallRefreshed, SaveRead, PersistRead, Breaks

-----------------------------------------------------------------------------
(* What the owner does leaves the tool calls alone, and the other way.     *)
LEMMA OwnerTypes ==
    ASSUME Types, Owner
    PROVE  Types'
<1> USE DEF Types
<1>1. RowsStay /\ None \notin Ids
  BY OwnerRows, IdsType
<1>2. eff' = eff /\ save' = save /\ app' = app /\ now' = now
  BY DEF Owner, Connect, Delete, SelectFind, SelectUnset, SelectSet, ValidateRead, ValidateMark
<1>3. /\ sel' \in [Selectors -> Choice]
      /\ \A s \in Selectors : sel'[s].pc # "idle" => sel'[s].row \in Ids
  <2>0. \A s \in Selectors : sel[s] \in Choice /\ (sel[s].pc # "idle" => sel[s].row \in Ids)
    BY DEF VarsType, HeldType
  <2>1. ASSUME NEW s \in Selectors, NEW i \in Ids, SelectFind(s, i)
        PROVE  /\ sel' \in [Selectors -> Choice]
               /\ \A r \in Selectors : sel'[r].pc # "idle" => sel'[r].row \in Ids
    <3> DEFINE busy == {r \in Selectors : sel[r].pc # "idle"}
               x == [pc |-> "found", row |-> i, alone |-> busy = {}]
               y(r) == [sel[r] EXCEPT !.alone = sel[r].alone /\ r \notin busy]
    <3>1. sel' = [r \in Selectors |-> IF r = s THEN x ELSE y(r)]
      BY <2>1 DEF SelectFind
    <3>2. i \in Nat /\ x \in Choice /\ x.row \in Ids
      BY IdsType DEF Choice
    <3>3. \A r \in Selectors : y(r) \in Choice /\ y(r).pc = sel[r].pc /\ y(r).row = sel[r].row
      BY <2>0 DEF Choice
    <3> HIDE DEF x, y
    <3> QED BY <2>0, <3>1, <3>2, <3>3
  <2>2. ASSUME NEW s \in Selectors, SelectUnset(s)
        PROVE  /\ sel' \in [Selectors -> Choice]
               /\ \A r \in Selectors : sel'[r].pc # "idle" => sel'[r].row \in Ids
    <3>1. CASE sel' = [sel EXCEPT ![s].pc = "unset"]
      BY <2>0, <2>2, <3>1 DEF SelectUnset, Choice, VarsType
    <3>2. CASE sel' = [sel EXCEPT ![s] = Idle]
      BY <2>0, <3>2, FreshType DEF VarsType
    <3> QED BY <2>2, <3>1, <3>2 DEF SelectUnset
  <2>3. ASSUME NEW s \in Selectors, SelectSet(s)
        PROVE  /\ sel' \in [Selectors -> Choice]
               /\ \A r \in Selectors : sel'[r].pc # "idle" => sel'[r].row \in Ids
    BY <2>0, <2>3, FreshType DEF SelectSet, VarsType
  <2>4. CASE sel' = sel
    BY <2>0, <2>4 DEF VarsType
  <2> QED
    BY <2>1, <2>2, <2>3, <2>4 DEF Owner, Connect, Delete, ValidateRead, ValidateMark, profile
<1>4. tangled' \in BOOLEAN
  <2>1. CASE tangled' = tangled
    BY <2>1 DEF VarsType
  <2>2. ASSUME NEW s \in Selectors, SelectSet(s) PROVE tangled' \in BOOLEAN
    <3>1. tangled' = ~sel[s].alone
      BY <2>2 DEF SelectSet
    <3> QED BY <3>1, Zenon
  <2> QED
    BY <2>1, <2>2 DEF Owner, Connect, Delete, SelectFind, SelectUnset, ValidateRead, ValidateMark, profile
<1>5. chosen' \in Ids \cup {None}
  <2>1. CASE chosen' = chosen
    BY <2>1 DEF HeldType
  <2>2. ASSUME NEW s \in Selectors, SelectSet(s) PROVE chosen' \in Ids \cup {None}
    BY <2>2 DEF SelectSet, HeldType
  <2> QED
    BY <2>1, <2>2 DEF Owner, Connect, Delete, SelectFind, SelectUnset, ValidateRead, ValidateMark, profile
<1>6. mark' \in [Validators -> Nat] /\ \A v \in Validators : mark'[v] \in Ids \cup {None}
  <2>1. Ids \subseteq Nat /\ None \in Nat
    BY IdsType DEF None
  <2>2. ASSUME NEW v \in Validators, NEW i \in Ids, mark' = [mark EXCEPT ![v] = i]
        PROVE  mark' \in [Validators -> Nat] /\ \A w \in Validators : mark'[w] \in Ids \cup {None}
    BY <2>1, <2>2 DEF VarsType, HeldType
  <2>3. ASSUME NEW v \in Validators, mark' = [mark EXCEPT ![v] = None]
        PROVE  mark' \in [Validators -> Nat] /\ \A w \in Validators : mark'[w] \in Ids \cup {None}
    BY <2>1, <2>3 DEF VarsType, HeldType
  <2>4. CASE mark' = mark
    BY <2>4 DEF VarsType, HeldType
  <2> QED
    BY <2>2, <2>3, <2>4 DEF Owner, Connect, Delete, SelectFind, SelectUnset, SelectSet,
       ValidateRead, ValidateMark
<1>7. HeldType'
  BY <1>1, <1>2, <1>3, <1>5, <1>6 DEF HeldType, RowsStay
<1>8. VarsType'
  BY <1>2, <1>3, <1>4, <1>6 DEF VarsType
<1> QED BY <1>1, <1>7, <1>8 DEF RowsStay

-----------------------------------------------------------------------------
(***************************************************************************)
(* Why keys stay whole: a tool call in progress holds a token of its own   *)
(* account, with the expiry of that token wherever it will be stored as    *)
(* the client's, and the refresh token it read back is there unless the    *)
(* row is gone.  And a call that made its effect fails only when the answer*)
(* got lost, or afterwards, in the calendar service, when its row is gone  *)
(* or the database fails.                                                  *)
(***************************************************************************)
Excused(i, cause) ==
    \/ cause = "answer"
    \/ app = "google-calendar" /\ (~Live(i) \/ cause = "database")
Good(c) ==
    /\ c \in ToolCall /\ c.acct \in Ids \cup {None}
    /\ c.pc \notin {"new", "planned", "done", "failed"} => c.acct \in Ids
    /\ c.pc = "new" => c.acct = None
    /\ c.pc \in {"ask", "readback", "writeback"} => app = "gmail-email"
    /\ c.pc \in {"persist", "store"} => app = "google-calendar"
    /\ c.pc \in {"readback", "writeback"} => c.tok.row = c.acct
    /\ c.pc \in {"call", "persist", "store"} /\ app = "google-calendar" =>
         c.tok = [row |-> c.acct, exp |-> c.exp]
    /\ c.pc \in {"writeback", "store"} /\ Live(c.acct) => c.kept
    /\ c.made => c.acct \in Ids /\ c.pc \in {"done", "persist", "store", "failed"}
    /\ c.made /\ c.pc = "failed" => Excused(c.acct, c.cause)

GoodSave(s) ==
    /\ s \in Saving /\ s.row \in Ids \cup {None}
    /\ s.pc # "no" => s.row \in Ids /\ s.tok.row = s.row
    /\ s.pc = "write" /\ Live(s.row) => s.kept

KeysInv == KeysWhole /\ \A e \in Effects : Good(eff[e]) /\ GoodSave(save[e])

(* A tool call that does nothing stays as good as it was.                  *)
LEMMA GoodStays ==
    ASSUME RowsStay, app' = app, NEW e, eff'[e] = eff[e], Good(eff[e])
    PROVE  Good(eff[e])'
BY DEF RowsStay, Good, Excused, Live

(* A saving that is not touched stays good.                                *)
LEMMA SaveStays ==
    ASSUME RowsStay, NEW e, save'[e] = save[e], GoodSave(save[e])
    PROVE  GoodSave(save[e])'
BY DEF RowsStay, GoodSave

(* A call that ends is good, unless it made its effect and is said to have *)
(* failed for none of the reasons.                                         *)
LEMMA EndsGood ==
    ASSUME RowsStay, app' = app, NEW e \in Effects, eff \in [Effects -> ToolCall], Good(eff[e]),
           NEW pc \in {"done", "failed"}, NEW made \in BOOLEAN,
           NEW cause \in {"none", "answer", "database"}, Over(e, pc, made, cause),
           made => eff[e].acct \in Ids,
           made /\ pc = "failed" => Excused(eff[e].acct, cause)
    PROVE  Good(eff[e])'
<1> DEFINE c == [Fresh EXCEPT !.pc = pc, !.acct = eff[e].acct, !.made = made, !.cause = cause]
<1>1. eff'[e] = c
  BY DEF Over
<1>2. eff[e].acct \in Nat /\ eff[e].acct \in Ids' \cup {None}
  BY DEF Good, RowsStay, ToolCall
<1>3. c \in ToolCall /\ c.pc = pc /\ c.acct = eff[e].acct /\ c.made = made /\ c.cause = cause
  <2>1. Fresh \in ToolCall
    BY FreshType
  <2>2. pc \in CallPcs
    BY DEF CallPcs
  <2> HIDE DEF CallPcs
  <2> QED BY <1>2, <2>1, <2>2 DEF ToolCall
<1>4. made => eff[e].acct \in Ids'
  BY DEF RowsStay
<1> HIDE DEF c
<1>5. ASSUME made, pc = "failed"
      PROVE  \/ c.cause = "answer"
             \/ app' = "google-calendar" /\ (~rows'[c.acct].live \/ c.cause = "database")
  <2>1. eff[e].acct \in Ids /\ Excused(eff[e].acct, cause)
    BY <1>5
  <2> QED BY <1>3, <2>1 DEF RowsStay, Live, Excused
<1> QED BY <1>1, <1>2, <1>3, <1>4, <1>5 DEF Good, Live, Excused

(* A tool call's steps leave everything of the others alone.               *)
LEMMA ToolFrame ==
    ASSUME Types, NEW e \in Effects, Tool(e)
    PROVE  /\ app' = app /\ now' = now /\ profile' = profile /\ mark' = mark
           /\ \A d \in Effects \ {e} : eff'[d] = eff[d] /\ save'[d] = save[d]
<1>1. app' = app /\ now' = now /\ profile' = profile /\ mark' = mark
  BY DEF Tool, Plan, Reresolve, Resolve, Ask, ReadBack, WriteBack, CallFails, Call, CallRefreshed,
     SaveRead, SaveWrite, PersistRead, PersistWrite, Breaks, Steps
<1>2. \A d \in Effects \ {e} : eff'[d] = eff[d]
  BY DEF Types, VarsType, Tool, Plan, Reresolve, Resolve, Ask, ReadBack, WriteBack, CallFails,
     Call, CallRefreshed, SaveRead, SaveWrite, PersistRead, PersistWrite, Makes, Answered, Breaks, Fails, FailsBy, Ends, Over, Into
<1>3. \A d \in Effects \ {e} : save'[d] = save[d]
  BY DEF Types, VarsType, Tool, Plan, Reresolve, Resolve, Ask, ReadBack, WriteBack, CallFails,
     Call, CallRefreshed, SaveRead, SaveWrite, PersistRead, PersistWrite, Breaks
<1> QED BY <1>1, <1>2, <1>3

(* A tool call with good data before a step that writes no row has good    *)
(* data after it when what changed of it is good.                          *)
LEMMA CallSet ==
    ASSUME Types, app' = app, rows' = rows, NEW e \in Effects, NEW c,
           eff' = [eff EXCEPT ![e] = c], Good(c)
    PROVE  Good(eff[e])' /\ eff'[e] = c
BY DEF Types, VarsType, Good, Excused, Ids, Live

(* The tool call of a step is still good.                                  *)
LEMMA ToolGood ==
    ASSUME Types, KeysInv, NEW e \in Effects, Tool(e)
    PROVE  Good(eff[e])'
<1> DEFINE c == eff[e]
<1>1. RowsStay /\ app' = app
  BY ToolRows, ToolFrame
<1>2. Good(c) /\ c \in ToolCall
  BY DEF KeysInv, Good
<1>3. /\ Shown \in Ids \cup {None} /\ Newest \in Ids \cup {None} /\ Ids \subseteq 0 .. MaxRows
      /\ None \notin Ids /\ Ids \subseteq Nat /\ None \in Nat
  BY PickedAccounts, IdsType DEF Types, None
<1>4. RowsType /\ VarsType /\ eff \in [Effects -> ToolCall]
  BY DEF Types, VarsType
<1>5. \A i \in Ids : rows[i] \in Row /\ rows[i].access \in Token /\ rows[i].exp \in Time
  BY <1>4, IdsType DEF Row, Token, Time
<1> HIDE DEF c
<1>5a. ASSUME NEW pc \in {"done", "failed"}, NEW made \in BOOLEAN,
              NEW cause \in {"none", "answer", "database"}, Over(e, pc, made, cause),
              made => c.acct \in Ids, made /\ pc = "failed" => Excused(c.acct, cause)
       PROVE  Good(eff[e])'
  BY <1>1, <1>2, <1>4, <1>5a, EndsGood DEF c
<1>6. ASSUME Ends(e, "done", TRUE), c.acct \in Ids PROVE Good(eff[e])'
  BY <1>5a, <1>6 DEF Ends
<1>7. ASSUME Fails(e), c.made => app = "google-calendar" /\ ~Live(c.acct)
      PROVE  Good(eff[e])'
  <2>1. c.made \in BOOLEAN /\ Over(e, "failed", c.made, "none") /\ (c.made => c.acct \in Ids)
    BY <1>2, <1>7 DEF Good, Fails, Ends, ToolCall, c
  <2> QED BY <1>5a, <1>7, <2>1 DEF Excused
<1>n. CASE Breaks(e)
  <2>1. /\ c.made \in BOOLEAN /\ Over(e, "failed", c.made, "database")
        /\ c.pc \in {"planned", "again", "readback", "writeback", "persist", "store"}
    BY <1>2, <1>n DEF Breaks, FailsBy, ToolCall, c
  <2>2. c.made => c.acct \in Ids /\ app = "google-calendar"
    BY <1>2, <2>1 DEF Good
  <2> QED BY <1>5a, <2>1, <2>2 DEF Excused
<1>8. ASSUME NEW d, rows' = rows, eff' = [eff EXCEPT ![e] = d], Good(d)
      PROVE  Good(eff[e])'
  BY <1>1, <1>8, CallSet
<1>a. ASSUME NEW leg \in {"send", "client"}, Plan(e, leg) PROVE Good(eff[e])'
  <2> DEFINE d == [c EXCEPT !.pc = "planned", !.leg = leg, !.acct = Shown]
  <2>1. rows' = rows /\ eff' = [eff EXCEPT ![e] = d] /\ c.pc = "new"
    BY <1>a DEF Plan, c
  <2>2. d \in ToolCall /\ d.pc = "planned" /\ d.acct = Shown /\ d.made = c.made
    BY <1>2, <1>3 DEF ToolCall, CallPcs
  <2> HIDE DEF d
  <2>3. Good(d)
    BY <1>2, <1>3, <2>1, <2>2 DEF Good
  <2> QED BY <1>8, <2>1, <2>3
<1>b. CASE Reresolve(e)
  <2> DEFINE d == [c EXCEPT !.acct = Shown]
  <2>1. rows' = rows /\ eff' = [eff EXCEPT ![e] = d] /\ c.pc = "planned"
    BY <1>b DEF Reresolve, c
  <2>2. d \in ToolCall /\ d.pc = "planned" /\ d.acct = Shown /\ d.made = c.made
    BY <1>2, <1>3, <2>1 DEF ToolCall, CallPcs
  <2> HIDE DEF d
  <2>3. Good(d)
    BY <1>2, <1>3, <2>1, <2>2 DEF Good
  <2> QED BY <1>8, <2>1, <2>3
<1>c. CASE Ask(e)
  <2>1. c.pc = "ask" /\ ~c.made /\ c.acct \in Ids /\ app = "gmail-email" /\ rows' = rows
    BY <1>2, <1>c DEF Ask, Good, c
  <2>2. CASE Fails(e)
    BY <1>7, <2>1, <2>2
  <2>3. CASE eff' = [eff EXCEPT ![e] = [c EXCEPT !.pc = "readback", !.tok = NewToken(c.acct)]]
    <3> DEFINE t == NewToken(c.acct)
               d == [c EXCEPT !.pc = "readback", !.tok = t]
    <3>0. c.acct \in 0 .. MaxRows
      BY <1>3, <2>1
    <3>1. t \in Token /\ t.row = c.acct
      BY <1>4, <3>0, TokenType
    <3> HIDE DEF t
    <3>2. d \in ToolCall /\ d.pc = "readback" /\ d.acct = c.acct /\ d.made = c.made /\ d.tok = t
      BY <1>2, <3>1 DEF ToolCall, CallPcs
    <3> HIDE DEF d
    <3>3. Good(d)
      BY <1>2, <2>1, <3>1, <3>2 DEF Good
    <3> QED BY <1>8, <2>1, <2>3, <3>3 DEF d, t
  <2> QED BY <1>c, <2>2, <2>3 DEF Ask, c
<1>d. CASE ReadBack(e)
  <2> DEFINE d == [c EXCEPT !.pc = "writeback", !.kept = rows[c.acct].refresh]
  <2>1. /\ c.pc = "readback" /\ ~c.made /\ c.acct \in Ids /\ app = "gmail-email" /\ c.tok.row = c.acct
        /\ rows' = rows /\ eff' = [eff EXCEPT ![e] = d]
    BY <1>2, <1>d DEF ReadBack, Good, c
  <2>2. rows[c.acct].refresh \in BOOLEAN /\ (Live(c.acct) => rows[c.acct].refresh)
    BY <1>5, <2>1 DEF Row, KeysInv, KeysWhole
  <2>3. /\ d \in ToolCall /\ d.pc = "writeback" /\ d.acct = c.acct /\ d.made = c.made
        /\ d.tok = c.tok /\ d.kept = rows[c.acct].refresh
    BY <1>2, <2>2 DEF ToolCall, CallPcs
  <2> HIDE DEF d
  <2>4. Good(d)
    BY <1>2, <2>1, <2>2, <2>3 DEF Good
  <2> QED BY <1>8, <2>1, <2>4
<1>e. CASE WriteBack(e)
  <2>1. c.pc = "writeback" /\ ~c.made /\ c.acct \in Ids /\ app = "gmail-email"
    BY <1>2, <1>e DEF WriteBack, Good, c
  <2>2. CASE Fails(e)
    BY <1>7, <2>1, <2>2
  <2>3. CASE Into(e, AfterToken(c.leg))
    <3> DEFINE d == [c EXCEPT !.pc = AfterToken(c.leg)]
    <3>1. eff'[e] = d
      BY <1>4, <2>3 DEF Into, c
    <3>2. AfterToken(c.leg) \in {"again", "call"}
      BY DEF AfterToken
    <3>3. d \in ToolCall /\ d.pc \in {"again", "call"} /\ d.acct = c.acct /\ d.made = c.made
      BY <1>2, <3>2 DEF ToolCall, CallPcs
    <3> HIDE DEF d
    <3>4. d.acct \in Ids' /\ app' = "gmail-email"
      BY <1>1, <2>1, <3>3 DEF RowsStay
    <3> QED BY <2>1, <3>1, <3>3, <3>4 DEF Good
  <2> QED BY <1>e, <2>2, <2>3 DEF WriteBack, c
<1>f. CASE CallFails(e)
  BY <1>2, <1>7, <1>f DEF CallFails, Good, c
<1>g. ASSUME c.pc = "call", rows' = rows, NEW t \in Token, NEW x \in Time, Makes(e, t, x),
             app = "google-calendar" => t = [row |-> c.acct, exp |-> x]
      PROVE  Good(eff[e])'
  <2>1. c.acct \in Ids
    BY <1>2, <1>g DEF Good
  <2>2. CASE app = "gmail-email"
    BY <1>6, <1>g, <2>1, <2>2 DEF Makes
  <2>3. CASE app # "gmail-email"
    <3> DEFINE d == [c EXCEPT !.tok = t, !.exp = x, !.made = TRUE, !.pc = "persist"]
    <3>1. eff' = [eff EXCEPT ![e] = d] /\ app = "google-calendar"
      BY <1>4, <1>g, <2>3 DEF Makes, VarsType, c
    <3>2. d \in ToolCall /\ d.pc = "persist" /\ d.acct = c.acct /\ d.tok = t /\ d.exp = x
      BY <1>2, <1>g DEF ToolCall, CallPcs
    <3> HIDE DEF d
    <3>3. Good(d)
      BY <1>g, <2>1, <3>1, <3>2 DEF Good
    <3> QED BY <1>8, <1>g, <3>1, <3>3
  <2> QED BY <2>2, <2>3
<1>o. ASSUME c.pc = "call", rows' = rows, NEW t \in Token, NEW x \in Time, Answered(e, t, x),
             app = "google-calendar" => t = [row |-> c.acct, exp |-> x]
      PROVE  Good(eff[e])'
  <2>1. c.acct \in Ids /\ ~c.made
    BY <1>2, <1>o DEF Good
  <2>2. CASE FailsBy(e, TRUE, "answer")
    BY <1>5a, <2>1, <2>2 DEF FailsBy, Excused
  <2>3. CASE Makes(e, t, x)
    BY <1>g, <1>o, <2>3
  <2>4. CASE Fails(e)
    BY <1>7, <2>1, <2>4
  <2> QED BY <1>o, <2>2, <2>3, <2>4 DEF Answered
<1>h. CASE Call(e)
  <2>1. c.pc = "call" /\ rows' = rows /\ Answered(e, c.tok, c.exp)
    BY <1>h DEF Call, c
  <2>2. c.tok \in Token /\ c.exp \in Time /\ (app = "google-calendar" => c.tok = [row |-> c.acct, exp |-> c.exp])
    BY <1>2, <2>1 DEF Good, ToolCall
  <2> QED BY <1>o, <2>1, <2>2
<1>i. CASE CallRefreshed(e)
  <2>1. c.pc = "call" /\ rows' = rows /\ Answered(e, NewToken(c.acct), now + Life)
    BY <1>i DEF CallRefreshed, c
  <2>2. c.acct \in 0 .. MaxRows
    BY <1>2, <1>3, <2>1 DEF Good
  <2>3. NewToken(c.acct) \in Token /\ now + Life \in Time /\ NewToken(c.acct) = [row |-> c.acct, exp |-> now + Life]
    BY <1>4, <2>2, TokenType
  <2> QED BY <1>o, <2>1, <2>3
<1>j. CASE PersistRead(e)
  <2>1. /\ c.pc = "persist" /\ c.acct \in Ids /\ app = "google-calendar" /\ rows' = rows
        /\ c.tok = [row |-> c.acct, exp |-> c.exp]
    BY <1>2, <1>j DEF PersistRead, Good, c
  <2>2. CASE Ends(e, "done", TRUE)
    BY <1>6, <2>1, <2>2
  <2>3. ASSUME rows[c.acct].live,
               eff' = [eff EXCEPT ![e] = [c EXCEPT !.pc = "store", !.kept = rows[c.acct].refresh]]
        PROVE  Good(eff[e])'
    <3> DEFINE d == [c EXCEPT !.pc = "store", !.kept = rows[c.acct].refresh]
    <3>1. rows[c.acct].refresh \in BOOLEAN /\ rows[c.acct].refresh
      BY <1>5, <2>1, <2>3 DEF Row, KeysInv, KeysWhole, Live
    <3>2. /\ d \in ToolCall /\ d.pc = "store" /\ d.acct = c.acct /\ d.tok = c.tok /\ d.exp = c.exp
          /\ d.kept = rows[c.acct].refresh
      BY <1>2, <3>1 DEF ToolCall, CallPcs
    <3>3. eff' = [eff EXCEPT ![e] = d]
      BY <2>3
    <3> HIDE DEF d
    <3>4. Good(d)
      BY <2>1, <3>1, <3>2 DEF Good
    <3> QED BY <1>8, <2>1, <3>3, <3>4
  <2> QED BY <1>j, <2>2, <2>3 DEF PersistRead, c
<1>k. CASE PersistWrite(e)
  <2>1. c.pc = "store" /\ c.acct \in Ids /\ app = "google-calendar"
    BY <1>2, <1>k DEF PersistWrite, Good, c
  <2>2. CASE Ends(e, "done", TRUE)
    BY <1>6, <2>1, <2>2
  <2>3. CASE Fails(e) /\ ~Live(c.acct)
    BY <1>7, <2>1, <2>3
  <2> QED BY <1>k, <2>2, <2>3 DEF PersistWrite, c
<1>l. CASE Resolve(e)
  <2> DEFINE leg == IF c.pc = "again" THEN "client" ELSE c.leg
             i == Newest
             pc == IF app = "gmail-email" /\ Expiring(rows[i].exp) THEN "ask" ELSE AfterToken(leg)
             d == [c EXCEPT !.leg = leg, !.acct = i, !.tok = rows[i].access, !.exp = rows[i].exp,
                            !.pc = pc]
  <2>1. c.pc \in {"planned", "again"} /\ ~c.made /\ rows' = rows
    BY <1>2, <1>l DEF Resolve, Good, c
  <2>2. CASE i = None
    BY <1>7, <1>l, <2>1, <2>2 DEF Resolve
  <2>3. CASE i # None
    <3>1. eff' = [eff EXCEPT ![e] = d]
      BY <1>l, <2>3 DEF Resolve, c
    <3>2. i \in Ids /\ leg \in {"send", "client"} /\ Live(i)
      BY <1>2, <1>3, <1>4, <2>3, PickedAccounts DEF ToolCall, Usable
    <3>3. pc \in {"ask", "again", "call"} /\ (pc = "ask" => app = "gmail-email")
      BY DEF AfterToken
    <3>4. rows[i].access = [row |-> i, exp |-> rows[i].exp]
      BY <3>2 DEF KeysInv, KeysWhole
    <3> HIDE DEF leg, i, pc
    <3>5. /\ d \in ToolCall /\ d.pc = pc /\ d.acct = i /\ d.made = c.made
          /\ d.tok = rows[i].access /\ d.exp = rows[i].exp
      BY <1>2, <1>3, <1>5, <3>2, <3>3 DEF ToolCall, CallPcs
    <3> HIDE DEF d
    <3>6. Good(d)
      BY <2>1, <3>2, <3>3, <3>4, <3>5 DEF Good
    <3> QED BY <1>8, <2>1, <3>1, <3>6
  <2> QED BY <2>2, <2>3
<1>m. CASE eff' = eff
  BY <1>1, <1>2, <1>m, GoodStays DEF c
<1> QED
  BY <1>a, <1>b, <1>c, <1>d, <1>e, <1>f, <1>h, <1>i, <1>j, <1>k, <1>l, <1>m, <1>n
     DEF Tool, SaveRead, SaveWrite

(* And so is its listener.                                                 *)
LEMMA ToolSave ==
    ASSUME Types, KeysInv, NEW e \in Effects, Tool(e)
    PROVE  GoodSave(save[e])'
<1> DEFINE s == save[e]
<1>1. RowsStay /\ GoodSave(s) /\ s \in Saving /\ save \in [Effects -> Saving] /\ RowsType /\ VarsType
  BY ToolRows DEF KeysInv, GoodSave, Types, VarsType
<1> HIDE DEF s
<1>2. CASE CallRefreshed(e) /\ app = "gmail-email"
  <2> DEFINE t == NewToken(eff[e].acct)
             d == [pc |-> "read", row |-> eff[e].acct, tok |-> t, kept |-> FALSE]
  <2>1. eff[e].acct \in Ids /\ Ids \subseteq 0 .. MaxRows /\ Ids \subseteq Nat
    BY <1>1, <1>2, IdsType DEF CallRefreshed, KeysInv, Good
  <2>0. eff[e].acct \in 0 .. MaxRows
    BY <2>1
  <2>2. t \in Token /\ t.row = eff[e].acct
    BY <1>1, <2>0, TokenType
  <2>3. save'[e] = d
    BY <1>1, <1>2 DEF CallRefreshed
  <2> HIDE DEF t
  <2>4. d \in Saving /\ d.row \in Ids' /\ d.tok.row = d.row /\ d.pc = "read"
    BY <1>1, <2>1, <2>2 DEF Saving, RowsStay
  <2> HIDE DEF d
  <2> QED BY <2>3, <2>4 DEF GoodSave
<1>3. CASE SaveRead(e) /\ save'[e] # Quiet
  <2> DEFINE d == [s EXCEPT !.pc = "write", !.kept = rows[s.row].refresh]
  <2>1. s.row \in Ids /\ s.tok.row = s.row /\ save'[e] = d /\ rows' = rows
    BY <1>1, <1>3 DEF SaveRead, GoodSave, s
  <2>2. rows[s.row].refresh \in BOOLEAN /\ (Live(s.row) => rows[s.row].refresh)
    BY <1>1, <2>1, IdsType DEF Row, KeysInv, KeysWhole
  <2>3. d \in Saving /\ d.row = s.row /\ d.tok = s.tok /\ d.kept = rows[s.row].refresh
    BY <1>1, <2>2 DEF Saving
  <2> HIDE DEF d
  <2>4. d.row \in Ids'
    BY <1>1, <2>1, <2>3 DEF RowsStay
  <2>5. rows'[d.row].live => d.kept
    BY <2>1, <2>2, <2>3 DEF Live
  <2> QED BY <2>1, <2>3, <2>4, <2>5 DEF GoodSave, Live
<1>4. CASE save'[e] = Quiet
  BY <1>4, FreshType DEF GoodSave
<1>4a. CASE SaveWrite(e)
  <2>1. save'[e] = Quiet
    BY <1>1, <1>4a DEF SaveWrite
  <2> QED BY <1>4, <2>1
<1>5. CASE save'[e] = s
  BY <1>1, <1>5, SaveStays DEF s
<1> QED
  BY <1>2, <1>3, <1>4, <1>4a, <1>5 DEF Tool, Plan, Reresolve, Resolve, Ask, ReadBack, WriteBack,
     CallFails, Call, CallRefreshed, PersistRead, PersistWrite, Breaks, s

(* What the owner does leaves keys alone; a new one is whole.              *)
LEMMA OwnerKeys ==
    ASSUME Types, KeysWhole, Owner
    PROVE  KeysWhole'
<1>1. \A i \in Ids : rows[i] \in Row
  BY IdsType DEF Types
<1>2. RowsStay /\ RowsType /\ Len(rows) \in Nat
  BY OwnerRows, IdsType DEF Types
<1>3. ASSUME \A i \in Ids : /\ rows'[i].access = rows[i].access /\ rows'[i].exp = rows[i].exp
                            /\ rows'[i].refresh = rows[i].refresh,
             Ids' = Ids
      PROVE  KeysWhole'
  BY <1>2, <1>3 DEF KeysWhole, RowsStay
<1>a. ASSUME NEW m \in Emails, Connect(m) PROVE KeysWhole'
  <2> DEFINE n == Len(rows) + 1
             r == [email |-> m, live |-> TRUE, invalid |-> FALSE, current |-> FALSE,
                   access |-> NewToken(n), exp |-> now + Life, refresh |-> TRUE]
  <2>1. rows' = Append(rows, r)
    BY <1>a DEF Connect
  <2>2. r.refresh /\ r.access = [row |-> n, exp |-> r.exp]
    BY DEF NewToken
  <2> HIDE DEF r
  <2>3. /\ Ids' = Ids \cup {n} /\ rows'[n] = r
        /\ \A i \in Ids : rows'[i] = rows[i]
    BY <1>2, <2>1 DEF RowsType, Ids
  <2> HIDE DEF n
  <2> QED BY <2>2, <2>3 DEF KeysWhole, Live
<1>b. ASSUME NEW i \in Ids, Delete(i) PROVE KeysWhole'
  <2>1. Ids' = Ids /\ rows'[i] = Gone /\ \A j \in Ids \ {i} : rows'[j] = rows[j]
    BY <1>2, <1>b, FreshType, OneRow DEF Delete
  <2> QED BY <2>1, FreshType DEF KeysWhole, Live
<1>c. ASSUME NEW s \in Selectors, SelectUnset(s), rows' # rows PROVE KeysWhole'
  <2>1. \A i \in Ids : rows'[i] \in {rows[i], [rows[i] EXCEPT !.current = FALSE]}
    BY <1>c DEF SelectUnset
  <2>2. Ids' = Ids
    BY <1>2, <1>c DEF SelectUnset, Ids
  <2>3. \A i \in Ids : /\ rows'[i].access = rows[i].access /\ rows'[i].exp = rows[i].exp
                       /\ rows'[i].refresh = rows[i].refresh
    BY <1>1, <2>1 DEF Row
  <2> QED BY <1>3, <2>2, <2>3
<1>d. ASSUME NEW s \in Selectors, SelectSet(s) PROVE KeysWhole'
  <2> DEFINE i == sel[s].row
             r == [rows[i] EXCEPT !.current = TRUE]
  <2>1. i \in Ids
    BY <1>d DEF SelectSet, Types, HeldType
  <2>2. CASE rows' = rows
    BY <1>2, <1>3, <2>2, SameRows
  <2>3. CASE rows' = [rows EXCEPT ![i] = r]
    <3>1. r \in Row /\ r.access = rows[i].access /\ r.exp = rows[i].exp /\ r.refresh = rows[i].refresh
      BY <1>1, <2>1 DEF Row
    <3> HIDE DEF i, r
    <3>2. Ids' = Ids /\ rows'[i] = r /\ \A j \in Ids \ {i} : rows'[j] = rows[j]
      BY <1>2, <2>1, <2>3, <3>1, OneRow
    <3> QED BY <1>3, <3>1, <3>2
  <2> QED BY <1>d, <2>2, <2>3 DEF SelectSet
<1>e. ASSUME NEW v \in Validators, ValidateMark(v), rows' # rows PROVE KeysWhole'
  <2> DEFINE i == mark[v]
             b == rows[i].invalid \/ Live(i)
             r == [rows[i] EXCEPT !.invalid = b]
  <2>1. i \in Ids
    BY <1>e DEF ValidateMark, Types, HeldType
  <2>2. rows' = [rows EXCEPT ![i] = r]
    BY <1>e DEF ValidateMark
  <2>3. b \in BOOLEAN
    BY <1>1, <2>1 DEF Row, Live
  <2> HIDE DEF b
  <2>4. r \in Row /\ r.access = rows[i].access /\ r.exp = rows[i].exp /\ r.refresh = rows[i].refresh
    BY <1>1, <2>1, <2>3 DEF Row
  <2> HIDE DEF i, r
  <2>5. Ids' = Ids /\ rows'[i] = r /\ \A j \in Ids \ {i} : rows'[j] = rows[j]
    BY <1>2, <2>1, <2>2, <2>4, OneRow
  <2> QED BY <1>3, <2>4, <2>5
<1>f. CASE rows' = rows
  BY <1>2, <1>3, <1>f, SameRows
<1> QED
  BY <1>a, <1>b, <1>c, <1>d, <1>e, <1>f DEF Owner, SelectFind, ValidateRead

(* A tool call stores whole keys.                                          *)
LEMMA ToolKeys ==
    ASSUME Types, KeysInv, NEW e \in Effects, Tool(e)
    PROVE  KeysWhole'
<1>1. RowsType /\ RowsStay /\ eff[e] \in ToolCall /\ save[e] \in Saving /\ KeysWhole
  BY ToolRows DEF Types, VarsType, KeysInv
<1>2. CASE rows' = rows
  BY <1>1, <1>2, SameRows DEF KeysWhole, Live
<1>3. ASSUME NEW i \in Ids, NEW t \in Token, NEW x \in Time, NEW b \in BOOLEAN,
             rows' = Stored(i, t, x, b), b, t = [row |-> i, exp |-> x]
      PROVE  KeysWhole'
  <2>1. /\ rows'[i].access = t /\ rows'[i].exp = x /\ rows'[i].refresh = b
        /\ \A j \in Ids \ {i} : rows'[j] = rows[j]
    BY <1>1, <1>3, StoredRows
  <2>2. Ids' = Ids
    BY <1>1, <1>3 DEF Stored, Ids, RowsType
  <2>3. ASSUME NEW j \in Ids, rows'[j].live
        PROVE  rows'[j].refresh /\ rows'[j].access = [row |-> j, exp |-> rows'[j].exp]
    <3>1. CASE j = i
      BY <1>3, <2>1, <3>1
    <3>2. CASE j # i
      BY <1>1, <2>1, <2>3, <3>2 DEF KeysWhole, Live
    <3> QED BY <3>1, <3>2
  <2> QED BY <2>2, <2>3 DEF KeysWhole, Live
<1>4. CASE WriteBack(e) /\ Live(eff[e].acct)
  <2> DEFINE c == eff[e]
  <2>1. /\ c.acct \in Ids /\ c.kept /\ c.tok.row = c.acct
        /\ rows' = Stored(c.acct, c.tok, c.tok.exp, c.kept)
    BY <1>4 DEF WriteBack, KeysInv, Good
  <2>2. c.tok \in Token /\ c.tok.exp \in Time /\ c.kept \in BOOLEAN /\ c.tok = [row |-> c.tok.row, exp |-> c.tok.exp]
    BY <1>1 DEF ToolCall, Token
  <2> HIDE DEF c
  <2> QED BY <1>3, <2>1, <2>2
<1>5. CASE SaveWrite(e) /\ Live(save[e].row) /\ rows' # rows
  <2> DEFINE c == save[e]
  <2>1. /\ c.row \in Ids /\ c.kept /\ c.tok.row = c.row
        /\ rows' = Stored(c.row, c.tok, c.tok.exp, c.kept)
    BY <1>5 DEF SaveWrite, KeysInv, GoodSave
  <2>2. c.tok \in Token /\ c.tok.exp \in Time /\ c.kept \in BOOLEAN /\ c.tok = [row |-> c.tok.row, exp |-> c.tok.exp]
    BY <1>1 DEF Saving, Token
  <2> HIDE DEF c
  <2> QED BY <1>3, <2>1, <2>2
<1>6. CASE PersistWrite(e) /\ Live(eff[e].acct)
  <2> DEFINE c == eff[e]
  <2>1. /\ c.acct \in Ids /\ c.kept /\ c.tok = [row |-> c.acct, exp |-> c.exp]
        /\ rows' = Stored(c.acct, c.tok, c.exp, c.kept)
    BY <1>6 DEF PersistWrite, KeysInv, Good
  <2>2. c.tok \in Token /\ c.exp \in Time /\ c.kept \in BOOLEAN
    BY <1>1 DEF ToolCall
  <2> HIDE DEF c
  <2> QED BY <1>3, <2>1, <2>2
<1> QED
  BY <1>2, <1>4, <1>5, <1>6 DEF Tool, Plan, Reresolve, Resolve, Ask, ReadBack, WriteBack, CallFails,
     Call, CallRefreshed, SaveRead, SaveWrite, PersistRead, PersistWrite, Breaks

(* What a tool call does keeps every type.                                 *)
LEMMA ToolTypes ==
    ASSUME Types, KeysInv, NEW e \in Effects, Tool(e)
    PROVE  Types' /\ KeysInv'
<1>1. RowsStay /\ None \notin Ids
  BY ToolRows, IdsType DEF Types
<1>2. /\ app' = app /\ now' = now /\ profile' = profile /\ mark' = mark
      /\ \A d \in Effects \ {e} : eff'[d] = eff[d] /\ save'[d] = save[d]
  BY ToolFrame
<1>3. \A d \in Effects : Good(eff[d])' /\ GoodSave(save[d])'
  <2>1. Good(eff[e])' /\ GoodSave(save[e])'
    BY ToolGood, ToolSave
  <2>2. ASSUME NEW d \in Effects \ {e} PROVE Good(eff[d])' /\ GoodSave(save[d])'
    <3>1. Good(eff[d]) /\ GoodSave(save[d]) /\ eff'[d] = eff[d] /\ save'[d] = save[d]
      BY <1>2 DEF KeysInv
    <3> QED BY <1>1, <1>2, <3>1, GoodStays, SaveStays
  <2> QED BY <2>1, <2>2
<1>4. \E f, g : eff' = [d \in Effects |-> f[d]] /\ save' = [d \in Effects |-> g[d]]
  <2>1. eff = [d \in Effects |-> eff[d]] /\ save = [d \in Effects |-> save[d]]
    BY DEF Types, VarsType
  <2>2. eff' = [d \in Effects |-> eff'[d]]
    BY <2>1 DEF Tool, Plan, Reresolve, Resolve, Ask, ReadBack, WriteBack, CallFails, Call,
       CallRefreshed, SaveRead, SaveWrite, PersistRead, PersistWrite, Makes, Answered, Breaks, Fails, FailsBy, Ends, Over, Into
  <2>3. save' = [d \in Effects |-> save'[d]]
    BY <2>1 DEF Tool, Plan, Reresolve, Resolve, Ask, ReadBack, WriteBack, CallFails, Call,
       CallRefreshed, SaveRead, SaveWrite, PersistRead, PersistWrite, Breaks
  <2> QED BY <2>2, <2>3
<1>5. VarsType'
  <2>1. \A d \in Effects : eff'[d] \in ToolCall /\ save'[d] \in Saving
    BY <1>3 DEF Good, GoodSave
  <2>2. eff' \in [Effects -> ToolCall] /\ save' \in [Effects -> Saving]
    BY <1>4, <2>1
  <2> QED BY <1>2, <2>2 DEF Types, VarsType, profile
<1>6. HeldType'
  <2>1. \A d \in Effects : /\ eff'[d].acct \in Ids' \cup {None} /\ save'[d].row \in Ids' \cup {None}
                           /\ eff'[d].pc \notin {"new", "planned", "done", "failed"} => eff'[d].acct \in Ids'
                           /\ save'[d].pc # "no" => save'[d].row \in Ids'
    BY <1>3 DEF Good, GoodSave
  <2>2. /\ \A s \in Selectors : sel'[s].pc # "idle" => sel'[s].row \in Ids'
        /\ \A v \in Validators : mark'[v] \in Ids' \cup {None}
        /\ chosen' \in Ids' \cup {None}
    BY <1>1, <1>2 DEF Types, HeldType, RowsStay, profile
  <2> QED BY <2>1, <2>2 DEF HeldType
<1> QED BY <1>1, <1>3, <1>5, <1>6, ToolKeys DEF Types, KeysInv, RowsStay

(* Every step keeps the types and the keys.                                *)
LEMMA Step ==
    ASSUME Types, KeysInv, [Next]_vars
    PROVE  Types' /\ KeysInv'
<1>1. CASE Owner
  <2>1. RowsStay /\ Types' /\ KeysWhole'
    BY <1>1, OwnerRows, OwnerTypes, OwnerKeys DEF KeysInv
  <2>2. eff' = eff /\ save' = save /\ app' = app
    BY <1>1 DEF Owner, Connect, Delete, SelectFind, SelectUnset, SelectSet, ValidateRead, ValidateMark
  <2>3. ASSUME NEW e \in Effects PROVE Good(eff[e])' /\ GoodSave(save[e])'
    <3>1. Good(eff[e]) /\ GoodSave(save[e])
      BY DEF KeysInv
    <3> QED BY <2>1, <2>2, <3>1, GoodStays, SaveStays
  <2> QED BY <2>1, <2>3 DEF KeysInv
<1>2. CASE Tick
  <2>1. RowsType /\ VarsType /\ HeldType
    BY DEF Types
  <2>2. now' \in 0 .. MaxTime
    BY <1>2, <2>1, Bounds DEF Tick, VarsType
  <2>3. /\ rows' = rows /\ app' = app /\ sel' = sel /\ chosen' = chosen /\ tangled' = tangled
        /\ mark' = mark /\ eff' = eff /\ save' = save
    BY <1>2 DEF Tick, profile
  <2>4. RowsType' /\ HeldType'
    BY <2>1, <2>3 DEF RowsType, HeldType, Ids, Tops
  <2>5. VarsType'
    BY <2>1, <2>2, <2>3 DEF VarsType
  <2>6. KeysInv'
    BY <2>3 DEF KeysInv, KeysWhole, Good, Excused, GoodSave, Ids, Live
  <2> QED BY <2>4, <2>5, <2>6 DEF Types
<1>3. CASE UNCHANGED vars
  <2>1. /\ rows' = rows /\ app' = app /\ sel' = sel /\ chosen' = chosen /\ tangled' = tangled
        /\ mark' = mark /\ eff' = eff /\ save' = save /\ now' = now
    BY <1>3 DEF vars
  <2>2. RowsType' /\ HeldType'
    BY <2>1 DEF Types, RowsType, HeldType, Ids, Tops
  <2>3. VarsType'
    BY <2>1 DEF Types, VarsType
  <2>4. KeysInv'
    BY <2>1 DEF KeysInv, KeysWhole, Good, Excused, GoodSave, Ids, Live
  <2> QED BY <2>2, <2>3, <2>4 DEF Types
<1> QED BY <1>1, <1>2, <1>3, ToolTypes DEF Next

(* The initial state has them.                                             *)
LEMMA InitKeys == Init => Types /\ KeysInv
<1> SUFFICES ASSUME Init PROVE KeysInv
  BY InitTypes
<1>1. Types /\ Ids = {}
  BY InitTypes DEF Init, Ids
<1>2. \A e \in Effects : eff[e] = Fresh /\ save[e] = Quiet
  BY DEF Init
<1>3. Good(Fresh) /\ GoodSave(Quiet)
  BY FreshType DEF Good, GoodSave
<1> QED BY <1>1, <1>2, <1>3 DEF KeysInv, KeysWhole

(* Types and keys hold at every moment.                                    *)
LEMMA Always == Spec => [](Types /\ KeysInv)
<1>1. Types /\ KeysInv /\ [Next]_vars => (Types /\ KeysInv)'
  BY Step
<1> QED BY <1>1, InitKeys, PTL DEF Spec

-----------------------------------------------------------------------------
(* Every request and every tool call holds on to rows there were.          *)
THEOREM TypeCorrect == Spec => []TypeOK
<1>1. Types => TypeOK
  BY IdsType DEF Types, RowsType, HeldType, TypeOK
<1> QED BY <1>1, Always, PTL

(* However refreshes of any number of tool calls overlap, with each other  *)
(* and with what the owner does, a stored key is whole.                    *)
THEOREM KeysStayWhole == Spec => []KeysWhole
<1>1. KeysInv => KeysWhole
  BY DEF KeysInv
<1> QED BY <1>1, Always, PTL

(* A call that made its effect and is reported as failed had its answer    *)
(* lost, or is one of the calendar service whose account was deleted       *)
(* meanwhile or for which the database failed; no interleaving with the    *)
(* listener, other calls or the owner adds a reason.                       *)
THEOREM MadeIsReported == Spec => []MadeThenFailed
<1>1. KeysInv => MadeThenFailed
  BY DEF KeysInv, Good, Excused, MadeThenFailed
<1> QED BY <1>1, Always, PTL

(* A call moves to another account only when it resolves anew, and then to *)
(* the newest usable one.                                                  *)
THEOREM AccountMoves == Spec => EffectAccount
<1> DEFINE Moves == \A e \in Effects :
                      eff[e].acct # None /\ eff'[e].acct # eff[e].acct =>
                        eff'[e].acct > eff[e].acct \/ ~Usable(eff[e].acct)
<1>1. ASSUME Types, KeysInv, NEW e \in Effects, Tool(e), eff[e].acct # None,
             eff'[e].acct # eff[e].acct, Usable(eff[e].acct)
      PROVE  eff'[e].acct > eff[e].acct
  <2> DEFINE c == eff[e]
  <2>1. eff \in [Effects -> ToolCall] /\ RowsType /\ c.acct \in Ids /\ (c.pc = "new" => c.acct = None)
    BY <1>1 DEF Types, VarsType, KeysInv, Good
  <2>2. CASE Resolve(e) /\ Newest # None
    <3>1. eff'[e].acct = Newest
      BY <2>1, <2>2 DEF Resolve, ToolCall
    <3>2. c.acct <= Newest /\ Newest \in Nat /\ c.acct \in Nat
      BY <1>1, <2>1, <2>2, PickedAccounts, IdsType
    <3> QED BY <1>1, <3>1, <3>2
  <2>3. ASSUME NEW pc, NEW made, NEW cause, Over(e, pc, made, cause) PROVE eff'[e].acct = c.acct
    BY <2>1, <2>3 DEF Over, Fresh
  <2>4. ~Fails(e) /\ ~Breaks(e) /\ ~FailsBy(e, TRUE, "answer")
    BY <1>1, <2>3 DEF Fails, Ends, Breaks, FailsBy
  <2>5. CASE \E t, x : Makes(e, t, x)
    <3>1. PICK t, x : Makes(e, t, x)
      BY <2>5
    <3>2. eff'[e].acct = c.acct
      BY <2>1, <2>3, <3>1 DEF Makes, Ends, ToolCall
    <3> QED BY <1>1, <3>2
  <2>6. CASE \E leg \in {"send", "client"} : Plan(e, leg)
    BY <1>1, <2>1, <2>6 DEF Plan
  <2>7. CASE Reresolve(e)
    BY <1>1, <2>7 DEF Reresolve
  <2>8. CASE eff' = eff
    BY <1>1, <2>8
  <2>9. CASE Ask(e) \/ ReadBack(e) \/ WriteBack(e) \/ PersistRead(e) \/ PersistWrite(e)
    <3>1. CASE Ends(e, "done", TRUE)
      BY <1>1, <2>3, <3>1 DEF Ends
    <3>2. CASE ~Fails(e) /\ ~Ends(e, "done", TRUE)
      BY <1>1, <2>1, <2>9, <3>2 DEF Ask, ReadBack, WriteBack, PersistRead, PersistWrite, Into, ToolCall
    <3> QED BY <2>4, <3>1, <3>2
  <2> QED
    BY <1>1, <2>2, <2>4, <2>5, <2>6, <2>7, <2>8, <2>9
       DEF Tool, Resolve, CallFails, Call, CallRefreshed, Answered, SaveRead, SaveWrite
<1>2. Types /\ KeysInv /\ [Next]_vars => [Moves]_vars
  <2> SUFFICES ASSUME Types, KeysInv, Next PROVE Moves
    OBVIOUS
  <2>1. CASE eff' = eff
    BY <2>1
  <2>2. ASSUME NEW d \in Effects, Tool(d) PROVE Moves
    <3>1. \A e \in Effects \ {d} : eff'[e] = eff[e]
      BY <2>2, ToolFrame
    <3> QED BY <1>1, <2>2, <3>1
  <2> QED
    BY <2>1, <2>2 DEF Next, Owner, Connect, Delete, SelectFind, SelectUnset, SelectSet, ValidateRead,
       ValidateMark, Tick
<1>3. Moves => \A e \in Effects :
         LET before == eff[e].acct
             after == eff'[e].acct
         IN  before # None /\ after # before => after > before \/ ~Usable(before)
  OBVIOUS
<1> HIDE DEF Moves
<1> QED BY <1>2, <1>3, Always, PTL DEF Spec, EffectAccount

-----------------------------------------------------------------------------
(***************************************************************************)
(* Why the user's choice holds: a selection that nothing overlaps finds no *)
(* other in progress, so once it has unset the others only its own row can *)
(* be current; nothing but selections changes which of the rows that stay  *)
(* is current.  A selection that fails before it has unset any changes     *)
(* nothing.                                                                *)
(***************************************************************************)
Alone ==
    \A s \in Selectors : sel[s].pc # "idle" /\ sel[s].alone =>
      /\ \A r \in Selectors \ {s} : sel[r].pc = "idle"
      /\ sel[s].pc = "unset" => Current \subseteq {sel[s].row}
Settled ==
    (~tangled /\ \A s \in Selectors : sel[s].pc # "unset") =>
      /\ Current \subseteq {chosen}
      /\ (chosen # None /\ Live(chosen)) => chosen \in Current

(* Only selections change which of the rows that stay is current.          *)
LEMMA CurrentStays ==
    ASSUME Types, Next, sel' = sel \/ \E s \in Selectors, i \in Ids : SelectFind(s, i)
    PROVE  Current' \subseteq Current /\ \A i \in Current : Live(i)' => i \in Current'
<1>1. RowsStay
  BY OwnerRows, ToolRows, SameRows DEF Next, Tick, Types
<1>2. RowsType /\ HeldType /\ VarsType /\ \A i \in Ids : rows[i] \in Row
  BY IdsType DEF Types
<1>3. ASSUME \A i \in Ids : Live(i)' => rows'[i].current = rows[i].current,
             \A i \in Ids' \ Ids : ~rows'[i].current
      PROVE  Current' \subseteq Current /\ \A i \in Current : Live(i)' => i \in Current'
  BY <1>1, <1>3 DEF Current, RowsStay, Live
<1>4. CASE rows' = rows
  BY <1>4 DEF Current, Ids, Live
<1>5. ASSUME NEW i \in Ids, NEW t \in Token, NEW x \in Time, NEW b \in BOOLEAN,
             rows' = Stored(i, t, x, b)
      PROVE  Current' \subseteq Current /\ \A j \in Current : Live(j)' => j \in Current'
  <2>1. rows'[i].current = rows[i].current /\ \A j \in Ids \ {i} : rows'[j] = rows[j]
    BY <1>2, <1>5, StoredRows
  <2>2. Ids' = Ids
    BY <1>2, <1>5 DEF Stored, Ids, RowsType
  <2>3. \A j \in Ids : rows'[j].current = rows[j].current
    BY <2>1
  <2> QED BY <1>3, <2>2, <2>3
<1>a. ASSUME NEW m \in Emails, Connect(m)
      PROVE  Current' \subseteq Current /\ \A i \in Current : Live(i)' => i \in Current'
  <2> DEFINE n == Len(rows) + 1
             r == [email |-> m, live |-> TRUE, invalid |-> FALSE, current |-> FALSE,
                   access |-> NewToken(n), exp |-> now + Life, refresh |-> TRUE]
  <2>1. rows' = Append(rows, r) /\ ~r.current
    BY <1>a DEF Connect
  <2> HIDE DEF r
  <2>2. Ids' = Ids \cup {n} /\ rows'[n] = r /\ \A i \in Ids : rows'[i] = rows[i]
    BY <1>2, <2>1 DEF RowsType, Ids
  <2> HIDE DEF n
  <2> QED BY <1>3, <2>1, <2>2
<1>b. ASSUME NEW i \in Ids, Delete(i)
      PROVE  Current' \subseteq Current /\ \A j \in Current : Live(j)' => j \in Current'
  <2>1. Ids' = Ids /\ rows'[i] = Gone /\ \A j \in Ids \ {i} : rows'[j] = rows[j]
    BY <1>2, <1>b, FreshType, OneRow DEF Delete
  <2>2. \A j \in Ids : rows'[j].live => rows'[j].current = rows[j].current
    BY <2>1, FreshType
  <2> QED BY <1>3, <2>1, <2>2 DEF Live
<1>c. ASSUME NEW v \in Validators, ValidateMark(v), rows' # rows
      PROVE  Current' \subseteq Current /\ \A j \in Current : Live(j)' => j \in Current'
  <2> DEFINE i == mark[v]
             b == rows[i].invalid \/ Live(i)
             r == [rows[i] EXCEPT !.invalid = b]
  <2>1. i \in Ids
    BY <1>2, <1>c DEF ValidateMark, HeldType
  <2>2. rows' = [rows EXCEPT ![i] = r]
    BY <1>c DEF ValidateMark
  <2>3. b \in BOOLEAN
    BY <1>2, <2>1 DEF Row, Live
  <2> HIDE DEF b
  <2>4. r \in Row /\ r.current = rows[i].current
    BY <1>2, <2>1, <2>3 DEF Row
  <2> HIDE DEF i, r
  <2>5. Ids' = Ids /\ rows'[i] = r /\ \A j \in Ids \ {i} : rows'[j] = rows[j]
    BY <1>2, <2>1, <2>2, <2>4, OneRow
  <2>6. \A j \in Ids : rows'[j].current = rows[j].current
    BY <2>4, <2>5
  <2> QED BY <1>3, <2>5, <2>6
<1>d. ASSUME NEW e \in Effects, Tool(e)
      PROVE  Current' \subseteq Current /\ \A j \in Current : Live(j)' => j \in Current'
  <2>1. eff[e] \in ToolCall /\ save[e] \in Saving
    BY <1>2 DEF VarsType
  <2>2. CASE WriteBack(e) /\ Live(eff[e].acct)
    <3>1. eff[e].acct \in Ids
      BY <1>2, <2>2 DEF WriteBack, HeldType
    <3>2. eff[e].tok \in Token /\ eff[e].tok.exp \in Time /\ eff[e].kept \in BOOLEAN
      BY <2>1 DEF ToolCall, Token
    <3> QED BY <1>5, <2>2, <3>1, <3>2 DEF WriteBack
  <2>3. CASE SaveWrite(e) /\ Live(save[e].row) /\ rows' # rows
    <3>1. save[e].row \in Ids
      BY <1>2, <2>3 DEF SaveWrite, HeldType
    <3>2. save[e].tok \in Token /\ save[e].tok.exp \in Time /\ save[e].kept \in BOOLEAN
      BY <2>1 DEF Saving, Token
    <3> QED BY <1>5, <2>3, <3>1, <3>2 DEF SaveWrite
  <2>4. CASE PersistWrite(e) /\ Live(eff[e].acct)
    <3>1. eff[e].acct \in Ids
      BY <1>2, <2>4 DEF PersistWrite, HeldType
    <3>2. eff[e].tok \in Token /\ eff[e].exp \in Time /\ eff[e].kept \in BOOLEAN
      BY <2>1 DEF ToolCall
    <3> QED BY <1>5, <2>4, <3>1, <3>2 DEF PersistWrite
  <2> QED
    BY <1>4, <1>d, <2>2, <2>3, <2>4 DEF Tool, Plan, Reresolve, Resolve, Ask, ReadBack, WriteBack,
       CallFails, Call, CallRefreshed, SaveRead, SaveWrite, PersistRead, PersistWrite, Breaks
<1>e. ASSUME NEW s \in Selectors, SelectUnset(s) \/ SelectSet(s), sel' = sel PROVE FALSE
  <2>1. sel \in [Selectors -> Choice] /\ sel[s] \in Choice
    BY <1>2 DEF VarsType
  <2>2. CASE SelectUnset(s)
    <3>1. sel[s].pc = "found" /\ sel'[s] \in {[sel[s] EXCEPT !.pc = "unset"], Idle}
      BY <2>1, <2>2 DEF SelectUnset
    <3>2. sel'[s].pc \in {"unset", "idle"}
      BY <2>1, <3>1, FreshType DEF Choice
    <3> QED BY <1>e, <3>1, <3>2
  <2>3. CASE SelectSet(s)
    <3>1. sel[s].pc = "unset" /\ sel'[s] = Idle
      BY <2>1, <2>3 DEF SelectSet
    <3> QED BY <1>e, <3>1, FreshType
  <2> QED BY <1>e, <2>2, <2>3
<1>f. ASSUME NEW s \in Selectors, NEW i \in Ids, SelectFind(s, i) PROVE rows' = rows
  BY <1>f DEF SelectFind
<1>g. CASE sel' = sel
  BY <1>4, <1>a, <1>b, <1>c, <1>d, <1>e, <1>f, <1>g DEF Next, Owner, ValidateRead, Tick
<1> QED BY <1>4, <1>f, <1>g

(* A selection made alone is still alone, or is no longer said to be.      *)
LEMMA AloneStays ==
    ASSUME Types, Alone, [Next]_vars
    PROVE  Alone'
<1>1. sel \in [Selectors -> Choice] /\ \A s \in Selectors : sel[s] \in Choice
  BY DEF Types, VarsType
<1>2. CASE rows' = rows /\ sel' = sel
  BY <1>2 DEF Alone, Current, Ids, Live
<1>3. CASE Next /\ sel' = sel
  <2>1. Current' \subseteq Current
    BY <1>3, CurrentStays
  <2> QED BY <1>3, <2>1 DEF Alone
<1>4. ASSUME NEW s \in Selectors, NEW i \in Ids, SelectFind(s, i) PROVE Alone'
  <2> DEFINE busy == {r \in Selectors : sel[r].pc # "idle"}
             x == [pc |-> "found", row |-> i, alone |-> busy = {}]
             y(r) == [sel[r] EXCEPT !.alone = sel[r].alone /\ r \notin busy]
  <2>1. sel' = [r \in Selectors |-> IF r = s THEN x ELSE y(r)] /\ rows' = rows /\ sel[s].pc = "idle"
    BY <1>4 DEF SelectFind
  <2>2. \A r \in Selectors : /\ y(r).pc = sel[r].pc /\ y(r).row = sel[r].row
                             /\ sel[r].pc # "idle" => ~y(r).alone
    BY <1>1 DEF Choice
  <2>3. x.pc = "found" /\ (x.alone => \A r \in Selectors : sel[r].pc = "idle")
    OBVIOUS
  <2>4. Current' = Current
    BY <2>1 DEF Current, Ids, Live
  <2> HIDE DEF x, y
  <2>5. ASSUME NEW r \in Selectors, sel'[r].pc # "idle", sel'[r].alone
        PROVE  /\ \A q \in Selectors \ {r} : sel'[q].pc = "idle"
               /\ sel'[r].pc # "unset"
    <3>1. CASE r = s
      BY <2>1, <2>2, <2>3, <2>5, <3>1
    <3>2. CASE r # s
      BY <2>1, <2>2, <2>5, <3>2
    <3> QED BY <3>1, <3>2
  <2> QED BY <2>5 DEF Alone
<1>5. ASSUME NEW s \in Selectors, SelectUnset(s), sel' # [sel EXCEPT ![s] = Idle] PROVE Alone'
  <2>1. /\ sel'[s] = [sel[s] EXCEPT !.pc = "unset"] /\ sel[s].pc = "found"
        /\ \A r \in Selectors \ {s} : sel'[r] = sel[r]
        /\ rows' = [i \in Ids |-> IF i = sel[s].row THEN rows[i]
                                  ELSE [rows[i] EXCEPT !.current = FALSE]]
    BY <1>1, <1>5 DEF SelectUnset
  <2>2. sel'[s].row = sel[s].row /\ sel'[s].alone = sel[s].alone /\ sel'[s].pc = "unset"
    BY <1>1, <2>1 DEF Choice
  <2>3. Ids' = Ids
    BY <2>1 DEF Types, RowsType, Ids
  <2>4. \A i \in Ids : i # sel[s].row => ~rows'[i].current
    BY <2>1, IdsType DEF Types, Row
  <2>5. Current' \subseteq {sel'[s].row}
    BY <2>2, <2>3, <2>4 DEF Current
  <2>6. ASSUME NEW r \in Selectors \ {s}, sel'[r].pc # "idle", sel'[r].alone PROVE FALSE
    BY <2>1, <2>6 DEF Alone
  <2>7. sel'[s].alone => \A q \in Selectors \ {s} : sel'[q].pc = "idle"
    BY <2>1, <2>2 DEF Alone
  <2> QED BY <2>2, <2>5, <2>6, <2>7 DEF Alone
<1>6. ASSUME NEW s \in Selectors, sel[s].pc # "idle", sel' = [sel EXCEPT ![s] = Idle] PROVE Alone'
  <2>1. sel'[s] = Idle /\ \A r \in Selectors \ {s} : sel'[r] = sel[r]
    BY <1>1, <1>6
  <2>2. ASSUME NEW r \in Selectors, sel'[r].pc # "idle", sel'[r].alone PROVE FALSE
    BY <1>6, <2>1, <2>2, FreshType DEF Alone
  <2> QED BY <2>2 DEF Alone
<1>7. ASSUME NEW s \in Selectors, SelectUnset(s) \/ SelectSet(s) PROVE Alone'
  BY <1>5, <1>6, <1>7 DEF SelectUnset, SelectSet
<1> QED
  BY <1>2, <1>3, <1>4, <1>7 DEF Next, Owner, Connect, Delete, ValidateRead, ValidateMark, Tick,
     Tool, Plan, Reresolve, Resolve, Ask, ReadBack, WriteBack, CallFails, Call, CallRefreshed,
     SaveRead, SaveWrite, PersistRead, PersistWrite, Breaks, Steps, profile, vars

(* Settled selections stay settled, and a selection made alone settles.    *)
LEMMA SettledStays ==
    ASSUME Types, Alone, Settled, [Next]_vars
    PROVE  Settled'
<1>1. sel \in [Selectors -> Choice] /\ RowsType /\ chosen \in Ids \cup {None} /\ None \notin Ids
  BY IdsType DEF Types, VarsType, HeldType
<1>2. CASE rows' = rows /\ profile' = profile
  <2>1. rows' = rows /\ sel' = sel /\ chosen' = chosen /\ tangled' = tangled
    BY <1>2 DEF profile
  <2> QED BY <2>1 DEF Settled, Current, Ids, Live
<1>3. CASE Next /\ profile' = profile
  <2>1. sel' = sel /\ chosen' = chosen /\ tangled' = tangled
    BY <1>3 DEF profile
  <2>2. Current' \subseteq Current /\ \A i \in Current : Live(i)' => i \in Current'
    BY <1>3, <2>1, CurrentStays
  <2>3. chosen # None /\ rows'[chosen].live => Live(chosen)
    <3>1. RowsStay
      BY <1>3, OwnerRows, ToolRows, SameRows DEF Next, Tick, Types
    <3> QED BY <1>1, <3>1 DEF RowsStay, Live
  <2>4. ASSUME ~tangled', \A s \in Selectors : sel'[s].pc # "unset"
        PROVE  /\ Current' \subseteq {chosen'}
               /\ chosen # None /\ rows'[chosen].live => chosen \in Current'
    BY <2>1, <2>2, <2>3, <2>4 DEF Settled, Live
  <2> QED BY <2>1, <2>4 DEF Settled, Live
<1>8. ASSUME rows' = rows, chosen' = chosen, tangled' = tangled,
             \A r \in Selectors : sel'[r].pc # "unset" => sel[r].pc # "unset"
      PROVE  Settled'
  BY <1>8 DEF Settled, Current, Ids, Live
<1>4. ASSUME NEW s \in Selectors, NEW i \in Ids, SelectFind(s, i) PROVE Settled'
  <2> DEFINE busy == {r \in Selectors : sel[r].pc # "idle"}
             y(r) == [sel[r] EXCEPT !.alone = sel[r].alone /\ r \notin busy]
  <2>1. /\ \A r \in Selectors \ {s} : sel'[r] = y(r)
        /\ sel[s].pc = "idle" /\ rows' = rows /\ chosen' = chosen /\ tangled' = tangled
    BY <1>4 DEF SelectFind
  <2>2. \A r \in Selectors : y(r).pc = sel[r].pc
    BY <1>1 DEF Choice
  <2> HIDE DEF y
  <2>3. \A r \in Selectors : sel'[r].pc # "unset" => sel[r].pc # "unset"
    BY <2>1, <2>2
  <2> QED BY <1>8, <2>1, <2>3
<1>5. ASSUME NEW s \in Selectors, SelectUnset(s) PROVE Settled'
  <2>1. CASE sel' = [sel EXCEPT ![s].pc = "unset"]
    <3>1. sel'[s].pc = "unset"
      BY <1>1, <2>1 DEF Choice
    <3> QED BY <3>1 DEF Settled
  <2>2. CASE rows' = rows /\ sel' = [sel EXCEPT ![s] = Idle]
    <3>1. sel[s].pc = "found" /\ chosen' = chosen /\ tangled' = tangled
      BY <1>5 DEF SelectUnset
    <3>2. \A r \in Selectors : sel'[r].pc # "unset" => sel[r].pc # "unset"
      BY <1>1, <2>2, <3>1
    <3> QED BY <1>8, <2>2, <3>1, <3>2
  <2> QED BY <1>5, <2>1, <2>2 DEF SelectUnset
<1>6. ASSUME NEW s \in Selectors, SelectSet(s), ~tangled' PROVE Settled'
  <2> DEFINE i == sel[s].row
             r == [rows[i] EXCEPT !.current = TRUE]
  <2>1. sel[s].pc = "unset" /\ i \in Ids
    BY <1>6 DEF SelectSet, Types, HeldType
  <2>2. Current \subseteq {i}
    <3>1. sel[s].alone
      BY <1>6, Zenon DEF SelectSet
    <3> QED BY <2>1, <3>1 DEF Alone
  <2>3. CASE rows' = [rows EXCEPT ![i] = r] /\ Live(i) /\ chosen' = i
    <3>2. r \in Row /\ r.current /\ r.live
      BY <1>1, <2>1, <2>3, IdsType DEF Row, Live
    <3> HIDE DEF i, r
    <3>3. Ids' = Ids /\ rows'[i] = r /\ \A j \in Ids \ {i} : rows'[j] = rows[j]
      BY <1>1, <2>1, <2>3, <3>2, OneRow
    <3>4. Current' = {i}
      BY <2>1, <2>2, <3>2, <3>3 DEF Current, Live
    <3> QED BY <2>3, <3>4 DEF Settled
  <2>4. CASE rows' = rows /\ chosen' = (IF rows[i].current THEN i ELSE None)
    <3>1. Current' = Current
      BY <2>4 DEF Current, Ids, Live
    <3>2. rows[i].current \in BOOLEAN
      BY <2>1, IdsType DEF Types, Row
    <3>3. CASE rows[i].current
      <4>1. chosen' = i
        BY <2>4, <3>3
      <4>2. Live(i) => i \in Current
        BY <2>1, <3>3 DEF Current
      <4>3. rows'[i].live => i \in Current'
        BY <2>4, <3>1, <4>2 DEF Live
      <4> HIDE DEF i
      <4> QED BY <2>2, <3>1, <4>1, <4>3 DEF Settled, Live
    <3>4. CASE ~rows[i].current
      <4>1. chosen' = None /\ Current = {}
        BY <2>2, <2>4, <3>4 DEF Current
      <4> QED BY <3>1, <4>1 DEF Settled
    <3> QED BY <3>2, <3>3, <3>4
  <2> QED BY <1>6, <2>3, <2>4 DEF SelectSet
<1>7. CASE tangled'
  BY <1>7 DEF Settled
<1> QED
  BY <1>2, <1>3, <1>4, <1>5, <1>6, <1>7 DEF Next, Owner, Connect, Delete, ValidateRead, ValidateMark,
     Tick, Tool, Plan, Reresolve, Resolve, Ask, ReadBack, WriteBack, CallFails, Call, CallRefreshed,
     SaveRead, SaveWrite, PersistRead, PersistWrite, Breaks, Steps, vars, profile

(* Once selections settle, the account selected last is the current one    *)
(* and, while it is usable, the one shown, for any number of selections.   *)
THEOREM ChoiceIsKept == Spec => []ChoiceHolds
<1>1. Init => Alone /\ Settled
  <2> SUFFICES ASSUME Init PROVE Alone /\ Settled
    OBVIOUS
  <2>1. Ids = {} /\ chosen = None /\ \A s \in Selectors : sel[s] = Idle
    BY DEF Init, Ids
  <2> QED BY <2>1, FreshType DEF Alone, Settled, Current
<1>2. Types /\ KeysInv /\ Alone /\ Settled /\ [Next]_vars => (Alone /\ Settled)'
  BY AloneStays, SettledStays
<1>3. Types /\ Settled => ChoiceHolds
  <2> SUFFICES ASSUME Types, Settled, ~tangled, \A s \in Selectors : sel[s].pc = "idle",
                      chosen # None, Usable(chosen)
               PROVE  Shown = chosen
    BY DEF Settled, ChoiceHolds
  <2> DEFINE usable == {i \in Ids : Usable(i)}
  <2>1. chosen \in Current /\ Current \subseteq {chosen} /\ chosen \in Ids
    BY DEF Settled, Usable, Current
  <2>2. Current \cap usable = {chosen}
    BY <2>1
  <2>3. Shown = Latest({chosen})
    BY <2>2 DEF Shown
  <2>4. Latest({chosen}) \in {chosen}
    BY <2>1, LatestIs DEF Types
  <2> QED BY <2>3, <2>4
<1> QED BY <1>1, <1>2, <1>3, Always, PTL DEF Spec

=============================================================================
