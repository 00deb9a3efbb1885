------------------------------- MODULE Accounts -------------------------------
(***************************************************************************)
(* The connected accounts of one user for one app: rows of Credential,     *)
(* written by the OAuth callback (callback.ts), by the profile, validate   *)
(* and delete endpoints (credentials.controller.ts, credential.service.ts) *)
(* and by the provider services that refresh tokens while a step runs      *)
(* (gmail-email.service.ts, google-calendar.service.ts).  None of them     *)
(* uses a transaction, so each await is a step of its own here.            *)
(*                                                                         *)
(* The app is Gmail or Google Calendar, chosen once.  Nothing writes       *)
(* Credential.teamId, so no row is a team's and the team branches of the   *)
(* service are never taken.                                                *)
(***************************************************************************)
EXTENDS Integers, Sequences, FiniteSets

CONSTANTS
    Selectors,   \* requests that select the current profile, at one time
    Validators,  \* requests that validate an account, at one time
    Effects,     \* tool calls that use an account
    Emails,      \* addresses the provider names in a grant
    Faults,      \* what may fail: the "database", or the provider's "answer"
    Life,        \* how long a token lives, in ticks
    Margin,      \* how long before its end a token counts as expired
    MaxRows, MaxWork, MaxTime  \* bounds of the instance

Unknown == "unknown"  \* a grant without an address
None == 0             \* no row

ASSUME BoundsAssumption ==
    /\ MaxRows \in Nat /\ MaxWork \in Nat /\ MaxTime \in Nat
    /\ Life \in Nat /\ Margin \in 0 .. Life
    /\ Unknown \in Emails
    /\ Faults \subseteq {"database", "answer"}

VARIABLES
    app,      \* the app the accounts are of
    now,      \* the clock
    rows,     \* the Credential rows, by id, which is the order of createdAt
    sel,      \* setUserCurrentProfile in progress
    asked,    \* how many selections were made
    chosen,   \* the account the user selected last
    tangled,  \* selections overlapped, and none made alone since
    mark,     \* the row a validateCredential is about to mark invalid
    eff,      \* the tool calls
    save      \* the listener that stores what the Gmail client refreshed

vars == <<app, now, rows, sel, asked, chosen, tangled, mark, eff, save>>
profile == <<sel, asked, chosen, tangled>>

Ids == 1 .. Len(rows)
Live(i) == rows[i].live
Usable(i) == Live(i) /\ ~rows[i].invalid
Latest(S) == IF S = {} THEN None ELSE CHOOSE i \in S : \A j \in S : j <= i
Current == {i \in Ids : Live(i) /\ rows[i].current}

(* The account shown with a step: the current profile first, then the      *)
(* newest.                                                                 *)
Shown ==
    LET usable == {i \in Ids : Usable(i)}
    IN  Latest(IF Current \cap usable # {} THEN Current \cap usable ELSE usable)

(* Mutant: the order is ascending. *)
NewestAscending ==
    LET usable == {i \in Ids : Usable(i)}
    IN  IF usable = {} THEN None ELSE CHOOSE i \in usable : \A j \in usable : i <= j

(* The account a tool call uses: the newest. *)
Newest == Latest({i \in Ids : Usable(i)})

(* The accounts resolveCredential could return, which nothing calls; which *)
(* of several it prefers is left open.                                     *)
PolicyPicks ==
    LET usable == {i \in Ids : Usable(i)}
    IN  IF Current \cap usable # {} THEN Current \cap usable ELSE usable

(* An access token the provider issues now: whose it is and how long it    *)
(* lives.                                                                  *)
NewToken(i) == [row |-> i, exp |-> now + Life]
NoToken == [row |-> None, exp |-> 0]

Expiring(t) == now >= t - Margin

Gone == [email |-> Unknown, live |-> FALSE, invalid |-> FALSE, current |-> FALSE,
         access |-> NoToken, exp |-> 0, refresh |-> FALSE]
Idle == [pc |-> "idle", row |-> None, alone |-> TRUE]
Fresh == [pc |-> "new", leg |-> "client", acct |-> None, tok |-> NoToken, exp |-> 0,
          kept |-> FALSE, made |-> FALSE, cause |-> "none"]
Quiet == [pc |-> "no", row |-> None, tok |-> NoToken, kept |-> FALSE]

(* Selections and tool calls begun so far, bounded by MaxWork. *)
Begun == asked + Cardinality({e \in Effects : eff[e].pc # "new"})

Init ==
    /\ app \in {"gmail-email", "google-calendar"}
    /\ now = 0 /\ rows = <<>>
    /\ sel = [s \in Selectors |-> Idle] /\ asked = 0
    /\ chosen = None /\ tangled = FALSE
    /\ mark = [v \in Validators |-> None]
    /\ eff = [e \in Effects |-> Fresh]
    /\ save = [e \in Effects |-> Quiet]

-----------------------------------------------------------------------------
(* The account's owner: connect, select, validate, delete. *)

(* Mutant: the lifetime is scaled twice. *)
ConnectScaled(m) ==
    /\ Len(rows) < MaxRows
    /\ m = Unknown \/ \A i \in Ids : Live(i) => rows[i].email # m
    /\ rows' = Append(rows, [email |-> m, live |-> TRUE, invalid |-> FALSE,
                             current |-> FALSE, access |-> NewToken(Len(rows) + 1),
                             exp |-> now + 1000 * Life, refresh |-> TRUE])
    /\ UNCHANGED <<app, now, profile, mark, eff, save>>

(* The callback exchanges the code and creates a row.  A second row with   *)
(* the same address breaks @@unique([userId, appId, emailOrUserName]),     *)
(* whatever became of the first; a missing address breaks nothing.         *)
Connect(m) ==
    /\ Len(rows) < MaxRows
    /\ m = Unknown \/ \A i \in Ids : Live(i) => rows[i].email # m
    /\ rows' = Append(rows, [email |-> m, live |-> TRUE, invalid |-> FALSE,
                             current |-> FALSE, access |-> NewToken(Len(rows) + 1),
                             exp |-> now + Life, refresh |-> TRUE])
    /\ UNCHANGED <<app, now, profile, mark, eff, save>>

Delete(i) ==
    /\ Live(i)
    /\ rows' = [rows EXCEPT ![i] = Gone]
    /\ UNCHANGED <<app, now, profile, mark, eff, save>>

(* findFirst: another selection under way makes both of them overlapped. *)
SelectFind(s, i) ==
    LET busy == {r \in Selectors : sel[r].pc # "idle"}
    IN  /\ sel[s].pc = "idle" /\ Begun < MaxWork /\ Live(i)
        /\ sel' = [r \in Selectors |->
                     IF r = s THEN [pc |-> "found", row |-> i, alone |-> busy = {}]
                     ELSE [sel[r] EXCEPT !.alone = @ /\ r \notin busy]]
        /\ asked' = asked + 1
        /\ UNCHANGED <<app, now, rows, chosen, tangled, mark, eff, save>>

(* An update may fail: it has changed nothing, and its request is over. *)
Failing == "database" \in Faults

(* Mutant: only usable accounts are unset. *)
SelectUnsetUsable(s) ==
    /\ sel[s].pc = "found"
    /\ rows' = [i \in Ids |-> IF i = sel[s].row \/ rows[i].invalid THEN rows[i]
                              ELSE [rows[i] EXCEPT !.current = FALSE]]
    /\ sel' = [sel EXCEPT ![s].pc = "unset"]
    /\ UNCHANGED <<app, now, asked, chosen, tangled, mark, eff, save>>

SelectUnset(s) ==
    /\ sel[s].pc = "found"
    /\ \/ /\ rows' = [i \in Ids |-> IF i = sel[s].row THEN rows[i]
                                    ELSE [rows[i] EXCEPT !.current = FALSE]]
          /\ sel' = [sel EXCEPT ![s].pc = "unset"]
       \/ Failing /\ rows' = rows /\ sel' = [sel EXCEPT ![s] = Idle]
    /\ UNCHANGED <<app, now, asked, chosen, tangled, mark, eff, save>>

(* The update of a row that is gone throws, too; the others stay unset,    *)
(* and nothing is selected but the row itself, where it was already.       *)
SelectSet(s) ==
    /\ sel[s].pc = "unset"
    /\ LET i == sel[s].row
       IN  \/ Live(i) /\ rows' = [rows EXCEPT ![i].current = TRUE] /\ chosen' = i
           \/ /\ ~Live(i) \/ Failing
              /\ rows' = rows
              /\ chosen' = IF rows[i].current THEN i ELSE None
    /\ tangled' = ~sel[s].alone
    /\ sel' = [sel EXCEPT ![s] = Idle]
    /\ UNCHANGED <<app, now, asked, mark, eff, save>>

(* validateCredential reads a row whose token is past its end, ... *)
ValidateRead(v, i) ==
    /\ mark[v] = None /\ Usable(i) /\ rows[i].exp < now
    /\ mark' = [mark EXCEPT ![v] = i]
    /\ UNCHANGED <<app, now, rows, profile, eff, save>>

(* ... and marks it, whatever was stored in between; an update of a row    *)
(* that is gone throws.                                                    *)
ValidateMark(v) ==
    /\ mark[v] # None
    /\ \/ rows' = [rows EXCEPT ![mark[v]].invalid = @ \/ Live(mark[v])]
       \/ Failing /\ rows' = rows
    /\ mark' = [mark EXCEPT ![v] = None]
    /\ UNCHANGED <<app, now, profile, eff, save>>

-----------------------------------------------------------------------------
(* A tool call: planned, resolved, made.                                   *)

Into(e, pc) == eff' = [eff EXCEPT ![e].pc = pc]
Over(e, pc, made, cause) ==
    eff' = [eff EXCEPT ![e] = [Fresh EXCEPT !.pc = pc, !.acct = eff[e].acct,
                                           !.made = made, !.cause = cause]]
Ends(e, pc, made) == Over(e, pc, made, "none")
Fails(e) == Ends(e, "failed", eff[e].made)
FailsBy(e, made, cause) == Over(e, "failed", made, cause)
Steps == <<app, now, profile, mark>>

(* Whatever a call reads or writes, the database may throw. *)
Breaks(e) ==
    /\ Failing
    /\ eff[e].pc \in {"planned", "again", "readback", "writeback", "persist", "store"}
    /\ FailsBy(e, eff[e].made, "database")
    /\ UNCHANGED <<Steps, rows, save>>

(* Planning writes the step with the account shown to the user. *)
Plan(e, leg) ==
    /\ eff[e].pc = "new" /\ Begun < MaxWork
    /\ leg = "send" => app = "gmail-email"
    /\ eff' = [eff EXCEPT ![e] = [@ EXCEPT !.pc = "planned", !.leg = leg, !.acct = Shown]]
    /\ UNCHANGED <<Steps, rows, save>>

(* refreshRunCredentials: a step without an account looks again. *)
Reresolve(e) ==
    /\ eff[e].pc = "planned" /\ eff[e].acct = None /\ Shown # None
    /\ eff' = [eff EXCEPT ![e].acct = Shown]
    /\ UNCHANGED <<Steps, rows, save>>

(* A send resolves an account for the From header, then makes a client,    *)
(* which resolves again.                                                   *)
AfterToken(leg) == IF leg = "send" THEN "again" ELSE "call"

Resolve(e) ==
    LET leg == IF eff[e].pc = "again" THEN "client" ELSE eff[e].leg
        i == Newest
    IN  /\ eff[e].pc \in {"planned", "again"}
        /\ IF i = None THEN Fails(e)
           ELSE eff' = [eff EXCEPT ![e] = [@ EXCEPT
                  !.leg = leg, !.acct = i, !.tok = rows[i].access, !.exp = rows[i].exp,
                  !.pc = IF app = "gmail-email" /\ Expiring(rows[i].exp) THEN "ask"
                         ELSE AfterToken(leg)]]
        /\ UNCHANGED <<Steps, rows, save>>

(* refreshAccessToken: the token endpoint refuses or answers, ... *)
Ask(e) ==
    /\ eff[e].pc = "ask"
    /\ \/ Fails(e)
       \/ eff' = [eff EXCEPT ![e] = [@ EXCEPT !.pc = "readback",
                                               !.tok = NewToken(eff[e].acct)]]
    /\ UNCHANGED <<Steps, rows, save>>

(* ... the row is read again for the rest of its key, ... *)
ReadBack(e) ==
    /\ eff[e].pc = "readback"
    /\ eff' = [eff EXCEPT ![e] = [@ EXCEPT !.pc = "writeback",
                                           !.kept = rows[eff[e].acct].refresh]]
    /\ UNCHANGED <<Steps, rows, save>>

Stored(i, tok, exp, kept) ==
    [rows EXCEPT ![i] = [@ EXCEPT !.access = tok, !.exp = exp, !.refresh = kept]]

(* ... and written whole.  The client is still given the old expiry.       *)
WriteBack(e) ==
    LET c == eff[e]
    IN  /\ c.pc = "writeback"
        /\ IF Live(c.acct)
           THEN /\ rows' = Stored(c.acct, c.tok, c.tok.exp, c.kept)
                /\ Into(e, AfterToken(c.leg))
           ELSE rows' = rows /\ Fails(e)
        /\ UNCHANGED <<Steps, save>>

(* The provider refuses, makes the effect and answers, or makes it and the *)
(* answer gets lost.  The Google client first gets itself a token when its *)
(* own seems to expire; if it gets none, nothing is made.                  *)
Makes(e, tok, exp) ==
    IF app = "gmail-email" THEN Ends(e, "done", TRUE)
    ELSE eff' = [eff EXCEPT ![e] = [@ EXCEPT !.tok = tok, !.exp = exp, !.made = TRUE,
                                             !.pc = "persist"]]
Answered(e, tok, exp) ==
    \/ Fails(e)
    \/ Makes(e, tok, exp)
    \/ "answer" \in Faults /\ FailsBy(e, TRUE, "answer")

Call(e) ==
    LET c == eff[e]
    IN  /\ c.pc = "call" /\ ~Expiring(c.exp)
        /\ Answered(e, c.tok, c.exp)
        /\ UNCHANGED <<Steps, rows, save>>

CallFails(e) ==
    /\ eff[e].pc = "call" /\ Expiring(eff[e].exp)
    /\ Fails(e)
    /\ UNCHANGED <<Steps, rows, save>>

(* The Gmail service stores the token in a listener nobody waits for, the  *)
(* calendar service after the call.                                        *)
CallRefreshed(e) ==
    LET c == eff[e]
    IN  /\ c.pc = "call" /\ Expiring(c.exp)
        /\ Answered(e, NewToken(c.acct), now + Life)
        /\ save' = IF app = "gmail-email"
                   THEN [save EXCEPT ![e] = [pc |-> "read", row |-> c.acct,
                                             tok |-> NewToken(c.acct), kept |-> FALSE]]
                   ELSE save
        /\ UNCHANGED <<Steps, rows>>

(* The listener of the Gmail client; its errors are swallowed. *)
SaveRead(e) ==
    /\ save[e].pc = "read"
    /\ \/ save' = [save EXCEPT ![e] = [@ EXCEPT !.pc = "write", !.kept = rows[save[e].row].refresh]]
       \/ Failing /\ save' = [save EXCEPT ![e] = Quiet]
    /\ UNCHANGED <<Steps, rows, eff>>

(* Mutant: the call waits for the listener and its error counts. *)
SaveWriteThrows(e) ==
    LET s == save[e]
    IN  /\ s.pc = "write"
        /\ IF Live(s.row)
           THEN rows' = Stored(s.row, s.tok, s.tok.exp, s.kept) /\ UNCHANGED eff
           ELSE rows' = rows /\ Ends(e, "failed", TRUE)
        /\ save' = [save EXCEPT ![e] = Quiet]
        /\ UNCHANGED Steps

SaveWrite(e) ==
    LET s == save[e]
    IN  /\ s.pc = "write"
        /\ \/ Live(s.row) /\ rows' = Stored(s.row, s.tok, s.tok.exp, s.kept)
           \/ (~Live(s.row) \/ Failing) /\ rows' = rows
        /\ save' = [save EXCEPT ![e] = Quiet]
        /\ UNCHANGED <<Steps, eff>>

(* persistTokensIfChanged: whatever the client holds that the row does not *)
(* is stored, refreshed or merely older.                                   *)
PersistRead(e) ==
    LET c == eff[e]
        r == rows[c.acct]
    IN  /\ c.pc = "persist"
        /\ IF r.live /\ (r.access # c.tok \/ r.exp # c.exp)
           THEN eff' = [eff EXCEPT ![e] = [@ EXCEPT !.pc = "store", !.kept = r.refresh]]
           ELSE Ends(e, "done", TRUE)
        /\ UNCHANGED <<Steps, rows, save>>

(* Mutant: the expiry is the stored one. *)
PersistWriteTokenOnly(e) ==
    LET c == eff[e]
    IN  /\ c.pc = "store"
        /\ IF Live(c.acct)
           THEN rows' = Stored(c.acct, c.tok, rows[c.acct].exp, c.kept) /\ Ends(e, "done", TRUE)
           ELSE rows' = rows /\ Fails(e)
        /\ UNCHANGED <<Steps, save>>

(* Its update throws when the row is gone, and the call is reported as     *)
(* failed although the provider made it.                                   *)
PersistWrite(e) ==
    LET c == eff[e]
    IN  /\ c.pc = "store"
        /\ IF Live(c.acct)
           THEN rows' = Stored(c.acct, c.tok, c.exp, c.kept) /\ Ends(e, "done", TRUE)
           ELSE rows' = rows /\ Fails(e)
        /\ UNCHANGED <<Steps, save>>

Tick ==
    /\ now < MaxTime
    /\ now' = now + 1
    /\ UNCHANGED <<app, rows, profile, mark, eff, save>>

-----------------------------------------------------------------------------
Owner ==
    \/ \E m \in Emails : Connect(m)
    \/ \E i \in Ids : Delete(i)
    \/ \E s \in Selectors : (\E i \in Ids : SelectFind(s, i)) \/ SelectUnset(s) \/ SelectSet(s)
    \/ \E v \in Validators : (\E i \in Ids : ValidateRead(v, i)) \/ ValidateMark(v)

Tool(e) ==
    \/ \E leg \in {"send", "client"} : Plan(e, leg)
    \/ Reresolve(e) \/ Resolve(e) \/ Breaks(e)
    \/ Ask(e) \/ ReadBack(e) \/ WriteBack(e)
    \/ CallFails(e) \/ Call(e) \/ CallRefreshed(e)
    \/ SaveRead(e) \/ SaveWrite(e)
    \/ PersistRead(e) \/ PersistWrite(e)

Next == Owner \/ Tick \/ \E e \in Effects : Tool(e)

Spec == Init /\ [][Next]_vars

-----------------------------------------------------------------------------
Row == [email : Emails, live : BOOLEAN, invalid : BOOLEAN, current : BOOLEAN,
        access : [row : 0 .. MaxRows, exp : 0 .. (MaxTime + Life)],
        exp : 0 .. (MaxTime + Life), refresh : BOOLEAN]

(* The variables keep their types; every row a request or a tool call      *)
(* holds on to is a row there was.                                         *)
TypeOK ==
    /\ Len(rows) <= MaxRows /\ \A i \in Ids : rows[i] \in Row
    /\ \A s \in Selectors : sel[s].pc # "idle" => sel[s].row \in Ids
    /\ \A v \in Validators : mark[v] \in Ids \cup {None}
    /\ \A e \in Effects : eff[e].acct \in Ids \cup {None} /\ save[e].row \in Ids \cup {None}
    /\ chosen \in Ids \cup {None}

(* Once selections settle, the account the user selected last is the only  *)
(* current one and is the one shown with new steps, whatever else was      *)
(* connected, deleted or validated meanwhile, and even after overlapping   *)
(* selections left two, provided one was made alone since                  *)
(* (credential.service.ts setUserCurrentProfile).                          *)
ChoiceHolds ==
    (~tangled /\ \A s \in Selectors : sel[s].pc = "idle") =>
      /\ Current \subseteq {chosen}
      /\ (chosen # None /\ Live(chosen)) => chosen \in Current
      /\ (chosen # None /\ Usable(chosen)) => Shown = chosen

(* From the plan to the header to the mailbox, a tool call moves to        *)
(* another account only when that one is newer or the earlier one is gone  *)
(* (the findFirst of both services).                                       *)
EffectAccount ==
    [][\A e \in Effects :
         LET before == eff[e].acct
             after == eff'[e].acct
         IN  before # None /\ after # before => after > before \/ ~Usable(before)]_vars

(* However refreshes of several tool calls overlap, a stored key is whole: *)
(* its access token was issued for that account, the stored expiry is that *)
(* token's, and the refresh token is kept (refreshAccessToken, the tokens  *)
(* listener, persistTokensIfChanged).                                      *)
KeysWhole ==
    \A i \in Ids : Live(i) => LET r == rows[i]
                   IN  r.refresh /\ r.access = [row |-> i, exp |-> r.exp]

(* A tool call that made its effect is reported as failed, and so will be  *)
(* retried, only when the provider's answer got lost, or when the calendar *)
(* service, which stores the client's tokens inside the try of createEvent *)
(* (persistTokensIfChanged), found the account deleted or the database     *)
(* failing; never for what becomes of the Gmail client's listener.         *)
MadeThenFailed ==
    \A e \in Effects :
      eff[e].made /\ eff[e].pc = "failed" =>
        \/ eff[e].cause = "answer"
        \/ app = "google-calendar" /\ (~Live(eff[e].acct) \/ eff[e].cause = "database")

(* A tool call uses the account the resolution policy names, the current   *)
(* profile before any other (SEND_FLOW_IMPLEMENTATION.md:92-98).  The      *)
(* services never look at the profile: refuted.                            *)
PolicyDecides ==
    [][\A e \in Effects :
         eff[e].pc \in {"planned", "again"} /\ eff'[e].pc \in {"ask", "call", "again"}
           => eff'[e].acct \in PolicyPicks]_vars
=============================================================================
