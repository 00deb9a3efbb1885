------------------------------ MODULE EventFeed ------------------------------
(***************************************************************************)
(* The server's half of a run's event stream.  While a job executes, the   *)
(* handler of graph events (queue/create-graph-event-handler.ts) and the   *)
(* processor (queue/run.processor.ts) write chat items (runs/chat.service  *)
(* .ts), and each item is announced once it is written.  Most writes are   *)
(* not awaited, so they race with each other and with the run's row.       *)
(*                                                                         *)
(* A run has several jobs, one after the other: one that failed is         *)
(* retried, one that waited is approved, one that is over is continued.    *)
(* What the chat holds then is what the earlier jobs left.                 *)
(***************************************************************************)
EXTENDS Integers, Sequences, FiniteSets

CONSTANTS
    Endings,    \* how a job may end
    MaxJobs,    \* how often the run is executed,
    MaxChatless,    \* how often if its chat has to be made, and
    MaxLate     \* how many writes may outlast their job: bounds of the instance

Outcomes == {"preview", "approval", "done", "halt", "fallback", "failed"}

ASSUME FeedAssumption ==
    /\ Endings \subseteq Outcomes
    /\ MaxJobs \in Nat \ {0} /\ MaxChatless \in Nat /\ MaxLate \in Nat

VARIABLES
    jobs,       \* its jobs so far: how each ends, and whether it resumes the run
    chatless,   \* had the creation of the run's chat failed?
    chat,       \* does the run have a chat?
    row,        \* its status
    script,     \* what the worker still has to do
    writers,    \* the writes in progress
    items,      \* the chat items written, each with the job it is of
    last,       \* the status the newest status item carries
    announced   \* the items browsers were told of

vars == <<jobs, chatless, chat, row, script, writers, items, last, announced>>

(* Messages become status items; run_status messages are checked for       *)
(* repetition.  "ask" is the executor's own run_status for a step that     *)
(* needs an approval, sent from inside the graph.                          *)
RunStatusMsgs == {"ask", "awaiting_approval", "fallback", "failed"}
StatusMsgs == RunStatusMsgs \cup {"plan_generated", "step_succeeded",
                                  "step_failed", "done"}
Items == StatusMsgs \cup {"plan", "questions", "log", "output", "error"}
StatusOf(item) ==
    IF item = "ask" THEN "awaiting_approval"
    ELSE IF item \in RunStatusMsgs \cup {"done"} THEN item ELSE "none"

(* A write: its job, the items it still has to create, and where it is.    *)
Writer(n, kind, todo, awaited) ==
    [job |-> n, kind |-> kind, todo |-> todo, at |-> "find", awaited |-> awaited]
Status(n, msg) == Writer(n, "status", <<msg>>, FALSE)
Awaited(n, msg) == Writer(n, "status", <<msg>>, TRUE)
Result(n, todo) == Writer(n, "result", todo, TRUE)
Row(status) == [kind |-> "row", status |-> status]
Todo(w) == {<<w.job, w.todo[k]>> : k \in DOMAIN w.todo}
Item(w) == <<w.job, w.todo[1]>>

(* createChatItemsForRun: the plan, and the questions or the panel to go    *)
(* on; both are left out for a plan that only chats, which is not said.    *)
PlanItems == <<"plan", "questions">>

(* A generated plan is published once its steps are enriched, and stored,  *)
(* both without anyone waiting; how long that takes is up to FindChat.     *)
Planned(n) == <<Status(n, "plan_generated"), Writer(n, "plan", PlanItems, FALSE)>>

(* What handler and processor do after that, for each way job n ends.      *)
Say(n) == [
    preview |->
        <<Result(n, <<"output">>), Row("done"), Awaited(n, "done")>>,
    approval |->
        <<Result(n, <<"output">>), Row("awaiting_approval"),
          Awaited(n, "awaiting_approval")>>,
    done |->
        <<Status(n, "step_succeeded"), Result(n, <<"log", "output">>), Row("done"),
          Awaited(n, "done")>>,
    halt |->
        <<Status(n, "ask"), Result(n, <<"output">>), Row("awaiting_approval"),
          Awaited(n, "awaiting_approval")>>,
    fallback |->
        <<Status(n, "step_failed"), Status(n, "fallback"),
          Result(n, <<"log", "output">>), Row("done"), Awaited(n, "done")>>,
    failed |->
        <<Result(n, <<"error">>), Row("failed"), Awaited(n, "failed")>>]

(* Mutant: the last message before the row. *)
ScriptBeforeRow(n, k) ==
    LET s == (IF k.resumes THEN <<>> ELSE Planned(n)) \o Say(n)[k.ending]
        m == Len(s)
    IN  SubSeq(s, 1, m - 2) \o <<s[m], s[m - 1]>>

(* A job that resumes the run from the executor plans nothing. *)
Script(n, k) == (IF k.resumes THEN <<>> ELSE Planned(n)) \o Say(n)[k.ending]

(* A job that plans in mode preview or approval executes nothing; one that *)
(* resumes executes whatever the mode.  A run continued before its first   *)
(* job was picked up is left out: the first job plans.                     *)
Job == [ending : Endings, resumes : BOOLEAN]
Fits(k, mode) ==
    k.ending \in IF k.resumes \/ mode = "auto" THEN {"done", "halt", "fallback", "failed"}
                 ELSE {mode, "failed"}
Possible(js) ==
    /\ ~js[1].resumes
    /\ \E mode \in {"preview", "approval", "auto"} : \A n \in DOMAIN js : Fits(js[n], mode)

Init ==
    /\ jobs \in {<<k>> : k \in Job} /\ Possible(jobs)
    /\ chatless \in BOOLEAN
    /\ chat = ~chatless
    /\ row = "running"
    /\ script = Script(1, jobs[1])
    /\ writers = {} /\ items = {} /\ last = "none" /\ announced = {}

JobOver == script = <<>> /\ \A w \in writers : ~w.awaited

(* process: the row is marked, and nothing said of it.                     *)
NextJob(k) ==
    /\ JobOver
    /\ Len(jobs) < MaxJobs /\ (chatless => Len(jobs) < MaxChatless)
    /\ Cardinality(writers) <= MaxLate
    /\ jobs' = Append(jobs, k) /\ Possible(jobs')
    /\ row' = "running"
    /\ script' = Script(Len(jobs'), k)
    /\ UNCHANGED <<chatless, chat, writers, items, last, announced>>

(* Mutant: the status is not updated. *)
AdvanceWithoutRow ==
    /\ script # <<>>
    /\ \A w \in writers : ~w.awaited
    /\ script' = Tail(script)
    /\ writers' = IF Head(script).kind = "row" THEN writers
                  ELSE writers \cup {Head(script)}
    /\ UNCHANGED <<jobs, chatless, chat, row, items, last, announced>>

(* The worker goes on when nothing it awaits is in progress. *)
Advance ==
    /\ script # <<>>
    /\ \A w \in writers : ~w.awaited
    /\ script' = Tail(script)
    /\ LET step == Head(script)
       IN  IF step.kind = "row"
           THEN row' = step.status /\ UNCHANGED writers
           ELSE writers' = writers \cup {step} /\ UNCHANGED row
    /\ UNCHANGED <<jobs, chatless, chat, items, last, announced>>

Goes(w, at) == writers' = (writers \ {w}) \cup {[w EXCEPT !.at = at]}
Ends(w) == writers' = writers \ {w}

(* findOrCreateChat, in two steps; a result is not written without a chat. *)
Found(w) == IF w.kind = "status" /\ w.todo[1] \in RunStatusMsgs
            THEN "check" ELSE "write"
FindChat(w) ==
    /\ w.at = "find"
    /\ IF chat THEN Goes(w, Found(w))
       ELSE IF w.kind = "result" THEN Ends(w)
       ELSE Goes(w, "make")
    /\ UNCHANGED <<jobs, chatless, chat, row, script, items, last, announced>>

(* A run has one chat: the second to create it throws, and its write is    *)
(* given up.                                                               *)
MakeChat(w) ==
    /\ w.at = "make"
    /\ IF chat THEN Ends(w) ELSE Goes(w, Found(w))
    /\ chat' = TRUE
    /\ UNCHANGED <<jobs, chatless, row, script, items, last, announced>>

(* Mutant: any status but the first is taken for a repetition. *)
CheckAny(w) ==
    /\ w.at = "check"
    /\ IF \E i \in items : StatusOf(i[2]) # "none" THEN Ends(w) ELSE Goes(w, "write")
    /\ UNCHANGED <<jobs, chatless, chat, row, script, items, last, announced>>

CheckLast(w) ==
    /\ w.at = "check"
    /\ IF last = StatusOf(w.todo[1]) THEN Ends(w) ELSE Goes(w, "write")
    /\ UNCHANGED <<jobs, chatless, chat, row, script, items, last, announced>>

(* Mutant: an item is announced before it is written. *)
WriteUnannounced(w) ==
    /\ w.at = "write"
    /\ announced' = announced \cup {Item(w)}
    /\ Goes(w, "announce")
    /\ UNCHANGED <<jobs, chatless, chat, row, script, items, last>>

Write(w) ==
    /\ w.at = "write"
    /\ items' = items \cup {Item(w)}
    /\ last' = IF w.kind = "status" THEN StatusOf(w.todo[1]) ELSE last
    /\ Goes(w, "announce")
    /\ UNCHANGED <<jobs, chatless, chat, row, script, announced>>

(* notifyChatUpdated is awaited; the next item of the write follows.       *)
Announce(w) ==
    /\ w.at = "announce"
    /\ announced' = announced \cup {Item(w)}
    /\ writers' = (writers \ {w}) \cup
           (IF Len(w.todo) = 1 THEN {}
            ELSE {[w EXCEPT !.todo = Tail(@), !.at = "write"]})
    /\ UNCHANGED <<jobs, chatless, chat, row, script, items, last>>

WriterStep(w) == \/ FindChat(w) \/ MakeChat(w) \/ CheckLast(w)
                 \/ Write(w) \/ Announce(w)
Works == Advance \/ \E w \in writers : WriterStep(w)
Next == Works \/ \E k \in Job : NextJob(k)

(* Promises are settled one after the other until none is left; nobody     *)
(* need start another job.                                                 *)
Spec == Init /\ [][Next]_vars /\ WF_vars(Works)
FeedEnded == script = <<>> /\ writers = {}
-----------------------------------------------------------------------------
(* The feed keeps its types. *)
TypeOK ==
    /\ Len(jobs) \in 1 .. MaxJobs
    /\ items \subseteq (1 .. Len(jobs)) \X Items /\ announced \subseteq items
    /\ row \in {"running", "done", "failed", "awaiting_approval"}
    /\ \A w \in writers : w.todo # <<>> /\ w.at \in
           {"find", "make", "check", "write", "announce"}

(* When the jobs so far and all their writes are over, every message       *)
(* became a chat item, or repeated the status of one; only when the run    *)
(* had no chat at the start may two writes have raced to create it and one *)
(* be lost (chat.service.ts findOrCreateChat, createStatusChatItem).       *)
Messages(n) ==
    LET s == Script(n, jobs[n])
    IN  UNION {Todo(s[j]) : j \in {k \in DOMAIN s : s[k].kind # "row"}}
MessagesBecomeItems ==
    FeedEnded /\ ~chatless =>
        \A n \in DOMAIN jobs : \A m \in Messages(n) \ items :
            m[2] \in RunStatusMsgs
            /\ \E i \in items : StatusOf(i[2]) = StatusOf(m[2])

(* Each job and its writes come to an end, and then the browser was told   *)
(* the status the row has: by an item of this job, or, when the job waits  *)
(* or fails just as the one before it did, perhaps only by an item of that *)
(* one, because what closes this job counts as a repetition                *)
(* (createStatusChatItem compares with the run's newest status item,       *)
(* whichever job it is of).  A first job whose chat was raced for may be   *)
(* told of by nothing.                                                     *)
LeftBy(n) == LET s == Script(n, jobs[n]) IN s[Len(s) - 1].status
LikeTheOneBefore ==
    Len(jobs) > 1 /\ row = LeftBy(Len(jobs) - 1) /\ row # "done"
ClosesTheJob ==
    []<>(FeedEnded /\ \/ \E i \in announced : /\ StatusOf(i[2]) = row
                                              /\ i[1] = Len(jobs) \/ LikeTheOneBefore
                      \/ chatless /\ Len(jobs) = 1)

(* However the writes race, browsers see what Announcements promises       *)
(* (run.processor.ts, updateStatus before persistStatusChatItem;           *)
(* chat.service.ts, create before notifyChatUpdated).                      *)
Finals == {"done", "failed", "awaiting_approval"}
Promise == INSTANCE Announcements WITH
    Items <- (1 .. MaxJobs) \X Items,
    Closing <- [i \in (1 .. MaxJobs) \X Finals |-> i[2]]
AnnouncesAsPromised == Promise!FeedSpec
=============================================================================
