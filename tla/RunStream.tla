----------------------------- MODULE RunStream -----------------------------
(***************************************************************************)
(* A browser tab follows a run: the bus hands an announcement to the       *)
(* sockets connected at that moment (packages/libs/pubsub, websocket.      *)
(* service.ts), the tab's RunSocket (apis/runs/websocket.ts) reconnects,   *)
(* the data source (apis/runs/client.ts) keeps one stream per run and      *)
(* falls back on polling, and the page (hooks/useWebSocketEvents.ts,       *)
(* pages/Chat.tsx) fetches each announced item and adds it to the chat.    *)
(***************************************************************************)
EXTENDS Integers

CONSTANTS
    Items,          \* the items the server writes, Closing the ones that
    Closing,        \* close a job, each with its status
    Finals,         \* the statuses a job leaves
    MaxStreams,     \* how often the user opens the run
    MaxHydrations,  \* how often the page asks for the whole run
    MaxTries,       \* maxReconnectAttempts
    MaxFaults       \* how many times the network fails

ASSUME StreamAssumption ==
    /\ DOMAIN Closing \subseteq Items
    /\ MaxStreams \in Nat /\ MaxHydrations \in Nat
    /\ MaxTries \in Nat /\ MaxFaults \in Nat

VARIABLES
    row, items, announced,      \* the server's side, as Announcements has it
    here,       \* is this run the active one of the page?
    current,    \* currentRunId: the run the data source last connected to
    streams,    \* streams opened so far; the page holds the last one
    socket,     \* [stream -> state of its RunSocket]
    tries,      \* [stream -> reconnectAttempts]
    registered, \* the stream in activeSockets, 0 if none
    poller,     \* is the run in activePollers?
    poll,       \* a poll in flight: no, asked, or the status it read
    stopped,    \* did a poll find the run over since it was opened?
    wire,       \* announcements sent to a socket
    fetching,   \* items asked for with getChatItem
    runItems,   \* the items that make a message of type 'run'
    filled,     \* has the run messages at all?
    shown,      \* how often each item is in them
    tip,        \* the item of their last 'run' message, if there is one
    arrived,    \* items fetched so far
    hydrate,    \* [request for the whole run -> its state and what it read]
    missed,     \* items announced to nobody, or lost on their way
    faults

feed == <<row, items, announced>>
page == <<here, current, streams>>
sockets == <<socket, tries, registered>>
polling == <<poller, poll, stopped>>
messages == <<runItems, filled, shown, tip, arrived>>
client == <<page, sockets, polling, wire, fetching, messages, hydrate, missed, faults>>
vars == <<feed, client>>
Server == INSTANCE Announcements

(* A socket is unused, connecting, open, waiting for its reconnect timer,  *)
(* failing (closed while connecting: an error event is still to come),     *)
(* shut, or ended: closed by the other side, and cleanly.                  *)
SocketStates == {"unused", "connecting", "open", "waiting", "failing", "shut", "ended"}
Live(g) == socket[g] \in {"connecting", "open", "waiting"}
Terminal == {"done", "failed"}

(* A status makes a message of type 'run', one that waits for an approval  *)
(* and says for which steps one of type 'plan'; what closes a job says     *)
(* none.  A run started in this tab has its prompt as a first message; one *)
(* that is opened from the list has no message yet.                        *)
Init ==
    /\ Server!FeedInit
    /\ here = FALSE /\ current = FALSE /\ streams = 0
    /\ socket = [g \in 1 .. MaxStreams |-> "unused"]
    /\ tries = [g \in 1 .. MaxStreams |-> 0]
    /\ registered = 0 /\ poller = FALSE /\ poll = "no" /\ stopped = FALSE
    /\ wire = {} /\ fetching = {} /\ missed = {} /\ faults = 0
    /\ runItems \in {DOMAIN Closing \cup S : S \in SUBSET Items} /\ filled \in BOOLEAN
    /\ shown = [i \in Items |-> 0] /\ tip = {} /\ arrived = {}
    /\ hydrate = [k \in 1 .. MaxHydrations |-> <<"unasked", {}>>]

----------------------------------------------------------------------------
(* Mutant: close() forgets the socket. *)
ClosedNever(s) == s
(* Mutant: the reconnect timer survives. *)
ClosedButTimer(s) == IF s = "connecting" THEN "failing"
                     ELSE IF s \in {"failing", "waiting"} THEN s ELSE "shut"

(* RunSocket.close and its onClose: timers are cleared, the handlers stay. *)
Closed(s) == IF s = "connecting" THEN "failing"
             ELSE IF s = "failing" THEN "failing" ELSE "shut"
Lost(g) == {m[2] : m \in {x \in wire : x[1] = g}}
Unsent(g) == {x \in wire : x[1] # g}

CleanupConnection ==
    [g \in DOMAIN socket |-> IF g = registered THEN Closed(socket[g])
                             ELSE socket[g]]

(* The page selects the run: connectRunStream.  What is left of an older   *)
(* stream of the run is cleaned up, the poller stopped.                    *)
Enter ==
    /\ ~here /\ streams < MaxStreams
    /\ here' = TRUE /\ current' = TRUE
    /\ streams' = streams + 1
    /\ socket' = [CleanupConnection EXCEPT ![streams'] = "connecting"]
    /\ registered' = streams'
    /\ poller' = FALSE /\ stopped' = FALSE
    /\ UNCHANGED <<feed, tries, poll, wire, fetching, messages, hydrate, missed, faults>>

(* The page asks for the whole run while it has no message of it, when it  *)
(* selects the run and whenever the list of runs changes.                  *)
AsksForRun(k) ==
    /\ here /\ ~filled
    /\ hydrate[k][1] = "unasked"
    /\ \A j \in 1 .. k - 1 : hydrate[j][1] # "unasked"
    /\ hydrate' = [hydrate EXCEPT ![k] = <<"asked", {}>>]
    /\ UNCHANGED <<feed, page, sockets, polling, wire, fetching, messages, missed, faults>>

(* The page leaves the run, for another one or for another page: its       *)
(* stream is closed, and another run becomes the current one if there is   *)
(* one.                                                                    *)
Leave ==
    /\ here
    /\ here' = FALSE
    /\ current' \in BOOLEAN
    /\ socket' = [socket EXCEPT ![streams] = Closed(@)]
    /\ registered' = 0
    /\ poller' = FALSE
    /\ wire' = Unsent(streams) /\ missed' = missed \cup Lost(streams)
    /\ UNCHANGED <<feed, streams, tries, poll, stopped, fetching, messages, hydrate, faults>>

(* The server accepts the connection and subscribes it. *)
Opens(g) ==
    /\ socket[g] = "connecting"
    /\ socket' = [socket EXCEPT ![g] = "open"]
    /\ tries' = [tries EXCEPT ![g] = 0]
    /\ UNCHANGED <<feed, page, registered, polling, wire, fetching, messages,
                   hydrate, missed, faults>>

(* onError of the data source: the first error starts a poller and closes  *)
(* the socket, which unregisters whatever socket the run has.              *)
FallBack(g) ==
    /\ poller' = TRUE
    /\ socket' = [socket EXCEPT ![g] = "shut"]
    /\ registered' = 0
    /\ UNCHANGED tries

(* Mutant: a lost connection is not built up again. *)
NoReconnect(g) ==
    /\ socket' = [socket EXCEPT ![g] = "shut"]
    /\ UNCHANGED <<poller, registered, tries>>

(* Mutant: one attempt too many. *)
ReconnectOnceMore(g) ==
    IF tries[g] <= MaxTries
    THEN /\ socket' = [socket EXCEPT ![g] = "waiting"]
         /\ tries' = [tries EXCEPT ![g] = @ + 1]
         /\ UNCHANGED <<poller, registered>>
    ELSE FallBack(g)

(* scheduleReconnect *)
Reconnect(g) ==
    IF tries[g] < MaxTries
    THEN /\ socket' = [socket EXCEPT ![g] = "waiting"]
         /\ tries' = [tries EXCEPT ![g] = @ + 1]
         /\ UNCHANGED <<poller, registered>>
    ELSE IF poller
         THEN /\ socket' = [socket EXCEPT ![g] = "shut"]
              /\ registered' = 0
              /\ UNCHANGED <<tries, poller>>
         ELSE FallBack(g)

(* handleClose: a connection the server, or whatever is between, closed    *)
(* cleanly is not built up again, and nobody is told.                      *)
GoesDown(g) ==
    \/ Reconnect(g)
    \/ socket' = [socket EXCEPT ![g] = "ended"] /\ UNCHANGED <<tries, poller, registered>>

(* An error event and the close event behind it: handleError, handleClose. *)
Errors(g) ==
    /\ \/ socket[g] = "failing" /\ UNCHANGED faults
       \/ /\ socket[g] \in {"connecting", "open"}
          /\ faults < MaxFaults /\ faults' = faults + 1
    /\ IF ~poller THEN FallBack(g)
       ELSE IF socket[g] = "failing"
            THEN /\ socket' = [socket EXCEPT ![g] = "shut"]
                 /\ UNCHANGED <<tries, poller, registered>>
       ELSE GoesDown(g)
    /\ wire' = Unsent(g) /\ missed' = missed \cup Lost(g)
    /\ UNCHANGED <<feed, page, poll, stopped, fetching, messages, hydrate>>

(* A close event alone, as when the server shuts down. *)
Drops(g) ==
    /\ socket[g] = "open"
    /\ faults < MaxFaults /\ faults' = faults + 1
    /\ GoesDown(g)
    /\ wire' = Unsent(g) /\ missed' = missed \cup Lost(g)
    /\ UNCHANGED <<feed, page, poll, stopped, fetching, messages, hydrate>>

TimerFires(g) ==
    /\ socket[g] = "waiting"
    /\ socket' = [socket EXCEPT ![g] = "connecting"]
    /\ UNCHANGED <<feed, page, tries, registered, polling, wire, fetching,
                   messages, hydrate, missed, faults>>

----------------------------------------------------------------------------
(* Mutant: a run that is not current is polled on. *)
PollTickAnyRun ==
    /\ poller /\ poll = "no" /\ poll' = "asked"
    /\ UNCHANGED <<feed, page, sockets, poller, stopped, wire, fetching,
                   messages, hydrate, missed, faults>>

(* pollRun: nothing without a poller; the end of it for another run.       *)
PollTick ==
    /\ poller /\ poll = "no"
    /\ IF current THEN poll' = "asked" /\ UNCHANGED poller
       ELSE poller' = FALSE /\ UNCHANGED poll
    /\ UNCHANGED <<feed, page, sockets, stopped, wire, fetching, messages,
                   hydrate, missed, faults>>

(* A poll that fails is only logged. *)
PollRead ==
    /\ poll = "asked"
    /\ \/ poll' = row /\ UNCHANGED faults
       \/ poll' = "no" /\ faults < MaxFaults /\ faults' = faults + 1
    /\ UNCHANGED <<feed, page, sockets, poller, stopped, wire, fetching,
                   messages, hydrate, missed>>

(* Its events are run_status, run_completed and step events, and the page  *)
(* looks at chat_updated only.                                             *)
PollAnswers ==
    /\ poll \notin {"no", "asked"} /\ poll' = "no"
    /\ IF poller /\ poll \in Terminal THEN poller' = FALSE /\ stopped' = TRUE
       ELSE UNCHANGED <<poller, stopped>>
    /\ UNCHANGED <<feed, page, sockets, wire, fetching, messages, hydrate,
                   missed, faults>>

----------------------------------------------------------------------------
(* The bus delivers to the sockets subscribed now, and to nobody later.    *)
(* Its duplicate suppression compares type and payload, which holds the    *)
(* item's id, so that two items never count as one.                        *)
OpenSockets == {g \in DOMAIN socket : socket[g] = "open"}
(* Mutant: duplicates are recognised by their type. *)
PublishByType(item) ==
    /\ wire' = wire \cup (IF wire = {} THEN OpenSockets \X {item}
                          ELSE {})
    /\ missed' = IF OpenSockets = {} THEN missed \cup {item}
                 ELSE missed

(* The gateway's own suppression compares with the message just before,    *)
(* the item's id included.                                                 *)
SendMessage(item) == OpenSockets \X {item}

Publish(item) ==
    /\ wire' = wire \cup SendMessage(item)
    /\ missed' = IF OpenSockets = {} THEN missed \cup {item}
                 ELSE missed

Announces(item) ==
    /\ Server!Announce(item)
    /\ Publish(item)
    /\ UNCHANGED <<page, sockets, polling, fetching, messages, hydrate, faults>>
Serves ==
    /\ \/ \E status \in Finals : Server!SetRow(status)
       \/ Server!Restart
       \/ \E item \in Items : Server!Write(item)
    /\ UNCHANGED client

(* Mutant: only one request at a time. *)
ReceivesUnlessBusy(g, item) ==
    /\ <<g, item>> \in wire
    /\ wire' = wire \ {<<g, item>>}
    /\ fetching' = IF fetching = {} THEN {<<g, item>>} ELSE fetching
    /\ UNCHANGED <<feed, page, sockets, polling, messages, hydrate, missed, faults>>

(* handleMessage: each announcement is a request for its item.             *)
Receives(g, item) ==
    /\ <<g, item>> \in wire
    /\ wire' = wire \ {<<g, item>>}
    /\ fetching' = fetching \cup {<<g, item>>}
    /\ UNCHANGED <<feed, page, sockets, polling, messages, hydrate, missed, faults>>

(* Answers come in any order, and are added without a look at whether they *)
(* are there; but a 'run' message takes the place of the last one there    *)
(* is.  An answer that fails is only logged.                               *)
Shows(item) ==
    LET replaced == IF item \in runItems THEN tip ELSE {}
    IN  /\ shown' = [i \in Items |->
                       (IF i \in replaced THEN shown[i] - 1 ELSE shown[i])
                       + (IF i = item THEN 1 ELSE 0)]
        /\ tip' = IF item \in runItems THEN {item} ELSE tip
Fetched(g, item) ==
    /\ <<g, item>> \in fetching
    /\ fetching' = fetching \ {<<g, item>>}
    /\ \/ /\ Shows(item)
          /\ filled' = TRUE /\ arrived' = arrived \cup {item}
          /\ UNCHANGED <<runItems, missed, faults>>
       \/ /\ faults < MaxFaults /\ faults' = faults + 1
          /\ missed' = missed \cup {item} /\ UNCHANGED messages
    /\ UNCHANGED <<feed, page, sockets, polling, wire, hydrate>>

(* buildMessagesFromRun: one message for each item. *)
MessagesOf(read) == [i \in Items |-> IF i \in read THEN 1 ELSE 0]

(* The run's messages are replaced by what the server had when it was      *)
(* asked, items added meanwhile included; a request that fails changes     *)
(* nothing.  Which 'run' message is the last depends on when the items     *)
(* were written.                                                           *)
Hydrates(k) ==
    /\ hydrate[k][1] = "asked"
    /\ \/ hydrate' = [hydrate EXCEPT ![k] = <<"read", items>>] /\ UNCHANGED faults
       \/ /\ faults < MaxFaults /\ faults' = faults + 1
          /\ hydrate' = [hydrate EXCEPT ![k] = <<"failed", {}>>]
    /\ UNCHANGED <<feed, page, sockets, polling, wire, fetching, messages, missed>>
Hydrated(k) ==
    /\ hydrate[k][1] = "read"
    /\ hydrate' = [hydrate EXCEPT ![k] = <<"done", {}>>]
    /\ LET read == hydrate[k][2]
       IN  /\ shown' = MessagesOf(read)
           /\ IF read \cap runItems = {} THEN tip' = {}
              ELSE \E i \in read \cap runItems : tip' = {i}
           /\ missed' = missed \cup (arrived \ read)
    /\ filled' = TRUE
    /\ UNCHANGED <<feed, page, sockets, polling, wire, fetching, runItems, arrived, faults>>

----------------------------------------------------------------------------
Socket(g) == Opens(g) \/ Errors(g) \/ Drops(g) \/ TimerFires(g)
Poll == PollTick \/ PollRead \/ PollAnswers
Messages == \/ \E m \in wire : Receives(m[1], m[2])
            \/ \E m \in fetching : Fetched(m[1], m[2])
            \/ \E k \in DOMAIN hydrate : Hydrates(k) \/ Hydrated(k)

Next ==
    \/ Serves \/ \E item \in Items : Announces(item)
    \/ Enter \/ Leave \/ \E k \in DOMAIN hydrate : AsksForRun(k)
    \/ \E g \in DOMAIN socket : Socket(g)
    \/ Poll \/ Messages

(* Promises are settled, timers and intervals fire, a connection is        *)
(* accepted or refused.  The user need not do anything.                    *)
Fairness ==
    /\ WF_vars(\E g \in DOMAIN socket :
                  Opens(g) \/ TimerFires(g) \/ (socket[g] = "failing" /\ Errors(g)))
    /\ WF_vars(PollTick) /\ WF_vars(PollRead) /\ WF_vars(PollAnswers)
    /\ WF_vars(Messages)

Spec == Init /\ [][Next]_vars /\ Fairness
-----------------------------------------------------------------------------
(* The tab's variables keep their types. *)
TypeOK ==
    /\ missed \subseteq announced
    /\ socket \in [1 .. MaxStreams -> SocketStates]
    /\ tries \in [1 .. MaxStreams -> 0 .. MaxTries]
    /\ registered \in 0 .. streams /\ streams \in 0 .. MaxStreams
    /\ poll \in {"no", "asked", "running"} \cup Finals
    /\ shown \in [Items -> 0 .. 2]

(* Nothing is shown twice in a chat that was not hydrated: of all sockets  *)
(* and streams of a tab no two deliver the same announcement (client.ts    *)
(* cleanupConnection, RunSocket.close).                                    *)
Hydration == \E k \in DOMAIN hydrate : hydrate[k][1] = "done"
ShownOnce == ~Hydration => \A i \in Items : shown[i] <= 1

(* A tab has at most one live socket, the last stream's, and none when the *)
(* user has left the run, whatever timers and late events are left of      *)
(* older ones.                                                             *)
OneListener ==
    \A g \in DOMAIN socket : Live(g) => here /\ g = streams

(* While the user looks at a run the tab has a socket that is connected or *)
(* connecting again, or polls, for two reasons not: its last socket was    *)
(* closed cleanly by the other side, or a poll found the run over, which   *)
(* may have been resumed since (websocket.ts handleClose, client.ts        *)
(* pollRun).                                                               *)
NeverDeaf ==
    here => Live(streams) \/ poller \/ socket[streams] = "ended" \/ stopped

(* When nothing is under way each announced item has arrived, and is in    *)
(* the chat or gave its place to another status that is, unless it was     *)
(* announced while the tab was not connected, got lost with a connection   *)
(* or a request, or was overwritten by a hydration (useWebSocketEvents.ts, *)
(* Chat.tsx).                                                              *)
AtRest ==
    /\ wire = {} /\ fetching = {}
    /\ \A k \in DOMAIN hydrate : hydrate[k][1] \notin {"asked", "read"}
NothingElseLost ==
    AtRest => \A i \in announced \ missed :
        /\ i \in arrived
        /\ shown[i] > 0 \/ (i \in runItems /\ \E j \in runItems : shown[j] > 0)

(* A poller does not go on for ever once the run is over or another run    *)
(* has become current (client.ts pollRun).                                 *)
PollerEnds == []<>(~poller \/ (current /\ row \notin Terminal))

(* What a socket was sent is shown in the end, or lost for a reason.       *)
Delivered ==
    \A i \in Items : (\E m \in wire : m[2] = i) ~> (shown[i] > 0 \/ i \in missed)
=============================================================================
