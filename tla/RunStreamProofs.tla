-------------------------- MODULE RunStreamProofs --------------------------
(***************************************************************************)
(* What holds of a tab that follows a run for any items, statuses, number  *)
(* of streams, attempts to reconnect and failures, with proofs for TLAPS.  *)
(***************************************************************************)
EXTENDS RunStream, TLAPS

USE DEF feed, page, sockets, polling, messages

Streams == 1 .. MaxStreams
Requests == 1 .. MaxHydrations
Answers == {"unasked", "asked", "read", "failed", "done"} \X SUBSET Items

(* The types of all variables, in full.                                    *)
Types ==
    /\ row \in {"running"} \cup Finals
    /\ items \subseteq Items /\ announced \subseteq items
    /\ here \in BOOLEAN /\ current \in BOOLEAN /\ poller \in BOOLEAN
    /\ stopped \in BOOLEAN /\ filled \in BOOLEAN
    /\ streams \in 0 .. MaxStreams /\ registered \in 0 .. streams
    /\ socket \in [Streams -> SocketStates]
    /\ tries \in [Streams -> 0 .. MaxTries]
    /\ poll \in {"no", "asked", "running"} \cup Finals
    /\ wire \subseteq Streams \X Items /\ fetching \subseteq Streams \X Items
    /\ shown \in [Items -> Nat] /\ missed \subseteq Items /\ arrived \subseteq Items
    /\ runItems \subseteq Items /\ tip \subseteq runItems /\ \A i \in tip : shown[i] > 0
    /\ hydrate \in [Requests -> Answers]

(* A tab that looks at the run opened a stream for it and made it the      *)
(* current one.                                                            *)
WatchInv ==
    /\ here => current /\ streams > 0
    /\ OneListener /\ NeverDeaf

(* An announcement is on its way to the tab at most once: sent to the open *)
(* socket, or being fetched.                                               *)
OnTheWay == wire \cup fetching
WayInv ==
    /\ \A m \in wire : socket[m[1]] = "open"
    /\ \A m \in OnTheWay : m[2] \in announced
    /\ \A m \in wire : \A n \in fetching : m[2] # n[2]
    /\ \A m, n \in fetching : m[2] = n[2] => m = n

(* What is on its way will be the first of its item, or the second to the  *)
(* one a hydration brought.                                                *)
CountInv ==
    /\ \A i \in Items : shown[i] <= 2
    /\ \A m \in OnTheWay : shown[m[2]] <= 1
    /\ \A i \in Items \ announced : shown[i] <= 1
    /\ ~Hydration => /\ \A i \in Items : shown[i] <= 1
                     /\ \A m \in OnTheWay : shown[m[2]] = 0
                     /\ \A i \in Items \ announced : shown[i] = 0

(* What was announced has arrived, is on its way, or was missed; what has  *)
(* arrived is shown, or another status is.                                 *)
LossInv ==
    /\ missed \subseteq announced /\ arrived \subseteq announced
    /\ \A i \in announced : \/ i \in arrived \/ i \in missed
                            \/ \E m \in OnTheWay : m[2] = i
    /\ \A i \in arrived \ missed : shown[i] > 0 \/ (i \in runItems /\ tip # {})

IndInv == Types /\ WatchInv /\ WayInv /\ CountInv /\ LossInv

-----------------------------------------------------------------------------
(* -- the steps ------------------------------------------------------------ *)

(* A step of the tab is one of these.                                      *)
LEMMA Steps ==
  ASSUME [Next]_vars
  PROVE  \/ UNCHANGED vars
         \/ Serves \/ \E i \in Items : Announces(i)
         \/ Enter \/ Leave \/ \E k \in DOMAIN hydrate : AsksForRun(k)
         \/ \E g \in DOMAIN socket : Opens(g) \/ Errors(g) \/ Drops(g) \/ TimerFires(g)
         \/ PollTick \/ PollRead \/ PollAnswers
         \/ \E m \in wire : Receives(m[1], m[2])
         \/ \E m \in fetching : Fetched(m[1], m[2])
         \/ \E k \in DOMAIN hydrate : Hydrates(k) \/ Hydrated(k)
BY DEF Next, Socket, Poll, Messages

(* An error or a close leaves the stream waiting for its timer, shut with  *)
(* a poller, or ended; nothing else is touched but what was sent to it.    *)
LEMMA SocketFails ==
  ASSUME Types, NEW g \in Streams, Errors(g) \/ Drops(g)
  PROVE  /\ \E s \in {"waiting", "shut", "ended"} :
              /\ socket' = [socket EXCEPT ![g] = s]
              /\ s = "waiting" => socket[g] \in {"connecting", "open"}
              /\ s = "shut" => poller'
         /\ poller => poller'
         /\ poller' \in BOOLEAN /\ registered' \in {0, registered}
         /\ tries' \in [Streams -> 0 .. MaxTries]
         /\ wire' = Unsent(g) /\ missed' = missed \cup Lost(g)
         /\ UNCHANGED <<feed, page, poll, stopped, fetching, messages, hydrate>>
<1> USE StreamAssumption DEF Types
<1>1. ASSUME FallBack(g)
      PROVE  /\ socket' = [socket EXCEPT ![g] = "shut"]
             /\ poller' = TRUE /\ registered' = 0 /\ tries' = tries
  BY <1>1 DEF FallBack
<1>2. ASSUME Reconnect(g)
      PROVE  /\ \/ socket' = [socket EXCEPT ![g] = "waiting"] /\ poller' = poller
                \/ socket' = [socket EXCEPT ![g] = "shut"] /\ poller' = TRUE
             /\ registered' \in {0, registered} /\ tries' \in [Streams -> 0 .. MaxTries]
  <2>1. CASE tries[g] < MaxTries
    <3>1. tries[g] \in 0 .. MaxTries /\ tries[g] + 1 \in 0 .. MaxTries
      BY <2>1
    <3>2. tries' = [tries EXCEPT ![g] = tries[g] + 1]
      BY <1>2, <2>1 DEF Reconnect
    <3> QED BY <1>2, <2>1, <3>1, <3>2 DEF Reconnect
  <2>2. CASE ~(tries[g] < MaxTries)
    BY <1>2, <2>2, <1>1 DEF Reconnect
  <2> QED BY <2>1, <2>2
<1>3. ASSUME GoesDown(g)
      PROVE  /\ \/ socket' = [socket EXCEPT ![g] = "waiting"] /\ poller' = poller
                \/ socket' = [socket EXCEPT ![g] = "shut"] /\ poller' = TRUE
                \/ socket' = [socket EXCEPT ![g] = "ended"] /\ poller' = poller
             /\ registered' \in {0, registered} /\ tries' \in [Streams -> 0 .. MaxTries]
  BY <1>2, <1>3 DEF GoesDown
<1>4. CASE Drops(g)
  BY <1>4, <1>3 DEF Drops
<1>5. CASE Errors(g)
  <2>1. CASE ~poller
    BY <1>1, <1>5, <2>1 DEF Errors
  <2>2. CASE poller /\ socket[g] = "failing"
    BY <1>5, <2>2 DEF Errors
  <2>3. CASE poller /\ socket[g] # "failing"
    BY <1>5, <1>3, <2>3 DEF Errors
  <2> QED BY <2>1, <2>2, <2>3
<1> QED BY <1>4, <1>5

(* Closing a socket leaves it shut or about to fail.                       *)
LEMMA ClosingSocket ==
  ASSUME NEW s PROVE Closed(s) \in {"failing", "shut"}
BY DEF Closed

(* Entering the run connects a new stream, and closes at most one other.   *)
LEMMA Entering ==
  ASSUME Types, Enter
  PROVE  /\ ~here /\ here' /\ current' /\ ~poller'
         /\ streams' \in Streams /\ streams' = streams + 1 /\ registered' = streams'
         /\ \E c \in [Streams -> SocketStates] :
              /\ \A g \in Streams : c[g] = socket[g] \/ c[g] \in {"failing", "shut"}
              /\ socket' = [c EXCEPT ![streams'] = "connecting"]
         /\ ~stopped'
         /\ UNCHANGED <<feed, tries, poll, wire, fetching, messages, hydrate, missed, faults>>
<1> USE StreamAssumption DEF Types
<1>1. CleanupConnection \in [Streams -> SocketStates]
  BY ClosingSocket DEF CleanupConnection, SocketStates
<1>2. \A g \in Streams : CleanupConnection[g] = socket[g] \/ CleanupConnection[g] \in {"failing", "shut"}
  BY ClosingSocket DEF CleanupConnection
<1>3. socket' = [CleanupConnection EXCEPT ![streams'] = "connecting"]
  BY DEF Enter
<1>4. streams' \in Streams /\ streams' = streams + 1
  BY DEF Enter, Streams
<1> QED BY <1>1, <1>2, <1>3, <1>4 DEF Enter

(* What is fetched is added, and may take the place of the last 'run'      *)
(* message; then it is the last one.                                       *)
LEMMA Showing ==
  ASSUME Types, NEW item \in Items, Shows(item), runItems' = runItems
  PROVE  /\ shown' \in [Items -> Nat] /\ tip' \subseteq runItems
         /\ \A i \in tip' : shown'[i] > 0
         /\ shown'[item] > 0 /\ shown'[item] <= shown[item] + 1
         /\ \A i \in Items \ {item} : shown'[i] <= shown[i]
         /\ \A i \in Items \ {item} : shown'[i] = shown[i] \/ i \in tip
         /\ item \in runItems => tip' = {item}
         /\ item \notin runItems => tip' = tip /\ \A i \in Items \ {item} : shown'[i] = shown[i]
<1> USE DEF Types
<1>1. CASE item \in runItems
  <2>1. tip' = {item}
    BY <1>1 DEF Shows
  <2>2. shown' = [i \in Items |-> (IF i \in tip THEN shown[i] - 1 ELSE shown[i])
                                  + (IF i = item THEN 1 ELSE 0)]
    BY <1>1 DEF Shows
  <2>3. \A i \in Items : /\ shown[i] \in Nat
                         /\ i \in tip => shown[i] - 1 \in Nat
    OBVIOUS
  <2> QED BY <1>1, <2>1, <2>2, <2>3
<1>2. CASE item \notin runItems
  <2>1. tip' = tip
    BY <1>2 DEF Shows
  <2>2. shown' = [i \in Items |-> shown[i] + (IF i = item THEN 1 ELSE 0)]
    BY <1>2 DEF Shows
  <2> QED BY <1>2, <2>1, <2>2
<1> QED BY <1>1, <1>2

(* A hydration shows what was read, each item once.                        *)
LEMMA Hydrating ==
  ASSUME Types, NEW k \in DOMAIN hydrate, Hydrated(k)
  PROVE  /\ shown' \in [Items -> Nat] /\ tip' \subseteq runItems
         /\ \A i \in tip' : shown'[i] > 0
         /\ \A i \in Items : shown'[i] <= 1
         /\ \A i \in hydrate[k][2] : shown'[i] > 0
         /\ missed' = missed \cup (arrived \ hydrate[k][2])
         /\ Hydration'
<1> DEFINE read == hydrate[k][2]
<1>1. read \subseteq Items
  BY DEF Types, Answers
<1>2. /\ shown' = MessagesOf(read) /\ missed' = missed \cup (arrived \ read)
      /\ tip' = {} \/ \E i \in read \cap runItems : tip' = {i}
  BY DEF Hydrated
<1>3. Hydration'
  BY DEF Types, Hydrated, Hydration
<1> HIDE DEF read
<1>4. \A i \in Items : shown'[i] = IF i \in read THEN 1 ELSE 0
  BY <1>2 DEF MessagesOf
<1>5. shown' \in [Items -> Nat]
  BY <1>2 DEF MessagesOf
<1>6. tip' \subseteq runItems /\ tip' \subseteq read
  BY <1>2
<1> QED BY <1>1, <1>2, <1>3, <1>4, <1>5, <1>6 DEF read

(* The types hold before any window is opened.                             *)
LEMMA TypesInit == Init => Types
<1> SUFFICES ASSUME Init PROVE Types
  OBVIOUS
<1>1. row = "running" /\ items = {} /\ announced = {}
  BY DEF Init, Server!FeedInit
<1>2. hydrate \in [Requests -> Answers]
  BY DEF Init, Requests, Answers
<1>3. socket \in [Streams -> SocketStates] /\ tries \in [Streams -> 0 .. MaxTries]
  BY StreamAssumption DEF Init, Streams, SocketStates
<1>4. /\ here \in BOOLEAN /\ current \in BOOLEAN /\ poller \in BOOLEAN
      /\ stopped \in BOOLEAN /\ filled \in BOOLEAN
  BY Zenon DEF Init
<1> QED BY <1>1, <1>2, <1>3, <1>4, StreamAssumption DEF Init, Types

(* The types are inductive.                                                *)
LEMMA TypesStep == Types /\ [Next]_vars => Types'
<1> SUFFICES ASSUME Types, [Next]_vars PROVE Types'
  OBVIOUS
<1> USE StreamAssumption
<1>1. CASE UNCHANGED vars
  BY <1>1 DEF Types, vars, feed, client
<1>2. CASE Serves
  <2>1. row' \in {"running"} \cup Finals /\ items' \subseteq Items /\ items \subseteq items' /\ announced' = announced
    BY <1>2 DEF Types, Serves, Server!SetRow, Server!Restart, Server!Write
  <2> QED BY <1>2, <2>1 DEF Types, Serves, client
<1>3. ASSUME NEW i \in Items, Announces(i) PROVE Types'
  <2>1. row' = row /\ items' = items /\ announced' \subseteq items'
    BY <1>3 DEF Types, Announces, Server!Announce
  <2>2. wire' \subseteq Streams \X Items /\ missed' \subseteq Items
    BY <1>3 DEF Types, Announces, Publish, SendMessage, OpenSockets
  <2> QED BY <1>3, <2>1, <2>2 DEF Types, Announces
<1>4. CASE Enter
  <2>1. socket' \in [Streams -> SocketStates]
    BY <1>4, Entering DEF SocketStates
  <2>3. streams' \in 0 .. MaxStreams /\ registered' \in 0 .. streams'
    BY <1>4, Entering DEF Types, Streams
  <2>4. here' \in BOOLEAN /\ current' \in BOOLEAN /\ poller' \in BOOLEAN /\ stopped' \in BOOLEAN
    BY <1>4, Zenon DEF Enter
  <2> QED BY <1>4, <2>1, <2>3, <2>4, Entering DEF Types
<1>5. CASE Leave
  <2>1. Closed(socket[streams]) \in SocketStates
    BY ClosingSocket DEF SocketStates
  <2>2. socket' \in [Streams -> SocketStates]
    BY <1>5, <2>1 DEF Types, Leave
  <2>3. wire' \subseteq wire /\ missed' \subseteq Items
    BY <1>5 DEF Types, Leave, Lost, Unsent
  <2>4. here' \in BOOLEAN /\ current' \in BOOLEAN /\ poller' \in BOOLEAN
    BY <1>5, Zenon DEF Leave
  <2> QED BY <1>5, <2>2, <2>3, <2>4 DEF Types, Leave, feed
<1>6. ASSUME NEW g \in DOMAIN socket, Opens(g) \/ Errors(g) \/ Drops(g) \/ TimerFires(g)
      PROVE  Types'
  <2> g \in Streams
    BY DEF Types
  <2>1. CASE Opens(g)
    BY <2>1 DEF Types, Opens, SocketStates, feed
  <2>2. CASE Errors(g) \/ Drops(g)
    <3>1. socket' \in [Streams -> SocketStates]
      BY <2>2, SocketFails DEF Types, SocketStates
    <3>2. wire' \subseteq wire /\ missed' \subseteq Items
      BY <2>2, SocketFails DEF Types, Unsent, Lost
    <3> QED BY <2>2, <3>1, <3>2, SocketFails DEF Types, feed
  <2>3. CASE TimerFires(g)
    BY <2>3 DEF Types, TimerFires, SocketStates, feed
  <2> QED BY <1>6, <2>1, <2>2, <2>3
<1>7. CASE PollTick \/ PollRead \/ PollAnswers
  <2>1. poller' \in BOOLEAN /\ stopped' \in BOOLEAN
    BY <1>7, Zenon DEF Types, PollTick, PollRead, PollAnswers
  <2>2. poll' \in {"no", "asked", "running"} \cup Finals
    BY <1>7 DEF Types, PollTick, PollRead, PollAnswers
  <2> QED BY <1>7, <2>1, <2>2 DEF Types, PollTick, PollRead, PollAnswers
<1>8. ASSUME NEW m \in wire, Receives(m[1], m[2]) PROVE Types'
  BY <1>8 DEF Types, Receives, feed
<1>9. ASSUME NEW m \in fetching, Fetched(m[1], m[2]) PROVE Types'
  <2>1. m[2] \in Items
    BY DEF Types
  <2>2. CASE UNCHANGED messages
    BY <1>9, <2>1, <2>2 DEF Types, Fetched
  <2>3. CASE Shows(m[2]) /\ filled' = TRUE /\ arrived' = arrived \cup {m[2]}
             /\ UNCHANGED <<runItems, missed, faults>>
    <3>1. /\ shown' \in [Items -> Nat] /\ tip' \subseteq runItems
          /\ \A i \in tip' : shown'[i] > 0
      BY <2>1, <2>3, Showing
    <3> QED BY <1>9, <2>1, <2>3, <3>1 DEF Types, Fetched
  <2> QED BY <1>9, <2>2, <2>3 DEF Fetched
<1>10. ASSUME NEW k \in DOMAIN hydrate, Hydrates(k) PROVE Types'
  <2>1. hydrate' \in [Requests -> Answers]
    BY <1>10 DEF Types, Hydrates, Answers
  <2> QED BY <1>10, <2>1 DEF Types, Hydrates
<1>11. ASSUME NEW k \in DOMAIN hydrate, Hydrated(k) PROVE Types'
  <2>1. hydrate' \in [Requests -> Answers]
    BY <1>11 DEF Types, Hydrated, Answers
  <2>2. shown' \in [Items -> Nat] /\ tip' \subseteq runItems /\ \A i \in tip' : shown'[i] > 0
    BY <1>11, Hydrating
  <2> QED BY <1>11, <2>1, <2>2 DEF Types, Hydrated
<1>12. ASSUME NEW k \in DOMAIN hydrate, AsksForRun(k) PROVE Types'
  BY <1>12 DEF Types, AsksForRun, Answers
<1> QED BY <1>1, <1>2, <1>3, <1>4, <1>5, <1>6, <1>7, <1>8, <1>9, <1>10, <1>11, <1>12, Steps

-----------------------------------------------------------------------------
(* -- one listener, never deaf --------------------------------------------- *)

(* Steps that move neither socket nor poller keep the watch.               *)
LEMMA WatchStays ==
  ASSUME WatchInv, UNCHANGED <<page, socket, poller, stopped>>
  PROVE  WatchInv'
BY DEF WatchInv, OneListener, NeverDeaf, Live

(* The tab is not yet on the page at first.                                *)
LEMMA WatchInit == Init => WatchInv
<1> SUFFICES ASSUME Init PROVE WatchInv
  OBVIOUS
<1>1. ~here /\ \A g \in DOMAIN socket : socket[g] = "unused"
  BY DEF Init
<1> QED BY <1>1 DEF WatchInv, OneListener, NeverDeaf, Live, Terminal

(* Every step leaves at most one listener, and never a deaf tab.           *)
LEMMA WatchStep == Types /\ WatchInv /\ [Next]_vars => WatchInv'
<1> SUFFICES ASSUME Types, WatchInv, [Next]_vars PROVE WatchInv'
  OBVIOUS
<1>0. DOMAIN socket = Streams /\ streams \in Nat /\ MaxStreams \in Nat
  BY StreamAssumption DEF Types
<1>1. CASE UNCHANGED vars
  BY <1>1, WatchStays DEF vars, feed, client
<1>2. CASE Serves
  BY <1>2, WatchStays DEF Serves, client
<1>3. ASSUME NEW i \in Items, Announces(i) PROVE WatchInv'
  BY <1>3, WatchStays DEF Announces, Server!Announce
<1>4. CASE Enter
  <2> PICK c \in [Streams -> SocketStates] :
              /\ \A g \in Streams : c[g] = socket[g] \/ c[g] \in {"failing", "shut"}
              /\ socket' = [c EXCEPT ![streams'] = "connecting"]
    BY <1>4, Entering
  <2>1. \A g \in Streams : socket[g] \notin {"connecting", "open", "waiting"}
    BY <1>0, <1>4, Entering DEF WatchInv, OneListener, Live
  <2>2. streams' \in Streams /\ streams' > 0 /\ here' /\ current'
    BY <1>0, <1>4, Entering DEF feed
  <2>3. DOMAIN socket' = Streams /\ socket'[streams'] = "connecting"
        /\ \A g \in Streams \ {streams'} : socket'[g] = c[g]
    BY <2>2
  <2>4. OneListener'
    BY <2>1, <2>2, <2>3 DEF OneListener, Live
  <2>5. NeverDeaf'
    BY <2>3 DEF NeverDeaf, Live
  <2> QED BY <2>2, <2>4, <2>5 DEF WatchInv
<1>5. CASE Leave
  <2>1. ~here' /\ streams' = streams
    BY <1>5 DEF Leave, feed
  <2>2. DOMAIN socket' = Streams /\ \A g \in Streams : socket'[g] \notin {"connecting", "open", "waiting"}
    BY <1>0, <1>5, ClosingSocket DEF Leave, WatchInv, OneListener, Live, Types
  <2> QED BY <2>1, <2>2 DEF WatchInv, OneListener, NeverDeaf, Live
<1>6. ASSUME NEW g \in Streams, Opens(g) \/ TimerFires(g)
      PROVE  WatchInv'
  <2>1. \E s \in {"open", "connecting"} : socket' = [socket EXCEPT ![g] = s]
    BY <1>6 DEF Opens, TimerFires
  <2>2. socket[g] \in {"connecting", "waiting"}
    BY <1>6 DEF Opens, TimerFires
  <2>3. UNCHANGED <<here, current, streams, poller, stopped>>
    BY <1>6 DEF Opens, TimerFires, feed
  <2> QED BY <1>0, <2>1, <2>2, <2>3 DEF WatchInv, OneListener, NeverDeaf, Live, Types
<1>7. ASSUME NEW g \in Streams, Errors(g) \/ Drops(g) PROVE WatchInv'
  <2> PICK s \in {"waiting", "shut", "ended"} :
              /\ socket' = [socket EXCEPT ![g] = s]
              /\ s = "waiting" => socket[g] \in {"connecting", "open"}
              /\ s = "shut" => poller'
    BY <1>7, SocketFails
  <2>1. UNCHANGED <<here, current, streams, stopped>> /\ (poller => poller')
    BY <1>7, SocketFails DEF feed
  <2>2. DOMAIN socket' = Streams /\ socket'[g] = s /\ \A h \in Streams \ {g} : socket'[h] = socket[h]
    BY <1>0 DEF Types
  <2>3. OneListener'
    BY <1>0, <2>1, <2>2 DEF WatchInv, OneListener, Live
  <2>4. here => streams \in Streams
    BY <1>0 DEF WatchInv, Types, Streams
  <2>5. NeverDeaf'
    BY <1>0, <2>1, <2>2, <2>4 DEF WatchInv, NeverDeaf, Live
  <2> QED BY <2>1, <2>3, <2>5 DEF WatchInv
<1>8. CASE PollTick \/ PollRead \/ PollAnswers
  <2>1. UNCHANGED <<here, current, streams, socket>>
    BY <1>8 DEF PollTick, PollRead, PollAnswers
  <2>2. stopped => stopped'
    BY <1>8 DEF PollTick, PollRead, PollAnswers
  <2>3. here /\ poller => poller' \/ stopped'
    BY <1>8 DEF PollTick, PollRead, PollAnswers, WatchInv
  <2> QED BY <2>1, <2>2, <2>3 DEF WatchInv, OneListener, NeverDeaf, Live
<1>9. ASSUME NEW m \in wire, Receives(m[1], m[2]) PROVE WatchInv'
  BY <1>9, WatchStays DEF Receives, feed
<1>10. ASSUME NEW m \in fetching, Fetched(m[1], m[2]) PROVE WatchInv'
  BY <1>10, WatchStays DEF Fetched, feed
<1>11. ASSUME NEW k \in DOMAIN hydrate, AsksForRun(k) \/ Hydrates(k) \/ Hydrated(k)
       PROVE  WatchInv'
  BY <1>11, WatchStays DEF AsksForRun, Hydrates, Hydrated
<1> QED BY <1>0, <1>1, <1>2, <1>3, <1>4, <1>5, <1>6, <1>7, <1>8, <1>9, <1>10, <1>11, Steps

-----------------------------------------------------------------------------
(* -- nothing twice -------------------------------------------------------- *)

(* Steps that open and close no socket keep what is on its way.            *)
LEMMA WayStays ==
  ASSUME WayInv, UNCHANGED <<announced, socket, wire, fetching>>
  PROVE  WayInv'
BY DEF WayInv, OnTheWay

(* A step that takes what was sent to one socket, and changes no other but *)
(* one that is not open, keeps the rest on its way.                        *)
LEMMA WayShrinks ==
  ASSUME WayInv, wire' \subseteq wire, fetching' \subseteq fetching, announced' = announced,
         \A m \in wire' : socket'[m[1]] = socket[m[1]]
  PROVE  WayInv'
BY DEF WayInv, OnTheWay

(* Nothing is on its way at first.                                         *)
LEMMA WayInit == Init => WayInv
BY DEF Init, WayInv, OnTheWay

(* Every step keeps an announcement on its way at most once.               *)
LEMMA WayStep == Types /\ WatchInv /\ WayInv /\ [Next]_vars => WayInv'
<1> SUFFICES ASSUME Types, WatchInv, WayInv, [Next]_vars PROVE WayInv'
  OBVIOUS
<1>0. DOMAIN socket = Streams /\ \A m \in wire : m[1] \in Streams
  BY DEF Types
<1>1. CASE UNCHANGED vars
  BY <1>1, WayStays DEF vars, feed, client
<1>2. CASE Serves
  BY <1>2, WayStays DEF Serves, Server!SetRow, Server!Restart, Server!Write, client
<1>3. ASSUME NEW i \in Items, Announces(i) PROVE WayInv'
  <2>1. i \notin announced /\ announced' = announced \cup {i} /\ wire' = wire \cup (OpenSockets \X {i})
        /\ UNCHANGED <<socket, fetching>>
    BY <1>3 DEF Announces, Server!Announce, Publish, SendMessage
  <2>2. \A m \in OpenSockets \X {i} : m[2] = i /\ socket[m[1]] = "open"
    BY DEF OpenSockets
  <2>3. \A n \in fetching : n[2] # i
    BY <2>1 DEF WayInv, OnTheWay
  <2> QED BY <2>1, <2>2, <2>3 DEF WayInv, OnTheWay
<1>4. CASE Enter
  <2>1. wire = {}
    BY <1>0, <1>4, Entering DEF WayInv, WatchInv, OneListener, Live
  <2> QED BY <1>4, <2>1, Entering, WayShrinks DEF feed
<1>5. CASE Leave
  <2>1. announced' = announced /\ fetching' = fetching /\ wire' \subseteq wire
    BY <1>5 DEF Leave, Unsent, feed
  <2>2. \A m \in wire' : socket'[m[1]] = socket[m[1]]
    BY <1>0, <1>5 DEF Leave, Unsent, Types
  <2> QED BY <2>1, <2>2, WayShrinks
<1>6. ASSUME NEW g \in Streams, Opens(g) \/ TimerFires(g)
      PROVE  WayInv'
  <2>1. UNCHANGED <<announced, wire, fetching>> /\ socket[g] # "open"
        /\ \E s : socket' = [socket EXCEPT ![g] = s]
    BY <1>6 DEF Opens, TimerFires, feed
  <2>2. \A m \in wire' : socket'[m[1]] = socket[m[1]]
    BY <1>0, <2>1 DEF WayInv, Types
  <2> QED BY <2>1, <2>2, WayShrinks
<1>7. ASSUME NEW g \in Streams, Errors(g) \/ Drops(g) PROVE WayInv'
  <2>1. UNCHANGED <<announced, fetching>> /\ wire' = Unsent(g)
        /\ \E s : socket' = [socket EXCEPT ![g] = s]
    BY <1>7, SocketFails DEF feed
  <2>2. wire' \subseteq wire /\ \A m \in wire' : socket'[m[1]] = socket[m[1]]
    BY <1>0, <2>1 DEF Unsent, Types
  <2> QED BY <2>1, <2>2, WayShrinks
<1>8. CASE PollTick \/ PollRead \/ PollAnswers
  BY <1>8, WayStays DEF PollTick, PollRead, PollAnswers, feed
<1>9. ASSUME NEW m \in wire, Receives(m[1], m[2]) PROVE WayInv'
  <2>1. m = <<m[1], m[2]>>
    BY DEF Types
  <2>2. wire' = wire \ {m} /\ fetching' = fetching \cup {m} /\ UNCHANGED <<announced, socket>>
    BY <1>9, <2>1 DEF Receives, feed
  <2>3. \A n \in wire' : n[2] # m[2]
    <3> SUFFICES ASSUME NEW n \in wire', n[2] = m[2] PROVE FALSE
      OBVIOUS
    <3>1. n[1] = m[1]
      BY <1>0, <2>2 DEF WayInv, WatchInv, OneListener, Live
    <3>2. n = <<n[1], n[2]>>
      BY <2>2 DEF Types
    <3> QED BY <2>1, <2>2, <3>1, <3>2
  <2> QED BY <2>2, <2>3 DEF WayInv, OnTheWay
<1>10. ASSUME NEW m \in fetching, Fetched(m[1], m[2]) PROVE WayInv'
  BY <1>10, WayShrinks DEF Fetched, feed
<1>11. ASSUME NEW k \in DOMAIN hydrate, AsksForRun(k) \/ Hydrates(k) \/ Hydrated(k)
       PROVE  WayInv'
  BY <1>11, WayStays DEF AsksForRun, Hydrates, Hydrated
<1> QED BY <1>0, <1>1, <1>2, <1>3, <1>4, <1>5, <1>6, <1>7, <1>8, <1>9, <1>10, <1>11, Steps

(* Steps that show nothing new and put nothing new on its way, hydrations  *)
(* that begin included, change no count.                                   *)
LEMMA CountStays ==
  ASSUME CountInv, OnTheWay' \subseteq OnTheWay, UNCHANGED <<announced, shown>>,
         Hydration => Hydration'
  PROVE  CountInv'
BY DEF CountInv

(* Nothing has been shown at first.                                        *)
LEMMA CountInit == Init => CountInv
<1> SUFFICES ASSUME Init PROVE CountInv
  OBVIOUS
<1>1. OnTheWay = {} /\ \A i \in Items : shown[i] = 0
  BY DEF Init, OnTheWay
<1> QED BY <1>1 DEF CountInv

(* Every step keeps what is on its way to be shown, what was shown, few.   *)
LEMMA CountStep == Types /\ WatchInv /\ WayInv /\ CountInv /\ [Next]_vars => CountInv'
<1> SUFFICES ASSUME Types, WatchInv, WayInv, CountInv, [Next]_vars PROVE CountInv'
  OBVIOUS
<1>0. \A m \in OnTheWay : m = <<m[1], m[2]>> /\ m[1] \in Streams /\ m[2] \in Items
  BY DEF Types, OnTheWay
<1>b. hydrate' = hydrate => (Hydration => Hydration')
  BY DEF Hydration
<1>1. CASE UNCHANGED vars
  BY <1>1, <1>b, CountStays DEF vars, feed, client, OnTheWay
<1>2. CASE Serves
  BY <1>2, <1>b, CountStays DEF Serves, Server!SetRow, Server!Restart, Server!Write, client, OnTheWay
<1>3. ASSUME NEW i \in Items, Announces(i) PROVE CountInv'
  <2>1. i \notin announced /\ announced' = announced \cup {i}
        /\ OnTheWay' = OnTheWay \cup (OpenSockets \X {i}) /\ UNCHANGED <<shown, hydrate>>
    BY <1>3 DEF Announces, Server!Announce, Publish, SendMessage, OnTheWay
  <2>2. \A m \in OpenSockets \X {i} : m[2] = i
    OBVIOUS
  <2>3. shown[i] <= 1 /\ (~Hydration => shown[i] = 0)
    BY <2>1 DEF CountInv
  <2> QED BY <1>b, <2>1, <2>2, <2>3 DEF CountInv
<1>4. CASE Enter
  BY <1>4, Entering, <1>b, CountStays DEF OnTheWay
<1>5. CASE Leave
  BY <1>5, <1>b, CountStays DEF Leave, Unsent, feed, OnTheWay
<1>6. ASSUME NEW g \in Streams, Opens(g) \/ TimerFires(g)
      PROVE  CountInv'
  BY <1>6, <1>b, CountStays DEF Opens, TimerFires, feed, OnTheWay
<1>7. ASSUME NEW g \in Streams, Errors(g) \/ Drops(g) PROVE CountInv'
  BY <1>7, SocketFails, <1>b, CountStays DEF feed, OnTheWay, Unsent
<1>8. CASE PollTick \/ PollRead \/ PollAnswers
  BY <1>8, <1>b, CountStays DEF PollTick, PollRead, PollAnswers, feed, OnTheWay
<1>9. ASSUME NEW m \in wire, Receives(m[1], m[2]) PROVE CountInv'
  <2>1. wire' = wire \ {m} /\ fetching' = fetching \cup {m} /\ UNCHANGED <<announced, shown, hydrate>>
    BY <1>0, <1>9 DEF Receives, feed, OnTheWay
  <2> QED BY <2>1, <1>b, CountStays DEF OnTheWay
<1>10. ASSUME NEW m \in fetching, Fetched(m[1], m[2]) PROVE CountInv'
  <2>1. fetching' = fetching \ {m} /\ UNCHANGED <<announced, wire, hydrate>>
    BY <1>0, <1>10 DEF Fetched, feed, OnTheWay
  <2>2. CASE UNCHANGED messages
    BY <1>b, <2>1, <2>2, CountStays DEF OnTheWay
  <2>3. CASE Shows(m[2]) /\ UNCHANGED runItems
    <3>1. m[2] \in Items /\ m[2] \in announced /\ m \in OnTheWay
      BY <1>0 DEF OnTheWay, WayInv
    <3>2. \A n \in OnTheWay' : n \in OnTheWay /\ n[2] # m[2] /\ n[2] \in Items
      BY <1>0, <2>1 DEF OnTheWay, WayInv
    <3>3. /\ shown' \in [Items -> Nat] /\ shown \in [Items -> Nat]
          /\ shown'[m[2]] <= shown[m[2]] + 1
          /\ \A i \in Items \ {m[2]} : shown'[i] <= shown[i]
      BY <2>3, <3>1, Showing DEF Types
    <3>4. shown[m[2]] <= 1 /\ (~Hydration => shown[m[2]] = 0)
      BY <3>1 DEF CountInv
    <3>5. \A i \in Items : shown'[i] <= 2 /\ (~Hydration => shown'[i] <= 1)
      BY <3>1, <3>3, <3>4 DEF CountInv
    <3>6. \A n \in OnTheWay' : shown'[n[2]] <= 1 /\ (~Hydration => shown'[n[2]] = 0)
      BY <3>2, <3>3 DEF CountInv
    <3>7. \A i \in Items \ announced : shown'[i] <= 1 /\ (~Hydration => shown'[i] = 0)
      BY <3>1, <3>3 DEF CountInv
    <3> QED BY <1>b, <2>1, <3>5, <3>6, <3>7 DEF CountInv
  <2> QED BY <1>10, <2>2, <2>3 DEF Fetched
<1>11. ASSUME NEW k \in DOMAIN hydrate, AsksForRun(k) \/ Hydrates(k) PROVE CountInv'
  <2>1. Hydration => Hydration'
    BY <1>11 DEF AsksForRun, Hydrates, Hydration, Types
  <2> QED BY <1>11, <2>1, CountStays DEF AsksForRun, Hydrates, OnTheWay
<1>12. ASSUME NEW k \in DOMAIN hydrate, Hydrated(k) PROVE CountInv'
  <2>1. UNCHANGED <<announced, wire, fetching>>
    BY <1>12 DEF Hydrated
  <2>2. Hydration' /\ \A i \in Items : shown'[i] <= 1 /\ shown'[i] <= 2
    BY <1>12, Hydrating
  <2>3. OnTheWay' = OnTheWay
    BY <2>1 DEF OnTheWay
  <2>4. \A m \in OnTheWay' : shown'[m[2]] <= 1
    BY <1>0, <2>2, <2>3
  <2> QED BY <1>0, <2>1, <2>2, <2>3, <2>4 DEF CountInv
<1> QED BY <1>1, <1>2, <1>3, <1>4, <1>5, <1>6, <1>7, <1>8, <1>9, <1>10, <1>11, <1>12, Steps DEF Types

-----------------------------------------------------------------------------
(* -- nothing else lost ---------------------------------------------------- *)

(* Steps that lose nothing and forget nothing keep the books.              *)
LEMMA LossStays ==
  ASSUME LossInv, UNCHANGED <<announced, messages>>, missed \subseteq missed', missed' \subseteq announced,
         \A m \in OnTheWay : m \in OnTheWay' \/ m[2] \in missed'
  PROVE  LossInv'
BY DEF LossInv

(* Nothing has been announced, so nothing is lost, at first.               *)
LEMMA LossInit == Init => LossInv
BY DEF Init, Server!FeedInit, LossInv

(* Every step keeps each announced message shown, on its way or missed.    *)
LEMMA LossStep == Types /\ WayInv /\ LossInv /\ [Next]_vars => LossInv'
<1> SUFFICES ASSUME Types, WayInv, LossInv, [Next]_vars PROVE LossInv'
  OBVIOUS
<1>0. \A m \in OnTheWay : m = <<m[1], m[2]>> /\ m[1] \in Streams /\ m[2] \in Items
  BY DEF Types, OnTheWay
<1> missed \subseteq announced
  BY DEF LossInv
(* What was sent to a socket that is gone is missed.                       *)
<1>a. ASSUME NEW g, wire' = Unsent(g), missed' = missed \cup Lost(g), UNCHANGED <<announced, messages, fetching>>
      PROVE  LossInv'
  <2>1. \A m \in wire : m \in wire' \/ m[2] \in Lost(g)
    BY <1>a DEF Unsent, Lost
  <2>2. Lost(g) \subseteq announced
    BY DEF Lost, WayInv, OnTheWay
  <2> QED BY <1>a, <2>1, <2>2, LossStays DEF OnTheWay
<1>1. CASE UNCHANGED vars
  BY <1>1, LossStays DEF vars, feed, client, OnTheWay
<1>2. CASE Serves
  BY <1>2, LossStays DEF Serves, Server!SetRow, Server!Restart, Server!Write, client, OnTheWay
<1>3. ASSUME NEW i \in Items, Announces(i) PROVE LossInv'
  <2>1. announced' = announced \cup {i} /\ wire' = wire \cup (OpenSockets \X {i})
        /\ missed' = (IF OpenSockets = {} THEN missed \cup {i} ELSE missed)
        /\ UNCHANGED <<messages, fetching>>
    BY <1>3 DEF Announces, Server!Announce, Publish, SendMessage
  <2>2. i \in missed' \/ \E m \in OnTheWay' : m[2] = i
    <3>1. CASE OpenSockets = {}
      BY <2>1, <3>1
    <3>2. CASE OpenSockets # {}
      <4> PICK g \in OpenSockets : TRUE
        BY <3>2
      <4>1. <<g, i>> \in OnTheWay'
        BY <2>1 DEF OnTheWay
      <4> QED BY <4>1
    <3> QED BY <3>1, <3>2
  <2>3. OnTheWay \subseteq OnTheWay' /\ missed \subseteq missed' /\ missed' \subseteq announced'
    BY <2>1 DEF OnTheWay
  <2>4. \A a \in announced' : a \in arrived' \/ a \in missed' \/ \E m \in OnTheWay' : m[2] = a
    BY <2>1, <2>2, <2>3 DEF LossInv
  <2> QED BY <2>1, <2>3, <2>4 DEF LossInv
<1>4. CASE Enter
  BY <1>4, Entering, LossStays DEF feed, OnTheWay
<1>5. CASE Leave
  BY <1>5, <1>a DEF Leave, feed
<1>6. ASSUME NEW g \in Streams, Opens(g) \/ TimerFires(g)
      PROVE  LossInv'
  BY <1>6, LossStays DEF Opens, TimerFires, feed, OnTheWay
<1>7. ASSUME NEW g \in Streams, Errors(g) \/ Drops(g) PROVE LossInv'
  BY <1>7, <1>a, SocketFails DEF feed
<1>8. CASE PollTick \/ PollRead \/ PollAnswers
  BY <1>8, LossStays DEF PollTick, PollRead, PollAnswers, feed, OnTheWay
<1>9. ASSUME NEW m \in wire, Receives(m[1], m[2]) PROVE LossInv'
  <2>1. wire' = wire \ {m} /\ fetching' = fetching \cup {m} /\ UNCHANGED <<announced, messages, missed>>
    BY <1>0, <1>9 DEF Receives, feed, OnTheWay
  <2> QED BY <2>1, LossStays DEF OnTheWay
<1>10. ASSUME NEW m \in fetching, Fetched(m[1], m[2]) PROVE LossInv'
  <2>1. fetching' = fetching \ {m} /\ UNCHANGED <<announced, wire>>
    BY <1>0, <1>10 DEF Fetched, feed, OnTheWay
  <2>2. m[2] \in Items /\ m[2] \in announced
    BY <1>0 DEF OnTheWay, WayInv
  <2>3. CASE /\ Shows(m[2]) /\ arrived' = arrived \cup {m[2]}
             /\ UNCHANGED <<runItems, missed>>
    <3>1. \A n \in OnTheWay : n[2] = m[2] \/ n \in OnTheWay'
      BY <2>1 DEF OnTheWay
    <3>2. \A a \in announced : a \in arrived' \/ a \in missed \/ \E n \in OnTheWay' : n[2] = a
      BY <2>2, <2>3, <3>1 DEF LossInv
    <3>3. /\ shown'[m[2]] > 0
          /\ \A i \in Items \ {m[2]} : shown'[i] = shown[i] \/ (i \in tip /\ tip' # {})
          /\ tip # {} => tip' # {}
      BY <2>2, <2>3, Showing DEF Types
    <3>4. \A i \in arrived' \ missed : shown'[i] > 0 \/ (i \in runItems /\ tip' # {})
      BY <2>2, <2>3, <3>3 DEF LossInv, Types
    <3> QED BY <2>1, <2>2, <2>3, <3>2, <3>4 DEF LossInv
  <2>4. CASE missed' = missed \cup {m[2]} /\ UNCHANGED messages
    BY <2>1, <2>2, <2>4, LossStays DEF OnTheWay
  <2> QED BY <1>10, <2>3, <2>4 DEF Fetched
<1>11. ASSUME NEW k \in DOMAIN hydrate, AsksForRun(k) \/ Hydrates(k) PROVE LossInv'
  BY <1>11, LossStays DEF AsksForRun, Hydrates, OnTheWay
<1>12. ASSUME NEW k \in DOMAIN hydrate, Hydrated(k) PROVE LossInv'
  <2>1. UNCHANGED <<announced, wire, fetching, runItems, arrived>>
    BY <1>12 DEF Hydrated
  <2>2. missed' = missed \cup (arrived \ hydrate[k][2])
        /\ \A i \in hydrate[k][2] : shown'[i] > 0
    BY <1>12, Hydrating
  <2>3. \A i \in arrived' \ missed' : shown'[i] > 0
    BY <2>1, <2>2
  <2> QED BY <2>1, <2>2, <2>3 DEF LossInv, OnTheWay
<1> QED BY <1>1, <1>2, <1>3, <1>4, <1>5, <1>6, <1>7, <1>8, <1>9, <1>10, <1>11, <1>12, Steps DEF Types

-----------------------------------------------------------------------------
(* -- the theorems --------------------------------------------------------- *)

(***************************************************************************)
(* The invariant holds in every state of the tab's stream: the types, who  *)
(* listens, what is on its way, how often it was shown and what was lost.  *)
(***************************************************************************)
THEOREM Invariance == Spec => []IndInv
<1>1. Init => IndInv
  BY TypesInit, WatchInit, WayInit, CountInit, LossInit DEF IndInv
<1>2. IndInv /\ [Next]_vars => IndInv'
  BY TypesStep, WatchStep, WayStep, CountStep, LossStep DEF IndInv
<1> QED BY <1>1, <1>2, PTL DEF Spec

(* Every variable of the tab keeps its type, and nothing is in a chat more *)
(* than twice (client.ts, websocket.ts).                                   *)
THEOREM TypeCorrect == Spec => []TypeOK
<1>1. IndInv => TypeOK
  <2> SUFFICES ASSUME IndInv PROVE TypeOK
    OBVIOUS
  <2>1. shown \in [Items -> 0 .. 2]
    BY DEF IndInv, Types, CountInv
  <2> QED BY <2>1 DEF IndInv, Types, LossInv, TypeOK, Streams
<1> QED BY <1>1, Invariance, PTL

(* A tab listens with one socket at most, that of the stream it opened     *)
(* last, and with none when it left the run (client.ts cleanupConnection). *)
THEOREM ListensOnce == Spec => []OneListener
<1>1. IndInv => OneListener
  BY DEF IndInv, WatchInv
<1> QED BY <1>1, Invariance, PTL

(* While the user looks at a run, and however often it is resumed, the tab *)
(* is connected, about to be, or polls, unless the other side closed its   *)
(* connection cleanly or a poll found the run over (websocket.ts           *)
(* handleClose, client.ts onError, pollRun).                               *)
THEOREM HearsOrPolls == Spec => []NeverDeaf
<1>1. IndInv => NeverDeaf
  BY DEF IndInv, WatchInv
<1> QED BY <1>1, Invariance, PTL

(* Before a hydration no item is in the chat twice (useWebSocketEvents.ts  *)
(* adds what it fetched without a look at whether it is there).            *)
THEOREM NothingTwice == Spec => []ShownOnce
<1>1. IndInv => ShownOnce
  BY DEF IndInv, CountInv, ShownOnce
<1> QED BY <1>1, Invariance, PTL

(* What was announced has arrived when nothing is under way any more, and  *)
(* is shown or another status is in its place, unless it was missed for    *)
(* one of the reasons counted there (useWebSocketEvents.ts, Chat.tsx).     *)
THEOREM LossesHaveReasons == Spec => []NothingElseLost
<1>1. IndInv => NothingElseLost
  <2> SUFFICES ASSUME IndInv, AtRest, NEW i \in announced \ missed
               PROVE  /\ i \in arrived
                      /\ shown[i] > 0 \/ (i \in runItems /\ \E j \in runItems : shown[j] > 0)
    BY DEF NothingElseLost
  <2>1. i \in arrived
    BY DEF IndInv, LossInv, AtRest, OnTheWay
  <2>2. \A j \in tip : j \in runItems /\ shown[j] > 0
    BY DEF IndInv, Types
  <2> QED BY <2>1, <2>2 DEF IndInv, LossInv
<1> QED BY <1>1, Invariance, PTL
=============================================================================
