---------------------------- MODULE Announcements ----------------------------
(***************************************************************************)
(* What a browser may count on while the jobs of a run execute, one after  *)
(* the other: items are written once and announced once, in any order but  *)
(* never before they are written, and the item that closes a job is        *)
(* written when the run's row has that status already.  EventFeed          *)
(* implements it, RunStream builds on it.                                  *)
(***************************************************************************)
CONSTANTS
    Items,
    Finals,     \* the statuses a job may leave
    Closing     \* the items that close a job, each with its status: a function
VARIABLES row, items, announced

feed == <<row, items, announced>>

FeedInit == row = "running" /\ items = {} /\ announced = {}

SetRow(status) ==
    /\ row = "running" /\ row' = status
    /\ UNCHANGED <<items, announced>>

(* The run is resumed or retried. *)
Restart ==
    /\ row \in Finals /\ row' = "running"
    /\ UNCHANGED <<items, announced>>

Write(i) ==
    /\ i \notin items
    /\ i \in DOMAIN Closing => row = Closing[i]
    /\ items' = items \cup {i}
    /\ UNCHANGED <<row, announced>>

Announce(i) ==
    /\ i \in items \ announced
    /\ announced' = announced \cup {i}
    /\ UNCHANGED <<row, items>>

FeedSpec == FeedInit /\ [][\/ \E s \in Finals : SetRow(s)
                           \/ Restart
                           \/ \E i \in Items : Write(i) \/ Announce(i)]_feed
=============================================================================
