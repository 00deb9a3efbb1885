---------------------------- MODULE MCEventFeed ----------------------------
(* EventFeed for TLC: every way a job may end. *)
EXTENDS EventFeed

AllEndings == Outcomes
=============================================================================
