---------------------------- MODULE MCRunStream ----------------------------
(* RunStream for TLC: a status on the way, with or without steps to        *)
(* approve, and one that closes a job.                                     *)
EXTENDS RunStream

MCItems == {"ask", "done"}
MCFinals == {"done"}
MCClosing == [i \in {"done"} |-> i]
=============================================================================
