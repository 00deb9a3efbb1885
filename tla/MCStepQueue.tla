---------------------------- MODULE MCStepQueue ----------------------------
(***************************************************************************)
(* StepQueue for TLC.                                                      *)
(***************************************************************************)
EXTENDS StepQueue

(* The plans: a chat answer between two queued steps, or one queued step.  *)
MixedPlan == <<"email.send", "chat.respond", "slack.postMessage">>
OneStepPlan == <<"email.send">>

OneRun == {1}
ThreeSlots == 1..3
=============================================================================
