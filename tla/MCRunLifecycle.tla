--------------------------- MODULE MCRunLifecycle ---------------------------
(***************************************************************************)
(* RunLifecycle for TLC.  Job slots and requests are interchangeable.      *)
(***************************************************************************)
EXTENDS RunLifecycle, TLC

Symmetry == Permutations(Jobs) \cup Permutations(Requests)

LastStep == {NSteps}
EveryStep == 1..NSteps
OnePlan == {1}
TwoPlans == {1, 2}
NoLimit == Unlimited
=============================================================================
