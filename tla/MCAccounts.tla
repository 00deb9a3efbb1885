------------------------------ MODULE MCAccounts ------------------------------
(* Instances of Accounts for TLC. *)
EXTENDS Accounts, TLC

CONSTANTS s1, s2, v1, e1, e2

MCSelectors == {s1, s2}
MCValidators == {v1}
MCEffects == {e1, e2}
MCEmails == {"ann", Unknown}
Symmetry == Permutations(MCSelectors) \cup Permutations(MCEffects)
=============================================================================
