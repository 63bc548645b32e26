------------------------- MODULE MC_ReferralEarning -------------------------
(***************************************************************************)
(* A small instance of ReferralEarning: a friend who may enter one         *)
(* student's code, two payments, two handlers.                             *)
(***************************************************************************)
EXTENDS ReferralEarning, TLC

CONSTANTS r1, f1, p1, p2

Commissions == [p \in Payment |-> [tier \in {"low", "high"} |-> 1]]
OneFriend == {<<f1, r1>>}

Symmetry == Permutations(Handler)
=============================================================================
