------------------------ MODULE MC_DuplicateReview ------------------------
(***************************************************************************)
(* A small instance of DuplicateReview: an empty bank and two sheets.      *)
(***************************************************************************)
EXTENDS DuplicateReview, TLC

CONSTANTS u1, u2

TwoSheets == Bank :> <<>> @@ u1 :> <<"A", "B">> @@ u2 :> <<"B">>

Symmetry == Permutations(Worker)
=============================================================================
