----------------------------- MODULE MC_Session -----------------------------
(***************************************************************************)
(* A small instance of Session: a browser with two tabs and a second       *)
(* device.                                                                 *)
(***************************************************************************)
EXTENDS Session, TLC

CONSTANTS t1, t2, t3, d1, d2

TwoDevices == t1 :> d1 @@ t2 :> d1 @@ t3 :> d2

Symmetry == Permutations(Handler) \cup Permutations({t1, t2})
=============================================================================
