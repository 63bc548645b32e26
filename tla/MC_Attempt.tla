----------------------------- MODULE MC_Attempt -----------------------------
(***************************************************************************)
(* Small instances of Attempt for TLC: two questions with two options.     *)
(***************************************************************************)
EXTENDS Attempt, TLC

CONSTANTS q1, q2, A, B, r1, r2

KeyA == [q \in Question |-> A]

\* A tab that answered both questions, and one that cleared the first.
Sheets == {q1 :> A @@ q2 :> B, q1 :> Null @@ q2 :> A}
Diffs == {q1 :> B, q1 :> A @@ q2 :> Null}
\* One question, answered right by the submit; autosaved wrong, or cleared.
Sheets1 == {q1 :> A}
Diffs1 == {q1 :> B, q1 :> Null}

Symmetric == Permutations(Request)
=============================================================================
