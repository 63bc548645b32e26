--------------------------- MODULE AttemptOutcome ---------------------------
(***************************************************************************)
(* What the test engine promises about one timed attempt, without saying   *)
(* how: it runs until one submit - the student's or the sweeper's - wins   *)
(* it with a result.  A winner that cannot write its rows gives the        *)
(* attempt back; a winner that dies leaves it finished.  A finished        *)
(* attempt keeps its result for ever, and XP, weak topics and the result   *)
(* message follow from it at most once.                                    *)
(* Module Attempt is shown to implement this specification.                *)
(***************************************************************************)
EXTENDS Naturals

CONSTANTS Result,  \* the results an attempt can have
          None     \* no result

VARIABLES stage,    \* "running", "won" or "final"
          how,      \* "SUBMITTED" or "AUTO_SUBMITTED" once won
          result,   \* the stored result
          settled,  \* how often the effects of a finished attempt were started
          xp        \* how often XP was awarded

outcomeVars == <<stage, how, result, settled, xp>>

Init == /\ stage = "running"
        /\ how = None
        /\ result = None
        /\ settled = 0
        /\ xp = 0

Win(m, r) == /\ stage = "running"
             /\ stage' = "won"
             /\ how' = m
             /\ result' = r
             /\ UNCHANGED <<settled, xp>>

GiveBack == /\ stage = "won"
            /\ stage' = "running"
            /\ how' = None
            /\ result' = None
            /\ UNCHANGED <<settled, xp>>

\* Only a student who pressed Submit earns XP.
Settle == /\ stage = "won"
          /\ stage' = "final"
          /\ settled' = settled + 1
          /\ xp' = IF how = "SUBMITTED" THEN xp + 1 ELSE xp
          /\ UNCHANGED <<how, result>>

Die == /\ stage = "won"
       /\ stage' = "final"
       /\ UNCHANGED <<how, result, settled, xp>>

Next == \/ \E m \in {"SUBMITTED", "AUTO_SUBMITTED"}, r \in Result : Win(m, r)
        \/ GiveBack
        \/ Settle
        \/ Die

Spec == Init /\ [][Next]_outcomeVars

\* The effects of a finished attempt happen at most once, and only then.
OnceOnly == /\ settled \in {0, 1}
            /\ xp \in {0, settled}
            /\ stage # "final" => settled = 0
            /\ how # "SUBMITTED" => xp = 0

FinalIsFinal == [][stage = "final" => UNCHANGED outcomeVars]_outcomeVars
=============================================================================
