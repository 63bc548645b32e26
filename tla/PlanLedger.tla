----------------------------- MODULE PlanLedger -----------------------------
(***************************************************************************)
(* What buying a plan promises, without saying how, whoever fulfils an     *)
(* order and however grants overlap or fail: a period is granted once,     *)
(* only for money that Cashfree has (or for nothing to pay, or as a gift), *)
(* in one step with the payment's SUCCESS; it lasts at least its own       *)
(* months from today, and starts today or where an earlier period ends;    *)
(* its end is never moved; its row is closed only when it has lapsed or    *)
(* for a new grant, and never opened again; and the referral service hears *)
(* of a payment at most once, after its success.                           *)
(* Module Purchase is shown to implement this specification.  An admin who *)
(* cancels a plan, or grants and extends in bulk past the helper, promises *)
(* none of this and is left out of both.                                   *)
(***************************************************************************)
EXTENDS Naturals

CONSTANTS Payment, Free, Gift,  \* what a period is granted for
          Months                \* its length

VARIABLES paid,       \* the orders Cashfree has the money for
          fulfilled,  \* the payments that are SUCCESS
          told,       \* how often the referral service was told of a payment
          status,     \* "none", "ACTIVE" or "EXPIRED": the row of a period
          ends,       \* its last day
          now

planVars == <<paid, fulfilled, told, status, ends, now>>

Grant == Payment \cup Gift

Init == /\ paid = {}
        /\ fulfilled = {}
        /\ told = [p \in Payment |-> 0]
        /\ status = [g \in Grant |-> "none"]
        /\ ends = [g \in Grant |-> 0]
        /\ now = 0

Collect(p) == /\ paid' = paid \cup {p}
              /\ UNCHANGED <<fulfilled, told, status, ends, now>>

Closed(rows) ==
  [g \in Grant |-> IF g \in rows /\ status[g] = "ACTIVE" THEN "EXPIRED" ELSE status[g]]

\* Where a new period may start.
Start == {b \in {now} \cup {ends[g] : g \in Grant} : b >= now}

Fulfil(g) ==
  /\ status[g] = "none"
  /\ g \in Payment => g \in paid \cup Free
  /\ fulfilled' = fulfilled \cup ({g} \cap Payment)
  /\ \E b \in Start : ends' = [ends EXCEPT ![g] = b + Months[g]]
  /\ \E rows \in SUBSET Grant : status' = [Closed(rows) EXCEPT ![g] = "ACTIVE"]
  /\ UNCHANGED <<paid, told, now>>

Lapse == /\ \E rows \in SUBSET {g \in Grant : ends[g] <= now} : status' = Closed(rows)
         /\ UNCHANGED <<paid, fulfilled, told, ends, now>>

\* A gift closes the rows before it, and may die before it adds its own.
MakeRoom(g) == /\ status[g] = "none"
               /\ \E rows \in SUBSET Grant : status' = Closed(rows)
               /\ UNCHANGED <<paid, fulfilled, told, ends, now>>

Tell(p) == /\ p \in fulfilled \ Free
           /\ told[p] = 0
           /\ told' = [told EXCEPT ![p] = 1]
           /\ UNCHANGED <<paid, fulfilled, status, ends, now>>

MonthEnds == now' = now + 1 /\ UNCHANGED <<paid, fulfilled, told, status, ends>>

Next == \/ Lapse
        \/ \E p \in Payment : Collect(p) \/ Tell(p)
        \/ \E g \in Grant : Fulfil(g)
        \/ \E g \in Gift : MakeRoom(g)
        \/ MonthEnds

Spec == Init /\ [][Next]_planVars
=============================================================================
