-------------------------- MODULE CommissionLedger --------------------------
(***************************************************************************)
(* What Refer & Earn promises about commissions, without saying how: the   *)
(* commission of a payment is booked once, is on hold, then withdrawable,  *)
(* and may be taken back once from wherever it is; whenever it changes     *)
(* its stage exactly its amount moves between the columns of the wallet,   *)
(* and the only other movement is a withdrawal and its return.             *)
(* Module ReferralEarning is shown to implement this specification.        *)
(***************************************************************************)
EXTENDS Integers

CONSTANTS Student, Payment

VARIABLES stage,     \* "none", "PENDING", "AVAILABLE" or "REVERSED"
          owner,     \* whom the commission of a payment belongs to
          amount,    \* the amount of the commission of a payment
          pending, balance, total,   \* the wallet's columns
          drawn      \* what withdrawals took out of the balance and did not return

ledgerVars == <<stage, owner, amount, pending, balance, total, drawn>>

Zero == [s \in Student |-> 0]

Init == /\ stage = [p \in Payment |-> "none"]
        /\ pending = Zero /\ balance = Zero /\ total = Zero /\ drawn = Zero

Moves(p, column) == column' = [column EXCEPT ![owner[p]] = @ + amount[p]]
Takes(p, column) == column' = [column EXCEPT ![owner[p]] = @ - amount[p]]

Book(p) ==
  LET s == owner'[p]  a == amount'[p]  first == stage'[p]
  IN /\ stage[p] = "none"
     /\ s \in Student /\ a > 0 /\ first \in {"PENDING", "AVAILABLE"}
     /\ stage' = [stage EXCEPT ![p] = first]
     /\ owner' = [owner EXCEPT ![p] = s]
     /\ amount' = [amount EXCEPT ![p] = a]
     /\ total' = [total EXCEPT ![s] = @ + a]
     /\ pending' = IF first = "PENDING" THEN [pending EXCEPT ![s] = @ + a] ELSE pending
     /\ balance' = IF first = "PENDING" THEN balance ELSE [balance EXCEPT ![s] = @ + a]
     /\ UNCHANGED drawn

Release(p) == /\ stage[p] = "PENDING"
              /\ stage' = [stage EXCEPT ![p] = "AVAILABLE"]
              /\ Takes(p, pending) /\ Moves(p, balance)
              /\ UNCHANGED <<owner, amount, total, drawn>>

TakeBack(p) == /\ stage[p] \in {"PENDING", "AVAILABLE"}
               /\ stage' = [stage EXCEPT ![p] = "REVERSED"]
               /\ Takes(p, total)
               /\ \/ stage[p] = "PENDING" /\ Takes(p, pending) /\ UNCHANGED balance
                  \/ stage[p] = "AVAILABLE" /\ Takes(p, balance) /\ UNCHANGED pending
               /\ UNCHANGED <<owner, amount, drawn>>

\* A withdrawal takes out no more than there is, and returns no more than it took.
Draw(s) == LET a == drawn'[s] - drawn[s]
           IN /\ a <= 0 \/ a <= balance[s]
              /\ drawn'[s] >= 0
              /\ balance' = [balance EXCEPT ![s] = @ - a]
              /\ drawn' = [drawn EXCEPT ![s] = @ + a]
              /\ UNCHANGED <<stage, owner, amount, pending, total>>

Next == \/ \E p \in Payment : Book(p) \/ Release(p) \/ TakeBack(p)
        \/ \E s \in Student : Draw(s)

Spec == Init /\ [][Next]_ledgerVars
=============================================================================
