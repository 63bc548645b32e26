---------------------------- MODULE PayoutLedger ----------------------------
(***************************************************************************)
(* What Refer & Earn promises about a withdrawal, without saying how: the  *)
(* amount leaves the wallet when the request is opened, and then exactly   *)
(* one of two things happens to it, once - it is paid out or it comes      *)
(* back.  A student has at most one open request.                          *)
(* Module Withdrawal is shown to implement this specification.             *)
(***************************************************************************)
EXTENDS Naturals

CONSTANTS Student, Wd, Owner, Amount, Credit

VARIABLES balance,    \* withdrawable money of each student
          paidOut,    \* lifetime amount paid out to each student
          request     \* "none", "open", "paid" or "returned"

ledgerVars == <<balance, paidOut, request>>

Init == /\ balance = Credit
        /\ paidOut = [s \in Student |-> 0]
        /\ request = [w \in Wd |-> "none"]

Open(w) == /\ request[w] = "none"
           /\ \A v \in Wd : Owner[v] = Owner[w] => request[v] # "open"
           /\ Amount[w] <= balance[Owner[w]]
           /\ request' = [request EXCEPT ![w] = "open"]
           /\ balance' = [balance EXCEPT ![Owner[w]] = @ - Amount[w]]
           /\ UNCHANGED paidOut

Pay(w) == /\ request[w] = "open"
          /\ request' = [request EXCEPT ![w] = "paid"]
          /\ paidOut' = [paidOut EXCEPT ![Owner[w]] = @ + Amount[w]]
          /\ UNCHANGED balance

Return(w) == /\ request[w] = "open"
             /\ request' = [request EXCEPT ![w] = "returned"]
             /\ balance' = [balance EXCEPT ![Owner[w]] = @ + Amount[w]]
             /\ UNCHANGED paidOut

Next == \E w \in Wd : Open(w) \/ Pay(w) \/ Return(w)

Spec == Init /\ [][Next]_ledgerVars
=============================================================================
