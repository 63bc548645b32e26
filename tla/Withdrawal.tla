----------------------------- MODULE Withdrawal -----------------------------
(***************************************************************************)
(* Refer & Earn withdrawals: backend/src/referral/withdrawal.service.ts,   *)
(* payout.service.ts, withdrawal.util.ts and the student's half in         *)
(* referral.service.ts (requestWithdrawal, cancelWithdrawal).              *)
(*                                                                         *)
(* A database transaction is one step.  Everything a handler reads before  *)
(* its transaction, and every call to Cashfree, is a step of its own, so   *)
(* two admins, the status job, the student and Cashfree interleave exactly *)
(* where the code lets them.  A handler that dies, or whose HTTP call      *)
(* times out, simply stops (GiveUp); its request may still be on the wire. *)
(***************************************************************************)
EXTENDS Naturals, FiniteSets

CONSTANTS
  Student,    \* students with a referral wallet
  Wd,         \* ids of withdrawal requests (a fresh id per request)
  Owner,      \* the student a request id will belong to
  Amount,     \* the rounded amount of the request, in rupees
  Credit,     \* commission already released into each wallet
  Ref,        \* UTR numbers an admin can type
  Admin,      \* requests of admins, each served by its own handler
  Poller,     \* server processes that run the status job (empty: WITHDRAWAL_POLL=off)
  MaxSend,    \* bound: how often one withdrawal is handed to Cashfree
  None,       \* no value
  GatewayRef  \* the UTR that Cashfree reports

ASSUME WithdrawalAssumption ==
  /\ Owner \in [Wd -> Student]
  /\ Amount \in [Wd -> Nat \ {0}]
  /\ Credit \in [Student -> Nat]
  /\ MaxSend \in Nat
  /\ None \notin Wd \cup Ref
  /\ GatewayRef \notin Ref \cup {None}

VARIABLES
  status,      \* withdrawal_requests.status, "NONE" before the row exists
  paymentRef,  \* withdrawal_requests.paymentRef
  balance,     \* referral_wallets.balanceInr
  withdrawn,   \* referral_wallets.totalWithdrawnInr
  frozen,      \* the student, or the wallet, is suspended
  sends,       \* number of APPROVED -> PROCESSING claims; identifies processedAt
  aged,        \* the claims up to this one are at least NEVER_REACHED_AFTER_MS old
  handler,     \* what each handler has read and where it stands
  wire,        \* create-transfer requests that may still reach Cashfree
  transfer     \* Cashfree's own record of the transfer id of each withdrawal

rowVars == <<status, paymentRef>>
walletVars == <<balance, withdrawn, frozen>>
clockVars == <<sends, aged>>
gatewayVars == <<wire, transfer>>
vars == <<status, paymentRef, balance, withdrawn, frozen, sends, aged, handler, wire, transfer>>

Worker == Admin \cup Poller

Status == {"NONE", "REQUESTED", "APPROVED", "PROCESSING", "PAID", "REJECTED", "FAILED"}
OpenStatus == {"REQUESTED", "APPROVED", "PROCESSING"}
ReturnedStatus == {"REJECTED", "FAILED"}

\* ALLOWED in withdrawal.util.ts
CanMove(from, to) ==
  to \in CASE from = "REQUESTED"  -> {"APPROVED", "REJECTED"}
           [] from = "APPROVED"   -> {"PROCESSING", "PAID", "REJECTED"}
           [] from = "PROCESSING" -> {"PAID", "FAILED", "APPROVED"}
           [] OTHER               -> {}

\* Cashfree's view of a transfer id; every status that mapGatewayStatus sends
\* to WAIT is "pending".
TransferState == {"none", "pending", "success", "failed"}

PayStep == {"payLookup", "payCreate", "payAnswer"}
Step == PayStep \cup {"idle", "approve", "markPaid", "reject", "markFailed", "payClaim",
                      "refused", "check", "notFound", "apply", "poll"}

Idle == [pc |-> "idle", wd |-> None, send |-> 0, seen |-> "none", ref |-> None, todo |-> {}]

HandlerType == [pc : Step, wd : Wd \cup {None}, send : 0..MaxSend, seen : TransferState,
                ref : Ref \cup {None}, todo : SUBSET (Wd \X (0..MaxSend))]

\* A handler that works on a request knows which one.
BusyHandlers ==
  \A p \in Worker : /\ handler[p].pc \notin {"idle", "poll"} => handler[p].wd \in Wd
                    /\ handler[p].pc = "markPaid" => handler[p].ref \in Ref

TypeOK == /\ status \in [Wd -> Status]
          /\ paymentRef \in [Wd -> Ref \cup {None, GatewayRef}]
          /\ balance \in [Student -> Nat]
          /\ withdrawn \in [Student -> Nat]
          /\ frozen \in [Student -> BOOLEAN]
          /\ sends \in [Wd -> 0..MaxSend]
          /\ aged \in [Wd -> 0..MaxSend]
          /\ handler \in [Worker -> HandlerType]
          /\ BusyHandlers
          /\ wire \in SUBSET (Wd \X (0..MaxSend))
          /\ transfer \in [Wd -> TransferState]

Init == /\ status = [w \in Wd |-> "NONE"]
        /\ paymentRef = [w \in Wd |-> None]
        /\ balance = Credit
        /\ withdrawn = [s \in Student |-> 0]
        /\ frozen = [s \in Student |-> FALSE]
        /\ sends = [w \in Wd |-> 0]
        /\ aged = [w \in Wd |-> 0]
        /\ handler = [p \in Worker |-> Idle]
        /\ wire = {}
        /\ transfer = [w \in Wd |-> "none"]

-----------------------------------------------------------------------------
(* Handlers.  An admin call begins on an idle handler; when it ends, the   *)
(* status job goes on with the rest of its list and an admin is idle.      *)

Begin(p, step, w) == /\ handler[p].pc = "idle"
                     /\ handler' = [handler EXCEPT ![p] = [Idle EXCEPT !.pc = step, !.wd = w]]

At(p, step) == handler[p].pc = step

GoTo(p, step) == handler' = [handler EXCEPT ![p].pc = step]

End(p) == handler' = [handler EXCEPT ![p] =
                        [Idle EXCEPT !.pc = IF handler[p].todo = {} THEN "idle" ELSE "poll",
                                     !.todo = handler[p].todo]]

\* Mutant: the amount is deducted when it is paid, as well as when it is requested.
Mut_FinishPaidDeducts(w, from, r) ==
  \/ /\ status[w] \in from
     /\ status' = [status EXCEPT ![w] = "PAID"]
     /\ paymentRef' = [paymentRef EXCEPT ![w] = r]
     /\ withdrawn' = [withdrawn EXCEPT ![Owner[w]] = @ + Amount[w]]
     /\ balance' = [balance EXCEPT ![Owner[w]] = @ - Amount[w]]
  \/ /\ status[w] \notin from
     /\ UNCHANGED <<status, paymentRef, withdrawn, balance>>

\* finishPaid: the status claim and the wallet counter, both or neither.
FinishPaid(w, from, r) ==
  \/ /\ status[w] \in from
     /\ status' = [status EXCEPT ![w] = "PAID"]
     /\ paymentRef' = [paymentRef EXCEPT ![w] = r]
     /\ withdrawn' = [withdrawn EXCEPT ![Owner[w]] = @ + Amount[w]]
     /\ UNCHANGED balance
  \/ /\ status[w] \notin from
     /\ UNCHANGED <<status, paymentRef, withdrawn, balance>>

\* Mutant: a refund without the conditional claim.
Mut_FinishRefund(w, from, to) ==
  /\ status' = [status EXCEPT ![w] = to]
  /\ balance' = [balance EXCEPT ![Owner[w]] = @ + Amount[w]]
  /\ UNCHANGED <<paymentRef, withdrawn>>

\* finishRefund: the status claim and the money back, both or neither.
FinishRefund(w, from, to) ==
  \/ /\ status[w] \in from
     /\ status' = [status EXCEPT ![w] = to]
     /\ balance' = [balance EXCEPT ![Owner[w]] = @ + Amount[w]]
     /\ UNCHANGED <<paymentRef, withdrawn>>
  \/ /\ status[w] \notin from
     /\ UNCHANGED <<status, paymentRef, withdrawn, balance>>

\* A conditional update of the status alone.
ClaimStatus(w, from, to) ==
  \/ status[w] = from /\ status' = [status EXCEPT ![w] = to]
  \/ status[w] # from /\ UNCHANGED status

-----------------------------------------------------------------------------
(* The student *)

\* Mutant: no row lock, so the open request of another tab is not seen.
Mut_RequestWithdrawal(w) ==
  LET s == Owner[w] IN
  /\ status[w] = "NONE"
  /\ ~frozen[s]
  /\ Amount[w] <= balance[s]
  /\ balance' = [balance EXCEPT ![s] = @ - Amount[w]]
  /\ status' = [status EXCEPT ![w] = "REQUESTED"]
  /\ UNCHANGED <<paymentRef, withdrawn, frozen, clockVars, handler, gatewayVars>>

\* requestWithdrawal: the wallet row is locked, so count, decrement and insert
\* are one step; the suspension is checked again by the decrement.
RequestWithdrawal(w) ==
  LET s == Owner[w] IN
  /\ status[w] = "NONE"
  /\ \A v \in Wd : Owner[v] = s => status[v] \notin OpenStatus
  /\ ~frozen[s]
  /\ Amount[w] <= balance[s]
  /\ balance' = [balance EXCEPT ![s] = @ - Amount[w]]
  /\ status' = [status EXCEPT ![w] = "REQUESTED"]
  /\ UNCHANGED <<paymentRef, withdrawn, frozen, clockVars, handler, gatewayVars>>

CancelWithdrawal(w) ==
  /\ status[w] = "REQUESTED"
  /\ FinishRefund(w, {"REQUESTED"}, "REJECTED")
  /\ UNCHANGED <<frozen, clockVars, handler, gatewayVars>>

-----------------------------------------------------------------------------
(* Admin calls.  The first step is what the handler reads (mustFind,       *)
(* canMove, assertNotFrozen, the duplicate-UTR query); the second is the   *)
(* conditional update, which may find that the row has moved on.           *)

ApproveRead(a, w) ==
  /\ CanMove(status[w], "APPROVED")
  /\ ~frozen[Owner[w]]
  /\ Begin(a, "approve", w)
  /\ UNCHANGED <<rowVars, walletVars, clockVars, gatewayVars>>

ApproveClaim(a) ==
  /\ At(a, "approve")
  /\ ClaimStatus(handler[a].wd, "REQUESTED", "APPROVED")
  /\ End(a)
  /\ UNCHANGED <<paymentRef, walletVars, clockVars, gatewayVars>>

\* Mutant: other withdrawals are not looked at.
Mut_MarkPaidRead(a, w, r) ==
  /\ CanMove(status[w], "PAID")
  /\ At(a, "idle")
  /\ handler' = [handler EXCEPT ![a] = [Idle EXCEPT !.pc = "markPaid", !.wd = w, !.ref = r]]
  /\ UNCHANGED <<rowVars, walletVars, clockVars, gatewayVars>>

MarkPaidRead(a, w, r) ==
  /\ CanMove(status[w], "PAID")
  /\ \A v \in Wd \ {w} : paymentRef[v] # r
  /\ At(a, "idle")
  /\ handler' = [handler EXCEPT ![a] = [Idle EXCEPT !.pc = "markPaid", !.wd = w, !.ref = r]]
  /\ UNCHANGED <<rowVars, walletVars, clockVars, gatewayVars>>

\* Mutant: the UTR may be recorded whatever the request has become.
Mut_MarkPaidClaim(a) ==
  /\ At(a, "markPaid")
  /\ FinishPaid(handler[a].wd, Status, handler[a].ref)
  /\ End(a)
  /\ UNCHANGED <<frozen, clockVars, gatewayVars>>

MarkPaidClaim(a) ==
  /\ At(a, "markPaid")
  /\ FinishPaid(handler[a].wd, {"APPROVED", "PROCESSING"}, handler[a].ref)
  /\ End(a)
  /\ UNCHANGED <<frozen, clockVars, gatewayVars>>

RejectRead(a, w) ==
  /\ CanMove(status[w], "REJECTED")
  /\ Begin(a, "reject", w)
  /\ UNCHANGED <<rowVars, walletVars, clockVars, gatewayVars>>

RejectClaim(a) ==
  /\ At(a, "reject")
  /\ FinishRefund(handler[a].wd, {"REQUESTED", "APPROVED"}, "REJECTED")
  /\ End(a)
  /\ UNCHANGED <<frozen, clockVars, gatewayVars>>

\* markFailed is for an admin who "saw in the Cashfree dashboard that it failed":
\* the code checks the status alone, that the transfer failed is the admin's word.
MarkFailedRead(a, w) ==
  /\ status[w] = "PROCESSING"
  /\ transfer[w] = "failed"
  /\ Begin(a, "markFailed", w)
  /\ UNCHANGED <<rowVars, walletVars, clockVars, gatewayVars>>

MarkFailedClaim(a) ==
  /\ At(a, "markFailed")
  /\ FinishRefund(handler[a].wd, {"PROCESSING"}, "FAILED")
  /\ End(a)
  /\ UNCHANGED <<frozen, clockVars, gatewayVars>>

-----------------------------------------------------------------------------
(* pay: hand a sanctioned withdrawal to Cashfree.  After the claim the     *)
(* handler asks Cashfree for the transfer id, creates the beneficiary and  *)
(* then the transfer, with no further look at the row.                     *)

PayRead(a, w) ==
  /\ CanMove(status[w], "PROCESSING")
  /\ ~frozen[Owner[w]]
  /\ sends[w] < MaxSend
  /\ Begin(a, "payClaim", w)
  /\ UNCHANGED <<rowVars, walletVars, clockVars, gatewayVars>>

PayClaim(a) ==
  LET w == handler[a].wd IN
  /\ At(a, "payClaim")
  /\ \/ /\ status[w] = "APPROVED"
        /\ sends[w] < MaxSend
        /\ status' = [status EXCEPT ![w] = "PROCESSING"]
        /\ sends' = [sends EXCEPT ![w] = @ + 1]
        /\ handler' = [handler EXCEPT ![a].pc = "payLookup", ![a].send = sends[w] + 1]
     \/ /\ status[w] # "APPROVED"
        /\ End(a)
        /\ UNCHANGED <<status, sends>>
  /\ UNCHANGED <<paymentRef, walletVars, aged, gatewayVars>>

\* submitTransfer first asks for the transfer id; a clear 4xx ends in a refund.
PayLookup(a) ==
  /\ At(a, "payLookup")
  /\ \/ /\ transfer[handler[a].wd] # "none"
        /\ handler' = [handler EXCEPT ![a].pc = "apply", ![a].seen = transfer[handler[a].wd]]
     \/ /\ transfer[handler[a].wd] = "none"
        /\ GoTo(a, "payCreate")
     \/ GoTo(a, "refused")
  /\ UNCHANGED <<rowVars, walletVars, clockVars, gatewayVars>>

\* ensureBeneficiary is refused, or accepted and the create request leaves.
PayCreate(a) ==
  /\ At(a, "payCreate")
  /\ \/ /\ GoTo(a, "refused")
        /\ UNCHANGED wire
     \/ /\ GoTo(a, "payAnswer")
        /\ wire' = wire \cup {<<handler[a].wd, handler[a].send>>}
  /\ UNCHANGED <<rowVars, walletVars, clockVars, transfer>>

\* The catch branch of pay for a definite refusal: nothing was sent, refund.
PayRefused(a) ==
  /\ At(a, "refused")
  /\ FinishRefund(handler[a].wd, {"PROCESSING"}, "FAILED")
  /\ End(a)
  /\ UNCHANGED <<frozen, clockVars, gatewayVars>>

-----------------------------------------------------------------------------
(* Status checks: an admin's "Check status" and the five-minute job share  *)
(* syncOne.  Both carry the processedAt they read before asking Cashfree.  *)

CheckStatus(a, w) ==
  /\ status[w] = "PROCESSING"
  /\ At(a, "idle")
  /\ handler' = [handler EXCEPT ![a] = [Idle EXCEPT !.pc = "check", !.wd = w, !.send = sends[w]]]
  /\ UNCHANGED <<rowVars, walletVars, clockVars, gatewayVars>>

\* tick reads the whole list first and then walks it.
Tick(p) ==
  /\ At(p, "idle")
  /\ \E w \in Wd : status[w] = "PROCESSING"
  /\ handler' = [handler EXCEPT ![p] = [Idle EXCEPT !.pc = "poll",
                    !.todo = {<<w, sends[w]>> : w \in {v \in Wd : status[v] = "PROCESSING"}}]]
  /\ UNCHANGED <<rowVars, walletVars, clockVars, gatewayVars>>

TickNext(p) ==
  /\ At(p, "poll")
  /\ \E e \in handler[p].todo :
       handler' = [handler EXCEPT ![p].pc = "check", ![p].wd = e[1], ![p].send = e[2],
                                  ![p].todo = @ \ {e}]
  /\ UNCHANGED <<rowVars, walletVars, clockVars, gatewayVars>>

\* Mutant: the age test never holds for the latest send.
Mut_Lookup(p) ==
  LET w == handler[p].wd IN
  /\ At(p, "check")
  /\ \/ /\ transfer[w] # "none"
        /\ handler' = [handler EXCEPT ![p].pc = "apply", ![p].seen = transfer[w]]
     \/ /\ transfer[w] = "none"
        /\ handler[p].send < aged[w]
        /\ GoTo(p, "notFound")
     \/ /\ transfer[w] = "none"
        /\ handler[p].send >= aged[w]
        /\ End(p)
  /\ UNCHANGED <<rowVars, walletVars, clockVars, gatewayVars>>

\* The answer of getTransfer: a snapshot, or no such transfer.  In the second
\* case the age is that of the processedAt that was read: too early to tell, or
\* "it never arrived".
Lookup(p) ==
  LET w == handler[p].wd IN
  /\ At(p, "check")
  /\ \/ /\ transfer[w] # "none"
        /\ handler' = [handler EXCEPT ![p].pc = "apply", ![p].seen = transfer[w]]
     \/ /\ transfer[w] = "none"
        /\ handler[p].send <= aged[w]
        /\ GoTo(p, "notFound")
     \/ /\ transfer[w] = "none"
        /\ handler[p].send > aged[w]
        /\ End(p)
  /\ UNCHANGED <<rowVars, walletVars, clockVars, gatewayVars>>

\* The row goes back to the admin, to be sent again.
NotFound(p) ==
  /\ At(p, "notFound")
  /\ ClaimStatus(handler[p].wd, "PROCESSING", "APPROVED")
  /\ End(p)
  /\ UNCHANGED <<paymentRef, walletVars, clockVars, gatewayVars>>

\* applySnapshot: PAID, FAILED or still waiting.
ApplySnapshot(p) ==
  LET w == handler[p].wd IN
  /\ At(p, "apply")
  /\ CASE handler[p].seen = "success" -> FinishPaid(w, {"PROCESSING"}, GatewayRef)
       [] handler[p].seen = "failed"  -> FinishRefund(w, {"PROCESSING"}, "FAILED")
       [] OTHER -> UNCHANGED <<rowVars, balance, withdrawn>>
  /\ End(p)
  /\ UNCHANGED <<frozen, clockVars, gatewayVars>>

\* Mutant: no answer is taken for a refusal.
Mut_GiveUp(p) ==
  /\ At(p, "payAnswer")
  /\ FinishRefund(handler[p].wd, {"PROCESSING"}, "FAILED")
  /\ End(p)
  /\ UNCHANGED <<frozen, clockVars, gatewayVars>>

\* No answer within REQUEST_TIMEOUT_MS, a 5xx, or the process died: the handler
\* writes nothing more.  An admin's list is empty; the job goes on with its own.
GiveUp(p) ==
  /\ handler[p].pc \notin {"idle", "poll"}
  /\ End(p)
  /\ UNCHANGED <<rowVars, walletVars, clockVars, gatewayVars>>

\* The server restarts: the job forgets the rest of its list.
Crash(p) ==
  /\ handler[p].todo # {}
  /\ handler' = [handler EXCEPT ![p] = Idle]
  /\ UNCHANGED <<rowVars, walletVars, clockVars, gatewayVars>>

-----------------------------------------------------------------------------
(* Cashfree, the network, the clock and the moderation of students *)

\* A create request arrives.  A known transfer id creates nothing (409 or
\* DUPLICATE_TRANSFER: no clear answer); a refused one is a clear 4xx.
GatewayCreate(m) ==
  LET waiting == {a \in Admin : At(a, "payAnswer") /\ <<handler[a].wd, handler[a].send>> = m} IN
  /\ m \in wire
  /\ wire' = wire \ {m}
  /\ \/ /\ transfer[m[1]] = "none"
        /\ \E t \in {"pending", "success", "failed"} :
             /\ transfer' = [transfer EXCEPT ![m[1]] = t]
             /\ handler' = [p \in Worker |-> IF p \in waiting
                              THEN [handler[p] EXCEPT !.pc = "apply", !.seen = t]
                              ELSE handler[p]]
     \/ /\ transfer[m[1]] = "none"
        /\ handler' = [p \in Worker |-> IF p \in waiting
                         THEN [handler[p] EXCEPT !.pc = "refused"]
                         ELSE handler[p]]
        /\ UNCHANGED transfer
     \/ /\ transfer[m[1]] # "none"
        /\ UNCHANGED <<transfer, handler>>
  /\ UNCHANGED <<rowVars, walletVars, clockVars>>

\* The request never arrives.
WireLoss(m) ==
  /\ m \in wire
  /\ wire' = wire \ {m}
  /\ UNCHANGED <<rowVars, walletVars, clockVars, handler, transfer>>

GatewaySettle(w) ==
  /\ transfer[w] = "pending"
  /\ \E t \in {"success", "failed"} : transfer' = [transfer EXCEPT ![w] = t]
  /\ UNCHANGED <<rowVars, walletVars, clockVars, handler, wire>>

\* NEVER_REACHED_AFTER_MS passes.  Long before that the three calls of the
\* claim, of at most REQUEST_TIMEOUT_MS each, and the journey of its create
\* request are over.
Age(w) ==
  /\ aged[w] < sends[w]
  /\ \A a \in Admin : ~(handler[a].pc \in PayStep /\ handler[a].wd = w /\ handler[a].send = aged[w] + 1)
  /\ <<w, aged[w] + 1>> \notin wire
  /\ aged' = [aged EXCEPT ![w] = @ + 1]
  /\ UNCHANGED <<rowVars, walletVars, sends, handler, gatewayVars>>

\* An admin suspends or restores the student or the referral wallet.
SetFrozen(s) ==
  /\ frozen' = [frozen EXCEPT ![s] = ~@]
  /\ UNCHANGED <<rowVars, balance, withdrawn, clockVars, handler, gatewayVars>>

-----------------------------------------------------------------------------
StudentStep == \E w \in Wd : RequestWithdrawal(w) \/ CancelWithdrawal(w)

AdminStep ==
  \E a \in Admin :
    \/ \E w \in Wd : \/ ApproveRead(a, w)
                     \/ RejectRead(a, w)
                     \/ MarkFailedRead(a, w)
                     \/ PayRead(a, w)
                     \/ CheckStatus(a, w)
                     \/ \E r \in Ref : MarkPaidRead(a, w, r)
    \/ ApproveClaim(a) \/ RejectClaim(a) \/ MarkFailedClaim(a) \/ MarkPaidClaim(a)
    \/ PayClaim(a) \/ PayLookup(a) \/ PayCreate(a) \/ PayRefused(a)

PollerStep == \E p \in Poller : Tick(p) \/ TickNext(p) \/ Crash(p)

SyncStep == \E p \in Worker : Lookup(p) \/ NotFound(p) \/ ApplySnapshot(p) \/ GiveUp(p)

GatewayStep == \/ \E m \in wire : GatewayCreate(m) \/ WireLoss(m)
               \/ \E w \in Wd : GatewaySettle(w) \/ Age(w)

Moderation == \E s \in Student : SetFrozen(s)

Next == StudentStep \/ AdminStep \/ PollerStep \/ SyncStep \/ GatewayStep \/ Moderation

Spec == Init /\ [][Next]_vars

\* The job is a timer: it runs, walks its list (the server does not restart
\* every time) and, sooner or later, Cashfree answers it.  Cashfree settles what
\* it accepted, the network delivers or loses, and time passes.  Nothing is
\* assumed of admins or students.
Fairness ==
  /\ \A p \in Poller : /\ WF_vars(Tick(p)) /\ SF_vars(TickNext(p))
                       /\ SF_vars(Lookup(p)) /\ SF_vars(NotFound(p)) /\ SF_vars(ApplySnapshot(p))
  /\ \A a \in Admin : WF_vars(GiveUp(a))
  /\ \A w \in Wd : WF_vars(GatewaySettle(w)) /\ WF_vars(Age(w))
  /\ \A m \in Wd \X (1..MaxSend) : WF_vars(GatewayCreate(m) \/ WireLoss(m))

FairSpec == Spec /\ Fairness

-----------------------------------------------------------------------------
(* Properties *)

\* "A student can only have ONE request in these states at a time"
\* (OPEN_WD_STATUSES), whatever the admins and the status job do.
OneOpenRequest ==
  \A v, w \in Wd : /\ v # w
                   /\ Owner[v] = Owner[w]
                   /\ status[v] \in OpenStatus
                   => status[w] \notin OpenStatus

\* No rupee is created or lost: what was released into the wallet is in the
\* balance, in the one open request, or counted as paid out.  A second refund
\* or a second payout of the same request would break it.
WalletConserved ==
  \A s \in Student :
    /\ (\A w \in Wd : Owner[w] = s => status[w] \notin OpenStatus)
         => balance[s] + withdrawn[s] = Credit[s]
    /\ \A w \in Wd : Owner[w] = s /\ status[w] \in OpenStatus
         => balance[s] + Amount[w] + withdrawn[s] = Credit[s]

\* The rows and Cashfree tell the same story: money that Cashfree sent, or may
\* still send, is never given back to the wallet as well (pay: "never refund on a
\* guess, never send twice"), and a row that carries Cashfree's UTR is PAID and
\* its transfer succeeded.
GatewayAgrees ==
  \A w \in Wd :
    /\ status[w] \in ReturnedStatus => /\ transfer[w] \in {"none", "failed"}
                                       /\ \A n \in 1..MaxSend : <<w, n>> \notin wire
    /\ paymentRef[w] = GatewayRef => status[w] = "PAID" /\ transfer[w] = "success"

\* A hand-back or a refund that is about to be written is about the latest send.
JudgesLatest ==
  \A p \in Worker :
    /\ handler[p].pc \in {"notFound", "refused"}
    /\ status[handler[p].wd] = "PROCESSING"
    => handler[p].send = sends[handler[p].wd]

\* The code does not look at which send it judges when it writes; whatever else
\* overlaps, is late or is lost, this is the only way for the rows to disagree
\* with Cashfree.
AgreesIfLatestJudged == []JudgesLatest => []GatewayAgrees

\* "The same UTR cannot be used twice": a reference typed by an admin is
\* recorded on at most one withdrawal.  It takes one admin at a time: the query
\* for other withdrawals and the update are two steps.
UtrRecordedOnce ==
  \A v, w \in Wd : v # w /\ paymentRef[v] \in Ref => paymentRef[v] # paymentRef[w]

\* With the status job running, a withdrawal never stays in PROCESSING: it is
\* paid, refunded, or handed back to the admin to be sent again.
ProcessingSettles ==
  \A w \in Wd : status[w] = "PROCESSING" ~> status[w] # "PROCESSING"

\* The code implements the promise of PayoutLedger: an open request ends once,
\* paid or returned, and the wallet moves with it.
LedgerState(st) == CASE st = "NONE" -> "none"
                     [] st \in OpenStatus -> "open"
                     [] st = "PAID" -> "paid"
                     [] OTHER -> "returned"

LedgerRequest == [w \in Wd |-> LedgerState(status[w])]

Ledger == INSTANCE PayoutLedger WITH paidOut <- withdrawn, request <- LedgerRequest

LedgerSpec == Ledger!Spec
=============================================================================
