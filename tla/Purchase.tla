------------------------------ MODULE Purchase ------------------------------
(***************************************************************************)
(* Buying a plan: backend/src/monetization/monetization.service.ts and     *)
(* subscription.util.ts, for the payments of one student.                  *)
(*                                                                         *)
(* The browser that comes back from checkout, Cashfree's webhooks and the  *)
(* upkeep job may all settle one order.  The database runs at READ         *)
(* COMMITTED: a statement sees what was committed when it started, an      *)
(* update waits for the row locks of open transactions and looks at its    *)
(* condition again, and nothing of a transaction shows before its commit.  *)
(* Every statement and every call to Cashfree is a step of its own.        *)
(*                                                                         *)
(* An admin's gift and a referral reward grant time through the same       *)
(* helper, outside a transaction: there each statement commits by itself.  *)
(***************************************************************************)
EXTENDS Naturals, FiniteSets

CONSTANTS
  Payment,    \* the student's payment rows, one per order
  Free,       \* those a 100% coupon makes free: nothing to pay, no gateway
  Gift,       \* grants by an admin or as a referral reward
  Months,     \* what each grant adds
  Caller,     \* request handlers: checkout, verify, webhook, admin
  Job,        \* server processes that run the upkeep job (empty: PAYMENT_RECONCILER=off)
  MaxNow,     \* bound: months that pass
  MaxFaults,  \* bound: failures, timeouts and crashes
  None        \* no value

Grant == Payment \cup Gift
Worker == Caller \cup Job

ASSUME PurchaseAssumption ==
  /\ Free \subseteq Payment
  /\ Payment \cap Gift = {}
  /\ Caller \cap Job = {}
  /\ None \notin Grant
  /\ Months \in [Grant -> Nat \ {0}]
  /\ MaxNow \in Nat
  /\ MaxFaults \in Nat

VARIABLES
  row,        \* payments.status, "NONE" before the row exists
  order,      \* Cashfree's own state of the order
  age,        \* of the payment row: younger than 2 minutes, due, older than 48 hours
  hooks,      \* webhooks that Cashfree keeps sending until they are answered 200
  sub,        \* the subscription row that a grant creates
  now,        \* months gone by
  worker,     \* what each handler has read and where it stands
  told,       \* how often the referral service was told of a payment
  faults,     \* failures so far
  owed,       \* history: the day until which the student should have premium
  disturbed   \* history: two grants overlapped, or a gift died half way

payVars == <<row, order, age, hooks>>
subVars == <<sub, owed, disturbed>>
vars == <<row, order, age, hooks, sub, now, worker, told, faults, owed, disturbed>>

RowStatus == {"NONE", "PENDING", "SUCCESS", "FAILED"}
OrderStatus == {"none", "active", "paid", "expired"}
Hook == Payment \X {"success", "failed"}
NoSub == [status |-> "none", ends |-> 0]
SubType == [status : {"none", "ACTIVE", "EXPIRED"}, ends : Nat]

\* Between the claim of a payment (or the start of a gift) and the new row.
GrantStep == {"current", "close", "overwrite", "create"}
Step == GrantStep \cup {"idle", "ask", "fail", "claim", "refer", "list", "next"}

Idle == [pc |-> "idle", grant |-> None, via |-> "none", base |-> 0, closes |-> {}, todo |-> {}]

WorkerType == [pc : Step, grant : Grant \cup {None}, via : {"none", "success", "failed"},
               base : Nat, closes : SUBSET Grant, todo : SUBSET Payment]

TypeOK ==
  /\ row \in [Payment -> RowStatus]
  /\ order \in [Payment -> OrderStatus]
  /\ age \in [Payment -> {"new", "due", "old"}]
  /\ hooks \subseteq Hook
  /\ sub \in [Grant -> SubType]
  /\ now \in 0..MaxNow
  /\ worker \in [Worker -> WorkerType]
  /\ \A w \in Worker : worker[w].pc \notin {"idle", "list", "next"} => worker[w].grant # None
  /\ \A w \in Worker : worker[w].pc \in {"ask", "fail", "claim", "refer"} => worker[w].grant \in Payment
  /\ told \in [Payment -> Nat]
  /\ faults \in 0..MaxFaults
  /\ owed \in Nat
  /\ disturbed \in BOOLEAN

Init ==
  /\ row = [p \in Payment |-> "NONE"]
  /\ order = [p \in Payment |-> "none"]
  /\ age = [p \in Payment |-> "new"]
  /\ hooks = {}
  /\ sub = [g \in Grant |-> NoSub]
  /\ now = 0
  /\ worker = [w \in Worker |-> Idle]
  /\ told = [p \in Payment |-> 0]
  /\ faults = 0
  /\ owed = 0
  /\ disturbed = FALSE

At(w, pc) == worker[w].pc = pc
GoTo(w, pc) == worker' = [worker EXCEPT ![w].pc = pc]

\* What a worker falls back to when it is through with a payment: the job goes
\* on with the next row it listed.
Rest(w) == IF w \in Job THEN [Idle EXCEPT !.pc = "next", !.todo = worker[w].todo] ELSE Idle

\* A handler answers.  A webhook that is answered 200 is not sent again, unless
\* the answer gets lost.
Done(w) ==
  /\ worker' = [worker EXCEPT ![w] = Rest(w)]
  /\ hooks' \in {hooks, hooks \ {<<worker[w].grant, worker[w].via>>}}

InGrant(w) == worker[w].pc \in GrantStep
\* The transaction of a fulfilment holds the row lock of its payment ...
Claimed(p) == \E w \in Worker : InGrant(w) /\ worker[w].grant = p
\* ... and, once it has overwritten them, those of the subscriptions it closes.
LockedSubs(w) ==
  IF At(w, "create") /\ worker[w].grant \in Payment THEN worker[w].closes ELSE {}

Running(g) == sub[g].status = "ACTIVE" /\ sub[g].ends > now
Later(a, b) == IF a > b THEN a ELSE b

----------------------------------------------------------------------------
(* Orders.  The row is written when Cashfree has accepted the order, and    *)
(* the student gets the checkout only after that.                           *)

CreateOrder(p) ==
  /\ p \notin Free
  /\ row[p] = "NONE"
  /\ row' = [row EXCEPT ![p] = "PENDING"]
  /\ order' = [order EXCEPT ![p] = "active"]
  /\ UNCHANGED <<age, hooks, subVars, now, worker, told, faults>>

\* A 100% coupon: nothing to charge, so the handler fulfils at once.
CreateFreeOrder(w, p) ==
  /\ At(w, "idle")
  /\ p \in Free
  /\ row[p] = "NONE"
  /\ row' = [row EXCEPT ![p] = "PENDING"]
  /\ worker' = [worker EXCEPT ![w] = [Idle EXCEPT !.pc = "claim", !.grant = p]]
  /\ UNCHANGED <<order, age, hooks, subVars, now, told, faults>>

\* The browser is back from checkout and asks which way it went.
Verify(w, p) ==
  /\ At(w, "idle")
  /\ p \notin Free
  /\ row[p] \in {"PENDING", "FAILED"}
  /\ worker' = [worker EXCEPT ![w] = [Idle EXCEPT !.pc = "ask", !.grant = p]]
  /\ UNCHANGED <<payVars, subVars, now, told, faults>>

\* A webhook arrives.  That a try failed is not final: the student may pay the
\* same order with another one.
Webhook(w, p, kind) ==
  /\ At(w, "idle")
  /\ <<p, kind>> \in hooks
  /\ IF row[p] = "SUCCESS"
       THEN hooks' \in {hooks, hooks \ {<<p, kind>>}} /\ UNCHANGED worker
       ELSE /\ worker' = [worker EXCEPT ![w] = [Idle EXCEPT !.grant = p, !.via = kind,
                            !.pc = IF kind = "success" THEN "claim" ELSE "fail"]]
            /\ UNCHANGED hooks
  /\ UNCHANGED <<row, order, age, subVars, now, told, faults>>

\* settleFromGateway: an order that is neither active nor paid is over.
Ask(w) ==
  /\ At(w, "ask")
  /\ LET state == order[worker[w].grant] IN
       \/ state = "active" /\ worker' = [worker EXCEPT ![w] = Rest(w)]
       \/ state = "paid" /\ GoTo(w, "claim")
       \/ state \in {"none", "expired"} /\ GoTo(w, "fail")
  /\ UNCHANGED <<payVars, subVars, now, told, faults>>

MarkFailed(w) ==
  LET p == worker[w].grant IN
    /\ At(w, "fail")
    /\ ~Claimed(p)
    /\ row' = [row EXCEPT ![p] = IF row[p] = "SUCCESS" THEN "SUCCESS" ELSE "FAILED"]
    /\ Done(w)
    /\ UNCHANGED <<order, age, subVars, now, told, faults>>

----------------------------------------------------------------------------
(* fulfill: one transaction from Claim to Create.                           *)

\* Two grants of one student at a time: from here on nothing is promised.
Enter(w) == disturbed' = (disturbed \/ \E v \in Worker \ {w} : InGrant(v))

\* Mutant: the claim is committed on its own, before the grant.
Mut_ClaimAlone(w) ==
  LET p == worker[w].grant IN
    /\ At(w, "claim")
    /\ row' = [row EXCEPT ![p] = "SUCCESS"]
    /\ IF row[p] = "SUCCESS"
         THEN Done(w) /\ UNCHANGED disturbed
         ELSE GoTo(w, "current") /\ Enter(w) /\ UNCHANGED hooks
    /\ UNCHANGED <<order, age, sub, owed, now, told, faults>>

\* Mutant: without the condition on the status.
Mut_ClaimAgain(w) ==
  /\ At(w, "claim")
  /\ ~Claimed(worker[w].grant)
  /\ GoTo(w, "current")
  /\ Enter(w)
  /\ UNCHANGED <<payVars, sub, owed, now, told, faults>>

Claim(w) ==
  LET p == worker[w].grant IN
    /\ At(w, "claim")
    /\ ~Claimed(p)
    /\ \/ /\ row[p] = "SUCCESS"
          /\ Done(w)
          /\ UNCHANGED disturbed
       \/ /\ row[p] # "SUCCESS"
          /\ GoTo(w, "current")
          /\ Enter(w)
          /\ UNCHANGED hooks
    /\ UNCHANGED <<row, order, age, sub, owed, now, told, faults>>

StartGift(w, g) ==
  /\ At(w, "idle")
  /\ sub[g] = NoSub
  /\ \A v \in Worker : worker[v].grant # g
  /\ worker' = [worker EXCEPT ![w] = [Idle EXCEPT !.pc = "current", !.grant = g]]
  /\ Enter(w)
  /\ UNCHANGED <<payVars, sub, owed, now, told, faults>>

\* Mutant: a new period starts today, whatever is still running.
Mut_ReadCurrent(w) ==
  /\ At(w, "current")
  /\ worker' = [worker EXCEPT ![w].base = now, ![w].pc = "close"]
  /\ UNCHANGED <<payVars, subVars, now, told, faults>>

\* grantOrExtendSubscription: find the running subscription that ends last, ...
ReadCurrent(w) ==
  /\ At(w, "current")
  /\ \/ /\ \A g \in Grant : ~Running(g)
        /\ worker' = [worker EXCEPT ![w].base = now, ![w].pc = "close"]
     \/ \E g \in Grant :
          /\ Running(g)
          /\ \A x \in Grant : Running(x) => sub[x].ends <= sub[g].ends
          /\ worker' = [worker EXCEPT ![w].base = sub[g].ends, ![w].pc = "close"]
  /\ UNCHANGED <<payVars, subVars, now, told, faults>>

\* ... close every active one (the update picks its rows, ...
CloseOthers(w) ==
  /\ At(w, "close")
  /\ worker' = [worker EXCEPT ![w].pc = "overwrite",
                              ![w].closes = {g \in Grant : sub[g].status = "ACTIVE"}]
  /\ UNCHANGED <<payVars, subVars, now, told, faults>>

Expire(gs) ==
  [g \in Grant |-> IF g \in gs /\ sub[g].status = "ACTIVE"
                     THEN [sub[g] EXCEPT !.status = "EXPIRED"] ELSE sub[g]]

\* ... waits for their locks, and writes those that are still active) ...
Overwrite(w) ==
  LET mine == {g \in worker[w].closes : sub[g].status = "ACTIVE"} IN
    /\ At(w, "overwrite")
    /\ \A v \in Worker \ {w} : LockedSubs(v) \cap worker[w].closes = {}
    /\ worker' = [worker EXCEPT ![w].pc = "create", ![w].closes = mine]
    /\ IF worker[w].grant \in Gift THEN sub' = Expire(mine) ELSE UNCHANGED sub
    /\ UNCHANGED <<payVars, owed, disturbed, now, told, faults>>

\* ... and append the new period.  For a payment this is the commit.
Create(w) ==
  LET g == worker[w].grant
      ends == worker[w].base + Months[g]
  IN /\ At(w, "create")
     /\ sub' = [Expire(worker[w].closes) EXCEPT ![g] = [status |-> "ACTIVE", ends |-> ends]]
     /\ owed' = Later(owed, now) + Months[g]
     /\ IF g \in Payment
          THEN row' = [row EXCEPT ![g] = "SUCCESS"] /\ GoTo(w, "refer")
          ELSE worker' = [worker EXCEPT ![w] = Idle] /\ UNCHANGED row
     /\ UNCHANGED <<order, age, hooks, disturbed, now, told, faults>>

\* safeReferral, after the commit; its errors are swallowed.
Refer(w) ==
  LET p == worker[w].grant IN
    /\ At(w, "refer")
    /\ told' = IF p \in Free THEN told ELSE [told EXCEPT ![p] = @ + 1]
    /\ Done(w)
    /\ UNCHANGED <<row, order, age, subVars, now, faults>>

----------------------------------------------------------------------------
(* The upkeep job: expire what has lapsed, then ask about every order that  *)
(* has been pending between two minutes and two days.                       *)

\* Mutant: without the condition on the end.
Mut_Lapsed == {g \in Grant : sub[g].status = "ACTIVE"}

Lapsed == {g \in Grant : sub[g].status = "ACTIVE" /\ sub[g].ends <= now}

Upkeep(w) ==
  /\ At(w, "idle")
  /\ sub' = Expire(Lapsed)
  /\ GoTo(w, "list")
  /\ UNCHANGED <<payVars, owed, disturbed, now, told, faults>>

\* Mutant: the bound of two minutes the wrong way round.
Mut_ListPending(w) ==
  /\ At(w, "list")
  /\ worker' = [worker EXCEPT ![w].pc = "next",
                  ![w].todo = {p \in Payment \ Free : row[p] = "PENDING" /\ age[p] = "new"}]
  /\ UNCHANGED <<payVars, subVars, now, told, faults>>

ListPending(w) ==
  /\ At(w, "list")
  /\ worker' = [worker EXCEPT ![w].pc = "next",
                  ![w].todo = {p \in Payment \ Free : row[p] = "PENDING" /\ age[p] = "due"}]
  /\ UNCHANGED <<payVars, subVars, now, told, faults>>

\* Mutant: the next order is asked about without naming it.
Mut_NextPending(w) ==
  /\ At(w, "next")
  /\ \/ worker[w].todo = {} /\ worker' = [worker EXCEPT ![w] = Idle]
     \/ \E p \in worker[w].todo :
          worker' = [worker EXCEPT ![w].pc = "ask", ![w].todo = @ \ {p}]
  /\ UNCHANGED <<payVars, subVars, now, told, faults>>

NextPending(w) ==
  /\ At(w, "next")
  /\ \/ worker[w].todo = {} /\ worker' = [worker EXCEPT ![w] = Idle]
     \/ \E p \in worker[w].todo :
          worker' = [worker EXCEPT ![w].pc = "ask", ![w].grant = p, ![w].todo = @ \ {p}]
  /\ UNCHANGED <<payVars, subVars, now, told, faults>>

\* mySubscription closes lapsed rows when nothing is running.
MySubscription ==
  /\ Lapsed # {}
  /\ \A g \in Grant : ~Running(g)
  /\ sub' = Expire(Lapsed)
  /\ UNCHANGED <<payVars, owed, disturbed, now, worker, told, faults>>

----------------------------------------------------------------------------
(* Environment.                                                             *)

Pay(p) ==
  /\ order[p] = "active"
  /\ order' = [order EXCEPT ![p] = "paid"]
  /\ hooks' = hooks \cup {<<p, "success">>}
  /\ UNCHANGED <<row, age, subVars, now, worker, told, faults>>

TryFails(p) ==
  /\ order[p] = "active"
  /\ faults < MaxFaults
  /\ faults' = faults + 1
  /\ hooks' = hooks \cup {<<p, "failed">>}
  /\ UNCHANGED <<row, order, age, subVars, now, worker, told>>

OrderExpires(p) ==
  /\ order[p] = "active"
  /\ order' = [order EXCEPT ![p] = "expired"]
  /\ UNCHANGED <<row, age, hooks, subVars, now, worker, told, faults>>

\* The webhook is never delivered (wrong URL, retries exhausted).
HookLost(h) ==
  /\ h \in hooks
  /\ hooks' = hooks \ {h}
  /\ UNCHANGED <<row, order, age, subVars, now, worker, told, faults>>

\* A statement or a call to Cashfree fails, or the process dies.  An open
\* transaction is rolled back; what a gift has written stays.
Fault(w) ==
  /\ ~At(w, "idle")
  /\ faults < MaxFaults
  /\ faults' = faults + 1
  /\ worker' \in {[worker EXCEPT ![w] = Idle], [worker EXCEPT ![w] = Rest(w)]}
  /\ disturbed' = (disturbed \/ (At(w, "create") /\ worker[w].grant \in Gift))
  /\ UNCHANGED <<payVars, sub, owed, now, told>>

GrowOlder(p) ==
  /\ row[p] # "NONE" /\ p \notin Free
  /\ age[p] # "old"
  /\ age' = [age EXCEPT ![p] = IF age[p] = "new" THEN "due" ELSE "old"]
  /\ UNCHANGED <<row, order, hooks, subVars, now, worker, told, faults>>

\* A unit of time is a month, a grant takes milliseconds.
Tick ==
  /\ now < MaxNow
  /\ \A w \in Worker : ~InGrant(w)
  /\ now' = now + 1
  /\ UNCHANGED <<payVars, subVars, worker, told, faults>>

----------------------------------------------------------------------------
WorkerStep(w) ==
  \/ Ask(w) \/ MarkFailed(w) \/ Claim(w) \/ ReadCurrent(w) \/ CloseOthers(w)
  \/ Overwrite(w) \/ Create(w) \/ Refer(w)

JobStep(w) == Upkeep(w) \/ ListPending(w) \/ NextPending(w)

Environment ==
  \/ \E p \in Payment : Pay(p) \/ TryFails(p) \/ OrderExpires(p) \/ GrowOlder(p)
  \/ \E h \in hooks : HookLost(h)
  \/ \E w \in Worker : Fault(w)
  \/ Tick

Next ==
  \/ \E p \in Payment : CreateOrder(p)
  \/ \E w \in Caller, p \in Payment :
       \/ CreateFreeOrder(w, p) \/ Verify(w, p)
       \/ \E kind \in {"success", "failed"} : Webhook(w, p, kind)
  \/ \E w \in Caller, g \in Gift : StartGift(w, g)
  \/ \E w \in Worker : WorkerStep(w)
  \/ \E w \in Job : JobStep(w)
  \/ MySubscription
  \/ Environment

Spec == Init /\ [][Next]_vars

\* A handler that has begun goes on, the job runs every five minutes, and the
\* first two minutes of a payment pass.
Fairness ==
  /\ \A w \in Worker : WF_vars(WorkerStep(w))
  /\ \A w \in Job : WF_vars(JobStep(w))
  /\ \A p \in Payment : WF_vars(age[p] = "new" /\ GrowOlder(p))

FairSpec == Spec /\ Fairness

----------------------------------------------------------------------------
(* Properties.                                                              *)

\* A payment is SUCCESS exactly when its period was granted, and only when
\* Cashfree has the money or there was nothing to pay: the claim, the grant
\* and the status are one transaction, whoever fulfils and whatever fails.
GrantedIffPaid ==
  \A p \in Payment :
    /\ row[p] = "SUCCESS" <=> sub[p] # NoSub
    /\ row[p] = "SUCCESS" => order[p] = "paid" \/ p \in Free

\* Verify, the webhooks and the job may all fulfil one payment; the referral
\* service hears of it at most once, and never before it is a success.
ToldOnce ==
  \A p \in Payment : told[p] <= IF row[p] = "SUCCESS" THEN 1 ELSE 0

\* A late "failed" webhook or an order that looks expired never takes a
\* fulfilled payment back.
SuccessIsFinal ==
  [][\A p \in Payment : row[p] = "SUCCESS" => row'[p] = "SUCCESS"]_vars

\* Premium until the day the student paid for, or was given.
HasWhatIsOwed == owed > now => \E g \in Grant : sub[g].status = "ACTIVE" /\ sub[g].ends >= owed

\* As long as grants come one after the other no paid day is lost or given
\* twice, and one row is active: a payment that fails half way changes nothing.
UndisturbedTimeKept ==
  ~disturbed /\ (\A w \in Worker : ~InGrant(w)) =>
    /\ HasWhatIsOwed
    /\ \A g \in Grant : sub[g].status = "ACTIVE" =>
         sub[g].ends = owed /\ \A x \in Grant : sub[x].status = "ACTIVE" => x = g

\* subscription.util.ts: "Time is never destroyed", whoever grants and when.
PaidTimeKept == (\A w \in Worker : ~InGrant(w)) => HasWhatIsOwed

\* Money that Cashfree took is noticed without the browser and without any
\* webhook, as long as the row is pending and younger than two days.
PendingIsSettled ==
  \A p \in Payment :
    (order[p] = "paid" /\ row[p] = "PENDING") ~> (row[p] # "PENDING" \/ age[p] = "old")

----------------------------------------------------------------------------
(* What it all amounts to.                                                  *)

Plans == INSTANCE PlanLedger
           WITH paid <- {p \in Payment : order[p] = "paid"},
                fulfilled <- {p \in Payment : row[p] = "SUCCESS"},
                status <- [g \in Grant |-> sub[g].status],
                ends <- [g \in Grant |-> sub[g].ends]

\* Whoever fulfils, and even when grants overlap: every period is granted once,
\* for money that is there, at its full length from today or from the end of an
\* earlier one; its end never moves; a row that runs is closed only for a grant.
PlanSpec == Plans!Spec
=============================================================================
