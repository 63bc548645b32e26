--------------------------- MODULE PurchaseProofs ---------------------------
(***************************************************************************)
(* Theorems about Purchase, for any set of payments, gifts, handlers and   *)
(* upkeep jobs: every reachable state is well typed, a payment is SUCCESS  *)
(* exactly when its period was granted and then for good, the referral     *)
(* service is told of it at most once, as long as grants come one after    *)
(* the other no paid day is lost, and Purchase implements PlanLedger.      *)
(***************************************************************************)
EXTENDS Purchase, TLAPS

-----------------------------------------------------------------------------
(* Workers stay well typed *)

WorkerOK(r) ==
  /\ r \in WorkerType
  /\ r.pc \notin {"idle", "list", "next"} => r.grant # None
  /\ r.pc \in {"ask", "fail", "claim", "refer"} => r.grant \in Payment

WorkersOK(ws) ==
  /\ ws \in [Worker -> WorkerType]
  /\ \A w \in Worker : WorkerOK(ws[w])

LEMMA IdleOK == WorkerOK(Idle)
  BY PurchaseAssumption DEF WorkerOK, Idle, WorkerType, Step

LEMMA TypeOKWorkers ==
  ASSUME TypeOK
  PROVE  WorkersOK(worker)
<1>1. worker \in [Worker -> WorkerType]
  BY DEF TypeOK
<1>2. /\ \A w \in Worker : worker[w].pc \notin {"idle", "list", "next"} => worker[w].grant # None
      /\ \A w \in Worker : worker[w].pc \in {"ask", "fail", "claim", "refer"} => worker[w].grant \in Payment
  BY DEF TypeOK
<1> QED
  BY <1>1, <1>2 DEF WorkersOK, WorkerOK

\* One worker may be replaced by a well-typed one.
LEMMA SetWorkerOK ==
  ASSUME TypeOK, NEW w \in Worker, NEW r, WorkerOK(r),
         worker' = [worker EXCEPT ![w] = r]
  PROVE  WorkersOK(worker')
  BY TypeOKWorkers DEF WorkersOK, WorkerOK

LEMMA FieldTypes ==
  ASSUME TypeOK, NEW w \in Worker
  PROVE  /\ worker[w] \in WorkerType
         /\ worker[w].pc \in Step
         /\ worker[w].grant \in Grant \cup {None}
         /\ worker[w].via \in {"none", "success", "failed"}
         /\ worker[w].base \in Nat
         /\ worker[w].closes \in SUBSET Grant
         /\ worker[w].todo \in SUBSET Payment
         /\ worker[w].pc \notin {"idle", "list", "next"} => worker[w].grant # None
         /\ worker[w].pc \in {"ask", "fail", "claim", "refer"} => worker[w].grant \in Payment
<1>1. worker[w] \in WorkerType
  BY TypeOKWorkers DEF WorkersOK
<1> QED
  BY <1>1, TypeOKWorkers DEF WorkersOK, WorkerOK, WorkerType

\* A worker at work on a grant goes on to another step of it.
LEMMA GoToOK ==
  ASSUME TypeOK, NEW w \in Worker, NEW pc \in GrantStep \cup {"list"}, GoTo(w, pc),
         worker[w].grant # None \/ pc = "list"
  PROVE  WorkersOK(worker')
<1> DEFINE r == [worker[w] EXCEPT !.pc = pc]
<1>1. WorkerOK(r)
  BY FieldTypes DEF WorkerOK, WorkerType, Step, GrantStep
<1>2. worker' = [worker EXCEPT ![w] = r]
  BY DEF GoTo
<1> QED
  BY <1>1, <1>2, SetWorkerOK

LEMMA GoToPaymentOK ==
  ASSUME TypeOK, NEW w \in Worker, NEW pc \in {"fail", "claim", "refer"}, GoTo(w, pc),
         worker[w].grant \in Payment
  PROVE  WorkersOK(worker')
<1> DEFINE r == [worker[w] EXCEPT !.pc = pc]
<1>1. WorkerOK(r)
  BY FieldTypes, PurchaseAssumption DEF WorkerOK, WorkerType, Step, Grant
<1>2. worker' = [worker EXCEPT ![w] = r]
  BY DEF GoTo
<1> QED
  BY <1>1, <1>2, SetWorkerOK

\* A worker takes up a payment.
LEMMA TakeOK ==
  ASSUME TypeOK, NEW w \in Worker, NEW p \in Payment,
         NEW pc \in {"ask", "claim", "fail"}, NEW via \in {"none", "success", "failed"},
         worker' = [worker EXCEPT ![w] = [Idle EXCEPT !.grant = p, !.via = via, !.pc = pc]]
  PROVE  WorkersOK(worker')
<1>1. WorkerOK([Idle EXCEPT !.grant = p, !.via = via, !.pc = pc])
  BY IdleOK, PurchaseAssumption DEF WorkerOK, WorkerType, Idle, Step, Grant
<1> QED
  BY <1>1, SetWorkerOK

LEMMA RestOK ==
  ASSUME TypeOK, NEW w \in Worker
  PROVE  WorkerOK(Rest(w))
  BY IdleOK, FieldTypes DEF Rest, WorkerOK, WorkerType, Idle, Step

LEMMA DoneOK ==
  ASSUME TypeOK, NEW w \in Worker, Done(w)
  PROVE  WorkersOK(worker') /\ hooks' \in SUBSET Hook
<1>1. WorkersOK(worker')
  BY RestOK, SetWorkerOK DEF Done
<1>2. hooks' \in SUBSET Hook
  BY DEF Done, TypeOK
<1> QED
  BY <1>1, <1>2

-----------------------------------------------------------------------------
(* Type correctness *)

LEMMA TypeInit == Init => TypeOK
<1> SUFFICES ASSUME Init PROVE TypeOK
  OBVIOUS
<1>1. WorkersOK(worker)
  BY IdleOK DEF Init, WorkersOK, WorkerOK
<1>2. /\ worker \in [Worker -> WorkerType]
      /\ \A w \in Worker : worker[w].pc \notin {"idle", "list", "next"} => worker[w].grant # None
      /\ \A w \in Worker : worker[w].pc \in {"ask", "fail", "claim", "refer"} => worker[w].grant \in Payment
  BY <1>1 DEF WorkersOK, WorkerOK
<1>3. sub \in [Grant -> SubType]
  BY DEF Init, NoSub, SubType
<1>4. now \in 0..MaxNow /\ faults \in 0..MaxFaults /\ owed \in Nat
  BY PurchaseAssumption DEF Init
<1>5. disturbed \in BOOLEAN
  BY DEF Init
<1>6. /\ row \in [Payment -> RowStatus] /\ order \in [Payment -> OrderStatus]
      /\ age \in [Payment -> {"new", "due", "old"}] /\ told \in [Payment -> Nat]
      /\ hooks \subseteq Hook
  BY DEF Init, RowStatus, OrderStatus
<1> QED
  BY <1>2, <1>3, <1>4, <1>5, <1>6 DEF TypeOK

SubsType == [Grant -> SubType]

\* What a step must show: the workers, and each remaining variable.
LEMMA TypeOKFrom ==
  ASSUME WorkersOK(worker'),
         row' \in [Payment -> RowStatus],
         order' \in [Payment -> OrderStatus],
         age' \in [Payment -> {"new", "due", "old"}],
         hooks' \in SUBSET Hook,
         sub' \in SubsType,
         now' \in 0..MaxNow,
         told' \in [Payment -> Nat],
         faults' \in 0..MaxFaults,
         owed' \in Nat,
         disturbed' \in BOOLEAN
  PROVE  TypeOK'
<1>1. /\ worker' \in [Worker -> WorkerType]
      /\ \A w \in Worker : worker'[w].pc \notin {"idle", "list", "next"} => worker'[w].grant # None
      /\ \A w \in Worker : worker'[w].pc \in {"ask", "fail", "claim", "refer"} => worker'[w].grant \in Payment
  BY DEF WorkersOK, WorkerOK
<1> QED
  BY <1>1 DEF TypeOK, SubsType

LEMMA TypeOKFacts ==
  ASSUME TypeOK
  PROVE  /\ WorkersOK(worker)
         /\ row \in [Payment -> RowStatus]
         /\ order \in [Payment -> OrderStatus]
         /\ age \in [Payment -> {"new", "due", "old"}]
         /\ hooks \in SUBSET Hook
         /\ sub \in SubsType
         /\ now \in 0..MaxNow /\ now \in Nat
         /\ told \in [Payment -> Nat]
         /\ faults \in 0..MaxFaults /\ faults \in Nat
         /\ owed \in Nat
         /\ disturbed \in BOOLEAN
  BY TypeOKWorkers, PurchaseAssumption DEF TypeOK, SubsType

LEMMA ExpireOK ==
  ASSUME TypeOK, NEW gs
  PROVE  Expire(gs) \in SubsType
  BY DEF TypeOK, Expire, SubsType, SubType

LEMMA FaultsOK ==
  ASSUME TypeOK, faults < MaxFaults, faults' = faults + 1
  PROVE  faults' \in 0..MaxFaults
  BY PurchaseAssumption DEF TypeOK

LEMMA TypeStep == TypeOK /\ [Next]_vars => TypeOK'
<1> SUFFICES ASSUME TypeOK, [Next]_vars PROVE TypeOK'
  OBVIOUS
<1> USE PurchaseAssumption
<1>t. /\ WorkersOK(worker)
      /\ row \in [Payment -> RowStatus]
      /\ order \in [Payment -> OrderStatus]
      /\ age \in [Payment -> {"new", "due", "old"}]
      /\ hooks \in SUBSET Hook
      /\ sub \in SubsType
      /\ now \in 0..MaxNow /\ now \in Nat
      /\ told \in [Payment -> Nat]
      /\ faults \in 0..MaxFaults /\ faults \in Nat
      /\ owed \in Nat
      /\ disturbed \in BOOLEAN
  BY TypeOKFacts
<1>w. Caller \subseteq Worker /\ Job \subseteq Worker
  BY DEF Worker
<1>g. Payment \subseteq Grant /\ Gift \subseteq Grant
  BY DEF Grant
<1>1. ASSUME NEW p \in Payment, CreateOrder(p) PROVE TypeOK'
  BY <1>1, <1>t, TypeOKFrom DEF CreateOrder, subVars, RowStatus, OrderStatus
<1>2. ASSUME NEW w \in Caller, NEW p \in Payment, CreateFreeOrder(w, p) PROVE TypeOK'
  <2>1. WorkerOK([Idle EXCEPT !.pc = "claim", !.grant = p])
    BY <1>g, IdleOK DEF WorkerOK, WorkerType, Idle, Step
  <2>2. WorkersOK(worker')
    BY <1>2, <1>w, <2>1, SetWorkerOK DEF CreateFreeOrder
  <2> QED
    BY <1>2, <2>2, <1>t, TypeOKFrom DEF CreateFreeOrder, subVars, RowStatus
<1>3. ASSUME NEW w \in Caller, NEW p \in Payment, Verify(w, p) PROVE TypeOK'
  <2>1. WorkerOK([Idle EXCEPT !.pc = "ask", !.grant = p])
    BY <1>g, IdleOK DEF WorkerOK, WorkerType, Idle, Step
  <2>2. WorkersOK(worker')
    BY <1>3, <1>w, <2>1, SetWorkerOK DEF Verify
  <2> QED
    BY <1>3, <2>2, <1>t, TypeOKFrom DEF Verify, payVars, subVars
<1>4. ASSUME NEW w \in Caller, NEW p \in Payment, NEW kind \in {"success", "failed"},
             Webhook(w, p, kind)
      PROVE  TypeOK'
  <2>1. CASE row[p] = "SUCCESS"
    BY <1>4, <2>1, <1>t, TypeOKFrom DEF Webhook, subVars
  <2>2. CASE row[p] # "SUCCESS"
    <3>1. WorkersOK(worker')
      BY <1>4, <2>2, <1>w, TakeOK DEF Webhook
    <3> QED
      BY <1>4, <2>2, <3>1, <1>t, TypeOKFrom DEF Webhook, subVars
  <2> QED
    BY <2>1, <2>2
<1>5. ASSUME NEW w \in Worker, Ask(w) PROVE TypeOK'
  <2>1. worker[w].grant \in Payment
    BY <1>5, FieldTypes DEF Ask, At
  <2>2. WorkersOK(worker')
    BY <1>5, <2>1, RestOK, SetWorkerOK, GoToPaymentOK DEF Ask
  <2> QED
    BY <1>5, <2>2, <1>t, TypeOKFrom DEF Ask, payVars, subVars
<1>6. ASSUME NEW w \in Worker, MarkFailed(w) PROVE TypeOK'
  <2>1. WorkersOK(worker') /\ hooks' \in SUBSET Hook
    BY <1>6, DoneOK DEF MarkFailed
  <2>2. row' \in [Payment -> RowStatus]
    BY <1>6, <1>t DEF MarkFailed, RowStatus
  <2> QED
    BY <1>6, <2>1, <2>2, <1>t, TypeOKFrom DEF MarkFailed, subVars
<1>7. ASSUME NEW w \in Worker, Claim(w) PROVE TypeOK'
  <2>1. worker[w].grant \in Payment
    BY <1>7, FieldTypes DEF Claim, At
  <2>2. CASE Done(w) /\ UNCHANGED disturbed
    BY <1>7, <2>2, DoneOK, <1>t, TypeOKFrom DEF Claim
  <2>3. CASE GoTo(w, "current") /\ Enter(w) /\ UNCHANGED hooks
    <3>1. WorkersOK(worker')
      BY <1>g, <2>1, <2>3, GoToOK DEF GrantStep
    <3>2. disturbed' \in BOOLEAN
      BY <2>3 DEF Enter
    <3> QED
      BY <1>7, <2>3, <3>1, <3>2, <1>t, TypeOKFrom DEF Claim
  <2> QED
    BY <1>7, <2>2, <2>3 DEF Claim
<1>8. ASSUME NEW w \in Caller, NEW g \in Gift, StartGift(w, g) PROVE TypeOK'
  <2>1. WorkerOK([Idle EXCEPT !.pc = "current", !.grant = g])
    BY <1>g, IdleOK DEF WorkerOK, WorkerType, Idle, Step, GrantStep
  <2>2. WorkersOK(worker')
    BY <1>8, <1>w, <2>1, SetWorkerOK DEF StartGift
  <2>3. disturbed' \in BOOLEAN
    BY <1>8 DEF StartGift, Enter
  <2> QED
    BY <1>8, <2>2, <2>3, <1>t, TypeOKFrom DEF StartGift, payVars
<1>9. ASSUME NEW w \in Worker, ReadCurrent(w) PROVE TypeOK'
  <2>1. \A g \in Grant : sub[g].ends \in Nat
    BY <1>t DEF SubsType, SubType
  <2>2. PICK base \in Nat : worker' = [worker EXCEPT ![w].base = base, ![w].pc = "close"]
    BY <1>9, <2>1, <1>t DEF ReadCurrent
  <2> DEFINE r == [worker[w] EXCEPT !.base = base, !.pc = "close"]
  <2>3. WorkerOK(r)
    BY <1>9, FieldTypes DEF WorkerOK, WorkerType, Step, GrantStep, ReadCurrent, At
  <2>4. worker' = [worker EXCEPT ![w] = r]
    BY <2>2, FieldTypes DEF WorkerType
  <2>5. WorkersOK(worker')
    BY <2>3, <2>4, SetWorkerOK
  <2> QED
    BY <1>9, <2>5, <1>t, TypeOKFrom DEF ReadCurrent, payVars, subVars
<1>10. ASSUME NEW w \in Worker, CloseOthers(w) PROVE TypeOK'
  <2> DEFINE c == {g \in Grant : sub[g].status = "ACTIVE"}
             r == [worker[w] EXCEPT !.pc = "overwrite", !.closes = c]
  <2>1. WorkerOK(r)
    BY <1>10, FieldTypes DEF WorkerOK, WorkerType, Step, GrantStep, CloseOthers, At
  <2>2. worker' = [worker EXCEPT ![w] = r]
    BY <1>10, FieldTypes DEF CloseOthers, WorkerType
  <2>3. WorkersOK(worker')
    BY <2>1, <2>2, SetWorkerOK
  <2> QED
    BY <1>10, <2>3, <1>t, TypeOKFrom DEF CloseOthers, payVars, subVars
<1>11. ASSUME NEW w \in Worker, Overwrite(w) PROVE TypeOK'
  <2> DEFINE mine == {g \in worker[w].closes : sub[g].status = "ACTIVE"}
             r == [worker[w] EXCEPT !.pc = "create", !.closes = mine]
  <2>1. WorkerOK(r)
    BY <1>11, FieldTypes DEF WorkerOK, WorkerType, Step, GrantStep, Overwrite, At
  <2>2. worker' = [worker EXCEPT ![w] = r]
    BY <1>11, FieldTypes DEF Overwrite, WorkerType
  <2>3. WorkersOK(worker')
    BY <2>1, <2>2, SetWorkerOK
  <2>4. sub' \in SubsType
    BY <1>11, <1>t, ExpireOK DEF Overwrite
  <2> QED
    BY <1>11, <2>3, <2>4, <1>t, TypeOKFrom DEF Overwrite, payVars
<1>12. ASSUME NEW w \in Worker, Create(w) PROVE TypeOK'
  <2> DEFINE g == worker[w].grant
             e == Expire(worker[w].closes)
  <2>1. g \in Grant
    BY <1>12, FieldTypes DEF Create, At
  <2>2. Months[g] \in Nat /\ worker[w].base + Months[g] \in Nat
    BY <2>1, FieldTypes
  <2>3. owed' \in Nat
    BY <1>12, <2>2, <1>t DEF Create, Later
  <2>4. sub' \in SubsType
    <3>1. e \in SubsType
      BY ExpireOK
    <3>2. sub' = [e EXCEPT ![g] = [status |-> "ACTIVE", ends |-> worker[w].base + Months[g]]]
      BY <1>12 DEF Create
    <3> HIDE DEF e
    <3> QED
      BY <2>1, <2>2, <3>1, <3>2 DEF SubsType, SubType
  <2>5. CASE g \in Payment
    <3>1. WorkersOK(worker')
      BY <1>12, <2>5, GoToPaymentOK DEF Create
    <3>2. row' \in [Payment -> RowStatus]
      BY <1>12, <2>5, <1>t DEF Create, RowStatus
    <3> QED
      BY <1>12, <2>3, <2>4, <3>1, <3>2, <1>t, TypeOKFrom DEF Create
  <2>6. CASE g \notin Payment
    <3>1. WorkersOK(worker')
      BY <1>12, <2>6, IdleOK, SetWorkerOK DEF Create
    <3> QED
      BY <1>12, <2>3, <2>4, <2>6, <3>1, <1>t, TypeOKFrom DEF Create
  <2> QED
    BY <2>5, <2>6
<1>13. ASSUME NEW w \in Worker, Refer(w) PROVE TypeOK'
  <2>1. WorkersOK(worker') /\ hooks' \in SUBSET Hook
    BY <1>13, DoneOK DEF Refer
  <2>2. told' \in [Payment -> Nat]
    <3>1. worker[w].grant \in Payment
      BY <1>13, FieldTypes DEF Refer, At
    <3> QED
      BY <1>13, <3>1, <1>t DEF Refer
  <2> QED
    BY <1>13, <2>1, <2>2, <1>t, TypeOKFrom DEF Refer, subVars
<1>14. ASSUME NEW w \in Job, Upkeep(w) PROVE TypeOK'
  <2>1. WorkersOK(worker')
    BY <1>14, <1>w, GoToOK DEF Upkeep
  <2>2. sub' \in SubsType
    BY <1>14, ExpireOK DEF Upkeep
  <2> QED
    BY <1>14, <2>1, <2>2, <1>t, TypeOKFrom DEF Upkeep, payVars
<1>15. ASSUME NEW w \in Job, ListPending(w) PROVE TypeOK'
  <2> DEFINE l == {p \in Payment \ Free : row[p] = "PENDING" /\ age[p] = "due"}
             r == [worker[w] EXCEPT !.pc = "next", !.todo = l]
  <2>1. WorkerOK(r)
    BY <1>15, <1>w, FieldTypes DEF WorkerOK, WorkerType, Step
  <2>2. worker' = [worker EXCEPT ![w] = r]
    BY <1>15, <1>w, FieldTypes DEF ListPending, WorkerType
  <2>3. WorkersOK(worker')
    BY <1>w, <2>1, <2>2, SetWorkerOK
  <2> QED
    BY <1>15, <2>3, <1>t, TypeOKFrom DEF ListPending, payVars, subVars
<1>16. ASSUME NEW w \in Job, NextPending(w) PROVE TypeOK'
  <2>1. CASE worker' = [worker EXCEPT ![w] = Idle]
    BY <1>16, <1>w, <2>1, IdleOK, SetWorkerOK, <1>t, TypeOKFrom DEF NextPending, payVars, subVars
  <2>2. ASSUME NEW p \in worker[w].todo,
               worker' = [worker EXCEPT ![w].pc = "ask", ![w].grant = p, ![w].todo = @ \ {p}]
        PROVE  TypeOK'
    <3> DEFINE r == [worker[w] EXCEPT !.pc = "ask", !.grant = p, !.todo = worker[w].todo \ {p}]
    <3>1. WorkerOK(r)
      BY <1>w, <1>g, FieldTypes DEF WorkerOK, WorkerType, Step
    <3>2. worker' = [worker EXCEPT ![w] = r]
      BY <2>2, <1>w, FieldTypes DEF WorkerType
    <3>3. WorkersOK(worker')
      BY <1>w, <3>1, <3>2, SetWorkerOK
    <3> QED
      BY <1>16, <3>3, <1>t, TypeOKFrom DEF NextPending, payVars, subVars
  <2> QED
    BY <1>16, <2>1, <2>2 DEF NextPending
<1>17. ASSUME MySubscription PROVE TypeOK'
  BY <1>17, ExpireOK, <1>t, TypeOKFrom DEF MySubscription, payVars
<1>18. ASSUME NEW p \in Payment, Pay(p) \/ TryFails(p) \/ OrderExpires(p) \/ GrowOlder(p) PROVE TypeOK'
  <2>1. CASE Pay(p)
    BY <2>1, <1>t, TypeOKFrom DEF Pay, subVars, OrderStatus, Hook
  <2>2. CASE TryFails(p)
    BY <2>2, <1>t, TypeOKFrom, FaultsOK DEF TryFails, subVars, Hook
  <2>3. CASE OrderExpires(p)
    BY <2>3, <1>t, TypeOKFrom DEF OrderExpires, subVars, OrderStatus
  <2>4. CASE GrowOlder(p)
    BY <2>4, <1>t, TypeOKFrom DEF GrowOlder, subVars
  <2> QED
    BY <1>18, <2>1, <2>2, <2>3, <2>4
<1>19. ASSUME NEW h \in hooks, HookLost(h) PROVE TypeOK'
  BY <1>19, <1>t, TypeOKFrom DEF HookLost, subVars
<1>20. ASSUME NEW w \in Worker, Fault(w) PROVE TypeOK'
  <2>1. WorkersOK(worker')
    BY <1>20, IdleOK, RestOK, SetWorkerOK DEF Fault
  <2>2. disturbed' \in BOOLEAN
    BY <1>20 DEF Fault
  <2> QED
    BY <1>20, <2>1, <2>2, <1>t, TypeOKFrom, FaultsOK DEF Fault, payVars
<1>21. ASSUME Tick PROVE TypeOK'
  BY <1>21, <1>t, TypeOKFrom DEF Tick, payVars, subVars
<1>22. CASE UNCHANGED vars
  BY <1>22, <1>t, TypeOKFrom DEF vars
<1> QED
  BY <1>1, <1>2, <1>3, <1>4, <1>5, <1>6, <1>7, <1>8, <1>9, <1>10, <1>11, <1>12, <1>13, <1>14,
     <1>15, <1>16, <1>17, <1>18, <1>19, <1>20, <1>21, <1>22
     DEF Next, WorkerStep, JobStep, Environment

\* Every reachable state is well typed: in particular, a handler that fulfils,
\* refers or marks a payment as failed has one.
THEOREM TypeCorrect == Spec => []TypeOK
  BY TypeInit, TypeStep, PTL DEF Spec

-----------------------------------------------------------------------------
(* What Cashfree knows: an order that was paid stays paid, a success webhook *)
(* is sent for a paid order only, and an order has a row.                    *)

HooksTrue == \A h \in hooks : h[2] = "success" => order[h[1]] = "paid"
OrderHasRow == \A p \in Payment : row[p] = "NONE" => order[p] = "none"

GatewayInv == HooksTrue /\ OrderHasRow

PaidStays == \A p \in Payment : order[p] = "paid" => order'[p] = "paid"

LEMMA GatewayInit == Init => GatewayInv
  BY DEF Init, GatewayInv, HooksTrue, OrderHasRow

\* Most steps leave the orders alone, add no webhook and take no row away.
LEMMA GatewayQuiet ==
  ASSUME GatewayInv, hooks' \in SUBSET hooks, order' = order,
         \A p \in Payment : row'[p] = "NONE" => row[p] = "NONE"
  PROVE  GatewayInv' /\ PaidStays
  BY DEF GatewayInv, HooksTrue, OrderHasRow, PaidStays

LEMMA GatewayStep ==
  TypeOK /\ GatewayInv /\ [Next]_vars => GatewayInv' /\ PaidStays
<1> SUFFICES ASSUME TypeOK, GatewayInv, [Next]_vars PROVE GatewayInv' /\ PaidStays
  OBVIOUS
<1>t. row \in [Payment -> RowStatus] /\ order \in [Payment -> OrderStatus] /\ hooks \in SUBSET Hook
  BY TypeOKFacts
<1>q. ASSUME hooks' = hooks, order' = order, row' = row PROVE GatewayInv' /\ PaidStays
  BY <1>q, GatewayQuiet
<1>1. ASSUME NEW p \in Payment, CreateOrder(p) PROVE GatewayInv' /\ PaidStays
  BY <1>1, <1>t DEF CreateOrder, GatewayInv, HooksTrue, OrderHasRow, PaidStays, Hook
<1>2. ASSUME NEW w \in Caller, NEW p \in Payment, CreateFreeOrder(w, p) PROVE GatewayInv' /\ PaidStays
  BY <1>2, <1>t, GatewayQuiet DEF CreateFreeOrder
<1>3. ASSUME NEW w \in Worker, MarkFailed(w) PROVE GatewayInv' /\ PaidStays
  BY <1>3, <1>t, GatewayQuiet DEF MarkFailed, Done
<1>4. ASSUME NEW w \in Worker, Claim(w) \/ Refer(w) PROVE GatewayInv' /\ PaidStays
  BY <1>4, GatewayQuiet DEF Claim, Refer, Done
<1>5. ASSUME NEW w \in Worker, Create(w) PROVE GatewayInv' /\ PaidStays
  BY <1>5, <1>t, GatewayQuiet DEF Create
<1>6. ASSUME NEW w \in Caller, NEW p \in Payment, NEW kind \in {"success", "failed"}, Webhook(w, p, kind)
      PROVE  GatewayInv' /\ PaidStays
  BY <1>6, GatewayQuiet DEF Webhook
<1>7. ASSUME NEW p \in Payment, Pay(p) PROVE GatewayInv' /\ PaidStays
  BY <1>7, <1>t DEF Pay, GatewayInv, HooksTrue, OrderHasRow, PaidStays, Hook, OrderStatus
<1>8. ASSUME NEW p \in Payment, TryFails(p) PROVE GatewayInv' /\ PaidStays
  BY <1>8 DEF TryFails, GatewayInv, HooksTrue, OrderHasRow, PaidStays
<1>9. ASSUME NEW p \in Payment, OrderExpires(p) PROVE GatewayInv' /\ PaidStays
  BY <1>9, <1>t DEF OrderExpires, GatewayInv, HooksTrue, OrderHasRow, PaidStays, Hook, OrderStatus
<1>10. ASSUME NEW h \in hooks, HookLost(h) PROVE GatewayInv' /\ PaidStays
  BY <1>10, GatewayQuiet DEF HookLost
<1>11. ASSUME NEW w \in Worker,
              \/ Ask(w) \/ ReadCurrent(w) \/ CloseOthers(w) \/ Overwrite(w) \/ Fault(w)
              \/ JobStep(w)
       PROVE  GatewayInv' /\ PaidStays
  BY <1>11, <1>q DEF Ask, ReadCurrent, CloseOthers, Overwrite, Fault, JobStep, Upkeep, ListPending,
                     NextPending, payVars
<1>12. ASSUME NEW w \in Caller, NEW p \in Payment, Verify(w, p) PROVE GatewayInv' /\ PaidStays
  BY <1>12, <1>q DEF Verify, payVars
<1>13. ASSUME NEW w \in Caller, NEW g \in Gift, StartGift(w, g) PROVE GatewayInv' /\ PaidStays
  BY <1>13, <1>q DEF StartGift, payVars
<1>14. CASE MySubscription \/ Tick \/ UNCHANGED vars
  BY <1>14, <1>q DEF MySubscription, Tick, vars, payVars
<1>15. ASSUME NEW p \in Payment, GrowOlder(p) PROVE GatewayInv' /\ PaidStays
  BY <1>15, <1>q DEF GrowOlder
<1> QED
  BY <1>1, <1>2, <1>3, <1>4, <1>5, <1>6, <1>7, <1>8, <1>9, <1>10, <1>11, <1>12, <1>13, <1>14, <1>15
     DEF Next, WorkerStep, JobStep, Environment, Worker

-----------------------------------------------------------------------------
(* Fulfilment.  A worker between claim and commit holds a payment that is    *)
(* not yet SUCCESS and that is settled with Cashfree; nobody else holds it.  *)
(* A worker that is about to tell the referral service is the only one.      *)

Settled(p) == order[p] = "paid" \/ p \in Free
Holds(w, p) == InGrant(w) /\ worker[w].grant = p
Tells(w, p) == At(w, "refer") /\ worker[w].grant = p
Wants(w, p) == (At(w, "claim") \/ InGrant(w)) /\ worker[w].grant = p

RowsTrue == \A p \in Payment : /\ row[p] = "SUCCESS" <=> sub[p] # NoSub
                               /\ row[p] = "SUCCESS" => Settled(p)
                               /\ told[p] <= IF row[p] = "SUCCESS" THEN 1 ELSE 0
WantsSettled == \A w \in Worker, p \in Payment : Wants(w, p) => Settled(p)
HoldsOpen == \A w \in Worker, p \in Payment : Holds(w, p) => row[p] # "SUCCESS"
TellsOnce == \A w \in Worker, p \in Payment : Tells(w, p) => row[p] = "SUCCESS" /\ told[p] = 0
Alone == \A v, w \in Worker, p \in Payment :
           v # w => ~(Holds(v, p) /\ Holds(w, p)) /\ ~(Tells(v, p) /\ Tells(w, p))

FulfilInv == RowsTrue /\ WantsSettled /\ HoldsOpen /\ TellsOnce /\ Alone

LEMMA FulfilInit == Init => FulfilInv
<1> SUFFICES ASSUME Init PROVE FulfilInv
  OBVIOUS
<1>1. \A w \in Worker, p \in Payment : ~Wants(w, p) /\ ~Holds(w, p) /\ ~Tells(w, p)
  BY DEF Init, Idle, Wants, Holds, Tells, InGrant, GrantStep, At
<1>2. RowsTrue
  BY DEF Init, RowsTrue, NoSub, Grant
<1> QED
  BY <1>1, <1>2 DEF FulfilInv, WantsSettled, HoldsOpen, TellsOnce, Alone

\* A step that fulfils nothing and tells nobody: rows and periods keep their
\* sense, and nobody begins to hold or to tell.
NobodyBegins ==
  \A w \in Worker, p \in Payment : /\ Holds(w, p)' => Holds(w, p)
                                   /\ Tells(w, p)' => Tells(w, p)
                                   /\ Wants(w, p)' => Wants(w, p) \/ Settled(p)'

SettledStays == \A p \in Payment : Settled(p) => Settled(p)'
SubsKept == \A p \in Payment : sub'[p] = NoSub <=> sub[p] = NoSub
RowsKept == \A p \in Payment : row'[p] = "SUCCESS" <=> row[p] = "SUCCESS"

Minor == RowsKept /\ SubsKept /\ SettledStays /\ told' = told /\ NobodyBegins

LEMMA MinorKeeps ==
  ASSUME FulfilInv, Minor
  PROVE  FulfilInv'
<1>1. RowsTrue'
  BY DEF FulfilInv, RowsTrue, Minor, RowsKept, SubsKept, SettledStays
<1>2. WantsSettled'
  BY DEF FulfilInv, WantsSettled, Minor, NobodyBegins, SettledStays
<1>3. HoldsOpen' /\ TellsOnce' /\ Alone'
  BY DEF FulfilInv, HoldsOpen, TellsOnce, Alone, Minor, NobodyBegins, RowsKept
<1> QED
  BY <1>1, <1>2, <1>3 DEF FulfilInv

LEMMA PaidIsSettled ==
  ASSUME PaidStays
  PROVE  SettledStays
  BY DEF PaidStays, Settled, SettledStays

\* Closing subscriptions makes none appear or disappear.
LEMMA ExpireKeeps ==
  ASSUME TypeOK, NEW gs, NEW g \in Grant
  PROVE  Expire(gs)[g] = NoSub <=> sub[g] = NoSub
<1>1. sub[g] \in SubType
  BY DEF TypeOK
<1>2. CASE g \in gs /\ sub[g].status = "ACTIVE"
  BY <1>1, <1>2 DEF Expire, NoSub, SubType
<1>3. CASE ~(g \in gs /\ sub[g].status = "ACTIVE")
  BY <1>3 DEF Expire
<1> QED
  BY <1>2, <1>3

LEMMA ExpireKeepsSubs ==
  ASSUME TypeOK, NEW gs, sub' = Expire(gs)
  PROVE  SubsKept
  BY ExpireKeeps DEF SubsKept, Grant

\* One worker moves: it stops, it begins to claim a payment that is settled,
\* it works for a gift, or it goes on with what it holds.
LEMMA WorkerMoves ==
  ASSUME TypeOK, NEW w \in Worker, NEW r,
         worker' = [worker EXCEPT ![w] = r],
         \/ r.pc \notin GrantStep \cup {"claim", "refer"}
         \/ r.pc = "claim" /\ (r.grant \in Payment => Settled(r.grant)')
         \/ r.pc # "refer" /\ r.grant \notin Payment
         \/ InGrant(w) /\ r.pc \in GrantStep /\ r.grant = worker[w].grant
  PROVE  NobodyBegins
<1> SUFFICES ASSUME NEW v \in Worker, NEW p \in Payment
             PROVE  /\ Holds(v, p)' => Holds(v, p)
                    /\ Tells(v, p)' => Tells(v, p)
                    /\ Wants(v, p)' => Wants(v, p) \/ Settled(p)'
  BY DEF NobodyBegins
<1>1. worker'[v] = IF v = w THEN r ELSE worker[v]
  BY DEF TypeOK
<1> USE DEF Holds, Tells, Wants, InGrant, At
<1>2. CASE v # w
  BY <1>1, <1>2
<1>3. CASE v = w
  BY <1>1, <1>3 DEF GrantStep
<1> QED
  BY <1>2, <1>3

LEMMA NobodyMoves == worker' = worker => NobodyBegins
  BY DEF NobodyBegins, Holds, Tells, Wants, InGrant, At

LEMMA RestStops ==
  ASSUME NEW w \in Worker
  PROVE  Rest(w).pc \notin GrantStep \cup {"claim", "refer"}
  BY DEF Rest, Idle, GrantStep

LEMMA DoneStops ==
  ASSUME TypeOK, NEW w \in Worker, Done(w)
  PROVE  NobodyBegins
  BY RestStops, WorkerMoves DEF Done

\* The rows, periods and tellings are left alone, and the workers move as above.
LEMMA QuietIsMinor ==
  ASSUME PaidStays, NobodyBegins, RowsKept, SubsKept, told' = told
  PROVE  Minor
  BY PaidIsSettled DEF Minor

-----------------------------------------------------------------------------
(* The three steps of a fulfilment that change what is promised *)

\* Winning the claim: the row lock is free and the row is not SUCCESS yet.
LEMMA ClaimKeeps ==
  ASSUME TypeOK, FulfilInv, PaidStays, NEW w \in Worker, Claim(w)
  PROVE  FulfilInv'
<1> DEFINE p == worker[w].grant
<1>s. RowsKept /\ SubsKept /\ told' = told
  BY DEF Claim, RowsKept, SubsKept
<1>1. CASE Done(w)
  BY <1>1, <1>s, DoneStops, QuietIsMinor, MinorKeeps
<1>2. CASE row[p] # "SUCCESS" /\ GoTo(w, "current")
  <2>1. At(w, "claim") /\ ~Claimed(p) /\ p \in Payment
    BY FieldTypes DEF Claim, At
  <2>2. \A v \in Worker : /\ worker'[v].grant = worker[v].grant
                          /\ worker'[v].pc = IF v = w THEN "current" ELSE worker[v].pc
    BY <1>2 DEF GoTo, TypeOK, WorkerType
  <2>3. \A v \in Worker, q \in Payment :
          /\ Holds(v, q)' <=> Holds(v, q) \/ (v = w /\ q = p)
          /\ Tells(v, q)' <=> Tells(v, q)
          /\ Wants(v, q)' <=> Wants(v, q)
    BY <2>1, <2>2 DEF Holds, Tells, Wants, InGrant, At, GrantStep
  <2>4. \A v \in Worker : ~Holds(v, p)
    BY <2>1 DEF Claimed, Holds
  <2>5. RowsTrue' /\ WantsSettled'
    BY <1>s, <2>3, PaidIsSettled
       DEF FulfilInv, RowsTrue, WantsSettled, RowsKept, SubsKept, SettledStays
  <2>6. HoldsOpen' /\ TellsOnce' /\ Alone'
    BY <1>2, <1>s, <2>3, <2>4 DEF FulfilInv, HoldsOpen, TellsOnce, Alone, RowsKept
  <2> QED
    BY <2>5, <2>6 DEF FulfilInv
<1> QED
  BY <1>1, <1>2 DEF Claim

\* The commit: the period appears with the status, and the worker that held
\* the payment becomes the one that tells.
LEMMA CreateKeeps ==
  ASSUME TypeOK, FulfilInv, PaidStays, NEW w \in Worker, Create(w)
  PROVE  FulfilInv'
<1> DEFINE g == worker[w].grant
           new == [status |-> "ACTIVE", ends |-> worker[w].base + Months[g]]
           e == Expire(worker[w].closes)
<1>1. g \in Grant /\ At(w, "create")
  BY FieldTypes DEF Create, At
<1>2. sub' = [e EXCEPT ![g] = new]
  BY DEF Create
<1>3. e \in SubsType /\ \A q \in Grant : e[q] = NoSub <=> sub[q] = NoSub
  BY ExpireOK, ExpireKeeps
<1>4. new # NoSub
  BY DEF NoSub
<1>5. \A q \in Payment : IF q = g THEN sub'[q] # NoSub ELSE sub'[q] = NoSub <=> sub[q] = NoSub
  <2> HIDE DEF e, new
  <2> QED
    BY <1>1, <1>2, <1>3, <1>4 DEF SubsType, Grant
<1>6. CASE g \notin Payment
  <2>1. SubsKept
    BY <1>5, <1>6 DEF SubsKept
  <2>2. NobodyBegins
    BY <1>6, WorkerMoves DEF Create, Idle, GrantStep
  <2> QED
    BY <1>6, <2>1, <2>2, QuietIsMinor, MinorKeeps DEF Create, RowsKept
<1>7. CASE g \in Payment
  <2>1. /\ row' = [row EXCEPT ![g] = "SUCCESS"]
        /\ GoTo(w, "refer")
        /\ told' = told /\ order' = order
    BY <1>7 DEF Create
  <2>2. \A q \in Payment : row'[q] = IF q = g THEN "SUCCESS" ELSE row[q]
    BY <2>1 DEF TypeOK
  <2>3. \A v \in Worker : /\ worker'[v].grant = worker[v].grant
                          /\ worker'[v].pc = IF v = w THEN "refer" ELSE worker[v].pc
    BY <2>1 DEF GoTo, TypeOK, WorkerType
  <2>4. \A v \in Worker, q \in Payment :
          /\ Holds(v, q)' <=> Holds(v, q) /\ v # w
          /\ Tells(v, q)' <=> Tells(v, q) \/ (v = w /\ q = g)
          /\ Wants(v, q)' <=> Wants(v, q) /\ v # w
    BY <1>1, <2>3 DEF Holds, Tells, Wants, InGrant, At, GrantStep
  <2>5. Holds(w, g) /\ Wants(w, g)
    BY <1>1 DEF Holds, Wants, InGrant, At, GrantStep
  <2>6. row[g] # "SUCCESS" /\ Settled(g) /\ told[g] = 0
    BY <1>7, <2>5, TypeOKFacts DEF FulfilInv, HoldsOpen, WantsSettled, RowsTrue
  <2>7. \A v \in Worker : ~Tells(v, g)
    BY <1>7, <2>6 DEF FulfilInv, TellsOnce
  <2>8. \A q \in Payment : Settled(q)' <=> Settled(q)
    BY <2>1 DEF Settled
  <2>9. \A q \in Payment : told[q] \in Nat
    BY TypeOKFacts
  <2> HIDE DEF g
  <2>10. RowsTrue'
    BY <1>5, <2>1, <2>2, <2>6, <2>8, <2>9 DEF FulfilInv, RowsTrue
  <2>11. WantsSettled'
    BY <2>4, <2>8 DEF FulfilInv, WantsSettled
  <2>12. HoldsOpen'
    BY <2>2, <2>4, <2>5 DEF FulfilInv, HoldsOpen, Alone
  <2>13. TellsOnce'
    BY <2>1, <2>2, <2>4, <2>6 DEF FulfilInv, TellsOnce
  <2>14. Alone'
    BY <2>4, <2>7 DEF FulfilInv, Alone
  <2> QED
    BY <2>10, <2>11, <2>12, <2>13, <2>14 DEF FulfilInv
<1> QED
  BY <1>6, <1>7

\* Telling the referral service: only this worker was about to.
LEMMA ReferKeeps ==
  ASSUME TypeOK, FulfilInv, PaidStays, NEW w \in Worker, Refer(w)
  PROVE  FulfilInv'
<1>p. PICK p \in Payment : p = worker[w].grant
  BY FieldTypes DEF Refer, At
<1>1. At(w, "refer")
  BY DEF Refer
<1>2. RowsKept /\ SubsKept
  BY DEF Refer, RowsKept, SubsKept, subVars
<1>3. NobodyBegins
  BY DoneStops DEF Refer
<1>4. CASE p \in Free
  BY <1>p, <1>2, <1>3, <1>4, QuietIsMinor, MinorKeeps DEF Refer
<1>5. CASE p \notin Free
  <2>1. \A q \in Payment : told'[q] = IF q = p THEN told[q] + 1 ELSE told[q]
    BY <1>p, <1>5, TypeOKFacts DEF Refer
  <2>2. Tells(w, p)
    BY <1>p, <1>1 DEF Tells
  <2>3. row[p] = "SUCCESS" /\ told[p] = 0
    BY <2>2 DEF FulfilInv, TellsOnce
  <2>4. SettledStays
    BY PaidIsSettled
  <2>5. ~Tells(w, p)'
    <3>1. worker'[w] = Rest(w)
      BY DEF Refer, Done, TypeOK
    <3> QED
      BY <3>1, RestStops DEF Tells, At
  <2>6. ASSUME NEW v \in Worker PROVE ~Tells(v, p)'
    <3>1. CASE v = w
      BY <2>5, <3>1
    <3>2. CASE v # w
      <4>1. ~Tells(v, p)
        BY <2>2, <3>2 DEF FulfilInv, Alone
      <4> QED
        BY <1>3, <4>1 DEF NobodyBegins
    <3> QED
      BY <3>1, <3>2
  <2>7. RowsTrue'
    BY <1>2, <2>1, <2>3, <2>4 DEF FulfilInv, RowsTrue, RowsKept, SubsKept, SettledStays
  <2>8. WantsSettled' /\ HoldsOpen' /\ Alone'
    BY <1>2, <1>3, <2>4 DEF FulfilInv, WantsSettled, HoldsOpen, Alone, NobodyBegins, RowsKept, SettledStays
  <2>9. TellsOnce'
    <3>1. SUFFICES ASSUME NEW v \in Worker, NEW q \in Payment, Tells(v, q)'
                   PROVE  row'[q] = "SUCCESS" /\ told'[q] = 0
      BY DEF TellsOnce
    <3>2. Tells(v, q)
      BY <1>3, <3>1 DEF NobodyBegins
    <3>3. q # p
      BY <2>6, <3>1
    <3> QED
      BY <1>2, <2>1, <3>2, <3>3 DEF FulfilInv, TellsOnce, RowsKept
  <2> QED
    BY <2>7, <2>8, <2>9 DEF FulfilInv
<1> QED
  BY <1>4, <1>5

LEMMA FulfilStep ==
  TypeOK /\ GatewayInv /\ FulfilInv /\ [Next]_vars => FulfilInv'
<1> SUFFICES ASSUME TypeOK, GatewayInv, FulfilInv, [Next]_vars PROVE FulfilInv'
  OBVIOUS
<1>t. /\ row \in [Payment -> RowStatus]
      /\ hooks \in SUBSET Hook
      /\ PaidStays
  BY TypeOKFacts, GatewayStep
<1>w. Caller \subseteq Worker /\ Job \subseteq Worker
  BY DEF Worker
<1>g. Gift \cap Payment = {}
  BY PurchaseAssumption
\* A step that leaves rows, periods and tellings alone.
<1>q. ASSUME row' = row, sub' = sub, told' = told, NobodyBegins PROVE FulfilInv'
  BY <1>q, <1>t, QuietIsMinor, MinorKeeps DEF RowsKept, SubsKept
\* A step that closes subscriptions.
<1>e. ASSUME NEW gs, row' = row, sub' = Expire(gs), told' = told, NobodyBegins PROVE FulfilInv'
  BY <1>e, <1>t, ExpireKeepsSubs, QuietIsMinor, MinorKeeps DEF RowsKept
<1>1. ASSUME NEW p \in Payment, CreateOrder(p) PROVE FulfilInv'
  <2>1. NobodyBegins /\ told' = told /\ sub' = sub
    BY <1>1, NobodyMoves DEF CreateOrder, subVars
  <2>2. RowsKept
    BY <1>1, <1>t DEF CreateOrder, RowsKept
  <2> QED
    BY <1>t, <2>1, <2>2, QuietIsMinor, MinorKeeps DEF SubsKept
<1>2. ASSUME NEW w \in Caller, NEW p \in Payment, CreateFreeOrder(w, p) PROVE FulfilInv'
  <2> DEFINE r == [Idle EXCEPT !.pc = "claim", !.grant = p]
  <2>1. r.pc = "claim" /\ r.grant = p /\ Settled(p)'
    BY <1>2 DEF Idle, CreateFreeOrder, Settled
  <2>2. NobodyBegins
    BY <1>2, <1>w, <2>1, WorkerMoves DEF CreateFreeOrder
  <2>3. RowsKept /\ told' = told /\ sub' = sub
    BY <1>2, <1>t DEF CreateFreeOrder, RowsKept, subVars
  <2> QED
    BY <1>t, <2>2, <2>3, QuietIsMinor, MinorKeeps DEF SubsKept
<1>3. ASSUME NEW w \in Caller, NEW p \in Payment, Verify(w, p) PROVE FulfilInv'
  <2> DEFINE r == [Idle EXCEPT !.pc = "ask", !.grant = p]
  <2>1. r.pc \notin GrantStep \cup {"claim", "refer"}
    BY DEF Idle, GrantStep
  <2>2. NobodyBegins
    BY <1>3, <1>w, <2>1, WorkerMoves DEF Verify
  <2> QED
    BY <1>3, <1>q, <2>2 DEF Verify, payVars, subVars
<1>4. ASSUME NEW w \in Caller, NEW p \in Payment, NEW kind \in {"success", "failed"},
             Webhook(w, p, kind)
      PROVE  FulfilInv'
  <2>1. CASE row[p] = "SUCCESS"
    BY <1>4, <1>q, <2>1, NobodyMoves DEF Webhook, subVars
  <2>2. CASE row[p] # "SUCCESS"
    <3> DEFINE r == [Idle EXCEPT !.grant = p, !.via = kind,
                       !.pc = IF kind = "success" THEN "claim" ELSE "fail"]
    <3>1. r.grant = p /\ r.pc = IF kind = "success" THEN "claim" ELSE "fail"
      BY DEF Idle
    <3>2. kind = "success" => Settled(p)'
      <4>1. <<p, kind>> \in hooks /\ order' = order
        BY <1>4 DEF Webhook
      <4>2. kind = "success" => order[p] = "paid"
        BY <4>1 DEF GatewayInv, HooksTrue
      <4> QED
        BY <4>1, <4>2 DEF Settled
    <3>3. worker' = [worker EXCEPT ![w] = r]
      BY <1>4, <2>2 DEF Webhook
    <3> HIDE DEF r
    <3>4. \/ r.pc \notin GrantStep \cup {"claim", "refer"}
          \/ r.pc = "claim" /\ (r.grant \in Payment => Settled(r.grant)')
      <4>1. CASE kind = "success"
        BY <3>1, <3>2, <4>1
      <4>2. CASE kind # "success"
        BY <3>1, <4>2 DEF GrantStep
      <4> QED
        BY <4>1, <4>2
    <3>5. NobodyBegins
      BY <1>w, <3>3, <3>4, WorkerMoves
    <3> QED
      BY <1>4, <1>q, <3>5 DEF Webhook, subVars
  <2> QED
    BY <2>1, <2>2
<1>5. ASSUME NEW w \in Worker, Ask(w) PROVE FulfilInv'
  <2>1. row' = row /\ sub' = sub /\ told' = told /\ order' = order
    BY <1>5 DEF Ask, payVars, subVars
  <2>2. CASE worker' = [worker EXCEPT ![w] = Rest(w)]
    BY <1>q, <2>1, <2>2, RestStops, WorkerMoves
  <2>3. CASE order[worker[w].grant] = "paid" /\ GoTo(w, "claim")
    <3>1. PICK r : r = [worker[w] EXCEPT !.pc = "claim"]
      OBVIOUS
    <3>2. r.pc = "claim" /\ r.grant = worker[w].grant
      BY <3>1, FieldTypes DEF WorkerType
    <3>3. Settled(r.grant)'
      BY <2>1, <2>3, <3>2 DEF Settled
    <3>4. worker' = [worker EXCEPT ![w] = r]
      BY <2>3, <3>1 DEF GoTo
    <3>5. NobodyBegins
      BY <3>2, <3>3, <3>4, WorkerMoves
    <3> QED
      BY <1>q, <2>1, <3>5
  <2>4. CASE GoTo(w, "fail")
    <3> DEFINE r == [worker[w] EXCEPT !.pc = "fail"]
    <3>1. r.pc \notin GrantStep \cup {"claim", "refer"}
      BY FieldTypes DEF WorkerType, GrantStep
    <3>2. worker' = [worker EXCEPT ![w] = r]
      BY <2>4 DEF GoTo
    <3> QED
      BY <1>q, <2>1, <3>1, <3>2, WorkerMoves
  <2> QED
    BY <1>5, <2>2, <2>3, <2>4 DEF Ask
<1>6. ASSUME NEW w \in Worker, MarkFailed(w) PROVE FulfilInv'
  <2>1. NobodyBegins /\ sub' = sub /\ told' = told
    BY <1>6, DoneStops DEF MarkFailed, subVars
  <2>2. RowsKept
    BY <1>6, <1>t DEF MarkFailed, RowsKept
  <2> QED
    BY <1>t, <2>1, <2>2, QuietIsMinor, MinorKeeps DEF SubsKept
<1>7. ASSUME NEW w \in Worker, Claim(w) \/ Create(w) \/ Refer(w) PROVE FulfilInv'
  BY <1>7, <1>t, ClaimKeeps, CreateKeeps, ReferKeeps
<1>8. ASSUME NEW w \in Caller, NEW g \in Gift, StartGift(w, g) PROVE FulfilInv'
  <2> DEFINE r == [Idle EXCEPT !.pc = "current", !.grant = g]
  <2>1. r.pc # "refer" /\ r.grant \notin Payment
    BY <1>g DEF Idle
  <2>2. NobodyBegins
    BY <1>8, <1>w, <2>1, WorkerMoves DEF StartGift
  <2> QED
    BY <1>8, <1>q, <2>2 DEF StartGift, payVars
<1>9. ASSUME NEW w \in Worker, ReadCurrent(w) \/ CloseOthers(w) \/ Overwrite(w) PROVE FulfilInv'
  <2>1. InGrant(w) /\ worker[w] \in WorkerType
    BY <1>9, FieldTypes DEF ReadCurrent, CloseOthers, Overwrite, At, InGrant, GrantStep
  <2>2. PICK r : worker' = [worker EXCEPT ![w] = r] /\ r.pc \in GrantStep /\ r.grant = worker[w].grant
    <3>1. CASE ReadCurrent(w)
      <4>1. PICK base : worker' = [worker EXCEPT ![w].base = base, ![w].pc = "close"]
        BY <3>1 DEF ReadCurrent
      <4> DEFINE r == [worker[w] EXCEPT !.base = base, !.pc = "close"]
      <4>2. r.pc \in GrantStep /\ r.grant = worker[w].grant
        BY <2>1 DEF WorkerType, GrantStep
      <4>3. worker' = [worker EXCEPT ![w] = r]
        BY <2>1, <4>1 DEF WorkerType
      <4> QED
        BY <4>2, <4>3
    <3>2. CASE CloseOthers(w)
      <4> DEFINE c == {g \in Grant : sub[g].status = "ACTIVE"}
                 r == [worker[w] EXCEPT !.pc = "overwrite", !.closes = c]
      <4>1. r.pc \in GrantStep /\ r.grant = worker[w].grant
        BY <2>1 DEF WorkerType, GrantStep
      <4>2. worker' = [worker EXCEPT ![w] = r]
        BY <2>1, <3>2 DEF WorkerType, CloseOthers
      <4> QED
        BY <4>1, <4>2
    <3>3. CASE Overwrite(w)
      <4> DEFINE c == {g \in worker[w].closes : sub[g].status = "ACTIVE"}
                 r == [worker[w] EXCEPT !.pc = "create", !.closes = c]
      <4>1. r.pc \in GrantStep /\ r.grant = worker[w].grant
        BY <2>1 DEF WorkerType, GrantStep
      <4>2. worker' = [worker EXCEPT ![w] = r]
        BY <2>1, <3>3 DEF WorkerType, Overwrite
      <4> QED
        BY <4>1, <4>2
    <3> QED
      BY <1>9, <3>1, <3>2, <3>3
  <2>3. NobodyBegins
    BY <2>1, <2>2, WorkerMoves
  <2>4. row' = row /\ told' = told
    BY <1>9 DEF ReadCurrent, CloseOthers, Overwrite, payVars
  <2>5. sub' = sub \/ \E gs : sub' = Expire(gs)
    BY <1>9 DEF ReadCurrent, CloseOthers, Overwrite, subVars
  <2> QED
    BY <1>q, <1>e, <2>3, <2>4, <2>5
<1>10. ASSUME NEW w \in Job, JobStep(w) PROVE FulfilInv'
  <2>1. w \in Worker /\ worker[w] \in WorkerType
    BY <1>w, FieldTypes
  <2>2. PICK r : worker' = [worker EXCEPT ![w] = r] /\ r.pc \notin GrantStep \cup {"claim", "refer"}
    <3>1. CASE Upkeep(w)
      <4> DEFINE r == [worker[w] EXCEPT !.pc = "list"]
      <4>1. r.pc \notin GrantStep \cup {"claim", "refer"} /\ worker' = [worker EXCEPT ![w] = r]
        BY <2>1, <3>1 DEF WorkerType, GrantStep, Upkeep, GoTo
      <4> QED
        BY <4>1
    <3>2. CASE ListPending(w)
      <4> DEFINE l == {p \in Payment \ Free : row[p] = "PENDING" /\ age[p] = "due"}
                 r == [worker[w] EXCEPT !.pc = "next", !.todo = l]
      <4>1. r.pc \notin GrantStep \cup {"claim", "refer"}
        BY <2>1 DEF WorkerType, GrantStep
      <4>2. worker' = [worker EXCEPT ![w] = r]
        BY <2>1, <3>2 DEF WorkerType, ListPending
      <4> QED
        BY <4>1, <4>2
    <3>3. CASE NextPending(w)
      <4>1. CASE worker' = [worker EXCEPT ![w] = Idle]
        <5>1. Idle.pc \notin GrantStep \cup {"claim", "refer"}
          BY DEF Idle, GrantStep
        <5> QED
          BY <4>1, <5>1
      <4>2. ASSUME NEW p \in worker[w].todo,
                   worker' = [worker EXCEPT ![w].pc = "ask", ![w].grant = p, ![w].todo = @ \ {p}]
            PROVE  \E r : /\ worker' = [worker EXCEPT ![w] = r]
                          /\ r.pc \notin GrantStep \cup {"claim", "refer"}
        <5> DEFINE r == [worker[w] EXCEPT !.pc = "ask", !.grant = p, !.todo = worker[w].todo \ {p}]
        <5>1. r.pc \notin GrantStep \cup {"claim", "refer"}
          BY <2>1 DEF WorkerType, GrantStep
        <5>2. worker' = [worker EXCEPT ![w] = r]
          BY <2>1, <4>2 DEF WorkerType
        <5> QED
          BY <5>1, <5>2
      <4> QED
        BY <3>3, <4>1, <4>2 DEF NextPending
    <3> QED
      BY <1>10, <3>1, <3>2, <3>3 DEF JobStep
  <2>3. NobodyBegins
    BY <2>1, <2>2, WorkerMoves
  <2>4. row' = row /\ told' = told
    BY <1>10 DEF JobStep, Upkeep, ListPending, NextPending, payVars
  <2>5. sub' = sub \/ \E gs : sub' = Expire(gs)
    BY <1>10 DEF JobStep, Upkeep, ListPending, NextPending, subVars
  <2> QED
    BY <1>q, <1>e, <2>3, <2>4, <2>5
<1>11. CASE MySubscription
  BY <1>11, <1>e, NobodyMoves DEF MySubscription, payVars
<1>12. ASSUME NEW p \in Payment, Pay(p) \/ TryFails(p) \/ OrderExpires(p) \/ GrowOlder(p) PROVE FulfilInv'
  BY <1>12, <1>q, NobodyMoves DEF Pay, TryFails, OrderExpires, GrowOlder, subVars
<1>13. ASSUME NEW h \in hooks, HookLost(h) PROVE FulfilInv'
  BY <1>13, <1>q, NobodyMoves DEF HookLost, subVars
<1>14. ASSUME NEW w \in Worker, Fault(w) PROVE FulfilInv'
  <2>1. NobodyBegins
    <3>1. Idle.pc \notin GrantStep \cup {"claim", "refer"}
      BY DEF Idle, GrantStep
    <3>2. CASE worker' = [worker EXCEPT ![w] = Idle]
      BY <3>1, <3>2, WorkerMoves
    <3>3. CASE worker' = [worker EXCEPT ![w] = Rest(w)]
      BY <3>3, RestStops, WorkerMoves
    <3> QED
      BY <1>14, <3>2, <3>3 DEF Fault
  <2> QED
    BY <1>14, <1>q, <2>1 DEF Fault, payVars
<1>15. CASE Tick \/ UNCHANGED vars
  BY <1>15, <1>q, NobodyMoves DEF Tick, vars, payVars, subVars
<1> QED
  BY <1>1, <1>2, <1>3, <1>4, <1>5, <1>6, <1>7, <1>8, <1>9, <1>10, <1>11, <1>12, <1>13, <1>14, <1>15
     DEF Next, WorkerStep, Environment

LEMMA FulfilAlways == Spec => [](TypeOK /\ GatewayInv /\ FulfilInv)
<1>1. Init => TypeOK /\ GatewayInv /\ FulfilInv
  BY TypeInit, GatewayInit, FulfilInit
<1>2. (TypeOK /\ GatewayInv /\ FulfilInv) /\ [Next]_vars => (TypeOK /\ GatewayInv /\ FulfilInv)'
  BY TypeStep, GatewayStep, FulfilStep
<1> QED
  BY <1>1, <1>2, PTL DEF Spec

\* A payment is SUCCESS exactly when its period was granted, and only when
\* Cashfree has the money or there was nothing to pay (fulfill).
THEOREM PaidIsGranted == Spec => []GrantedIffPaid
<1>1. FulfilInv => GrantedIffPaid
  BY DEF FulfilInv, RowsTrue, Settled, GrantedIffPaid
<1> QED
  BY <1>1, FulfilAlways, PTL

\* However many handlers and jobs fulfil one payment, the referral service
\* hears of it at most once, and never before it is a success (safeReferral).
THEOREM RefersOnce == Spec => []ToldOnce
<1>1. FulfilInv => ToldOnce
  BY DEF FulfilInv, RowsTrue, ToldOnce
<1> QED
  BY <1>1, FulfilAlways, PTL

\* No step takes a fulfilled payment back: markFailed looks at the status again,
\* and an order is created for a new row only.
THEOREM FulfilledStays == Spec => SuccessIsFinal
<1> DEFINE Stays == \A p \in Payment : row[p] = "SUCCESS" => row'[p] = "SUCCESS"
<1>1. ASSUME TypeOK, Next PROVE Stays
  <2>t. row \in [Payment -> RowStatus]
    BY <1>1, TypeOKFacts
  <2>1. ASSUME NEW p \in Payment, CreateOrder(p) PROVE Stays
    BY <2>t, <2>1 DEF CreateOrder
  <2>2. ASSUME NEW w \in Caller, NEW p \in Payment, CreateFreeOrder(w, p) PROVE Stays
    BY <2>t, <2>2 DEF CreateFreeOrder
  <2>3. ASSUME NEW w \in Worker, MarkFailed(w) PROVE Stays
    BY <2>t, <2>3 DEF MarkFailed
  <2>4. ASSUME NEW w \in Worker, Create(w) PROVE Stays
    BY <2>t, <2>4 DEF Create
  <2>5. ASSUME row' = row PROVE Stays
    BY <2>5
  <2>6. ASSUME NEW w \in Worker, WorkerStep(w) PROVE Stays
    <3>1. \/ MarkFailed(w) \/ Create(w) \/ row' = row
      BY <2>6 DEF WorkerStep, Ask, Claim, ReadCurrent, CloseOthers, Overwrite, Refer, payVars
    <3> QED
      BY <3>1, <2>3, <2>4, <2>5
  <2>7. ASSUME NEW w \in Job, JobStep(w) PROVE Stays
    <3>1. row' = row
      BY <2>7 DEF JobStep, Upkeep, ListPending, NextPending, payVars
    <3> QED
      BY <3>1, <2>5
  <2>8. CASE Environment \/ MySubscription
    <3>1. row' = row
      BY <2>8 DEF Environment, MySubscription, Pay, TryFails, OrderExpires, GrowOlder, HookLost, Fault,
                  Tick, payVars
    <3> QED
      BY <3>1, <2>5
  <2>9. ASSUME NEW w \in Caller, NEW p \in Payment, NEW kind \in {"success", "failed"},
               Verify(w, p) \/ Webhook(w, p, kind)
        PROVE  Stays
    <3>1. row' = row
      BY <2>9 DEF Verify, Webhook, payVars
    <3> QED
      BY <3>1, <2>5
  <2>10. ASSUME NEW w \in Caller, NEW g \in Gift, StartGift(w, g) PROVE Stays
    <3>1. row' = row
      BY <2>10 DEF StartGift, payVars
    <3> QED
      BY <3>1, <2>5
  <2> HIDE DEF Stays
  <2> QED
    BY <1>1, <2>1, <2>2, <2>6, <2>7, <2>8, <2>9, <2>10 DEF Next
<1>2. TypeOK /\ [Next]_vars => [Stays]_vars
  BY <1>1
<1>3. TypeOK /\ [Next]_vars => [\A p \in Payment : row[p] = "SUCCESS" => row'[p] = "SUCCESS"]_vars
  BY <1>2
<1> QED
  BY <1>3, TypeCorrect, PTL DEF Spec, SuccessIsFinal

-----------------------------------------------------------------------------
(* Time.  While no two grants have overlapped and no gift died half way, at  *)
(* most one worker is in a grant, one row is active and it ends on the day   *)
(* owed; the worker has read that day, and closes every row that is active.  *)
(* Only a gift that has closed the old row and not yet written the new one   *)
(* leaves the student without premium for a moment.                          *)

Active(g) == sub[g].status = "ACTIVE"
OneGranter == \A v, w \in Worker : InGrant(v) /\ InGrant(w) => v = w
OneActive == \A g \in Grant : Active(g) => /\ sub[g].ends = owed
                                           /\ \A x \in Grant : Active(x) => x = g
GiftOpen == \E w \in Worker : At(w, "create") /\ worker[w].grant \in Gift
\* The worker adds to what is owed, ...
Adds(w) == worker[w].pc \in {"close", "overwrite", "create"} => worker[w].base = Later(owed, now)
\* ... and closes whatever is active.
Closes(w) == worker[w].pc \in {"overwrite", "create"} =>
               \A g \in Grant : Active(g) => g \in worker[w].closes

TimeInv ==
  ~disturbed =>
    /\ OneGranter
    /\ OneActive
    /\ HasWhatIsOwed \/ GiftOpen
    /\ \A w \in Worker : Adds(w) /\ Closes(w)

LEMMA TimeInit == Init => TimeInv
<1> SUFFICES ASSUME Init PROVE TimeInv
  OBVIOUS
<1>1. \A w \in Worker : worker[w].pc = "idle"
  BY DEF Init, Idle
<1>2. \A g \in Grant : ~Active(g)
  BY DEF Init, NoSub, Active
<1>3. HasWhatIsOwed
  BY DEF Init, HasWhatIsOwed
<1> QED
  BY <1>1, <1>2, <1>3 DEF TimeInv, OneGranter, OneActive, InGrant, GrantStep, Adds, Closes

\* What closing rows does to one of them.
LEMMA ExpireFacts ==
  ASSUME TypeOK, NEW gs, NEW g \in Grant
  PROVE  /\ Expire(gs)[g].ends = sub[g].ends
         /\ Expire(gs)[g].status = "ACTIVE" <=> Active(g) /\ g \notin gs
<1>1. sub[g] \in SubType
  BY DEF TypeOK
<1>2. Expire(gs)[g] = IF g \in gs /\ sub[g].status = "ACTIVE"
                        THEN [sub[g] EXCEPT !.status = "EXPIRED"] ELSE sub[g]
  BY DEF Expire
<1> QED
  BY <1>1, <1>2 DEF SubType, Active

SubTypes == \A g \in Grant : sub[g].ends \in Nat

LEMMA EndsTypes ==
  ASSUME TypeOK
  PROVE  SubTypes
  BY DEF TypeOK, SubType, SubTypes

\* Rows are left alone, or those that have lapsed are closed: what is owed is
\* never among them as long as it lies ahead.
OnlyLapses == sub' = sub \/ sub' = Expire(Lapsed)

LEMMA LapsesKeep ==
  ASSUME TypeOK, OnlyLapses, now' = now, owed' = owed
  PROVE  /\ \A g \in Grant : Active(g)' => Active(g) /\ sub'[g].ends = sub[g].ends
         /\ HasWhatIsOwed => HasWhatIsOwed'
<1>0. SubTypes /\ now \in Nat /\ owed \in Nat
  BY EndsTypes, TypeOKFacts
<1>1. CASE sub' = sub
  BY <1>1 DEF Active, HasWhatIsOwed
<1>2. CASE sub' = Expire(Lapsed)
  <2>1. \A g \in Grant : /\ sub'[g].ends = sub[g].ends
                         /\ Active(g)' <=> Active(g) /\ g \notin Lapsed
    BY <1>2, ExpireFacts DEF Active
  <2>2. ASSUME HasWhatIsOwed, owed > now
        PROVE  \E g \in Grant : Active(g)' /\ sub'[g].ends >= owed
    <3>1. PICK g \in Grant : Active(g) /\ sub[g].ends >= owed
      BY <2>2 DEF HasWhatIsOwed, Active
    <3>2. g \notin Lapsed
      BY <1>0, <2>2, <3>1 DEF Lapsed, SubTypes
    <3> QED
      BY <2>1, <3>1, <3>2
  <2>3. HasWhatIsOwed => HasWhatIsOwed'
    BY <2>2 DEF HasWhatIsOwed, Active
  <2> QED
    BY <2>1, <2>3
<1> QED
  BY <1>1, <1>2 DEF OnlyLapses

\* A step in which nobody enters a grant or goes on with one.
Unmoved == \A v \in Worker : InGrant(v)' => worker'[v] = worker[v]

LEMMA QuietTime ==
  ASSUME TypeOK, TimeInv, OnlyLapses, now' = now, owed' = owed, Unmoved,
         disturbed => disturbed',
         ~disturbed' /\ GiftOpen => GiftOpen'
  PROVE  TimeInv'
<1> SUFFICES ASSUME ~disturbed' PROVE TimeInv'
  BY DEF TimeInv
<1>0. /\ OneGranter /\ OneActive /\ (HasWhatIsOwed \/ GiftOpen)
      /\ \A w \in Worker : Adds(w) /\ Closes(w)
  BY DEF TimeInv
<1>1. \A g \in Grant : Active(g)' => Active(g) /\ sub'[g].ends = sub[g].ends
  BY LapsesKeep
<1>2. OneGranter'
  BY <1>0 DEF Unmoved, OneGranter, InGrant
<1>3. OneActive'
  <2> SUFFICES ASSUME NEW g \in Grant, Active(g)'
               PROVE  sub'[g].ends = owed' /\ \A x \in Grant : Active(x)' => x = g
    BY DEF OneActive
  <2> QED
    BY <1>0, <1>1 DEF OneActive
<1>4. (HasWhatIsOwed \/ GiftOpen)'
  BY <1>0, LapsesKeep
<1>5. ASSUME NEW w \in Worker PROVE Adds(w)' /\ Closes(w)'
  <2>1. CASE ~InGrant(w)'
    BY <2>1 DEF Adds, Closes, InGrant, GrantStep
  <2>2. CASE InGrant(w)'
    <3>1. worker'[w] = worker[w]
      BY <2>2 DEF Unmoved
    <3>2. Adds(w)'
      BY <1>0, <3>1 DEF Adds, Later
    <3>3. Closes(w)'
      BY <1>0, <1>1, <3>1 DEF Closes
    <3> QED
      BY <3>2, <3>3
  <2> QED
    BY <2>1, <2>2
<1> QED
  BY <1>2, <1>3, <1>4, <1>5 DEF TimeInv

\* One worker does something that is no part of a grant.
LEMMA AsideTime ==
  ASSUME TypeOK, TimeInv, OnlyLapses, now' = now, owed' = owed, NEW w \in Worker, NEW r,
         worker' = [worker EXCEPT ![w] = r], r.pc \notin GrantStep,
         disturbed => disturbed',
         At(w, "create") /\ worker[w].grant \in Gift => disturbed'
  PROVE  TimeInv'
<1>1. \A v \in Worker : worker'[v] = IF v = w THEN r ELSE worker[v]
  BY DEF TypeOK
<1>2. Unmoved
  BY <1>1 DEF Unmoved, InGrant
<1>3. ASSUME ~disturbed', GiftOpen PROVE GiftOpen'
  <2>1. PICK v \in Worker : At(v, "create") /\ worker[v].grant \in Gift
    BY <1>3 DEF GiftOpen
  <2>2. v # w
    BY <1>3, <2>1
  <2>3. worker'[v] = worker[v]
    BY <1>1, <2>2
  <2> QED
    BY <2>1, <2>3 DEF GiftOpen, At
<1> QED
  BY <1>2, <1>3, QuietTime

LEMMA NobodyTime ==
  ASSUME TypeOK, TimeInv, OnlyLapses, now' = now, owed' = owed, worker' = worker, disturbed' = disturbed
  PROVE  TimeInv'
<1>1. Unmoved
  BY DEF Unmoved
<1>2. GiftOpen => GiftOpen'
  BY DEF GiftOpen, At
<1> QED
  BY <1>1, <1>2, QuietTime

\* A worker begins a grant: if nobody else is in one, it is the only granter.
LEMMA EnterTime ==
  ASSUME TypeOK, TimeInv, NEW w \in Worker, NEW r,
         worker' = [worker EXCEPT ![w] = r], r.pc = "current",
         ~InGrant(w), Enter(w), sub' = sub, now' = now, owed' = owed
  PROVE  TimeInv'
<1> SUFFICES ASSUME ~disturbed' PROVE TimeInv'
  BY DEF TimeInv
<1>0. /\ OneActive /\ (HasWhatIsOwed \/ GiftOpen)
      /\ \A v \in Worker : ~InGrant(v)
  BY DEF TimeInv, Enter
<1>1. \A v \in Worker : worker'[v] = IF v = w THEN r ELSE worker[v]
  BY DEF TypeOK
<1>2. \A v \in Worker : v # w => ~InGrant(v)'
  BY <1>0, <1>1 DEF InGrant
<1>3. OneGranter'
  BY <1>2 DEF OneGranter
<1>4. OneActive'
  BY <1>0 DEF OneActive, Active
<1>5. HasWhatIsOwed'
  <2>1. ~GiftOpen
    BY <1>0 DEF GiftOpen, InGrant, GrantStep, At
  <2> QED
    BY <1>0, <2>1 DEF HasWhatIsOwed
<1>6. ASSUME NEW v \in Worker PROVE Adds(v)' /\ Closes(v)'
  BY <1>1, <1>2 DEF Adds, Closes, InGrant, GrantStep
<1> QED
  BY <1>3, <1>4, <1>5, <1>6 DEF TimeInv

\* The only granter goes on with its grant.
LEMMA GranterTime ==
  ASSUME TypeOK, TimeInv, ~disturbed, NEW w \in Worker, NEW r, InGrant(w),
         worker' = [worker EXCEPT ![w] = r]
  PROVE  /\ worker'[w] = r
         /\ \A v \in Worker : v # w => ~InGrant(v) /\ ~InGrant(v)'
         /\ OneGranter'
         /\ Adds(w)' /\ Closes(w)' => \A v \in Worker : Adds(v)' /\ Closes(v)'
<1>1. \A v \in Worker : worker'[v] = IF v = w THEN r ELSE worker[v]
  BY DEF TypeOK
<1>2. \A v \in Worker : v # w => ~InGrant(v)
  BY DEF TimeInv, OneGranter
<1>3. \A v \in Worker : v # w => ~InGrant(v)'
  BY <1>1, <1>2 DEF InGrant
<1>4. OneGranter'
  BY <1>3 DEF OneGranter
<1>5. \A v \in Worker : v # w => Adds(v)' /\ Closes(v)'
  BY <1>3 DEF Adds, Closes, InGrant, GrantStep
<1> QED
  BY <1>1, <1>2, <1>3, <1>4, <1>5

\* What it reads is the day owed, or today if that has passed.
LEMMA ReadTime ==
  ASSUME TypeOK, TimeInv, NEW w \in Worker, ReadCurrent(w)
  PROVE  TimeInv'
<1> SUFFICES ASSUME ~disturbed' PROVE TimeInv'
  BY DEF TimeInv
<1>0. /\ sub' = sub /\ owed' = owed /\ now' = now /\ ~disturbed /\ At(w, "current")
      /\ now \in Nat /\ owed \in Nat /\ SubTypes
  BY TypeOKFacts, EndsTypes DEF ReadCurrent, subVars
<1>1. InGrant(w) /\ worker[w] \in WorkerType
  BY <1>0, FieldTypes DEF InGrant, GrantStep, At
<1>2. OneActive /\ HasWhatIsOwed
  <2>1. ~GiftOpen
    BY <1>0, <1>1 DEF TimeInv, OneGranter, GiftOpen, At, InGrant, GrantStep
  <2> QED
    BY <1>0, <2>1 DEF TimeInv
<1>3. PICK base : /\ worker' = [worker EXCEPT ![w].base = base, ![w].pc = "close"]
                  /\ base = Later(owed, now)
  <2>1. CASE \A g \in Grant : ~Running(g)
    <3>1. ~(owed > now)
      BY <1>0, <1>2, <2>1 DEF HasWhatIsOwed, Running, SubTypes
    <3>2. Later(owed, now) = now
      BY <3>1 DEF Later
    <3>3. \A g \in Grant : ~(Running(g) /\ \A x \in Grant : Running(x) => sub[x].ends <= sub[g].ends)
      BY <2>1
    <3> QED
      BY <2>1, <3>2, <3>3 DEF ReadCurrent
  <2>2. CASE ~(\A g \in Grant : ~Running(g))
    <3>1. PICK g \in Grant :
            Running(g) /\ worker' = [worker EXCEPT ![w].base = sub[g].ends, ![w].pc = "close"]
      BY <2>2 DEF ReadCurrent
    <3>2. sub[g].ends = owed /\ sub[g].ends > now
      BY <1>2, <3>1 DEF OneActive, Active, Running
    <3>3. Later(owed, now) = owed
      BY <3>2 DEF Later
    <3> QED
      BY <3>1, <3>2, <3>3
  <2> QED
    BY <2>1, <2>2
<1>4. PICK r : r = [worker[w] EXCEPT !.base = base, !.pc = "close"]
  OBVIOUS
<1>5. worker' = [worker EXCEPT ![w] = r] /\ r.base = base /\ r.pc = "close"
  BY <1>1, <1>3, <1>4 DEF WorkerType
<1>6. worker'[w] = r /\ OneGranter' /\ (Adds(w)' /\ Closes(w)' => \A v \in Worker : Adds(v)' /\ Closes(v)')
  BY <1>0, <1>1, <1>5, GranterTime
<1>7. Adds(w)' /\ Closes(w)'
  BY <1>0, <1>3, <1>5, <1>6 DEF Adds, Closes, Later
<1>8. OneActive' /\ HasWhatIsOwed'
  BY <1>0, <1>2 DEF OneActive, HasWhatIsOwed, Active
<1> QED
  BY <1>6, <1>7, <1>8 DEF TimeInv

\* It picks every active row, ...
LEMMA PickTime ==
  ASSUME TypeOK, TimeInv, NEW w \in Worker, CloseOthers(w)
  PROVE  TimeInv'
<1> SUFFICES ASSUME ~disturbed' PROVE TimeInv'
  BY DEF TimeInv
<1>0. /\ sub' = sub /\ owed' = owed /\ now' = now /\ ~disturbed /\ At(w, "close")
  BY DEF CloseOthers, subVars
<1>1. InGrant(w) /\ worker[w] \in WorkerType
  BY <1>0, FieldTypes DEF InGrant, GrantStep, At
<1>2. OneActive /\ HasWhatIsOwed /\ Adds(w)
  <2>1. ~GiftOpen
    BY <1>0, <1>1 DEF TimeInv, OneGranter, GiftOpen, At, InGrant, GrantStep
  <2> QED
    BY <1>0, <2>1 DEF TimeInv
<1>3. PICK c : c = {g \in Grant : Active(g)}
  OBVIOUS
<1>4. PICK r : r = [worker[w] EXCEPT !.pc = "overwrite", !.closes = c]
  OBVIOUS
<1>5. worker' = [worker EXCEPT ![w] = r] /\ r.base = worker[w].base /\ r.closes = c
  BY <1>1, <1>3, <1>4 DEF WorkerType, CloseOthers, Active
<1>6. worker'[w] = r /\ OneGranter' /\ (Adds(w)' /\ Closes(w)' => \A v \in Worker : Adds(v)' /\ Closes(v)')
  BY <1>0, <1>1, <1>5, GranterTime
<1>7. Adds(w)'
  BY <1>0, <1>2, <1>5, <1>6 DEF Adds, Later, At
<1>8. Closes(w)'
  BY <1>0, <1>3, <1>5, <1>6 DEF Closes, Active
<1>9. OneActive' /\ HasWhatIsOwed'
  BY <1>0, <1>2 DEF OneActive, HasWhatIsOwed, Active
<1> QED
  BY <1>6, <1>7, <1>8, <1>9 DEF TimeInv

\* ... closes them (a gift at once, a payment when it commits), ...
LEMMA OverwriteTime ==
  ASSUME TypeOK, TimeInv, NEW w \in Worker, Overwrite(w)
  PROVE  TimeInv'
<1> SUFFICES ASSUME ~disturbed' PROVE TimeInv'
  BY DEF TimeInv
<1>0. /\ owed' = owed /\ now' = now /\ ~disturbed /\ At(w, "overwrite")
  BY DEF Overwrite
<1>1. InGrant(w) /\ worker[w] \in WorkerType
  BY <1>0, FieldTypes DEF InGrant, GrantStep, At
<1>2. OneActive /\ HasWhatIsOwed /\ Adds(w) /\ Closes(w)
  <2>1. ~GiftOpen
    BY <1>0, <1>1 DEF TimeInv, OneGranter, GiftOpen, At, InGrant, GrantStep
  <2> QED
    BY <1>0, <2>1 DEF TimeInv
<1>3. PICK c : c = {g \in worker[w].closes : Active(g)}
  OBVIOUS
<1>4. PICK r : r = [worker[w] EXCEPT !.pc = "create", !.closes = c]
  OBVIOUS
<1>5. /\ worker' = [worker EXCEPT ![w] = r]
      /\ r.base = worker[w].base /\ r.closes = c /\ r.pc = "create" /\ r.grant = worker[w].grant
  BY <1>1, <1>3, <1>4 DEF WorkerType, Overwrite, Active
<1>6. worker'[w] = r /\ OneGranter' /\ (Adds(w)' /\ Closes(w)' => \A v \in Worker : Adds(v)' /\ Closes(v)')
  BY <1>0, <1>1, <1>5, GranterTime
<1>7. Adds(w)'
  BY <1>0, <1>2, <1>5, <1>6 DEF Adds, Later, At
<1>8. \A g \in Grant : Active(g) => g \in c
  BY <1>0, <1>2, <1>3 DEF Closes, At
<1>9. CASE worker[w].grant \in Gift
  <2>1. sub' = Expire(c)
    BY <1>3, <1>9 DEF Overwrite, Active
  <2>2. \A g \in Grant : ~Active(g)'
    BY <1>8, <2>1, ExpireFacts DEF Active
  <2>3. OneActive' /\ Closes(w)'
    BY <2>2 DEF OneActive, Closes
  <2>4. GiftOpen'
    BY <1>5, <1>6, <1>9 DEF GiftOpen, At
  <2> QED
    BY <1>6, <1>7, <2>3, <2>4 DEF TimeInv
<1>10. CASE worker[w].grant \notin Gift
  <2>1. sub' = sub
    BY <1>10 DEF Overwrite
  <2>2. OneActive' /\ HasWhatIsOwed'
    BY <1>0, <1>2, <2>1 DEF OneActive, HasWhatIsOwed, Active
  <2>3. Closes(w)'
    BY <1>5, <1>6, <1>8, <2>1 DEF Closes, Active
  <2> QED
    BY <1>6, <1>7, <2>2, <2>3 DEF TimeInv
<1> QED
  BY <1>9, <1>10

\* ... and writes the one row that is active from then on.
LEMMA CreateTime ==
  ASSUME TypeOK, TimeInv, NEW w \in Worker, Create(w)
  PROVE  TimeInv'
<1> SUFFICES ASSUME ~disturbed' PROVE TimeInv'
  BY DEF TimeInv
<1>0. /\ now' = now /\ ~disturbed /\ At(w, "create")
      /\ now \in Nat /\ owed \in Nat
  BY TypeOKFacts DEF Create
<1>1. InGrant(w) /\ worker[w] \in WorkerType
  BY <1>0, FieldTypes DEF InGrant, GrantStep, At
<1>2. Adds(w) /\ Closes(w)
  BY <1>0 DEF TimeInv
<1>3. PICK g \in Grant : g = worker[w].grant
  BY <1>0, FieldTypes DEF At
<1>4. PICK e : e = Expire(worker[w].closes)
  OBVIOUS
<1>5. e \in SubsType /\ \A x \in Grant : e[x].status # "ACTIVE"
  <2>1. \A x \in Grant : Active(x) => x \in worker[w].closes
    BY <1>0, <1>2 DEF Closes, At
  <2> QED
    BY <1>4, <2>1, ExpireOK, ExpireFacts
<1>6. PICK ends : ends = worker[w].base + Months[g]
  OBVIOUS
<1>7. ends = owed'
  BY <1>0, <1>2, <1>3, <1>6 DEF Adds, At, Create
<1>8. sub' = [e EXCEPT ![g] = [status |-> "ACTIVE", ends |-> ends]]
  BY <1>3, <1>4, <1>6 DEF Create
<1>9. /\ \A x \in Grant : Active(x)' <=> x = g
      /\ sub'[g].ends = ends
  BY <1>5, <1>8 DEF SubsType, Active
<1>10. OneActive'
  BY <1>7, <1>9 DEF OneActive
<1>11. owed' \in Nat
  BY <1>0, PurchaseAssumption, <1>3 DEF Create, Later
<1>12. HasWhatIsOwed'
  <2>1. ends >= owed'
    BY <1>7, <1>11
  <2>2. Active(g)' /\ sub'[g].ends >= owed'
    BY <1>9, <2>1
  <2> QED
    BY <2>2 DEF HasWhatIsOwed, Active
<1>13. PICK r : worker' = [worker EXCEPT ![w] = r] /\ r.pc \notin GrantStep
  <2>1. CASE g \in Payment
    <3> DEFINE r == [worker[w] EXCEPT !.pc = "refer"]
    <3>1. worker' = [worker EXCEPT ![w] = r] /\ r.pc \notin GrantStep
      BY <1>1, <1>3, <2>1 DEF Create, GoTo, WorkerType, GrantStep
    <3> QED
      BY <3>1
  <2>2. CASE g \notin Payment
    <3>1. worker' = [worker EXCEPT ![w] = Idle] /\ Idle.pc \notin GrantStep
      BY <1>3, <2>2 DEF Create, Idle, GrantStep
    <3> QED
      BY <3>1
  <2> QED
    BY <2>1, <2>2
<1>14. worker'[w] = r /\ OneGranter' /\ (Adds(w)' /\ Closes(w)' => \A v \in Worker : Adds(v)' /\ Closes(v)')
  BY <1>0, <1>1, <1>13, GranterTime
<1>15. Adds(w)' /\ Closes(w)'
  BY <1>13, <1>14 DEF Adds, Closes, GrantStep
<1> QED
  BY <1>10, <1>12, <1>14, <1>15 DEF TimeInv

\* Months pass between grants only.
LEMMA TickTime ==
  ASSUME TypeOK, TimeInv, Tick
  PROVE  TimeInv'
<1> SUFFICES ASSUME ~disturbed' PROVE TimeInv'
  BY DEF TimeInv
<1>0. /\ sub' = sub /\ owed' = owed /\ now' = now + 1 /\ worker' = worker /\ ~disturbed
      /\ now \in Nat /\ owed \in Nat
      /\ \A w \in Worker : ~InGrant(w)
  BY TypeOKFacts DEF Tick, subVars
<1>1. OneActive /\ HasWhatIsOwed
  <2>1. ~GiftOpen
    BY <1>0 DEF GiftOpen, At, InGrant, GrantStep
  <2> QED
    BY <1>0, <2>1 DEF TimeInv
<1>2. OneActive'
  BY <1>0, <1>1 DEF OneActive, Active
<1>3. HasWhatIsOwed'
  BY <1>0, <1>1 DEF HasWhatIsOwed
<1>4. \A w \in Worker : ~InGrant(w)'
  BY <1>0 DEF InGrant
<1>5. OneGranter' /\ \A w \in Worker : Adds(w)' /\ Closes(w)'
  BY <1>4 DEF OneGranter, Adds, Closes, InGrant, GrantStep
<1> QED
  BY <1>2, <1>3, <1>5 DEF TimeInv

LEMMA TimeStep ==
  TypeOK /\ TimeInv /\ [Next]_vars => TimeInv'
<1> SUFFICES ASSUME TypeOK, TimeInv, [Next]_vars PROVE TimeInv'
  OBVIOUS
<1>w. Caller \subseteq Worker /\ Job \subseteq Worker
  BY DEF Worker
<1>i. Idle.pc \notin GrantStep
  BY DEF Idle, GrantStep
<1>r. \A w \in Worker : Rest(w).pc \notin GrantStep
  BY RestStops
\* A handler that is in no grant turns to something else.
<1>a. ASSUME NEW w \in Worker, NEW r, worker' = [worker EXCEPT ![w] = r], r.pc \notin GrantStep,
             ~At(w, "create"), OnlyLapses, now' = now, owed' = owed, disturbed' = disturbed
      PROVE  TimeInv'
  BY <1>a, AsideTime
<1>n. ASSUME worker' = worker, sub' = sub, now' = now, owed' = owed, disturbed' = disturbed
      PROVE  TimeInv'
  BY <1>n, NobodyTime DEF OnlyLapses
\* A handler answers.
<1>d. ASSUME NEW w \in Worker, Done(w), ~At(w, "create"),
             sub' = sub, now' = now, owed' = owed, disturbed' = disturbed
      PROVE  TimeInv'
  BY <1>d, <1>r, <1>a DEF Done, OnlyLapses
<1>1. ASSUME NEW p \in Payment, CreateOrder(p) PROVE TimeInv'
  BY <1>1, <1>n DEF CreateOrder, subVars
<1>2. ASSUME NEW w \in Caller, NEW p \in Payment, CreateFreeOrder(w, p) PROVE TimeInv'
  <2> DEFINE r == [Idle EXCEPT !.pc = "claim", !.grant = p]
  <2>1. r.pc \notin GrantStep
    BY DEF Idle, GrantStep
  <2> HIDE DEF r
  <2>2. worker' = [worker EXCEPT ![w] = r] /\ ~At(w, "create")
    BY <1>2 DEF CreateFreeOrder, At, r
  <2> QED
    BY <1>2, <1>a, <1>w, <2>1, <2>2 DEF CreateFreeOrder, subVars, OnlyLapses
<1>3. ASSUME NEW w \in Caller, NEW p \in Payment, Verify(w, p) PROVE TimeInv'
  <2> DEFINE r == [Idle EXCEPT !.pc = "ask", !.grant = p]
  <2>1. r.pc \notin GrantStep
    BY DEF Idle, GrantStep
  <2> HIDE DEF r
  <2>2. worker' = [worker EXCEPT ![w] = r] /\ ~At(w, "create")
    BY <1>3 DEF Verify, At, r
  <2> QED
    BY <1>3, <1>a, <1>w, <2>1, <2>2 DEF Verify, subVars, OnlyLapses
<1>4. ASSUME NEW w \in Caller, NEW p \in Payment, NEW kind \in {"success", "failed"},
             Webhook(w, p, kind)
      PROVE  TimeInv'
  <2>1. CASE row[p] = "SUCCESS"
    BY <1>4, <1>n, <2>1 DEF Webhook, subVars
  <2>2. CASE row[p] # "SUCCESS"
    <3> DEFINE r == [Idle EXCEPT !.grant = p, !.via = kind,
                       !.pc = IF kind = "success" THEN "claim" ELSE "fail"]
    <3>1. r.pc \notin GrantStep
      BY DEF Idle, GrantStep
    <3> HIDE DEF r
    <3>2. worker' = [worker EXCEPT ![w] = r] /\ ~At(w, "create")
      BY <1>4, <2>2 DEF Webhook, At, r
    <3> QED
      BY <1>4, <1>a, <1>w, <3>1, <3>2 DEF Webhook, subVars, OnlyLapses
  <2> QED
    BY <2>1, <2>2
<1>5. ASSUME NEW w \in Worker, Ask(w) PROVE TimeInv'
  <2>1. sub' = sub /\ now' = now /\ owed' = owed /\ disturbed' = disturbed /\ ~At(w, "create")
    BY <1>5 DEF Ask, subVars, At
  <2>2. CASE worker' = [worker EXCEPT ![w] = Rest(w)]
    BY <1>r, <1>a, <2>1, <2>2 DEF OnlyLapses
  <2>3. ASSUME NEW pc \in {"claim", "fail"}, GoTo(w, pc) PROVE TimeInv'
    <3> DEFINE r == [worker[w] EXCEPT !.pc = pc]
    <3>1. r.pc \notin GrantStep
      BY FieldTypes DEF WorkerType, GrantStep
    <3>2. worker' = [worker EXCEPT ![w] = r]
      BY <2>3 DEF GoTo
    <3> HIDE DEF r
    <3> QED
      BY <1>a, <2>1, <3>1, <3>2 DEF OnlyLapses
  <2> QED
    BY <1>5, <2>2, <2>3 DEF Ask
<1>6. ASSUME NEW w \in Worker, MarkFailed(w) \/ Refer(w) PROVE TimeInv'
  BY <1>6, <1>d DEF MarkFailed, Refer, subVars, At
<1>7. ASSUME NEW w \in Worker, Claim(w) PROVE TimeInv'
  <2>1. sub' = sub /\ now' = now /\ owed' = owed /\ At(w, "claim")
    BY <1>7 DEF Claim
  <2>2. CASE Done(w) /\ disturbed' = disturbed
    BY <1>d, <2>1, <2>2 DEF At
  <2>3. CASE GoTo(w, "current") /\ Enter(w)
    <3> DEFINE r == [worker[w] EXCEPT !.pc = "current"]
    <3>1. r.pc = "current" /\ worker' = [worker EXCEPT ![w] = r]
      BY <2>3, FieldTypes DEF WorkerType, GoTo
    <3>2. ~InGrant(w)
      BY <2>1 DEF At, InGrant, GrantStep
    <3> HIDE DEF r
    <3> QED
      BY <2>1, <2>3, <3>1, <3>2, EnterTime
  <2> QED
    BY <1>7, <2>2, <2>3 DEF Claim
<1>8. ASSUME NEW w \in Caller, NEW g \in Gift, StartGift(w, g) PROVE TimeInv'
  <2> DEFINE r == [Idle EXCEPT !.pc = "current", !.grant = g]
  <2>1. r.pc = "current" /\ worker' = [worker EXCEPT ![w] = r]
    BY <1>8 DEF Idle, StartGift
  <2>2. ~InGrant(w)
    BY <1>8 DEF At, InGrant, GrantStep, StartGift
  <2> HIDE DEF r
  <2> QED
    BY <1>8, <1>w, <2>1, <2>2, EnterTime DEF StartGift
<1>9. ASSUME NEW w \in Worker, ReadCurrent(w) \/ CloseOthers(w) \/ Overwrite(w) \/ Create(w)
      PROVE  TimeInv'
  BY <1>9, ReadTime, PickTime, OverwriteTime, CreateTime
<1>10. ASSUME NEW w \in Job, JobStep(w) PROVE TimeInv'
  <2>1. w \in Worker /\ worker[w] \in WorkerType
    BY <1>w, FieldTypes
  <2>2. /\ now' = now /\ owed' = owed /\ disturbed' = disturbed /\ OnlyLapses
        /\ ~At(w, "create")
    BY <1>10 DEF JobStep, Upkeep, ListPending, NextPending, subVars, OnlyLapses, At
  <2>3. PICK r : worker' = [worker EXCEPT ![w] = r] /\ r.pc \notin GrantStep
    <3>1. CASE Upkeep(w)
      <4> DEFINE r == [worker[w] EXCEPT !.pc = "list"]
      <4>1. r.pc \notin GrantStep /\ worker' = [worker EXCEPT ![w] = r]
        BY <2>1, <3>1 DEF WorkerType, GrantStep, Upkeep, GoTo
      <4> QED
        BY <4>1
    <3>2. CASE ListPending(w)
      <4> DEFINE l == {p \in Payment \ Free : row[p] = "PENDING" /\ age[p] = "due"}
                 r == [worker[w] EXCEPT !.pc = "next", !.todo = l]
      <4>1. r.pc \notin GrantStep
        BY <2>1 DEF WorkerType, GrantStep
      <4>2. worker' = [worker EXCEPT ![w] = r]
        BY <2>1, <3>2 DEF WorkerType, ListPending
      <4> QED
        BY <4>1, <4>2
    <3>3. CASE NextPending(w)
      <4>1. CASE worker' = [worker EXCEPT ![w] = Idle]
        BY <1>i, <4>1
      <4>2. ASSUME NEW p \in worker[w].todo,
                   worker' = [worker EXCEPT ![w].pc = "ask", ![w].grant = p, ![w].todo = @ \ {p}]
            PROVE  \E r : worker' = [worker EXCEPT ![w] = r] /\ r.pc \notin GrantStep
        <5> DEFINE r == [worker[w] EXCEPT !.pc = "ask", !.grant = p, !.todo = worker[w].todo \ {p}]
        <5>1. r.pc \notin GrantStep
          BY <2>1 DEF WorkerType, GrantStep
        <5>2. worker' = [worker EXCEPT ![w] = r]
          BY <2>1, <4>2 DEF WorkerType
        <5> QED
          BY <5>1, <5>2
      <4> QED
        BY <3>3, <4>1, <4>2 DEF NextPending
    <3> QED
      BY <1>10, <3>1, <3>2, <3>3 DEF JobStep
  <2> QED
    BY <1>a, <2>1, <2>2, <2>3
<1>11. CASE MySubscription
  BY <1>11, NobodyTime DEF MySubscription, OnlyLapses
<1>12. ASSUME NEW p \in Payment, Pay(p) \/ TryFails(p) \/ OrderExpires(p) \/ GrowOlder(p) PROVE TimeInv'
  BY <1>12, <1>n DEF Pay, TryFails, OrderExpires, GrowOlder, subVars
<1>13. ASSUME NEW h \in hooks, HookLost(h) PROVE TimeInv'
  BY <1>13, <1>n DEF HookLost, subVars
<1>14. ASSUME NEW w \in Worker, Fault(w) PROVE TimeInv'
  <2>1. /\ sub' = sub /\ now' = now /\ owed' = owed
        /\ disturbed => disturbed'
        /\ At(w, "create") /\ worker[w].grant \in Gift => disturbed'
    BY <1>14 DEF Fault
  <2>2. PICK r : worker' = [worker EXCEPT ![w] = r] /\ r.pc \notin GrantStep
    BY <1>14, <1>i, <1>r DEF Fault
  <2> QED
    BY <2>1, <2>2, AsideTime DEF OnlyLapses
<1>15. CASE UNCHANGED vars
  BY <1>15, <1>n DEF vars, subVars
<1> QED
  BY <1>1, <1>2, <1>3, <1>4, <1>5, <1>6, <1>7, <1>8, <1>9, <1>10, <1>11, <1>12, <1>13, <1>14, <1>15,
     TickTime
     DEF Next, WorkerStep, Environment

\* As long as grants come one after the other, no paid day is lost or given
\* twice and one row is active, whatever else fails, lapses or is settled in
\* between (grantOrExtendSubscription).  When grants overlap nothing is
\* promised: there a run shows days being lost.
THEOREM UndisturbedTimeIsKept == Spec => []UndisturbedTimeKept
<1>1. Init => TypeOK /\ TimeInv
  BY TypeInit, TimeInit
<1>2. (TypeOK /\ TimeInv) /\ [Next]_vars => (TypeOK /\ TimeInv)'
  BY TypeStep, TimeStep
<1>3. TimeInv => UndisturbedTimeKept
  <2> SUFFICES ASSUME TimeInv, ~disturbed, \A w \in Worker : ~InGrant(w)
               PROVE  HasWhatIsOwed /\ OneActive
    BY DEF UndisturbedTimeKept, OneActive, Active
  <2>1. ~GiftOpen
    BY DEF GiftOpen, At, InGrant, GrantStep
  <2> QED
    BY <2>1 DEF TimeInv
<1> QED
  BY <1>1, <1>2, <1>3, PTL DEF Spec

-----------------------------------------------------------------------------
(* Purchase implements PlanLedger.  It needs two things more of a worker: a  *)
(* gift belongs to one worker, which has not added its row yet, and what a   *)
(* worker has read as the start of the new period is today or the end of a   *)
(* period that was granted, and not past.                                    *)

Based == {"close", "overwrite", "create"}
StartsAt(b) == b >= now /\ (b = now \/ \E g \in Grant : sub[g].status # "none" /\ sub[g].ends = b)

BaseGiven == \A w \in Worker : worker[w].pc \in Based => StartsAt(worker[w].base)
GiftHeld == \A w \in Worker : worker[w].grant \in Gift =>
              /\ InGrant(w)
              /\ sub[worker[w].grant].status = "none"
              /\ \A v \in Worker : worker[v].grant = worker[w].grant => v = w

PlanInv == BaseGiven /\ GiftHeld

LEMMA PlanInit == Init => PlanInv
<1> SUFFICES ASSUME Init PROVE PlanInv
  OBVIOUS
<1>1. \A w \in Worker : worker[w].pc = "idle" /\ worker[w].grant = None
  BY DEF Init, Idle
<1> QED
  BY <1>1, PurchaseAssumption DEF PlanInv, BaseGiven, GiftHeld, Based, Grant

\* A worker goes on with the base and the gift it has, or drops them.
Follows(q, r) ==
  /\ r.pc \in Based => q.pc \in Based /\ r.base = q.base
  /\ r.grant \in Gift => r.grant = q.grant /\ r.pc \in GrantStep

PeriodsKept == \A g \in Grant : /\ sub'[g].ends = sub[g].ends
                                /\ sub'[g].status = "none" <=> sub[g].status = "none"

LEMMA AllFollow ==
  ASSUME PlanInv, PeriodsKept, now' = now, \A w \in Worker : Follows(worker[w], worker'[w])
  PROVE  PlanInv'
<1>1. \A b : StartsAt(b) => StartsAt(b)'
  BY DEF StartsAt, PeriodsKept
<1>2. BaseGiven'
  <2> SUFFICES ASSUME NEW w \in Worker, worker'[w].pc \in Based PROVE StartsAt(worker[w].base)'
    BY DEF BaseGiven
  <2>1. worker[w].pc \in Based /\ worker'[w].base = worker[w].base
    BY DEF Follows
  <2>2. StartsAt(worker[w].base)
    BY <2>1 DEF PlanInv, BaseGiven
  <2> QED
    BY <2>1, <2>2 DEF StartsAt, PeriodsKept
<1>3. GiftHeld'
  BY DEF PlanInv, GiftHeld, Follows, PeriodsKept, InGrant, Grant
<1> QED
  BY <1>2, <1>3 DEF PlanInv

LEMMA KeepsFollow ==
  ASSUME PlanInv, NEW w \in Worker
  PROVE  Follows(worker[w], worker[w])
  BY DEF PlanInv, GiftHeld, Follows, InGrant

LEMMA OneFollows ==
  ASSUME TypeOK, PlanInv, PeriodsKept, now' = now, NEW w \in Worker, NEW r,
         worker' = [worker EXCEPT ![w] = r], Follows(worker[w], r)
  PROVE  PlanInv'
<1>1. \A v \in Worker : worker'[v] = IF v = w THEN r ELSE worker[v]
  BY DEF TypeOK
<1>2. \A v \in Worker : Follows(worker[v], worker'[v])
  BY <1>1, KeepsFollow
<1> QED
  BY <1>2, AllFollow

LEMMA NoneFollows ==
  ASSUME PlanInv, PeriodsKept, now' = now, worker' = worker
  PROVE  PlanInv'
  BY KeepsFollow, AllFollow

LEMMA ExpirePeriods ==
  ASSUME TypeOK, NEW gs, NEW g \in Grant
  PROVE  /\ Expire(gs)[g].ends = sub[g].ends
         /\ Expire(gs)[g].status = IF g \in gs /\ sub[g].status = "ACTIVE" THEN "EXPIRED" ELSE sub[g].status
<1>1. sub[g] \in SubType
  BY DEF TypeOK
<1>2. Expire(gs)[g] = IF g \in gs /\ sub[g].status = "ACTIVE"
                        THEN [sub[g] EXCEPT !.status = "EXPIRED"] ELSE sub[g]
  BY DEF Expire
<1> QED
  BY <1>1, <1>2 DEF SubType

LEMMA ClosingKeepsPeriods ==
  ASSUME TypeOK, \/ sub' = sub
                 \/ \E gs : sub' = Expire(gs)
  PROVE  PeriodsKept
  BY ExpirePeriods DEF PeriodsKept

\* A payment or no grant at all, and no base.
LEMMA FreshFollows ==
  ASSUME NEW q, NEW r, r.pc \notin Based, r.grant \in Payment \cup {None}
  PROVE  Follows(q, r)
  BY PurchaseAssumption DEF Follows, Grant

LEMMA RestFollows ==
  ASSUME NEW w \in Worker
  PROVE  Follows(worker[w], Rest(w)) /\ Follows(worker[w], Idle)
<1>1. Rest(w).pc \notin Based /\ Rest(w).grant = None /\ Idle.pc \notin Based /\ Idle.grant = None
  BY DEF Rest, Idle, Based
<1> QED
  BY <1>1, FreshFollows

LEMMA GoToFollows ==
  ASSUME TypeOK, PlanInv, PeriodsKept, now' = now, NEW w \in Worker, NEW pc, GoTo(w, pc),
         pc \notin Based, pc \in GrantStep \/ worker[w].grant \notin Gift
  PROVE  PlanInv'
<1>1. PICK r : r = [worker[w] EXCEPT !.pc = pc]
  OBVIOUS
<1>2. r.pc = pc /\ r.grant = worker[w].grant
  BY <1>1, FieldTypes DEF WorkerType
<1>3. worker' = [worker EXCEPT ![w] = r]
  BY <1>1 DEF GoTo
<1>4. Follows(worker[w], r)
  BY <1>2 DEF Follows
<1> QED
  BY <1>3, <1>4, OneFollows

LEMMA DoneFollows ==
  ASSUME TypeOK, PlanInv, PeriodsKept, now' = now, NEW w \in Worker, Done(w)
  PROVE  PlanInv'
  BY RestFollows, OneFollows DEF Done

\* What is read as the start of the new period is today, or where a running one ends.
LEMMA ReadGives ==
  ASSUME TypeOK, PlanInv, NEW w \in Worker, ReadCurrent(w)
  PROVE  PlanInv'
<1>1. PICK base : /\ worker' = [worker EXCEPT ![w].base = base, ![w].pc = "close"]
                  /\ base = now \/ \E g \in Grant : Running(g) /\ base = sub[g].ends
  BY DEF ReadCurrent
<1>2. At(w, "current") /\ sub' = sub /\ now' = now
  BY DEF ReadCurrent, subVars
<1>3. StartsAt(base)
  BY <1>1, TypeOKFacts, EndsTypes DEF StartsAt, Running, SubTypes
<1>4. \A v \in Worker : /\ worker'[v].grant = worker[v].grant
                        /\ worker'[v].pc = IF v = w THEN "close" ELSE worker[v].pc
                        /\ worker'[v].base = IF v = w THEN base ELSE worker[v].base
  BY <1>1 DEF TypeOK, WorkerType
<1>5. BaseGiven'
  <2> SUFFICES ASSUME NEW v \in Worker, worker'[v].pc \in Based PROVE StartsAt(worker[v].base)'
    BY DEF BaseGiven
  <2>1. StartsAt(worker'[v].base)
    BY <1>3, <1>4 DEF PlanInv, BaseGiven
  <2> QED
    BY <1>2, <2>1 DEF StartsAt
<1>6. GiftHeld'
  BY <1>2, <1>4 DEF PlanInv, GiftHeld, InGrant, At, GrantStep
<1> QED
  BY <1>5, <1>6 DEF PlanInv

\* A gift is begun once: its row is not there, and nobody else has it.
LEMMA GiftBegins ==
  ASSUME TypeOK, PlanInv, NEW w \in Caller, NEW g \in Gift, StartGift(w, g)
  PROVE  PlanInv'
<1>w. w \in Worker
  BY DEF Worker
<1>1. PICK r : r = [Idle EXCEPT !.pc = "current", !.grant = g]
  OBVIOUS
<1>2. r.pc = "current" /\ r.grant = g
  BY <1>1 DEF Idle
<1>3. \A v \in Worker : worker'[v] = IF v = w THEN r ELSE worker[v]
  BY <1>1 DEF StartGift, TypeOK
<1>4. /\ sub[g].status = "none" /\ sub' = sub /\ now' = now
      /\ \A v \in Worker : worker[v].grant # g
  BY DEF StartGift, NoSub
<1>5. BaseGiven'
  <2> SUFFICES ASSUME NEW v \in Worker, worker'[v].pc \in Based PROVE StartsAt(worker[v].base)'
    BY DEF BaseGiven
  <2>1. StartsAt(worker'[v].base)
    BY <1>2, <1>3 DEF PlanInv, BaseGiven, Based
  <2> QED
    BY <1>4, <2>1 DEF StartsAt
<1>6. GiftHeld'
  BY <1>w, <1>2, <1>3, <1>4 DEF PlanInv, GiftHeld, InGrant, GrantStep
<1> QED
  BY <1>5, <1>6 DEF PlanInv

\* Adding a row takes no period away that another worker has read.
LEMMA CreateGives ==
  ASSUME TypeOK, FulfilInv, PlanInv, NEW w \in Worker, Create(w)
  PROVE  PlanInv'
<1> DEFINE g == worker[w].grant
           e == Expire(worker[w].closes)
           new == [status |-> "ACTIVE", ends |-> worker[w].base + Months[g]]
<1>1. g \in Grant /\ At(w, "create") /\ InGrant(w)
  BY FieldTypes DEF Create, At, InGrant, GrantStep
<1>2. sub[g].status = "none"
  <2>1. CASE g \in Payment
    <3>1. Holds(w, g)
      BY <1>1 DEF Holds
    <3>2. sub[g] = NoSub
      BY <2>1, <3>1 DEF FulfilInv, HoldsOpen, RowsTrue
    <3> QED
      BY <3>2 DEF NoSub
  <2>2. CASE g \in Gift
    BY <2>2 DEF PlanInv, GiftHeld
  <2> QED
    BY <1>1, <2>1, <2>2 DEF Grant
<1>3. sub' = [e EXCEPT ![g] = new] /\ now' = now
  BY DEF Create
<1>4. e \in SubsType
  BY ExpireOK
<1>5. \A x \in Grant : x # g => sub'[x] = e[x]
  <2> HIDE DEF e, new
  <2> QED
    BY <1>3, <1>4 DEF SubsType
<1>6. \A x \in Grant : x # g => /\ sub'[x].ends = sub[x].ends
                                /\ sub'[x].status = "none" <=> sub[x].status = "none"
  BY <1>5, ExpirePeriods
<1>7. PICK r : /\ worker' = [worker EXCEPT ![w] = r]
               /\ r.pc \notin Based
               /\ r.grant \notin Gift
  <2>1. CASE g \in Payment
    <3>1. PICK r : r = [worker[w] EXCEPT !.pc = "refer"]
      OBVIOUS
    <3>2. r.pc = "refer" /\ r.grant = g
      BY <3>1, FieldTypes DEF WorkerType
    <3>3. worker' = [worker EXCEPT ![w] = r]
      BY <2>1, <3>1 DEF Create, GoTo
    <3> QED
      BY <2>1, <3>2, <3>3, PurchaseAssumption DEF Based
  <2>2. CASE g \notin Payment
    <3>1. worker' = [worker EXCEPT ![w] = Idle]
      BY <2>2 DEF Create
    <3>2. Idle.pc = "idle" /\ Idle.grant = None
      BY DEF Idle
    <3> QED
      BY <3>1, <3>2, PurchaseAssumption DEF Based, Grant
  <2> QED
    BY <2>1, <2>2
<1>8. \A v \in Worker : worker'[v] = IF v = w THEN r ELSE worker[v]
  BY <1>7 DEF TypeOK
<1>9. BaseGiven'
  <2> SUFFICES ASSUME NEW v \in Worker, worker'[v].pc \in Based PROVE StartsAt(worker[v].base)'
    BY DEF BaseGiven
  <2>1. worker'[v] = worker[v] /\ StartsAt(worker[v].base)
    BY <1>7, <1>8 DEF PlanInv, BaseGiven
  <2> HIDE DEF g
  <2> QED
    BY <1>2, <1>3, <1>6, <2>1 DEF StartsAt
<1>10. GiftHeld'
  <2> SUFFICES ASSUME NEW v \in Worker, worker'[v].grant \in Gift
               PROVE  /\ InGrant(v)'
                      /\ sub'[worker'[v].grant].status = "none"
                      /\ \A u \in Worker : worker'[u].grant = worker'[v].grant => u = v
    BY DEF GiftHeld
  <2>1. v # w /\ worker'[v] = worker[v]
    BY <1>7, <1>8
  <2>2. /\ InGrant(v) /\ sub[worker[v].grant].status = "none"
        /\ \A u \in Worker : worker[u].grant = worker[v].grant => u = v
    BY <2>1 DEF PlanInv, GiftHeld
  <2>3. worker[v].grant # g
    BY <2>1, <2>2
  <2>4. sub'[worker'[v].grant].status = "none"
    BY <1>6, <2>1, <2>2, <2>3 DEF Grant
  <2>5. \A u \in Worker : worker'[u].grant = worker'[v].grant => u = v
    BY <1>7, <1>8, <2>1, <2>2
  <2> QED
    BY <2>1, <2>2, <2>4, <2>5 DEF InGrant
<1> QED
  BY <1>9, <1>10 DEF PlanInv

\* A month does not end during a grant.
LEMMA TickGives ==
  ASSUME PlanInv, Tick
  PROVE  PlanInv'
  BY DEF Tick, PlanInv, BaseGiven, GiftHeld, InGrant, GrantStep, Based, subVars

LEMMA PlanStep ==
  TypeOK /\ FulfilInv /\ PlanInv /\ [Next]_vars => PlanInv'
<1> SUFFICES ASSUME TypeOK, FulfilInv, PlanInv, [Next]_vars PROVE PlanInv'
  OBVIOUS
<1>w. Caller \subseteq Worker /\ Job \subseteq Worker
  BY DEF Worker
<1>k. sub' = sub => PeriodsKept
  BY ClosingKeepsPeriods
<1>e. ASSUME NEW gs, sub' = Expire(gs) PROVE PeriodsKept
  BY <1>e, ClosingKeepsPeriods
<1>1. ASSUME NEW p \in Payment,
             CreateOrder(p) \/ Pay(p) \/ TryFails(p) \/ OrderExpires(p) \/ GrowOlder(p)
      PROVE  PlanInv'
  BY <1>1, <1>k, NoneFollows DEF CreateOrder, Pay, TryFails, OrderExpires, GrowOlder, subVars
<1>2. ASSUME NEW w \in Caller, NEW p \in Payment, CreateFreeOrder(w, p) \/ Verify(w, p) PROVE PlanInv'
  <2>1. PICK r : worker' = [worker EXCEPT ![w] = r] /\ r.pc \in {"claim", "ask"} /\ r.grant = p
    <3>1. PICK pc \in {"claim", "ask"} :
            worker' = [worker EXCEPT ![w] = [Idle EXCEPT !.pc = pc, !.grant = p]]
      BY <1>2 DEF CreateFreeOrder, Verify
    <3>2. PICK r : r = [Idle EXCEPT !.pc = pc, !.grant = p]
      OBVIOUS
    <3>3. r.pc = pc /\ r.grant = p
      BY <3>2 DEF Idle
    <3> QED
      BY <3>1, <3>2, <3>3
  <2>2. Follows(worker[w], r)
    BY <2>1, FreshFollows DEF Based
  <2>3. PeriodsKept /\ now' = now
    BY <1>2, <1>k DEF CreateFreeOrder, Verify, subVars
  <2> QED
    BY <1>w, <2>1, <2>2, <2>3, OneFollows
<1>3. ASSUME NEW w \in Caller, NEW p \in Payment, NEW kind \in {"success", "failed"}, Webhook(w, p, kind)
      PROVE  PlanInv'
  <2>1. PeriodsKept /\ now' = now
    BY <1>3, <1>k DEF Webhook, subVars
  <2>2. CASE row[p] = "SUCCESS"
    BY <1>3, <2>1, <2>2, NoneFollows DEF Webhook
  <2>3. CASE row[p] # "SUCCESS"
    <3>1. PICK r : r = [Idle EXCEPT !.grant = p, !.via = kind,
                          !.pc = IF kind = "success" THEN "claim" ELSE "fail"]
      OBVIOUS
    <3>2. r.grant = p /\ r.pc \in {"claim", "fail"}
      BY <3>1 DEF Idle
    <3>3. worker' = [worker EXCEPT ![w] = r]
      BY <1>3, <2>3, <3>1 DEF Webhook
    <3>4. Follows(worker[w], r)
      BY <3>2, FreshFollows DEF Based
    <3> QED
      BY <1>w, <2>1, <3>3, <3>4, OneFollows
  <2> QED
    BY <2>2, <2>3
<1>4. ASSUME NEW w \in Caller, NEW g \in Gift, StartGift(w, g) PROVE PlanInv'
  BY <1>4, GiftBegins
<1>5. ASSUME NEW w \in Worker, Ask(w) PROVE PlanInv'
  <2>1. worker[w].grant \in Payment /\ PeriodsKept /\ now' = now
    BY <1>5, <1>k, FieldTypes DEF Ask, At, subVars
  <2>2. worker[w].grant \notin Gift
    BY <2>1, PurchaseAssumption
  <2>3. CASE worker' = [worker EXCEPT ![w] = Rest(w)]
    BY <2>1, <2>3, RestFollows, OneFollows
  <2>4. CASE GoTo(w, "claim")
    BY <2>1, <2>2, <2>4, GoToFollows DEF Based
  <2>5. CASE GoTo(w, "fail")
    BY <2>1, <2>2, <2>5, GoToFollows DEF Based
  <2> QED
    BY <1>5, <2>3, <2>4, <2>5 DEF Ask
<1>6. ASSUME NEW w \in Worker, MarkFailed(w) PROVE PlanInv'
  BY <1>6, <1>k, DoneFollows DEF MarkFailed, subVars
<1>7. ASSUME NEW w \in Worker, Claim(w) PROVE PlanInv'
  <2>1. PeriodsKept /\ now' = now
    BY <1>7, <1>k DEF Claim
  <2>2. CASE Done(w)
    BY <2>1, <2>2, DoneFollows
  <2>3. CASE GoTo(w, "current")
    BY <2>1, <2>3, GoToFollows DEF Based, GrantStep
  <2> QED
    BY <1>7, <2>2, <2>3 DEF Claim
<1>8. ASSUME NEW w \in Worker, CloseOthers(w) \/ Overwrite(w) PROVE PlanInv'
  <2>1. InGrant(w) /\ worker[w].pc \in Based /\ worker[w] \in WorkerType
    BY <1>8, FieldTypes DEF CloseOthers, Overwrite, At, InGrant, GrantStep, Based
  <2>2. PICK r : /\ worker' = [worker EXCEPT ![w] = r]
                 /\ r.pc \in {"overwrite", "create"}
                 /\ r.grant = worker[w].grant /\ r.base = worker[w].base
    <3>1. ASSUME NEW c, NEW pc \in {"overwrite", "create"},
                 worker' = [worker EXCEPT ![w].pc = pc, ![w].closes = c]
          PROVE  \E r : /\ worker' = [worker EXCEPT ![w] = r]
                        /\ r.pc \in {"overwrite", "create"}
                        /\ r.grant = worker[w].grant /\ r.base = worker[w].base
      <4>1. PICK r : r = [worker[w] EXCEPT !.pc = pc, !.closes = c]
        OBVIOUS
      <4>2. r.pc = pc /\ r.grant = worker[w].grant /\ r.base = worker[w].base
        BY <2>1, <4>1 DEF WorkerType
      <4>3. worker' = [worker EXCEPT ![w] = r]
        BY <2>1, <3>1, <4>1 DEF WorkerType
      <4> QED
        BY <4>2, <4>3
    <3>2. CASE CloseOthers(w)
      <4>1. PICK c : worker' = [worker EXCEPT ![w].pc = "overwrite", ![w].closes = c]
        BY <3>2 DEF CloseOthers
      <4> QED
        BY <3>1, <4>1
    <3>3. CASE Overwrite(w)
      <4>1. PICK c : worker' = [worker EXCEPT ![w].pc = "create", ![w].closes = c]
        BY <3>3 DEF Overwrite
      <4> QED
        BY <3>1, <4>1
    <3> QED
      BY <1>8, <3>2, <3>3
  <2>3. Follows(worker[w], r)
    BY <2>1, <2>2 DEF Follows, GrantStep
  <2>4. PeriodsKept /\ now' = now
    BY <1>8, ClosingKeepsPeriods DEF CloseOthers, Overwrite, subVars
  <2> QED
    BY <2>2, <2>3, <2>4, OneFollows
<1>9. ASSUME NEW w \in Worker, ReadCurrent(w) \/ Create(w) PROVE PlanInv'
  BY <1>9, ReadGives, CreateGives
<1>10. ASSUME NEW w \in Worker, Refer(w) PROVE PlanInv'
  BY <1>10, <1>k, DoneFollows DEF Refer, subVars
<1>11. ASSUME NEW w \in Job, JobStep(w) PROVE PlanInv'
  <2>1. w \in Worker /\ worker[w] \in WorkerType /\ worker[w].todo \subseteq Payment
    BY <1>w, FieldTypes
  <2>2. PeriodsKept /\ now' = now
    BY <1>11, ClosingKeepsPeriods DEF JobStep, Upkeep, ListPending, NextPending, subVars
  <2>3. ~InGrant(w)
    BY <1>11 DEF JobStep, Upkeep, ListPending, NextPending, At, InGrant, GrantStep
  <2>4. worker[w].grant \notin Gift
    BY <2>1, <2>3 DEF PlanInv, GiftHeld
  <2>5. CASE Upkeep(w)
    BY <2>1, <2>2, <2>4, <2>5, GoToFollows DEF Upkeep, Based
  <2>6. CASE ListPending(w)
    <3>1. PICK l : worker' = [worker EXCEPT ![w].pc = "next", ![w].todo = l]
      BY <2>6 DEF ListPending
    <3>2. PICK r : r = [worker[w] EXCEPT !.pc = "next", !.todo = l]
      OBVIOUS
    <3>3. r.pc = "next" /\ r.grant = worker[w].grant /\ worker' = [worker EXCEPT ![w] = r]
      BY <2>1, <3>1, <3>2 DEF WorkerType
    <3>4. Follows(worker[w], r)
      BY <2>4, <3>3 DEF Follows, Based
    <3> QED
      BY <2>1, <2>2, <3>3, <3>4, OneFollows
  <2>7. CASE NextPending(w)
    <3>1. CASE worker' = [worker EXCEPT ![w] = Idle]
      BY <2>1, <2>2, <3>1, RestFollows, OneFollows
    <3>2. ASSUME NEW p \in worker[w].todo,
                 worker' = [worker EXCEPT ![w].pc = "ask", ![w].grant = p, ![w].todo = @ \ {p}]
          PROVE  PlanInv'
      <4>1. PICK r : r = [worker[w] EXCEPT !.pc = "ask", !.grant = p, !.todo = worker[w].todo \ {p}]
        OBVIOUS
      <4>2. r.pc = "ask" /\ r.grant = p /\ worker' = [worker EXCEPT ![w] = r]
        BY <2>1, <3>2, <4>1 DEF WorkerType
      <4>3. Follows(worker[w], r)
        BY <2>1, <4>2, FreshFollows DEF Based
      <4> QED
        BY <2>1, <2>2, <4>2, <4>3, OneFollows
    <3> QED
      BY <2>7, <3>1, <3>2 DEF NextPending
  <2> QED
    BY <1>11, <2>5, <2>6, <2>7 DEF JobStep
<1>12. CASE MySubscription
  BY <1>12, <1>e, NoneFollows DEF MySubscription
<1>13. ASSUME NEW h \in hooks, HookLost(h) PROVE PlanInv'
  BY <1>13, <1>k, NoneFollows DEF HookLost, subVars
<1>14. ASSUME NEW w \in Worker, Fault(w) PROVE PlanInv'
  BY <1>14, <1>k, RestFollows, OneFollows DEF Fault
<1>15. CASE Tick
  BY <1>15, TickGives
<1>16. CASE UNCHANGED vars
  BY <1>16, <1>k, NoneFollows DEF vars, subVars
<1> QED
  BY <1>1, <1>2, <1>3, <1>4, <1>5, <1>6, <1>7, <1>8, <1>9, <1>10, <1>11, <1>12, <1>13, <1>14,
     <1>15, <1>16
     DEF Next, WorkerStep, Environment

\* A step that the ledger does not see.
LEMMA PlanStutters ==
  ASSUME RowsKept, told' = told, now' = now, sub' = sub,
         \A p \in Payment : order'[p] = "paid" <=> order[p] = "paid"
  PROVE  UNCHANGED Plans!planVars
<1>1. {p \in Payment : order'[p] = "paid"} = {p \in Payment : order[p] = "paid"}
  OBVIOUS
<1>2. {p \in Payment : row'[p] = "SUCCESS"} = {p \in Payment : row[p] = "SUCCESS"}
  BY DEF RowsKept
<1> QED
  BY <1>1, <1>2 DEF Plans!planVars

\* Closing rows is what the ledger calls so.
LEMMA ClosedIsExpired ==
  ASSUME TypeOK, NEW gs, sub' = Expire(gs)
  PROVE  /\ [g \in Grant |-> sub'[g].status] = Plans!Closed(gs)
         /\ [g \in Grant |-> sub'[g].ends] = [g \in Grant |-> sub[g].ends]
<1>1. \A g \in Grant : /\ sub'[g].ends = sub[g].ends
                       /\ sub'[g].status = IF g \in gs /\ sub[g].status = "ACTIVE" THEN "EXPIRED" ELSE sub[g].status
  BY ExpirePeriods
<1>2. [g \in Grant |-> sub'[g].ends] = [g \in Grant |-> sub[g].ends]
  BY <1>1
<1>3. Plans!Closed(gs) =
        [g \in Grant |-> IF g \in gs /\ [x \in Grant |-> sub[x].status][g] = "ACTIVE"
                           THEN "EXPIRED" ELSE [x \in Grant |-> sub[x].status][g]]
  BY DEF Plans!Closed, Plans!Grant, Grant
<1>4. Plans!Closed(gs) =
        [g \in Grant |-> IF g \in gs /\ sub[g].status = "ACTIVE" THEN "EXPIRED" ELSE sub[g].status]
  BY <1>3
<1>5. [g \in Grant |-> sub'[g].status] = Plans!Closed(gs)
  BY <1>1, <1>4
<1> QED
  BY <1>2, <1>5

LEMMA LapseIsLapse ==
  ASSUME TypeOK, sub' = Expire(Lapsed), row' = row, order' = order, told' = told, now' = now
  PROVE  Plans!Lapse
<1>1. Lapsed \in SUBSET {g \in Plans!Grant : [x \in Grant |-> sub[x].ends][g] <= now}
  BY DEF Lapsed, Plans!Grant, Grant
<1>2. /\ [g \in Grant |-> sub'[g].status] = Plans!Closed(Lapsed)
      /\ [g \in Grant |-> sub'[g].ends] = [g \in Grant |-> sub[g].ends]
  BY ClosedIsExpired
<1> QED
  BY <1>1, <1>2 DEF Plans!Lapse

\* A gift closes rows in a statement of its own.
LEMMA OverwriteMakesRoom ==
  ASSUME TypeOK, PlanInv, NEW w \in Worker, Overwrite(w), worker[w].grant \in Gift
  PROVE  Plans!Next
<1> DEFINE mine == {x \in worker[w].closes : sub[x].status = "ACTIVE"}
<1>g. PICK g \in Gift : g = worker[w].grant
  OBVIOUS
<1>1. sub' = Expire(mine) /\ row' = row /\ order' = order /\ told' = told /\ now' = now
  BY DEF Overwrite, payVars
<1>2. mine \in SUBSET Plans!Grant
  BY FieldTypes DEF Plans!Grant, Grant
<1>3. [x \in Grant |-> sub[x].status][g] = "none"
  BY <1>g DEF PlanInv, GiftHeld, Grant
<1>4. /\ [x \in Grant |-> sub'[x].status] = Plans!Closed(mine)
      /\ [x \in Grant |-> sub'[x].ends] = [x \in Grant |-> sub[x].ends]
  BY <1>1, ClosedIsExpired
<1> HIDE DEF mine
<1>5. Plans!MakeRoom(g)
  BY <1>1, <1>2, <1>3, <1>4 DEF Plans!MakeRoom
<1> QED
  BY <1>5 DEF Plans!Next

\* The commit of a payment, and the last statement of a gift.
LEMMA CreateFulfils ==
  ASSUME TypeOK, FulfilInv, PlanInv, NEW w \in Worker, Create(w)
  PROVE  Plans!Next
<1> DEFINE rows == worker[w].closes
           e == Expire(rows)
<1>g. PICK g \in Grant : g = worker[w].grant
  BY FieldTypes DEF Create, At
<1>b. PICK base : base = worker[w].base
  OBVIOUS
<1>1. At(w, "create") /\ InGrant(w) /\ Months[g] \in Nat /\ base \in Nat
  BY <1>b, FieldTypes, PurchaseAssumption DEF Create, At, InGrant, GrantStep
<1>2. sub[g].status = "none" /\ (g \in Payment => Settled(g))
  <2>1. CASE g \in Payment
    <3>1. Holds(w, g) /\ Wants(w, g)
      BY <1>g, <1>1 DEF Holds, Wants
    <3>2. sub[g] = NoSub /\ Settled(g)
      BY <2>1, <3>1 DEF FulfilInv, HoldsOpen, WantsSettled, RowsTrue
    <3> QED
      BY <3>2 DEF NoSub
  <2>2. CASE g \in Gift
    BY <1>g, <2>2, PurchaseAssumption DEF PlanInv, GiftHeld
  <2> QED
    BY <2>1, <2>2 DEF Grant
<1>3. /\ sub' = [e EXCEPT ![g] = [status |-> "ACTIVE", ends |-> base + Months[g]]]
      /\ order' = order /\ told' = told /\ now' = now
  BY <1>g, <1>b DEF Create
<1>4. e \in SubsType
  BY ExpireOK
<1>5. \A x \in Grant : sub'[x] = IF x = g THEN [status |-> "ACTIVE", ends |-> base + Months[g]] ELSE e[x]
  <2> HIDE DEF e
  <2> QED
    BY <1>3, <1>4 DEF SubsType
<1>6. \A x \in Grant :
        /\ sub'[x].ends = IF x = g THEN base + Months[g] ELSE sub[x].ends
        /\ sub'[x].status = IF x = g THEN "ACTIVE"
                            ELSE IF x \in rows /\ sub[x].status = "ACTIVE" THEN "EXPIRED" ELSE sub[x].status
  <2> SUFFICES ASSUME NEW x \in Grant
               PROVE  /\ sub'[x].ends = IF x = g THEN base + Months[g] ELSE sub[x].ends
                      /\ sub'[x].status = IF x = g THEN "ACTIVE"
                            ELSE IF x \in rows /\ sub[x].status = "ACTIVE" THEN "EXPIRED" ELSE sub[x].status
    OBVIOUS
  <2>1. CASE x = g
    BY <1>5, <2>1
  <2>2. CASE x # g
    <3>1. sub'[x] = e[x]
      BY <1>5, <2>2
    <3>2. /\ e[x].ends = sub[x].ends
          /\ e[x].status = IF x \in rows /\ sub[x].status = "ACTIVE" THEN "EXPIRED" ELSE sub[x].status
      BY ExpirePeriods
    <3> QED
      BY <2>2, <3>1, <3>2
  <2> QED
    BY <2>1, <2>2
<1>7. /\ [x \in Grant |-> sub[x].status][g] = "none"
      /\ g \in Payment => g \in {p \in Payment : order[p] = "paid"} \cup Free
  BY <1>2 DEF Settled
<1>8. {p \in Payment : row'[p] = "SUCCESS"} = {p \in Payment : row[p] = "SUCCESS"} \cup ({g} \cap Payment)
  BY <1>g DEF Create, TypeOK
<1>9. base \in Plans!Start
  <2>1. StartsAt(base)
    BY <1>b, <1>1 DEF PlanInv, BaseGiven, Based, At
  <2> QED
    BY <2>1 DEF StartsAt, Plans!Start, Plans!Grant, Grant
<1>10. [x \in Grant |-> sub'[x].ends] =
         [[x \in Grant |-> sub[x].ends] EXCEPT ![g] = base + Months[g]]
  BY <1>6
<1>11. [x \in Grant |-> sub'[x].status] = [Plans!Closed(rows) EXCEPT ![g] = "ACTIVE"]
  <2>1. Plans!Closed(rows) =
          [x \in Grant |-> IF x \in rows /\ [y \in Grant |-> sub[y].status][x] = "ACTIVE"
                             THEN "EXPIRED" ELSE [y \in Grant |-> sub[y].status][x]]
    BY DEF Plans!Closed, Plans!Grant, Grant
  <2>2. Plans!Closed(rows) =
          [x \in Grant |-> IF x \in rows /\ sub[x].status = "ACTIVE" THEN "EXPIRED" ELSE sub[x].status]
    BY <2>1
  <2> QED
    BY <1>6, <2>2
<1>12. rows \in SUBSET Plans!Grant
  BY FieldTypes DEF Plans!Grant, Grant
<1>13. Plans!Fulfil(g)
  BY <1>3, <1>7, <1>8, <1>9, <1>10, <1>11, <1>12 DEF Plans!Fulfil
<1> QED
  BY <1>13 DEF Plans!Next, Plans!Grant, Grant

LEMMA ReferTells ==
  ASSUME TypeOK, FulfilInv, NEW w \in Worker, Refer(w)
  PROVE  [Plans!Next]_(Plans!planVars)
<1>p. PICK p \in Payment : p = worker[w].grant
  BY FieldTypes DEF Refer, At
<1>1. row' = row /\ order' = order /\ sub' = sub /\ now' = now
  BY DEF Refer, subVars
<1>2. CASE p \in Free
  BY <1>p, <1>1, <1>2, PlanStutters DEF Refer, RowsKept
<1>3. CASE p \notin Free
  <2>1. Tells(w, p)
    BY <1>p DEF Refer, Tells
  <2>2. p \in {q \in Payment : row[q] = "SUCCESS"} \ Free /\ told[p] = 0
    BY <1>3, <2>1 DEF FulfilInv, TellsOnce
  <2>3. told' = [told EXCEPT ![p] = 1]
    BY <1>p, <1>3, <2>2 DEF Refer
  <2>4. Plans!Tell(p)
    BY <1>1, <2>2, <2>3 DEF Plans!Tell
  <2> QED
    BY <2>4 DEF Plans!Next
<1> QED
  BY <1>2, <1>3

LEMMA NextPlan ==
  ASSUME TypeOK, GatewayInv, FulfilInv, PlanInv, [Next]_vars
  PROVE  [Plans!Next]_(Plans!planVars)
<1>t. row \in [Payment -> RowStatus] /\ order \in [Payment -> OrderStatus]
  BY TypeOKFacts
\* A step that moves workers and webhooks only.
<1>q. ASSUME row' = row, order' = order, sub' = sub, told' = told, now' = now
      PROVE  UNCHANGED Plans!planVars
  BY <1>q, PlanStutters DEF RowsKept
<1>1. ASSUME NEW p \in Payment, CreateOrder(p) PROVE UNCHANGED Plans!planVars
  <2>1. RowsKept
    BY <1>1, <1>t DEF CreateOrder, RowsKept
  <2>2. \A q \in Payment : order'[q] = "paid" <=> order[q] = "paid"
    BY <1>1, <1>t DEF CreateOrder, GatewayInv, OrderHasRow
  <2> QED
    BY <1>1, <2>1, <2>2, PlanStutters DEF CreateOrder, subVars
<1>2. ASSUME NEW w \in Caller, NEW p \in Payment, CreateFreeOrder(w, p) PROVE UNCHANGED Plans!planVars
  <2>1. RowsKept
    BY <1>2, <1>t DEF CreateFreeOrder, RowsKept
  <2> QED
    BY <1>2, <2>1, PlanStutters DEF CreateFreeOrder, subVars
<1>3. ASSUME NEW w \in Caller, NEW p \in Payment,
             Verify(w, p) \/ \E kind \in {"success", "failed"} : Webhook(w, p, kind)
      PROVE  UNCHANGED Plans!planVars
  BY <1>3, <1>q DEF Verify, Webhook, payVars, subVars
<1>4. ASSUME NEW w \in Caller, NEW g \in Gift, StartGift(w, g) PROVE UNCHANGED Plans!planVars
  BY <1>4, <1>q DEF StartGift, payVars
<1>5. ASSUME NEW w \in Worker, Ask(w) \/ Claim(w) \/ ReadCurrent(w) \/ CloseOthers(w) \/ Fault(w)
      PROVE  UNCHANGED Plans!planVars
  BY <1>5, <1>q DEF Ask, Claim, ReadCurrent, CloseOthers, Fault, payVars, subVars
<1>6. ASSUME NEW w \in Worker, MarkFailed(w) PROVE UNCHANGED Plans!planVars
  <2>1. RowsKept
    BY <1>6, <1>t DEF MarkFailed, RowsKept
  <2> QED
    BY <1>6, <2>1, PlanStutters DEF MarkFailed, subVars
<1>7. ASSUME NEW w \in Worker, Overwrite(w) PROVE [Plans!Next]_(Plans!planVars)
  <2>1. CASE worker[w].grant \in Gift
    BY <1>7, <2>1, OverwriteMakesRoom
  <2>2. CASE worker[w].grant \notin Gift
    <3>1. UNCHANGED Plans!planVars
      BY <1>7, <1>q, <2>2 DEF Overwrite, payVars
    <3> QED
      BY <3>1
  <2> QED
    BY <2>1, <2>2
<1>8. ASSUME NEW w \in Worker, Create(w) \/ Refer(w) PROVE [Plans!Next]_(Plans!planVars)
  BY <1>8, CreateFulfils, ReferTells
<1>9. ASSUME NEW w \in Job, Upkeep(w) PROVE Plans!Next
  BY <1>9, LapseIsLapse DEF Upkeep, payVars, Plans!Next
<1>10. ASSUME NEW w \in Job, ListPending(w) \/ NextPending(w) PROVE UNCHANGED Plans!planVars
  BY <1>10, <1>q DEF ListPending, NextPending, payVars, subVars
<1>11. CASE MySubscription
  BY <1>11, LapseIsLapse DEF MySubscription, payVars, Plans!Next
<1>12. ASSUME NEW p \in Payment, Pay(p) PROVE Plans!Next
  <2>1. {q \in Payment : order'[q] = "paid"} = {q \in Payment : order[q] = "paid"} \cup {p}
    BY <1>12, <1>t DEF Pay
  <2>2. row' = row /\ sub' = sub /\ told' = told /\ now' = now
    BY <1>12 DEF Pay, subVars
  <2>3. Plans!Collect(p)
    BY <2>1, <2>2 DEF Plans!Collect
  <2> QED
    BY <2>3 DEF Plans!Next
<1>13. ASSUME NEW p \in Payment, OrderExpires(p) PROVE UNCHANGED Plans!planVars
  <2>1. \A q \in Payment : order'[q] = "paid" <=> order[q] = "paid"
    BY <1>13, <1>t DEF OrderExpires
  <2> QED
    BY <1>13, <2>1, PlanStutters DEF OrderExpires, RowsKept, subVars
<1>14. ASSUME NEW p \in Payment, TryFails(p) \/ GrowOlder(p) PROVE UNCHANGED Plans!planVars
  BY <1>14, <1>q DEF TryFails, GrowOlder, subVars
<1>15. ASSUME NEW h \in hooks, HookLost(h) PROVE UNCHANGED Plans!planVars
  BY <1>15, <1>q DEF HookLost, subVars
<1>16. CASE Tick
  BY <1>16 DEF Tick, payVars, subVars, Plans!MonthEnds, Plans!Next
<1>17. CASE UNCHANGED vars
  BY <1>17, <1>q DEF vars, subVars
<1> QED
  BY <1>1, <1>2, <1>3, <1>4, <1>5, <1>6, <1>7, <1>8, <1>9, <1>10, <1>11, <1>12, <1>13, <1>14,
     <1>15, <1>16, <1>17
     DEF Next, WorkerStep, JobStep, Environment

\* Whoever fulfils an order and however grants overlap, fail or die, the code
\* implements PlanLedger: a period is granted once, in one step with the
\* SUCCESS of its payment, at its full length from today or from the end of an
\* earlier period; its end is never moved and its row never opened again; the
\* referral service is told once (fulfill, grantOrExtendSubscription).
THEOREM ImplementsPlans == Spec => PlanSpec
<1>1. Init => Plans!Init
  BY DEF Init, Plans!Init, NoSub, Plans!Grant, Grant
<1>2. TypeOK /\ GatewayInv /\ FulfilInv /\ PlanInv /\ [Next]_vars => [Plans!Next]_(Plans!planVars)
  BY NextPlan
<1>3. Spec => [](TypeOK /\ GatewayInv /\ FulfilInv)
  BY FulfilAlways
<1>4. Spec => []PlanInv
  BY <1>3, PlanInit, PlanStep, PTL DEF Spec
<1> QED
  BY <1>1, <1>2, <1>3, <1>4, PTL DEF Spec, PlanSpec, Plans!Spec
=============================================================================
