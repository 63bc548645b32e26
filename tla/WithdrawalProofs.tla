-------------------------- MODULE WithdrawalProofs --------------------------
(***************************************************************************)
(* Theorems about Withdrawal, for any set of students, withdrawals, admins *)
(* and status jobs and any amounts: every reachable state is well typed,   *)
(* no rupee of a wallet is lost or created, a student has one open request *)
(* at a time, and the code implements PayoutLedger.  Rows and Cashfree     *)
(* agree as long as no call judges a later send by an earlier one, and a   *)
(* UTR is recorded once unless two admins hold it at the same moment;      *)
(* calls that do not overlap never do either.                              *)
(***************************************************************************)
EXTENDS Withdrawal, TLAPS

-----------------------------------------------------------------------------
(* Handlers stay well typed *)

HandlerOK(h) ==
  /\ h \in HandlerType
  /\ h.pc \notin {"idle", "poll"} => h.wd \in Wd
  /\ h.pc = "markPaid" => h.ref \in Ref

HandlersOK(hs) ==
  /\ hs \in [Worker -> HandlerType]
  /\ \A p \in Worker : HandlerOK(hs[p])

LEMMA IdleOK == HandlerOK(Idle)
  BY WithdrawalAssumption DEF HandlerOK, Idle, HandlerType, Step, PayStep, TransferState

LEMMA TypeOKHandlers ==
  ASSUME TypeOK
  PROVE  HandlersOK(handler)
<1>1. handler \in [Worker -> HandlerType]
  BY DEF TypeOK
<1>2. BusyHandlers
  BY DEF TypeOK
<1>3. ASSUME NEW p \in Worker PROVE HandlerOK(handler[p])
  BY <1>1, <1>2 DEF HandlerOK, BusyHandlers
<1> QED
  BY <1>1, <1>3 DEF HandlersOK

\* A handler may be replaced by a well-typed one.
LEMMA SetHandlerOK ==
  ASSUME TypeOK, NEW p \in Worker, NEW h, HandlerOK(h),
         handler' = [handler EXCEPT ![p] = h]
  PROVE  HandlersOK(handler')
  BY TypeOKHandlers DEF HandlersOK, HandlerOK

LEMMA FieldTypes ==
  ASSUME TypeOK, NEW p \in Worker
  PROVE  /\ handler[p].pc \in Step
         /\ handler[p].wd \in Wd \cup {None}
         /\ handler[p].send \in 0..MaxSend
         /\ handler[p].seen \in TransferState
         /\ handler[p].ref \in Ref \cup {None}
         /\ handler[p].todo \in SUBSET (Wd \X (0..MaxSend))
         /\ handler[p] \in HandlerType
         /\ handler[p].pc \notin {"idle", "poll"} => handler[p].wd \in Wd
         /\ handler[p].pc = "markPaid" => handler[p].ref \in Ref
<1>1. handler[p] \in HandlerType
  BY TypeOKHandlers DEF HandlersOK
<1> QED
  BY <1>1, TypeOKHandlers DEF HandlersOK, HandlerOK, HandlerType

LEMMA EndOK ==
  ASSUME TypeOK, NEW p \in Worker, End(p)
  PROVE  HandlersOK(handler')
<1> DEFINE h == [Idle EXCEPT !.pc = IF handler[p].todo = {} THEN "idle" ELSE "poll",
                             !.todo = handler[p].todo]
<1>1. HandlerOK(h)
  BY IdleOK, FieldTypes DEF HandlerOK, HandlerType, Step, Idle
<1>2. handler' = [handler EXCEPT ![p] = h]
  BY DEF End
<1> QED
  BY <1>1, <1>2, SetHandlerOK

\* A busy handler moves on to another step of the same call.
LEMMA GoToOK ==
  ASSUME TypeOK, NEW p \in Worker, NEW step \in Step \ {"markPaid"}, GoTo(p, step),
         handler[p].pc \notin {"idle", "poll"}
  PROVE  HandlersOK(handler')
<1> DEFINE h == [handler[p] EXCEPT !.pc = step]
<1>1. HandlerOK(h)
  BY FieldTypes DEF HandlerOK, HandlerType
<1>2. handler' = [handler EXCEPT ![p] = h]
  BY DEF GoTo
<1> QED
  BY <1>1, <1>2, SetHandlerOK

\* A busy handler keeps Cashfree's answer and goes on to apply it.
LEMMA SeeOK ==
  ASSUME TypeOK, NEW p \in Worker, NEW t \in TransferState,
         handler[p].pc \notin {"idle", "poll"},
         handler' = [handler EXCEPT ![p].pc = "apply", ![p].seen = t]
  PROVE  HandlersOK(handler')
<1> DEFINE h == [handler[p] EXCEPT !.pc = "apply", !.seen = t]
<1>1. HandlerOK(h)
  BY FieldTypes DEF HandlerOK, HandlerType, Step
<1>2. handler' = [handler EXCEPT ![p] = h]
  BY FieldTypes DEF HandlerType
<1> QED
  BY <1>1, <1>2, SetHandlerOK

LEMMA BeginOK ==
  ASSUME TypeOK, NEW p \in Worker, NEW step \in Step \ {"markPaid"}, NEW w \in Wd,
         Begin(p, step, w)
  PROVE  HandlersOK(handler')
<1>1. HandlerOK([Idle EXCEPT !.pc = step, !.wd = w])
  BY IdleOK DEF HandlerOK, HandlerType, Idle
<1> QED
  BY <1>1, SetHandlerOK DEF Begin

-----------------------------------------------------------------------------
(* The wallet transactions stay well typed *)

LEMMA FinishPaidType ==
  ASSUME TypeOK, NEW w \in Wd, NEW from, NEW r \in Ref \cup {GatewayRef}, FinishPaid(w, from, r)
  PROVE  /\ status' \in [Wd -> Status]
         /\ paymentRef' \in [Wd -> Ref \cup {None, GatewayRef}]
         /\ balance' \in [Student -> Nat]
         /\ withdrawn' \in [Student -> Nat]
<1> USE WithdrawalAssumption DEF TypeOK, Status
<1>1. CASE status[w] \in from
  BY <1>1 DEF FinishPaid
<1>2. CASE status[w] \notin from
  BY <1>2 DEF FinishPaid
<1> QED
  BY <1>1, <1>2

LEMMA FinishRefundType ==
  ASSUME TypeOK, NEW w \in Wd, NEW from, NEW to \in Status, FinishRefund(w, from, to)
  PROVE  /\ status' \in [Wd -> Status]
         /\ paymentRef' \in [Wd -> Ref \cup {None, GatewayRef}]
         /\ balance' \in [Student -> Nat]
         /\ withdrawn' \in [Student -> Nat]
<1> USE WithdrawalAssumption DEF TypeOK, Status
<1>1. CASE status[w] \in from
  BY <1>1 DEF FinishRefund
<1>2. CASE status[w] \notin from
  BY <1>2 DEF FinishRefund
<1> QED
  BY <1>1, <1>2

-----------------------------------------------------------------------------
(* Type correctness *)

LEMMA TypeInit == Init => TypeOK
<1> SUFFICES ASSUME Init PROVE TypeOK
  OBVIOUS
<1>1. HandlersOK(handler)
  BY IdleOK DEF Init, HandlersOK, HandlerOK
<1>2. BusyHandlers /\ handler \in [Worker -> HandlerType]
  BY <1>1 DEF HandlersOK, HandlerOK, BusyHandlers
<1> QED
  BY <1>2, WithdrawalAssumption DEF Init, TypeOK, Status, TransferState

\* What a step must show: the handlers, and each remaining variable it changes.
LEMMA TypeOKFrom ==
  ASSUME HandlersOK(handler'),
         status' \in [Wd -> Status],
         paymentRef' \in [Wd -> Ref \cup {None, GatewayRef}],
         balance' \in [Student -> Nat],
         withdrawn' \in [Student -> Nat],
         frozen' \in [Student -> BOOLEAN],
         sends' \in [Wd -> 0..MaxSend],
         aged' \in [Wd -> 0..MaxSend],
         wire' \in SUBSET (Wd \X (0..MaxSend)),
         transfer' \in [Wd -> TransferState]
  PROVE  TypeOK'
<1>1. BusyHandlers' /\ handler' \in [Worker -> HandlerType]
  BY DEF HandlersOK, HandlerOK, BusyHandlers
<1> QED
  BY <1>1 DEF TypeOK
LEMMA TypeStep == TypeOK /\ [Next]_vars => TypeOK'
<1> SUFFICES ASSUME TypeOK, [Next]_vars PROVE TypeOK'
  OBVIOUS
<1> USE WithdrawalAssumption
<1>h. HandlersOK(handler)
  BY TypeOKHandlers
<1>t. /\ status \in [Wd -> Status]
      /\ paymentRef \in [Wd -> Ref \cup {None, GatewayRef}]
      /\ balance \in [Student -> Nat]
      /\ withdrawn \in [Student -> Nat]
      /\ frozen \in [Student -> BOOLEAN]
      /\ sends \in [Wd -> 0..MaxSend]
      /\ aged \in [Wd -> 0..MaxSend]
      /\ wire \in SUBSET (Wd \X (0..MaxSend))
      /\ transfer \in [Wd -> TransferState]
  BY DEF TypeOK
<1>1. ASSUME NEW w \in Wd, RequestWithdrawal(w) PROVE TypeOK'
  BY <1>1, <1>h, <1>t, TypeOKFrom
     DEF RequestWithdrawal, clockVars, gatewayVars, Status
<1>2. ASSUME NEW w \in Wd, CancelWithdrawal(w) PROVE TypeOK'
  BY <1>2, <1>h, <1>t, TypeOKFrom, FinishRefundType
     DEF CancelWithdrawal, clockVars, gatewayVars, Status
<1>3. ASSUME NEW a \in Admin, NEW w \in Wd, ApproveRead(a, w) PROVE TypeOK'
  BY <1>3, <1>t, TypeOKFrom, BeginOK
     DEF ApproveRead, Step, Worker, rowVars, walletVars, clockVars, gatewayVars
<1>4. ASSUME NEW a \in Admin, ApproveClaim(a) PROVE TypeOK'
  <2>1. HandlersOK(handler')
    BY <1>4, EndOK DEF ApproveClaim, Worker
  <2>2. status' \in [Wd -> Status]
    BY <1>4, <1>t DEF ApproveClaim, ClaimStatus, Status
  <2> QED
    BY <1>4, <1>t, <2>1, <2>2, TypeOKFrom DEF ApproveClaim, walletVars, clockVars, gatewayVars
<1>5. ASSUME NEW a \in Admin, NEW w \in Wd, NEW r \in Ref, MarkPaidRead(a, w, r) PROVE TypeOK'
  <2>1. HandlerOK([Idle EXCEPT !.pc = "markPaid", !.wd = w, !.ref = r])
    BY IdleOK DEF HandlerOK, HandlerType, Idle, Step
  <2>2. HandlersOK(handler')
    BY <1>5, <2>1, SetHandlerOK DEF MarkPaidRead, Worker
  <2> QED
    BY <1>5, <1>t, <2>2, TypeOKFrom DEF MarkPaidRead, rowVars, walletVars, clockVars, gatewayVars
<1>6. ASSUME NEW a \in Admin, MarkPaidClaim(a) PROVE TypeOK'
  <2>1. HandlersOK(handler')
    BY <1>6, EndOK DEF MarkPaidClaim, Worker
  <2>2. handler[a].wd \in Wd /\ handler[a].ref \in Ref
    BY <1>6, FieldTypes DEF MarkPaidClaim, At, Worker
  <2> QED
    BY <1>6, <1>t, <2>1, <2>2, TypeOKFrom, FinishPaidType DEF MarkPaidClaim, clockVars, gatewayVars
<1>7. ASSUME NEW a \in Admin, NEW w \in Wd, RejectRead(a, w) PROVE TypeOK'
  BY <1>7, <1>t, TypeOKFrom, BeginOK
     DEF RejectRead, Step, Worker, rowVars, walletVars, clockVars, gatewayVars
<1>8. ASSUME NEW a \in Admin, RejectClaim(a) PROVE TypeOK'
  <2>1. HandlersOK(handler') /\ handler[a].wd \in Wd
    BY <1>8, EndOK, FieldTypes DEF RejectClaim, At, Worker
  <2> QED
    BY <1>8, <1>t, <2>1, TypeOKFrom, FinishRefundType DEF RejectClaim, clockVars, gatewayVars, Status
<1>9. ASSUME NEW a \in Admin, NEW w \in Wd, MarkFailedRead(a, w) PROVE TypeOK'
  BY <1>9, <1>t, TypeOKFrom, BeginOK
     DEF MarkFailedRead, Step, Worker, rowVars, walletVars, clockVars, gatewayVars
<1>10. ASSUME NEW a \in Admin, MarkFailedClaim(a) PROVE TypeOK'
  <2>1. HandlersOK(handler') /\ handler[a].wd \in Wd
    BY <1>10, EndOK, FieldTypes DEF MarkFailedClaim, At, Worker
  <2> QED
    BY <1>10, <1>t, <2>1, TypeOKFrom, FinishRefundType DEF MarkFailedClaim, clockVars, gatewayVars, Status
<1>11. ASSUME NEW a \in Admin, NEW w \in Wd, PayRead(a, w) PROVE TypeOK'
  BY <1>11, <1>t, TypeOKFrom, BeginOK
     DEF PayRead, Step, Worker, rowVars, walletVars, clockVars, gatewayVars
<1>12. ASSUME NEW a \in Admin, PayClaim(a) PROVE TypeOK'
  <2> DEFINE w == handler[a].wd
  <2>0. w \in Wd /\ a \in Worker
    BY <1>12, FieldTypes DEF PayClaim, At, Worker
  <2>1. CASE status[w] = "APPROVED"
    <3> DEFINE h == [handler[a] EXCEPT !.pc = "payLookup", !.send = sends[w] + 1]
    <3>1. sends[w] + 1 \in 0..MaxSend
      BY <1>12, <2>0, <2>1, <1>t DEF PayClaim
    <3>2. HandlerOK(h)
      BY <2>0, <3>1, FieldTypes DEF HandlerOK, HandlerType, Step, PayStep
    <3>3. handler' = [handler EXCEPT ![a] = h]
      BY <1>12, <2>0, <2>1, FieldTypes DEF PayClaim, HandlerType
    <3>4. HandlersOK(handler')
      BY <2>0, <3>2, <3>3, SetHandlerOK
    <3>5. sends' \in [Wd -> 0..MaxSend] /\ status' \in [Wd -> Status]
      BY <1>12, <1>t, <2>0, <2>1, <3>1 DEF PayClaim, Status
    <3> QED
      BY <1>12, <1>t, <3>4, <3>5, TypeOKFrom DEF PayClaim, walletVars, gatewayVars
  <2>2. CASE status[w] # "APPROVED"
    BY <1>12, <1>t, <2>0, <2>2, EndOK, TypeOKFrom DEF PayClaim, walletVars, gatewayVars
  <2> QED
    BY <2>1, <2>2
<1>13. ASSUME NEW a \in Admin, PayLookup(a) PROVE TypeOK'
  <2>0. handler[a].pc \notin {"idle", "poll"} /\ handler[a].wd \in Wd /\ a \in Worker
    BY <1>13, FieldTypes DEF PayLookup, At, Worker
  <2>1. HandlersOK(handler')
    <3>1. CASE /\ handler' = [handler EXCEPT ![a].pc = "apply", ![a].seen = transfer[handler[a].wd]]
      BY <2>0, <1>t, <3>1, SeeOK
    <3>2. CASE GoTo(a, "payCreate") \/ GoTo(a, "refused")
      BY <2>0, <3>2, GoToOK DEF Step, PayStep
    <3> QED
      BY <1>13, <3>1, <3>2 DEF PayLookup
  <2> QED
    BY <1>13, <1>t, <2>1, TypeOKFrom DEF PayLookup, rowVars, walletVars, clockVars, gatewayVars
<1>14. ASSUME NEW a \in Admin, PayCreate(a) PROVE TypeOK'
  <2>0. /\ handler[a].pc \notin {"idle", "poll"} /\ a \in Worker
        /\ handler[a].wd \in Wd /\ handler[a].send \in 0..MaxSend
    BY <1>14, FieldTypes DEF PayCreate, At, Worker
  <2>1. HandlersOK(handler')
    BY <1>14, <2>0, GoToOK DEF PayCreate, Step, PayStep
  <2>2. wire' \in SUBSET (Wd \X (0..MaxSend))
    BY <1>14, <1>t, <2>0 DEF PayCreate
  <2> QED
    BY <1>14, <1>t, <2>1, <2>2, TypeOKFrom DEF PayCreate, rowVars, walletVars, clockVars
<1>15. ASSUME NEW a \in Admin, PayRefused(a) PROVE TypeOK'
  <2>1. HandlersOK(handler') /\ handler[a].wd \in Wd
    BY <1>15, EndOK, FieldTypes DEF PayRefused, At, Worker
  <2> QED
    BY <1>15, <1>t, <2>1, TypeOKFrom, FinishRefundType DEF PayRefused, clockVars, gatewayVars, Status
<1>16. ASSUME NEW a \in Admin, NEW w \in Wd, CheckStatus(a, w) PROVE TypeOK'
  <2>1. HandlerOK([Idle EXCEPT !.pc = "check", !.wd = w, !.send = sends[w]])
    BY IdleOK, <1>t DEF HandlerOK, HandlerType, Idle, Step
  <2>2. HandlersOK(handler')
    BY <1>16, <2>1, SetHandlerOK DEF CheckStatus, Worker
  <2> QED
    BY <1>16, <1>t, <2>2, TypeOKFrom DEF CheckStatus, rowVars, walletVars, clockVars, gatewayVars
<1>17. ASSUME NEW p \in Poller, Tick(p) PROVE TypeOK'
  <2> DEFINE rows == {<<w, sends[w]>> : w \in {v \in Wd : status[v] = "PROCESSING"}}
  <2>1. rows \in SUBSET (Wd \X (0..MaxSend))
    BY <1>t
  <2>2. HandlerOK([Idle EXCEPT !.pc = "poll", !.todo = rows])
    <3> HIDE DEF rows
    <3> QED
      BY <2>1, IdleOK DEF HandlerOK, HandlerType, Idle, Step
  <2>3. HandlersOK(handler')
    BY <1>17, <2>2, SetHandlerOK DEF Tick, Worker
  <2> QED
    BY <1>17, <1>t, <2>3, TypeOKFrom DEF Tick, rowVars, walletVars, clockVars, gatewayVars
<1>18. ASSUME NEW p \in Poller, TickNext(p) PROVE TypeOK'
  <2>1. PICK e \in handler[p].todo :
          handler' = [handler EXCEPT ![p].pc = "check", ![p].wd = e[1], ![p].send = e[2],
                                     ![p].todo = @ \ {e}]
    BY <1>18 DEF TickNext
  <2> DEFINE h == [handler[p] EXCEPT !.pc = "check", !.wd = e[1], !.send = e[2], !.todo = @ \ {e}]
  <2>2. e[1] \in Wd /\ e[2] \in 0..MaxSend /\ p \in Worker
    BY FieldTypes DEF Worker
  <2>3. HandlerOK(h)
    BY <2>2, FieldTypes DEF HandlerOK, HandlerType, Step
  <2>4. handler' = [handler EXCEPT ![p] = h]
    BY <2>1, <2>2, FieldTypes DEF HandlerType
  <2>5. HandlersOK(handler')
    BY <2>2, <2>3, <2>4, SetHandlerOK
  <2> QED
    BY <1>18, <1>t, <2>5, TypeOKFrom DEF TickNext, rowVars, walletVars, clockVars, gatewayVars
<1>19. ASSUME NEW p \in Poller, Crash(p) PROVE TypeOK'
  BY <1>19, <1>t, IdleOK, SetHandlerOK, TypeOKFrom
     DEF Crash, Worker, rowVars, walletVars, clockVars, gatewayVars
<1>20. ASSUME NEW p \in Worker, Lookup(p) PROVE TypeOK'
  <2>0. handler[p].pc \notin {"idle", "poll"} /\ handler[p].wd \in Wd
    BY <1>20, FieldTypes DEF Lookup, At
  <2>1. HandlersOK(handler')
    <3>1. CASE handler' = [handler EXCEPT ![p].pc = "apply", ![p].seen = transfer[handler[p].wd]]
      BY <2>0, <1>t, <3>1, SeeOK
    <3>2. CASE GoTo(p, "notFound")
      BY <2>0, <3>2, GoToOK DEF Step
    <3>3. CASE End(p)
      BY <3>3, EndOK
    <3> QED
      BY <1>20, <3>1, <3>2, <3>3 DEF Lookup
  <2> QED
    BY <1>20, <1>t, <2>1, TypeOKFrom DEF Lookup, rowVars, walletVars, clockVars, gatewayVars
<1>21. ASSUME NEW p \in Worker, NotFound(p) PROVE TypeOK'
  <2>1. HandlersOK(handler')
    BY <1>21, EndOK DEF NotFound
  <2>2. status' \in [Wd -> Status]
    BY <1>21, <1>t DEF NotFound, ClaimStatus, Status
  <2> QED
    BY <1>21, <1>t, <2>1, <2>2, TypeOKFrom DEF NotFound, walletVars, clockVars, gatewayVars
<1>22. ASSUME NEW p \in Worker, ApplySnapshot(p) PROVE TypeOK'
  <2>1. HandlersOK(handler') /\ handler[p].wd \in Wd
    BY <1>22, EndOK, FieldTypes DEF ApplySnapshot, At
  <2>2. CASE FinishPaid(handler[p].wd, {"PROCESSING"}, GatewayRef)
    BY <1>22, <1>t, <2>1, <2>2, TypeOKFrom, FinishPaidType DEF ApplySnapshot, clockVars, gatewayVars
  <2>3. CASE FinishRefund(handler[p].wd, {"PROCESSING"}, "FAILED")
    BY <1>22, <1>t, <2>1, <2>3, TypeOKFrom, FinishRefundType
       DEF ApplySnapshot, clockVars, gatewayVars, Status
  <2>4. CASE UNCHANGED <<rowVars, balance, withdrawn>>
    BY <1>22, <1>t, <2>1, <2>4, TypeOKFrom DEF ApplySnapshot, rowVars, clockVars, gatewayVars
  <2> QED
    BY <1>22, <2>2, <2>3, <2>4 DEF ApplySnapshot
<1>23. ASSUME NEW p \in Worker, GiveUp(p) PROVE TypeOK'
  BY <1>23, <1>t, EndOK, TypeOKFrom DEF GiveUp, rowVars, walletVars, clockVars, gatewayVars
<1>24. ASSUME NEW m \in wire, GatewayCreate(m) PROVE TypeOK'
  <2> DEFINE waiting == {a \in Admin : At(a, "payAnswer") /\ <<handler[a].wd, handler[a].send>> = m}
  <2>1. m[1] \in Wd /\ wire' \in SUBSET (Wd \X (0..MaxSend))
    BY <1>24, <1>t DEF GatewayCreate
  <2>2. ASSUME NEW t \in TransferState, NEW p \in waiting
        PROVE  /\ HandlerOK([handler[p] EXCEPT !.pc = "apply", !.seen = t])
               /\ HandlerOK([handler[p] EXCEPT !.pc = "refused"])
    <3>1. p \in Worker /\ handler[p].wd \in Wd
      BY FieldTypes DEF At, Worker
    <3> QED
      BY <3>1, FieldTypes DEF HandlerOK, HandlerType, Step
  <2>3. CASE \E t \in {"pending", "success", "failed"} :
               /\ transfer' = [transfer EXCEPT ![m[1]] = t]
               /\ handler' = [p \in Worker |-> IF p \in waiting
                                THEN [handler[p] EXCEPT !.pc = "apply", !.seen = t]
                                ELSE handler[p]]
    <3>1. PICK t \in {"pending", "success", "failed"} :
               /\ transfer' = [transfer EXCEPT ![m[1]] = t]
               /\ handler' = [p \in Worker |-> IF p \in waiting
                                THEN [handler[p] EXCEPT !.pc = "apply", !.seen = t]
                                ELSE handler[p]]
      BY <2>3
    <3>2. t \in TransferState
      BY DEF TransferState
    <3>3. ASSUME NEW p \in Worker PROVE HandlerOK(handler'[p])
      BY <1>h, <2>2, <3>1, <3>2 DEF HandlersOK
    <3>4. HandlersOK(handler')
      BY <3>1, <3>3 DEF HandlersOK, HandlerOK
    <3>5. transfer' \in [Wd -> TransferState]
      BY <1>t, <3>1, <3>2
    <3> QED
      BY <1>24, <1>t, <2>1, <3>4, <3>5, TypeOKFrom DEF GatewayCreate, rowVars, walletVars, clockVars
  <2>4. CASE /\ UNCHANGED transfer
             /\ handler' = [p \in Worker |-> IF p \in waiting
                              THEN [handler[p] EXCEPT !.pc = "refused"]
                              ELSE handler[p]]
    <3>1. "none" \in TransferState
      BY DEF TransferState
    <3>2. ASSUME NEW p \in Worker PROVE HandlerOK(handler'[p])
      BY <1>h, <2>2, <2>4, <3>1 DEF HandlersOK
    <3>3. HandlersOK(handler')
      BY <2>4, <3>2 DEF HandlersOK, HandlerOK
    <3> QED
      BY <1>24, <1>t, <2>1, <2>4, <3>3, TypeOKFrom DEF GatewayCreate, rowVars, walletVars, clockVars
  <2>5. CASE UNCHANGED <<transfer, handler>>
    BY <1>24, <1>h, <1>t, <2>1, <2>5, TypeOKFrom DEF GatewayCreate, rowVars, walletVars, clockVars
  <2> QED
    BY <1>24, <2>3, <2>4, <2>5 DEF GatewayCreate
<1>25. ASSUME NEW m \in wire, WireLoss(m) PROVE TypeOK'
  BY <1>25, <1>h, <1>t, TypeOKFrom DEF WireLoss, rowVars, walletVars, clockVars
<1>26. ASSUME NEW w \in Wd, GatewaySettle(w) PROVE TypeOK'
  <2>1. transfer' \in [Wd -> TransferState]
    BY <1>26, <1>t DEF GatewaySettle, TransferState
  <2> QED
    BY <1>26, <1>h, <1>t, <2>1, TypeOKFrom DEF GatewaySettle, rowVars, walletVars, clockVars
<1>27. ASSUME NEW w \in Wd, Age(w) PROVE TypeOK'
  <2>1. aged[w] + 1 \in 0..MaxSend
    BY <1>27, <1>t DEF Age
  <2>2. aged' \in [Wd -> 0..MaxSend]
    BY <1>27, <1>t, <2>1 DEF Age
  <2> QED
    BY <1>27, <1>h, <1>t, <2>2, TypeOKFrom DEF Age, rowVars, walletVars, gatewayVars
<1>28. ASSUME NEW s \in Student, SetFrozen(s) PROVE TypeOK'
  BY <1>28, <1>h, <1>t, TypeOKFrom DEF SetFrozen, rowVars, clockVars, gatewayVars
<1>29. CASE UNCHANGED vars
  BY <1>29, <1>h, <1>t, TypeOKFrom DEF vars
<1> QED
  BY <1>1, <1>2, <1>3, <1>4, <1>5, <1>6, <1>7, <1>8, <1>9, <1>10, <1>11, <1>12, <1>13, <1>14,
     <1>15, <1>16, <1>17, <1>18, <1>19, <1>20, <1>21, <1>22, <1>23, <1>24, <1>25, <1>26, <1>27,
     <1>28, <1>29
     DEF Next, StudentStep, AdminStep, PollerStep, SyncStep, GatewayStep, Moderation

\* Every reachable state of withdrawals, wallets, handlers and gateway is well
\* typed: no counter goes below zero, no handler works on nothing.
THEOREM TypeCorrect == Spec => []TypeOK
  BY TypeInit, TypeStep, PTL DEF Spec
-----------------------------------------------------------------------------
(* The code implements PayoutLedger *)

LedgerUnchanged == UNCHANGED <<balance, withdrawn, LedgerRequest>>

LEMMA LedgerStateOf ==
  ASSUME NEW st \in Status
  PROVE  /\ LedgerState(st) = "none" <=> st = "NONE"
         /\ LedgerState(st) = "open" <=> st \in OpenStatus
         /\ LedgerState(st) = "paid" <=> st = "PAID"
         /\ LedgerState(st) = "returned" <=> st \in ReturnedStatus
  BY DEF LedgerState, Status, OpenStatus, ReturnedStatus

LEMMA RequestIsOpen ==
  ASSUME TypeOK, NEW w \in Wd, RequestWithdrawal(w)
  PROVE  Ledger!Open(w)
<1>1. LedgerRequest' = [LedgerRequest EXCEPT ![w] = "open"]
  BY LedgerStateOf DEF TypeOK, RequestWithdrawal, LedgerRequest, LedgerState, Status, OpenStatus
<1>2. LedgerRequest[w] = "none"
  BY DEF RequestWithdrawal, LedgerRequest, LedgerState
<1>3. \A v \in Wd : Owner[v] = Owner[w] => LedgerRequest[v] # "open"
  BY LedgerStateOf DEF TypeOK, RequestWithdrawal, LedgerRequest
<1> QED
  BY <1>1, <1>2, <1>3 DEF RequestWithdrawal, Ledger!Open

LEMMA FinishPaidIsPay ==
  ASSUME TypeOK, NEW w \in Wd, NEW from \in SUBSET OpenStatus, NEW r, FinishPaid(w, from, r)
  PROVE  Ledger!Pay(w) \/ LedgerUnchanged
<1>1. CASE status[w] \in from
  <2>1. LedgerRequest[w] = "open"
    BY <1>1, LedgerStateOf DEF TypeOK, LedgerRequest
  <2>2. LedgerRequest' = [LedgerRequest EXCEPT ![w] = "paid"]
    BY <1>1 DEF TypeOK, FinishPaid, LedgerRequest, LedgerState, OpenStatus
  <2> QED
    BY <1>1, <2>1, <2>2 DEF FinishPaid, Ledger!Pay
<1>2. CASE status[w] \notin from
  BY <1>2 DEF FinishPaid, LedgerUnchanged, LedgerRequest
<1> QED
  BY <1>1, <1>2

LEMMA FinishRefundIsReturn ==
  ASSUME TypeOK, NEW w \in Wd, NEW from \in SUBSET OpenStatus, NEW to \in ReturnedStatus,
         FinishRefund(w, from, to)
  PROVE  Ledger!Return(w) \/ LedgerUnchanged
<1>1. CASE status[w] \in from
  <2>1. LedgerRequest[w] = "open"
    BY <1>1, LedgerStateOf DEF TypeOK, LedgerRequest
  <2>2. LedgerRequest' = [LedgerRequest EXCEPT ![w] = "returned"]
    BY <1>1 DEF TypeOK, FinishRefund, LedgerRequest, LedgerState, OpenStatus, ReturnedStatus
  <2> QED
    BY <1>1, <2>1, <2>2 DEF FinishRefund, Ledger!Return
<1>2. CASE status[w] \notin from
  BY <1>2 DEF FinishRefund, LedgerUnchanged, LedgerRequest
<1> QED
  BY <1>1, <1>2

\* Moving a request from one open status to another is invisible to the ledger.
LEMMA ClaimIsStutter ==
  ASSUME TypeOK, NEW w, NEW from \in OpenStatus, NEW to \in OpenStatus,
         status' = [status EXCEPT ![w] = to], status[w] = from,
         UNCHANGED <<balance, withdrawn>>
  PROVE  LedgerUnchanged
  BY DEF TypeOK, LedgerUnchanged, LedgerRequest, LedgerState, OpenStatus

LEMMA NoMoneyIsStutter ==
  ASSUME UNCHANGED <<status, balance, withdrawn>>
  PROVE  LedgerUnchanged
  BY DEF LedgerUnchanged, LedgerRequest

LEMMA StepSimulates ==
  ASSUME TypeOK, [Next]_vars
  PROVE  [Ledger!Next]_(Ledger!ledgerVars)
<1> SUFFICES \/ LedgerUnchanged
             \/ \E w \in Wd : Ledger!Open(w) \/ Ledger!Pay(w) \/ Ledger!Return(w)
  BY DEF Ledger!Next, Ledger!ledgerVars, LedgerUnchanged
<1> USE DEF OpenStatus, ReturnedStatus
<1>1. CASE StudentStep
  <2>1. ASSUME NEW w \in Wd, RequestWithdrawal(w) PROVE Ledger!Open(w)
    BY <2>1, RequestIsOpen
  <2>2. ASSUME NEW w \in Wd, CancelWithdrawal(w) PROVE Ledger!Return(w) \/ LedgerUnchanged
    BY <2>2, FinishRefundIsReturn DEF CancelWithdrawal
  <2> QED
    BY <1>1, <2>1, <2>2 DEF StudentStep
<1>2. CASE AdminStep
  <2>1. PICK a \in Admin :
          \/ \E w \in Wd : \/ ApproveRead(a, w) \/ RejectRead(a, w) \/ MarkFailedRead(a, w)
                           \/ PayRead(a, w) \/ CheckStatus(a, w)
                           \/ \E r \in Ref : MarkPaidRead(a, w, r)
          \/ ApproveClaim(a) \/ RejectClaim(a) \/ MarkFailedClaim(a) \/ MarkPaidClaim(a)
          \/ PayClaim(a) \/ PayLookup(a) \/ PayCreate(a) \/ PayRefused(a)
    BY <1>2 DEF AdminStep
  <2>0. a \in Worker
    BY DEF Worker
  <2>2. ASSUME NEW w \in Wd,
               \/ ApproveRead(a, w) \/ RejectRead(a, w) \/ MarkFailedRead(a, w)
               \/ PayRead(a, w) \/ CheckStatus(a, w)
               \/ \E r \in Ref : MarkPaidRead(a, w, r)
        PROVE  LedgerUnchanged
    BY <2>2, NoMoneyIsStutter DEF ApproveRead, RejectRead, MarkFailedRead, PayRead, CheckStatus,
       MarkPaidRead, rowVars, walletVars
  <2>3. CASE ApproveClaim(a)
    BY <2>3, ClaimIsStutter, NoMoneyIsStutter DEF ApproveClaim, ClaimStatus, walletVars
  <2>4. CASE RejectClaim(a)
    BY <2>0, <2>4, FieldTypes, FinishRefundIsReturn DEF RejectClaim, At
  <2>5. CASE MarkFailedClaim(a)
    BY <2>0, <2>5, FieldTypes, FinishRefundIsReturn DEF MarkFailedClaim, At
  <2>6. CASE MarkPaidClaim(a)
    BY <2>0, <2>6, FieldTypes, FinishPaidIsPay DEF MarkPaidClaim, At
  <2>7. CASE PayClaim(a)
    BY <2>7, ClaimIsStutter, NoMoneyIsStutter DEF PayClaim, walletVars
  <2>8. CASE PayLookup(a) \/ PayCreate(a)
    BY <2>8, NoMoneyIsStutter DEF PayLookup, PayCreate, rowVars, walletVars
  <2>9. CASE PayRefused(a)
    BY <2>0, <2>9, FieldTypes, FinishRefundIsReturn DEF PayRefused, At
  <2> QED
    BY <2>1, <2>2, <2>3, <2>4, <2>5, <2>6, <2>7, <2>8, <2>9
<1>3. CASE PollerStep
  BY <1>3, NoMoneyIsStutter DEF PollerStep, Tick, TickNext, Crash, rowVars, walletVars
<1>4. CASE SyncStep
  <2>1. PICK p \in Worker : Lookup(p) \/ NotFound(p) \/ ApplySnapshot(p) \/ GiveUp(p)
    BY <1>4 DEF SyncStep
  <2>2. CASE Lookup(p) \/ GiveUp(p)
    BY <2>2, NoMoneyIsStutter DEF Lookup, GiveUp, rowVars, walletVars
  <2>3. CASE NotFound(p)
    BY <2>3, ClaimIsStutter, NoMoneyIsStutter DEF NotFound, ClaimStatus, walletVars
  <2>4. CASE ApplySnapshot(p)
    <3>1. handler[p].wd \in Wd
      BY <2>4, FieldTypes DEF ApplySnapshot, At
    <3>2. \/ FinishPaid(handler[p].wd, {"PROCESSING"}, GatewayRef)
          \/ FinishRefund(handler[p].wd, {"PROCESSING"}, "FAILED")
          \/ UNCHANGED <<rowVars, balance, withdrawn>>
      BY <2>4 DEF ApplySnapshot
    <3> QED
      BY <3>1, <3>2, FinishPaidIsPay, FinishRefundIsReturn, NoMoneyIsStutter DEF rowVars
  <2> QED
    BY <2>1, <2>2, <2>3, <2>4
<1>5. CASE GatewayStep
  BY <1>5, NoMoneyIsStutter
     DEF GatewayStep, GatewayCreate, WireLoss, GatewaySettle, Age, rowVars, walletVars
<1>6. CASE Moderation
  BY <1>6, NoMoneyIsStutter DEF Moderation, SetFrozen, rowVars
<1>7. CASE UNCHANGED vars
  BY <1>7, NoMoneyIsStutter DEF vars
<1> QED
  BY <1>1, <1>2, <1>3, <1>4, <1>5, <1>6, <1>7 DEF Next

\* Whatever two admins, the job, the student and Cashfree do, each request leaves
\* the wallet once and is then either paid or returned, once.
THEOREM ImplementsLedger == Spec => LedgerSpec
<1>1. Init => Ledger!Init
  <2> SUFFICES ASSUME Init PROVE Ledger!Init
    OBVIOUS
  <2>1. \A w \in Wd : LedgerState(status[w]) = "none"
    BY DEF Init, LedgerState, OpenStatus
  <2> QED
    BY <2>1 DEF Init, Ledger!Init, LedgerRequest
<1>2. TypeOK /\ [Next]_vars => [Ledger!Next]_(Ledger!ledgerVars)
  BY StepSimulates
<1> QED
  BY <1>1, <1>2, TypeCorrect, PTL DEF Spec, LedgerSpec, Ledger!Spec
-----------------------------------------------------------------------------
(* Money.  The invariant is one of the abstract ledger; the refinement     *)
(* carries it over to the code.                                            *)

OneOpen ==
  \A v, w \in Wd : v # w /\ Owner[v] = Owner[w] /\ LedgerRequest[v] = "open"
                  => LedgerRequest[w] # "open"

ConservedFor(s) ==
  /\ (\A w \in Wd : Owner[w] = s => LedgerRequest[w] # "open")
       => balance[s] + withdrawn[s] = Credit[s]
  /\ \A w \in Wd : Owner[w] = s /\ LedgerRequest[w] = "open"
       => balance[s] + Amount[w] + withdrawn[s] = Credit[s]

LedgerInv == OneOpen /\ \A s \in Student : ConservedFor(s)

LEMMA OpenIsOpen ==
  ASSUME TypeOK, NEW w \in Wd
  PROVE  LedgerRequest[w] = "open" <=> status[w] \in OpenStatus
  BY LedgerStateOf DEF TypeOK, LedgerRequest

LEMMA LedgerInvIsInv ==
  ASSUME TypeOK
  PROVE  LedgerInv <=> OneOpenRequest /\ WalletConserved
<1>1. OneOpen <=> OneOpenRequest
  BY OpenIsOpen DEF OneOpen, OneOpenRequest
<1>2. (\A s \in Student : ConservedFor(s)) <=> WalletConserved
  BY OpenIsOpen DEF ConservedFor, WalletConserved
<1> QED
  BY <1>1, <1>2 DEF LedgerInv

\* A wallet that no step touches stays conserved.
LEMMA OtherWallet ==
  ASSUME NEW s \in Student, ConservedFor(s),
         balance'[s] = balance[s], withdrawn'[s] = withdrawn[s],
         \A v \in Wd : Owner[v] = s => LedgerRequest'[v] = LedgerRequest[v]
  PROVE  ConservedFor(s)'
  BY DEF ConservedFor

LEMMA OpenKeepsLedgerInv ==
  ASSUME TypeOK, LedgerInv, NEW w \in Wd, Ledger!Open(w)
  PROVE  LedgerInv'
<1> USE WithdrawalAssumption
<1>t. balance \in [Student -> Nat] /\ withdrawn \in [Student -> Nat]
  BY DEF TypeOK
<1>r. LedgerRequest \in [Wd -> {LedgerRequest[v] : v \in Wd}]
  BY DEF LedgerRequest
<1>1. OneOpen'
  BY <1>r DEF LedgerInv, OneOpen, Ledger!Open
<1>2. ASSUME NEW s \in Student PROVE ConservedFor(s)'
  <2>1. CASE s = Owner[w]
    <3>1. balance[s] + withdrawn[s] = Credit[s]
      BY <2>1 DEF LedgerInv, ConservedFor, Ledger!Open
    <3>2. \A v \in Wd : Owner[v] = s /\ LedgerRequest'[v] = "open" => v = w
      BY <1>r, <2>1 DEF Ledger!Open
    <3>3. LedgerRequest'[w] = "open"
      BY <1>r DEF Ledger!Open
    <3>4. /\ balance'[s] = balance[s] - Amount[w] /\ withdrawn'[s] = withdrawn[s]
          /\ Amount[w] \in Nat /\ balance[s] \in Nat /\ withdrawn[s] \in Nat
      BY <1>t, <2>1 DEF Ledger!Open
    <3>5. balance'[s] + Amount[w] + withdrawn'[s] = Credit[s]
      BY <3>1, <3>4
    <3> QED
      BY <2>1, <3>2, <3>3, <3>5 DEF ConservedFor
  <2>2. CASE s # Owner[w]
    BY <1>r, <1>t, <2>2, OtherWallet DEF LedgerInv, Ledger!Open
  <2> QED
    BY <2>1, <2>2
<1> QED
  BY <1>1, <1>2 DEF LedgerInv

\* An open request ends: its amount goes to exactly one of the two accounts.
LEMMA CloseKeepsLedgerInv ==
  ASSUME TypeOK, LedgerInv, NEW w \in Wd, Ledger!Pay(w) \/ Ledger!Return(w)
  PROVE  LedgerInv'
<1> USE WithdrawalAssumption
<1>t. balance \in [Student -> Nat] /\ withdrawn \in [Student -> Nat]
  BY DEF TypeOK
<1>r. LedgerRequest \in [Wd -> {LedgerRequest[v] : v \in Wd}]
  BY DEF LedgerRequest
<1>c. /\ LedgerRequest[w] = "open" /\ LedgerRequest'[w] # "open"
      /\ \A v \in Wd \ {w} : LedgerRequest'[v] = LedgerRequest[v]
  BY <1>r DEF Ledger!Pay, Ledger!Return
<1>1. OneOpen'
  BY <1>c DEF LedgerInv, OneOpen
<1>2. ASSUME NEW s \in Student PROVE ConservedFor(s)'
  <2>1. CASE s = Owner[w]
    <3>1. balance[s] + Amount[w] + withdrawn[s] = Credit[s]
      BY <1>c, <2>1 DEF LedgerInv, ConservedFor
    <3>2. \A v \in Wd : Owner[v] = s => LedgerRequest'[v] # "open"
      BY <1>c, <2>1 DEF LedgerInv, OneOpen
    <3>3. balance[s] \in Nat /\ withdrawn[s] \in Nat /\ Amount[w] \in Nat
      BY <1>t
    <3>4. balance'[s] + withdrawn'[s] = balance[s] + Amount[w] + withdrawn[s]
      BY <1>t, <2>1, <3>3 DEF Ledger!Pay, Ledger!Return
    <3> QED
      BY <3>1, <3>2, <3>4 DEF ConservedFor
  <2>2. CASE s # Owner[w]
    <3>1. balance'[s] = balance[s] /\ withdrawn'[s] = withdrawn[s]
      BY <1>t, <2>2 DEF Ledger!Pay, Ledger!Return
    <3> QED
      BY <1>c, <2>2, <3>1, OtherWallet DEF LedgerInv
  <2> QED
    BY <2>1, <2>2
<1> QED
  BY <1>1, <1>2 DEF LedgerInv

LEMMA LedgerInvInit == Init => LedgerInv
<1> SUFFICES ASSUME Init PROVE LedgerInv
  OBVIOUS
<1>1. \A w \in Wd : LedgerRequest[w] = "none"
  BY DEF Init, LedgerRequest, LedgerState, OpenStatus
<1>2. \A s \in Student : balance[s] + withdrawn[s] = Credit[s]
  BY WithdrawalAssumption DEF Init
<1> QED
  BY <1>1, <1>2 DEF LedgerInv, OneOpen, ConservedFor

LEMMA LedgerInvStep ==
  ASSUME TypeOK, LedgerInv, [Ledger!Next]_(Ledger!ledgerVars)
  PROVE  LedgerInv'
<1>1. CASE Ledger!Next
  BY <1>1, OpenKeepsLedgerInv, CloseKeepsLedgerInv DEF Ledger!Next
<1>2. CASE UNCHANGED Ledger!ledgerVars
  <2>1. balance' = balance /\ withdrawn' = withdrawn /\ LedgerRequest' = LedgerRequest
    BY <1>2 DEF Ledger!ledgerVars
  <2> QED
    BY <2>1 DEF LedgerInv, OneOpen, ConservedFor
<1> QED
  BY <1>1, <1>2

\* A student never has two open withdrawals, whatever interleaves.
THEOREM OneOpenAtATime == Spec => []OneOpenRequest
<1>1. Init => LedgerInv
  BY LedgerInvInit
<1>2. TypeOK /\ LedgerInv /\ [Next]_vars => LedgerInv'
  BY StepSimulates, LedgerInvStep
<1>3. TypeOK /\ LedgerInv => OneOpenRequest
  BY LedgerInvIsInv
<1> QED
  BY <1>1, <1>2, <1>3, TypeCorrect, PTL DEF Spec

\* Every rupee released into a wallet is in the balance, in the one open
\* withdrawal or paid out, whatever interleaves.
THEOREM MoneyConserved == Spec => []WalletConserved
<1>1. Init => LedgerInv
  BY LedgerInvInit
<1>2. TypeOK /\ LedgerInv /\ [Next]_vars => LedgerInv'
  BY StepSimulates, LedgerInvStep
<1>3. TypeOK /\ LedgerInv => WalletConserved
  BY LedgerInvIsInv
<1> QED
  BY <1>1, <1>2, <1>3, TypeCorrect, PTL DEF Spec
-----------------------------------------------------------------------------
(* Overlapping calls.  The code reads first and writes later, and its      *)
(* updates look at the status of a row, never at its processedAt.  So a    *)
(* call that learned that an earlier send "never arrived", or was refused, *)
(* may hand back or refund a request that another call has just sent       *)
(* again.  This is the only way in which rows and Cashfree come to         *)
(* disagree: as long as no call judges a later send by an earlier one, any *)
(* number of admins and jobs may overlap, with lists however old, crashes, *)
(* and requests that are late or lost.                                     *)

OnWire(w) == \E n \in 0..MaxSend : <<w, n>> \in wire

\* A create request on its way is that of the latest claim, which is young.
WireInv ==
  \A w \in Wd, n \in 0..MaxSend : <<w, n>> \in wire =>
    /\ n = sends[w]
    /\ aged[w] < n
    /\ status[w] \in {"PROCESSING", "PAID"}
    /\ transfer[w] = "none"

\* A row that waits for its first, or for another, claim was never accepted by
\* Cashfree, and every claim made for it is old.
RowInv ==
  \A w \in Wd :
    /\ aged[w] <= sends[w]
    /\ status[w] \in {"NONE", "REQUESTED", "APPROVED"} => transfer[w] = "none" /\ aged[w] = sends[w]
    /\ status[w] = "REJECTED" => transfer[w] = "none"
    /\ status[w] = "FAILED" => transfer[w] \in {"none", "failed"}
    /\ paymentRef[w] = GatewayRef => status[w] = "PAID" /\ transfer[w] = "success"

MoneyRows == WireInv /\ RowInv

Sent == PayStep \cup {"refused"}

\* What a call remembers was sent before it looked.
KnownSend(p) ==
  /\ handler[p].pc \in Sent \cup {"check", "notFound"} => handler[p].send <= sends[handler[p].wd]
  /\ \A e \in handler[p].todo : e[2] <= sends[e[1]]

\* A payment call that is still talking to Cashfree made the latest send, and
\* nothing of it has reached Cashfree.
OwnSend(p) ==
  LET w == handler[p].wd IN
  /\ handler[p].pc \in PayStep =>
       /\ p \in Admin
       /\ handler[p].send = sends[w]
       /\ aged[w] < sends[w]
       /\ status[w] \in {"PROCESSING", "PAID"}
  /\ handler[p].pc \in Sent /\ handler[p].send = sends[w] => transfer[w] = "none"
  /\ handler[p].pc \in Sent \ {"payAnswer"} /\ handler[p].send = sends[w] => ~OnWire(w)

\* What a call has learned from Cashfree is still true when it writes.
StillTrue(p) ==
  LET w == handler[p].wd IN
  /\ handler[p].pc = "notFound" /\ handler[p].send = sends[w] =>
       aged[w] = sends[w] /\ transfer[w] = "none"
  /\ handler[p].pc = "apply" /\ handler[p].seen \in {"success", "failed"} =>
       transfer[w] = handler[p].seen
  /\ handler[p].pc = "markFailed" => transfer[w] = "failed"

CallInv(p) == KnownSend(p) /\ OwnSend(p) /\ StillTrue(p)

\* One call makes a send, and no other call holds a refusal of it.
Alone ==
  \A p, q \in Worker :
    /\ p # q
    /\ handler[p].pc \in Sent
    /\ handler[q].pc \in PayStep
    /\ handler[p].wd = handler[q].wd
    => handler[p].send # handler[q].send

AgreeInv == MoneyRows /\ Alone /\ \A p \in Worker : CallInv(p)

-----------------------------------------------------------------------------
(* What a step leaves alone *)

\* A call that does not move says the same of a row that does not change.
LEMMA SameCall ==
  ASSUME NEW p \in Worker, CallInv(p), handler'[p] = handler[p],
         UNCHANGED <<clockVars, gatewayVars>>,
         handler[p].pc \in PayStep => status'[handler[p].wd] \in {"PROCESSING", "PAID"}
  PROVE  CallInv(p)'
<1>1. KnownSend(p)'
  BY DEF CallInv, KnownSend, clockVars
<1>2. OwnSend(p)'
  BY DEF CallInv, OwnSend, OnWire, clockVars, gatewayVars
<1>3. StillTrue(p)'
  BY DEF CallInv, StillTrue, clockVars, gatewayVars
<1> QED
  BY <1>1, <1>2, <1>3 DEF CallInv

\* A call that has not come to Cashfree yet, or has done with it, has only its list.
LEMMA PlainCall ==
  ASSUME NEW p \in Worker,
         handler'[p].pc \notin Sent \cup {"check", "notFound", "apply", "markFailed"},
         \A e \in handler'[p].todo : e[2] <= sends'[e[1]]
  PROVE  CallInv(p)'
  BY DEF CallInv, KnownSend, OwnSend, StillTrue, Sent, PayStep

\* The step of one call keeps Alone when the call does not begin a send.
LEMMA AloneKept ==
  ASSUME Alone, NEW p \in Worker,
         \A q \in Worker \ {p} : handler'[q] = handler[q],
         handler'[p].pc \in Sent =>
           /\ handler[p].pc \in PayStep
           /\ handler'[p].wd = handler[p].wd
           /\ handler'[p].send = handler[p].send
  PROVE  Alone'
<1> SUFFICES ASSUME NEW q \in Worker, NEW r \in Worker, q # r,
                    handler'[q].pc \in Sent, handler'[r].pc \in PayStep,
                    handler'[q].wd = handler'[r].wd
             PROVE  handler'[q].send # handler'[r].send
  BY DEF Alone
<1>1. CASE q = p
  BY <1>1 DEF Alone, Sent
<1>2. CASE r = p
  BY <1>2 DEF Alone, Sent
<1>3. CASE q # p /\ r # p
  BY <1>3 DEF Alone
<1> QED
  BY <1>1, <1>2, <1>3

\* A step of one call that leaves the rows, the clock and Cashfree as they are.
LEMMA MoveStep ==
  ASSUME AgreeInv, NEW p \in Worker,
         UNCHANGED <<rowVars, clockVars, gatewayVars>>,
         \A q \in Worker \ {p} : handler'[q] = handler[q],
         CallInv(p)',
         handler'[p].pc \in Sent =>
           /\ handler[p].pc \in PayStep
           /\ handler'[p].wd = handler[p].wd
           /\ handler'[p].send = handler[p].send
  PROVE  AgreeInv'
<1>1. ASSUME NEW q \in Worker \ {p} PROVE CallInv(q)'
  <2>1. CallInv(q) /\ (handler[q].pc \in PayStep => status[handler[q].wd] \in {"PROCESSING", "PAID"})
    BY DEF AgreeInv, CallInv, OwnSend
  <2> QED
    BY <2>1, SameCall DEF rowVars
<1>2. MoneyRows'
  BY DEF AgreeInv, MoneyRows, WireInv, RowInv, rowVars, clockVars, gatewayVars
<1>3. Alone'
  BY AloneKept DEF AgreeInv
<1> QED
  BY <1>1, <1>2, <1>3 DEF AgreeInv

LEMMA EndShape ==
  ASSUME TypeOK, NEW p \in Worker, End(p)
  PROVE  /\ handler'[p].pc \in {"idle", "poll"}
         /\ handler'[p].pc = "idle" => handler'[p].todo = {}
         /\ handler'[p].todo = handler[p].todo
         /\ \A q \in Worker \ {p} : handler'[q] = handler[q]
<1>1. handler \in [Worker -> HandlerType]
  BY DEF TypeOK
<1> QED
  BY <1>1 DEF End, Idle

LEMMA EndCall ==
  ASSUME TypeOK, NEW p \in Worker, CallInv(p), End(p), sends' = sends
  PROVE  CallInv(p)'
<1>1. handler'[p].pc \in {"idle", "poll"} /\ handler'[p].todo = handler[p].todo
  BY EndShape
<1>2. \A e \in handler'[p].todo : e[2] <= sends'[e[1]]
  BY <1>1 DEF CallInv, KnownSend
<1>3. handler'[p].pc \notin Sent \cup {"check", "notFound", "apply", "markFailed"}
  BY <1>1 DEF Sent, PayStep
<1> QED
  BY <1>2, <1>3, PlainCall

\* No call but p's is talking to Cashfree about w.
NobodySends(p, w) ==
  \A q \in Worker \ {p} : handler[q].pc \in PayStep => handler[q].wd # w

LEMMA NobodySendsIf ==
  ASSUME TypeOK, AgreeInv, NEW p, NEW w \in Wd,
         \/ status[w] \notin {"PROCESSING", "PAID"}
         \/ transfer[w] # "none"
         \/ aged[w] = sends[w]
  PROVE  NobodySends(p, w)
<1> SUFFICES ASSUME NEW q \in Worker, handler[q].pc \in PayStep, handler[q].wd = w PROVE FALSE
  BY DEF NobodySends
<1>1. CallInv(q) /\ handler[q].pc \in Sent
  BY DEF AgreeInv, Sent
<1>2. /\ aged[w] < sends[w] /\ status[w] \in {"PROCESSING", "PAID"} /\ transfer[w] = "none"
  BY <1>1 DEF CallInv, OwnSend
<1>3. aged[w] \in Nat /\ sends[w] \in Nat
  BY WithdrawalAssumption DEF TypeOK
<1> QED
  BY <1>2, <1>3

\* A call that writes the row of w and ends.
LEMMA FinishStep ==
  ASSUME TypeOK, AgreeInv, NEW p \in Worker, End(p), NEW w \in Wd,
         UNCHANGED <<clockVars, gatewayVars>>, MoneyRows',
         \A v \in Wd \ {w} : status'[v] = status[v],
         status'[w] \in {status[w], "PAID"} \/ NobodySends(p, w)
  PROVE  AgreeInv'
<1>1. CallInv(p)'
  BY EndCall DEF AgreeInv, clockVars
<1>2. /\ handler'[p].pc \notin Sent
      /\ \A q \in Worker \ {p} : handler'[q] = handler[q]
  BY EndShape DEF Sent, PayStep
<1>3. ASSUME NEW q \in Worker \ {p} PROVE CallInv(q)'
  <2>1. CallInv(q)
    BY DEF AgreeInv
  <2>2. ASSUME handler[q].pc \in PayStep PROVE status'[handler[q].wd] \in {"PROCESSING", "PAID"}
    <3>1. status[handler[q].wd] \in {"PROCESSING", "PAID"} /\ handler[q].wd \in Wd
      BY <2>1, <2>2, FieldTypes DEF CallInv, OwnSend, PayStep
    <3>2. CASE handler[q].wd = w
      BY <2>2, <3>1, <3>2 DEF NobodySends
    <3>3. CASE handler[q].wd # w
      BY <3>1, <3>3
    <3> QED
      BY <3>2, <3>3
  <2> QED
    BY <1>2, <2>1, <2>2, SameCall
<1>4. Alone'
  BY <1>2, AloneKept DEF AgreeInv
<1> QED
  BY <1>1, <1>3, <1>4 DEF AgreeInv

-----------------------------------------------------------------------------
(* The rows after an update of one of them, when Cashfree and the clock    *)
(* stand still                                                             *)

LEMMA OtherRows ==
  ASSUME TypeOK, NEW w \in Wd,
         \/ \E from, r : FinishPaid(w, from, r)
         \/ \E from, to : FinishRefund(w, from, to)
         \/ \E from, to : ClaimStatus(w, from, to)
  PROVE  \A v \in Wd \ {w} : status'[v] = status[v]
<1>t. status \in [Wd -> Status]
  BY DEF TypeOK
<1> QED
  BY <1>t DEF FinishPaid, FinishRefund, ClaimStatus

LEMMA PaidRows ==
  ASSUME TypeOK, MoneyRows, NEW w \in Wd, NEW from \in SUBSET {"APPROVED", "PROCESSING"},
         NEW r \in Ref \cup {GatewayRef}, FinishPaid(w, from, r),
         UNCHANGED <<clockVars, gatewayVars>>,
         r = GatewayRef => transfer[w] = "success"
  PROVE  MoneyRows' /\ status'[w] \in {status[w], "PAID"}
<1> USE DEF MoneyRows
<1>t. /\ status \in [Wd -> Status] /\ wire \in SUBSET (Wd \X (0..MaxSend))
      /\ paymentRef \in [Wd -> Ref \cup {None, GatewayRef}]
  BY DEF TypeOK
<1>1. CASE status[w] \in from
  <2>1. /\ status' = [status EXCEPT ![w] = "PAID"]
        /\ paymentRef' = [paymentRef EXCEPT ![w] = r]
    BY <1>1 DEF FinishPaid
  <2>2. WireInv'
    BY <1>t, <2>1 DEF WireInv, clockVars, gatewayVars
  <2>3. RowInv'
    BY <1>t, <2>1, WithdrawalAssumption DEF RowInv, clockVars, gatewayVars
  <2> QED
    BY <1>t, <2>1, <2>2, <2>3
<1>2. CASE status[w] \notin from
  BY <1>2 DEF FinishPaid, WireInv, RowInv, clockVars, gatewayVars
<1> QED
  BY <1>1, <1>2

LEMMA RefundRows ==
  ASSUME TypeOK, MoneyRows, NEW w \in Wd,
         NEW from \in SUBSET {"REQUESTED", "APPROVED", "PROCESSING"},
         NEW to \in {"REJECTED", "FAILED"}, FinishRefund(w, from, to),
         UNCHANGED <<clockVars, gatewayVars>>,
         status[w] \in from => ~OnWire(w),
         status[w] \in from => transfer[w] = "none" \/ (to = "FAILED" /\ transfer[w] = "failed")
  PROVE  MoneyRows' /\ (status[w] \notin from => status'[w] = status[w])
<1> USE DEF MoneyRows
<1>t. status \in [Wd -> Status] /\ wire \in SUBSET (Wd \X (0..MaxSend))
  BY DEF TypeOK
<1>1. CASE status[w] \in from
  <2>1. status' = [status EXCEPT ![w] = to] /\ paymentRef' = paymentRef
    BY <1>1 DEF FinishRefund
  <2>2. WireInv'
    BY <1>1, <1>t, <2>1 DEF WireInv, OnWire, clockVars, gatewayVars
  <2>3. RowInv'
    BY <1>1, <1>t, <2>1 DEF RowInv, clockVars, gatewayVars
  <2> QED
    BY <1>1, <2>2, <2>3
<1>2. CASE status[w] \notin from
  BY <1>2 DEF FinishRefund, WireInv, RowInv, clockVars, gatewayVars
<1> QED
  BY <1>1, <1>2

\* REQUESTED -> APPROVED, or PROCESSING -> APPROVED when every claim is old and
\* Cashfree knows nothing.
LEMMA ApprovedRows ==
  ASSUME TypeOK, MoneyRows, NEW w \in Wd, NEW from \in {"REQUESTED", "PROCESSING"},
         ClaimStatus(w, from, "APPROVED"),
         UNCHANGED <<paymentRef, clockVars, gatewayVars>>,
         status[w] = from => transfer[w] = "none" /\ aged[w] = sends[w]
  PROVE  MoneyRows' /\ (status[w] # from => status'[w] = status[w])
<1> USE DEF MoneyRows
<1>t. /\ status \in [Wd -> Status] /\ wire \in SUBSET (Wd \X (0..MaxSend))
      /\ sends \in [Wd -> 0..MaxSend] /\ aged \in [Wd -> 0..MaxSend]
  BY DEF TypeOK
<1>u. MaxSend \in Nat
  BY WithdrawalAssumption
<1>1. CASE status[w] = from
  <2>1. status' = [status EXCEPT ![w] = "APPROVED"]
    BY <1>1 DEF ClaimStatus
  <2>2. \A n \in 0..MaxSend : <<w, n>> \notin wire
    BY <1>1, <1>t, <1>u DEF WireInv
  <2>3. WireInv'
    BY <1>t, <2>1, <2>2 DEF WireInv, clockVars, gatewayVars
  <2>4. RowInv'
    BY <1>1, <1>t, <2>1 DEF RowInv, clockVars, gatewayVars
  <2> QED
    BY <1>1, <2>3, <2>4
<1>2. CASE status[w] # from
  BY <1>2 DEF ClaimStatus, WireInv, RowInv, clockVars, gatewayVars
<1> QED
  BY <1>1, <1>2

-----------------------------------------------------------------------------
(* The reading steps *)

LEMMA ReadingSteps ==
  ASSUME TypeOK, AgreeInv, NEW a \in Admin, NEW w \in Wd,
         \/ ApproveRead(a, w) \/ RejectRead(a, w) \/ MarkFailedRead(a, w)
         \/ PayRead(a, w) \/ CheckStatus(a, w)
         \/ \E r \in Ref : MarkPaidRead(a, w, r)
  PROVE  AgreeInv'
<1> USE DEF Worker
<1>t. handler \in [Worker -> HandlerType] /\ sends \in [Wd -> Nat]
  BY WithdrawalAssumption DEF TypeOK
<1>u. UNCHANGED <<rowVars, clockVars, gatewayVars>>
  BY DEF ApproveRead, RejectRead, MarkFailedRead, PayRead, CheckStatus, MarkPaidRead
<1>1. CASE ApproveRead(a, w) \/ RejectRead(a, w) \/ PayRead(a, w) \/ \E r \in Ref : MarkPaidRead(a, w, r)
  <2>1. /\ handler'[a].pc \in {"approve", "reject", "payClaim", "markPaid"} /\ handler'[a].todo = {}
        /\ \A q \in Worker \ {a} : handler'[q] = handler[q]
    BY <1>t, <1>1 DEF ApproveRead, RejectRead, PayRead, MarkPaidRead, Begin, Idle
  <2>2. handler'[a].pc \notin Sent \cup {"check", "notFound", "apply", "markFailed"}
    BY <2>1 DEF Sent, PayStep
  <2> QED
    BY <1>u, <2>1, <2>2, PlainCall, MoveStep
<1>2. CASE MarkFailedRead(a, w)
  <2>1. /\ handler'[a].pc = "markFailed" /\ handler'[a].wd = w /\ handler'[a].todo = {}
        /\ \A q \in Worker \ {a} : handler'[q] = handler[q]
        /\ transfer'[w] = "failed"
    BY <1>t, <1>2 DEF MarkFailedRead, Begin, Idle, gatewayVars
  <2>2. CallInv(a)' /\ handler'[a].pc \notin Sent
    BY <2>1 DEF CallInv, KnownSend, OwnSend, StillTrue, Sent, PayStep
  <2> QED
    BY <1>u, <2>1, <2>2, MoveStep
<1>3. CASE CheckStatus(a, w)
  <2>1. /\ handler'[a].pc = "check" /\ handler'[a].wd = w /\ handler'[a].todo = {}
        /\ handler'[a].send = sends[w]
        /\ \A q \in Worker \ {a} : handler'[q] = handler[q]
    BY <1>t, <1>3 DEF CheckStatus, Idle
  <2>2. CallInv(a)' /\ handler'[a].pc \notin Sent
    BY <1>t, <1>u, <2>1 DEF clockVars, CallInv, KnownSend, OwnSend, StillTrue, Sent, PayStep
  <2> QED
    BY <1>u, <2>1, <2>2, MoveStep
<1> QED
  BY <1>1, <1>2, <1>3

LEMMA JobSteps ==
  ASSUME TypeOK, AgreeInv, NEW p \in Poller, Tick(p) \/ TickNext(p) \/ Crash(p)
  PROVE  AgreeInv'
<1> USE DEF Worker
<1>t. handler \in [Worker -> HandlerType] /\ sends \in [Wd -> Nat]
  BY WithdrawalAssumption DEF TypeOK
<1>u. UNCHANGED <<rowVars, clockVars, gatewayVars>>
  BY DEF Tick, TickNext, Crash
<1>1. CASE Tick(p) \/ Crash(p)
  <2>1. /\ handler'[p].pc \in {"poll", "idle"}
        /\ \A e \in handler'[p].todo : e[1] \in Wd /\ e[2] = sends[e[1]]
        /\ \A q \in Worker \ {p} : handler'[q] = handler[q]
    <3>1. CASE Tick(p)
      BY <1>t, <3>1 DEF Tick, Idle
    <3>2. CASE Crash(p)
      BY <1>t, <3>2 DEF Crash, Idle
    <3> QED
      BY <1>1, <3>1, <3>2
  <2>2. \A e \in handler'[p].todo : e[2] <= sends'[e[1]]
    BY <1>t, <1>u, <2>1 DEF clockVars
  <2>3. handler'[p].pc \notin Sent \cup {"check", "notFound", "apply", "markFailed"}
    BY <2>1 DEF Sent, PayStep
  <2> QED
    BY <1>u, <2>1, <2>2, <2>3, PlainCall, MoveStep
<1>2. ASSUME TickNext(p) PROVE AgreeInv'
  <2>0. PICK e \in handler[p].todo :
          handler' = [handler EXCEPT ![p].pc = "check", ![p].wd = e[1], ![p].send = e[2],
                                     ![p].todo = @ \ {e}]
    BY <1>2, Zenon DEF TickNext
  <2>1. /\ handler'[p].pc = "check" /\ handler'[p].wd = e[1] /\ handler'[p].send = e[2]
        /\ handler'[p].todo = handler[p].todo \ {e}
        /\ \A q \in Worker \ {p} : handler'[q] = handler[q]
    BY <1>t, <2>0 DEF HandlerType
  <2>2. \A d \in handler[p].todo : d[2] <= sends[d[1]]
    BY DEF AgreeInv, CallInv, KnownSend
  <2>3. CallInv(p)' /\ handler'[p].pc \notin Sent
    BY <1>u, <2>1, <2>2 DEF clockVars, CallInv, KnownSend, OwnSend, StillTrue, Sent, PayStep
  <2> QED
    BY <1>u, <2>1, <2>3, MoveStep
<1> QED
  BY <1>1, <1>2

\* The answer to a status check, and a call that ends without a write.
LEMMA LookupStep ==
  ASSUME TypeOK, AgreeInv, NEW p \in Worker, Lookup(p) \/ GiveUp(p)
  PROVE  AgreeInv'
<1> DEFINE w == handler[p].wd
<1>t. handler \in [Worker -> HandlerType]
  BY DEF TypeOK
<1>u. UNCHANGED <<rowVars, clockVars, gatewayVars>>
  BY DEF Lookup, GiveUp
<1>p. handler[p].pc \notin {"idle", "poll"} /\ w \in Wd
  BY FieldTypes DEF Lookup, GiveUp, At
<1>c. CallInv(p)
  BY DEF AgreeInv
<1>1. CASE End(p)
  <2>1. CallInv(p)'
    BY <1>1, <1>u, <1>c, EndCall DEF clockVars
  <2>2. handler'[p].pc \notin Sent /\ \A q \in Worker \ {p} : handler'[q] = handler[q]
    BY <1>1, EndShape DEF Sent, PayStep
  <2> QED
    BY <1>u, <2>1, <2>2, MoveStep
<1>2. CASE handler' = [handler EXCEPT ![p].pc = "apply", ![p].seen = transfer[w]]
  <2>1. /\ handler'[p].pc = "apply" /\ handler'[p].seen = transfer[w] /\ handler'[p].wd = w
        /\ handler'[p].todo = handler[p].todo
        /\ \A q \in Worker \ {p} : handler'[q] = handler[q]
    BY <1>t, <1>2 DEF HandlerType
  <2>2. CallInv(p)' /\ handler'[p].pc \notin Sent
    BY <1>u, <1>c, <2>1
       DEF clockVars, gatewayVars, CallInv, KnownSend, OwnSend, StillTrue, Sent, PayStep
  <2> QED
    BY <1>u, <2>1, <2>2, MoveStep
<1>3. CASE /\ At(p, "check") /\ transfer[w] = "none" /\ handler[p].send <= aged[w]
           /\ GoTo(p, "notFound")
  <2>1. /\ handler'[p].pc = "notFound" /\ handler'[p].wd = w
        /\ handler'[p].todo = handler[p].todo /\ handler'[p].send = handler[p].send
        /\ \A q \in Worker \ {p} : handler'[q] = handler[q]
    BY <1>t, <1>3 DEF GoTo, HandlerType
  <2>2. handler[p].send = sends[w] => aged[w] = sends[w]
    <3>1. aged[w] <= sends[w] /\ aged[w] \in Nat /\ sends[w] \in Nat
      BY <1>p, WithdrawalAssumption DEF AgreeInv, MoneyRows, RowInv, TypeOK
    <3> QED
      BY <1>3, <3>1
  <2>3. KnownSend(p)'
    BY <1>3, <1>u, <1>c, <2>1 DEF At, clockVars, CallInv, KnownSend
  <2>4. OwnSend(p)' /\ StillTrue(p)' /\ handler'[p].pc \notin Sent
    BY <1>3, <1>u, <2>1, <2>2 DEF clockVars, gatewayVars, OwnSend, StillTrue, Sent, PayStep
  <2> QED
    BY <1>u, <2>1, <2>3, <2>4, MoveStep DEF CallInv
<1> QED
  BY <1>1, <1>2, <1>3 DEF Lookup, GiveUp

-----------------------------------------------------------------------------
(* The payment call *)

\* A new send: nobody else is at work on one, and what others remember of the
\* row is an earlier send.
LEMMA ClaimStep ==
  ASSUME TypeOK, AgreeInv, NEW a \in Admin, PayClaim(a), status[handler[a].wd] = "APPROVED"
  PROVE  AgreeInv'
<1> DEFINE w == handler[a].wd
<1> USE DEF Worker
<1>t. /\ handler \in [Worker -> HandlerType] /\ status \in [Wd -> Status]
      /\ sends \in [Wd -> 0..MaxSend] /\ aged \in [Wd -> 0..MaxSend] /\ MaxSend \in Nat
      /\ wire \in SUBSET (Wd \X (0..MaxSend))
  BY WithdrawalAssumption DEF TypeOK
<1>p. handler[a].pc = "payClaim" /\ w \in Wd
  BY FieldTypes DEF PayClaim, At
<1>1. /\ status' = [status EXCEPT ![w] = "PROCESSING"]
      /\ sends' = [sends EXCEPT ![w] = @ + 1]
      /\ UNCHANGED <<paymentRef, aged, wire, transfer>>
  BY DEF PayClaim, gatewayVars
<1>2. /\ handler'[a].pc = "payLookup" /\ handler'[a].wd = w /\ handler'[a].send = sends[w] + 1
      /\ handler'[a].todo = handler[a].todo
      /\ \A q \in Worker \ {a} : handler'[q] = handler[q]
  BY <1>t DEF PayClaim, HandlerType
<1>3. aged[w] = sends[w] /\ transfer[w] = "none" /\ paymentRef[w] # GatewayRef
  BY <1>p DEF AgreeInv, MoneyRows, RowInv
<1>4. \A n \in 0..MaxSend : <<w, n>> \notin wire
  BY <1>p DEF AgreeInv, MoneyRows, WireInv
<1>5. /\ sends'[w] = sends[w] + 1 /\ sends[w] < sends'[w] /\ aged'[w] < sends'[w]
      /\ aged'[w] <= sends'[w] /\ status'[w] = "PROCESSING"
      /\ \A v \in Wd \ {w} : sends'[v] = sends[v] /\ status'[v] = status[v]
      /\ \A v \in Wd : sends[v] <= sends'[v] /\ sends[v] \in Nat /\ sends'[v] \in Nat
  <2>1. sends'[w] = sends[w] + 1 /\ status'[w] = "PROCESSING"
        /\ \A v \in Wd \ {w} : sends'[v] = sends[v] /\ status'[v] = status[v]
    BY <1>t, <1>p, <1>1
  <2>2. \A v \in Wd : sends[v] \in Nat
    BY <1>t
  <2>3. aged'[w] = sends[w]
    BY <1>1, <1>3
  <2> QED
    BY <1>p, <2>1, <2>2, <2>3
<1>6. WireInv'
  BY <1>p, <1>1, <1>4, <1>5 DEF AgreeInv, MoneyRows, WireInv
<1>7. RowInv'
  BY <1>p, <1>1, <1>3, <1>5 DEF AgreeInv, MoneyRows, RowInv
<1>8. ASSUME NEW q \in Worker PROVE \A e \in handler[q].todo : e[2] <= sends'[e[1]]
  <2> SUFFICES ASSUME NEW e \in handler[q].todo PROVE e[2] <= sends'[e[1]]
    OBVIOUS
  <2>1. e[2] <= sends[e[1]] /\ e[1] \in Wd /\ e[2] \in Nat
    BY <1>t, FieldTypes DEF AgreeInv, CallInv, KnownSend
  <2> QED
    BY <1>5, <2>1
<1>9. CallInv(a)'
  <2>0. handler'[a].send <= sends'[w] /\ \A e \in handler'[a].todo : e[2] <= sends'[e[1]]
    BY <1>2, <1>5, <1>8, <1>p
  <2>1. KnownSend(a)'
    BY <1>2, <2>0 DEF KnownSend
  <2>2. OwnSend(a)'
    BY <1>1, <1>2, <1>3, <1>4, <1>5 DEF OwnSend, OnWire
  <2> QED
    BY <1>2, <2>1, <2>2 DEF CallInv, StillTrue
<1>10. ASSUME NEW q \in Worker \ {a}, handler[q].wd = w PROVE handler[q].pc \notin PayStep
  <2>1. NobodySends(a, w)
    BY <1>p, NobodySendsIf
  <2> QED
    BY <1>10, <2>1 DEF NobodySends
<1>11. ASSUME NEW q \in Worker, handler[q].wd = w, handler[q].pc \in Sent \cup {"check", "notFound"}
       PROVE  handler[q].send < sends'[w]
  <2>1. handler[q].send <= sends[w] /\ handler[q].send \in Nat
    BY <1>t, <1>11, FieldTypes DEF AgreeInv, CallInv, KnownSend
  <2> QED
    BY <1>p, <1>5, <2>1
<1>12. ASSUME NEW q \in Worker \ {a} PROVE CallInv(q)'
  <2>c. CallInv(q) /\ handler'[q] = handler[q]
    BY <1>2 DEF AgreeInv
  <2>w. /\ handler[q].pc \notin {"idle", "poll"} => handler[q].wd \in Wd
        /\ handler[q].send \in Nat
    BY <1>t, FieldTypes
  <2>1. KnownSend(q)'
    <3>1. ASSUME handler[q].pc \in Sent \cup {"check", "notFound"}
          PROVE  handler[q].send <= sends'[handler[q].wd]
      <4>1. handler[q].wd \in Wd /\ handler[q].send <= sends[handler[q].wd]
        BY <2>c, <2>w, <3>1 DEF CallInv, KnownSend, Sent, PayStep
      <4> QED
        BY <1>5, <2>w, <4>1
    <3> QED
      BY <1>8, <2>c, <3>1 DEF KnownSend
  <2>2. CASE handler[q].wd = w
    <3>1. handler[q].pc \in Sent \cup {"notFound"} => handler[q].send # sends'[w]
      BY <1>5, <1>p, <1>11, <2>w, <2>2
    <3>2. OwnSend(q)'
      BY <1>10, <2>2, <2>c, <3>1 DEF OwnSend
    <3>3. StillTrue(q)'
      BY <1>1, <2>2, <2>c, <3>1 DEF CallInv, StillTrue
    <3> QED
      BY <2>1, <3>2, <3>3 DEF CallInv
  <2>3. CASE handler[q].wd # w
    <3>1. OwnSend(q)'
      BY <1>1, <1>5, <2>3, <2>c, <2>w DEF CallInv, OwnSend, OnWire, Sent, PayStep
    <3>2. StillTrue(q)'
      BY <1>1, <1>5, <2>3, <2>c, <2>w DEF CallInv, StillTrue
    <3> QED
      BY <2>1, <3>1, <3>2 DEF CallInv
  <2> QED
    BY <2>2, <2>3
<1>13. Alone'
  <2> SUFFICES ASSUME NEW q \in Worker, NEW r \in Worker, q # r,
                      handler'[q].pc \in Sent, handler'[r].pc \in PayStep,
                      handler'[q].wd = handler'[r].wd
               PROVE  handler'[q].send # handler'[r].send
    BY DEF Alone
  <2>1. CASE q = a
    BY <1>2, <1>10, <2>1
  <2>2. CASE r = a
    <3>1. handler[q].wd = w /\ handler[q].pc \in Sent /\ handler'[q].send = handler[q].send
      BY <1>2, <2>2
    <3>2. handler[q].send < sends'[w] /\ handler'[r].send = sends'[w]
      BY <1>2, <1>5, <1>11, <2>2, <3>1
    <3>3. handler[q].send \in Nat /\ sends'[w] \in Nat
      BY <1>p, <1>t, <1>5, FieldTypes
    <3> QED
      BY <3>1, <3>2, <3>3
  <2>3. CASE q # a /\ r # a
    BY <1>2, <2>3 DEF AgreeInv, Alone
  <2> QED
    BY <2>1, <2>2, <2>3
<1> QED
  BY <1>6, <1>7, <1>9, <1>12, <1>13 DEF AgreeInv, MoneyRows

\* The create request leaves: no other call holds a refusal of this send.
LEMMA SendStep ==
  ASSUME TypeOK, AgreeInv, NEW a \in Admin, At(a, "payCreate"), GoTo(a, "payAnswer"),
         wire' = wire \cup {<<handler[a].wd, handler[a].send>>},
         UNCHANGED <<rowVars, clockVars, transfer>>
  PROVE  AgreeInv'
<1> DEFINE w == handler[a].wd
<1> USE DEF Worker
<1>t. /\ handler \in [Worker -> HandlerType] /\ sends \in [Wd -> 0..MaxSend] /\ MaxSend \in Nat
      /\ wire \in SUBSET (Wd \X (0..MaxSend))
  BY WithdrawalAssumption DEF TypeOK
<1>p. handler[a].pc = "payCreate" /\ w \in Wd
  BY FieldTypes DEF At
<1>c. CallInv(a)
  BY DEF AgreeInv
<1>1. /\ handler'[a].pc = "payAnswer" /\ handler'[a].wd = w
      /\ handler'[a].send = handler[a].send /\ handler'[a].todo = handler[a].todo
      /\ \A q \in Worker \ {a} : handler'[q] = handler[q]
  BY <1>t DEF GoTo, HandlerType
<1>2. /\ handler[a].send = sends[w] /\ aged[w] < sends[w]
      /\ status[w] \in {"PROCESSING", "PAID"} /\ transfer[w] = "none"
  BY <1>c, <1>p DEF CallInv, OwnSend, Sent, PayStep
<1>3. WireInv'
  BY <1>p, <1>2 DEF AgreeInv, MoneyRows, WireInv, rowVars, clockVars
<1>4. RowInv'
  BY DEF AgreeInv, MoneyRows, RowInv, rowVars, clockVars
<1>5. CallInv(a)'
  BY <1>c, <1>p, <1>1, <1>2
     DEF rowVars, clockVars, CallInv, KnownSend, OwnSend, StillTrue, Sent, PayStep
<1>6. ASSUME NEW q \in Worker \ {a} PROVE CallInv(q)'
  <2>c. CallInv(q) /\ handler'[q] = handler[q]
    BY <1>1 DEF AgreeInv
  <2>w. handler[q].pc \notin {"idle", "poll"} => handler[q].wd \in Wd
    BY FieldTypes
  <2>1. KnownSend(q)' /\ StillTrue(q)'
    BY <2>c DEF CallInv, KnownSend, StillTrue, rowVars, clockVars
  <2>2. ASSUME handler[q].pc \in Sent \ {"payAnswer"}, handler[q].send = sends[handler[q].wd]
        PROVE  ~OnWire(handler[q].wd)'
    <3>1. handler[q].wd \in Wd /\ ~OnWire(handler[q].wd)
      BY <2>c, <2>w, <2>2 DEF CallInv, OwnSend, Sent, PayStep
    <3>2. handler[q].wd # w
      BY <1>2, <1>p, <2>2 DEF AgreeInv, Alone, PayStep
    <3> QED
      BY <2>c, <3>1, <3>2 DEF OnWire
  <2>3. OwnSend(q)'
    BY <2>c, <2>2 DEF CallInv, OwnSend, rowVars, clockVars
  <2> QED
    BY <2>1, <2>3 DEF CallInv
<1>7. Alone'
  BY <1>1, <1>p, AloneKept DEF AgreeInv, PayStep
<1> QED
  BY <1>3, <1>4, <1>5, <1>6, <1>7 DEF AgreeInv, MoneyRows

LEMMA PaySteps ==
  ASSUME TypeOK, AgreeInv, NEW a \in Admin, PayClaim(a) \/ PayLookup(a) \/ PayCreate(a)
  PROVE  AgreeInv'
<1> DEFINE w == handler[a].wd
<1> USE DEF Worker
<1>t. handler \in [Worker -> HandlerType]
  BY DEF TypeOK
<1>c. CallInv(a)
  BY DEF AgreeInv
<1>1. CASE PayClaim(a) /\ status[w] = "APPROVED"
  BY <1>1, ClaimStep
<1>2. CASE PayClaim(a) /\ status[w] # "APPROVED"
  <2>1. End(a) /\ UNCHANGED <<rowVars, clockVars, gatewayVars>>
    BY <1>2 DEF PayClaim, rowVars, clockVars
  <2>2. CallInv(a)'
    BY <1>c, <2>1, EndCall DEF clockVars
  <2>3. handler'[a].pc \notin Sent /\ \A q \in Worker \ {a} : handler'[q] = handler[q]
    BY <2>1, EndShape DEF Sent, PayStep
  <2> QED
    BY <2>1, <2>2, <2>3, MoveStep
<1>3. CASE PayLookup(a)
  <2>1. UNCHANGED <<rowVars, clockVars, gatewayVars>> /\ handler[a].pc = "payLookup"
    BY <1>3 DEF PayLookup, At
  <2>2. transfer[w] = "none" /\ handler[a].send = sends[w] /\ ~OnWire(w)
    BY <1>c, <2>1 DEF CallInv, OwnSend, Sent, PayStep
  <2>3. /\ handler'[a].pc \in {"payCreate", "refused"} /\ handler'[a].wd = w
        /\ handler'[a].send = handler[a].send /\ handler'[a].todo = handler[a].todo
        /\ \A q \in Worker \ {a} : handler'[q] = handler[q]
    BY <1>t, <1>3, <2>2 DEF PayLookup, GoTo, HandlerType
  <2>4. KnownSend(a)'
    BY <1>c, <2>1, <2>3 DEF clockVars, CallInv, KnownSend, Sent, PayStep
  <2>5. OwnSend(a)' /\ StillTrue(a)'
    BY <1>c, <2>1, <2>2, <2>3
       DEF rowVars, clockVars, gatewayVars, CallInv, OwnSend, StillTrue, OnWire, Sent, PayStep
  <2> QED
    BY <2>1, <2>3, <2>4, <2>5, MoveStep DEF CallInv, PayStep
<1>4. CASE PayCreate(a) /\ GoTo(a, "refused") /\ wire' = wire
  <2>1. UNCHANGED <<rowVars, clockVars, gatewayVars>> /\ handler[a].pc = "payCreate"
    BY <1>4 DEF PayCreate, At, gatewayVars
  <2>2. /\ handler'[a].pc = "refused" /\ handler'[a].wd = w
        /\ handler'[a].send = handler[a].send /\ handler'[a].todo = handler[a].todo
        /\ \A q \in Worker \ {a} : handler'[q] = handler[q]
    BY <1>t, <1>4 DEF GoTo, HandlerType
  <2>3. KnownSend(a)'
    BY <1>c, <2>1, <2>2 DEF clockVars, CallInv, KnownSend, Sent, PayStep
  <2>4. OwnSend(a)' /\ StillTrue(a)'
    BY <1>c, <2>1, <2>2
       DEF rowVars, clockVars, gatewayVars, CallInv, OwnSend, StillTrue, OnWire, Sent, PayStep
  <2> QED
    BY <2>1, <2>2, <2>3, <2>4, MoveStep DEF CallInv, PayStep
<1>5. CASE PayCreate(a) /\ GoTo(a, "payAnswer")
           /\ wire' = wire \cup {<<handler[a].wd, handler[a].send>>}
  BY <1>5, SendStep DEF PayCreate
<1> QED
  BY <1>1, <1>2, <1>3, <1>4, <1>5 DEF PayCreate

-----------------------------------------------------------------------------
(* The writing step that ends a call *)

LEMMA AdminWrites ==
  ASSUME TypeOK, AgreeInv, JudgesLatest, NEW a \in Admin,
         ApproveClaim(a) \/ RejectClaim(a) \/ MarkFailedClaim(a) \/ MarkPaidClaim(a) \/ PayRefused(a)
  PROVE  AgreeInv'
<1> DEFINE w == handler[a].wd
<1> USE DEF Worker
<1>p. w \in Wd /\ End(a) /\ UNCHANGED <<clockVars, gatewayVars>>
  BY FieldTypes DEF ApproveClaim, RejectClaim, MarkFailedClaim, MarkPaidClaim, PayRefused, At
<1>c. CallInv(a) /\ MoneyRows
  BY DEF AgreeInv
<1>1. CASE ApproveClaim(a)
  <2>1. ClaimStatus(w, "REQUESTED", "APPROVED") /\ UNCHANGED paymentRef
    BY <1>1 DEF ApproveClaim
  <2>2. status[w] = "REQUESTED" => transfer[w] = "none" /\ aged[w] = sends[w]
    BY <1>p, <1>c DEF MoneyRows, RowInv
  <2>3. MoneyRows' /\ (status[w] # "REQUESTED" => status'[w] = status[w])
    BY <1>p, <1>c, <2>1, <2>2, ApprovedRows
  <2>4. status'[w] \in {status[w], "PAID"} \/ NobodySends(a, w)
    BY <1>p, <2>3, NobodySendsIf
  <2>5. \A v \in Wd \ {w} : status'[v] = status[v]
    BY <1>p, <2>1, OtherRows
  <2> QED
    BY <1>p, <2>3, <2>4, <2>5, FinishStep
<1>2. CASE RejectClaim(a)
  <2>1. FinishRefund(w, {"REQUESTED", "APPROVED"}, "REJECTED")
    BY <1>2 DEF RejectClaim
  <2>2. status[w] \in {"REQUESTED", "APPROVED"} => transfer[w] = "none" /\ ~OnWire(w)
    BY <1>p, <1>c DEF MoneyRows, RowInv, WireInv, OnWire
  <2>3. MoneyRows' /\ (status[w] \notin {"REQUESTED", "APPROVED"} => status'[w] = status[w])
    BY <1>p, <1>c, <2>1, <2>2, RefundRows
  <2>4. status'[w] \in {status[w], "PAID"} \/ NobodySends(a, w)
    BY <1>p, <2>3, NobodySendsIf
  <2>5. \A v \in Wd \ {w} : status'[v] = status[v]
    BY <1>p, <2>1, OtherRows
  <2> QED
    BY <1>p, <2>3, <2>4, <2>5, FinishStep
<1>3. CASE MarkFailedClaim(a)
  <2>1. FinishRefund(w, {"PROCESSING"}, "FAILED") /\ transfer[w] = "failed"
    BY <1>3, <1>c DEF MarkFailedClaim, At, CallInv, StillTrue
  <2>2. ~OnWire(w)
    BY <1>p, <1>c, <2>1 DEF MoneyRows, WireInv, OnWire
  <2>3. MoneyRows'
    BY <1>p, <1>c, <2>1, <2>2, RefundRows
  <2>4. NobodySends(a, w)
    BY <1>p, <2>1, NobodySendsIf
  <2>5. \A v \in Wd \ {w} : status'[v] = status[v]
    BY <1>p, <2>1, OtherRows
  <2> QED
    BY <1>p, <2>3, <2>4, <2>5, FinishStep
<1>4. CASE MarkPaidClaim(a)
  <2>1. FinishPaid(w, {"APPROVED", "PROCESSING"}, handler[a].ref) /\ handler[a].ref \in Ref
    BY <1>4, FieldTypes DEF MarkPaidClaim, At
  <2>2. MoneyRows' /\ status'[w] \in {status[w], "PAID"}
    BY <1>p, <1>c, <2>1, PaidRows, WithdrawalAssumption
  <2>3. \A v \in Wd \ {w} : status'[v] = status[v]
    BY <1>p, <2>1, OtherRows
  <2> QED
    BY <1>p, <2>2, <2>3, FinishStep
<1>5. CASE PayRefused(a)
  <2>1. FinishRefund(w, {"PROCESSING"}, "FAILED") /\ handler[a].pc = "refused"
    BY <1>5 DEF PayRefused, At
  <2>2. status[w] = "PROCESSING" =>
          handler[a].send = sends[w] /\ transfer[w] = "none" /\ ~OnWire(w)
    BY <1>c, <2>1 DEF JudgesLatest, CallInv, OwnSend, Sent, PayStep
  <2>3. MoneyRows' /\ (status[w] # "PROCESSING" => status'[w] = status[w])
    BY <1>p, <1>c, <2>1, <2>2, RefundRows
  <2>4. ASSUME status[w] = "PROCESSING" PROVE NobodySends(a, w)
    <3> SUFFICES ASSUME NEW q \in Worker \ {a}, handler[q].pc \in PayStep, handler[q].wd = w
                 PROVE  FALSE
      BY DEF NobodySends
    <3>1. handler[q].send = sends[w]
      BY DEF AgreeInv, CallInv, OwnSend
    <3>2. handler[a].send # handler[q].send
      BY <2>1 DEF AgreeInv, Alone, Sent
    <3> QED
      BY <2>2, <2>4, <3>1, <3>2
  <2>5. \A v \in Wd \ {w} : status'[v] = status[v]
    BY <1>p, <2>1, OtherRows
  <2> QED
    BY <1>p, <2>3, <2>4, <2>5, FinishStep
<1> QED
  BY <1>1, <1>2, <1>3, <1>4, <1>5

LEMMA SyncWrites ==
  ASSUME TypeOK, AgreeInv, JudgesLatest, NEW p \in Worker, NotFound(p) \/ ApplySnapshot(p)
  PROVE  AgreeInv'
<1> DEFINE w == handler[p].wd
<1>p. w \in Wd /\ End(p) /\ UNCHANGED <<clockVars, gatewayVars>>
  BY FieldTypes DEF NotFound, ApplySnapshot, At
<1>c. CallInv(p) /\ MoneyRows
  BY DEF AgreeInv
<1>1. CASE NotFound(p)
  <2>1. ClaimStatus(w, "PROCESSING", "APPROVED") /\ UNCHANGED paymentRef /\ handler[p].pc = "notFound"
    BY <1>1 DEF NotFound, At
  <2>2. status[w] = "PROCESSING" => transfer[w] = "none" /\ aged[w] = sends[w]
    BY <1>c, <2>1 DEF JudgesLatest, CallInv, StillTrue
  <2>3. MoneyRows' /\ (status[w] # "PROCESSING" => status'[w] = status[w])
    BY <1>p, <1>c, <2>1, <2>2, ApprovedRows
  <2>4. status'[w] \in {status[w], "PAID"} \/ NobodySends(p, w)
    BY <1>p, <2>2, <2>3, NobodySendsIf
  <2>5. \A v \in Wd \ {w} : status'[v] = status[v]
    BY <1>p, <2>1, OtherRows
  <2> QED
    BY <1>p, <2>3, <2>4, <2>5, FinishStep
<1>2. CASE ApplySnapshot(p) /\ handler[p].seen = "success"
  <2>1. FinishPaid(w, {"PROCESSING"}, GatewayRef) /\ transfer[w] = "success"
    BY <1>2, <1>c DEF ApplySnapshot, At, CallInv, StillTrue
  <2>2. MoneyRows' /\ status'[w] \in {status[w], "PAID"}
    BY <1>p, <1>c, <2>1, PaidRows
  <2>3. \A v \in Wd \ {w} : status'[v] = status[v]
    BY <1>p, <2>1, OtherRows
  <2> QED
    BY <1>p, <2>2, <2>3, FinishStep
<1>3. CASE ApplySnapshot(p) /\ handler[p].seen = "failed"
  <2>1. FinishRefund(w, {"PROCESSING"}, "FAILED") /\ transfer[w] = "failed"
    BY <1>3, <1>c DEF ApplySnapshot, At, CallInv, StillTrue
  <2>2. ~OnWire(w)
    BY <1>p, <1>c, <2>1 DEF MoneyRows, WireInv, OnWire
  <2>3. MoneyRows'
    BY <1>p, <1>c, <2>1, <2>2, RefundRows
  <2>4. NobodySends(p, w)
    BY <1>p, <2>1, NobodySendsIf
  <2>5. \A v \in Wd \ {w} : status'[v] = status[v]
    BY <1>p, <2>1, OtherRows
  <2> QED
    BY <1>p, <2>3, <2>4, <2>5, FinishStep
<1>4. CASE ApplySnapshot(p) /\ handler[p].seen \notin {"success", "failed"}
  <2>1. UNCHANGED rowVars
    BY <1>4 DEF ApplySnapshot
  <2>2. CallInv(p)'
    BY <1>p, <1>c, EndCall DEF clockVars
  <2>3. handler'[p].pc \notin Sent /\ \A q \in Worker \ {p} : handler'[q] = handler[q]
    BY <1>p, EndShape DEF Sent, PayStep
  <2> QED
    BY <1>p, <2>1, <2>2, <2>3, MoveStep
<1> QED
  BY <1>1, <1>2, <1>3, <1>4

-----------------------------------------------------------------------------
(* Students, Cashfree, the network and the clock *)

LEMMA StudentSteps ==
  ASSUME TypeOK, AgreeInv, NEW w \in Wd, RequestWithdrawal(w) \/ CancelWithdrawal(w)
  PROVE  AgreeInv'
<1>t. status \in [Wd -> Status] /\ wire \in SUBSET (Wd \X (0..MaxSend))
  BY DEF TypeOK
<1>u. UNCHANGED <<paymentRef, clockVars, handler, gatewayVars>>
  BY DEF RequestWithdrawal, CancelWithdrawal, FinishRefund
<1>1. /\ status[w] \in {"NONE", "REQUESTED"}
      /\ \E st \in {"REQUESTED", "REJECTED"} : status' = [status EXCEPT ![w] = st]
  BY DEF RequestWithdrawal, CancelWithdrawal, FinishRefund
<1>2. ASSUME NEW q \in Worker PROVE CallInv(q)'
  <2>1. CallInv(q)
    BY DEF AgreeInv
  <2>2. handler[q].pc \in PayStep => status'[handler[q].wd] \in {"PROCESSING", "PAID"}
    BY <1>t, <1>1, <2>1, FieldTypes DEF CallInv, OwnSend, PayStep
  <2> QED
    BY <1>u, <2>1, <2>2, SameCall
<1>3. WireInv'
  BY <1>t, <1>u, <1>1 DEF AgreeInv, MoneyRows, WireInv, clockVars, gatewayVars
<1>4. RowInv'
  BY <1>t, <1>u, <1>1 DEF AgreeInv, MoneyRows, RowInv, clockVars, gatewayVars
<1>5. Alone'
  BY <1>u DEF AgreeInv, Alone
<1> QED
  BY <1>2, <1>3, <1>4, <1>5 DEF AgreeInv, MoneyRows

LEMMA NetworkSteps ==
  ASSUME TypeOK, AgreeInv,
         \/ \E m \in wire : WireLoss(m)
         \/ \E w \in Wd : GatewaySettle(w)
         \/ \E s \in Student : SetFrozen(s)
  PROVE  AgreeInv'
<1>t. transfer \in [Wd -> TransferState]
  BY DEF TypeOK
<1>u. UNCHANGED <<rowVars, clockVars, handler>> /\ wire' \subseteq wire
  BY DEF WireLoss, GatewaySettle, SetFrozen, gatewayVars
<1>1. \A v \in Wd : transfer'[v] = transfer[v]
                    \/ (transfer[v] = "pending" /\ transfer'[v] \in {"success", "failed"})
  BY <1>t DEF WireLoss, GatewaySettle, SetFrozen, gatewayVars
<1>2. MoneyRows' /\ Alone'
  BY <1>u, <1>1 DEF AgreeInv, MoneyRows, WireInv, RowInv, Alone, rowVars, clockVars
<1>3. ASSUME NEW q \in Worker PROVE CallInv(q)'
  <2>c. CallInv(q)
    BY DEF AgreeInv
  <2>w. handler[q].pc \notin {"idle", "poll"} => handler[q].wd \in Wd
    BY FieldTypes
  <2>1. KnownSend(q)'
    BY <1>u, <2>c DEF CallInv, KnownSend, clockVars
  <2>2. OwnSend(q)'
    BY <1>u, <1>1, <2>c, <2>w DEF CallInv, OwnSend, OnWire, Sent, PayStep, rowVars, clockVars
  <2>3. StillTrue(q)'
    BY <1>u, <1>1, <2>c, <2>w DEF CallInv, StillTrue, clockVars
  <2> QED
    BY <2>1, <2>2, <2>3 DEF CallInv
<1> QED
  BY <1>2, <1>3 DEF AgreeInv

LEMMA AgeStep ==
  ASSUME TypeOK, AgreeInv, NEW w \in Wd, Age(w)
  PROVE  AgreeInv'
<1>t. /\ aged \in [Wd -> 0..MaxSend] /\ sends \in [Wd -> 0..MaxSend] /\ MaxSend \in Nat
      /\ wire \in SUBSET (Wd \X (0..MaxSend))
  BY WithdrawalAssumption DEF TypeOK
<1>u. UNCHANGED <<rowVars, sends, handler, gatewayVars>>
  BY DEF Age
<1>1. /\ aged'[w] = aged[w] + 1 /\ aged[w] < sends[w]
      /\ \A v \in Wd \ {w} : aged'[v] = aged[v]
      /\ <<w, aged[w] + 1>> \notin wire
  BY <1>t DEF Age
<1>2. WireInv'
  <2>1. ASSUME NEW v \in Wd, NEW n \in 0..MaxSend, <<v, n>> \in wire PROVE aged'[v] < n
    BY <1>t, <1>1, <2>1 DEF AgreeInv, MoneyRows, WireInv
  <2> QED
    BY <1>u, <2>1 DEF AgreeInv, MoneyRows, WireInv, rowVars, gatewayVars
<1>3. \A v \in Wd : aged[v] = sends[v] => aged'[v] = sends[v]
  BY <1>t, <1>1
<1>4. RowInv'
  <2>1. ASSUME NEW v \in Wd PROVE aged'[v] <= sends[v]
    BY <1>t, <1>1 DEF AgreeInv, MoneyRows, RowInv
  <2> QED
    BY <1>u, <1>3, <2>1 DEF AgreeInv, MoneyRows, RowInv, rowVars, gatewayVars
<1>5. ASSUME NEW q \in Worker PROVE CallInv(q)'
  <2>c. CallInv(q)
    BY DEF AgreeInv
  <2>w. handler[q].pc \notin {"idle", "poll"} => handler[q].wd \in Wd
    BY FieldTypes
  <2>1. KnownSend(q)'
    BY <1>u, <2>c DEF CallInv, KnownSend
  <2>2. ASSUME handler[q].pc \in PayStep PROVE aged'[handler[q].wd] < sends[handler[q].wd]
    <3>1. /\ handler[q].wd \in Wd /\ q \in Admin
          /\ handler[q].send = sends[handler[q].wd] /\ aged[handler[q].wd] < sends[handler[q].wd]
      BY <2>c, <2>w, <2>2 DEF CallInv, OwnSend, PayStep
    <3>2. handler[q].wd = w => sends[w] # aged[w] + 1
      BY <2>2, <3>1 DEF Age
    <3> QED
      BY <1>t, <1>1, <3>1, <3>2
  <2>3. OwnSend(q)'
    BY <1>u, <2>c, <2>2 DEF CallInv, OwnSend, OnWire, rowVars, gatewayVars
  <2>4. StillTrue(q)'
    BY <1>u, <1>3, <2>c, <2>w DEF CallInv, StillTrue, gatewayVars
  <2> QED
    BY <2>1, <2>3, <2>4 DEF CallInv
<1>6. Alone'
  BY <1>u DEF AgreeInv, Alone
<1> QED
  BY <1>2, <1>4, <1>5, <1>6 DEF AgreeInv, MoneyRows

\* The payment call that is waiting for the answer to this request, if it still
\* is, learns what became of the request; no other call notices.
Waiting(m) == {a \in Admin : At(a, "payAnswer") /\ <<handler[a].wd, handler[a].send>> = m}

LEMMA AnsweredCall ==
  ASSUME TypeOK, NEW m \in wire, GatewayCreate(m), NEW q \in Worker
  PROVE  \/ /\ handler'[q] = handler[q]
            /\ q \notin Waiting(m) \/ transfer[m[1]] # "none"
         \/ /\ q \in Waiting(m)
            /\ handler'[q].wd = handler[q].wd /\ handler'[q].todo = handler[q].todo
            /\ handler'[q].send = handler[q].send
            /\ \/ handler'[q].pc = "apply" /\ handler'[q].seen = transfer'[m[1]]
               \/ handler'[q].pc = "refused" /\ transfer' = transfer
<1>t. handler[q] \in HandlerType /\ transfer \in [Wd -> TransferState] /\ m[1] \in Wd
  BY FieldTypes DEF TypeOK
<1>1. CASE \E t \in {"pending", "success", "failed"} :
             /\ transfer' = [transfer EXCEPT ![m[1]] = t]
             /\ handler' = [p \in Worker |-> IF p \in Waiting(m)
                              THEN [handler[p] EXCEPT !.pc = "apply", !.seen = t]
                              ELSE handler[p]]
  <2>1. PICK t \in {"pending", "success", "failed"} :
             /\ transfer' = [transfer EXCEPT ![m[1]] = t]
             /\ handler' = [p \in Worker |-> IF p \in Waiting(m)
                              THEN [handler[p] EXCEPT !.pc = "apply", !.seen = t]
                              ELSE handler[p]]
    BY <1>1
  <2>2. /\ transfer'[m[1]] = t
        /\ q \in Waiting(m) => handler'[q] = [handler[q] EXCEPT !.pc = "apply", !.seen = t]
        /\ q \notin Waiting(m) => handler'[q] = handler[q]
    BY <1>t, <2>1
  <2> QED
    BY <1>t, <2>2 DEF HandlerType
<1>2. CASE /\ handler' = [p \in Worker |-> IF p \in Waiting(m)
                            THEN [handler[p] EXCEPT !.pc = "refused"]
                            ELSE handler[p]]
           /\ UNCHANGED transfer
  <2>1. /\ q \in Waiting(m) => handler'[q] = [handler[q] EXCEPT !.pc = "refused"]
        /\ q \notin Waiting(m) => handler'[q] = handler[q]
    BY <1>2
  <2> QED
    BY <1>t, <1>2, <2>1 DEF HandlerType
<1>3. CASE transfer[m[1]] # "none" /\ UNCHANGED handler
  BY <1>3
<1> QED
  BY <1>1, <1>2, <1>3 DEF GatewayCreate, Waiting

\* A create request arrives: it is that of the latest claim, the row is still
\* PROCESSING or already PAID by hand, and nothing else is on the wire for it.
LEMMA CreateStep ==
  ASSUME TypeOK, AgreeInv, NEW m \in wire, GatewayCreate(m)
  PROVE  AgreeInv'
<1>t. /\ wire \in SUBSET (Wd \X (0..MaxSend)) /\ transfer \in [Wd -> TransferState]
      /\ handler \in [Worker -> HandlerType] /\ MaxSend \in Nat
  BY WithdrawalAssumption DEF TypeOK
<1>m. PICK w \in Wd, n \in 0..MaxSend : m = <<w, n>>
  BY <1>t
<1>w. /\ n = sends[w] /\ aged[w] < n /\ status[w] \in {"PROCESSING", "PAID"} /\ transfer[w] = "none"
  BY <1>m DEF AgreeInv, MoneyRows, WireInv
<1>u. UNCHANGED <<rowVars, clockVars>> /\ wire' = wire \ {m}
  BY DEF GatewayCreate
<1>o. ~OnWire(w)'
  BY <1>m, <1>w, <1>u DEF AgreeInv, MoneyRows, WireInv, OnWire
<1>r. paymentRef[w] # GatewayRef
  BY <1>w DEF AgreeInv, MoneyRows, RowInv
<1>1. \A v \in Wd \ {w} : transfer'[v] = transfer[v]
  BY <1>t, <1>m DEF GatewayCreate
<1>2. WireInv'
  BY <1>u, <1>o, <1>1 DEF AgreeInv, MoneyRows, WireInv, OnWire, rowVars, clockVars
<1>3. RowInv'
  BY <1>u, <1>w, <1>r, <1>1 DEF AgreeInv, MoneyRows, RowInv, rowVars, clockVars
<1>4. ASSUME NEW q \in Worker, q \in Waiting(m)
      PROVE  /\ handler[q].pc = "payAnswer" /\ handler[q].wd = w
             /\ handler'[q].wd = w /\ handler'[q].todo = handler[q].todo
             /\ handler'[q].send = handler[q].send
             /\ \/ handler'[q].pc = "apply" /\ handler'[q].seen = transfer'[w]
                \/ handler'[q].pc = "refused" /\ transfer' = transfer
  <2>1. handler[q].pc = "payAnswer" /\ handler[q].wd = w /\ m[1] = w
    BY <1>m, <1>4 DEF Waiting, At
  <2> QED
    BY <1>w, <1>4, <2>1, AnsweredCall
<1>5. ASSUME NEW q \in Worker, q \notin Waiting(m) PROVE handler'[q] = handler[q]
  BY <1>5, AnsweredCall
<1>6. ASSUME NEW q \in Worker PROVE CallInv(q)'
  <2>c. CallInv(q)
    BY DEF AgreeInv
  <2>w. handler[q].pc \notin {"idle", "poll"} => handler[q].wd \in Wd
    BY FieldTypes
  <2>1. CASE q \in Waiting(m)
    <3>1. KnownSend(q)'
      BY <1>u, <1>4, <2>1, <2>c DEF CallInv, KnownSend, Sent, PayStep, clockVars
    <3>2. OwnSend(q)' /\ StillTrue(q)'
      BY <1>o, <1>w, <1>4, <2>1 DEF OwnSend, StillTrue, Sent, PayStep
    <3> QED
      BY <3>1, <3>2 DEF CallInv
  <2>2. CASE q \notin Waiting(m)
    <3>1. handler'[q] = handler[q]
      BY <1>5, <2>2
    <3>2. handler[q].wd = w /\ handler[q].send = n => handler[q].pc \notin Sent
      <4> SUFFICES ASSUME handler[q].wd = w, handler[q].send = n, handler[q].pc \in Sent PROVE FALSE
        OBVIOUS
      <4>1. OnWire(w)
        BY <1>m DEF OnWire
      <4>2. handler[q].pc = "payAnswer" /\ q \in Admin
        BY <1>w, <2>c, <4>1 DEF CallInv, OwnSend, Sent, PayStep
      <4> QED
        BY <1>m, <2>2, <4>2 DEF Waiting, At
    <3>3. KnownSend(q)'
      BY <1>u, <2>c, <3>1 DEF CallInv, KnownSend, clockVars
    <3>4. OwnSend(q)'
      BY <1>u, <1>w, <1>1, <2>c, <2>w, <3>1, <3>2
         DEF CallInv, OwnSend, OnWire, Sent, PayStep, rowVars, clockVars
    <3>5. aged[w] # sends[w]
      <4>1. sends[w] \in Nat /\ aged[w] \in Nat
        BY WithdrawalAssumption DEF TypeOK
      <4> QED
        BY <1>w, <4>1
    <3>6. StillTrue(q)'
      BY <1>u, <1>1, <1>w, <2>c, <2>w, <3>1, <3>5 DEF CallInv, StillTrue, clockVars
    <3> QED
      BY <3>3, <3>4, <3>6 DEF CallInv
  <2> QED
    BY <2>1, <2>2
<1>7. Alone'
  <2> SUFFICES ASSUME NEW q \in Worker, NEW r \in Worker, q # r,
                      handler'[q].pc \in Sent, handler'[r].pc \in PayStep,
                      handler'[q].wd = handler'[r].wd
               PROVE  handler'[q].send # handler'[r].send
    BY DEF Alone
  <2>1. handler'[r] = handler[r]
    BY <1>4, <1>5 DEF PayStep
  <2>2. /\ handler[q].pc \in Sent /\ handler[q].wd = handler'[q].wd
        /\ handler[q].send = handler'[q].send
    BY <1>4, <1>5 DEF Sent, PayStep
  <2> QED
    BY <2>1, <2>2 DEF AgreeInv, Alone
<1> QED
  BY <1>2, <1>3, <1>6, <1>7 DEF AgreeInv, MoneyRows

-----------------------------------------------------------------------------
(* The theorem about calls that overlap *)

LEMMA AgreeInit == Init => AgreeInv
<1> SUFFICES ASSUME Init PROVE AgreeInv
  OBVIOUS
<1>1. \A p \in Worker : handler[p].pc = "idle" /\ handler[p].todo = {}
  BY DEF Init, Idle
<1>2. \A p \in Worker : CallInv(p)
  BY <1>1 DEF CallInv, KnownSend, OwnSend, StillTrue, Sent, PayStep
<1>3. Alone
  BY <1>1 DEF Alone, Sent, PayStep
<1>4. RowInv
  <2>1. \A w \in Wd : paymentRef[w] # GatewayRef
    BY WithdrawalAssumption DEF Init
  <2> QED
    BY <2>1 DEF Init, RowInv
<1>5. WireInv
  BY DEF Init, WireInv
<1> QED
  BY <1>2, <1>3, <1>4, <1>5 DEF AgreeInv, MoneyRows

LEMMA AgreeStep ==
  ASSUME TypeOK, AgreeInv, JudgesLatest, [Next]_vars
  PROVE  AgreeInv'
<1>1. CASE StudentStep
  BY <1>1, StudentSteps DEF StudentStep
<1>2. CASE AdminStep
  BY <1>2, ReadingSteps, PaySteps, AdminWrites DEF AdminStep
<1>3. CASE PollerStep
  BY <1>3, JobSteps DEF PollerStep
<1>4. CASE SyncStep
  BY <1>4, LookupStep, SyncWrites DEF SyncStep
<1>5. CASE GatewayStep
  BY <1>5, CreateStep, NetworkSteps, AgeStep DEF GatewayStep
<1>6. CASE Moderation
  BY <1>6, NetworkSteps DEF Moderation
<1>7. CASE UNCHANGED vars
  <2>1. \A p \in Worker : CallInv(p)'
    BY <1>7 DEF vars, AgreeInv, CallInv, KnownSend, OwnSend, StillTrue, OnWire
  <2> QED
    BY <1>7, <2>1 DEF vars, AgreeInv, MoneyRows, WireInv, RowInv, Alone
<1> QED
  BY <1>1, <1>2, <1>3, <1>4, <1>5, <1>6, <1>7 DEF Next

LEMMA AgreeInvAgrees ==
  ASSUME TypeOK, AgreeInv
  PROVE  GatewayAgrees
<1>1. \A w \in Wd, n \in 1..MaxSend : status[w] \in ReturnedStatus => <<w, n>> \notin wire
  BY WithdrawalAssumption DEF AgreeInv, MoneyRows, WireInv, ReturnedStatus
<1> QED
  BY <1>1 DEF AgreeInv, MoneyRows, RowInv, GatewayAgrees, ReturnedStatus

\* Whatever overlaps: as long as no hand-back and no refusal is about an earlier
\* send, money that Cashfree sent, or may still send, is never also given back to
\* the wallet, and a row with Cashfree's UTR is paid and was really sent.
THEOREM LatestJudgedAgrees == Spec => AgreesIfLatestJudged
<1>1. Init => AgreeInv
  BY AgreeInit
<1>2. TypeOK /\ JudgesLatest /\ AgreeInv /\ [Next]_vars => AgreeInv'
  BY AgreeStep
<1>3. TypeOK /\ AgreeInv => GatewayAgrees
  BY AgreeInvAgrees
<1> QED
  BY <1>1, <1>2, <1>3, TypeCorrect, PTL DEF Spec, AgreesIfLatestJudged

-----------------------------------------------------------------------------
(* Calls that do not overlap judge the latest send: any number of admins   *)
(* and jobs, as long as one of them at most is at work                     *)

OneAtATime ==
  \A p, q \in Worker : p # q => handler[p].pc = "idle" \/ handler[q].pc = "idle"

\* What a call remembers of a row in PROCESSING is its latest send.
Latest(p) ==
  /\ handler[p].pc \in {"idle", "payClaim"} => handler[p].todo = {}
  /\ \A e \in handler[p].todo : status[e[1]] = "PROCESSING" => e[2] = sends[e[1]]
  /\ handler[p].pc \in {"check", "notFound"} /\ status[handler[p].wd] = "PROCESSING"
       => handler[p].send = sends[handler[p].wd]
  /\ handler[p].pc \in Sent => handler[p].send = sends[handler[p].wd]

LatestInv == \A p \in Worker : Latest(p)

\* No row enters PROCESSING but by a payment call.
NoneEnters == sends' = sends /\ \A v \in Wd : status'[v] = "PROCESSING" => status[v] = "PROCESSING"

LEMMA UpdateEnters ==
  ASSUME TypeOK, NEW w \in Wd, sends' = sends,
         \/ \E from, r : FinishPaid(w, from, r)
         \/ \E from, to : to # "PROCESSING" /\ FinishRefund(w, from, to)
         \/ \E from, to : to # "PROCESSING" /\ ClaimStatus(w, from, to)
  PROVE  NoneEnters
<1>t. status \in [Wd -> Status]
  BY DEF TypeOK
<1> QED
  BY <1>t DEF NoneEnters, FinishPaid, FinishRefund, ClaimStatus

LEMMA SameLatest ==
  ASSUME TypeOK, NEW q \in Worker, Latest(q), NoneEnters, handler'[q] = handler[q]
  PROVE  Latest(q)'
<1>1. /\ handler[q].pc \notin {"idle", "poll"} => handler[q].wd \in Wd
      /\ \A e \in handler[q].todo : e[1] \in Wd
  BY FieldTypes
<1> QED
  BY <1>1 DEF Latest, NoneEnters, Sent, PayStep

\* The rest of its list, and nothing else, is what a call keeps.
LEMMA ListLatest ==
  ASSUME TypeOK, NEW p \in Worker, Latest(p), NoneEnters,
         handler'[p].pc \notin Sent \cup {"check", "notFound", "payClaim"},
         handler'[p].pc = "idle" => handler'[p].todo = {},
         handler'[p].todo \subseteq handler[p].todo
  PROVE  Latest(p)'
<1>1. \A e \in handler[p].todo : e[1] \in Wd
  BY FieldTypes
<1> QED
  BY <1>1 DEF Latest, NoneEnters, Sent

LEMMA EndLatest ==
  ASSUME TypeOK, NEW p \in Worker, Latest(p), NoneEnters, End(p)
  PROVE  Latest(p)'
<1>1. handler'[p].pc \notin Sent \cup {"check", "notFound", "payClaim"}
  BY EndShape DEF Sent, PayStep
<1> QED
  BY <1>1, EndShape, ListLatest

\* The step of one call, by what the call remembers before and after it.
LEMMA CallLatest ==
  ASSUME TypeOK, LatestInv, NEW p \in Worker, NoneEnters,
         \A q \in Worker \ {p} : handler'[q] = handler[q],
         Latest(p)'
  PROVE  LatestInv'
  BY SameLatest DEF LatestInv

LEMMA BeginLatest ==
  ASSUME TypeOK, LatestInv, NEW a \in Admin, NEW w \in Wd,
         \/ ApproveRead(a, w) \/ RejectRead(a, w) \/ MarkFailedRead(a, w)
         \/ PayRead(a, w) \/ CheckStatus(a, w)
         \/ \E r \in Ref : MarkPaidRead(a, w, r)
  PROVE  LatestInv'
<1> USE DEF Worker
<1>t. handler \in [Worker -> HandlerType]
  BY DEF TypeOK
<1>u. NoneEnters /\ sends' = sends /\ status' = status
  BY DEF NoneEnters, ApproveRead, RejectRead, MarkFailedRead, PayRead, CheckStatus, MarkPaidRead,
         rowVars, clockVars
<1>1. \A q \in Worker \ {a} : handler'[q] = handler[q]
  BY <1>t DEF ApproveRead, RejectRead, MarkFailedRead, PayRead, CheckStatus, MarkPaidRead, Begin
<1>2. CASE CheckStatus(a, w)
  <2>1. /\ handler'[a].pc = "check" /\ handler'[a].todo = {}
        /\ handler'[a].wd = w /\ handler'[a].send = sends[w]
    BY <1>t, <1>2 DEF CheckStatus, Idle
  <2> QED
    BY <1>u, <1>1, <2>1, CallLatest DEF Latest, Sent, PayStep
<1>3. CASE ~CheckStatus(a, w)
  <2>1. /\ handler'[a].pc \in {"approve", "reject", "markFailed", "payClaim", "markPaid"}
        /\ handler'[a].todo = {}
    BY <1>t, <1>3 DEF ApproveRead, RejectRead, MarkFailedRead, PayRead, MarkPaidRead, Begin, Idle
  <2> QED
    BY <1>u, <1>1, <2>1, CallLatest DEF Latest, Sent, PayStep
<1> QED
  BY <1>2, <1>3

LEMMA JobLatest ==
  ASSUME TypeOK, LatestInv, NEW p \in Poller, Tick(p) \/ TickNext(p) \/ Crash(p)
  PROVE  LatestInv'
<1> USE DEF Worker
<1>t. handler \in [Worker -> HandlerType]
  BY DEF TypeOK
<1>u. NoneEnters /\ sends' = sends /\ status' = status
  BY DEF NoneEnters, Tick, TickNext, Crash, rowVars, clockVars
<1>l. Latest(p)
  BY DEF LatestInv
<1>1. CASE Tick(p)
  <2>1. /\ handler'[p].pc = "poll"
        /\ \A e \in handler'[p].todo : e[2] = sends[e[1]]
        /\ \A q \in Worker \ {p} : handler'[q] = handler[q]
    BY <1>t, <1>1 DEF Tick, Idle
  <2> QED
    BY <1>u, <2>1, CallLatest DEF Latest, Sent, PayStep
<1>2. ASSUME TickNext(p) PROVE LatestInv'
  <2>0. PICK e \in handler[p].todo :
          handler' = [handler EXCEPT ![p].pc = "check", ![p].wd = e[1], ![p].send = e[2],
                                     ![p].todo = @ \ {e}]
    BY <1>2, Zenon DEF TickNext
  <2>1. /\ handler'[p].pc = "check" /\ handler'[p].wd = e[1] /\ handler'[p].send = e[2]
        /\ handler'[p].todo = handler[p].todo \ {e}
        /\ \A q \in Worker \ {p} : handler'[q] = handler[q]
    BY <1>t, <2>0 DEF HandlerType
  <2>2. \A d \in handler[p].todo : status[d[1]] = "PROCESSING" => d[2] = sends[d[1]]
    BY <1>l DEF Latest
  <2> QED
    BY <1>u, <2>1, <2>2, CallLatest DEF Latest, Sent, PayStep
<1>3. CASE Crash(p)
  <2>1. /\ handler'[p].pc = "idle" /\ handler'[p].todo = {}
        /\ \A q \in Worker \ {p} : handler'[q] = handler[q]
    BY <1>t, <1>3 DEF Crash, Idle
  <2> QED
    BY <1>u, <2>1, CallLatest DEF Latest, Sent, PayStep
<1> QED
  BY <1>1, <1>2, <1>3

LEMMA SyncLatest ==
  ASSUME TypeOK, LatestInv, NEW p \in Worker,
         Lookup(p) \/ NotFound(p) \/ ApplySnapshot(p) \/ GiveUp(p)
  PROVE  LatestInv'
<1> DEFINE w == handler[p].wd
<1>t. handler \in [Worker -> HandlerType]
  BY DEF TypeOK
<1>l. Latest(p)
  BY DEF LatestInv
<1>w. w \in Wd
  BY FieldTypes DEF Lookup, NotFound, ApplySnapshot, GiveUp, At
<1>u. NoneEnters
  <2>1. CASE Lookup(p) \/ GiveUp(p)
    BY <2>1 DEF Lookup, GiveUp, NoneEnters, rowVars, clockVars
  <2>2. CASE NotFound(p)
    BY <1>w, <2>2, UpdateEnters DEF NotFound, clockVars
  <2>3. CASE ApplySnapshot(p)
    <3>1. sends' = sends
      BY <2>3 DEF ApplySnapshot, clockVars
    <3>2. FinishPaid(w, {"PROCESSING"}, GatewayRef) \/ FinishRefund(w, {"PROCESSING"}, "FAILED")
          \/ UNCHANGED rowVars
      BY <2>3 DEF ApplySnapshot
    <3> QED
      BY <1>w, <3>1, <3>2, UpdateEnters DEF NoneEnters, rowVars
  <2> QED
    BY <2>1, <2>2, <2>3
<1>1. CASE End(p)
  BY <1>1, <1>l, <1>u, EndLatest, EndShape, CallLatest
<1>2. CASE Lookup(p) /\ handler' = [handler EXCEPT ![p].pc = "apply", ![p].seen = transfer[w]]
  <2>1. /\ handler'[p].pc = "apply" /\ handler'[p].todo = handler[p].todo
        /\ \A q \in Worker \ {p} : handler'[q] = handler[q]
    BY <1>t, <1>2 DEF HandlerType
  <2>2. handler'[p].pc \notin Sent \cup {"check", "notFound", "payClaim"}
    BY <2>1 DEF Sent, PayStep
  <2> QED
    BY <1>l, <1>u, <2>1, <2>2, ListLatest, CallLatest
<1>3. CASE Lookup(p) /\ GoTo(p, "notFound")
  <2>1. /\ handler'[p].pc = "notFound" /\ handler'[p].wd = w
        /\ handler'[p].todo = handler[p].todo /\ handler'[p].send = handler[p].send
        /\ \A q \in Worker \ {p} : handler'[q] = handler[q]
    BY <1>t, <1>3 DEF GoTo, HandlerType
  <2>2. sends' = sends /\ status' = status /\ handler[p].pc = "check"
    BY <1>3 DEF Lookup, At, rowVars, clockVars
  <2>3. Latest(p)'
    BY <1>l, <2>1, <2>2 DEF Latest, Sent, PayStep
  <2> QED
    BY <1>u, <2>1, <2>3, CallLatest
<1> QED
  BY <1>1, <1>2, <1>3 DEF Lookup, NotFound, ApplySnapshot, GiveUp

LEMMA WriteLatest ==
  ASSUME TypeOK, LatestInv, NEW a \in Admin,
         ApproveClaim(a) \/ RejectClaim(a) \/ MarkFailedClaim(a) \/ MarkPaidClaim(a) \/ PayRefused(a)
  PROVE  LatestInv'
<1> USE DEF Worker
<1>1. handler[a].wd \in Wd /\ End(a) /\ sends' = sends
  BY FieldTypes
     DEF ApproveClaim, RejectClaim, MarkFailedClaim, MarkPaidClaim, PayRefused, At, clockVars
<1>2. \/ \E from, r : FinishPaid(handler[a].wd, from, r)
      \/ \E from, to : to # "PROCESSING" /\ FinishRefund(handler[a].wd, from, to)
      \/ \E from, to : to # "PROCESSING" /\ ClaimStatus(handler[a].wd, from, to)
  <2>1. CASE ApproveClaim(a)
    BY <2>1 DEF ApproveClaim
  <2>2. CASE MarkPaidClaim(a)
    BY <2>2 DEF MarkPaidClaim
  <2>3. CASE RejectClaim(a)
    BY <2>3 DEF RejectClaim
  <2>4. CASE MarkFailedClaim(a) \/ PayRefused(a)
    BY <2>4 DEF MarkFailedClaim, PayRefused
  <2> QED
    BY <2>1, <2>2, <2>3, <2>4
<1>3. NoneEnters
  BY <1>1, <1>2, UpdateEnters
<1> QED
  BY <1>1, <1>3, EndLatest, EndShape, CallLatest DEF LatestInv

\* The one step that makes an older send of a row: it finds everybody else idle.
LEMMA PayLatest ==
  ASSUME TypeOK, LatestInv, OneAtATime, NEW a \in Admin,
         PayClaim(a) \/ PayLookup(a) \/ PayCreate(a)
  PROVE  LatestInv'
<1> DEFINE w == handler[a].wd
<1> USE DEF Worker
<1>t. handler \in [Worker -> HandlerType] /\ sends \in [Wd -> 0..MaxSend]
  BY DEF TypeOK
<1>w. w \in Wd
  BY FieldTypes DEF PayClaim, PayLookup, PayCreate, At
<1>l. Latest(a)
  BY DEF LatestInv
<1>1. CASE PayClaim(a) /\ status[w] = "APPROVED"
  <2>1. /\ handler'[a].pc = "payLookup" /\ handler'[a].wd = w /\ handler'[a].send = sends[w] + 1
        /\ handler'[a].todo = handler[a].todo
        /\ \A q \in Worker \ {a} : handler'[q] = handler[q]
    BY <1>t, <1>1 DEF PayClaim, HandlerType
  <2>2. sends'[w] = sends[w] + 1
    BY <1>t, <1>w, <1>1 DEF PayClaim
  <2>3. handler[a].pc = "payClaim" /\ handler[a].todo = {}
    BY <1>1, <1>l DEF PayClaim, At, Latest
  <2>4. Latest(a)'
    BY <2>1, <2>2, <2>3 DEF Latest
  <2>5. ASSUME NEW q \in Worker \ {a} PROVE Latest(q)'
    <3>1. handler[q].pc = "idle" /\ handler[q].todo = {}
      BY <2>3 DEF OneAtATime, LatestInv, Latest
    <3> QED
      BY <2>1, <3>1 DEF Latest, Sent, PayStep
  <2> QED
    BY <2>4, <2>5 DEF LatestInv
<1>2. CASE PayClaim(a) /\ status[w] # "APPROVED"
  <2>1. End(a) /\ NoneEnters
    BY <1>2 DEF PayClaim, NoneEnters
  <2> QED
    BY <1>l, <2>1, EndLatest, EndShape, CallLatest
<1>3. CASE PayLookup(a) \/ PayCreate(a)
  <2>1. sends' = sends /\ NoneEnters /\ handler[a].pc \in PayStep
    BY <1>3 DEF PayLookup, PayCreate, At, NoneEnters, PayStep, rowVars, clockVars
  <2>2. /\ handler'[a].pc \in Sent \cup {"apply"} /\ handler'[a].wd = w
        /\ handler'[a].send = handler[a].send /\ handler'[a].todo = handler[a].todo
        /\ \A q \in Worker \ {a} : handler'[q] = handler[q]
    BY <1>t, <1>3 DEF PayLookup, PayCreate, GoTo, HandlerType, Sent, PayStep
  <2>3. handler[a].send = sends[w] /\ \A e \in handler[a].todo : e[1] \in Wd
    BY <1>l, <2>1, FieldTypes DEF Latest, Sent
  <2>4. Latest(a)'
    BY <1>l, <2>1, <2>2, <2>3 DEF Latest, NoneEnters, Sent, PayStep
  <2> QED
    BY <2>1, <2>2, <2>4, CallLatest
<1> QED
  BY <1>1, <1>2, <1>3

\* Students and Cashfree move no call, but for the answer to a create request.
LEMMA WorldLatest ==
  ASSUME TypeOK, LatestInv, StudentStep \/ GatewayStep \/ Moderation
  PROVE  LatestInv'
<1>t. handler \in [Worker -> HandlerType] /\ status \in [Wd -> Status]
  BY DEF TypeOK
<1>1. NoneEnters
  <2>1. CASE StudentStep
    <3>1. PICK w \in Wd : RequestWithdrawal(w) \/ CancelWithdrawal(w)
      BY <2>1 DEF StudentStep
    <3>2. sends' = sends /\ \E st \in {"REQUESTED", "REJECTED"} : status' = [status EXCEPT ![w] = st]
      BY <3>1 DEF RequestWithdrawal, CancelWithdrawal, FinishRefund, clockVars
    <3> QED
      BY <1>t, <3>2 DEF NoneEnters
  <2>2. CASE GatewayStep \/ Moderation
    BY <2>2 DEF GatewayStep, Moderation, GatewayCreate, WireLoss, GatewaySettle, Age, SetFrozen,
                NoneEnters, rowVars, clockVars
  <2> QED
    BY <2>1, <2>2
<1>2. ASSUME NEW q \in Worker PROVE Latest(q)'
  <2>1. CASE handler'[q] = handler[q]
    BY <1>1, <2>1, SameLatest DEF LatestInv
  <2>2. CASE handler'[q] # handler[q]
    <3>1. PICK m \in wire : GatewayCreate(m)
      BY <2>2 DEF StudentStep, GatewayStep, Moderation, RequestWithdrawal, CancelWithdrawal,
                  WireLoss, GatewaySettle, Age, SetFrozen
    <3>2. /\ handler[q].pc = "payAnswer" /\ handler'[q].pc \in {"apply", "refused"}
          /\ handler'[q].wd = handler[q].wd /\ handler'[q].send = handler[q].send
          /\ handler'[q].todo = handler[q].todo
      BY <2>2, <3>1, AnsweredCall DEF Waiting, At
    <3>3. Latest(q) /\ handler[q].wd \in Wd /\ \A e \in handler[q].todo : e[1] \in Wd
      BY <3>2, FieldTypes DEF LatestInv
    <3> QED
      BY <1>1, <3>2, <3>3 DEF Latest, NoneEnters, Sent, PayStep
  <2> QED
    BY <2>1, <2>2
<1> QED
  BY <1>2 DEF LatestInv

LEMMA LatestStep ==
  ASSUME TypeOK, LatestInv, OneAtATime, [Next]_vars
  PROVE  LatestInv'
<1>1. CASE StudentStep \/ GatewayStep \/ Moderation
  BY <1>1, WorldLatest
<1>2. CASE AdminStep
  BY <1>2, BeginLatest, WriteLatest, PayLatest DEF AdminStep
<1>3. CASE PollerStep
  BY <1>3, JobLatest DEF PollerStep
<1>4. CASE SyncStep
  BY <1>4, SyncLatest DEF SyncStep
<1>5. CASE UNCHANGED vars
  <2>1. NoneEnters /\ handler' = handler
    BY <1>5 DEF vars, NoneEnters
  <2> QED
    BY <2>1, SameLatest DEF LatestInv
<1> QED
  BY <1>1, <1>2, <1>3, <1>4, <1>5 DEF Next

\* Calls that do not overlap never judge a later send by an earlier one.
THEOREM SequentialCallsJudgeLatest == Spec /\ []OneAtATime => []JudgesLatest
<1>1. Init => LatestInv
  BY DEF Init, Idle, LatestInv, Latest, Sent, PayStep
<1>2. TypeOK /\ OneAtATime /\ LatestInv /\ [Next]_vars => LatestInv'
  BY LatestStep
<1>3. LatestInv => JudgesLatest
  BY DEF LatestInv, Latest, JudgesLatest, Sent
<1> QED
  BY <1>1, <1>2, <1>3, TypeCorrect, PTL DEF Spec

\* So rows and Cashfree agree as long as calls do not overlap.
THEOREM SequentialCallsAgree == Spec /\ []OneAtATime => []GatewayAgrees
  BY SequentialCallsJudgeLatest, LatestJudgedAgrees, PTL DEF AgreesIfLatestJudged

-----------------------------------------------------------------------------
(* A UTR is recorded once.  The look for other withdrawals and the update  *)
(* are two steps, so it takes two admins who hold the same UTR for two     *)
(* withdrawals at the same moment to record it twice; everything else may  *)
(* overlap.                                                                *)

UtrApart ==
  \A p, q \in Worker :
    /\ p # q
    /\ handler[p].pc = "markPaid"
    /\ handler[q].pc = "markPaid"
    /\ handler[p].wd # handler[q].wd
    => handler[p].ref # handler[q].ref

\* The UTR that an admin is about to record is on no other withdrawal.
UtrFree(p) ==
  handler[p].pc = "markPaid" =>
    \A v \in Wd \ {handler[p].wd} : paymentRef[v] # handler[p].ref

UtrInv == UtrRecordedOnce /\ \A p \in Worker : UtrFree(p)

\* Every step but the two of markPaid records no typed UTR and takes none up.
QuietUtr ==
  /\ \A v \in Wd : paymentRef'[v] \in {paymentRef[v], GatewayRef}
  /\ \A q \in Worker : handler'[q].pc = "markPaid" => handler'[q] = handler[q]

LEMMA QuietKeeps ==
  ASSUME TypeOK, UtrInv, QuietUtr
  PROVE  UtrInv'
<1>1. UtrRecordedOnce'
  BY WithdrawalAssumption DEF UtrInv, UtrRecordedOnce, QuietUtr
<1>2. ASSUME NEW p \in Worker PROVE UtrFree(p)'
  <2>1. handler[p].pc = "markPaid" => handler[p].ref \in Ref
    BY FieldTypes
  <2> QED
    BY <2>1, WithdrawalAssumption DEF UtrInv, UtrFree, QuietUtr
<1> QED
  BY <1>1, <1>2 DEF UtrInv

\* The step of one call that ends it, or moves it to anything but markPaid.
LEMMA QuietMove ==
  ASSUME NEW p \in Worker, UNCHANGED paymentRef, handler'[p].pc # "markPaid",
         \A q \in Worker \ {p} : handler'[q] = handler[q]
  PROVE  QuietUtr
  BY DEF QuietUtr

LEMMA AdminQuiet ==
  ASSUME TypeOK, NEW a \in Admin, NEW w \in Wd,
         \/ ApproveRead(a, w) \/ RejectRead(a, w) \/ MarkFailedRead(a, w)
         \/ PayRead(a, w) \/ CheckStatus(a, w)
         \/ ApproveClaim(a) \/ RejectClaim(a) \/ MarkFailedClaim(a)
         \/ PayClaim(a) \/ PayLookup(a) \/ PayCreate(a) \/ PayRefused(a)
  PROVE  QuietUtr
<1> USE DEF Worker
<1>t. handler \in [Worker -> HandlerType]
  BY DEF TypeOK
<1>1. CASE ApproveRead(a, w) \/ RejectRead(a, w) \/ MarkFailedRead(a, w) \/ PayRead(a, w)
           \/ CheckStatus(a, w)
  <2>1. /\ paymentRef' = paymentRef /\ handler'[a].pc # "markPaid"
        /\ \A q \in Worker \ {a} : handler'[q] = handler[q]
    BY <1>t, <1>1 DEF ApproveRead, RejectRead, MarkFailedRead, PayRead, CheckStatus, Begin, Idle, rowVars
  <2> QED
    BY <2>1, QuietMove
<1>2. CASE End(a) /\ (ApproveClaim(a) \/ RejectClaim(a) \/ MarkFailedClaim(a) \/ PayRefused(a)
                      \/ PayClaim(a))
  <2>1. paymentRef' = paymentRef
    BY <1>2 DEF ApproveClaim, RejectClaim, MarkFailedClaim, PayRefused, PayClaim, FinishRefund
  <2> QED
    BY <1>2, <2>1, EndShape, QuietMove
<1>3. CASE PayClaim(a) /\ handler' = [handler EXCEPT ![a].pc = "payLookup",
                                                     ![a].send = sends[handler[a].wd] + 1]
  <2>1. /\ paymentRef' = paymentRef /\ handler'[a].pc # "markPaid"
        /\ \A q \in Worker \ {a} : handler'[q] = handler[q]
    BY <1>t, <1>3 DEF PayClaim, HandlerType
  <2> QED
    BY <2>1, QuietMove
<1>4. CASE PayLookup(a) \/ PayCreate(a)
  <2>1. /\ paymentRef' = paymentRef /\ handler'[a].pc # "markPaid"
        /\ \A q \in Worker \ {a} : handler'[q] = handler[q]
    BY <1>t, <1>4 DEF PayLookup, PayCreate, GoTo, HandlerType, rowVars
  <2> QED
    BY <2>1, QuietMove
<1> QED
  BY <1>1, <1>2, <1>3, <1>4
     DEF ApproveClaim, RejectClaim, MarkFailedClaim, PayRefused, PayClaim

LEMMA JobQuiet ==
  ASSUME TypeOK, PollerStep \/ SyncStep
  PROVE  QuietUtr
<1>t. handler \in [Worker -> HandlerType] /\ paymentRef \in [Wd -> Ref \cup {None, GatewayRef}]
  BY DEF TypeOK
<1>1. ASSUME NEW p \in Poller, Tick(p) \/ TickNext(p) \/ Crash(p) PROVE QuietUtr
  <2>1. p \in Worker /\ paymentRef' = paymentRef
    BY <1>1 DEF Worker, Tick, TickNext, Crash, rowVars
  <2>2. handler'[p].pc # "markPaid" /\ \A q \in Worker \ {p} : handler'[q] = handler[q]
    <3>1. CASE Tick(p)
      BY <1>t, <2>1, <3>1 DEF Tick, Idle
    <3>2. CASE TickNext(p)
      <4>1. PICK e \in handler[p].todo :
              handler' = [handler EXCEPT ![p].pc = "check", ![p].wd = e[1], ![p].send = e[2],
                                         ![p].todo = @ \ {e}]
        BY <3>2, Zenon DEF TickNext
      <4> QED
        BY <1>t, <2>1, <4>1 DEF HandlerType
    <3>3. CASE Crash(p)
      BY <1>t, <2>1, <3>3 DEF Crash, Idle
    <3> QED
      BY <1>1, <3>1, <3>2, <3>3
  <2> QED
    BY <2>1, <2>2, QuietMove
<1>2. ASSUME NEW p \in Worker, Lookup(p) \/ GiveUp(p) \/ NotFound(p) PROVE QuietUtr
  <2>1. paymentRef' = paymentRef
    BY <1>2 DEF Lookup, GiveUp, NotFound, rowVars
  <2>2. handler'[p].pc # "markPaid" /\ \A q \in Worker \ {p} : handler'[q] = handler[q]
    <3>1. CASE End(p)
      BY <3>1, EndShape
    <3>2. CASE \/ handler' = [handler EXCEPT ![p].pc = "apply", ![p].seen = transfer[handler[p].wd]]
               \/ GoTo(p, "notFound")
      BY <1>t, <3>2 DEF GoTo, HandlerType
    <3> QED
      BY <1>2, <3>1, <3>2 DEF Lookup, GiveUp, NotFound
  <2> QED
    BY <2>1, <2>2, QuietMove
<1>3. ASSUME NEW p \in Worker, ApplySnapshot(p) PROVE QuietUtr
  <2>1. handler[p].wd \in Wd /\ End(p)
    BY <1>3, FieldTypes DEF ApplySnapshot, At
  <2>2. \/ paymentRef' = [paymentRef EXCEPT ![handler[p].wd] = GatewayRef]
        \/ paymentRef' = paymentRef
    BY <1>3 DEF ApplySnapshot, FinishPaid, FinishRefund, rowVars
  <2>3. \A v \in Wd : paymentRef'[v] \in {paymentRef[v], GatewayRef}
    BY <1>t, <2>1, <2>2
  <2> QED
    BY <2>1, <2>3, EndShape DEF QuietUtr
<1> QED
  BY <1>1, <1>2, <1>3 DEF PollerStep, SyncStep

LEMMA WorldQuiet ==
  ASSUME TypeOK, StudentStep \/ GatewayStep \/ Moderation \/ UNCHANGED vars
  PROVE  QuietUtr
<1>1. paymentRef' = paymentRef
  BY DEF StudentStep, GatewayStep, Moderation, RequestWithdrawal, CancelWithdrawal, FinishRefund,
         GatewayCreate, WireLoss, GatewaySettle, Age, SetFrozen, rowVars, vars
<1>2. ASSUME NEW q \in Worker, handler'[q] # handler[q] PROVE handler'[q].pc # "markPaid"
  <2>1. PICK m \in wire : GatewayCreate(m)
    BY <1>2 DEF StudentStep, GatewayStep, Moderation, RequestWithdrawal, CancelWithdrawal,
                WireLoss, GatewaySettle, Age, SetFrozen, vars
  <2> QED
    BY <1>2, <2>1, AnsweredCall
<1> QED
  BY <1>1, <1>2 DEF QuietUtr

LEMMA MarkPaidSteps ==
  ASSUME TypeOK, UtrInv, UtrApart, NEW a \in Admin,
         MarkPaidClaim(a) \/ \E w \in Wd, r \in Ref : MarkPaidRead(a, w, r)
  PROVE  UtrInv'
<1> USE DEF Worker
<1>t. /\ handler \in [Worker -> HandlerType]
      /\ paymentRef \in [Wd -> Ref \cup {None, GatewayRef}]
  BY DEF TypeOK
<1>1. ASSUME NEW w \in Wd, NEW r \in Ref, MarkPaidRead(a, w, r) PROVE UtrInv'
  <2>1. /\ handler'[a].pc = "markPaid" /\ handler'[a].wd = w /\ handler'[a].ref = r
        /\ \A q \in Worker \ {a} : handler'[q] = handler[q]
        /\ paymentRef' = paymentRef
        /\ \A v \in Wd \ {w} : paymentRef[v] # r
    BY <1>t, <1>1 DEF MarkPaidRead, Idle, rowVars
  <2> QED
    BY <2>1 DEF UtrInv, UtrRecordedOnce, UtrFree
<1>2. CASE MarkPaidClaim(a)
  <2> DEFINE w == handler[a].wd
             r == handler[a].ref
  <2>1. /\ handler[a].pc = "markPaid" /\ w \in Wd /\ r \in Ref /\ End(a)
        /\ \/ paymentRef' = [paymentRef EXCEPT ![w] = r]
           \/ paymentRef' = paymentRef
    BY <1>2, FieldTypes DEF MarkPaidClaim, At, FinishPaid
  <2>2. handler'[a].pc # "markPaid" /\ \A q \in Worker \ {a} : handler'[q] = handler[q]
    BY <2>1, EndShape
  <2>3. CASE paymentRef' = paymentRef
    BY <2>2, <2>3, QuietMove, QuietKeeps
  <2>4. CASE paymentRef' = [paymentRef EXCEPT ![w] = r]
    <3>1. paymentRef'[w] = r /\ \A v \in Wd \ {w} : paymentRef'[v] = paymentRef[v] /\ paymentRef[v] # r
      BY <1>t, <2>1, <2>4 DEF UtrInv, UtrFree
    <3>2. UtrRecordedOnce'
      BY <2>1, <3>1 DEF UtrInv, UtrRecordedOnce
    <3>3. ASSUME NEW q \in Worker \ {a} PROVE UtrFree(q)'
      <4>1. handler[q].pc = "markPaid" /\ handler[q].wd # w => handler[q].ref # r
        BY <2>1 DEF UtrApart
      <4> QED
        BY <2>1, <2>2, <3>1, <4>1 DEF UtrInv, UtrFree
    <3> QED
      BY <2>2, <3>2, <3>3 DEF UtrInv, UtrFree
  <2> QED
    BY <2>1, <2>3, <2>4
<1> QED
  BY <1>1, <1>2

\* A UTR is recorded on one withdrawal only, unless two admins hold it for two
\* withdrawals between the look and the update.
THEOREM UtrApartRecordsOnce == Spec /\ []UtrApart => []UtrRecordedOnce
<1>1. Init => UtrInv
  BY WithdrawalAssumption DEF Init, Idle, UtrInv, UtrRecordedOnce, UtrFree
<1>2. ASSUME TypeOK, UtrApart, UtrInv, [Next]_vars PROVE UtrInv'
  <2>1. CASE AdminStep
    <3>1. PICK a \in Admin :
            \/ \E w \in Wd : \/ ApproveRead(a, w) \/ RejectRead(a, w) \/ MarkFailedRead(a, w)
                             \/ PayRead(a, w) \/ CheckStatus(a, w)
            \/ \E w \in Wd, r \in Ref : MarkPaidRead(a, w, r)
            \/ ApproveClaim(a) \/ RejectClaim(a) \/ MarkFailedClaim(a) \/ MarkPaidClaim(a)
            \/ PayClaim(a) \/ PayLookup(a) \/ PayCreate(a) \/ PayRefused(a)
      BY <2>1 DEF AdminStep
    <3>2. CASE MarkPaidClaim(a) \/ \E w \in Wd, r \in Ref : MarkPaidRead(a, w, r)
      BY <1>2, <3>2, MarkPaidSteps
    <3>3. CASE \E w \in Wd : \/ ApproveRead(a, w) \/ RejectRead(a, w) \/ MarkFailedRead(a, w)
                             \/ PayRead(a, w) \/ CheckStatus(a, w)
      BY <1>2, <3>3, AdminQuiet, QuietKeeps
    <3>4. CASE \/ ApproveClaim(a) \/ RejectClaim(a) \/ MarkFailedClaim(a)
               \/ PayClaim(a) \/ PayLookup(a) \/ PayCreate(a) \/ PayRefused(a)
      <4>1. handler[a].wd \in Wd
        BY <1>2, <3>4, FieldTypes
           DEF Worker, At, ApproveClaim, RejectClaim, MarkFailedClaim, PayClaim, PayLookup,
               PayCreate, PayRefused
      <4> QED
        BY <1>2, <3>4, <4>1, AdminQuiet, QuietKeeps
    <3> QED
      BY <3>1, <3>2, <3>3, <3>4
  <2>2. CASE PollerStep \/ SyncStep
    BY <1>2, <2>2, JobQuiet, QuietKeeps
  <2>3. CASE StudentStep \/ GatewayStep \/ Moderation \/ UNCHANGED vars
    BY <1>2, <2>3, WorldQuiet, QuietKeeps
  <2> QED
    BY <1>2, <2>1, <2>2, <2>3 DEF Next
<1>3. UtrInv => UtrRecordedOnce
  BY DEF UtrInv
<1> QED
  BY <1>1, <1>2, <1>3, TypeCorrect, PTL DEF Spec

\* As long as calls do not overlap, a UTR is recorded on one withdrawal only.
THEOREM SequentialCallsRecordOnce == Spec /\ []OneAtATime => []UtrRecordedOnce
<1>1. OneAtATime => UtrApart
  BY DEF OneAtATime, UtrApart
<1> QED
  BY <1>1, UtrApartRecordsOnce, PTL

=============================================================================
