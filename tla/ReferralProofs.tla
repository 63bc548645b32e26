--------------------------- MODULE ReferralProofs ---------------------------
(***************************************************************************)
(* Theorems about ReferralEarning, for any students, payments, commissions *)
(* and number of concurrent requests: every reachable state is well typed, *)
(* the free month is granted once, a refund takes its commission back      *)
(* unless a release or the booking overtook it, a flagged commission waits *)
(* for an admin, no live commission is left out of its friend's count, and *)
(* every step that touches a wallet is a movement of CommissionLedger.     *)
(***************************************************************************)
EXTENDS ReferralEarning, FiniteSetTheorems, WellFoundedInduction, TLAPS

-----------------------------------------------------------------------------
(* What a handler carries *)

WithFriend == {"apply", "book", "milestone", "month", "reward", "grant", "upgrade", "grantUp", "note"}
Reversing == {"takeBack", "takeBackHook"}

WellFormed(w) ==
  /\ w \in HandlerType
  /\ w.pc \in WithFriend => w.f \in Student /\ w.r \in Student
  /\ w.pc = "book" => w.p \in Payment /\ w.amt > 0
  /\ w.pc \in Reversing \cup {"approve"} => w.p \in Payment
  /\ w.pc \in Reversing => w.seen \in {"PENDING", "AVAILABLE"}
  /\ w.pc \in {"drawRelease", "draw"} => w.r \in Student /\ w.amt > 0

HandlersOK == handler \in [Handler -> HandlerType] /\ \A h \in Handler : WellFormed(handler[h])

\* Besides the types: no withdrawal is open that was not drawn.
IInv == TypeOK /\ HandlersOK /\ \A s \in Student : open[s] <= drawn[s]

LEMMA IdleOK == WellFormed(Idle)
  BY ReferralAssumption DEF WellFormed, Idle, HandlerType, Step, Stage, Paying, WithFriend, Reversing

LEMMA BecomeOK ==
  ASSUME HandlersOK, NEW h \in Handler, NEW w, Become(h, w), WellFormed(w)
  PROVE  HandlersOK'
<1>1. w \in HandlerType
  BY DEF WellFormed
<1>2. handler' = [handler EXCEPT ![h] = w]
  BY DEF Become
<1>3. handler' \in [Handler -> HandlerType]
  BY <1>1, <1>2 DEF HandlersOK
<1>4. ASSUME NEW g \in Handler PROVE WellFormed(handler'[g])
  <2>1. handler'[g] = IF g = h THEN w ELSE handler[g]
    BY <1>2 DEF HandlersOK
  <2> QED
    BY <2>1 DEF HandlersOK
<1> QED
  BY <1>3, <1>4 DEF HandlersOK, WellFormed

LEMMA SameOK ==
  ASSUME HandlersOK, UNCHANGED handler PROVE HandlersOK'
  BY DEF HandlersOK, WellFormed

LEMMA EndOK ==
  ASSUME HandlersOK, NEW h \in Handler, End(h) PROVE HandlersOK'
  BY IdleOK, BecomeOK DEF End

LEMMA Carries ==
  ASSUME IInv, NEW h \in Handler
  PROVE  /\ WellFormed(handler[h]) /\ handler[h] \in HandlerType
         /\ handler[h].todo \subseteq Payment
         /\ handler[h].amt \in Nat
         /\ handler[h].flag \in BOOLEAN
         /\ handler[h].pc \in WithFriend => handler[h].f \in Student /\ handler[h].r \in Student
         /\ handler[h].pc = "book" => handler[h].p \in Payment /\ handler[h].amt > 0
         /\ handler[h].pc \in Reversing \cup {"approve"} => handler[h].p \in Payment
         /\ handler[h].pc \in Reversing => handler[h].seen \in {"PENDING", "AVAILABLE"}
         /\ handler[h].pc \in {"drawRelease", "draw"} => handler[h].r \in Student /\ handler[h].amt > 0
<1>1. WellFormed(handler[h])
  BY DEF IInv, HandlersOK
<1>2. handler[h] \in HandlerType
  BY <1>1 DEF WellFormed
<1> QED
  BY <1>1, <1>2 DEF WellFormed, HandlerType

\* A handler that only moves to another step, where it needs nothing more.
LEMMA GoToOK ==
  ASSUME IInv, NEW h \in Handler, NEW pc \in Step, GoTo(h, pc),
         pc \notin {"book", "approve", "takeBack", "takeBackHook"},
         pc \in WithFriend => handler[h].pc \in WithFriend,
         pc \in {"drawRelease", "draw"} => handler[h].pc = "drawRelease"
  PROVE  HandlersOK'
<1> DEFINE w == [handler[h] EXCEPT !.pc = pc]
<1>1. WellFormed(w)
  BY Carries DEF WellFormed, HandlerType, WithFriend, Reversing
<1> QED
  BY <1>1, BecomeOK DEF GoTo, IInv

-----------------------------------------------------------------------------
(* Typing, one lemma for each group of steps *)

USE DEF linkVars, referralVars, paymentVars, earningVars, walletVars, drawVars, rewardVars, envVars

LEMMA ReadOnlyOK ==
  ASSUME IInv, ReadOnly, HandlersOK'
  PROVE  IInv'
  BY DEF IInv, TypeOK, ReadOnly, HandlersOK, LinkOK, PaymentOK, EarningOK, WalletOK, RewardOK

LEMMA ApplyOK ==
  ASSUME IInv, NEW h \in Handler, ApplyRead(h) \/ ApplyWrite(h)
  PROVE  IInv'
<1>1. CASE ApplyRead(h)
  <2>1. PICK e \in Entry : Become(h, [Idle EXCEPT !.pc = "apply", !.f = e[1], !.r = e[2]])
    BY <1>1 DEF ApplyRead
  <2>2. e[1] \in Student /\ e[2] \in Student
    BY ReferralAssumption
  <2>3. WellFormed([Idle EXCEPT !.pc = "apply", !.f = e[1], !.r = e[2]])
    BY <2>2, IdleOK DEF WellFormed, HandlerType, Idle, Step, Stage, Paying, WithFriend, Reversing
  <2>4. HandlersOK'
    BY <2>1, <2>3, BecomeOK DEF IInv
  <2> QED
    BY <1>1, <2>4, ReadOnlyOK DEF ApplyRead, ReadOnly
<1>2. CASE ApplyWrite(h)
  <2>1. HandlersOK'
    BY <1>2, EndOK DEF ApplyWrite, IInv
  <2>2. handler[h].f \in Student /\ handler[h].r \in Student
    BY <1>2, Carries DEF ApplyWrite, At, WithFriend
  <2>3. LinkOK'
    BY <1>2, <2>2 DEF ApplyWrite, IInv, TypeOK, LinkOK
  <2> QED
    BY <1>2, <2>1, <2>3 DEF ApplyWrite, IInv, TypeOK, HandlersOK, PaymentOK, EarningOK, WalletOK, RewardOK
<1> QED
  BY <1>1, <1>2

LEMMA BookFormed ==
  ASSUME NEW p \in Payment, NEW f \in Student, NEW r \in Student, NEW amt \in Nat \ {0},
         NEW seen \in Stage \cup Paying, NEW flag \in BOOLEAN, NEW yes \in BOOLEAN
  PROVE  WellFormed([pc |-> "book", p |-> p, f |-> f, r |-> r, amt |-> amt, seen |-> seen,
                     flag |-> flag, yes |-> yes, todo |-> {}])
<1> DEFINE w == [pc |-> "book", p |-> p, f |-> f, r |-> r, amt |-> amt, seen |-> seen,
                 flag |-> flag, yes |-> yes, todo |-> {}]
<1>1. "book" \in Step
  BY DEF Step
<1>2. w \in HandlerType
  BY <1>1 DEF HandlerType
<1>3. w.pc = "book" /\ w.p = p /\ w.f = f /\ w.r = r /\ w.amt = amt
  OBVIOUS
<1>4. WellFormed(w)
  <2> HIDE DEF w
  <2> QED
    BY <1>2, <1>3 DEF WellFormed, WithFriend, Reversing
<1> QED
  BY <1>4

LEMMA CreditReadOK ==
  ASSUME IInv, NEW h \in Handler, NEW p \in Payment, CreditRead(h, p)
  PROVE  IInv'
<1> DEFINE f == buyer[p]
           r == referredBy[f]
           a == Commission[p][Tier(r, f)]
           flag == <<r, f>> \in flagged \/ p \in SameDevice
           yes == ~paused[r]
           seen == refStatus[<<r, f>>]
           w == [pc |-> "book", p |-> p, f |-> f, r |-> r, amt |-> a, seen |-> seen,
                 flag |-> flag, yes |-> yes, todo |-> {}]
<1>1. HandlersOK'
  <2>1. CASE UNCHANGED handler
    BY <2>1, SameOK DEF IInv
  <2>2. CASE f # None /\ r # None /\ Become(h, w)
    <3>1. f \in Student /\ r \in Student
      BY <2>2 DEF IInv, TypeOK, PaymentOK, LinkOK
    <3>2. Tier(r, f) \in {"low", "high"}
      BY DEF Tier
    <3>3. a \in Nat \ {0}
      BY <3>2, ReferralAssumption
    <3>4. seen \in Stage \cup Paying
      BY <3>1 DEF IInv, TypeOK, LinkOK, Stage, Paying
    <3>5. flag \in BOOLEAN /\ yes \in BOOLEAN
      OBVIOUS
    <3> HIDE DEF f, r, a, flag, yes, seen
    <3>6. WellFormed(w)
      BY <2>2, <3>1, <3>3, <3>4, <3>5, BookFormed
    <3> QED
      BY <2>2, <3>6, BecomeOK DEF IInv
  <2> QED
    BY <2>1, <2>2 DEF CreditRead
<1>2. faults' \in 0..MaxFaults
  BY ReferralAssumption DEF CreditRead, IInv, TypeOK
<1> QED
  BY <1>1, <1>2 DEF CreditRead, IInv, TypeOK, HandlersOK, LinkOK, PaymentOK, EarningOK, WalletOK, RewardOK

LEMMA BumpOK ==
  ASSUME IInv, NEW h \in Handler, handler[h].r \in Student, handler[h].f \in Student,
         Bump(h), UNCHANGED referredBy
  PROVE  LinkOK'
  BY DEF Bump, IInv, TypeOK, LinkOK, Paying

LEMMA ToMilestoneOK ==
  ASSUME IInv, NEW h \in Handler, handler[h].r \in Student, handler[h].f \in Student, ToMilestone(h)
  PROVE  HandlersOK'
<1> DEFINE w == [Idle EXCEPT !.pc = "milestone", !.f = handler[h].f, !.r = handler[h].r]
<1>1. WellFormed(w)
  BY IdleOK DEF WellFormed, HandlerType, Idle, Step, Stage, Paying, WithFriend, Reversing
<1> QED
  BY <1>1, BecomeOK DEF ToMilestone, IInv

LEMMA BookOK ==
  ASSUME IInv, NEW h \in Handler, Book(h) \/ BookRefused(h) \/ BookNothing(h)
  PROVE  IInv'
<1>1. CASE Book(h)
  <2>2. /\ handler[h].p \in Payment /\ handler[h].r \in Student /\ handler[h].f \in Student
        /\ handler[h].amt \in Nat
    BY <1>1, Carries DEF Book, At, WithFriend
  <2>1. HandlersOK'
    BY <1>1, <2>2, ToMilestoneOK DEF Book
  <2>3. LinkOK'
    BY <1>1, <2>2, BumpOK DEF Book
  <2>4. EarningOK'
    BY <1>1, <2>2 DEF Book, IInv, TypeOK, EarningOK, Stage
  <2>5. WalletOK'
    BY <1>1, <2>2 DEF Book, IInv, TypeOK, WalletOK
  <2>6. PaymentOK'
    BY <1>1, <2>2 DEF Book, IInv, TypeOK, PaymentOK
  <2> QED
    BY <1>1, <2>1, <2>3, <2>4, <2>5, <2>6 DEF Book, IInv, TypeOK, HandlersOK, RewardOK
<1>2. CASE BookRefused(h)
  <2>1. HandlersOK'
    BY <1>2, EndOK DEF BookRefused, IInv
  <2> QED
    BY <1>2, <2>1, ReadOnlyOK DEF BookRefused, ReadOnly
<1>3. CASE BookNothing(h)
  <2>0. handler[h].r \in Student /\ handler[h].f \in Student
    BY <1>3, Carries DEF BookNothing, At, WithFriend
  <2>1. HandlersOK'
    BY <1>3, <2>0, ToMilestoneOK DEF BookNothing
  <2>2. LinkOK'
    BY <1>3, <2>0, BumpOK DEF BookNothing
  <2> QED
    BY <1>3, <2>1, <2>2 DEF BookNothing, IInv, TypeOK, HandlersOK, PaymentOK, EarningOK, WalletOK, RewardOK
<1> QED
  BY <1>1, <1>2, <1>3

LEMMA RewardStepsOK ==
  ASSUME IInv, NEW h \in Handler,
         \/ MilestoneRead(h) \/ ClaimMonth(h) \/ Reward(h) \/ GrantMonth(h)
         \/ UpgradeRead(h) \/ GrantUpgrade(h) \/ NoteUpgrade(h)
  PROVE  IInv'
<1>1. HandlersOK'
  <2>1. CASE MilestoneRead(h)
    <3> DEFINE up == PayingFriends(handler[h].r) >= FreeUpgradeAt
               month == ~monthClaimed[handler[h].r] /\ PayingFriends(handler[h].r) >= FreeMonthAt
               w == [handler[h] EXCEPT !.pc = IF month THEN "month" ELSE "upgrade", !.yes = up]
    <3>1. WellFormed(handler[h]) /\ handler[h].pc = "milestone"
      BY <2>1, Carries DEF MilestoneRead, At
    <3>2. up \in BOOLEAN
      OBVIOUS
    <3>3. Become(h, w) \/ End(h)
      BY <2>1 DEF MilestoneRead
    <3> HIDE DEF up, month
    <3>4. WellFormed(w)
      BY <3>1, <3>2 DEF WellFormed, HandlerType, Step, WithFriend, Reversing
    <3> QED
      BY <3>3, <3>4, BecomeOK, EndOK DEF IInv
  <2>2. CASE ~MilestoneRead(h)
    <3>1. handler[h].pc \in WithFriend
      BY <2>2 DEF ClaimMonth, Reward, GrantMonth, UpgradeRead, GrantUpgrade, NoteUpgrade, At, WithFriend
    <3>2. End(h) \/ \E pc \in {"reward", "grant", "upgrade", "grantUp", "note"} : GoTo(h, pc)
      BY <2>2 DEF ClaimMonth, Reward, GrantMonth, UpgradeRead, GrantUpgrade, NoteUpgrade, AfterMonth
    <3> QED
      BY <3>1, <3>2, GoToOK, EndOK DEF IInv, Step, WithFriend
  <2> QED
    BY <2>1, <2>2
<1>2. handler[h].r \in Student /\ handler[h].f \in Student
  BY Carries DEF MilestoneRead, ClaimMonth, Reward, GrantMonth, UpgradeRead, GrantUpgrade, NoteUpgrade, At, WithFriend
<1>3. LinkOK'
  <2>1. CASE Reward(h)
    BY <2>1, <1>2 DEF Reward, RewardStep, IInv, TypeOK, LinkOK, Paying
  <2>2. CASE UNCHANGED linkVars
    BY <2>2 DEF IInv, TypeOK, LinkOK
  <2> QED
    BY <2>1, <2>2 DEF MilestoneRead, ClaimMonth, GrantMonth, UpgradeRead, GrantUpgrade, NoteUpgrade, RewardStep
<1>4. RewardOK'
  <2>1. CASE ClaimMonth(h)
    BY <2>1, <1>2 DEF ClaimMonth, IInv, TypeOK, RewardOK
  <2>2. CASE GrantMonth(h)
    BY <2>2, <1>2 DEF GrantMonth, IInv, TypeOK, RewardOK
  <2>3. CASE GrantUpgrade(h)
    BY <2>3, <1>2 DEF GrantUpgrade, IInv, TypeOK, RewardOK
  <2>4. CASE NoteUpgrade(h)
    BY <2>4, <1>2 DEF NoteUpgrade, IInv, TypeOK, RewardOK
  <2>5. CASE UpgradeRead(h)
    BY <2>5, <1>2 DEF UpgradeRead, IInv, TypeOK, RewardOK
  <2>6. CASE UNCHANGED rewardVars
    BY <2>6 DEF IInv, TypeOK, RewardOK
  <2> QED
    BY <2>1, <2>2, <2>3, <2>4, <2>5, <2>6 DEF MilestoneRead, Reward
<1>5. RewardStep(h)
  BY DEF MilestoneRead, ClaimMonth, Reward, GrantMonth, UpgradeRead, GrantUpgrade, NoteUpgrade
<1> QED
  BY <1>1, <1>3, <1>4, <1>5 DEF RewardStep, IInv, TypeOK, HandlersOK, PaymentOK, EarningOK, WalletOK

LEMMA ReleaseFormed ==
  ASSUME NEW todo \in SUBSET Payment
  PROVE  /\ WellFormed([Idle EXCEPT !.pc = "release", !.todo = todo])
         /\ WellFormed([Idle EXCEPT !.pc = "release", !.flag = TRUE, !.todo = todo])
  BY IdleOK DEF WellFormed, HandlerType, Idle, Step, Stage, Paying, WithFriend, Reversing

LEMMA ReleaseStartsOK ==
  ASSUME IInv, NEW h \in Handler,
         Tick(h) \/ Released(h) \/ \E r \in Referrer : ReleaseUserNow(h, r)
  PROVE  IInv'
<1>1. HandlersOK'
  <2>1. CASE Tick(h)
    <3> DEFINE t == UNION {Due(r) : r \in Student}
    <3>1. t \in SUBSET Payment
      BY DEF Due
    <3>2. Become(h, [Idle EXCEPT !.pc = "release", !.flag = TRUE, !.todo = t])
      BY <2>1 DEF Tick
    <3> HIDE DEF t
    <3> QED
      BY <3>1, <3>2, ReleaseFormed, BecomeOK DEF IInv
  <2>2. CASE Released(h)
    BY <2>2, EndOK DEF Released, IInv
  <2>3. ASSUME NEW r \in Referrer, ReleaseUserNow(h, r) PROVE HandlersOK'
    <3>1. UserRows(r) \in SUBSET Payment
      BY DEF UserRows
    <3>2. Become(h, [Idle EXCEPT !.pc = "release", !.todo = UserRows(r)])
      BY <2>3 DEF ReleaseUserNow
    <3> QED
      BY <3>1, <3>2, ReleaseFormed, BecomeOK DEF IInv
  <2> QED
    BY <2>1, <2>2, <2>3
<1> QED
  BY <1>1, ReadOnlyOK DEF Tick, Released, ReleaseUserNow

LEMMA ReleaseOneOK ==
  ASSUME IInv, NEW h \in Handler, NEW p \in Payment, ReleaseOne(h, p)
  PROVE  IInv'
<1>1. HandlersOK'
  <2> DEFINE w == [handler[h] EXCEPT !.todo = @ \ {p}]
  <2>1. WellFormed(w)
    BY Carries DEF WellFormed, HandlerType
  <2> QED
    BY <2>1, BecomeOK DEF ReleaseOne, IInv
<1>2. EarningOK'
  BY DEF ReleaseOne, IInv, TypeOK, EarningOK, Stage
<1>3. pending' \in [Student -> Int] /\ balance' \in [Student -> Int]
  BY DEF ReleaseOne, IInv, TypeOK, WalletOK, EarningOK
<1> QED
  BY <1>1, <1>2, <1>3 DEF ReleaseOne, IInv, TypeOK, HandlersOK, LinkOK, PaymentOK, WalletOK, RewardOK

LEMMA ApproveOK ==
  ASSUME IInv, NEW h \in Handler, ApproveWrite(h) \/ \E p \in Payment : ApproveRead(h, p)
  PROVE  IInv'
<1>1. CASE ApproveWrite(h)
  <2>1. handler[h].p \in Payment
    BY <1>1, Carries DEF ApproveWrite, At
  <2>2. Become(h, [Idle EXCEPT !.pc = "release", !.todo = {handler[h].p}])
    BY <1>1 DEF ApproveWrite
  <2>3. HandlersOK'
    BY <2>1, <2>2, ReleaseFormed, BecomeOK DEF IInv
  <2>4. EarningOK'
    BY <1>1 DEF ApproveWrite, IInv, TypeOK, EarningOK
  <2> QED
    BY <1>1, <2>3, <2>4 DEF ApproveWrite, IInv, TypeOK, HandlersOK, LinkOK, PaymentOK, WalletOK, RewardOK
<1>2. ASSUME NEW p \in Payment, ApproveRead(h, p) PROVE IInv'
  <2>1. WellFormed([Idle EXCEPT !.pc = "approve", !.p = p])
    BY IdleOK DEF WellFormed, HandlerType, Idle, Step, Stage, Paying, WithFriend, Reversing
  <2>2. HandlersOK'
    BY <1>2, <2>1, BecomeOK DEF ApproveRead, IInv
  <2> QED
    BY <1>2, <2>2, ReadOnlyOK DEF ApproveRead
<1> QED
  BY <1>1, <1>2

LEMMA ReverseStartsOK ==
  ASSUME IInv, NEW h \in Handler, NEW p \in Payment, RefundHook(h, p) \/ ReverseRead(h, p)
  PROVE  IInv'
<1>1. HandlersOK'
  <2>1. ASSUME NEW pc \in Reversing, stage[p] \in {"PENDING", "AVAILABLE"},
               Become(h, [Idle EXCEPT !.pc = pc, !.p = p, !.seen = stage[p]])
        PROVE  HandlersOK'
    <3> DEFINE w == [Idle EXCEPT !.pc = pc, !.p = p, !.seen = stage[p]]
    <3>1. WellFormed(w)
      BY <2>1, IdleOK DEF WellFormed, HandlerType, Idle, Step, Stage, Paying, WithFriend, Reversing
    <3> QED
      BY <2>1, <3>1, BecomeOK DEF IInv
  <2>2. CASE UNCHANGED handler
    BY <2>2, SameOK DEF IInv
  <2>3. stage[p] \in Stage
    BY DEF IInv, TypeOK, EarningOK
  <2> QED
    BY <2>1, <2>2, <2>3 DEF RefundHook, ReverseRead, NothingToTake, Reversing, Stage
<1>2. PaymentOK'
  BY DEF RefundHook, ReverseRead, ReadOnly, IInv, TypeOK, PaymentOK
<1> QED
  BY <1>1, <1>2 DEF RefundHook, ReverseRead, ReadOnly, IInv, TypeOK, HandlersOK, LinkOK, EarningOK, WalletOK, RewardOK

LEMMA ExceptTyped ==
  ASSUME NEW S, NEW T, NEW fn \in [S -> T], NEW k, NEW v, k \in S => v \in T
  PROVE  [fn EXCEPT ![k] = v] \in [S -> T]
  OBVIOUS

LEMMA ReverseEndsOK ==
  ASSUME IInv, NEW h \in Handler, TakeBack(h) \/ TooLate(h)
  PROVE  IInv'
<1>1. HandlersOK'
  BY EndOK DEF TakeBack, TooLate, IInv
<1>2. handler[h].p \in Payment
  BY Carries DEF TakeBack, TooLate, Reversing
<1>3. PaymentOK'
  BY <1>2 DEF TakeBack, TooLate, IInv, TypeOK, PaymentOK
<1>4. EarningOK'
  BY DEF TakeBack, TooLate, IInv, TypeOK, EarningOK, Stage
<1>5. LinkOK'
  <2>1. CASE UNCHANGED linkVars
    BY <2>1 DEF IInv, TypeOK, LinkOK
  <2>2. CASE TakeBack(h)
    <3> DEFINE k == <<owner[handler[h].p], buyer[handler[h].p]>>
               last == LastPurchase(k)
    <3>1. /\ purchases' = [purchases EXCEPT ![k] = IF last THEN 0 ELSE @ - 1]
          /\ refStatus' = IF last THEN [refStatus EXCEPT ![k] = "PENDING"] ELSE refStatus
          /\ UNCHANGED <<referredBy, flagged, demoted>>
      BY <2>2 DEF TakeBack
    <3> HIDE DEF k, last
    <3>2. purchases' \in [Student \X Student -> Int]
      <4> DEFINE v == IF last THEN 0 ELSE purchases[k] - 1
      <4>1. k \in Student \X Student => v \in Int
        BY DEF IInv, TypeOK, LinkOK
      <4>2. purchases' = [purchases EXCEPT ![k] = v]
        BY <3>1
      <4> HIDE DEF v
      <4> QED
        BY <4>1, <4>2, ExceptTyped DEF IInv, TypeOK, LinkOK
    <3>3. refStatus' \in [Student \X Student -> {"none", "PENDING"} \cup Paying]
      BY <3>1, ExceptTyped DEF IInv, TypeOK, LinkOK
    <3> QED
      BY <3>1, <3>2, <3>3 DEF IInv, TypeOK, LinkOK
  <2> QED
    BY <2>1, <2>2 DEF TooLate
<1>6. WalletOK'
  <2>1. amount[handler[h].p] \in Nat
    BY <1>2 DEF IInv, TypeOK, EarningOK
  <2> QED
    BY <2>1 DEF TakeBack, TooLate, IInv, TypeOK, WalletOK
<1> QED
  BY <1>1, <1>3, <1>4, <1>5, <1>6 DEF TakeBack, TooLate, IInv, TypeOK, HandlersOK, RewardOK

LEMMA DrawOK ==
  ASSUME IInv, NEW h \in Handler,
         \/ \E r \in Referrer : RequestWithdrawal(h, r)
         \/ CountFriends(h) \/ Draw(h)
  PROVE  IInv'
<1>1. ASSUME NEW r \in Referrer, RequestWithdrawal(h, r) PROVE IInv'
  <2>1. PICK a \in DrawAmount : Become(h, [Idle EXCEPT !.pc = "drawRelease", !.r = r, !.amt = a, !.todo = Due(r)])
    BY <1>1 DEF RequestWithdrawal
  <2>2. a \in Nat /\ a > 0 /\ r \in Student /\ Due(r) \in SUBSET Payment
    BY ReferralAssumption DEF Referrer, Due
  <2> DEFINE t == Due(r)
             w == [Idle EXCEPT !.pc = "drawRelease", !.r = r, !.amt = a, !.todo = t]
  <2> HIDE DEF t
  <2>3. WellFormed(w)
    BY <2>2, IdleOK DEF WellFormed, HandlerType, Idle, Step, Stage, Paying, WithFriend, Reversing, t
  <2>4. HandlersOK'
    BY <2>1, <2>3, BecomeOK DEF IInv, t
  <2> QED
    BY <1>1, <2>4, ReadOnlyOK DEF RequestWithdrawal
<1>2. CASE CountFriends(h)
  <2>1. HandlersOK'
    BY <1>2, GoToOK, EndOK DEF CountFriends, At, IInv, Step, WithFriend
  <2> QED
    BY <1>2, <2>1, ReadOnlyOK DEF CountFriends
<1>3. CASE Draw(h)
  <2>1. HandlersOK'
    BY <1>3, EndOK DEF Draw, IInv
  <2>2. handler[h].r \in Student /\ handler[h].amt \in Nat
    BY <1>3, Carries DEF Draw, At
  <2>3. WalletOK'
    BY <1>3, <2>2 DEF Draw, IInv, TypeOK, WalletOK
  <2>4. \A s \in Student : open'[s] <= drawn'[s]
    BY <1>3, <2>2 DEF Draw, IInv, TypeOK, WalletOK
  <2> QED
    BY <1>3, <2>1, <2>3, <2>4 DEF Draw, IInv, TypeOK, HandlersOK, LinkOK, PaymentOK, EarningOK, RewardOK
<1> QED
  BY <1>1, <1>2, <1>3

LEMMA OutsideOK ==
  ASSUME IInv,
         \/ \E p \in Payment : (\E f \in Student : Pay(p, f)) \/ HoldEnds(p) \/ Refund(p)
         \/ \E r \in Referrer : Settle(r) \/ SetPaused(r)
         \/ \E h \in Handler : Crash(h)
  PROVE  IInv'
<1>1. ASSUME NEW p \in Payment, NEW f \in Student, Pay(p, f) PROVE IInv'
  BY <1>1, SameOK DEF Pay, IInv, TypeOK, HandlersOK, LinkOK, PaymentOK, EarningOK, WalletOK, RewardOK
<1>2. ASSUME NEW p \in Payment, HoldEnds(p) PROVE IInv'
  BY <1>2, SameOK DEF HoldEnds, IInv, TypeOK, HandlersOK, LinkOK, PaymentOK, EarningOK, WalletOK, RewardOK
<1>3. ASSUME NEW p \in Payment, Refund(p) PROVE IInv'
  BY <1>3, SameOK DEF Refund, IInv, TypeOK, HandlersOK, LinkOK, PaymentOK, EarningOK, WalletOK, RewardOK
<1>4. ASSUME NEW r \in Referrer, Settle(r) PROVE IInv'
  <2>1. r \in Student
    BY ReferralAssumption DEF Referrer
  <2>2. HandlersOK'
    BY <1>4, SameOK DEF Settle, IInv
  <2>3. WalletOK' /\ \A s \in Student : open'[s] <= drawn'[s]
    BY <1>4, <2>1 DEF Settle, Closed, IInv, TypeOK, WalletOK
  <2> QED
    BY <1>4, <2>2, <2>3 DEF Settle, IInv, TypeOK, HandlersOK, LinkOK, PaymentOK, EarningOK, RewardOK
<1>5. ASSUME NEW r \in Referrer, SetPaused(r) PROVE IInv'
  <2>1. HandlersOK'
    BY <1>5, SameOK DEF SetPaused, IInv
  <2>2. paused' \in [Student -> BOOLEAN]
    BY <1>5 DEF SetPaused, IInv, TypeOK, WalletOK
  <2>3. faults' \in 0..MaxFaults
    BY <1>5, ReferralAssumption DEF SetPaused, IInv, TypeOK
  <2> QED
    BY <1>5, <2>1, <2>2, <2>3 DEF SetPaused, IInv, TypeOK, HandlersOK, LinkOK, PaymentOK, EarningOK, WalletOK, RewardOK
<1>6. ASSUME NEW h \in Handler, Crash(h) PROVE IInv'
  <2>1. HandlersOK'
    BY <1>6, EndOK DEF Crash, IInv
  <2>2. faults' \in 0..MaxFaults
    BY <1>6, ReferralAssumption DEF Crash, IInv, TypeOK
  <2>3. RewardOK'
    <3>1. At(h, "note") => handler[h].r \in Student
      BY Carries DEF At, WithFriend
    <3> QED
      BY <1>6, <3>1 DEF Crash, IInv, TypeOK, RewardOK
  <2> QED
    BY <1>6, <2>1, <2>2, <2>3 DEF Crash, IInv, TypeOK, HandlersOK, LinkOK, PaymentOK, EarningOK, WalletOK
<1> QED
  BY <1>1, <1>2, <1>3, <1>4, <1>5, <1>6

-----------------------------------------------------------------------------
(* The inductive invariant *)

LEMMA InitIInv == Init => IInv
<1> SUFFICES ASSUME Init PROVE IInv
  OBVIOUS
<1>1. HandlersOK
  BY IdleOK DEF Init, HandlersOK, WellFormed
<1>2. LinkOK /\ PaymentOK /\ EarningOK /\ WalletOK
  BY DEF Init, LinkOK, PaymentOK, EarningOK, WalletOK, Stage
<1>3. RewardOK
  BY DEF Init, RewardOK
<1> QED
  BY <1>1, <1>2, <1>3, ReferralAssumption DEF Init, IInv, TypeOK, HandlersOK

LEMMA NextIInv == ASSUME IInv, [Next]_vars PROVE IInv'
<1>1. CASE UNCHANGED vars
  BY <1>1, SameOK DEF vars, IInv, TypeOK, HandlersOK, LinkOK, PaymentOK, EarningOK, WalletOK, RewardOK
<1>2. ASSUME NEW h \in Handler, Start(h) PROVE IInv'
  BY <1>2, ApplyOK, CreditReadOK, ReleaseStartsOK, ApproveOK, ReverseStartsOK, DrawOK DEF Start
<1>3. ASSUME NEW h \in Handler, Progress(h) PROVE IInv'
  BY <1>3, ApplyOK, BookOK, RewardStepsOK, ReleaseStartsOK, ReleaseOneOK, ApproveOK, ReverseEndsOK, DrawOK
     DEF Progress
<1> QED
  BY <1>1, <1>2, <1>3, OutsideOK DEF Next

\* The invariant the theorems below build on: the types, and what each request
\* has read before its next step (onPaidPurchase, releaseOne, reverseEarning).
THEOREM Inductive == Spec => []IInv
<1> QED
  BY InitIInv, NextIInv, PTL DEF Spec

\* Every reachable state is well typed: in particular a withdrawal never holds
\* a negative amount, and what a step of a request carries is what its next
\* step needs.
THEOREM TypeCorrect == Spec => []TypeOK
<1>1. IInv => TypeOK
  BY DEF IInv
<1> QED
  BY Inductive, <1>1, PTL

-----------------------------------------------------------------------------
(* The free month is granted once *)

Granting(h) == handler[h].pc \in {"reward", "grant"}

\* Nobody is about to grant before the claim, at most one request is after
\* it, and none is once the month was granted.
MonthInv ==
  \A r \in Student :
    /\ months[r] <= 1
    /\ \A h \in Handler : Granting(h) /\ handler[h].r = r => monthClaimed[r] /\ months[r] = 0
    /\ \A g, h \in Handler : Granting(g) /\ Granting(h) /\ handler[g].r = r /\ handler[h].r = r => g = h
    /\ ~monthClaimed[r] => months[r] = 0

\* A step that grants nothing and brings nobody to the grant.
LEMMA MonthKept ==
  ASSUME IInv, MonthInv, NEW h \in Handler, NEW w, handler' = [handler EXCEPT ![h] = w],
         UNCHANGED <<monthClaimed, months>>,
         w.pc \notin {"reward", "grant"} \/ (Granting(h) /\ w.r = handler[h].r)
  PROVE  MonthInv'
<1>1. ASSUME NEW g \in Handler PROVE handler'[g] = IF g = h THEN w ELSE handler[g]
  BY DEF IInv, TypeOK
<1>2. \A g \in Handler : Granting(g)' => Granting(g) /\ handler'[g].r = handler[g].r
  BY <1>1 DEF Granting
<1> QED
  BY <1>2 DEF MonthInv

LEMMA MonthSame ==
  ASSUME MonthInv, UNCHANGED <<monthClaimed, months, handler>> PROVE MonthInv'
  BY DEF MonthInv, Granting

LEMMA NextMonth == ASSUME IInv, IInv', MonthInv, [Next]_vars PROVE MonthInv'
<1>1. ASSUME NEW h \in Handler, ClaimMonth(h) PROVE MonthInv'
  <2> DEFINE r == handler[h].r
  <2>1. r \in Student /\ ~Granting(h)
    BY <1>1, Carries DEF ClaimMonth, At, WithFriend, Granting
  <2>2. PICK w : /\ handler' = [handler EXCEPT ![h] = w]
                 /\ w.pc \in {"reward", "grant"} => ~monthClaimed[r] /\ w.r = r
    <3>1. CASE ~monthClaimed[r] /\ GoTo(h, "reward")
      <4>1. [handler[h] EXCEPT !.pc = "reward"].r = r
        BY Carries DEF HandlerType
      <4> QED
        BY <3>1, <4>1 DEF GoTo, Become
    <3>2. CASE GoTo(h, "upgrade")
      <4>1. [handler[h] EXCEPT !.pc = "upgrade"].pc = "upgrade"
        BY Carries DEF HandlerType
      <4> QED
        BY <3>2, <4>1 DEF GoTo, Become
    <3>3. CASE End(h)
      <4>1. Idle.pc = "idle"
        BY DEF Idle
      <4> QED
        BY <3>3, <4>1 DEF End, Become
    <3> QED
      BY <1>1, <3>1, <3>2, <3>3 DEF ClaimMonth, MonthLeft, AfterMonth
  <2>3. \A g \in Handler : handler'[g] = IF g = h THEN w ELSE handler[g]
    BY <2>2 DEF IInv, TypeOK
  <2>4. monthClaimed' = [monthClaimed EXCEPT ![r] = TRUE] /\ UNCHANGED months
    BY <1>1 DEF ClaimMonth
  <2>5. \A s \in Student : monthClaimed'[s] <=> (s = r \/ monthClaimed[s])
    BY <2>1, <2>4 DEF IInv, TypeOK, RewardOK
  <2>6. \A g \in Handler : Granting(g)' <=> IF g = h THEN w.pc \in {"reward", "grant"} ELSE Granting(g)
    BY <2>3 DEF Granting
  <2> HIDE DEF r
  <2> QED
    BY <2>1, <2>2, <2>3, <2>4, <2>5, <2>6 DEF MonthInv
<1>2. ASSUME NEW h \in Handler, GrantMonth(h) PROVE MonthInv'
  <2> DEFINE r == handler[h].r
  <2>1. r \in Student /\ Granting(h)
    BY <1>2, Carries DEF GrantMonth, At, WithFriend, Granting
  <2>2. PICK w : handler' = [handler EXCEPT ![h] = w] /\ w.pc \notin {"reward", "grant"}
    <3>1. CASE GoTo(h, "upgrade")
      <4>1. [handler[h] EXCEPT !.pc = "upgrade"].pc = "upgrade"
        BY Carries DEF HandlerType
      <4> QED
        BY <3>1, <4>1 DEF GoTo, Become
    <3>2. CASE End(h)
      <4>1. Idle.pc = "idle"
        BY DEF Idle
      <4> QED
        BY <3>2, <4>1 DEF End, Become
    <3> QED
      BY <1>2, <3>1, <3>2 DEF GrantMonth, AfterMonth
  <2>3. \A g \in Handler : handler'[g] = IF g = h THEN w ELSE handler[g]
    BY <2>2 DEF IInv, TypeOK
  <2>4. \A s \in Student : months'[s] = IF s = r THEN months[s] + 1 ELSE months[s]
    BY <1>2, <2>1 DEF GrantMonth, IInv, TypeOK, RewardOK
  <2>5. \A g \in Handler : Granting(g)' <=> g # h /\ Granting(g)
    BY <2>2, <2>3 DEF Granting
  <2>6. UNCHANGED monthClaimed
    BY <1>2 DEF GrantMonth
  <2> HIDE DEF r
  <2>7. months[r] = 0 /\ monthClaimed[r] /\ \A g \in Handler : Granting(g) /\ handler[g].r = r => g = h
    BY <2>1 DEF MonthInv, r
  <2> QED
    BY <2>1, <2>3, <2>4, <2>5, <2>6, <2>7 DEF MonthInv
<1>3. ASSUME NEW h \in Handler, Reward(h) PROVE MonthInv'
  <2>1. Granting(h) /\ [handler[h] EXCEPT !.pc = "grant"].r = handler[h].r
    BY <1>3, Carries DEF Reward, At, Granting, HandlerType
  <2> QED
    BY <1>3, <2>1, MonthKept DEF Reward, GoTo, Become
<1>4. ASSUME NEW h \in Handler, NEW w, Become(h, w), w.pc \notin {"reward", "grant"}, UNCHANGED <<monthClaimed, months>>
      PROVE  MonthInv'
  <2>1. handler' = [handler EXCEPT ![h] = w]
    BY <1>4 DEF Become
  <2> QED
    BY <1>4, <2>1, MonthKept
<1>5. ASSUME NEW h \in Handler, End(h), UNCHANGED <<monthClaimed, months>> PROVE MonthInv'
  BY <1>4, <1>5 DEF End, Idle
<1>6. ASSUME NEW h \in Handler, NEW pc \in Step \ {"reward", "grant"}, GoTo(h, pc), UNCHANGED <<monthClaimed, months>>
      PROVE  MonthInv'
  <2>1. [handler[h] EXCEPT !.pc = pc].pc = pc
    BY Carries DEF HandlerType
  <2> QED
    BY <1>4, <1>6, <2>1 DEF GoTo
<1>7. ASSUME NEW h \in Handler, Start(h) PROVE MonthInv'
  <2>1. UNCHANGED <<monthClaimed, months>>
    BY <1>7 DEF Start, ApplyRead, Tick, CreditRead, ApproveRead, RefundHook, ReverseRead, ReleaseUserNow,
                RequestWithdrawal, ReadOnly
  <2>2. CASE ApplyRead(h) \/ Tick(h) \/ \E p \in Payment : ApproveRead(h, p)
    BY <1>4, <2>1, <2>2 DEF ApplyRead, Tick, ApproveRead, Idle
  <2>3. ASSUME NEW p \in Payment, CreditRead(h, p) PROVE MonthInv'
    BY <1>4, <2>1, <2>3, MonthSame DEF CreditRead
  <2>4. ASSUME NEW p \in Payment, RefundHook(h, p) \/ ReverseRead(h, p) PROVE MonthInv'
    BY <1>4, <2>1, <2>4, MonthSame DEF RefundHook, ReverseRead, Idle
  <2>5. ASSUME NEW r \in Referrer, ReleaseUserNow(h, r) \/ RequestWithdrawal(h, r) PROVE MonthInv'
    BY <1>4, <2>1, <2>5 DEF ReleaseUserNow, RequestWithdrawal, Idle
  <2> QED
    BY <1>7, <2>2, <2>3, <2>4, <2>5 DEF Start
<1>8. ASSUME NEW h \in Handler, NEW p \in Payment, ReleaseOne(h, p) PROVE MonthInv'
  <2>1. [handler[h] EXCEPT !.todo = @ \ {p}].pc = handler[h].pc
    BY Carries DEF HandlerType
  <2> QED
    BY <1>4, <1>8, <2>1 DEF ReleaseOne
<1>9. ASSUME NEW h \in Handler, MilestoneRead(h) PROVE MonthInv'
  <2>1. UNCHANGED <<monthClaimed, months>>
    BY <1>9 DEF MilestoneRead
  <2>2. CASE End(h)
    BY <1>5, <2>1, <2>2
  <2>3. CASE ~End(h)
    <3> DEFINE up == PayingFriends(handler[h].r) >= FreeUpgradeAt
               pc == IF ~monthClaimed[handler[h].r] /\ PayingFriends(handler[h].r) >= FreeMonthAt
                     THEN "month" ELSE "upgrade"
               w == [handler[h] EXCEPT !.pc = pc, !.yes = up]
    <3>1. Become(h, w)
      BY <1>9, <2>3 DEF MilestoneRead
    <3>2. pc \in {"month", "upgrade"}
      OBVIOUS
    <3> HIDE DEF pc, up
    <3>3. w.pc = pc
      BY Carries DEF HandlerType
    <3> QED
      BY <1>4, <2>1, <3>1, <3>2, <3>3
  <2> QED
    BY <2>2, <2>3
<1>10. ASSUME NEW h \in Handler, Progress(h) PROVE MonthInv'
  <2>1. CASE ApplyWrite(h) \/ BookRefused(h) \/ Released(h) \/ TakeBack(h) \/ TooLate(h) \/ Draw(h) \/ NoteUpgrade(h)
    BY <2>1, <1>5 DEF ApplyWrite, BookRefused, Released, ReadOnly, TakeBack, TooLate, Draw, NoteUpgrade
  <2>2. CASE Book(h) \/ BookNothing(h)
    BY <2>2, <1>4 DEF Book, BookNothing, ToMilestone, Idle
  <2>3. CASE UpgradeRead(h) \/ GrantUpgrade(h) \/ CountFriends(h)
    BY <2>3, <1>5, <1>6 DEF UpgradeRead, GrantUpgrade, CountFriends, ReadOnly, Step
  <2>4. CASE ApproveWrite(h)
    BY <2>4, <1>4 DEF ApproveWrite, Idle
  <2> QED
    BY <1>1, <1>2, <1>3, <1>8, <1>9, <1>10, <2>1, <2>2, <2>3, <2>4 DEF Progress
<1>11. ASSUME NEW h \in Handler, Crash(h) PROVE MonthInv'
  BY <1>5, <1>11 DEF Crash
<1>12. CASE UNCHANGED vars
  BY <1>12, MonthSame DEF vars
<1>13. CASE \/ \E p \in Payment : (\E f \in Student : Pay(p, f)) \/ HoldEnds(p) \/ Refund(p)
            \/ \E r \in Referrer : Settle(r) \/ SetPaused(r)
  BY <1>13, MonthSame DEF Pay, HoldEnds, Refund, Settle, SetPaused
<1> QED
  BY <1>7, <1>10, <1>11, <1>12, <1>13 DEF Next

\* However many purchases reach the milestone together, the free month of a
\* referrer is granted at most once.
THEOREM MonthOnceAlways == Spec => []MonthOnce
<1>1. Init => MonthInv
  BY DEF Init, MonthInv, Granting, Idle
<1>2. IInv /\ MonthInv /\ [Next]_vars => MonthInv'
  BY NextIInv, NextMonth
<1>3. MonthInv => MonthOnce
  BY DEF MonthInv, MonthOnce
<1> QED
  BY Inductive, <1>1, <1>2, <1>3, PTL DEF Spec

-----------------------------------------------------------------------------
(* The six-month upgrade is granted once *)

\* While nobody has looked for the audit row at a bad moment: at most one
\* request is between its look and its note, nothing was granted before it, and
\* a grant is noted or about to be.
UpgradeInv ==
  \A r \in Student :
    /\ upgradeNoted[r] => upgrades[r] > 0
    /\ \A h \in Handler : At(h, "note") /\ handler[h].r = r => upgrades[r] > 0
    /\ r \notin doubted =>
         /\ upgrades[r] <= 1
         /\ \A g, h \in Handler : Upgrading(g, r) /\ Upgrading(h, r) => g = h
         /\ \A h \in Handler : At(h, "grantUp") /\ handler[h].r = r => upgrades[r] = 0
         /\ upgrades[r] > 0 => upgradeNoted[r] \/ \E h \in Handler : At(h, "note") /\ handler[h].r = r

\* A step of a request that is not between its look and its note, or of nobody.
LEMMA UpgradeKept ==
  ASSUME IInv, UpgradeInv, NEW h \in Handler, NEW w, handler' = [handler EXCEPT ![h] = w],
         UNCHANGED <<upgradeNoted, upgrades, doubted>>,
         handler[h].pc \notin {"grantUp", "note"}, w.pc \notin {"grantUp", "note"}
  PROVE  UpgradeInv'
<1>1. ASSUME NEW g \in Handler PROVE handler'[g] = IF g = h THEN w ELSE handler[g]
  BY DEF IInv, TypeOK
<1>2. ASSUME NEW g \in Handler, NEW r \in Student
      PROVE  /\ Upgrading(g, r)' <=> Upgrading(g, r)
             /\ At(g, "note")' /\ handler'[g].r = r <=> At(g, "note") /\ handler[g].r = r
             /\ At(g, "grantUp")' /\ handler'[g].r = r <=> At(g, "grantUp") /\ handler[g].r = r
  BY <1>1 DEF Upgrading, At
<1> QED
  BY <1>2 DEF UpgradeInv

LEMMA UpgradeSame ==
  ASSUME UpgradeInv, UNCHANGED <<upgradeNoted, upgrades, doubted, handler>> PROVE UpgradeInv'
  BY DEF UpgradeInv, Upgrading, At

\* What a step of the upgrade does to the requests of each referrer.
LEMMA UpgradeMoves ==
  ASSUME IInv, NEW h \in Handler, NEW to \in {"grantUp", "note"}, GoTo(h, to)
  PROVE  \A g \in Handler, r \in Student :
           /\ Upgrading(g, r)' <=> IF g = h THEN handler[h].r = r ELSE Upgrading(g, r)
           /\ At(g, "note")' /\ handler'[g].r = r <=>
                IF g = h THEN to = "note" /\ handler[h].r = r ELSE At(g, "note") /\ handler[g].r = r
           /\ At(g, "grantUp")' /\ handler'[g].r = r <=>
                IF g = h THEN to = "grantUp" /\ handler[h].r = r ELSE At(g, "grantUp") /\ handler[g].r = r
<1>1. [handler[h] EXCEPT !.pc = to].pc = to /\ [handler[h] EXCEPT !.pc = to].r = handler[h].r
  BY Carries DEF HandlerType
<1>2. \A g \in Handler : g # h => handler'[g] = handler[g]
  BY DEF GoTo, Become, IInv, TypeOK
<1>3. handler'[h].pc = to /\ handler'[h].r = handler[h].r
  BY <1>1 DEF GoTo, Become, IInv, TypeOK
<1> QED
  BY <1>2, <1>3 DEF Upgrading, At

LEMMA UpgradeReads == ASSUME IInv, UpgradeInv, NEW h \in Handler, UpgradeRead(h) PROVE UpgradeInv'
<1>1. PICK r \in Student : handler[h].r = r /\ At(h, "upgrade")
  BY Carries DEF UpgradeRead, At, WithFriend
<1>2. UNCHANGED <<upgradeNoted, upgrades>>
  BY DEF UpgradeRead
<1>3. CASE upgradeNoted[r]
  <2>1. handler' = [handler EXCEPT ![h] = Idle] /\ UNCHANGED doubted
    BY <1>1, <1>3 DEF UpgradeRead, UpgradeLeft, End, Become
  <2> QED
    BY <1>1, <1>2, <2>1, UpgradeKept DEF Idle, At
<1>4. CASE ~upgradeNoted[r]
  <2>1. GoTo(h, "grantUp")
    BY <1>1, <1>4 DEF UpgradeRead, UpgradeLeft
  <2>2. \A g \in Handler, s \in Student :
           /\ Upgrading(g, s)' <=> IF g = h THEN r = s ELSE Upgrading(g, s)
           /\ At(g, "note")' /\ handler'[g].r = s <=> g # h /\ At(g, "note") /\ handler[g].r = s
           /\ At(g, "grantUp")' /\ handler'[g].r = s <=>
                IF g = h THEN r = s ELSE At(g, "grantUp") /\ handler[g].r = s
    BY <1>1, <2>1, UpgradeMoves
  <2>3. ~At(h, "note") /\ ~At(h, "grantUp")
    BY <1>1 DEF At
  <2>4. doubted' = IF \E g \in Handler : Upgrading(g, r) THEN doubted \cup {r} ELSE doubted
    BY <1>1, <1>4 DEF UpgradeRead
  <2>5. ASSUME r \notin doubted' PROVE (\A g \in Handler : ~Upgrading(g, r)) /\ upgrades[r] = 0
    <3>1. (\A g \in Handler : ~Upgrading(g, r)) /\ r \notin doubted
      BY <2>4, <2>5
    <3>2. \A g \in Handler : ~(At(g, "note") /\ handler[g].r = r)
      BY <3>1 DEF Upgrading, At
    <3>3. ~(upgrades[r] > 0) /\ upgrades[r] \in Nat
      BY <1>1, <1>4, <3>1, <3>2 DEF UpgradeInv, IInv, TypeOK, RewardOK
    <3> QED
      BY <3>1, <3>3
  <2>6. ASSUME NEW s \in Student
        PROVE  /\ upgradeNoted[s] => upgrades[s] > 0
               /\ \A g \in Handler : At(g, "note")' /\ handler'[g].r = s => upgrades[s] > 0
    BY <2>2 DEF UpgradeInv
  <2>7. ASSUME NEW s \in Student, s \notin doubted', s # r
        PROVE  /\ upgrades[s] <= 1
               /\ \A f, g \in Handler : Upgrading(f, s)' /\ Upgrading(g, s)' => f = g
               /\ \A g \in Handler : At(g, "grantUp")' /\ handler'[g].r = s => upgrades[s] = 0
               /\ upgrades[s] > 0 => upgradeNoted[s] \/ \E g \in Handler : At(g, "note")' /\ handler'[g].r = s
    <3>1. s \notin doubted
      BY <2>4, <2>7
    <3>2. \A g \in Handler : /\ Upgrading(g, s)' => Upgrading(g, s)
                             /\ At(g, "note") /\ handler[g].r = s => At(g, "note")' /\ handler'[g].r = s
                             /\ At(g, "grantUp")' /\ handler'[g].r = s => At(g, "grantUp") /\ handler[g].r = s
      BY <2>2, <2>3, <2>7
    <3> QED
      BY <3>1, <3>2 DEF UpgradeInv
  <2>8. ASSUME r \notin doubted'
        PROVE  /\ upgrades[r] = 0
               /\ \A f, g \in Handler : Upgrading(f, r)' /\ Upgrading(g, r)' => f = g
    <3>1. upgrades[r] = 0 /\ \A g \in Handler : ~Upgrading(g, r)
      BY <2>5, <2>8
    <3>2. \A g \in Handler : Upgrading(g, r)' => g = h
      BY <1>1, <2>2, <3>1, Zenon
    <3> QED
      BY <3>1, <3>2, Zenon
  <2>9. ASSUME NEW s \in Student, s \notin doubted'
        PROVE  /\ upgrades[s] <= 1
               /\ \A f, g \in Handler : Upgrading(f, s)' /\ Upgrading(g, s)' => f = g
               /\ \A g \in Handler : At(g, "grantUp")' /\ handler'[g].r = s => upgrades[s] = 0
               /\ upgrades[s] > 0 => upgradeNoted[s] \/ \E g \in Handler : At(g, "note")' /\ handler'[g].r = s
    <3>1. CASE s = r
      BY <2>8, <2>9, <3>1
    <3>2. CASE s # r
      BY <2>7, <2>9, <3>2
    <3> QED
      BY <3>1, <3>2
  <2>10. upgrades' = upgrades /\ upgradeNoted' = upgradeNoted
    BY <1>2
  <2> QED
    BY <2>6, <2>9, <2>10 DEF UpgradeInv
<1> QED
  BY <1>3, <1>4

LEMMA UpgradeGrants == ASSUME IInv, UpgradeInv, NEW h \in Handler, GrantUpgrade(h) PROVE UpgradeInv'
<1> DEFINE r == handler[h].r
<1>1. r \in Student /\ At(h, "grantUp") /\ Upgrading(h, r)
  BY Carries DEF GrantUpgrade, At, WithFriend, Upgrading
<1>2. UNCHANGED <<upgradeNoted, doubted>> /\ GoTo(h, "note")
  BY DEF GrantUpgrade
<1>3. \A s \in Student : upgrades[s] \in Nat /\ upgrades'[s] = IF s = r THEN upgrades[s] + 1 ELSE upgrades[s]
  BY <1>1 DEF GrantUpgrade, IInv, TypeOK, RewardOK
<1>4. \A g \in Handler, s \in Student :
         /\ Upgrading(g, s)' <=> Upgrading(g, s)
         /\ At(g, "note")' /\ handler'[g].r = s <=> IF g = h THEN r = s ELSE At(g, "note") /\ handler[g].r = s
         /\ At(g, "grantUp")' /\ handler'[g].r = s <=> g # h /\ At(g, "grantUp") /\ handler[g].r = s
  <2>1. \A s \in Student : Upgrading(h, s) <=> r = s
    BY <1>1 DEF Upgrading
  <2> QED
    BY <1>2, <2>1, UpgradeMoves
<1>5. r \notin doubted => upgrades[r] = 0
  BY <1>1 DEF UpgradeInv
<1>6. \A g \in Handler, s \in Student : At(g, "grantUp") /\ handler[g].r = s => Upgrading(g, s)
  BY DEF Upgrading, At
<1>7. ~At(h, "note")
  BY <1>1 DEF At
<1> HIDE DEF r
<1>8. ASSUME NEW s \in Student
      PROVE  /\ upgradeNoted[s] => upgrades'[s] > 0
             /\ \A g \in Handler : At(g, "note")' /\ handler'[g].r = s => upgrades'[s] > 0
  BY <1>3, <1>4 DEF UpgradeInv
<1>9. ASSUME NEW s \in Student, s \notin doubted
      PROVE  /\ upgrades'[s] <= 1
             /\ \A f, g \in Handler : Upgrading(f, s)' /\ Upgrading(g, s)' => f = g
  BY <1>3, <1>4, <1>5, <1>9 DEF UpgradeInv
<1>10. ASSUME NEW s \in Student, s \notin doubted, NEW g \in Handler, At(g, "grantUp")', handler'[g].r = s
       PROVE  upgrades'[s] = 0
  <2>1. g # h /\ At(g, "grantUp") /\ handler[g].r = s /\ Upgrading(g, s)
    BY <1>4, <1>6, <1>10
  <2>2. s # r
    BY <1>1, <1>10, <2>1 DEF UpgradeInv
  <2> QED
    BY <1>3, <1>10, <2>1, <2>2 DEF UpgradeInv
<1>11. ASSUME NEW s \in Student, s \notin doubted, upgrades'[s] > 0
       PROVE  upgradeNoted[s] \/ \E g \in Handler : At(g, "note")' /\ handler'[g].r = s
  <2>1. CASE s = r
    BY <1>4, <2>1
  <2>2. CASE s # r
    <3>1. upgradeNoted[s] \/ \E g \in Handler : At(g, "note") /\ handler[g].r = s
      BY <1>3, <1>11, <2>2 DEF UpgradeInv
    <3> QED
      BY <1>4, <1>7, <3>1
  <2> QED
    BY <2>1, <2>2
<1> QED
  BY <1>2, <1>8, <1>9, <1>10, <1>11 DEF UpgradeInv

\* A request leaves the upgrade: it has noted it, or its process died.
LEMMA UpgradeLeaves ==
  ASSUME IInv, UpgradeInv, NEW h \in Handler, handler[h].pc \in {"grantUp", "note"}, NoteUpgrade(h) \/ Crash(h)
  PROVE  UpgradeInv'
<1> DEFINE r == handler[h].r
<1>1. r \in Student /\ UNCHANGED upgrades /\ End(h)
  BY Carries DEF NoteUpgrade, Crash, WithFriend
<1>2. \A g \in Handler, s \in Student :
         /\ Upgrading(g, s)' <=> g # h /\ Upgrading(g, s)
         /\ At(g, "note")' /\ handler'[g].r = s <=> g # h /\ At(g, "note") /\ handler[g].r = s
         /\ At(g, "grantUp")' /\ handler'[g].r = s <=> g # h /\ At(g, "grantUp") /\ handler[g].r = s
  <2>1. \A g \in Handler : handler'[g] = IF g = h THEN Idle ELSE handler[g]
    BY <1>1 DEF End, Become, IInv, TypeOK
  <2> QED
    BY <2>1 DEF Upgrading, At, Idle
<1>3. \A s \in Student : (upgradeNoted[s] => upgradeNoted'[s]) /\ (s # r => upgradeNoted'[s] = upgradeNoted[s])
  BY <1>1 DEF NoteUpgrade, Crash, IInv, TypeOK, RewardOK
<1>4. At(h, "note") => upgrades[r] > 0
  BY <1>1 DEF UpgradeInv
<1>5. At(h, "note") => upgradeNoted'[r] \/ r \in doubted'
  BY <1>1 DEF NoteUpgrade, Crash, IInv, TypeOK, RewardOK
<1>6. doubted \subseteq doubted'
  BY DEF NoteUpgrade, Crash
<1>7. upgradeNoted'[r] => upgradeNoted[r] \/ At(h, "note")
  BY DEF NoteUpgrade, Crash
<1> HIDE DEF r
<1>8. ASSUME NEW s \in Student
      PROVE  /\ upgradeNoted'[s] => upgrades[s] > 0
             /\ \A g \in Handler : At(g, "note")' /\ handler'[g].r = s => upgrades[s] > 0
  <2>1. upgradeNoted'[s] => upgrades[s] > 0
    BY <1>3, <1>4, <1>7 DEF UpgradeInv
  <2>2. \A g \in Handler : At(g, "note")' /\ handler'[g].r = s => upgrades[s] > 0
    BY <1>2 DEF UpgradeInv
  <2> QED
    BY <2>1, <2>2
<1>9. ASSUME NEW s \in Student, s \notin doubted'
      PROVE  /\ upgrades[s] <= 1
             /\ \A f, g \in Handler : Upgrading(f, s)' /\ Upgrading(g, s)' => f = g
             /\ \A g \in Handler : At(g, "grantUp")' /\ handler'[g].r = s => upgrades[s] = 0
  <2>1. s \notin doubted
    BY <1>6, <1>9
  <2> QED
    BY <1>2, <2>1 DEF UpgradeInv
<1>10. ASSUME NEW s \in Student, s \notin doubted', upgrades[s] > 0
       PROVE  upgradeNoted'[s] \/ \E g \in Handler : At(g, "note")' /\ handler'[g].r = s
  <2>1. upgradeNoted[s] \/ \E g \in Handler : At(g, "note") /\ handler[g].r = s
    BY <1>6, <1>10 DEF UpgradeInv
  <2>2. CASE upgradeNoted[s]
    BY <1>3, <2>2
  <2>3. ASSUME NEW g \in Handler, At(g, "note"), handler[g].r = s
        PROVE  upgradeNoted'[s] \/ \E f \in Handler : At(f, "note")' /\ handler'[f].r = s
    <3>1. CASE g = h
      BY <1>5, <1>10, <2>3, <3>1 DEF r
    <3>2. CASE g # h
      BY <1>2, <2>3, <3>2
    <3> QED
      BY <3>1, <3>2
  <2> QED
    BY <2>1, <2>2, <2>3
<1> QED
  BY <1>1, <1>8, <1>9, <1>10 DEF UpgradeInv

LEMMA NextUpgrade == ASSUME IInv, UpgradeInv, [Next]_vars PROVE UpgradeInv'
<1>1. ASSUME NEW h \in Handler, NEW w, handler[h].pc \notin {"grantUp", "note"}, Become(h, w),
             w.pc \notin {"grantUp", "note"}, UNCHANGED <<upgradeNoted, upgrades, doubted>>
      PROVE  UpgradeInv'
  BY <1>1, UpgradeKept DEF Become
<1>2. ASSUME NEW h \in Handler, handler[h].pc \notin {"grantUp", "note"}, End(h),
             UNCHANGED <<upgradeNoted, upgrades, doubted>>
      PROVE  UpgradeInv'
  BY <1>1, <1>2 DEF End, Idle
<1>3. ASSUME NEW h \in Handler, handler[h].pc \notin {"grantUp", "note"}, NEW pc \in Step \ {"grantUp", "note"},
             GoTo(h, pc), UNCHANGED <<upgradeNoted, upgrades, doubted>>
      PROVE  UpgradeInv'
  <2>1. [handler[h] EXCEPT !.pc = pc].pc = pc
    BY Carries DEF HandlerType
  <2> QED
    BY <1>1, <1>3, <2>1 DEF GoTo
<1>4. ASSUME NEW h \in Handler, Start(h) PROVE UpgradeInv'
  <2>1. UNCHANGED <<upgradeNoted, upgrades, doubted>>
    BY <1>4 DEF Start, ApplyRead, Tick, CreditRead, ApproveRead, RefundHook, ReverseRead, ReleaseUserNow,
                RequestWithdrawal, ReadOnly
  <2>2. At(h, "idle")
    BY <1>4 DEF Start, ApplyRead, Tick, CreditRead, ApproveRead, RefundHook, ReverseRead, ReleaseUserNow,
                RequestWithdrawal
  <2>3. CASE ApplyRead(h) \/ Tick(h) \/ \E p \in Payment : ApproveRead(h, p)
    BY <1>1, <2>1, <2>2, <2>3 DEF ApplyRead, Tick, ApproveRead, Idle, At
  <2>4. ASSUME NEW p \in Payment, CreditRead(h, p) PROVE UpgradeInv'
    BY <1>1, <2>1, <2>2, <2>4, UpgradeSame DEF CreditRead, At
  <2>5. ASSUME NEW p \in Payment, RefundHook(h, p) \/ ReverseRead(h, p) PROVE UpgradeInv'
    BY <1>1, <2>1, <2>2, <2>5, UpgradeSame DEF RefundHook, ReverseRead, Idle, At
  <2>6. ASSUME NEW r \in Referrer, ReleaseUserNow(h, r) \/ RequestWithdrawal(h, r) PROVE UpgradeInv'
    BY <1>1, <2>1, <2>2, <2>6 DEF ReleaseUserNow, RequestWithdrawal, Idle, At
  <2> QED
    BY <1>4, <2>3, <2>4, <2>5, <2>6 DEF Start
<1>5. ASSUME NEW h \in Handler, NEW p \in Payment, ReleaseOne(h, p) PROVE UpgradeInv'
  <2>1. [handler[h] EXCEPT !.todo = @ \ {p}].pc = handler[h].pc
    BY Carries DEF HandlerType
  <2> QED
    BY <1>1, <1>5, <2>1 DEF ReleaseOne
<1>6. ASSUME NEW h \in Handler, MilestoneRead(h) PROVE UpgradeInv'
  <2>1. UNCHANGED <<upgradeNoted, upgrades, doubted>> /\ handler[h].pc \notin {"grantUp", "note"}
    BY <1>6 DEF MilestoneRead, At
  <2>2. CASE End(h)
    BY <1>2, <2>1, <2>2
  <2>3. CASE ~End(h)
    <3> DEFINE up == PayingFriends(handler[h].r) >= FreeUpgradeAt
               pc == IF ~monthClaimed[handler[h].r] /\ PayingFriends(handler[h].r) >= FreeMonthAt
                     THEN "month" ELSE "upgrade"
               w == [handler[h] EXCEPT !.pc = pc, !.yes = up]
    <3>1. Become(h, w)
      BY <1>6, <2>3 DEF MilestoneRead
    <3>2. pc \in {"month", "upgrade"}
      OBVIOUS
    <3> HIDE DEF pc, up
    <3>3. w.pc = pc
      BY Carries DEF HandlerType
    <3> QED
      BY <1>1, <2>1, <3>1, <3>2, <3>3
  <2> QED
    BY <2>2, <2>3
<1>7. ASSUME NEW h \in Handler, Progress(h), ~MilestoneRead(h), ~UpgradeRead(h), ~GrantUpgrade(h), ~NoteUpgrade(h),
             \A p \in Payment : ~ReleaseOne(h, p)
      PROVE  UpgradeInv'
  <2>1. UNCHANGED <<upgradeNoted, upgrades, doubted>> /\ handler[h].pc \notin {"grantUp", "note"}
    BY <1>7 DEF Progress, ApplyWrite, Book, BookRefused, BookNothing, ClaimMonth, Reward, GrantMonth, Released,
                ReadOnly, ApproveWrite, TakeBack, TooLate, CountFriends, Draw, At, RewardStep
  <2>2. CASE ApplyWrite(h) \/ BookRefused(h) \/ Released(h) \/ TakeBack(h) \/ TooLate(h) \/ Draw(h)
    BY <1>2, <2>1, <2>2 DEF ApplyWrite, BookRefused, Released, TakeBack, TooLate, Draw
  <2>3. CASE Book(h) \/ BookNothing(h)
    BY <1>1, <2>1, <2>3 DEF Book, BookNothing, ToMilestone, Idle
  <2>4. CASE ApproveWrite(h)
    BY <1>1, <2>1, <2>4 DEF ApproveWrite, Idle
  <2>5. CASE ClaimMonth(h) \/ Reward(h) \/ GrantMonth(h) \/ CountFriends(h)
    BY <1>2, <1>3, <2>1, <2>5 DEF ClaimMonth, Reward, GrantMonth, AfterMonth, CountFriends, Step
  <2> QED
    BY <1>7, <2>2, <2>3, <2>4, <2>5 DEF Progress
<1>8. ASSUME NEW h \in Handler, NoteUpgrade(h) PROVE UpgradeInv'
  BY <1>8, UpgradeLeaves DEF NoteUpgrade, At
<1>9. ASSUME NEW h \in Handler, Progress(h) PROVE UpgradeInv'
  BY <1>5, <1>6, <1>7, <1>8, <1>9, UpgradeReads, UpgradeGrants
<1>10. ASSUME NEW h \in Handler, Crash(h) PROVE UpgradeInv'
  <2>1. CASE handler[h].pc \in {"grantUp", "note"}
    BY <1>10, <2>1, UpgradeLeaves
  <2>2. CASE handler[h].pc \notin {"grantUp", "note"}
    BY <1>2, <1>10, <2>2 DEF Crash, At
  <2> QED
    BY <2>1, <2>2
<1>11. CASE UNCHANGED vars
  BY <1>11, UpgradeSame DEF vars
<1>12. CASE \/ \E p \in Payment : (\E f \in Student : Pay(p, f)) \/ HoldEnds(p) \/ Refund(p)
            \/ \E r \in Referrer : Settle(r) \/ SetPaused(r)
  BY <1>12, UpgradeSame DEF Pay, HoldEnds, Refund, Settle, SetPaused
<1> QED
  BY <1>4, <1>9, <1>10, <1>11, <1>12 DEF Next

\* However many of the friends' purchases come after the milestone, the upgrade
\* is granted once, and its audit row never stands for a grant that was not
\* made - unless two purchases have looked for the row between one grant's look
\* and its note, or the process died between a grant and its note.
THEOREM UpgradeOnceAlways == Spec => []UpgradeOnce
<1>1. Init => UpgradeInv
  BY DEF Init, UpgradeInv, Upgrading, At, Idle
<1>2. IInv /\ UpgradeInv /\ [Next]_vars => UpgradeInv'
  BY NextUpgrade
<1>3. UpgradeInv => UpgradeOnce
  BY DEF UpgradeInv, UpgradeOnce
<1> QED
  BY Inductive, <1>1, <1>2, <1>3, PTL DEF Spec

-----------------------------------------------------------------------------
(* A refund takes the commission back *)

\* The steps that touch neither a commission nor what is known of refunds.
RefundVars == <<stage, refunded, hooks, missed>>

LEMMA NextRefund == ASSUME IInv, RefundTakesBack, [Next]_vars PROVE RefundTakesBack'
<1>1. CASE UNCHANGED RefundVars
  BY <1>1 DEF RefundVars, RefundTakesBack
<1>2. ASSUME NEW h \in Handler, Book(h) PROVE RefundTakesBack'
  <2>1. handler[h].p \in Payment
    BY <1>2, Carries DEF Book, At
  <2>2. \A p \in Payment : p # handler[h].p => stage'[p] = stage[p]
    BY <1>2 DEF Book, IInv, TypeOK, EarningOK
  <2>3. missed' = missed \cup ((refunded \ hooks) \cap {handler[h].p}) /\ UNCHANGED <<refunded, hooks>>
    BY <1>2 DEF Book
  <2> QED
    BY <2>1, <2>2, <2>3 DEF RefundTakesBack, IInv, TypeOK, PaymentOK
<1>3. ASSUME NEW h \in Handler, NEW p \in Payment, ReleaseOne(h, p) PROVE RefundTakesBack'
  <2>1. UNCHANGED <<refunded, hooks, missed>>
    BY <1>3 DEF ReleaseOne
  <2>2. UNCHANGED stage \/ (stage[p] = "PENDING" /\ stage' = [stage EXCEPT ![p] = "AVAILABLE"])
    BY <1>3 DEF ReleaseOne, Releasable
  <2>3. ASSUME stage[p] = "PENDING", NEW q \in refunded \ (hooks \cup missed) PROVE q # p
    BY <2>3 DEF RefundTakesBack
  <2> QED
    BY <2>1, <2>2, <2>3 DEF RefundTakesBack, IInv, TypeOK, PaymentOK, EarningOK
<1>4. ASSUME NEW p \in Payment, Refund(p) PROVE RefundTakesBack'
  BY <1>4 DEF Refund, RefundTakesBack
<1>5. ASSUME NEW h \in Handler, NEW p \in Payment, RefundHook(h, p) PROVE RefundTakesBack'
  BY <1>5 DEF RefundHook, NothingToTake, RefundTakesBack
<1>6. ASSUME NEW h \in Handler, TakeBack(h) PROVE RefundTakesBack'
  <2>1. handler[h].p \in Payment
    BY <1>6, Carries DEF TakeBack, Reversing
  <2>2. stage'[handler[h].p] = "REVERSED" /\ \A q \in Payment : q # handler[h].p => stage'[q] = stage[q]
    BY <1>6, <2>1 DEF TakeBack, IInv, TypeOK, EarningOK
  <2>3. UNCHANGED <<refunded, missed>> /\ hooks' \in {hooks, hooks \ {handler[h].p}}
    BY <1>6 DEF TakeBack
  <2> QED
    BY <2>1, <2>2, <2>3 DEF RefundTakesBack, IInv, TypeOK, PaymentOK
<1>7. ASSUME NEW h \in Handler, TooLate(h) PROVE RefundTakesBack'
  <2>1. handler[h].p \in Payment
    BY <1>7, Carries DEF TooLate, Reversing
  <2>2. UNCHANGED <<refunded, stage>>
    BY <1>7 DEF TooLate
  <2>3. CASE handler[h].pc # "takeBackHook"
    BY <1>7, <2>2, <2>3 DEF TooLate, RefundTakesBack
  <2>4. CASE handler[h].pc = "takeBackHook"
    <3>1. hooks' = hooks \ {handler[h].p}
      BY <1>7, <2>4 DEF TooLate
    <3>2. stage[handler[h].p] = "REVERSED" \/ missed' = missed \cup {handler[h].p}
      BY <1>7, <2>4 DEF TooLate
    <3>3. missed \subseteq missed'
      BY <1>7 DEF TooLate
    <3> QED
      BY <2>2, <3>1, <3>2, <3>3 DEF RefundTakesBack
  <2> QED
    BY <2>3, <2>4
<1>8. ASSUME NEW h \in Handler, Start(h) \/ Progress(h)
      PROVE  \/ UNCHANGED RefundVars
             \/ Book(h) \/ TakeBack(h) \/ TooLate(h)
             \/ \E p \in Payment : ReleaseOne(h, p) \/ RefundHook(h, p)
  BY <1>8 DEF Start, Progress, RefundVars, ReadOnly, ApplyRead, Tick, CreditRead, ApproveRead, ReverseRead,
              ReleaseUserNow, RequestWithdrawal, ApplyWrite, BookRefused, BookNothing, MilestoneRead, ClaimMonth,
              Reward, GrantMonth, UpgradeRead, GrantUpgrade, NoteUpgrade, RewardStep, Released, ApproveWrite,
              CountFriends, Draw
<1>9. ASSUME \/ UNCHANGED vars
             \/ \E h \in Handler : Crash(h)
             \/ \E p \in Payment : (\E f \in Student : Pay(p, f)) \/ HoldEnds(p)
             \/ \E r \in Referrer : Settle(r) \/ SetPaused(r)
      PROVE  UNCHANGED RefundVars
  BY <1>9 DEF RefundVars, vars, Crash, Pay, HoldEnds, Settle, SetPaused
<1> QED
  BY <1>1, <1>2, <1>3, <1>4, <1>5, <1>6, <1>7, <1>8, <1>9 DEF Next

\* A payment whose refund webhook was answered has no live commission, unless
\* the booking or a release overtook the webhook.
THEOREM RefundTakesBackAlways == Spec => []RefundTakesBack
<1>1. Init => RefundTakesBack
  BY DEF Init, RefundTakesBack
<1>2. IInv /\ RefundTakesBack /\ [Next]_vars => RefundTakesBack'
  BY NextRefund
<1> QED
  BY Inductive, <1>1, <1>2, PTL DEF Spec

-----------------------------------------------------------------------------
(* A flagged commission waits *)

\* What a request is about to release was not flagged when it was read, and a
\* flag is never set on a commission that exists.
TodoInv ==
  \A h \in Handler :
    /\ handler[h].pc = "approve" => stage[handler[h].p] # "none"
    /\ \A p \in handler[h].todo : stage[p] # "none" /\ (stage[p] = "PENDING" => hold[p] # "held")

\* Commissions only get on: none is forgotten, and none is flagged afterwards.
OnlyOn == \A p \in Payment : stage[p] # "none" =>
            /\ stage'[p] # "none"
            /\ stage'[p] = "PENDING" => stage[p] = "PENDING" /\ hold'[p] \in {hold[p], "over"}

LEMMA GetsOn == ASSUME IInv, [Next]_vars PROVE OnlyOn
<1>1. CASE UNCHANGED <<stage, hold>>
  BY <1>1 DEF OnlyOn
<1>2. ASSUME NEW h \in Handler, Book(h) PROVE OnlyOn
  BY <1>2, Carries DEF Book, At, OnlyOn, IInv, TypeOK, EarningOK
<1>3. ASSUME NEW h \in Handler, NEW p \in Payment, ReleaseOne(h, p) PROVE OnlyOn
  BY <1>3 DEF ReleaseOne, OnlyOn, IInv, TypeOK, EarningOK
<1>4. ASSUME NEW h \in Handler, ApproveWrite(h) PROVE OnlyOn
  BY <1>4 DEF ApproveWrite, OnlyOn, IInv, TypeOK, EarningOK
<1>5. ASSUME NEW h \in Handler, TakeBack(h) PROVE OnlyOn
  BY <1>5 DEF TakeBack, OnlyOn, IInv, TypeOK, EarningOK
<1>6. ASSUME NEW p \in Payment, HoldEnds(p) PROVE OnlyOn
  BY <1>6 DEF HoldEnds, OnlyOn, IInv, TypeOK, EarningOK
<1>7. ASSUME NEW h \in Handler, Start(h) \/ Progress(h)
      PROVE  \/ UNCHANGED <<stage, hold>>
             \/ Book(h) \/ TakeBack(h) \/ ApproveWrite(h)
             \/ \E p \in Payment : ReleaseOne(h, p)
  BY <1>7 DEF Start, Progress, ReadOnly, ApplyRead, Tick, CreditRead, ApproveRead, ReverseRead, RefundHook,
              ReleaseUserNow, RequestWithdrawal, ApplyWrite, BookRefused, BookNothing, MilestoneRead, ClaimMonth,
              Reward, GrantMonth, UpgradeRead, GrantUpgrade, NoteUpgrade, RewardStep, Released, TooLate,
              CountFriends, Draw
<1>8. ASSUME \/ UNCHANGED vars
             \/ \E h \in Handler : Crash(h)
             \/ \E p \in Payment : (\E f \in Student : Pay(p, f)) \/ Refund(p)
             \/ \E r \in Referrer : Settle(r) \/ SetPaused(r)
      PROVE  UNCHANGED <<stage, hold>>
  BY <1>8 DEF vars, Crash, Pay, Refund, Settle, SetPaused
<1> QED
  BY <1>1, <1>2, <1>3, <1>4, <1>5, <1>6, <1>7, <1>8 DEF Next

\* A request that moves on and takes nothing more upon itself.
LEMMA TodoKept ==
  ASSUME IInv, TodoInv, OnlyOn, NEW h \in Handler, NEW w, Become(h, w),
         w.pc # "approve", w.todo \subseteq handler[h].todo
  PROVE  TodoInv'
<1>1. ASSUME NEW g \in Handler PROVE handler'[g] = IF g = h THEN w ELSE handler[g]
  BY DEF Become, IInv, TypeOK
<1>2. ASSUME NEW g \in Handler
      PROVE  /\ handler[g].todo \subseteq Payment
             /\ handler[g].pc = "approve" => handler[g].p \in Payment
  BY Carries
<1> QED
  BY <1>1, <1>2 DEF TodoInv, OnlyOn

LEMMA TodoSame ==
  ASSUME IInv, TodoInv, OnlyOn, UNCHANGED handler
  PROVE  TodoInv'
<1>1. ASSUME NEW g \in Handler
      PROVE  /\ handler[g].todo \subseteq Payment
             /\ handler[g].pc = "approve" => handler[g].p \in Payment
  BY Carries
<1> QED
  BY <1>1 DEF TodoInv, OnlyOn

LEMMA TodoStarts ==
  ASSUME IInv, TodoInv, UNCHANGED <<stage, hold>>, NEW h \in Handler, NEW w, Become(h, w),
         w.pc = "approve" => stage[w.p] # "none",
         \A p \in w.todo : stage[p] = "PENDING" /\ hold[p] # "held"
  PROVE  TodoInv'
<1>1. ASSUME NEW g \in Handler PROVE handler'[g] = IF g = h THEN w ELSE handler[g]
  BY DEF Become, IInv, TypeOK
<1> QED
  BY <1>1 DEF TodoInv

LEMMA NextTodo == ASSUME IInv, TodoInv, [Next]_vars PROVE TodoInv'
<1>1. OnlyOn
  BY GetsOn
<1>2. ASSUME NEW h \in Handler, End(h) PROVE TodoInv'
  <2>1. Idle.pc = "idle" /\ Idle.todo = {}
    BY DEF Idle
  <2> QED
    BY <1>1, <1>2, <2>1, TodoKept DEF End
<1>3. ASSUME NEW h \in Handler, NEW pc \in Step \ {"approve"}, GoTo(h, pc) PROVE TodoInv'
  <2>1. [handler[h] EXCEPT !.pc = pc].pc = pc /\ [handler[h] EXCEPT !.pc = pc].todo = handler[h].todo
    BY Carries DEF HandlerType
  <2> QED
    BY <1>1, <1>3, <2>1, TodoKept DEF GoTo
<1>4. ASSUME NEW h \in Handler, Start(h) PROVE TodoInv'
  <2>1. UNCHANGED <<stage, hold>>
    BY <1>4 DEF Start, ApplyRead, Tick, CreditRead, ApproveRead, RefundHook, ReverseRead, ReleaseUserNow,
                RequestWithdrawal, ReadOnly
  <2>2. CASE ApplyRead(h)
    BY <2>1, <2>2, TodoStarts DEF ApplyRead, Idle
  <2>3. CASE Tick(h)
    <3> DEFINE t == UNION {Due(r) : r \in Student}
               w == [Idle EXCEPT !.pc = "release", !.flag = TRUE, !.todo = t]
    <3>1. \A p \in t : stage[p] = "PENDING" /\ hold[p] # "held"
      BY DEF Due
    <3>2. Become(h, w)
      BY <2>3 DEF Tick
    <3>3. w.pc = "release" /\ w.todo = t
      BY DEF Idle
    <3> HIDE DEF t, w
    <3> QED
      BY <2>1, <3>1, <3>2, <3>3, TodoStarts
  <2>4. ASSUME NEW p \in Payment, CreditRead(h, p) PROVE TodoInv'
    <3>1. CASE UNCHANGED handler
      BY <1>1, <3>1, TodoSame
    <3>2. CASE ~UNCHANGED handler
      <4>1. PICK f, r, amt, seen, flag, yes :
              Become(h, [pc |-> "book", p |-> p, f |-> f, r |-> r, amt |-> amt, seen |-> seen, flag |-> flag,
                         yes |-> yes, todo |-> {}])
        BY <2>4, <3>2, Zenon DEF CreditRead
      <4> QED
        BY <2>1, <4>1, TodoStarts
    <3> QED
      BY <3>1, <3>2
  <2>5. ASSUME NEW p \in Payment, ApproveRead(h, p) PROVE TodoInv'
    BY <2>1, <2>5, TodoStarts DEF ApproveRead, Idle
  <2>6. ASSUME NEW p \in Payment, RefundHook(h, p) \/ ReverseRead(h, p) PROVE TodoInv'
    BY <1>1, <2>1, <2>6, TodoStarts, TodoSame DEF RefundHook, ReverseRead, Idle
  <2>7. ASSUME NEW r \in Referrer, ReleaseUserNow(h, r) PROVE TodoInv'
    BY <2>1, <2>7, TodoStarts DEF ReleaseUserNow, UserRows, Idle
  <2>8. ASSUME NEW r \in Referrer, RequestWithdrawal(h, r) PROVE TodoInv'
    <3>1. PICK a \in DrawAmount :
            Become(h, [Idle EXCEPT !.pc = "drawRelease", !.r = r, !.amt = a, !.todo = Due(r)])
      BY <2>8 DEF RequestWithdrawal
    <3>2. \A p \in Due(r) : stage[p] = "PENDING" /\ hold[p] # "held"
      BY DEF Due
    <3> QED
      BY <2>1, <3>1, <3>2, TodoStarts DEF Idle
  <2> QED
    BY <1>4, <2>2, <2>3, <2>4, <2>5, <2>6, <2>7, <2>8 DEF Start
<1>5. ASSUME NEW h \in Handler, ApproveWrite(h) PROVE TodoInv'
  <2> DEFINE q == handler[h].p
             w == [Idle EXCEPT !.pc = "release", !.todo = {q}]
  <2>1. q \in Payment /\ stage[q] # "none"
    BY <1>5, Carries DEF ApproveWrite, At, TodoInv
  <2>2. stage'[q] # "none" /\ (stage'[q] = "PENDING" => hold'[q] # "held")
    BY <1>5, <2>1 DEF ApproveWrite, IInv, TypeOK, EarningOK
  <2>3. Become(h, w)
    BY <1>5 DEF ApproveWrite
  <2>4. w.pc = "release" /\ w.todo = {q}
    BY DEF Idle
  <2>5. ASSUME NEW g \in Handler PROVE handler'[g] = IF g = h THEN w ELSE handler[g]
    BY <2>3 DEF Become, IInv, TypeOK
  <2>6. ASSUME NEW g \in Handler
        PROVE  /\ handler[g].todo \subseteq Payment
               /\ handler[g].pc = "approve" => handler[g].p \in Payment
    BY Carries
  <2> HIDE DEF q, w
  <2> QED
    BY <1>1, <2>1, <2>2, <2>4, <2>5, <2>6 DEF TodoInv, OnlyOn
<1>6. ASSUME NEW h \in Handler, NEW p \in Payment, ReleaseOne(h, p) PROVE TodoInv'
  <2>1. /\ [handler[h] EXCEPT !.todo = @ \ {p}].pc = handler[h].pc
        /\ [handler[h] EXCEPT !.todo = @ \ {p}].todo \subseteq handler[h].todo
    BY Carries DEF HandlerType
  <2> QED
    BY <1>1, <1>6, <2>1, TodoKept DEF ReleaseOne
<1>7. ASSUME NEW h \in Handler, MilestoneRead(h) PROVE TodoInv'
  <2>1. CASE End(h)
    BY <1>2, <2>1
  <2>2. CASE ~End(h)
    <3> DEFINE up == PayingFriends(handler[h].r) >= FreeUpgradeAt
               pc == IF ~monthClaimed[handler[h].r] /\ PayingFriends(handler[h].r) >= FreeMonthAt
                     THEN "month" ELSE "upgrade"
               w == [handler[h] EXCEPT !.pc = pc, !.yes = up]
    <3>1. Become(h, w)
      BY <1>7, <2>2 DEF MilestoneRead
    <3>2. pc \in {"month", "upgrade"}
      OBVIOUS
    <3> HIDE DEF pc, up
    <3>3. w.pc = pc /\ w.todo = handler[h].todo
      BY Carries DEF HandlerType
    <3> QED
      BY <1>1, <3>1, <3>2, <3>3, TodoKept
  <2> QED
    BY <2>1, <2>2
<1>8. ASSUME NEW h \in Handler, Book(h) \/ BookNothing(h) PROVE TodoInv'
  <2> DEFINE w == [Idle EXCEPT !.pc = "milestone", !.f = handler[h].f, !.r = handler[h].r]
  <2>1. Become(h, w)
    BY <1>8 DEF Book, BookNothing, ToMilestone
  <2>2. w.pc = "milestone" /\ w.todo = {}
    BY DEF Idle
  <2> QED
    BY <1>1, <2>1, <2>2, TodoKept
<1>9. ASSUME NEW h \in Handler, Progress(h) PROVE TodoInv'
  <2>1. CASE ApplyWrite(h) \/ BookRefused(h) \/ Released(h) \/ TakeBack(h) \/ TooLate(h) \/ Draw(h) \/ NoteUpgrade(h)
    BY <2>1, <1>2 DEF ApplyWrite, BookRefused, Released, TakeBack, TooLate, Draw, NoteUpgrade
  <2>2. CASE \/ UpgradeRead(h) \/ GrantUpgrade(h) \/ CountFriends(h)
             \/ ClaimMonth(h) \/ Reward(h) \/ GrantMonth(h)
    BY <2>2, <1>2, <1>3 DEF UpgradeRead, GrantUpgrade, CountFriends, ClaimMonth, Reward, GrantMonth, AfterMonth, Step
  <2> QED
    BY <1>5, <1>6, <1>7, <1>8, <1>9, <2>1, <2>2 DEF Progress
<1>10. ASSUME NEW h \in Handler, Crash(h) PROVE TodoInv'
  BY <1>2, <1>10 DEF Crash
<1>11. CASE UNCHANGED vars
  BY <1>1, <1>11, TodoSame DEF vars
<1>12. CASE \/ \E p \in Payment : (\E f \in Student : Pay(p, f)) \/ HoldEnds(p) \/ Refund(p)
            \/ \E r \in Referrer : Settle(r) \/ SetPaused(r)
  BY <1>1, <1>12, TodoSame DEF Pay, HoldEnds, Refund, Settle, SetPaused
<1> QED
  BY <1>4, <1>9, <1>10, <1>11, <1>12 DEF Next

Waits == \A p \in Payment : stage[p] = "PENDING" /\ hold[p] = "held" => stage'[p] # "AVAILABLE"

LEMMA NextWaits == ASSUME IInv, TodoInv, [Next]_vars PROVE Waits
<1>1. ASSUME NEW p \in Payment, stage[p] = "PENDING", hold[p] = "held", stage'[p] = "AVAILABLE" PROVE FALSE
  <2>1. CASE UNCHANGED stage
    BY <1>1, <2>1
  <2>2. ASSUME NEW h \in Handler, NEW q \in Payment, ReleaseOne(h, q) PROVE FALSE
    BY <1>1, <2>2 DEF ReleaseOne, TodoInv, IInv, TypeOK, EarningOK
  <2>3. ASSUME NEW h \in Handler, Book(h) \/ TakeBack(h) PROVE FALSE
    BY <1>1, <2>3 DEF Book, TakeBack, IInv, TypeOK, EarningOK
  <2>4. ASSUME NEW h \in Handler, Start(h) \/ Progress(h)
        PROVE  UNCHANGED stage \/ Book(h) \/ TakeBack(h) \/ \E q \in Payment : ReleaseOne(h, q)
    BY <2>4 DEF Start, Progress, ReadOnly, ApplyRead, Tick, CreditRead, ApproveRead, ReverseRead, RefundHook,
                ReleaseUserNow, RequestWithdrawal, ApplyWrite, BookRefused, BookNothing, MilestoneRead, ClaimMonth,
                Reward, GrantMonth, UpgradeRead, GrantUpgrade, NoteUpgrade, RewardStep, Released, TooLate,
                CountFriends, Draw, ApproveWrite
  <2>5. ASSUME \/ UNCHANGED vars
               \/ \E h \in Handler : Crash(h)
               \/ \E q \in Payment : (\E f \in Student : Pay(q, f)) \/ Refund(q) \/ HoldEnds(q)
               \/ \E r \in Referrer : Settle(r) \/ SetPaused(r)
        PROVE  UNCHANGED stage
    BY <2>5 DEF vars, Crash, Pay, Refund, HoldEnds, Settle, SetPaused
  <2> QED
    BY <2>1, <2>2, <2>3, <2>4, <2>5 DEF Next
<1> QED
  BY <1>1 DEF Waits

\* No release job, no "release now" of an admin and no withdrawal request
\* releases a flagged commission that was not approved.
THEOREM FlaggedWaitsAlways == Spec => FlaggedWaits
<1>1. Init => TodoInv
  BY DEF Init, TodoInv, Idle
<1>2. IInv /\ TodoInv /\ [Next]_vars => TodoInv'
  BY NextTodo
<1>3. IInv /\ TodoInv /\ [Next]_vars => [Waits]_vars
  BY NextWaits
<1> QED
  BY Inductive, <1>1, <1>2, <1>3, PTL DEF Spec, FlaggedWaits, Waits

-----------------------------------------------------------------------------
(* The code implements the ledger *)

LEMMA BookImplements ==
  ASSUME IInv, NEW h \in Handler, Book(h) PROVE Ledger!Next
<1>1. PICK p \in Payment, r \in Student, a \in Nat :
        handler[h].p = p /\ handler[h].r = r /\ handler[h].amt = a /\ a > 0
  BY Carries DEF Book, At, WithFriend
<1>2. PICK now \in BOOLEAN :
         /\ stage' = [stage EXCEPT ![p] = IF now THEN "AVAILABLE" ELSE "PENDING"]
         /\ pending' = IF now THEN pending ELSE [pending EXCEPT ![r] = @ + a]
         /\ balance' = IF now THEN [balance EXCEPT ![r] = @ + a] ELSE balance
  <2> DEFINE now == Instant /\ ~handler[h].flag
  <2>1. /\ stage' = [stage EXCEPT ![p] = IF now THEN "AVAILABLE" ELSE "PENDING"]
        /\ pending' = IF now THEN pending ELSE [pending EXCEPT ![r] = @ + a]
        /\ balance' = IF now THEN [balance EXCEPT ![r] = @ + a] ELSE balance
    BY <1>1 DEF Book
  <2>2. now \in BOOLEAN
    OBVIOUS
  <2> HIDE DEF now
  <2> QED
    BY <2>1, <2>2
<1>3. /\ stage[p] = "none" /\ owner' = [owner EXCEPT ![p] = r] /\ amount' = [amount EXCEPT ![p] = a]
      /\ total' = [total EXCEPT ![r] = @ + a] /\ UNCHANGED drawn
  BY <1>1 DEF Book
<1>4. owner'[p] = r /\ amount'[p] = a /\ stage'[p] = IF now THEN "AVAILABLE" ELSE "PENDING"
  BY <1>1, <1>2, <1>3 DEF IInv, TypeOK, EarningOK
<1>5. Ledger!Book(p)
  <2>1. CASE now
    <3>1. /\ stage' = [stage EXCEPT ![p] = "AVAILABLE"] /\ stage'[p] = "AVAILABLE"
          /\ pending' = pending /\ balance' = [balance EXCEPT ![r] = @ + a]
      BY <1>2, <1>4, <2>1
    <3> QED
      BY <1>1, <1>3, <1>4, <3>1 DEF Ledger!Book
  <2>2. CASE ~now
    <3>1. /\ stage' = [stage EXCEPT ![p] = "PENDING"] /\ stage'[p] = "PENDING"
          /\ pending' = [pending EXCEPT ![r] = @ + a] /\ balance' = balance
      BY <1>2, <1>4, <2>2
    <3> QED
      BY <1>1, <1>3, <1>4, <3>1 DEF Ledger!Book
  <2> QED
    BY <2>1, <2>2
<1> QED
  BY <1>1, <1>5 DEF Ledger!Next

LEMMA NextLedger == ASSUME IInv, [Next]_vars PROVE [Ledger!Next]_(Ledger!ledgerVars)
<1> USE DEF Ledger!ledgerVars
<1>1. ASSUME NEW h \in Handler, NEW p \in Payment, ReleaseOne(h, p) PROVE [Ledger!Next]_(Ledger!ledgerVars)
  BY <1>1 DEF ReleaseOne, Releasable, Ledger!Release, Ledger!Takes, Ledger!Moves, Ledger!Next
<1>2. ASSUME NEW h \in Handler, TakeBack(h) PROVE Ledger!Next
  <2>1. PICK p \in Payment : handler[h].p = p /\ handler[h].seen \in {"PENDING", "AVAILABLE"}
    BY <1>2, Carries DEF TakeBack, Reversing
  <2>2. Ledger!TakeBack(p)
    BY <1>2, <2>1 DEF TakeBack, Unchanged, Ledger!TakeBack, Ledger!Takes
  <2> QED
    BY <2>2 DEF Ledger!Next
<1>3. ASSUME NEW h \in Handler, Draw(h) PROVE [Ledger!Next]_(Ledger!ledgerVars)
  <2> DEFINE r == handler[h].r
             a == handler[h].amt
  <2>1. r \in Student /\ a \in Nat
    BY <1>3, Carries DEF Draw, At
  <2>2. CASE UNCHANGED <<balance, drawn>>
    BY <1>3, <2>2 DEF Draw
  <2>3. CASE ~UNCHANGED <<balance, drawn>>
    <3>1. /\ balance[r] >= a /\ balance' = [balance EXCEPT ![r] = @ - a] /\ drawn' = [drawn EXCEPT ![r] = @ + a]
          /\ UNCHANGED <<stage, owner, amount, pending, total>>
      BY <1>3, <2>3 DEF Draw
    <3> HIDE DEF r, a
    <3>2. drawn'[r] - drawn[r] = a /\ drawn'[r] >= 0
      BY <2>1, <3>1 DEF IInv, TypeOK, WalletOK
    <3>3. Ledger!Draw(r)
      BY <2>1, <3>1, <3>2 DEF Ledger!Draw, IInv, TypeOK, WalletOK
    <3> QED
      BY <2>1, <3>3 DEF Ledger!Next
  <2> QED
    BY <2>2, <2>3
<1>4. ASSUME NEW r \in Referrer, Settle(r) PROVE [Ledger!Next]_(Ledger!ledgerVars)
  <2>1. r \in Student
    BY ReferralAssumption DEF Referrer
  <2>2. CASE UNCHANGED <<balance, drawn>>
    BY <1>4, <2>2 DEF Settle
  <2>3. CASE ~UNCHANGED <<balance, drawn>>
    <3>1. /\ balance' = [balance EXCEPT ![r] = @ + open[r]] /\ drawn' = [drawn EXCEPT ![r] = @ - open[r]]
          /\ UNCHANGED <<stage, owner, amount, pending, total>>
      BY <1>4, <2>3 DEF Settle
    <3>2. open[r] \in Nat /\ drawn[r] \in Nat /\ open[r] <= drawn[r] /\ balance[r] \in Int
      BY <2>1 DEF IInv, TypeOK, WalletOK
    <3>3. drawn'[r] - drawn[r] = -open[r] /\ drawn'[r] >= 0
      BY <2>1, <3>1, <3>2 DEF IInv, TypeOK, WalletOK
    <3>4. Ledger!Draw(r)
      <4> DEFINE d == drawn'[r] - drawn[r]
      <4>1. balance[r] - d = balance[r] + open[r] /\ drawn[r] + d = drawn[r] - open[r] /\ d <= 0
        BY <3>2, <3>3
      <4>2. balance' = [balance EXCEPT ![r] = @ - d] /\ drawn' = [drawn EXCEPT ![r] = @ + d]
        BY <3>1, <4>1
      <4> QED
        BY <3>1, <3>3, <4>1, <4>2 DEF Ledger!Draw
    <3> QED
      BY <2>1, <3>4 DEF Ledger!Next
  <2> QED
    BY <2>2, <2>3
<1>5. ASSUME NEW h \in Handler, Start(h) \/ Progress(h)
      PROVE  \/ UNCHANGED Ledger!ledgerVars
             \/ Book(h) \/ TakeBack(h) \/ Draw(h)
             \/ \E p \in Payment : ReleaseOne(h, p)
  BY <1>5 DEF Start, Progress, ReadOnly, ApplyRead, Tick, CreditRead, ApproveRead, ReverseRead, RefundHook,
              ReleaseUserNow, RequestWithdrawal, ApplyWrite, BookRefused, BookNothing, MilestoneRead, ClaimMonth,
              Reward, GrantMonth, UpgradeRead, GrantUpgrade, NoteUpgrade, RewardStep, Released, TooLate,
              CountFriends, ApproveWrite
<1>6. ASSUME \/ UNCHANGED vars
             \/ \E h \in Handler : Crash(h)
             \/ \E p \in Payment : (\E f \in Student : Pay(p, f)) \/ HoldEnds(p) \/ Refund(p)
             \/ \E r \in Referrer : SetPaused(r)
      PROVE  UNCHANGED Ledger!ledgerVars
  BY <1>6 DEF vars, Crash, Pay, HoldEnds, Refund, SetPaused
<1> QED
  BY <1>1, <1>2, <1>3, <1>4, <1>5, <1>6, BookImplements DEF Next

\* Whatever requests, jobs, admins and webhooks run at the same time, each of
\* their steps moves exactly one commission, once, between the columns of one
\* wallet, or is a withdrawal or its return, or touches no wallet.
THEOREM ImplementsLedger == Spec => LedgerSpec
<1>1. Init => Ledger!Init
  BY DEF Init, Ledger!Init, Ledger!Zero
<1>2. IInv /\ [Next]_vars => [Ledger!Next]_(Ledger!ledgerVars)
  BY NextLedger
<1> QED
  BY Inductive, <1>1, <1>2, PTL DEF Spec, LedgerSpec, Ledger!Spec

-----------------------------------------------------------------------------
(* The friend's purchases are counted.  Besides the property itself: what is *)
(* known of a booked payment, and of the status a purchase has read, unless  *)
(* the pair is one whose REWARDED was overwritten.                           *)

Pair(h) == <<handler[h].r, handler[h].f>>

LiveOK(k) == IsFiniteSet(Live(k)) /\ purchases[k] >= Cardinality(Live(k))

StatusOK(k) ==
  /\ refStatus[k] = "PAIDED" => purchases[k] > 0
  /\ refStatus[k] \in {"none", "PENDING"} /\ k \notin demoted => purchases[k] = 0

BookedKnown == \A p \in Payment : stage[p] # "none" => buyer[p] \in Student /\ owner[p] \in Student

BooksTrue ==
  \A h \in Handler : At(h, "book") =>
    /\ buyer[handler[h].p] = handler[h].f
    /\ handler[h].seen = "REWARDED" /\ Pair(h) \notin demoted => refStatus[Pair(h)] = "REWARDED"

CountInv == (\A k \in Student \X Student : LiveOK(k) /\ StatusOK(k)) /\ BookedKnown /\ BooksTrue

LEMMA CountInit == Init => CountInv
<1> SUFFICES ASSUME Init PROVE CountInv
  OBVIOUS
<1>1. \A h \in Handler : ~At(h, "book")
  BY DEF Init, At, Idle
<1>2. \A k \in Student \X Student : Live(k) = {}
  BY DEF Init, Live
<1>3. ASSUME NEW k \in Student \X Student PROVE LiveOK(k) /\ StatusOK(k)
  <2>1. refStatus[k] = "none" /\ purchases[k] = 0
    BY DEF Init
  <2>2. LiveOK(k)
    BY <1>2, <2>1, FS_EmptySet DEF LiveOK
  <2> QED
    BY <2>1, <2>2 DEF StatusOK
<1> QED
  BY <1>1, <1>3 DEF Init, CountInv, BookedKnown, BooksTrue

\* Who books after a step was booking before it.
BooksGoOn == \A g \in Handler : At(g, "book")' => handler'[g] = handler[g]

LEMMA NoNewBook ==
  ASSUME IInv, NEW h \in Handler, NEW w, Become(h, w), w.pc # "book"
  PROVE  BooksGoOn /\ \A g \in Handler : At(g, "book")' => g # h
<1>1. \A g \in Handler : handler'[g] = IF g = h THEN w ELSE handler[g]
  BY DEF IInv, TypeOK, Become
<1> QED
  BY <1>1 DEF BooksGoOn, At

LEMMA SameBooks == UNCHANGED handler => BooksGoOn
  BY DEF BooksGoOn

\* Nothing that is counted changes.
LEMMA CountSame ==
  ASSUME CountInv, UNCHANGED <<refStatus, purchases, demoted, owner, buyer>>, BooksGoOn,
         \A p \in Payment : /\ stage'[p] \in {"PENDING", "AVAILABLE"} <=> stage[p] \in {"PENDING", "AVAILABLE"}
                            /\ stage'[p] # "none" => stage[p] # "none"
  PROVE  CountInv'
<1>1. \A k \in Student \X Student : Live(k)' = Live(k)
  BY DEF Live
<1>2. \A k \in Student \X Student : LiveOK(k)' /\ StatusOK(k)'
  BY <1>1 DEF CountInv, LiveOK, StatusOK
<1>3. BookedKnown'
  BY DEF CountInv, BookedKnown
<1>4. BooksTrue'
  BY DEF CountInv, BooksTrue, BooksGoOn, At, Pair
<1> QED
  BY <1>2, <1>3, <1>4 DEF CountInv

\* The status of a pair changes for the better, its count does not.
LEMMA CountStatus ==
  ASSUME CountInv, NEW k \in Student \X Student, refStatus \in [Student \X Student -> {"none", "PENDING"} \cup Paying],
         NEW s, refStatus' = [refStatus EXCEPT ![k] = s],
         s = "REWARDED" \/ (s = "PENDING" /\ refStatus[k] = "none"),
         UNCHANGED <<purchases, demoted, owner, buyer, stage>>, BooksGoOn
  PROVE  CountInv'
<1>0. \A q \in Student \X Student : refStatus'[q] = IF q = k THEN s ELSE refStatus[q]
  OBVIOUS
<1>1. \A q \in Student \X Student : Live(q)' = Live(q)
  BY DEF Live
<1>2. \A q \in Student \X Student : LiveOK(q)'
  BY <1>1 DEF CountInv, LiveOK
<1>3. \A q \in Student \X Student : StatusOK(q)'
  BY <1>0 DEF CountInv, StatusOK
<1>4. BookedKnown'
  BY DEF CountInv, BookedKnown
<1>5. BooksTrue'
  <2> SUFFICES ASSUME NEW g \in Handler, At(g, "book")'
               PROVE  /\ buyer'[handler'[g].p] = handler'[g].f
                      /\ handler'[g].seen = "REWARDED" /\ Pair(g)' \notin demoted' => refStatus'[Pair(g)'] = "REWARDED"
    BY DEF BooksTrue
  <2>1. handler'[g] = handler[g] /\ At(g, "book") /\ Pair(g)' = Pair(g)
    BY DEF BooksGoOn, At, Pair
  <2>2. /\ buyer[handler[g].p] = handler[g].f
        /\ handler[g].seen = "REWARDED" /\ Pair(g) \notin demoted => refStatus[Pair(g)] = "REWARDED"
    BY <2>1 DEF CountInv, BooksTrue
  <2>3. refStatus[Pair(g)] = "REWARDED" => refStatus'[Pair(g)] = "REWARDED"
    OBVIOUS
  <2> QED
    BY <2>1, <2>2, <2>3
<1> QED
  BY <1>2, <1>3, <1>4, <1>5 DEF CountInv

\* One more purchase is counted: what the row and the other bookings make of it.
LEMMA BumpCounts ==
  ASSUME IInv, CountInv, NEW h \in Handler, At(h, "book"), Bump(h), ToMilestone(h), UNCHANGED buyer
  PROVE  /\ Pair(h) \in Student \X Student
         /\ \A q \in Student \X Student :
              purchases'[q] = IF q = Pair(h) THEN purchases[q] + 1 ELSE purchases[q]
         /\ \A q \in Student \X Student : StatusOK(q)'
         /\ BooksTrue'
<1>1. PICK k \in Student \X Student : k = Pair(h)
  BY Carries DEF At, WithFriend, Pair
<1>2. /\ purchases \in [Student \X Student -> Int]
      /\ refStatus \in [Student \X Student -> {"none", "PENDING"} \cup Paying]
  BY DEF IInv, TypeOK, LinkOK
<1>3. \A q \in Student \X Student : purchases'[q] = IF q = k THEN purchases[q] + 1 ELSE purchases[q]
  BY <1>1, <1>2 DEF Bump, Pair
<1>4. \A q \in Student \X Student :
        refStatus'[q] = IF q = k /\ handler[h].seen # "REWARDED" THEN "PAIDED" ELSE refStatus[q]
  BY <1>1, <1>2 DEF Bump, Pair
<1>5. /\ demoted \subseteq demoted'
      /\ handler[h].seen # "REWARDED" /\ refStatus[k] = "REWARDED" => k \in demoted'
      /\ handler[h].seen = "REWARDED" => demoted' = demoted
  BY <1>1 DEF Bump, Pair
<1>6. purchases[k] >= 0
  <2>1. LiveOK(k)
    BY DEF CountInv
  <2> QED
    BY <1>2, <2>1, FS_CardinalityType DEF LiveOK
<1>7. handler[h].seen = "REWARDED" /\ k \notin demoted => refStatus[k] = "REWARDED"
  BY <1>1 DEF CountInv, BooksTrue
<1>8. ASSUME NEW q \in Student \X Student PROVE StatusOK(q)'
  <2>1. StatusOK(q) /\ purchases[q] \in Int
    BY <1>2 DEF CountInv
  <2> QED
    BY <1>3, <1>4, <1>5, <1>6, <1>7, <2>1 DEF StatusOK
<1>9. BooksTrue'
  <2> SUFFICES ASSUME NEW g \in Handler, At(g, "book")'
               PROVE  /\ buyer'[handler'[g].p] = handler'[g].f
                      /\ handler'[g].seen = "REWARDED" /\ Pair(g)' \notin demoted' => refStatus'[Pair(g)'] = "REWARDED"
    BY DEF BooksTrue
  <2>1. BooksGoOn
    BY NoNewBook DEF ToMilestone, Idle
  <2>2. handler'[g] = handler[g] /\ At(g, "book") /\ Pair(g)' = Pair(g)
    BY <2>1 DEF BooksGoOn, At, Pair
  <2>3. /\ buyer[handler[g].p] = handler[g].f
        /\ handler[g].seen = "REWARDED" /\ Pair(g) \notin demoted => refStatus[Pair(g)] = "REWARDED"
    BY <2>2 DEF CountInv, BooksTrue
  <2>4. Pair(g) \in Student \X Student
    BY <2>2, Carries DEF At, WithFriend, Pair
  <2>5. Pair(g) \notin demoted' /\ refStatus[Pair(g)] = "REWARDED" => refStatus'[Pair(g)] = "REWARDED"
    BY <1>4, <1>5, <2>4
  <2> QED
    BY <1>5, <2>2, <2>3, <2>5
<1> QED
  BY <1>1, <1>3, <1>8, <1>9

LEMMA BookCounts ==
  ASSUME IInv, CountInv, NEW h \in Handler, Book(h)
  PROVE  CountInv'
<1>1. /\ Pair(h) \in Student \X Student
      /\ \A q \in Student \X Student :
           purchases'[q] = IF q = Pair(h) THEN purchases[q] + 1 ELSE purchases[q]
      /\ \A q \in Student \X Student : StatusOK(q)'
      /\ BooksTrue'
  BY BumpCounts DEF Book, paymentVars
<1>2. PICK p \in Payment : p = handler[h].p
  BY Carries DEF Book, At
<1>3. handler[h].r \in Student /\ handler[h].f \in Student /\ buyer[p] = handler[h].f
  BY <1>2, Carries DEF Book, At, WithFriend, CountInv, BooksTrue
<1>4. /\ stage[p] = "none" /\ stage'[p] \in {"PENDING", "AVAILABLE"} /\ owner'[p] = handler[h].r
      /\ \A x \in Payment : x # p => stage'[x] = stage[x] /\ owner'[x] = owner[x]
      /\ buyer' = buyer
  BY <1>2 DEF Book, IInv, TypeOK, EarningOK, paymentVars
<1>5. ASSUME NEW q \in Student \X Student
      PROVE  Live(q)' = IF q = Pair(h) THEN Live(q) \cup {p} ELSE Live(q)
  <2>1. q = Pair(h) <=> q[1] = handler[h].r /\ q[2] = handler[h].f
    BY DEF Pair
  <2>2. \A x \in Payment : x \in Live(q)' <=> x \in Live(q) \/ (x = p /\ q = Pair(h))
    BY <1>3, <1>4, <2>1 DEF Live
  <2>3. Live(q) \subseteq Payment /\ Live(q)' \subseteq Payment
    BY DEF Live
  <2> QED
    BY <2>2, <2>3
<1>6. \A q \in Student \X Student : p \notin Live(q)
  BY <1>4 DEF Live
<1>7. ASSUME NEW q \in Student \X Student PROVE LiveOK(q)'
  <2>1. LiveOK(q) /\ purchases[q] \in Int
    BY DEF CountInv, IInv, TypeOK, LinkOK
  <2>2. PICK L : L = Live(q)
    OBVIOUS
  <2>3. Cardinality(L) \in Nat /\ IsFiniteSet(L \cup {p}) /\ Cardinality(L \cup {p}) = Cardinality(L) + 1
    BY <1>6, <2>1, <2>2, FS_CardinalityType, FS_AddElement DEF LiveOK
  <2> QED
    BY <1>1, <1>5, <2>1, <2>2, <2>3 DEF LiveOK
<1>8. BookedKnown'
  BY <1>3, <1>4 DEF CountInv, BookedKnown
<1> QED
  BY <1>1, <1>7, <1>8 DEF CountInv

LEMMA BookNothingCounts ==
  ASSUME IInv, CountInv, NEW h \in Handler, BookNothing(h)
  PROVE  CountInv'
<1>0. UNCHANGED <<stage, owner, buyer>>
  BY DEF BookNothing, paymentVars, earningVars
<1>1. /\ \A q \in Student \X Student :
           purchases'[q] = IF q = Pair(h) THEN purchases[q] + 1 ELSE purchases[q]
      /\ \A q \in Student \X Student : StatusOK(q)'
      /\ BooksTrue'
  BY <1>0, BumpCounts DEF BookNothing
<1>2. \A q \in Student \X Student : Live(q)' = Live(q)
  BY <1>0 DEF Live
<1>3. ASSUME NEW q \in Student \X Student PROVE LiveOK(q)'
  <2>1. LiveOK(q) /\ purchases[q] \in Int
    BY DEF CountInv, IInv, TypeOK, LinkOK
  <2>2. PICK L : L = Live(q)
    OBVIOUS
  <2>3. Cardinality(L) \in Nat
    BY <2>1, <2>2, FS_CardinalityType DEF LiveOK
  <2> QED
    BY <1>1, <1>2, <2>1, <2>2, <2>3 DEF LiveOK
<1>4. BookedKnown'
  BY <1>0 DEF CountInv, BookedKnown
<1> QED
  BY <1>1, <1>3, <1>4 DEF CountInv

\* A commission is taken back: it was live, so its pair counts at least one.
LEMMA TakeBackCounts ==
  ASSUME IInv, CountInv, NEW h \in Handler, TakeBack(h)
  PROVE  CountInv'
<1>1. PICK p \in Payment : p = handler[h].p
  BY Carries DEF TakeBack, Reversing
<1>2. stage[p] \in {"PENDING", "AVAILABLE"}
  BY <1>1, Carries DEF TakeBack, Unchanged, Reversing
<1>3. owner[p] \in Student /\ buyer[p] \in Student
  BY <1>2 DEF CountInv, BookedKnown
<1>4. PICK k \in Student \X Student : k = <<owner[p], buyer[p]>>
  BY <1>3
<1>5. /\ stage'[p] = "REVERSED" /\ \A x \in Payment : x # p => stage'[x] = stage[x]
      /\ UNCHANGED <<owner, buyer, demoted>>
  BY <1>1 DEF TakeBack, IInv, TypeOK, EarningOK
<1>6. /\ purchases \in [Student \X Student -> Int]
      /\ refStatus \in [Student \X Student -> {"none", "PENDING"} \cup Paying]
  BY DEF IInv, TypeOK, LinkOK
<1>7. PICK last \in BOOLEAN : last <=> refStatus[k] = "PAIDED" /\ purchases[k] - 1 <= 0
  OBVIOUS
<1>8. \A q \in Student \X Student :
        /\ purchases'[q] = IF q = k THEN (IF last THEN 0 ELSE purchases[q] - 1) ELSE purchases[q]
        /\ refStatus'[q] = IF q = k /\ last THEN "PENDING" ELSE refStatus[q]
  <2>1. /\ purchases' = [purchases EXCEPT ![k] = IF last THEN 0 ELSE purchases[k] - 1]
        /\ refStatus' = IF last THEN [refStatus EXCEPT ![k] = "PENDING"] ELSE refStatus
    BY <1>1, <1>4, <1>6, <1>7 DEF TakeBack, LastPurchase
  <2> QED
    BY <1>6, <2>1
<1>9. ASSUME NEW q \in Student \X Student
      PROVE  Live(q)' = IF q = k THEN Live(q) \ {p} ELSE Live(q)
  <2>1. q = k <=> q[1] = owner[p] /\ q[2] = buyer[p]
    BY <1>4
  <2>2. \A x \in Payment : x \in Live(q)' <=> x \in Live(q) /\ ~(x = p /\ q = k)
    BY <1>2, <1>5, <2>1 DEF Live
  <2>3. \A x \in Payment : x = p /\ x \in Live(q) => q = k
    BY <2>1 DEF Live
  <2>4. Live(q) \subseteq Payment /\ Live(q)' \subseteq Payment
    BY DEF Live
  <2> QED
    BY <2>2, <2>3, <2>4
<1>10. p \in Live(k)
  BY <1>2, <1>4 DEF Live
<1>11. PICK L : L = Live(k)
  OBVIOUS
<1>12. /\ IsFiniteSet(L) /\ Cardinality(L) \in Nat /\ purchases[k] >= Cardinality(L) /\ purchases[k] \in Int
       /\ IsFiniteSet(L \ {p}) /\ Cardinality(L \ {p}) = Cardinality(L) - 1
       /\ Cardinality(L \ {p}) \in Nat
  <2>1. IsFiniteSet(L) /\ purchases[k] >= Cardinality(L) /\ purchases[k] \in Int
    BY <1>6, <1>11 DEF CountInv, LiveOK
  <2>2. IsFiniteSet(L \ {p}) /\ Cardinality(L \ {p}) = Cardinality(L) - 1
    BY <1>10, <1>11, <2>1, FS_RemoveElement
  <2> QED
    BY <2>1, <2>2, FS_CardinalityType
<1>13. ASSUME NEW q \in Student \X Student PROVE LiveOK(q)'
  <2>1. CASE q = k
    <3>1. Live(q)' = L \ {p}
      BY <1>9, <1>11, <2>1
    <3>2. purchases'[q] >= Cardinality(L \ {p})
      <4>1. purchases'[q] = IF last THEN 0 ELSE purchases[k] - 1
        BY <1>8, <2>1
      <4>2. last => purchases[k] - 1 <= 0
        BY <1>7
      <4> QED
        BY <1>12, <4>1, <4>2
    <3> QED
      BY <1>12, <3>1, <3>2 DEF LiveOK
  <2>2. CASE q # k
    <3>1. LiveOK(q)
      BY DEF CountInv
    <3> QED
      BY <1>8, <1>9, <2>2, <3>1 DEF LiveOK
  <2> QED
    BY <2>1, <2>2
<1>14. ASSUME NEW q \in Student \X Student PROVE StatusOK(q)'
  <2>1. StatusOK(q) /\ purchases[q] \in Int
    BY <1>6 DEF CountInv
  <2>2. CASE q # k
    BY <1>5, <1>8, <2>1, <2>2 DEF StatusOK
  <2>3. CASE q = k
    <3>1. purchases[k] >= 1
      BY <1>12
    <3> QED
      BY <1>5, <1>7, <1>8, <2>1, <2>3, <3>1 DEF StatusOK
  <2> QED
    BY <2>2, <2>3
<1>15. BookedKnown'
  BY <1>2, <1>5 DEF CountInv, BookedKnown
<1>16. BooksTrue'
  <2> SUFFICES ASSUME NEW g \in Handler, At(g, "book")'
               PROVE  /\ buyer'[handler'[g].p] = handler'[g].f
                      /\ handler'[g].seen = "REWARDED" /\ Pair(g)' \notin demoted' => refStatus'[Pair(g)'] = "REWARDED"
    BY DEF BooksTrue
  <2>1. BooksGoOn
    BY NoNewBook DEF TakeBack, End, Idle
  <2>2. handler'[g] = handler[g] /\ At(g, "book") /\ Pair(g)' = Pair(g)
    BY <2>1 DEF BooksGoOn, At, Pair
  <2>3. /\ buyer[handler[g].p] = handler[g].f
        /\ handler[g].seen = "REWARDED" /\ Pair(g) \notin demoted => refStatus[Pair(g)] = "REWARDED"
    BY <2>2 DEF CountInv, BooksTrue
  <2>4. Pair(g) \in Student \X Student
    BY <2>2, Carries DEF At, WithFriend, Pair
  <2>5. refStatus[Pair(g)] = "REWARDED" => refStatus'[Pair(g)] = "REWARDED"
    BY <1>7, <1>8, <2>4
  <2> QED
    BY <1>5, <2>2, <2>3, <2>5
<1> QED
  BY <1>13, <1>14, <1>15, <1>16 DEF CountInv

\* A purchase is read: the friend paid, and the status is the one of the row.
LEMMA CreditReadCounts ==
  ASSUME IInv, CountInv, NEW h \in Handler, NEW p \in Payment, CreditRead(h, p)
  PROVE  CountInv'
<1>0. UNCHANGED <<refStatus, purchases, demoted, owner, buyer, stage>>
  BY DEF CreditRead, linkVars, referralVars, earningVars
<1>1. CASE UNCHANGED handler
  BY <1>0, <1>1, SameBooks, CountSame
<1>2. CASE ~UNCHANGED handler
  <2>1. PICK w : /\ Become(h, w)
                 /\ w.p = p /\ w.f = buyer[p] /\ w.seen = refStatus[<<w.r, w.f>>]
    <3> DEFINE f == buyer[p]
               r == referredBy[f]
               amt == Commission[p][Tier(r, f)]
               flag == <<r, f>> \in flagged \/ p \in SameDevice
               yes == ~paused[r]
               w == [pc |-> "book", p |-> p, f |-> f, r |-> r, amt |-> amt, seen |-> refStatus[<<r, f>>],
                     flag |-> flag, yes |-> yes, todo |-> {}]
    <3>1. Become(h, w)
      BY <1>2 DEF CreditRead
    <3> HIDE DEF amt, flag, yes
    <3>2. w.p = p /\ w.f = buyer[p] /\ w.seen = refStatus[<<w.r, w.f>>]
      OBVIOUS
    <3> QED
      BY <3>1, <3>2
  <2>2. \A g \in Handler : handler'[g] = IF g = h THEN w ELSE handler[g]
    BY <2>1 DEF IInv, TypeOK, Become
  <2>3. ASSUME NEW g \in Handler, At(g, "book")'
        PROVE  /\ buyer'[handler'[g].p] = handler'[g].f
               /\ handler'[g].seen = "REWARDED" /\ Pair(g)' \notin demoted' => refStatus'[Pair(g)'] = "REWARDED"
    <3>1. CASE g = h
      BY <1>0, <2>1, <2>2, <3>1 DEF Pair
    <3>2. CASE g # h
      <4>1. handler'[g] = handler[g] /\ At(g, "book") /\ Pair(g)' = Pair(g)
        BY <2>2, <2>3, <3>2 DEF At, Pair
      <4>2. /\ buyer[handler[g].p] = handler[g].f
            /\ handler[g].seen = "REWARDED" /\ Pair(g) \notin demoted => refStatus[Pair(g)] = "REWARDED"
        BY <4>1 DEF CountInv, BooksTrue
      <4> QED
        BY <1>0, <4>1, <4>2
    <3> QED
      BY <3>1, <3>2
  <2>4. BooksTrue'
    BY <2>3 DEF BooksTrue
  <2>5. \A k \in Student \X Student : Live(k)' = Live(k)
    BY <1>0 DEF Live
  <2>6. \A k \in Student \X Student : LiveOK(k)' /\ StatusOK(k)'
    BY <1>0, <2>5 DEF CountInv, LiveOK, StatusOK
  <2>7. BookedKnown'
    BY <1>0 DEF CountInv, BookedKnown
  <2> QED
    BY <2>4, <2>6, <2>7 DEF CountInv
<1> QED
  BY <1>1, <1>2

\* A friend pays: the payment was not booked before.
LEMMA PayCounts ==
  ASSUME IInv, CountInv, NEW p \in Payment, NEW f \in Student, Pay(p, f)
  PROVE  CountInv'
<1>0. UNCHANGED <<refStatus, purchases, demoted, owner, stage, handler>>
  BY DEF Pay, linkVars, referralVars, earningVars
<1>1. buyer[p] = None /\ None \notin Student
  BY ReferralAssumption DEF Pay
<1>2. stage[p] = "none"
  BY <1>1 DEF CountInv, BookedKnown
<1>3. \A x \in Payment : buyer'[x] = IF x = p THEN f ELSE buyer[x]
  BY DEF Pay, IInv, TypeOK, PaymentOK
<1>4. \A k \in Student \X Student : Live(k)' = Live(k)
  BY <1>0, <1>2, <1>3 DEF Live
<1>5. \A k \in Student \X Student : LiveOK(k)' /\ StatusOK(k)'
  BY <1>0, <1>4 DEF CountInv, LiveOK, StatusOK
<1>6. BookedKnown'
  BY <1>0, <1>2, <1>3 DEF CountInv, BookedKnown
<1>7. ASSUME NEW g \in Handler, At(g, "book")
      PROVE  /\ buyer'[handler[g].p] = handler[g].f
             /\ handler[g].seen = "REWARDED" /\ Pair(g) \notin demoted => refStatus[Pair(g)] = "REWARDED"
  <2>1. handler[g].p \in Payment /\ handler[g].f \in Student
    BY <1>7, Carries DEF At, WithFriend
  <2>2. /\ buyer[handler[g].p] = handler[g].f
        /\ handler[g].seen = "REWARDED" /\ Pair(g) \notin demoted => refStatus[Pair(g)] = "REWARDED"
    BY <1>7 DEF CountInv, BooksTrue
  <2> QED
    BY <1>1, <1>3, <2>1, <2>2
<1>8. BooksTrue'
  BY <1>0, <1>7 DEF BooksTrue, At, Pair
<1> QED
  BY <1>5, <1>6, <1>8 DEF CountInv

LEMMA NextCount == ASSUME IInv, CountInv, [Next]_vars PROVE CountInv'
\* A step that leaves pairs and commissions alone and books nothing new.
<1>q. ASSUME UNCHANGED <<refStatus, purchases, demoted, owner, buyer, stage>>, BooksGoOn PROVE CountInv'
  BY <1>q, CountSame
<1>1. ASSUME NEW h \in Handler, NEW w, Become(h, w), w.pc # "book",
             UNCHANGED <<refStatus, purchases, demoted, owner, buyer, stage>>
      PROVE  CountInv'
  BY <1>1, <1>q, NoNewBook
<1>2. ASSUME NEW h \in Handler, End(h), UNCHANGED <<refStatus, purchases, demoted, owner, buyer, stage>>
      PROVE  CountInv'
  BY <1>1, <1>2 DEF End, Idle
<1>3. ASSUME NEW h \in Handler, NEW pc \in Step \ {"book"}, GoTo(h, pc),
             UNCHANGED <<refStatus, purchases, demoted, owner, buyer, stage>>
      PROVE  CountInv'
  <2>1. [handler[h] EXCEPT !.pc = pc].pc = pc
    BY Carries DEF HandlerType
  <2> QED
    BY <1>1, <1>3, <2>1 DEF GoTo
<1>s. ASSUME UNCHANGED <<refStatus, purchases, demoted, owner, buyer, stage, handler>> PROVE CountInv'
  BY <1>s, <1>q, SameBooks
<1>4. ASSUME NEW h \in Handler, Start(h) PROVE CountInv'
  <2>1. UNCHANGED <<refStatus, purchases, demoted, owner, buyer, stage>>
    BY <1>4 DEF Start, ApplyRead, Tick, CreditRead, ApproveRead, RefundHook, ReverseRead, ReleaseUserNow,
                RequestWithdrawal, ReadOnly, linkVars, referralVars, paymentVars, earningVars
  <2>2. CASE ApplyRead(h) \/ Tick(h) \/ \E p \in Payment : ApproveRead(h, p)
    BY <1>1, <2>1, <2>2 DEF ApplyRead, Tick, ApproveRead, Idle
  <2>3. ASSUME NEW p \in Payment, RefundHook(h, p) \/ ReverseRead(h, p) PROVE CountInv'
    BY <1>1, <1>s, <2>1, <2>3 DEF RefundHook, ReverseRead, Idle
  <2>4. ASSUME NEW r \in Referrer, ReleaseUserNow(h, r) \/ RequestWithdrawal(h, r) PROVE CountInv'
    BY <1>1, <2>1, <2>4 DEF ReleaseUserNow, RequestWithdrawal, Idle
  <2> QED
    BY <1>4, <2>2, <2>3, <2>4, CreditReadCounts DEF Start
<1>5. ASSUME NEW h \in Handler, ApplyWrite(h) PROVE CountInv'
  <2>1. BooksGoOn
    BY <1>5, NoNewBook DEF ApplyWrite, End, Idle
  <2>2. CASE UNCHANGED linkVars
    BY <1>5, <1>q, <2>1, <2>2 DEF ApplyWrite, linkVars, referralVars, paymentVars, earningVars
  <2>3. CASE ~UNCHANGED linkVars
    <3>1. PICK k \in Student \X Student : k = Pair(h)
      BY <1>5, Carries DEF ApplyWrite, At, WithFriend, Pair
    <3>2. /\ refStatus[k] = "none" /\ refStatus' = [refStatus EXCEPT ![k] = "PENDING"]
          /\ UNCHANGED <<purchases, demoted, owner, buyer, stage>>
      BY <1>5, <2>3, <3>1 DEF ApplyWrite, Pair, paymentVars, earningVars
    <3>3. refStatus \in [Student \X Student -> {"none", "PENDING"} \cup Paying]
      BY DEF IInv, TypeOK, LinkOK
    <3> QED
      BY <2>1, <3>2, <3>3, CountStatus
  <2> QED
    BY <2>2, <2>3
<1>6. ASSUME NEW h \in Handler, Reward(h) PROVE CountInv'
  <2>1. PICK k \in Student \X Student : k = Pair(h)
    BY <1>6, Carries DEF Reward, At, WithFriend, Pair
  <2>2. /\ refStatus' = [refStatus EXCEPT ![k] = "REWARDED"]
        /\ UNCHANGED <<purchases, demoted, owner, buyer, stage>>
    BY <1>6, <2>1 DEF Reward, RewardStep, Pair, paymentVars, earningVars
  <2>3. refStatus \in [Student \X Student -> {"none", "PENDING"} \cup Paying]
    BY DEF IInv, TypeOK, LinkOK
  <2>4. [handler[h] EXCEPT !.pc = "grant"].pc = "grant"
    BY Carries DEF HandlerType
  <2>5. BooksGoOn
    BY <1>6, <2>4, NoNewBook DEF Reward, GoTo
  <2> QED
    BY <2>2, <2>3, <2>5, CountStatus
<1>7. ASSUME NEW h \in Handler, NEW p \in Payment, ReleaseOne(h, p) PROVE CountInv'
  <2>1. [handler[h] EXCEPT !.todo = @ \ {p}].pc = handler[h].pc
    BY Carries DEF HandlerType
  <2>2. BooksGoOn
    BY <1>7, <2>1, NoNewBook DEF ReleaseOne
  <2>3. UNCHANGED <<refStatus, purchases, demoted, owner, buyer>>
    BY <1>7 DEF ReleaseOne, linkVars, referralVars, paymentVars
  <2>4. ASSUME NEW x \in Payment
        PROVE  /\ stage'[x] \in {"PENDING", "AVAILABLE"} <=> stage[x] \in {"PENDING", "AVAILABLE"}
               /\ stage'[x] # "none" => stage[x] # "none"
    BY <1>7 DEF ReleaseOne, Releasable, IInv, TypeOK, EarningOK
  <2> QED
    BY <2>2, <2>3, <2>4, CountSame
<1>8. ASSUME NEW h \in Handler, MilestoneRead(h) PROVE CountInv'
  <2>1. UNCHANGED <<refStatus, purchases, demoted, owner, buyer, stage>>
    BY <1>8 DEF MilestoneRead, RewardStep, referralVars, paymentVars, earningVars
  <2>2. CASE End(h)
    BY <1>2, <2>1, <2>2
  <2>3. CASE ~End(h)
    <3> DEFINE up == PayingFriends(handler[h].r) >= FreeUpgradeAt
               pc == IF ~monthClaimed[handler[h].r] /\ PayingFriends(handler[h].r) >= FreeMonthAt
                     THEN "month" ELSE "upgrade"
               w == [handler[h] EXCEPT !.pc = pc, !.yes = up]
    <3>1. Become(h, w)
      BY <1>8, <2>3 DEF MilestoneRead
    <3>2. pc \in {"month", "upgrade"}
      OBVIOUS
    <3> HIDE DEF pc, up
    <3>3. w.pc = pc
      BY Carries DEF HandlerType
    <3> QED
      BY <1>1, <2>1, <3>1, <3>2, <3>3
  <2> QED
    BY <2>2, <2>3
<1>9. ASSUME NEW h \in Handler, ClaimMonth(h) \/ GrantMonth(h) \/ UpgradeRead(h) \/ GrantUpgrade(h) \/ NoteUpgrade(h)
      PROVE  CountInv'
  <2>1. UNCHANGED <<refStatus, purchases, demoted, owner, buyer, stage>>
    BY <1>9 DEF ClaimMonth, GrantMonth, UpgradeRead, GrantUpgrade, NoteUpgrade, RewardStep, referralVars,
                paymentVars, earningVars
  <2>2. End(h) \/ \E pc \in {"reward", "upgrade", "grantUp", "note"} : GoTo(h, pc)
    BY <1>9 DEF ClaimMonth, GrantMonth, UpgradeRead, GrantUpgrade, NoteUpgrade, AfterMonth
  <2> QED
    BY <1>2, <1>3, <2>1, <2>2 DEF Step
<1>10. ASSUME NEW h \in Handler, Progress(h) PROVE CountInv'
  <2>1. CASE BookRefused(h) \/ Released(h) \/ TooLate(h) \/ Draw(h)
    BY <2>1, <1>2 DEF BookRefused, Released, ReadOnly, TooLate, Draw, linkVars, referralVars, paymentVars, earningVars
  <2>2. CASE CountFriends(h)
    BY <2>2, <1>2, <1>3 DEF CountFriends, ReadOnly, Step, linkVars, referralVars, paymentVars, earningVars
  <2>3. CASE ApproveWrite(h)
    BY <2>3, <1>1 DEF ApproveWrite, Idle, linkVars, referralVars, paymentVars
  <2> QED
    BY <1>5, <1>6, <1>7, <1>8, <1>9, <1>10, <2>1, <2>2, <2>3, BookCounts, BookNothingCounts, TakeBackCounts
       DEF Progress
<1>11. ASSUME NEW h \in Handler, Crash(h) PROVE CountInv'
  BY <1>2, <1>11 DEF Crash, linkVars, referralVars, paymentVars, earningVars
<1>12. CASE UNCHANGED vars
  BY <1>12, <1>s DEF vars, linkVars, referralVars, paymentVars, earningVars
<1>13. CASE \/ \E p \in Payment : HoldEnds(p) \/ Refund(p)
            \/ \E r \in Referrer : Settle(r) \/ SetPaused(r)
  BY <1>13, <1>s DEF HoldEnds, Refund, Settle, SetPaused, linkVars, referralVars, paymentVars, earningVars
<1> QED
  BY <1>4, <1>10, <1>11, <1>12, <1>13, PayCounts DEF Next

\* Refunds, reversals and purchases of one friend meet on one row in any order:
\* no live commission is left out of its count, a friend who counts as paying
\* has a counted purchase, and one who does not has none, unless a purchase
\* overwrote REWARDED with what it had read before (bump, reverseEarning).
THEOREM FriendsCountedAlways == Spec => []FriendsCounted
<1>1. Init => CountInv
  BY CountInit
<1>2. IInv /\ CountInv /\ [Next]_vars => CountInv'
  BY NextCount
<1>3. CountInv => FriendsCounted
  BY DEF CountInv, LiveOK, StatusOK, FriendsCounted
<1> QED
  BY Inductive, <1>1, <1>2, <1>3, PTL DEF Spec

-----------------------------------------------------------------------------
(* Sums over finite sets.  A fact about every finite set is proved from a    *)
(* smallest set of which it does not hold.                                   *)

First(S) == CHOOSE p \in S : TRUE
Rest(S) == S \ {First(S)}

\* g[S] is the sum of a over S, for the subsets S of T.
IsSum(g, a, T) == g = [S \in SUBSET T |-> IF S = {} THEN 0 ELSE a[First(S)] + g[Rest(S)]]
Total(a, T) == (CHOOSE g : IsSum(g, a, T))[T]

LEMMA SumIsTotal == ASSUME NEW S PROVE SumOf(S) = Total(amount, S)
BY Zenon DEF SumOf, Total, IsSum, First, Rest, MapThenSumSet, MapThenFoldSet

LEMMA RestOf == ASSUME NEW S, S # {} PROVE First(S) \in S /\ Rest(S) \in SUBSET S /\ Rest(S) # S
BY DEF First, Rest

LEMMA Smallest ==
  ASSUME NEW T, IsFiniteSet(T), NEW Bad, Bad \subseteq SUBSET T, Bad # {}
  PROVE  \E S \in Bad : \A U \in Bad : U \subseteq S => U = S
<1> DEFINE R == StrictSubsetOrdering(T)
<1>1. IsWellFoundedOn(R, FiniteSubsetsOf(T))
  BY FS_StrictSubsetOrderingWellFounded
<1>2. Bad \subseteq FiniteSubsetsOf(T)
  BY FS_Subset DEF FiniteSubsetsOf
<1>3. PICK S \in Bad : \A U \in Bad : ~(<<U, S>> \in R)
  <2> HIDE DEF R
  <2> QED
    BY <1>1, <1>2, WFMin, Zenon
<1>4. ASSUME NEW U \in Bad, U \subseteq S, U # S PROVE <<U, S>> \in R
  BY <1>4 DEF StrictSubsetOrdering
<1> HIDE DEF R
<1>5. ASSUME NEW U \in Bad, U \subseteq S PROVE U = S
  BY <1>3, <1>4, <1>5
<1> QED
  BY <1>5

LEMMA SumsAgree ==
  ASSUME NEW g, NEW h, NEW a, NEW b, NEW T, NEW V, IsFiniteSet(V), V \in SUBSET T,
         IsSum(g, a, T), IsSum(h, b, V), \A p \in V : a[p] = b[p]
  PROVE  g[V] = h[V]
<1> DEFINE Bad == {S \in SUBSET V : g[S] # h[S]}
<1>1. ASSUME NEW S \in Bad PROVE Rest(S) \in Bad /\ Rest(S) \subseteq S /\ Rest(S) # S
  <2>1. S \in SUBSET V /\ g[S] # h[S] /\ S \in SUBSET T
    BY <1>1
  <2>2. /\ g[S] = IF S = {} THEN 0 ELSE a[First(S)] + g[Rest(S)]
        /\ h[S] = IF S = {} THEN 0 ELSE b[First(S)] + h[Rest(S)]
    BY <2>1, Zenon DEF IsSum
  <2>3. S # {}
    BY <2>1, <2>2
  <2>4. First(S) \in S /\ Rest(S) \in SUBSET S /\ Rest(S) # S
    BY <2>3, RestOf
  <2>5. a[First(S)] = b[First(S)]
    BY <2>1, <2>4
  <2>6. g[Rest(S)] # h[Rest(S)]
    BY <2>1, <2>2, <2>3, <2>5
  <2> QED
    BY <2>1, <2>4, <2>6
<1>2. CASE Bad = {}
  BY <1>2
<1>3. CASE Bad # {}
  <2>0. Bad \subseteq SUBSET V
    OBVIOUS
  <2> HIDE DEF Bad
  <2>1. PICK S \in Bad : \A W \in Bad : W \subseteq S => W = S
    BY <1>3, <2>0, Smallest
  <2> QED
    BY <1>1, <2>1
<1> QED
  BY <1>2, <1>3

LEMMA SumWithin ==
  ASSUME NEW g, NEW h, NEW a, NEW T, NEW V, IsFiniteSet(V), V \in SUBSET T, IsSum(g, a, T), IsSum(h, a, V)
  PROVE  g[V] = h[V]
<1>1. \A p \in V : a[p] = a[p]
  OBVIOUS
<1> QED
  BY <1>1, SumsAgree

LEMMA SumExists == ASSUME NEW a, NEW T, IsFiniteSet(T) PROVE \E g : IsSum(g, a, T)
<1> DEFINE Bad == {S \in SUBSET T : ~\E g : IsSum(g, a, S)}
           G(S) == CHOOSE g : IsSum(g, a, S)
<1> SUFFICES ASSUME Bad # {} PROVE FALSE
  OBVIOUS
<1>1. PICK V \in Bad : \A W \in Bad : W \subseteq V => W = V
  <2>1. Bad \subseteq SUBSET T
    OBVIOUS
  <2> HIDE DEF Bad
  <2> QED
    BY <2>1, Smallest
<1>2. V \in SUBSET T /\ ~\E g : IsSum(g, a, V)
  BY <1>1
<1>3. ASSUME NEW S \in SUBSET V, S # V PROVE IsSum(G(S), a, S)
  <2>1. \E g : IsSum(g, a, S)
    BY <1>1, <1>3, Zenon
  <2> QED
    BY <2>1, Zenon
<1> HIDE DEF Bad, G
<1> DEFINE f(S) == IF S = {} THEN 0 ELSE a[First(S)] + G(Rest(S))[Rest(S)]
           h == [S \in SUBSET V |-> f(S)]
<1>4. ASSUME NEW S \in SUBSET V, S # V PROVE G(S)[S] = f(S)
  <2>1. IsSum(G(S), a, S)
    BY <1>3, <1>4
  <2>2. G(S)[S] = IF S = {} THEN 0 ELSE a[First(S)] + G(S)[Rest(S)]
    BY <2>1, Zenon DEF IsSum
  <2>3. CASE S # {}
    <3>1. Rest(S) \in SUBSET S /\ Rest(S) # S
      BY <2>3, RestOf
    <3>2. Rest(S) \in SUBSET V /\ Rest(S) # V
      BY <1>4, <3>1
    <3>3. IsSum(G(Rest(S)), a, Rest(S)) /\ IsFiniteSet(Rest(S))
      BY <1>2, <1>3, <3>2, FS_Subset
    <3>4. G(S)[Rest(S)] = G(Rest(S))[Rest(S)]
      BY <2>1, <3>1, <3>3, SumWithin
    <3> QED
      BY <2>2, <2>3, <3>4
  <2> QED
    BY <2>2, <2>3
<1>5. ASSUME NEW S \in SUBSET V PROVE f(S) = IF S = {} THEN 0 ELSE a[First(S)] + h[Rest(S)]
  <2>1. CASE S # {}
    <3>1. Rest(S) \in SUBSET S /\ Rest(S) # S
      BY <2>1, RestOf
    <3>2. Rest(S) \in SUBSET V /\ Rest(S) # V
      BY <1>5, <3>1
    <3>3. h[Rest(S)] = f(Rest(S))
      BY <3>2
    <3>4. h[Rest(S)] = G(Rest(S))[Rest(S)]
      BY <1>4, <3>2, <3>3
    <3> QED
      BY <2>1, <3>4
  <2> QED
    BY <2>1
<1>6. IsSum(h, a, V)
  <2> HIDE DEF f
  <2>1. h = [S \in SUBSET V |-> IF S = {} THEN 0 ELSE a[First(S)] + h[Rest(S)]]
    BY <1>5
  <2> HIDE DEF h
  <2> QED
    BY <2>1 DEF IsSum
<1> QED
  BY <1>2, <1>6

LEMMA TotalIs ==
  ASSUME NEW a, NEW T, IsFiniteSet(T)
  PROVE  Total(a, T) = IF T = {} THEN 0 ELSE a[First(T)] + Total(a, Rest(T))
<1> DEFINE g == CHOOSE g : IsSum(g, a, T)
           h == CHOOSE h : IsSum(h, a, Rest(T))
<1>1. IsSum(g, a, T)
  BY SumExists, Zenon
<1>2. IsFiniteSet(Rest(T)) /\ Rest(T) \in SUBSET T
  BY FS_Subset DEF Rest
<1>3. IsSum(h, a, Rest(T))
  BY <1>2, SumExists, Zenon
<1>4. Total(a, T) = g[T] /\ Total(a, Rest(T)) = h[Rest(T)]
  BY DEF Total
<1> HIDE DEF g, h
<1>5. g[Rest(T)] = h[Rest(T)]
  BY <1>1, <1>2, <1>3, SumWithin
<1>6. g[T] = IF T = {} THEN 0 ELSE a[First(T)] + g[Rest(T)]
  BY <1>1, Zenon DEF IsSum
<1> QED
  BY <1>4, <1>5, <1>6

\* A sum of integers is one, and any element may be taken out of it first.
LEMMA TotalOf ==
  ASSUME NEW T, IsFiniteSet(T), NEW a, \A p \in T : a[p] \in Int
  PROVE  Total(a, T) \in Int /\ \A p \in T : Total(a, T) = a[p] + Total(a, T \ {p})
<1> DEFINE Fine(S) == Total(a, S) \in Int /\ \A p \in S : Total(a, S) = a[p] + Total(a, S \ {p})
           Bad == {S \in SUBSET T : ~Fine(S)}
<1> SUFFICES ASSUME Bad # {} PROVE FALSE
  OBVIOUS
<1>1. PICK S \in Bad : \A W \in Bad : W \subseteq S => W = S
  <2>1. Bad \subseteq SUBSET T
    OBVIOUS
  <2> HIDE DEF Bad
  <2> QED
    BY <2>1, Smallest
<1>2. S \in SUBSET T /\ ~Fine(S) /\ IsFiniteSet(S)
  BY <1>1, FS_Subset
<1>3. ASSUME NEW W \in SUBSET S, W # S PROVE Fine(W)
  BY <1>1, <1>2, <1>3
<1> HIDE DEF Bad
<1>4. S # {}
  <2> SUFFICES ASSUME S = {} PROVE FALSE
    OBVIOUS
  <2>1. Total(a, S) = 0
    BY <1>2, TotalIs
  <2> QED
    BY <1>2, <2>1
<1> DEFINE x == First(S)
           R == S \ {x}
<1>5. x \in S /\ a[x] \in Int /\ R \in SUBSET S /\ R # S
  BY <1>2, <1>4, RestOf
<1>6. Total(a, S) = a[x] + Total(a, R)
  BY <1>2, <1>4, TotalIs DEF Rest
<1> HIDE DEF x
<1>7. Fine(R)
  <2> HIDE DEF Fine
  <2> QED
    BY <1>3, <1>5
<1>8. Total(a, R) \in Int /\ Total(a, S) \in Int
  BY <1>5, <1>6, <1>7
<1>9. ASSUME NEW p \in S PROVE Total(a, S) = a[p] + Total(a, S \ {p})
  <2>1. CASE p = x
    BY <1>6, <2>1
  <2>2. CASE p # x
    <3> DEFINE Q == S \ {p}
               B == R \ {p}
    <3>1. p \in R /\ a[p] \in Int /\ Q \in SUBSET S /\ Q # S /\ x \in Q /\ Q \ {x} = B /\ B \in SUBSET S /\ B # S
      BY <1>2, <1>5, <2>2
    <3>2. Total(a, R) = a[p] + Total(a, B)
      BY <1>7, <3>1
    <3>3. Fine(Q) /\ Fine(B)
      <4> HIDE DEF Fine
      <4> QED
        BY <1>3, <3>1
    <3>4. Total(a, Q) = a[x] + Total(a, Q \ {x}) /\ Total(a, B) \in Int
      BY <3>1, <3>3
    <3>5. Total(a, Q) = a[x] + Total(a, B)
      BY <3>1, <3>4
    <3> HIDE DEF Q, B, R
    <3>6. Total(a, S) = a[p] + Total(a, Q)
      BY <1>5, <1>6, <3>1, <3>2, <3>4, <3>5
    <3> QED
      BY <3>6 DEF Q
  <2> QED
    BY <2>1, <2>2
<1> QED
  BY <1>2, <1>8, <1>9

LEMMA TotalSame ==
  ASSUME NEW T, IsFiniteSet(T), NEW a, NEW b, \A p \in T : a[p] = b[p]
  PROVE  Total(a, T) = Total(b, T)
<1> DEFINE g == CHOOSE g : IsSum(g, a, T)
           h == CHOOSE h : IsSum(h, b, T)
<1>1. IsSum(g, a, T) /\ IsSum(h, b, T)
  BY SumExists, Zenon
<1>2. Total(a, T) = g[T] /\ Total(b, T) = h[T]
  BY DEF Total
<1> HIDE DEF g, h
<1>3. g[T] = h[T]
  <2>1. T \in SUBSET T
    OBVIOUS
  <2> QED
    BY <1>1, <2>1, SumsAgree
<1> QED
  BY <1>2, <1>3

\* A payment more, or none.
LEMMA TotalWithout ==
  ASSUME NEW T, IsFiniteSet(T), NEW a, \A p \in T : a[p] \in Int, NEW q
  PROVE  Total(a, T) = Total(a, T \ {q}) + (IF q \in T THEN a[q] ELSE 0) /\ Total(a, T \ {q}) \in Int
<1>1. IsFiniteSet(T \ {q}) /\ \A p \in T \ {q} : a[p] \in Int
  BY FS_Subset
<1>2. Total(a, T \ {q}) \in Int
  BY <1>1, TotalOf
<1>3. CASE q \in T
  BY <1>2, <1>3, TotalOf
<1>4. CASE q \notin T
  <2>1. T \ {q} = T
    BY <1>4
  <2>2. Total(a, T \ {q}) = Total(a, T)
    BY <2>1, Zenon
  <2> QED
    BY <1>2, <1>4, <2>2
<1> QED
  BY <1>3, <1>4, <1>2

-----------------------------------------------------------------------------
(* The wallet adds up *)

Column(s, stages) == Total(amount, Owned(s, stages))

ColumnsAddUp ==
  \A s \in Student : /\ pending[s] = Column(s, {"PENDING"})
                     /\ balance[s] + drawn[s] = Column(s, {"AVAILABLE"})
                     /\ total[s] = Column(s, {"PENDING", "AVAILABLE"})

OwnedFinite == \A s \in Student : IsFiniteSet(Owned(s, {"PENDING", "AVAILABLE"}))

WalletInv == OwnedFinite /\ ColumnsAddUp

LEMMA WalletColumns == ColumnsAddUp <=> WalletAddsUp
<1>1. \A S : SumOf(S) = Total(amount, S)
  BY SumIsTotal
<1> QED
  BY <1>1 DEF ColumnsAddUp, WalletAddsUp, Column

Kind == {{"PENDING"}, {"AVAILABLE"}, {"PENDING", "AVAILABLE"}}

\* p's share of a column.
Share(p, s, stages) == IF p \in Owned(s, stages) THEN amount[p] ELSE 0

\* A step that changes one commission changes a column by that commission's
\* share of it.
LEMMA OneChanges ==
  ASSUME IInv, IInv', OwnedFinite, NEW p \in Payment, NEW s \in Student, NEW K \in Kind,
         \A q \in Payment \ {p} : amount'[q] = amount[q] /\ owner'[q] = owner[q] /\ stage'[q] = stage[q]
  PROVE  /\ IsFiniteSet(Owned(s, K)')
         /\ Column(s, K)' = Column(s, K) - Share(p, s, K) + Share(p, s, K)'
         /\ Column(s, K) \in Int /\ Share(p, s, K) \in Nat /\ Share(p, s, K)' \in Nat
<1> DEFINE S == Owned(s, K)
           T == Owned(s, K)'
           R == S \ {p}
<1>1. S \subseteq Payment /\ T \subseteq Payment /\ T \ {p} = R
  BY DEF Owned
<1>2. IsFiniteSet(S)
  <2>1. S \subseteq Owned(s, {"PENDING", "AVAILABLE"})
    BY DEF Owned, Kind
  <2> QED
    BY <2>1, FS_Subset DEF OwnedFinite
<1>3. IsFiniteSet(R) /\ IsFiniteSet(T)
  <2>1. IsFiniteSet(R) /\ IsFiniteSet(R \cup {p})
    BY <1>2, FS_Subset, FS_AddElement
  <2>2. T \subseteq R \cup {p}
    BY <1>1
  <2> QED
    BY <2>1, <2>2, FS_Subset
<1>4. (\A q \in Payment : amount[q] \in Nat) /\ (\A q \in Payment : amount'[q] \in Nat)
  BY DEF IInv, TypeOK, EarningOK
<1>5. R \subseteq Payment \ {p}
  BY <1>1
<1> HIDE DEF S, T
<1>6. Total(amount, S) = Total(amount, R) + (IF p \in S THEN amount[p] ELSE 0) /\ Total(amount, R) \in Int
  <2>1. \A q \in S : amount[q] \in Int
    BY <1>1, <1>4
  <2> QED
    BY <1>2, <2>1, TotalWithout
<1>7. Total(amount', T) = Total(amount', R) + (IF p \in T THEN amount'[p] ELSE 0)
  <2>1. \A q \in T : amount'[q] \in Int
    BY <1>1, <1>4
  <2>2. Total(amount', T) = Total(amount', T \ {p}) + (IF p \in T THEN amount'[p] ELSE 0)
    BY <1>3, <2>1, TotalWithout
  <2> QED
    BY <1>1, <2>2
<1>8. Total(amount', R) = Total(amount, R)
  <2>1. \A q \in R : amount'[q] = amount[q]
    BY <1>5
  <2> HIDE DEF R
  <2> QED
    BY <1>3, <2>1, TotalSame
<1>9. /\ Column(s, K) = Total(amount, S) /\ Column(s, K)' = Total(amount', T)
      /\ Share(p, s, K) = (IF p \in S THEN amount[p] ELSE 0)
      /\ Share(p, s, K)' = (IF p \in T THEN amount'[p] ELSE 0)
  BY DEF Column, Share, S, T, Total
<1> QED
  BY <1>3, <1>4, <1>6, <1>7, <1>8, <1>9 DEF T

\* The columns of a student whose commissions and wallet a step leaves alone.
LEMMA ColumnsSame ==
  ASSUME WalletInv, UNCHANGED <<stage, owner, amount, pending, balance, total, drawn>> PROVE WalletInv'
<1>1. ASSUME NEW s \in Student, NEW K PROVE Owned(s, K)' = Owned(s, K) /\ Column(s, K)' = Column(s, K)
  BY DEF Owned, Column, Total, IsSum
<1>2. OwnedFinite'
  BY <1>1 DEF WalletInv, OwnedFinite
<1>3. ColumnsAddUp'
  BY <1>1 DEF WalletInv, ColumnsAddUp
<1> QED
  BY <1>2, <1>3 DEF WalletInv

\* One commission changes: the columns must change by its shares.
LEMMA OneMoves ==
  ASSUME IInv, IInv', WalletInv, NEW p \in Payment,
         \A q \in Payment \ {p} : amount'[q] = amount[q] /\ owner'[q] = owner[q] /\ stage'[q] = stage[q],
         \A s \in Student :
           /\ pending'[s] = pending[s] - Share(p, s, {"PENDING"}) + Share(p, s, {"PENDING"})'
           /\ balance'[s] = balance[s] - Share(p, s, {"AVAILABLE"}) + Share(p, s, {"AVAILABLE"})'
           /\ total'[s] = total[s] - Share(p, s, {"PENDING", "AVAILABLE"}) + Share(p, s, {"PENDING", "AVAILABLE"})',
         UNCHANGED drawn
  PROVE  WalletInv'
<1>1. ASSUME NEW s \in Student, NEW K \in Kind
      PROVE  /\ IsFiniteSet(Owned(s, K)')
             /\ Column(s, K)' = Column(s, K) - Share(p, s, K) + Share(p, s, K)'
             /\ Column(s, K) \in Int /\ Share(p, s, K) \in Nat /\ Share(p, s, K)' \in Nat
  BY OneChanges DEF WalletInv
<1>2. OwnedFinite'
  BY <1>1 DEF OwnedFinite, Kind
<1>3. ASSUME NEW s \in Student
      PROVE  /\ pending'[s] = Column(s, {"PENDING"})'
             /\ balance'[s] + drawn'[s] = Column(s, {"AVAILABLE"})'
             /\ total'[s] = Column(s, {"PENDING", "AVAILABLE"})'
  <2>1. pending'[s] = Column(s, {"PENDING"})'
    <3>1. pending[s] = Column(s, {"PENDING"})
      BY DEF WalletInv, ColumnsAddUp
    <3> QED
      BY <1>1, <3>1 DEF Kind
  <2>2. balance'[s] + drawn'[s] = Column(s, {"AVAILABLE"})'
    <3>1. balance[s] + drawn[s] = Column(s, {"AVAILABLE"}) /\ balance[s] \in Int /\ drawn[s] \in Int
      BY DEF WalletInv, ColumnsAddUp, IInv, TypeOK, WalletOK
    <3>2. /\ Column(s, {"AVAILABLE"})' = Column(s, {"AVAILABLE"}) - Share(p, s, {"AVAILABLE"})
                                         + Share(p, s, {"AVAILABLE"})'
          /\ Share(p, s, {"AVAILABLE"}) \in Nat /\ Share(p, s, {"AVAILABLE"})' \in Nat
      BY <1>1 DEF Kind
    <3>3. balance'[s] = balance[s] - Share(p, s, {"AVAILABLE"}) + Share(p, s, {"AVAILABLE"})' /\ drawn' = drawn
      OBVIOUS
    <3> QED
      BY <3>1, <3>2, <3>3
  <2>3. total'[s] = Column(s, {"PENDING", "AVAILABLE"})'
    <3>1. total[s] = Column(s, {"PENDING", "AVAILABLE"})
      BY DEF WalletInv, ColumnsAddUp
    <3> QED
      BY <1>1, <3>1 DEF Kind
  <2> QED
    BY <2>1, <2>2, <2>3
<1>4. ColumnsAddUp'
  BY <1>3 DEF ColumnsAddUp
<1> QED
  BY <1>2, <1>4 DEF WalletInv

LEMMA BookAddsUp == ASSUME IInv, IInv', WalletInv, NEW p \in Payment, Ledger!Book(p) PROVE WalletInv'
<1> DEFINE r == owner'[p]
           a == amount'[p]
<1>1. /\ stage[p] = "none" /\ r \in Student /\ stage'[p] \in {"PENDING", "AVAILABLE"}
      /\ owner' = [owner EXCEPT ![p] = r] /\ amount' = [amount EXCEPT ![p] = a]
      /\ stage' = [stage EXCEPT ![p] = stage'[p]]
      /\ total' = [total EXCEPT ![r] = @ + a]
      /\ pending' = (IF stage'[p] = "PENDING" THEN [pending EXCEPT ![r] = @ + a] ELSE pending)
      /\ balance' = (IF stage'[p] = "PENDING" THEN balance ELSE [balance EXCEPT ![r] = @ + a])
      /\ UNCHANGED drawn
  BY DEF Ledger!Book
<1>2. a \in Nat
  BY DEF IInv, TypeOK, EarningOK
<1>3. \A q \in Payment \ {p} : amount'[q] = amount[q] /\ owner'[q] = owner[q] /\ stage'[q] = stage[q]
  BY <1>1 DEF IInv, TypeOK, EarningOK
<1>4. \A s \in Student, K \in Kind :
        Share(p, s, K) = 0 /\ Share(p, s, K)' = IF s = r /\ stage'[p] \in K THEN a ELSE 0
  BY <1>1 DEF Share, Owned, Kind
<1>5. ASSUME NEW s \in Student
      PROVE  /\ pending'[s] = pending[s] - Share(p, s, {"PENDING"}) + Share(p, s, {"PENDING"})'
             /\ balance'[s] = balance[s] - Share(p, s, {"AVAILABLE"}) + Share(p, s, {"AVAILABLE"})'
             /\ total'[s] = total[s] - Share(p, s, {"PENDING", "AVAILABLE"}) + Share(p, s, {"PENDING", "AVAILABLE"})'
  <2> HIDE DEF r, a
  <2>1. pending[s] \in Int /\ balance[s] \in Int /\ total[s] \in Int
    BY DEF IInv, TypeOK, WalletOK
  <2>2. /\ pending'[s] = pending[s] + (IF s = r /\ stage'[p] \in {"PENDING"} THEN a ELSE 0)
        /\ balance'[s] = balance[s] + (IF s = r /\ stage'[p] \in {"AVAILABLE"} THEN a ELSE 0)
        /\ total'[s] = total[s] + (IF s = r /\ stage'[p] \in {"PENDING", "AVAILABLE"} THEN a ELSE 0)
    BY <1>1, <1>2, <2>1 DEF IInv, TypeOK, WalletOK
  <2>3. /\ Share(p, s, {"PENDING"}) = 0 /\ Share(p, s, {"AVAILABLE"}) = 0 /\ Share(p, s, {"PENDING", "AVAILABLE"}) = 0
        /\ Share(p, s, {"PENDING"})' = IF s = r /\ stage'[p] \in {"PENDING"} THEN a ELSE 0
        /\ Share(p, s, {"AVAILABLE"})' = IF s = r /\ stage'[p] \in {"AVAILABLE"} THEN a ELSE 0
        /\ Share(p, s, {"PENDING", "AVAILABLE"})' = IF s = r /\ stage'[p] \in {"PENDING", "AVAILABLE"} THEN a ELSE 0
    BY <1>4 DEF Kind
  <2> QED
    BY <1>2, <2>1, <2>2, <2>3
<1> HIDE DEF r, a
<1> QED
  BY <1>1, <1>3, <1>5, OneMoves

LEMMA ReleaseAddsUp == ASSUME IInv, IInv', WalletInv, NEW p \in Payment, Ledger!Release(p) PROVE WalletInv'
<1> DEFINE r == owner[p]
           a == amount[p]
<1>1. /\ stage[p] = "PENDING" /\ stage' = [stage EXCEPT ![p] = "AVAILABLE"]
      /\ pending' = [pending EXCEPT ![r] = @ - a] /\ balance' = [balance EXCEPT ![r] = @ + a]
      /\ UNCHANGED <<owner, amount, total, drawn>>
  BY DEF Ledger!Release, Ledger!Takes, Ledger!Moves
<1>2. a \in Nat /\ stage'[p] = "AVAILABLE"
  BY <1>1 DEF IInv, TypeOK, EarningOK
<1>3. \A q \in Payment \ {p} : amount'[q] = amount[q] /\ owner'[q] = owner[q] /\ stage'[q] = stage[q]
  BY <1>1 DEF IInv, TypeOK, EarningOK
<1>4. \A s \in Student :
        /\ Share(p, s, {"PENDING"}) = (IF s = r THEN a ELSE 0) /\ Share(p, s, {"PENDING"})' = 0
        /\ Share(p, s, {"AVAILABLE"}) = 0 /\ Share(p, s, {"AVAILABLE"})' = (IF s = r THEN a ELSE 0)
        /\ Share(p, s, {"PENDING", "AVAILABLE"}) = (IF s = r THEN a ELSE 0)
        /\ Share(p, s, {"PENDING", "AVAILABLE"})' = (IF s = r THEN a ELSE 0)
  BY <1>1, <1>2 DEF Share, Owned
<1>5. ASSUME NEW s \in Student
      PROVE  /\ pending'[s] = pending[s] - Share(p, s, {"PENDING"}) + Share(p, s, {"PENDING"})'
             /\ balance'[s] = balance[s] - Share(p, s, {"AVAILABLE"}) + Share(p, s, {"AVAILABLE"})'
             /\ total'[s] = total[s] - Share(p, s, {"PENDING", "AVAILABLE"}) + Share(p, s, {"PENDING", "AVAILABLE"})'
  <2> HIDE DEF r, a
  <2>1. pending[s] \in Int /\ balance[s] \in Int /\ total[s] \in Int
    BY DEF IInv, TypeOK, WalletOK
  <2>2. /\ pending'[s] = pending[s] - (IF s = r THEN a ELSE 0)
        /\ balance'[s] = balance[s] + (IF s = r THEN a ELSE 0)
        /\ total'[s] = total[s]
    BY <1>1, <1>2, <2>1 DEF IInv, TypeOK, WalletOK
  <2> QED
    BY <1>2, <1>4, <2>1, <2>2
<1> HIDE DEF r, a
<1> QED
  BY <1>1, <1>3, <1>5, OneMoves

LEMMA TakeBackAddsUp == ASSUME IInv, IInv', WalletInv, NEW p \in Payment, Ledger!TakeBack(p) PROVE WalletInv'
<1> DEFINE r == owner[p]
           a == amount[p]
<1>1. /\ stage[p] \in {"PENDING", "AVAILABLE"} /\ stage' = [stage EXCEPT ![p] = "REVERSED"]
      /\ total' = [total EXCEPT ![r] = @ - a]
      /\ pending' = (IF stage[p] = "PENDING" THEN [pending EXCEPT ![r] = @ - a] ELSE pending)
      /\ balance' = (IF stage[p] = "PENDING" THEN balance ELSE [balance EXCEPT ![r] = @ - a])
      /\ UNCHANGED <<owner, amount, drawn>>
  BY DEF Ledger!TakeBack, Ledger!Takes
<1>2. a \in Nat /\ stage'[p] = "REVERSED"
  BY <1>1 DEF IInv, TypeOK, EarningOK
<1>3. \A q \in Payment \ {p} : amount'[q] = amount[q] /\ owner'[q] = owner[q] /\ stage'[q] = stage[q]
  BY <1>1 DEF IInv, TypeOK, EarningOK
<1>4. \A s \in Student :
        /\ Share(p, s, {"PENDING"}) = (IF s = r /\ stage[p] = "PENDING" THEN a ELSE 0)
        /\ Share(p, s, {"AVAILABLE"}) = (IF s = r /\ stage[p] # "PENDING" THEN a ELSE 0)
        /\ Share(p, s, {"PENDING", "AVAILABLE"}) = (IF s = r THEN a ELSE 0)
        /\ Share(p, s, {"PENDING"})' = 0 /\ Share(p, s, {"AVAILABLE"})' = 0
        /\ Share(p, s, {"PENDING", "AVAILABLE"})' = 0
  BY <1>1, <1>2 DEF Share, Owned
<1>5. ASSUME NEW s \in Student
      PROVE  /\ pending'[s] = pending[s] - Share(p, s, {"PENDING"}) + Share(p, s, {"PENDING"})'
             /\ balance'[s] = balance[s] - Share(p, s, {"AVAILABLE"}) + Share(p, s, {"AVAILABLE"})'
             /\ total'[s] = total[s] - Share(p, s, {"PENDING", "AVAILABLE"}) + Share(p, s, {"PENDING", "AVAILABLE"})'
  <2> HIDE DEF r, a
  <2>1. pending[s] \in Int /\ balance[s] \in Int /\ total[s] \in Int
    BY DEF IInv, TypeOK, WalletOK
  <2>2. /\ pending'[s] = pending[s] - (IF s = r /\ stage[p] = "PENDING" THEN a ELSE 0)
        /\ balance'[s] = balance[s] - (IF s = r /\ stage[p] # "PENDING" THEN a ELSE 0)
        /\ total'[s] = total[s] - (IF s = r THEN a ELSE 0)
    BY <1>1, <1>2, <2>1 DEF IInv, TypeOK, WalletOK
  <2> QED
    BY <1>2, <1>4, <2>1, <2>2
<1> HIDE DEF r, a
<1> QED
  BY <1>1, <1>3, <1>5, OneMoves

LEMMA DrawAddsUp == ASSUME IInv, IInv', WalletInv, NEW r \in Student, Ledger!Draw(r) PROVE WalletInv'
<1> DEFINE a == drawn'[r] - drawn[r]
<1>1. /\ balance' = [balance EXCEPT ![r] = @ - a] /\ drawn' = [drawn EXCEPT ![r] = @ + a]
      /\ UNCHANGED <<stage, owner, amount, pending, total>>
  BY DEF Ledger!Draw
<1>2. a \in Int
  BY DEF IInv, TypeOK, WalletOK
<1>3. \A s \in Student : balance'[s] + drawn'[s] = balance[s] + drawn[s]
  <2> HIDE DEF a
  <2> QED
    BY <1>1, <1>2 DEF IInv, TypeOK, WalletOK
<1>4. ASSUME NEW s \in Student, NEW K PROVE Owned(s, K)' = Owned(s, K) /\ Column(s, K)' = Column(s, K)
  BY <1>1 DEF Owned, Column, Total, IsSum
<1>5. OwnedFinite'
  BY <1>4 DEF WalletInv, OwnedFinite
<1>6. ColumnsAddUp'
  BY <1>1, <1>3, <1>4 DEF WalletInv, ColumnsAddUp
<1> QED
  BY <1>5, <1>6 DEF WalletInv

LEMMA WalletInit == Init => WalletInv
<1> SUFFICES ASSUME Init PROVE WalletInv
  OBVIOUS
<1>1. ASSUME NEW s \in Student, NEW K \in Kind PROVE IsFiniteSet(Owned(s, K)) /\ Column(s, K) = 0
  <2>1. Owned(s, K) = {}
    BY DEF Init, Owned, Kind
  <2>2. IsFiniteSet({}) /\ Total(amount, {}) = 0
    BY FS_EmptySet, TotalIs
  <2> QED
    BY <2>1, <2>2 DEF Column
<1>2. OwnedFinite
  BY <1>1 DEF OwnedFinite, Kind
<1>3. ColumnsAddUp
  BY <1>1 DEF Init, ColumnsAddUp, Kind
<1> QED
  BY <1>2, <1>3 DEF WalletInv

\* Whatever requests, jobs, admins and webhooks meet on one commission, and
\* however many payments there are: what a student's wallet shows on hold,
\* withdrawable and earned in all is the sum of that student's commissions, and
\* what left the balance is what withdrawals hold or took.
THEOREM WalletAddsUpAlways == Spec => []WalletAddsUp
<1>1. IInv /\ IInv' /\ WalletInv /\ [Next]_vars => WalletInv'
  <2> SUFFICES ASSUME IInv, IInv', WalletInv, [Next]_vars PROVE WalletInv'
    OBVIOUS
  <2>1. [Ledger!Next]_(Ledger!ledgerVars)
    BY NextLedger
  <2>2. CASE UNCHANGED Ledger!ledgerVars
    BY <2>2, ColumnsSame DEF Ledger!ledgerVars
  <2>3. CASE Ledger!Next
    BY <2>3, BookAddsUp, ReleaseAddsUp, TakeBackAddsUp, DrawAddsUp DEF Ledger!Next
  <2> QED
    BY <2>1, <2>2, <2>3
<1>2. WalletInv => WalletAddsUp
  BY WalletColumns DEF WalletInv
<1> QED
  BY Inductive, WalletInit, <1>1, <1>2, PTL DEF Spec
=============================================================================
