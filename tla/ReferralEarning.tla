--------------------------- MODULE ReferralEarning ---------------------------
(***************************************************************************)
(* Referral earnings: backend/src/referral/referral.service.ts.  A student *)
(* enters a friend's code, buys a plan, and the friend gets a commission:  *)
(* on hold first, then withdrawable, taken back when the plan is refunded. *)
(* Enough paying friends earn a free month and a six-month upgrade.        *)
(*                                                                         *)
(* A handler reads, and then writes in one statement or one transaction;   *)
(* the two are steps of their own.  The release job, the admin's buttons,  *)
(* the release inside a withdrawal request, refund webhooks and purchases  *)
(* therefore meet on one commission in every order the code allows.        *)
(***************************************************************************)
EXTENDS Integers, FiniteSets, FiniteSetsExt

CONSTANTS
  Student, Payment,
  Commission,    \* Commission[p][tier]: the commission of payment p in the "low" or "high" tier
  HighTierAfter, FreeMonthAt, FreeUpgradeAt, MinFriends,   \* ReferralConfig
  Instant,       \* holdDays = 0
  DrawAmount,    \* amounts a student may ask to withdraw
  SameDevice,    \* payments at whose time the friend and the referrer share a device
  Entry,         \* <<student, owner of the code>>: the codes that students enter
  Handler,       \* requests, webhooks and jobs that run at the same time
  MaxRefunds,    \* bound: refunded payments
  MaxFaults,     \* bound: crashes, pauses of a wallet, repeated reports of a payment
  None

ASSUME ReferralAssumption ==
  /\ Commission \in [Payment -> [{"low", "high"} -> Nat \ {0}]]
  /\ HighTierAfter \in Nat \ {0} /\ FreeMonthAt \in Nat \ {0} /\ FreeUpgradeAt \in Nat \ {0}
  /\ MinFriends \in Nat /\ MaxFaults \in Nat /\ MaxRefunds \in Nat
  /\ Instant \in BOOLEAN
  /\ DrawAmount \subseteq Nat \ {0}
  /\ SameDevice \subseteq Payment
  /\ Entry \subseteq Student \X Student
  /\ None \notin Student \cup Payment

VARIABLES
  referredBy,    \* users.referredByCode, as the student who owns the code
  refStatus, purchases, flagged,   \* the referrals rows, one for each <<referrer, referee>>
  buyer,         \* who paid a payment (status SUCCESS), None before
  called,        \* payments that were reported to onPaidPurchase
  refunded,      \* payments Cashfree has refunded
  hooks,         \* refund webhooks that were not answered with 200 yet
  stage, hold,   \* referral_earnings.status; availableAt is null ("held"), ahead or over
  owner, amount, \* referral_earnings.referrerId, commissionInr
  pending, balance, total, paused,   \* referral_wallets
  open, drawn,   \* the open withdrawal; all that withdrawals took and did not return
  monthClaimed, months,              \* users.freeSubFromReferral; free months granted
  upgradeNoted, upgrades,            \* the audit row; six-month upgrades granted
  doubted,       \* history: referrers whose audit row was looked for between a grant's look and its note, or lost
  handler,       \* what each handler has read and where it stands
  faults,        \* crashes, pauses and repeated reports so far
  missed,        \* refunds answered before the commission was booked, or overtaken by its release
  demoted        \* history: referrals whose REWARDED was overwritten by a purchase that read them before

earningVars == <<stage, hold, owner, amount>>
walletVars == <<pending, balance, total>>
drawVars == <<open, drawn>>
rewardVars == <<monthClaimed, months, upgradeNoted, upgrades, doubted>>
paymentVars == <<buyer, called, refunded, hooks>>
referralVars == <<refStatus, purchases, flagged, demoted>>
linkVars == <<referredBy, referralVars>>
envVars == <<paused, faults, missed>>
vars == <<linkVars, paymentVars, earningVars, walletVars, drawVars, rewardVars, envVars, handler>>

Referrer == {e[2] : e \in Entry}   \* nobody else's wallet is ever touched

Stage == {"none", "PENDING", "AVAILABLE", "REVERSED"}
Paying == {"PAIDED", "REWARDED"}

Step == {"idle", "apply", "book", "milestone", "month", "reward", "grant", "upgrade", "grantUp",
         "note", "release", "drawRelease", "draw", "approve", "takeBack", "takeBackHook"}

Idle == [pc |-> "idle", p |-> None, f |-> None, r |-> None, amt |-> 0, seen |-> "none",
         flag |-> FALSE, yes |-> FALSE, todo |-> {}]

HandlerType == [pc : Step, p : Payment \cup {None}, f : Student \cup {None}, r : Student \cup {None},
                amt : Nat, seen : Stage \cup Paying, flag : BOOLEAN, yes : BOOLEAN,
                todo : SUBSET Payment]

LinkOK == /\ referredBy \in [Student -> Student \cup {None}]
          /\ refStatus \in [Student \X Student -> {"none", "PENDING"} \cup Paying]
          /\ purchases \in [Student \X Student -> Int]
          /\ flagged \subseteq Student \X Student /\ demoted \subseteq Student \X Student

PaymentOK == /\ buyer \in [Payment -> Student \cup {None}]
             /\ called \subseteq Payment /\ refunded \subseteq Payment
             /\ hooks \subseteq Payment /\ missed \subseteq Payment

EarningOK == /\ stage \in [Payment -> Stage]
             /\ hold \in [Payment -> {"held", "ahead", "over"}]
             /\ owner \in [Payment -> Student \cup {None}]
             /\ amount \in [Payment -> Nat]

WalletOK == /\ pending \in [Student -> Int] /\ balance \in [Student -> Int]
            /\ total \in [Student -> Int] /\ paused \in [Student -> BOOLEAN]
            /\ open \in [Student -> Nat] /\ drawn \in [Student -> Nat]

RewardOK == /\ monthClaimed \in [Student -> BOOLEAN] /\ upgradeNoted \in [Student -> BOOLEAN]
            /\ months \in [Student -> Nat] /\ upgrades \in [Student -> Nat]
            /\ doubted \subseteq Student

TypeOK == /\ LinkOK /\ PaymentOK /\ EarningOK /\ WalletOK /\ RewardOK
          /\ handler \in [Handler -> HandlerType]
          /\ faults \in 0..MaxFaults

Init == /\ referredBy = [s \in Student |-> None]
        /\ refStatus = [k \in Student \X Student |-> "none"]
        /\ purchases = [k \in Student \X Student |-> 0] /\ flagged = {} /\ demoted = {}
        /\ buyer = [p \in Payment |-> None] /\ called = {}
        /\ refunded = {} /\ hooks = {} /\ missed = {}
        /\ stage = [p \in Payment |-> "none"] /\ hold = [p \in Payment |-> "ahead"]
        /\ owner = [p \in Payment |-> None] /\ amount = [p \in Payment |-> 0]
        /\ pending = [s \in Student |-> 0] /\ balance = [s \in Student |-> 0]
        /\ total = [s \in Student |-> 0] /\ paused = [s \in Student |-> FALSE]
        /\ open = [s \in Student |-> 0] /\ drawn = [s \in Student |-> 0]
        /\ monthClaimed = [s \in Student |-> FALSE] /\ months = [s \in Student |-> 0]
        /\ upgradeNoted = [s \in Student |-> FALSE] /\ upgrades = [s \in Student |-> 0] /\ doubted = {}
        /\ handler = [h \in Handler |-> Idle] /\ faults = 0

At(h, pc) == handler[h].pc = pc
Become(h, s) == handler' = [handler EXCEPT ![h] = s]
GoTo(h, pc) == Become(h, [handler[h] EXCEPT !.pc = pc])
End(h) == Become(h, Idle)

-----------------------------------------------------------------------------
(* A code is entered: applyReferralCodeDetailed.                           *)

Bought(f) == \E p \in Payment : buyer[p] = f

ApplyRead(h) ==
  /\ At(h, "idle")
  /\ \E e \in Entry : LET f == e[1]  r == e[2]
                      IN /\ f # r /\ referredBy[f] = None /\ referredBy[r] # f /\ ~Bought(f)
                         /\ Become(h, [Idle EXCEPT !.pc = "apply", !.f = f, !.r = r])
  /\ UNCHANGED <<linkVars, paymentVars, earningVars, walletVars, drawVars, rewardVars, envVars>>

\* The row and the user in one transaction; the pair is unique, so a second
\* request with the same code changes nothing.
ApplyWrite(h) ==
  LET f == handler[h].f  r == handler[h].r
  IN /\ At(h, "apply")
     /\ \/ /\ refStatus[<<r, f>>] = "none"
           /\ refStatus' = [refStatus EXCEPT ![<<r, f>>] = "PENDING"]
           /\ referredBy' = [referredBy EXCEPT ![f] = r]
           /\ UNCHANGED <<purchases, flagged, demoted>>
        \/ refStatus[<<r, f>>] # "none" /\ UNCHANGED linkVars
     /\ End(h)
     /\ UNCHANGED <<paymentVars, earningVars, walletVars, drawVars, rewardVars, envVars>>

-----------------------------------------------------------------------------
(* A friend pays: onPaidPurchase.                                          *)

Pay(p, f) == /\ buyer[p] = None
             /\ buyer' = [buyer EXCEPT ![p] = f]
             /\ UNCHANGED <<linkVars, called, refunded, hooks, earningVars, walletVars, drawVars,
                            rewardVars, envVars, handler>>

PayingFriends(r) == Cardinality({f \in Student : refStatus[<<r, f>>] \in Paying})

Tier(r, f) ==
  LET n == PayingFriends(r) + (IF refStatus[<<r, f>>] = "PENDING" THEN 1 ELSE 0)
  IN IF n >= HighTierAfter THEN "high" ELSE "low"

\* What is read before the commission is booked; flag: the purchase must be
\* looked at by an admin, yes: a commission is earned.
CreditRead(h, p) ==
  LET f == buyer[p]
  IN /\ At(h, "idle") /\ f # None
     /\ called' = called \cup {p}
     /\ faults' = IF p \in called THEN faults + 1 ELSE faults
     /\ faults' <= MaxFaults
     /\ \/ /\ referredBy[f] # None /\ stage[p] = "none"
           /\ LET r == referredBy[f]
              IN Become(h, [pc |-> "book", p |-> p, f |-> f, r |-> r,
                            amt |-> Commission[p][Tier(r, f)], seen |-> refStatus[<<r, f>>],
                            flag |-> <<r, f>> \in flagged \/ p \in SameDevice,
                            yes |-> ~paused[r], todo |-> {}])
        \/ (referredBy[f] = None \/ stage[p] # "none") /\ UNCHANGED handler
     /\ UNCHANGED <<linkVars, buyer, refunded, hooks, earningVars, walletVars, drawVars, rewardVars,
                    paused, missed>>

\* One more purchase of the friend; REWARDED is kept if it was read.
Bump(h) == LET k == <<handler[h].r, handler[h].f>>
           IN /\ purchases' = [purchases EXCEPT ![k] = @ + 1]
              /\ refStatus' = IF handler[h].seen = "REWARDED" THEN refStatus
                              ELSE [refStatus EXCEPT ![k] = "PAIDED"]
              /\ flagged' = IF handler[h].flag THEN flagged \cup {k} ELSE flagged
              /\ demoted' = IF handler[h].seen # "REWARDED" /\ refStatus[k] = "REWARDED"
                            THEN demoted \cup {k} ELSE demoted

ToMilestone(h) == Become(h, [Idle EXCEPT !.pc = "milestone", !.f = handler[h].f, !.r = handler[h].r])

\* The earning, the wallet and the referral in one transaction.
Book(h) ==
  LET w == handler[h]  now == Instant /\ ~w.flag
  IN /\ At(h, "book") /\ w.yes /\ stage[w.p] = "none"
     /\ stage' = [stage EXCEPT ![w.p] = IF now THEN "AVAILABLE" ELSE "PENDING"]
     /\ hold' = [hold EXCEPT ![w.p] = IF w.flag THEN "held" ELSE IF now THEN "over" ELSE "ahead"]
     /\ owner' = [owner EXCEPT ![w.p] = w.r]
     /\ amount' = [amount EXCEPT ![w.p] = w.amt]
     /\ total' = [total EXCEPT ![w.r] = @ + w.amt]
     /\ pending' = IF now THEN pending ELSE [pending EXCEPT ![w.r] = @ + w.amt]
     /\ balance' = IF now THEN [balance EXCEPT ![w.r] = @ + w.amt] ELSE balance
     /\ Bump(h) /\ missed' = missed \cup ((refunded \ hooks) \cap {w.p})
     /\ ToMilestone(h)
     /\ UNCHANGED <<referredBy, paymentVars, drawVars, rewardVars, paused, faults>>

\* Another call booked the payment meanwhile: the unique key refuses it.
BookRefused(h) == /\ At(h, "book") /\ handler[h].yes /\ stage[handler[h].p] # "none"
                  /\ End(h)
                  /\ UNCHANGED <<linkVars, paymentVars, earningVars, walletVars, drawVars, rewardVars,
                                 envVars>>

\* A paused wallet earns nothing, but the friend counts as a paying friend.
BookNothing(h) == /\ At(h, "book") /\ ~handler[h].yes
                  /\ Bump(h)
                  /\ ToMilestone(h)
                  /\ UNCHANGED <<referredBy, paymentVars, earningVars, walletVars, drawVars, rewardVars,
                                 envVars>>

-----------------------------------------------------------------------------
(* Milestones: grantMilestoneRewardsIfDue.                                 *)

RewardStep(h) == UNCHANGED <<referredBy, paymentVars, earningVars, walletVars, drawVars, envVars>>

\* yes: the upgrade is due as well.
MilestoneRead(h) ==
  LET r == handler[h].r  n == PayingFriends(r)  up == n >= FreeUpgradeAt
      month == ~monthClaimed[r] /\ n >= FreeMonthAt
  IN /\ At(h, "milestone")
     /\ IF month \/ up
        THEN Become(h, [handler[h] EXCEPT !.pc = IF month THEN "month" ELSE "upgrade", !.yes = up])
        ELSE End(h)
     /\ UNCHANGED <<referralVars, rewardVars>> /\ RewardStep(h)

AfterMonth(h) == IF handler[h].yes THEN GoTo(h, "upgrade") ELSE End(h)

\* Mutant: the flag is set without looking at it again.
Mut_MonthLeft(r) == TRUE

MonthLeft(r) == ~monthClaimed[r]

ClaimMonth(h) ==
  LET r == handler[h].r
  IN /\ At(h, "month")
     /\ monthClaimed' = [monthClaimed EXCEPT ![r] = TRUE]
     /\ IF MonthLeft(r) THEN GoTo(h, "reward") ELSE AfterMonth(h)
     /\ UNCHANGED <<referralVars, months, upgradeNoted, upgrades, doubted>> /\ RewardStep(h)

Reward(h) == /\ At(h, "reward")
             /\ refStatus' = [refStatus EXCEPT ![<<handler[h].r, handler[h].f>>] = "REWARDED"]
             /\ GoTo(h, "grant")
             /\ UNCHANGED <<purchases, flagged, demoted, rewardVars>> /\ RewardStep(h)

GrantMonth(h) == /\ At(h, "grant")
                 /\ months' = [months EXCEPT ![handler[h].r] = @ + 1]
                 /\ AfterMonth(h)
                 /\ UNCHANGED <<referralVars, monthClaimed, upgradeNoted, upgrades, doubted>> /\ RewardStep(h)

Upgrading(h, r) == handler[h].pc \in {"grantUp", "note"} /\ handler[h].r = r

\* Mutant: every purchase after the milestone grants the upgrade.
Mut_UpgradeLeft(r) == TRUE

UpgradeLeft(r) == ~upgradeNoted[r]

UpgradeRead(h) ==
  LET r == handler[h].r
  IN /\ At(h, "upgrade")
     /\ IF UpgradeLeft(r) THEN GoTo(h, "grantUp") ELSE End(h)
     /\ doubted' = IF ~upgradeNoted[r] /\ (\E g \in Handler : Upgrading(g, r)) THEN doubted \cup {r} ELSE doubted
     /\ UNCHANGED <<referralVars, monthClaimed, months, upgradeNoted, upgrades>> /\ RewardStep(h)

GrantUpgrade(h) == /\ At(h, "grantUp")
                   /\ upgrades' = [upgrades EXCEPT ![handler[h].r] = @ + 1]
                   /\ GoTo(h, "note")
                   /\ UNCHANGED <<referralVars, monthClaimed, months, upgradeNoted, doubted>> /\ RewardStep(h)

NoteUpgrade(h) == /\ At(h, "note")
                  /\ upgradeNoted' = [upgradeNoted EXCEPT ![handler[h].r] = TRUE]
                  /\ End(h)
                  /\ UNCHANGED <<referralVars, monthClaimed, months, upgrades, doubted>> /\ RewardStep(h)

-----------------------------------------------------------------------------
(* The hold ends and the commission is released.                           *)

HoldEnds(p) == /\ stage[p] = "PENDING" /\ hold[p] = "ahead"
               /\ hold' = [hold EXCEPT ![p] = "over"]
               /\ UNCHANGED <<linkVars, paymentVars, stage, owner, amount, walletVars, drawVars,
                              rewardVars, envVars, handler>>

ReadOnly == UNCHANGED <<linkVars, paymentVars, earningVars, walletVars, drawVars, rewardVars, envVars>>

Due(r) == {p \in Payment : stage[p] = "PENDING" /\ hold[p] = "over" /\ owner[p] = r /\ ~paused[r]}

Releasing == \E h \in Handler : At(h, "release") /\ handler[h].flag

\* The job of every ten minutes, one at a time, and the admin's "release now".
Tick(h) == /\ At(h, "idle") /\ ~Releasing
           /\ Become(h, [Idle EXCEPT !.pc = "release", !.flag = TRUE,
                                     !.todo = UNION {Due(r) : r \in Student}])
           /\ (UNION {Due(r) : r \in Student}) # {}
           /\ ReadOnly

\* Mutant: an empty availableAt counts as over.
Mut_UserRows(r) == {p \in Payment : stage[p] = "PENDING" /\ owner[p] = r}

UserRows(r) == {p \in Payment : stage[p] = "PENDING" /\ owner[p] = r /\ hold[p] # "held"}

\* Admin: everything of one student that is not flagged, hold or no hold.
ReleaseUserNow(h, r) == /\ At(h, "idle") /\ ~paused[r] /\ UserRows(r) # {}
                        /\ Become(h, [Idle EXCEPT !.pc = "release", !.todo = UserRows(r)])
                        /\ ReadOnly

\* Mutant: the status is not part of the update's condition.
Mut_Releasable(p) == stage[p] # "REVERSED"

Releasable(p) == stage[p] = "PENDING"

\* releaseOne: the conditional update and the wallet in one transaction.
ReleaseOne(h, p) ==
  /\ handler[h].pc \in {"release", "drawRelease"} /\ p \in handler[h].todo
  /\ Become(h, [handler[h] EXCEPT !.todo = @ \ {p}])
  /\ \/ /\ Releasable(p)
        /\ stage' = [stage EXCEPT ![p] = "AVAILABLE"]
        /\ pending' = [pending EXCEPT ![owner[p]] = @ - amount[p]]
        /\ balance' = [balance EXCEPT ![owner[p]] = @ + amount[p]]
     \/ ~Releasable(p) /\ UNCHANGED <<stage, pending, balance>>
  /\ UNCHANGED <<hold, owner, amount, total, linkVars, paymentVars, drawVars, rewardVars, envVars>>

Released(h) == /\ At(h, "release") /\ handler[h].todo = {}
               /\ End(h) /\ ReadOnly

\* Admin: a flagged commission is fine.
ApproveRead(h, p) == /\ At(h, "idle") /\ stage[p] = "PENDING"
                     /\ Become(h, [Idle EXCEPT !.pc = "approve", !.p = p])
                     /\ ReadOnly

ApproveWrite(h) ==
  LET p == handler[h].p
  IN /\ At(h, "approve")
     /\ hold' = IF stage[p] = "PENDING" THEN [hold EXCEPT ![p] = "over"] ELSE hold
     /\ Become(h, [Idle EXCEPT !.pc = "release", !.todo = {p}])
     /\ UNCHANGED <<stage, owner, amount, linkVars, paymentVars, walletVars, drawVars, rewardVars,
                    envVars>>

-----------------------------------------------------------------------------
(* A commission is taken back: reverseEarning.                             *)

\* Cashfree finished a refund and starts to deliver its webhook.
Refund(p) == /\ buyer[p] # None /\ p \notin refunded /\ Cardinality(refunded) < MaxRefunds
             /\ refunded' = refunded \cup {p} /\ hooks' = hooks \cup {p}
             /\ UNCHANGED <<linkVars, buyer, called, earningVars, walletVars, drawVars, rewardVars,
                            envVars, handler>>

\* Mutant: only a commission on hold is taken back.
Mut_NothingToTake(p) == stage[p] # "PENDING"

NothingToTake(p) == stage[p] \in {"none", "REVERSED"}

\* The webhook: no commission, or one that was taken back already, is answered at once.
RefundHook(h, p) ==
  /\ At(h, "idle") /\ p \in hooks
  /\ \/ /\ NothingToTake(p)
        /\ hooks' = hooks \ {p} /\ UNCHANGED handler
     \/ /\ ~NothingToTake(p)
        /\ Become(h, [Idle EXCEPT !.pc = "takeBackHook", !.p = p, !.seen = stage[p]])
        /\ UNCHANGED hooks
  /\ UNCHANGED <<linkVars, buyer, called, refunded, earningVars, walletVars, drawVars, rewardVars, envVars>>

ReverseRead(h, p) == /\ At(h, "idle") /\ stage[p] \in {"PENDING", "AVAILABLE"}
                     /\ Become(h, [Idle EXCEPT !.pc = "takeBack", !.p = p, !.seen = stage[p]])
                     /\ ReadOnly

\* Mutant: every reversal makes the friend "signed up" again.
Mut_LastPurchase(k) == refStatus[k] = "PAIDED"

LastPurchase(k) == refStatus[k] = "PAIDED" /\ purchases[k] - 1 <= 0

\* Mutant: only what was taken back already is left alone.
Mut_Unchanged(w) == stage[w.p] # "REVERSED"

Unchanged(w) == stage[w.p] = w.seen

\* Claims the status that was read; the wallet and the referral follow in the
\* same transaction.
TakeBack(h) ==
  LET w == handler[h]  p == w.p  r == owner[p]  k == <<r, buyer[p]>>
  IN /\ w.pc \in {"takeBack", "takeBackHook"} /\ Unchanged(w)
     /\ stage' = [stage EXCEPT ![p] = "REVERSED"]
     /\ total' = [total EXCEPT ![r] = @ - amount[p]]
     /\ pending' = IF w.seen = "PENDING" THEN [pending EXCEPT ![r] = @ - amount[p]] ELSE pending
     /\ balance' = IF w.seen = "PENDING" THEN balance ELSE [balance EXCEPT ![r] = @ - amount[p]]
     /\ purchases' = [purchases EXCEPT ![k] = IF LastPurchase(k) THEN 0 ELSE @ - 1]
     /\ refStatus' = IF LastPurchase(k) THEN [refStatus EXCEPT ![k] = "PENDING"] ELSE refStatus
     /\ hooks' = IF w.pc = "takeBackHook" THEN hooks \ {p} ELSE hooks
     /\ End(h)
     /\ UNCHANGED <<referredBy, flagged, demoted, buyer, called, refunded, hold, owner, amount,
                    drawVars, rewardVars, envVars>>

\* Somebody was faster: the answer is "not reversed", and the webhook gets its 200.
TooLate(h) ==
  LET w == handler[h]
  IN /\ w.pc \in {"takeBack", "takeBackHook"} /\ ~Unchanged(w)
     /\ hooks' = IF w.pc = "takeBackHook" THEN hooks \ {w.p} ELSE hooks
     /\ missed' = IF w.pc = "takeBackHook" /\ stage[w.p] # "REVERSED" THEN missed \cup {w.p} ELSE missed
     /\ End(h)
     /\ UNCHANGED <<linkVars, buyer, called, refunded, earningVars, walletVars, drawVars, rewardVars,
                    paused, faults>>

-----------------------------------------------------------------------------
(* Withdrawals, as far as they touch the wallet; module Withdrawal has the *)
(* rest of their life.                                                     *)

\* amt: what the student asks for.  What is due is released first.
RequestWithdrawal(h, r) == /\ At(h, "idle") /\ ~paused[r]
                           /\ \E a \in DrawAmount :
                                Become(h, [Idle EXCEPT !.pc = "drawRelease", !.r = r, !.amt = a,
                                                       !.todo = Due(r)])
                           /\ ReadOnly

\* A release that fails is swallowed; too few paying friends end the request.
CountFriends(h) == /\ At(h, "drawRelease")
                   /\ IF PayingFriends(handler[h].r) < MinFriends THEN End(h) ELSE GoTo(h, "draw")
                   /\ ReadOnly

\* Under the row lock of the wallet: no other open request, enough balance.
Draw(h) ==
  LET r == handler[h].r  a == handler[h].amt
  IN /\ At(h, "draw")
     /\ \/ /\ open[r] = 0 /\ balance[r] >= a /\ ~paused[r]
           /\ balance' = [balance EXCEPT ![r] = @ - a]
           /\ open' = [open EXCEPT ![r] = a] /\ drawn' = [drawn EXCEPT ![r] = @ + a]
        \/ ~(open[r] = 0 /\ balance[r] >= a /\ ~paused[r]) /\ UNCHANGED <<balance, drawVars>>
     /\ End(h)
     /\ UNCHANGED <<linkVars, paymentVars, earningVars, pending, total, rewardVars, envVars>>

\* Mutant: the open request is not closed when its money comes back.
Mut_Closed(r) == open

Closed(r) == [open EXCEPT ![r] = 0]

\* The withdrawal is paid out, or cancelled, rejected or failed.
Settle(r) == /\ open[r] > 0
             /\ open' = Closed(r)
             /\ \/ UNCHANGED <<balance, drawn>>
                \/ /\ balance' = [balance EXCEPT ![r] = @ + open[r]]
                   /\ drawn' = [drawn EXCEPT ![r] = @ - open[r]]
             /\ UNCHANGED <<linkVars, paymentVars, earningVars, pending, total, rewardVars, envVars, handler>>

-----------------------------------------------------------------------------
(* The admin pauses or restores a student's earnings; the process dies.    *)

SetPaused(r) == /\ faults < MaxFaults
                /\ faults' = faults + 1
                /\ paused' = [paused EXCEPT ![r] = ~@]
                /\ UNCHANGED <<linkVars, paymentVars, earningVars, walletVars, drawVars, rewardVars,
                               missed, handler>>

Crash(h) == /\ ~At(h, "idle") /\ faults < MaxFaults
            /\ faults' = faults + 1
            /\ doubted' = IF At(h, "note") THEN doubted \cup {handler[h].r} ELSE doubted
            /\ End(h)
            /\ UNCHANGED <<linkVars, paymentVars, earningVars, walletVars, drawVars, monthClaimed, months,
                           upgradeNoted, upgrades, paused, missed>>

Progress(h) == \/ ApplyWrite(h) \/ Book(h) \/ BookRefused(h) \/ BookNothing(h)
               \/ MilestoneRead(h) \/ ClaimMonth(h) \/ Reward(h) \/ GrantMonth(h)
               \/ UpgradeRead(h) \/ GrantUpgrade(h) \/ NoteUpgrade(h)
               \/ (\E p \in Payment : ReleaseOne(h, p)) \/ Released(h) \/ ApproveWrite(h)
               \/ TakeBack(h) \/ TooLate(h) \/ CountFriends(h) \/ Draw(h)

Start(h) == \/ ApplyRead(h) \/ Tick(h)
            \/ \E p \in Payment : CreditRead(h, p) \/ ApproveRead(h, p) \/ RefundHook(h, p) \/ ReverseRead(h, p)
            \/ \E r \in Referrer : ReleaseUserNow(h, r) \/ RequestWithdrawal(h, r)

Next == \/ \E h \in Handler : Start(h) \/ Progress(h) \/ Crash(h)
        \/ \E p \in Payment : (\E f \in Student : Pay(p, f)) \/ HoldEnds(p) \/ Refund(p)
        \/ \E r \in Referrer : Settle(r) \/ SetPaused(r)

Spec == Init /\ [][Next]_vars

-----------------------------------------------------------------------------
(* Properties *)

SumOf(S) == MapThenSumSet(LAMBDA p : amount[p], S)
Owned(s, stages) == {p \in Payment : owner[p] = s /\ stage[p] \in stages}

\* The wallet is the sum of the commissions: what is on hold, what was released
\* less what withdrawals hold or took, and what was earned in all.
WalletAddsUp ==
  \A s \in Student :
    /\ pending[s] = SumOf(Owned(s, {"PENDING"}))
    /\ balance[s] + drawn[s] = SumOf(Owned(s, {"AVAILABLE"}))
    /\ total[s] = SumOf(Owned(s, {"PENDING", "AVAILABLE"}))

Live(k) == {p \in Payment : stage[p] \in {"PENDING", "AVAILABLE"} /\ owner[p] = k[1] /\ buyer[p] = k[2]}

\* A friend counts as paying exactly while purchases of theirs are counted, and
\* no commission that was not taken back is left out of the count: refunds and
\* purchases of one friend meet on the same row (bump and reverseEarning).  Once
\* a purchase that had read PAIDED overwrote REWARDED, another one that had read
\* REWARDED may leave a friend "signed up" whose purchase it counts.
FriendsCounted ==
  \A k \in Student \X Student :
    /\ purchases[k] >= Cardinality(Live(k))
    /\ refStatus[k] = "PAIDED" => purchases[k] > 0
    /\ refStatus[k] \in {"none", "PENDING"} /\ k \notin demoted => purchases[k] = 0

\* The free month of a referrer is granted once, however many purchases reach
\* the milestone together (the claim on freeSubFromReferral).
MonthOnce == \A r \in Student : months[r] <= 1

\* The six-month upgrade is granted once, and its audit row is never written
\* without a grant ("one-time; AuditLog is the claim flag"), however many of the
\* friends' purchases come after the milestone - up to two that look for the row
\* at the same moment, or a process that dies between the grant and the row.
UpgradeOnce ==
  \A r \in Student : /\ r \notin doubted => upgrades[r] <= 1
                     /\ upgradeNoted[r] => upgrades[r] > 0

\* The comment of handleWebhook: when a refund finished, the commission of that
\* payment goes back - unless it was booked, or was released, while the webhook
\* was being answered.
RefundTakesBack == \A p \in refunded \ (hooks \cup missed) : stage[p] \in {"none", "REVERSED"}

\* A commission that was flagged waits for an admin's approval: no job and no
\* withdrawal request releases it.
FlaggedWaits == [][\A p \in Payment : stage[p] = "PENDING" /\ hold[p] = "held" => stage'[p] # "AVAILABLE"]_vars

\* The code implements the ledger of commissions.
Ledger == INSTANCE CommissionLedger
LedgerSpec == Ledger!Spec
=============================================================================
