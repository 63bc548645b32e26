---------------------------- MODULE SessionProofs ----------------------------
(***************************************************************************)
(* Theorems about Session, for any tabs, devices, number of requests at a  *)
(* time, logins and faults.                                                *)
(***************************************************************************)
EXTENDS Session, FiniteSetTheorems, TLAPS

-----------------------------------------------------------------------------
(* What a request carries *)

LEMMA Bounds ==
  ASSUME RowsOK
  PROVE  /\ issued \in Nat /\ opened \in Nat /\ 0 \in 0..issued /\ 0 \in 0..opened
         /\ 0 \in 0..MaxPair /\ 0 \in 0..MaxSession
         /\ 1..issued \subseteq Pair /\ 0..issued \subseteq 0..MaxPair /\ 0..opened \subseteq 0..MaxSession
         /\ \A p \in 0..issued : p # 0 => p \in 1..issued
  BY SessionAssumption DEF RowsOK, Pair

\* What a request starts with.
LEMMA RequestOK ==
  ASSUME NEW i \in Nat, NEW o \in Nat, NEW pc \in {"idle", "check", "find", "guardOut", "revokeAll"},
         NEW t \in Tab \cup {None}, NEW p \in 0..MaxPair,
         t # None <=> pc \in {"check", "find"},
         pc \in {"check", "guardOut"} => p \in 1..i
  PROVE  Request(pc, t, p) \in HandlerType /\ WellFormed(Request(pc, t, p), i, o)
<1> DEFINE w == Request(pc, t, p)
<1>1. w.pc = pc /\ w.tab = t /\ w.pair = p
  BY DEF Request
<1>2. w \in HandlerType
  BY SessionAssumption DEF Request, HandlerType, Step
<1> HIDE DEF w
<1>3. WellFormed(w, i, o)
  BY <1>1 DEF WellFormed, RefreshStep, LoginStep
<1> QED
  BY <1>2, <1>3 DEF w

LEMMA IdleOK ==
  ASSUME NEW i \in Nat, NEW o \in Nat PROVE Idle \in HandlerType /\ WellFormed(Idle, i, o)
<1>1. 0 \in 0..MaxPair
  BY SessionAssumption
<1> QED
  BY <1>1, RequestOK DEF Idle

LEMMA Carries ==
  ASSUME RowsOK, HandlersOK, NEW h \in Handler
  PROVE  /\ handler[h] \in HandlerType /\ WellFormed(handler[h], issued, opened)
         /\ handler[h].pc \in Step /\ handler[h].seen \in {"no", "recent", "old"}
         /\ handler[h].tab \in Tab \cup {None}
         /\ handler[h].pair \in 0..MaxPair /\ handler[h].sess \in 0..MaxSession
         /\ handler[h].tab # None <=> handler[h].pc \in RefreshStep \cup LoginStep
         /\ handler[h].pc \in RefreshStep \cup {"loggedIn", "guardOut", "revokeOut", "closeOut"}
              => handler[h].pair \in 1..issued /\ handler[h].pair \in Pair
         /\ handler[h].pc \in {"close", "pair", "loggedIn"} => handler[h].sess \in 1..opened
<1>1. handler[h] \in HandlerType /\ WellFormed(handler[h], issued, opened)
  BY DEF HandlersOK
<1>2. 1..issued \subseteq Pair
  BY SessionAssumption DEF RowsOK, Pair
<1> QED
  BY <1>1, <1>2 DEF WellFormed, HandlerType

\* The device a tab that refreshes or logs in belongs to.
LEMMA OnDevice ==
  ASSUME RowsOK, HandlersOK, NEW h \in Handler, handler[h].pc \in RefreshStep \cup LoginStep
  PROVE  DeviceOf[handler[h].tab] \in Device
  BY Carries, SessionAssumption

LEMMA BecomeOK ==
  ASSUME RowsOK, HandlersOK, NEW h \in Handler, NEW w \in HandlerType, Become(h, w),
         issued' \in Nat, issued <= issued', opened' \in Nat, opened <= opened',
         WellFormed(w, issued', opened')
  PROVE  HandlersOK'
<1>1. handler' = [handler EXCEPT ![h] = w] /\ handler' \in [Handler -> HandlerType]
  BY DEF Become, HandlersOK
<1>2. ASSUME NEW g \in Handler PROVE WellFormed(handler'[g], issued', opened')
  <2>1. CASE g = h
    BY <1>1, <2>1 DEF HandlersOK
  <2>2. CASE g # h
    <3>1. handler'[g] = handler[g] /\ WellFormed(handler[g], issued, opened)
      BY <1>1, <2>2 DEF HandlersOK
    <3>2. 1..issued \subseteq 1..issued' /\ 1..opened \subseteq 1..opened'
      BY DEF RowsOK
    <3> QED
      BY <3>1, <3>2 DEF WellFormed
  <2> QED
    BY <2>1, <2>2
<1> QED
  BY <1>1, <1>2 DEF HandlersOK

LEMMA EndOK ==
  ASSUME RowsOK, HandlersOK, NEW h \in Handler, End(h), UNCHANGED <<issued, opened>>
  PROVE  HandlersOK'
  BY IdleOK, BecomeOK DEF End, RowsOK

\* A request that goes on with the rows it has.
LEMMA GoToOK ==
  ASSUME RowsOK, HandlersOK, NEW h \in Handler, NEW pc \in Step, GoTo(h, pc),
         UNCHANGED <<issued, opened>>,
         pc \in RefreshStep \cup LoginStep <=> handler[h].pc \in RefreshStep \cup LoginStep,
         pc \in RefreshStep \cup {"loggedIn", "guardOut", "revokeOut", "closeOut"}
           => handler[h].pair \in 1..issued,
         pc \notin {"close", "pair", "loggedIn"}
  PROVE  HandlersOK'
<1> DEFINE w == [handler[h] EXCEPT !.pc = pc]
<1>1. w \in HandlerType
  BY Carries DEF HandlerType
<1>2. w.pc = pc /\ w.tab = handler[h].tab /\ w.pair = handler[h].pair /\ w.sess = handler[h].sess
  BY Carries DEF HandlerType
<1>3. WellFormed(w, issued, opened)
  <2> HIDE DEF w
  <2> QED
    BY <1>2, Carries DEF WellFormed
<1> QED
  BY <1>1, <1>3, BecomeOK DEF GoTo, RowsOK

LEMMA SameOK ==
  ASSUME HandlersOK, UNCHANGED <<handler, issued, opened>> PROVE HandlersOK'
  BY DEF HandlersOK

-----------------------------------------------------------------------------
(* Every step keeps the types *)

USE DEF tokenVars, ghostVars

LEMMA RevokeOK ==
  ASSUME RowsOK, NEW P, RevokeAll(P) PROVE revoked' \in [Pair -> {"no", "recent", "old"}]
  BY DEF RowsOK, RevokeAll

LEMMA NewPairOK ==
  ASSUME RowsOK, NEW s \in 0..MaxSession, NewPair(s)
  PROVE  /\ issued' = issued + 1 /\ issued' \in 0..MaxPair /\ issued' \in Nat /\ issued \in Nat
         /\ issued' \in Pair /\ sess' \in [Pair -> 0..MaxSession] /\ sess'[issued'] = s
         /\ \A p \in 1..issued : sess'[p] = sess[p]
<1>1. issued + 1 \in Pair /\ 1..issued \subseteq Pair
  BY SessionAssumption DEF RowsOK, NewPair, Pair
<1> QED
  BY <1>1, SessionAssumption DEF RowsOK, NewPair

LEMMA RefreshTypes ==
  ASSUME TypeOK, NEW h \in Handler,
         \/ RefreshCheck(h) \/ RefreshRotate(h) \/ RefreshIssue(h) \/ Refreshed(h) \/ Denied(h)
         \/ \E t \in Tab : RefreshStart(h, t)
  PROVE  TypeOK'
<1> USE DEF TypeOK
<1>1. ASSUME NEW t \in Tab, RefreshStart(h, t) PROVE TypeOK'
  <2> DEFINE p == store[DeviceOf[t]]
  <2>1. DeviceOf[t] \in Device /\ t # None
    BY SessionAssumption
  <2>2. p \in 1..issued /\ p \in 0..MaxPair
    BY <1>1, <2>1, Bounds DEF RefreshStart, DevicesOK
  <2>3. Become(h, Request("check", t, p)) /\ UNCHANGED <<issued, opened>>
    BY <1>1 DEF RefreshStart
  <2> HIDE DEF p
  <2>4. Request("check", t, p) \in HandlerType /\ WellFormed(Request("check", t, p), issued, opened)
    BY <2>1, <2>2, RequestOK, Bounds
  <2>5. HandlersOK'
    BY <2>3, <2>4, BecomeOK, Bounds
  <2> QED
    BY <1>1, <2>5 DEF RefreshStart, RowsOK, DevicesOK
<1>2. CASE RefreshCheck(h)
  <2> DEFINE w == [handler[h] EXCEPT !.pc = "rotate", !.seen = revoked[handler[h].pair]]
  <2>1. handler[h].pair \in Pair /\ handler[h].pair \in 1..issued
    BY <1>2, Carries DEF RefreshCheck, At, RefreshStep
  <2>2. w \in HandlerType /\ WellFormed(w, issued, opened)
    BY <1>2, <2>1, Carries DEF RefreshCheck, At, HandlerType, Step, WellFormed, RefreshStep, LoginStep, RowsOK
  <2>3. CASE Become(h, w)
    <3>1. HandlersOK'
      BY <1>2, <2>2, <2>3, BecomeOK DEF RefreshCheck, RowsOK
    <3> QED
      BY <1>2, <3>1 DEF RefreshCheck, RowsOK, DevicesOK
  <2>4. CASE GoTo(h, "denied")
    <3>1. HandlersOK'
      BY <1>2, <2>1, <2>4, GoToOK DEF RefreshCheck, At, Step, RefreshStep
    <3> QED
      BY <1>2, <3>1 DEF RefreshCheck, RowsOK, DevicesOK
  <2> QED
    BY <1>2, <2>3, <2>4 DEF RefreshCheck
<1>3. CASE RefreshRotate(h)
  <2> DEFINE w == [handler[h] EXCEPT !.pc = "issue", !.seen = "no"]
  <2>1. handler[h].pair \in Pair /\ handler[h].pair \in 1..issued
    BY <1>3, Carries DEF RefreshRotate, At, RefreshStep
  <2>2. w \in HandlerType /\ WellFormed(w, issued, opened)
    BY <1>3, <2>1, Carries DEF RefreshRotate, At, HandlerType, Step, WellFormed, RefreshStep, LoginStep
  <2>3. HandlersOK'
    BY <1>3, <2>2, BecomeOK DEF RefreshRotate, RowsOK
  <2>4. revoked' \in [Pair -> {"no", "recent", "old"}]
    BY <1>3 DEF RefreshRotate, RowsOK
  <2> QED
    BY <1>3, <2>3, <2>4 DEF RefreshRotate, RowsOK, DevicesOK
<1>4. CASE RefreshIssue(h)
  <2>1. handler[h].pair \in Pair /\ handler[h].pair \in 1..issued
    BY <1>4, Carries DEF RefreshIssue, At, RefreshStep
  <2>2. CASE suspended
    <3>1. HandlersOK'
      BY <1>4, <2>1, <2>2, GoToOK DEF RefreshIssue, At, Step, RefreshStep
    <3> QED
      BY <1>4, <2>2, <3>1 DEF RefreshIssue, RowsOK, DevicesOK
  <2>3. CASE ~suspended
    <3> DEFINE w == [handler[h] EXCEPT !.pc = "refreshed", !.pair = issued + 1]
    <3>1. sess[handler[h].pair] \in 0..MaxSession
      BY <2>1 DEF RowsOK
    <3>2. NewPair(sess[handler[h].pair]) /\ Become(h, w)
      BY <1>4, <2>3 DEF RefreshIssue
    <3>3. /\ issued' = issued + 1 /\ issued' \in 0..MaxPair /\ issued' \in Nat /\ issued \in Nat
          /\ sess' \in [Pair -> 0..MaxSession]
      BY <3>1, <3>2, NewPairOK
    <3>4. w \in HandlerType /\ w.pc = "refreshed" /\ w.pair = issued' /\ w.tab = handler[h].tab
      BY <3>3, Carries DEF HandlerType, Step
    <3>5. HandlersOK'
      <4> HIDE DEF w
      <4>1. issued' \in 1..issued'
        BY <3>3
      <4>2. WellFormed(w, issued', opened)
        BY <1>4, <3>4, <4>1, Carries DEF RefreshIssue, At, WellFormed, RefreshStep
      <4> QED
        BY <1>4, <3>2, <3>3, <3>4, <4>2, BecomeOK DEF RefreshIssue, RowsOK
    <3>6. DevicesOK'
      BY <1>4, <3>3 DEF RefreshIssue, DevicesOK
    <3> QED
      BY <1>4, <3>3, <3>5, <3>6 DEF RefreshIssue, RowsOK
  <2> QED
    BY <2>2, <2>3
<1>5. CASE Refreshed(h)
  <2>1. HandlersOK'
    BY <1>5, EndOK DEF Refreshed
  <2>2. DeviceOf[handler[h].tab] \in Device /\ handler[h].pair \in 0..issued
    BY <1>5, Carries, OnDevice DEF Refreshed, At, RefreshStep
  <2> QED
    BY <1>5, <2>1, <2>2 DEF Refreshed, RowsOK, DevicesOK
<1>6. CASE Denied(h)
  <2>1. HandlersOK'
    BY <1>6, EndOK DEF Denied
  <2>2. 0 \in 0..issued
    BY DEF RowsOK
  <2> QED
    BY <1>6, <2>1, <2>2 DEF Denied, RowsOK, DevicesOK
<1> QED
  BY <1>1, <1>2, <1>3, <1>4, <1>5, <1>6
LEMMA LoginTypes ==
  ASSUME TypeOK, NEW h \in Handler,
         \/ LoginFind(h) \/ LoginClose(h) \/ LoginOpen(h) \/ LoginPair(h) \/ LoggedIn(h)
         \/ \E t \in Tab : LoginStart(h, t)
  PROVE  TypeOK'
<1> USE DEF TypeOK
<1>1. ASSUME NEW t \in Tab, LoginStart(h, t) PROVE TypeOK'
  <2>1. Become(h, Request("find", t, 0)) /\ UNCHANGED <<issued, opened>> /\ t # None
    BY <1>1, SessionAssumption DEF LoginStart
  <2>2. Request("find", t, 0) \in HandlerType /\ WellFormed(Request("find", t, 0), issued, opened)
    BY <2>1, RequestOK, Bounds
  <2>3. HandlersOK'
    BY <2>1, <2>2, BecomeOK, Bounds
  <2> QED
    BY <1>1, <2>3 DEF LoginStart, RowsOK, DevicesOK
<1>2. CASE LoginFind(h)
  <2>1. ASSUME NEW s \in active, Become(h, [handler[h] EXCEPT !.pc = "close", !.sess = s]) PROVE HandlersOK'
    <3> DEFINE w == [handler[h] EXCEPT !.pc = "close", !.sess = s]
    <3>1. s \in 1..opened /\ s \in 0..MaxSession
      BY SessionAssumption DEF RowsOK
    <3>4. Become(h, w) /\ UNCHANGED <<issued, opened>>
      BY <1>2, <2>1 DEF LoginFind
    <3>2. w \in HandlerType /\ w.pc = "close" /\ w.sess = s /\ w.tab = handler[h].tab
      BY <3>1, Carries DEF HandlerType, Step
    <3> HIDE DEF w
    <3>3. WellFormed(w, issued, opened)
      BY <1>2, <3>1, <3>2, Carries DEF LoginFind, At, WellFormed, RefreshStep, LoginStep
    <3> QED
      BY <3>4, <3>2, <3>3, BecomeOK, Bounds
  <2>2. ASSUME GoTo(h, "open") PROVE HandlersOK'
    BY <1>2, <2>2, GoToOK DEF LoginFind, At, Step, RefreshStep, LoginStep
  <2>3. HandlersOK'
    BY <1>2, <2>1, <2>2 DEF LoginFind
  <2> QED
    BY <1>2, <2>3 DEF LoginFind, RowsOK, DevicesOK
<1>3. CASE LoginClose(h)
  <2> DEFINE w == [handler[h] EXCEPT !.pc = "open", !.sess = 0]
  <2>1. w \in HandlerType /\ w.pc = "open" /\ w.tab = handler[h].tab
    BY Carries, Bounds DEF HandlerType, Step
  <2>2. Become(h, w) /\ UNCHANGED <<issued, opened>>
    BY <1>3 DEF LoginClose
  <2> HIDE DEF w
  <2>3. WellFormed(w, issued, opened)
    BY <1>3, <2>1, Carries DEF LoginClose, At, WellFormed, RefreshStep, LoginStep
  <2>4. HandlersOK'
    BY <2>1, <2>2, <2>3, BecomeOK DEF RowsOK
  <2>5. RowsOK'
    BY <1>3, RevokeOK DEF LoginClose, RowsOK, WithoutOld
  <2> QED
    BY <1>3, <2>4, <2>5 DEF LoginClose, DevicesOK
<1>4. CASE LoginOpen(h)
  <2> DEFINE w == [handler[h] EXCEPT !.pc = "pair", !.sess = opened + 1]
  <2>1. opened' \in 0..MaxSession /\ opened' = opened + 1 /\ opened \in Nat
    BY <1>4, SessionAssumption DEF LoginOpen, RowsOK
  <2>2. w \in HandlerType /\ w.pc = "pair" /\ w.sess = opened' /\ w.tab = handler[h].tab
    BY <2>1, Carries DEF HandlerType, Step
  <2>3. Become(h, w) /\ issued' = issued
    BY <1>4 DEF LoginOpen
  <2> HIDE DEF w
  <2>4. WellFormed(w, issued, opened')
    BY <1>4, <2>1, <2>2, Carries DEF LoginOpen, At, WellFormed, RefreshStep, LoginStep
  <2>5. HandlersOK'
    BY <2>1, <2>2, <2>3, <2>4, BecomeOK DEF RowsOK
  <2>6. RowsOK'
    BY <1>4, <2>1 DEF LoginOpen, RowsOK
  <2>7. DevicesOK'
    BY <1>4, <2>1 DEF LoginOpen, DevicesOK
  <2> QED
    BY <2>5, <2>6, <2>7
<1>5. CASE LoginPair(h)
  <2> DEFINE w == [handler[h] EXCEPT !.pc = "loggedIn", !.pair = issued + 1]
  <2>1. NewPair(handler[h].sess) /\ Become(h, w)
    BY <1>5 DEF LoginPair
  <2>2. handler[h].sess \in 1..opened /\ handler[h].sess \in 0..MaxSession
    BY <1>5, Carries DEF LoginPair, At
  <2>3. /\ issued' = issued + 1 /\ issued' \in 0..MaxPair /\ issued' \in Nat /\ issued \in Nat
        /\ sess' \in [Pair -> 0..MaxSession]
    BY <2>1, <2>2, NewPairOK
  <2>4. w \in HandlerType /\ w.pc = "loggedIn" /\ w.pair = issued' /\ w.tab = handler[h].tab /\ w.sess = handler[h].sess
    BY <2>3, Carries DEF HandlerType, Step
  <2> HIDE DEF w
  <2>5. issued' \in 1..issued'
    BY <2>3
  <2>6. WellFormed(w, issued', opened)
    BY <1>5, <2>2, <2>4, <2>5, Carries DEF LoginPair, At, WellFormed, RefreshStep, LoginStep
  <2>7. HandlersOK'
    BY <1>5, <2>1, <2>3, <2>4, <2>6, BecomeOK DEF LoginPair, RowsOK
  <2>8. DevicesOK'
    BY <1>5, <2>3 DEF LoginPair, DevicesOK
  <2> QED
    BY <1>5, <2>3, <2>7, <2>8 DEF LoginPair, RowsOK
<1>6. CASE LoggedIn(h)
  <2>1. HandlersOK'
    BY <1>6, EndOK DEF LoggedIn
  <2>2. /\ DeviceOf[handler[h].tab] \in Device /\ handler[h].pair \in 0..issued
        /\ handler[h].sess \in 0..opened
    BY <1>6, Carries, OnDevice DEF LoggedIn, At, LoginStep
  <2> QED
    BY <1>6, <2>1, <2>2 DEF LoggedIn, RowsOK, DevicesOK
<1> QED
  BY <1>1, <1>2, <1>3, <1>4, <1>5, <1>6

LEMMA OtherTypes ==
  ASSUME TypeOK,
         \/ \E h \in Handler :
              \/ LogoutGuard(h) \/ LogoutRevoke(h) \/ LogoutClose(h) \/ PasswordRevoke(h) \/ PasswordClose(h)
              \/ Fail(h)
              \/ \E d \in Device : LogoutStart(h, d) \/ PasswordStart(h, d)
         \/ \E p \in Pair : GraceEnds(p)
         \/ Suspend \/ Unsuspend
  PROVE  TypeOK'
<1> USE DEF TypeOK
<1>1. ASSUME NEW h \in Handler, NEW d \in Device, LogoutStart(h, d) PROVE TypeOK'
  <2> DEFINE p == store[d]
  <2>1. p \in 1..issued /\ p \in 0..MaxPair
    BY <1>1, Bounds DEF LogoutStart, DevicesOK
  <2>2. Become(h, Request("guardOut", None, p)) /\ UNCHANGED <<issued, opened>>
    BY <1>1 DEF LogoutStart
  <2> HIDE DEF p
  <2>3. Request("guardOut", None, p) \in HandlerType /\ WellFormed(Request("guardOut", None, p), issued, opened)
    BY <2>1, RequestOK, Bounds
  <2>4. HandlersOK'
    BY <2>2, <2>3, BecomeOK, Bounds
  <2>5. DevicesOK'
    BY <1>1, Bounds DEF LogoutStart, DevicesOK, Wiped
  <2> QED
    BY <1>1, <2>4, <2>5 DEF LogoutStart, RowsOK
<1>2. ASSUME NEW h \in Handler, NEW d \in Device, PasswordStart(h, d) PROVE TypeOK'
  <2>1. Become(h, Request("revokeAll", None, 0)) /\ UNCHANGED <<issued, opened>>
    BY <1>2 DEF PasswordStart
  <2>2. Request("revokeAll", None, 0) \in HandlerType /\ WellFormed(Request("revokeAll", None, 0), issued, opened)
    BY RequestOK, Bounds
  <2>3. HandlersOK'
    BY <2>1, <2>2, BecomeOK, Bounds
  <2> QED
    BY <1>2, <2>3 DEF PasswordStart, RowsOK, DevicesOK
<1>3. ASSUME NEW h \in Handler, LogoutGuard(h) PROVE TypeOK'
  <2>1. CASE GoTo(h, "revokeOut")
    <3>1. handler[h].pair \in 1..issued
      BY <1>3, Carries DEF LogoutGuard, At
    <3>2. HandlersOK'
      BY <1>3, <2>1, <3>1, GoToOK DEF LogoutGuard, At, Step, RefreshStep, LoginStep
    <3> QED
      BY <1>3, <3>2 DEF LogoutGuard, RowsOK, DevicesOK
  <2>2. CASE End(h)
    BY <1>3, <2>2, EndOK DEF LogoutGuard, RowsOK, DevicesOK
  <2> QED
    BY <1>3, <2>1, <2>2 DEF LogoutGuard
<1>4. ASSUME NEW h \in Handler, LogoutRevoke(h) PROVE TypeOK'
  <2>1. handler[h].pair \in 1..issued
    BY <1>4, Carries DEF LogoutRevoke, At
  <2>2. HandlersOK'
    BY <1>4, <2>1, GoToOK DEF LogoutRevoke, At, Step, RefreshStep, LoginStep
  <2> QED
    BY <1>4, <2>2, RevokeOK DEF LogoutRevoke, RowsOK, DevicesOK
<1>5. ASSUME NEW h \in Handler, LogoutClose(h) PROVE TypeOK'
  BY <1>5, EndOK DEF LogoutClose, RowsOK, DevicesOK
<1>6. ASSUME NEW h \in Handler, PasswordRevoke(h) PROVE TypeOK'
  <2>1. HandlersOK'
    BY <1>6, GoToOK DEF PasswordRevoke, At, Step, RefreshStep, LoginStep
  <2> QED
    BY <1>6, <2>1, RevokeOK DEF PasswordRevoke, RowsOK, DevicesOK
<1>7. ASSUME NEW h \in Handler, PasswordClose(h) PROVE TypeOK'
  BY <1>7, EndOK DEF PasswordClose, RowsOK, DevicesOK
<1>8. ASSUME NEW h \in Handler, Fail(h) PROVE TypeOK'
  <2>1. faults' \in 0..MaxFaults
    BY <1>8, SessionAssumption DEF Fail, RowsOK
  <2> QED
    BY <1>8, <2>1, EndOK DEF Fail, RowsOK, DevicesOK
<1>9. ASSUME NEW p \in Pair, GraceEnds(p) PROVE TypeOK'
  BY <1>9, SameOK DEF GraceEnds, RowsOK, DevicesOK
<1>10. CASE Suspend
  <2>1. faults' \in 0..MaxFaults
    BY <1>10, SessionAssumption DEF Suspend, RowsOK
  <2>2. passed' \in BOOLEAN
    BY <1>10, Zenon DEF Suspend
  <2>3. RowsOK'
    BY <1>10, <2>1, RevokeOK DEF Suspend, RowsOK, SignedOut
  <2> QED
    BY <1>10, <2>2, <2>3, SameOK DEF Suspend, DevicesOK
<1>11. CASE Unsuspend
  BY <1>11, SameOK DEF Unsuspend, RowsOK, DevicesOK
<1> QED
  BY <1>1, <1>2, <1>3, <1>4, <1>5, <1>6, <1>7, <1>8, <1>9, <1>10, <1>11

-----------------------------------------------------------------------------
(* What a step does to the requests *)

Becomes(h, pc, tab, pair, ses) ==
  /\ handler'[h].pc = pc /\ handler'[h].tab = tab /\ handler'[h].pair = pair /\ handler'[h].sess = ses
  /\ \A g \in Handler : g # h => handler'[g] = handler[g]

LEMMA BecomeEffect ==
  ASSUME HandlersOK, NEW h \in Handler, NEW w, Become(h, w)
  PROVE  Becomes(h, w.pc, w.tab, w.pair, w.sess)
  BY DEF Become, Becomes, HandlersOK

LEMMA GoToEffect ==
  ASSUME RowsOK, HandlersOK, NEW h \in Handler, NEW pc \in Step, GoTo(h, pc)
  PROVE  Becomes(h, pc, handler[h].tab, handler[h].pair, handler[h].sess)
<1> DEFINE w == [handler[h] EXCEPT !.pc = pc]
<1>1. w.pc = pc /\ w.tab = handler[h].tab /\ w.pair = handler[h].pair /\ w.sess = handler[h].sess
  BY Carries DEF HandlerType
<1>2. Become(h, w)
  BY DEF GoTo
<1> HIDE DEF w
<1> QED
  BY <1>1, <1>2, BecomeEffect

LEMMA EndEffect ==
  ASSUME HandlersOK, NEW h \in Handler, End(h)
  PROVE  Becomes(h, "idle", None, 0, 0)
  BY BecomeEffect DEF End, Idle, Request

LEMMA RequestEffect ==
  ASSUME HandlersOK, NEW h \in Handler, NEW pc, NEW t, NEW p, Become(h, Request(pc, t, p))
  PROVE  Becomes(h, pc, t, p, 0)
  BY BecomeEffect DEF Request

LEMMA RefreshEffect ==
  ASSUME RowsOK, HandlersOK, NEW h \in Handler
  PROVE  /\ \A t \in Tab : RefreshStart(h, t) => Becomes(h, "check", t, store[DeviceOf[t]], 0)
         /\ RefreshCheck(h) =>
              IF Accepted(handler[h].pair)
              THEN Becomes(h, "rotate", handler[h].tab, handler[h].pair, handler[h].sess)
              ELSE Becomes(h, "denied", handler[h].tab, handler[h].pair, handler[h].sess)
         /\ RefreshRotate(h) => Becomes(h, "issue", handler[h].tab, handler[h].pair, handler[h].sess)
         /\ RefreshIssue(h) =>
              IF suspended THEN Becomes(h, "denied", handler[h].tab, handler[h].pair, handler[h].sess)
              ELSE Becomes(h, "refreshed", handler[h].tab, issued + 1, handler[h].sess)
<1>1. ASSUME NEW t \in Tab, RefreshStart(h, t) PROVE Becomes(h, "check", t, store[DeviceOf[t]], 0)
  BY <1>1, RequestEffect DEF RefreshStart
<1>2. ASSUME RefreshCheck(h)
      PROVE  IF Accepted(handler[h].pair)
             THEN Becomes(h, "rotate", handler[h].tab, handler[h].pair, handler[h].sess)
             ELSE Becomes(h, "denied", handler[h].tab, handler[h].pair, handler[h].sess)
  <2>1. CASE Accepted(handler[h].pair)
    <3> DEFINE w == [handler[h] EXCEPT !.pc = "rotate", !.seen = revoked[handler[h].pair]]
    <3>1. w.pc = "rotate" /\ w.tab = handler[h].tab /\ w.pair = handler[h].pair /\ w.sess = handler[h].sess
      BY Carries DEF HandlerType
    <3>2. Become(h, w)
      BY <1>2, <2>1 DEF RefreshCheck
    <3> HIDE DEF w
    <3> QED
      BY <2>1, <3>1, <3>2, BecomeEffect
  <2>2. CASE ~Accepted(handler[h].pair)
    BY <1>2, <2>2, GoToEffect DEF RefreshCheck, Step
  <2> QED
    BY <2>1, <2>2
<1>3. ASSUME RefreshRotate(h) PROVE Becomes(h, "issue", handler[h].tab, handler[h].pair, handler[h].sess)
  <2> DEFINE w == [handler[h] EXCEPT !.pc = "issue", !.seen = "no"]
  <2>1. w.pc = "issue" /\ w.tab = handler[h].tab /\ w.pair = handler[h].pair /\ w.sess = handler[h].sess
    BY Carries DEF HandlerType
  <2>2. Become(h, w)
    BY <1>3 DEF RefreshRotate
  <2> HIDE DEF w
  <2> QED
    BY <2>1, <2>2, BecomeEffect
<1>4. ASSUME RefreshIssue(h)
      PROVE  IF suspended THEN Becomes(h, "denied", handler[h].tab, handler[h].pair, handler[h].sess)
             ELSE Becomes(h, "refreshed", handler[h].tab, issued + 1, handler[h].sess)
  <2>1. CASE suspended
    BY <1>4, <2>1, GoToEffect DEF RefreshIssue, Step
  <2>2. CASE ~suspended
    <3> DEFINE w == [handler[h] EXCEPT !.pc = "refreshed", !.pair = issued + 1]
    <3>1. w.pc = "refreshed" /\ w.tab = handler[h].tab /\ w.pair = issued + 1 /\ w.sess = handler[h].sess
      BY Carries DEF HandlerType
    <3>2. Become(h, w)
      BY <1>4, <2>2 DEF RefreshIssue
    <3> HIDE DEF w
    <3> QED
      BY <2>2, <3>1, <3>2, BecomeEffect
  <2> QED
    BY <2>1, <2>2
<1> QED
  BY <1>1, <1>2, <1>3, <1>4

LEMMA LoginEffect ==
  ASSUME RowsOK, HandlersOK, NEW h \in Handler
  PROVE  /\ \A t \in Tab : LoginStart(h, t) => Becomes(h, "find", t, 0, 0)
         /\ LoginFind(h) =>
              \/ \E s \in active : Becomes(h, "close", handler[h].tab, handler[h].pair, s)
              \/ active = {} /\ Becomes(h, "open", handler[h].tab, handler[h].pair, handler[h].sess)
         /\ LoginClose(h) => Becomes(h, "open", handler[h].tab, handler[h].pair, 0)
         /\ LoginOpen(h) => Becomes(h, "pair", handler[h].tab, handler[h].pair, opened + 1)
         /\ LoginPair(h) => Becomes(h, "loggedIn", handler[h].tab, issued + 1, handler[h].sess)
<1>1. ASSUME NEW t \in Tab, LoginStart(h, t) PROVE Becomes(h, "find", t, 0, 0)
  BY <1>1, RequestEffect DEF LoginStart
<1>2. ASSUME LoginFind(h)
      PROVE  \/ \E s \in active : Becomes(h, "close", handler[h].tab, handler[h].pair, s)
             \/ active = {} /\ Becomes(h, "open", handler[h].tab, handler[h].pair, handler[h].sess)
  <2>1. ASSUME NEW s \in active, Become(h, [handler[h] EXCEPT !.pc = "close", !.sess = s])
        PROVE  Becomes(h, "close", handler[h].tab, handler[h].pair, s)
    <3> DEFINE w == [handler[h] EXCEPT !.pc = "close", !.sess = s]
    <3>1. w.pc = "close" /\ w.tab = handler[h].tab /\ w.pair = handler[h].pair /\ w.sess = s
      BY Carries DEF HandlerType
    <3>2. Become(h, w)
      BY <2>1
    <3> HIDE DEF w
    <3> QED
      BY <3>1, <3>2, BecomeEffect
  <2>2. ASSUME GoTo(h, "open") PROVE Becomes(h, "open", handler[h].tab, handler[h].pair, handler[h].sess)
    BY <2>2, GoToEffect DEF Step
  <2> QED
    BY <1>2, <2>1, <2>2 DEF LoginFind
<1>3. ASSUME LoginClose(h) PROVE Becomes(h, "open", handler[h].tab, handler[h].pair, 0)
  <2> DEFINE w == [handler[h] EXCEPT !.pc = "open", !.sess = 0]
  <2>1. w.pc = "open" /\ w.tab = handler[h].tab /\ w.pair = handler[h].pair /\ w.sess = 0
    BY Carries DEF HandlerType
  <2>2. Become(h, w)
    BY <1>3 DEF LoginClose
  <2> HIDE DEF w
  <2> QED
    BY <2>1, <2>2, BecomeEffect
<1>4. ASSUME LoginOpen(h) PROVE Becomes(h, "pair", handler[h].tab, handler[h].pair, opened + 1)
  <2> DEFINE w == [handler[h] EXCEPT !.pc = "pair", !.sess = opened + 1]
  <2>1. w.pc = "pair" /\ w.tab = handler[h].tab /\ w.pair = handler[h].pair /\ w.sess = opened + 1
    BY Carries DEF HandlerType
  <2>2. Become(h, w)
    BY <1>4 DEF LoginOpen
  <2> HIDE DEF w
  <2> QED
    BY <2>1, <2>2, BecomeEffect
<1>5. ASSUME LoginPair(h) PROVE Becomes(h, "loggedIn", handler[h].tab, issued + 1, handler[h].sess)
  <2> DEFINE w == [handler[h] EXCEPT !.pc = "loggedIn", !.pair = issued + 1]
  <2>1. w.pc = "loggedIn" /\ w.tab = handler[h].tab /\ w.pair = issued + 1 /\ w.sess = handler[h].sess
    BY Carries DEF HandlerType
  <2>2. Become(h, w)
    BY <1>5 DEF LoginPair
  <2> HIDE DEF w
  <2> QED
    BY <2>1, <2>2, BecomeEffect
<1> QED
  BY <1>1, <1>2, <1>3, <1>4, <1>5

\* The steps after which a tab does not wait: a request that has ended, or one
\* the browser does not wait for.
Leaves(h) == /\ handler'[h].pc \notin RefreshStep \cup LoginStep
             /\ \A g \in Handler : g # h => handler'[g] = handler[g]

LEMMA LeaveEffect ==
  ASSUME RowsOK, HandlersOK, NEW h \in Handler
  PROVE  /\ End(h) => Leaves(h)
         /\ \A d \in Device : LogoutStart(h, d) \/ PasswordStart(h, d) => Leaves(h)
         /\ LogoutGuard(h) \/ LogoutRevoke(h) \/ PasswordRevoke(h) => Leaves(h)
<1>1. ASSUME End(h) PROVE Leaves(h)
  BY <1>1, EndEffect DEF Becomes, Leaves, RefreshStep, LoginStep
<1>2. ASSUME NEW pc \in {"revokeOut", "closeOut", "closeAll"}, GoTo(h, pc) PROVE Leaves(h)
  BY <1>2, GoToEffect DEF Becomes, Leaves, RefreshStep, LoginStep, Step
<1>3. ASSUME NEW d \in Device, LogoutStart(h, d) PROVE Leaves(h)
  BY <1>3, RequestEffect DEF LogoutStart, Becomes, Leaves, RefreshStep, LoginStep
<1>4. ASSUME NEW d \in Device, PasswordStart(h, d) PROVE Leaves(h)
  BY <1>4, RequestEffect DEF PasswordStart, Becomes, Leaves, RefreshStep, LoginStep
<1> QED
  BY <1>1, <1>2, <1>3, <1>4 DEF LogoutGuard, LogoutRevoke, PasswordRevoke

\* The steps outside a refresh and a login, and what they have in common: no
\* session is opened, no row created, and nobody starts to wait.
Outside ==
  /\ active' \subseteq active /\ UNCHANGED <<opened, issued, sess>>
  /\ UNCHANGED handler \/ \E h \in Handler : Leaves(h)

LEMMA OutsideEffect ==
  ASSUME RowsOK, HandlersOK,
         \/ \E h \in Handler :
              \/ Refreshed(h) \/ Denied(h) \/ LoggedIn(h) \/ Fail(h)
              \/ LogoutGuard(h) \/ LogoutRevoke(h) \/ LogoutClose(h) \/ PasswordRevoke(h) \/ PasswordClose(h)
              \/ \E d \in Device : LogoutStart(h, d) \/ PasswordStart(h, d)
         \/ \E p \in Pair : GraceEnds(p)
         \/ Suspend \/ Unsuspend
  PROVE  Outside
<1>1. ASSUME NEW h \in Handler,
             Refreshed(h) \/ Denied(h) \/ LoggedIn(h) \/ Fail(h) \/ LogoutClose(h) \/ PasswordClose(h)
      PROVE  Outside
  <2>1. End(h)
    BY <1>1 DEF Refreshed, Denied, LoggedIn, Fail, LogoutClose, PasswordClose
  <2>2. active' \subseteq active /\ UNCHANGED <<opened, issued, sess>>
    BY <1>1 DEF Refreshed, Denied, LoggedIn, Fail, LogoutClose, PasswordClose
  <2> QED
    BY <2>1, <2>2, LeaveEffect DEF Outside
<1>2. ASSUME NEW h \in Handler,
             LogoutGuard(h) \/ LogoutRevoke(h) \/ PasswordRevoke(h)
      PROVE  Outside
  BY <1>2, LeaveEffect DEF Outside, LogoutGuard, LogoutRevoke, PasswordRevoke
<1>3. ASSUME NEW h \in Handler, NEW d \in Device, LogoutStart(h, d) \/ PasswordStart(h, d) PROVE Outside
  BY <1>3, LeaveEffect DEF Outside, LogoutStart, PasswordStart
<1>4. ASSUME NEW p \in Pair, GraceEnds(p) PROVE Outside
  BY <1>4 DEF Outside, GraceEnds
<1>5. CASE Suspend \/ Unsuspend
  BY <1>5 DEF Outside, Suspend, Unsuspend, SignedOut
<1> QED
  BY <1>1, <1>2, <1>3, <1>4, <1>5

-----------------------------------------------------------------------------
(* One session at a time *)

\* As long as no two logins overlapped: one session, one login that closes and
\* opens, and once it has read the session it closes no other is there.
Alone ==
  overlapped \/ /\ \A s, t \in active : s = t
                /\ \A g, h \in Handler : Opening(g) /\ Opening(h) => g = h
                /\ \A h \in Handler : /\ At(h, "close") => active \subseteq {handler[h].sess}
                                      /\ At(h, "open") => active = {}

\* Any step that opens no session and puts no login between its read and its write.
LEMMA AloneFrame ==
  ASSUME Alone, active' \subseteq active, overlapped' = overlapped,
         \A h \in Handler : handler'[h] = handler[h] \/ handler'[h].pc \notin {"close", "open"}
  PROVE  Alone'
  BY DEF Alone, Opening, At

LEMMA AloneStep ==
  ASSUME TypeOK, Alone, Next PROVE Alone'
<1> USE DEF TypeOK
<1>1. ASSUME NEW h \in Handler, LoginFind(h) PROVE Alone'
  <2>1. CASE overlapped'
    BY <2>1 DEF Alone
  <2>2. CASE ~overlapped'
    <3>1. ~overlapped /\ active' = active /\ \A g \in Handler : ~Opening(g)
      BY <1>1, <2>2 DEF LoginFind, DevicesOK
    <3>2. \/ \E s \in active : Becomes(h, "close", handler[h].tab, handler[h].pair, s)
          \/ active = {} /\ Becomes(h, "open", handler[h].tab, handler[h].pair, handler[h].sess)
      BY <1>1, LoginEffect
    <3> QED
      BY <3>1, <3>2 DEF Alone, Opening, At, Becomes
  <2> QED
    BY <2>1, <2>2
<1>2. ASSUME NEW h \in Handler, LoginClose(h) PROVE Alone'
  <2>1. Becomes(h, "open", handler[h].tab, handler[h].pair, 0)
    BY <1>2, LoginEffect
  <2>2. active' = active \ {handler[h].sess} /\ overlapped' = overlapped /\ At(h, "close")
    BY <1>2 DEF LoginClose, WithoutOld
  <2> QED
    BY <2>1, <2>2 DEF Alone, Opening, At, Becomes
<1>3. ASSUME NEW h \in Handler, LoginOpen(h) PROVE Alone'
  <2>1. Becomes(h, "pair", handler[h].tab, handler[h].pair, opened + 1)
    BY <1>3, LoginEffect
  <2>2. active' = active \cup {opened + 1} /\ overlapped' = overlapped /\ At(h, "open")
    BY <1>3 DEF LoginOpen
  <2> QED
    BY <2>1, <2>2 DEF Alone, Opening, At, Becomes
<1>4. ASSUME NEW h \in Handler, RefreshCheck(h) \/ RefreshRotate(h) \/ RefreshIssue(h) PROVE Alone'
  <2>1. \E pc \in {"rotate", "denied", "issue", "refreshed"} : \E t, p, s : Becomes(h, pc, t, p, s)
    BY <1>4, RefreshEffect
  <2>2. active' = active /\ overlapped' = overlapped
    BY <1>4 DEF RefreshCheck, RefreshRotate, RefreshIssue
  <2> QED
    BY <2>1, <2>2, AloneFrame DEF Becomes
<1>5. ASSUME NEW h \in Handler, NEW t \in Tab, RefreshStart(h, t) \/ LoginStart(h, t) PROVE Alone'
  <2>1. \E pc \in {"check", "find"} : \E p : Becomes(h, pc, t, p, 0)
    BY <1>5, RefreshEffect, LoginEffect
  <2>2. active' = active /\ overlapped' = overlapped
    BY <1>5 DEF RefreshStart, LoginStart
  <2> QED
    BY <2>1, <2>2, AloneFrame DEF Becomes
<1>6. ASSUME NEW h \in Handler, LoginPair(h) PROVE Alone'
  <2>1. Becomes(h, "loggedIn", handler[h].tab, issued + 1, handler[h].sess)
    BY <1>6, LoginEffect
  <2>2. active' = active /\ overlapped' = overlapped
    BY <1>6 DEF LoginPair
  <2> QED
    BY <2>1, <2>2, AloneFrame DEF Becomes
<1>7. ASSUME Outside, overlapped' = overlapped PROVE Alone'
  BY <1>7, AloneFrame DEF Outside, Leaves, LoginStep
<1> QED
  BY <1>1, <1>2, <1>3, <1>4, <1>5, <1>6, <1>7, OutsideEffect
     DEF Next, Refreshed, Denied, LoggedIn, Fail, LogoutGuard, LogoutRevoke, LogoutClose, PasswordRevoke,
         PasswordClose, LogoutStart, PasswordStart, GraceEnds, Suspend, Unsuspend

-----------------------------------------------------------------------------
(* A suspended account has no session *)

Barred == suspended /\ ~passed => active = {} /\ \A h \in Handler : handler[h].pc \notin {"find", "close", "open"}

LEMMA BarredFrame ==
  ASSUME Barred, active' \subseteq active, suspended' => suspended, passed' = passed,
         \A h \in Handler : handler'[h] = handler[h] \/ handler'[h].pc \notin {"find", "close", "open"}
  PROVE  Barred'
  BY DEF Barred

LEMMA BarredStep ==
  ASSUME TypeOK, Barred, Next PROVE Barred'
<1> USE DEF TypeOK
<1>1. ASSUME NEW h \in Handler, NEW t \in Tab, LoginStart(h, t) PROVE Barred'
  BY <1>1 DEF LoginStart, Barred
<1>2. ASSUME NEW h \in Handler, LoginFind(h) \/ LoginClose(h) \/ LoginOpen(h) PROVE Barred'
  BY <1>2 DEF LoginFind, LoginClose, LoginOpen, Barred, At
<1>3. ASSUME NEW h \in Handler, RefreshCheck(h) \/ RefreshRotate(h) \/ RefreshIssue(h) \/ LoginPair(h) PROVE Barred'
  <2>1. \E pc \in {"rotate", "denied", "issue", "refreshed", "loggedIn"} : \E t, p, s : Becomes(h, pc, t, p, s)
    BY <1>3, RefreshEffect, LoginEffect
  <2>2. active' = active /\ passed' = passed /\ suspended' = suspended
    BY <1>3 DEF RefreshCheck, RefreshRotate, RefreshIssue, LoginPair
  <2> QED
    BY <2>1, <2>2, BarredFrame DEF Becomes
<1>4. ASSUME NEW h \in Handler, NEW t \in Tab, RefreshStart(h, t) PROVE Barred'
  <2>1. Becomes(h, "check", t, store[DeviceOf[t]], 0)
    BY <1>4, RefreshEffect
  <2>2. active' = active /\ passed' = passed /\ suspended' = suspended
    BY <1>4 DEF RefreshStart
  <2> QED
    BY <2>1, <2>2, BarredFrame DEF Becomes
<1>5. CASE Suspend
  <2>1. passed' = (\E h \in Handler : handler[h].pc \in {"find", "close", "open"}) /\ active' = {} /\ handler' = handler
    BY <1>5, Zenon DEF Suspend, SignedOut
  <2> QED
    BY <2>1 DEF Barred
<1>6. ASSUME Outside, suspended' => suspended, passed' = passed PROVE Barred'
  BY <1>6, BarredFrame DEF Outside, Leaves, LoginStep
<1>7. ASSUME NEW h \in Handler,
             \/ Refreshed(h) \/ Denied(h) \/ LoggedIn(h) \/ Fail(h)
             \/ LogoutGuard(h) \/ LogoutRevoke(h) \/ LogoutClose(h) \/ PasswordRevoke(h) \/ PasswordClose(h)
             \/ \E d \in Device : LogoutStart(h, d) \/ PasswordStart(h, d)
      PROVE  Barred'
  <2>1. suspended' = suspended /\ passed' = passed
    BY <1>7 DEF Refreshed, Denied, LoggedIn, Fail, LogoutGuard, LogoutRevoke, LogoutClose, PasswordRevoke,
                PasswordClose, LogoutStart, PasswordStart
  <2> QED
    BY <1>6, <1>7, <2>1, OutsideEffect
<1>8. CASE Unsuspend \/ \E p \in Pair : GraceEnds(p)
  <2>1. (suspended' => suspended) /\ passed' = passed
    BY <1>8 DEF Unsuspend, GraceEnds
  <2> QED
    BY <1>6, <1>8, <2>1, OutsideEffect
<1> QED
  BY <1>1, <1>2, <1>3, <1>4, <1>5, <1>7, <1>8 DEF Next

-----------------------------------------------------------------------------
(* A logout sticks *)

Emptied == \A d \in Device : mine[d] = 0 /\ d \notin stray => store[d] = 0 /\ ~Refreshing(d)

LEMMA EmptiedFrame ==
  ASSUME Emptied, UNCHANGED <<store, mine, stray>>,
         \A h \in Handler : handler'[h].pc \in RefreshStep
                           => handler[h].pc \in RefreshStep /\ handler'[h].tab = handler[h].tab
  PROVE  Emptied'
  BY DEF Emptied, Refreshing

LEMMA EmptiedStep ==
  ASSUME TypeOK, Emptied, Next PROVE Emptied'
<1> USE DEF TypeOK
<1>1. ASSUME NEW h \in Handler, NEW t \in Tab, RefreshStart(h, t) PROVE Emptied'
  <2>1. Becomes(h, "check", t, store[DeviceOf[t]], 0)
    BY <1>1, RefreshEffect
  <2>2. store[DeviceOf[t]] # 0 /\ UNCHANGED <<store, mine, stray>>
    BY <1>1 DEF RefreshStart
  <2> QED
    BY <2>1, <2>2 DEF Emptied, Refreshing, Becomes
<1>2. ASSUME NEW h \in Handler, RefreshCheck(h) \/ RefreshRotate(h) \/ RefreshIssue(h) PROVE Emptied'
  <2>1. \E pc, p, s : Becomes(h, pc, handler[h].tab, p, s)
    BY <1>2, RefreshEffect
  <2>2. handler[h].pc \in RefreshStep /\ UNCHANGED <<store, mine, stray>>
    BY <1>2 DEF RefreshCheck, RefreshRotate, RefreshIssue, At, RefreshStep
  <2> QED
    BY <2>1, <2>2, EmptiedFrame DEF Becomes
<1>3. ASSUME NEW h \in Handler, Refreshed(h) \/ Denied(h) PROVE Emptied'
  <2> DEFINE d == DeviceOf[handler[h].tab]
  <2>1. Leaves(h)
    BY <1>3, LeaveEffect DEF Refreshed, Denied
  <2>2. handler[h].pc \in RefreshStep /\ mine' = mine /\ stray' = stray
    BY <1>3 DEF Refreshed, Denied, At, RefreshStep
  <2>3. \A e \in Device : e # d => store'[e] = store[e]
    BY <1>3 DEF Refreshed, Denied, DevicesOK
  <2>4. Refreshing(d)
    BY <2>2 DEF Refreshing
  <2> HIDE DEF d
  <2> QED
    BY <2>1, <2>2, <2>3, <2>4 DEF Emptied, Refreshing, Leaves
<1>4. ASSUME NEW h \in Handler, LoggedIn(h) PROVE Emptied'
  <2> DEFINE d == DeviceOf[handler[h].tab]
  <2>1. Leaves(h)
    BY <1>4, LeaveEffect DEF LoggedIn
  <2>2. d \in Device /\ handler[h].sess # 0
    BY <1>4, OnDevice, Carries DEF LoggedIn, At, LoginStep
  <2>3. mine'[d] # 0
    BY <1>4, <2>2 DEF LoggedIn, DevicesOK
  <2>4. \A e \in Device : e # d => store'[e] = store[e] /\ mine'[e] = mine[e] /\ (e \in stray' <=> e \in stray)
    BY <1>4 DEF LoggedIn, DevicesOK
  <2> HIDE DEF d
  <2> QED
    BY <2>1, <2>3, <2>4 DEF Emptied, Refreshing, Leaves
<1>5. ASSUME NEW h \in Handler, NEW d \in Device, LogoutStart(h, d) PROVE Emptied'
  <2>1. Leaves(h)
    BY <1>5, LeaveEffect
  <2>2. /\ store'[d] = 0
        /\ \A e \in Device : e # d => store'[e] = store[e] /\ mine'[e] = mine[e] /\ (e \in stray' <=> e \in stray)
    BY <1>5 DEF LogoutStart, Wiped, DevicesOK
  <2>3. d \in stray' \/ ~Refreshing(d)
    BY <1>5 DEF LogoutStart
  <2> QED
    BY <2>1, <2>2, <2>3 DEF Emptied, Refreshing, Leaves
<1>6. ASSUME NEW h \in Handler,
             \/ LoginFind(h) \/ LoginClose(h) \/ LoginOpen(h) \/ LoginPair(h)
             \/ \E t \in Tab : LoginStart(h, t)
      PROVE  Emptied'
  <2>1. \E pc \in LoginStep : \E t, p, s : Becomes(h, pc, t, p, s)
    BY <1>6, LoginEffect DEF LoginStep
  <2>2. UNCHANGED <<store, mine, stray>>
    BY <1>6 DEF LoginFind, LoginClose, LoginOpen, LoginPair, LoginStart
  <2> QED
    BY <2>1, <2>2, EmptiedFrame DEF Becomes, LoginStep, RefreshStep
<1>7. ASSUME \/ \E h \in Handler :
                  \/ LogoutGuard(h) \/ LogoutRevoke(h) \/ LogoutClose(h) \/ PasswordRevoke(h) \/ PasswordClose(h)
                  \/ Fail(h) \/ \E d \in Device : PasswordStart(h, d)
             \/ \E p \in Pair : GraceEnds(p)
             \/ Suspend \/ Unsuspend
      PROVE  Emptied'
  <2>1. UNCHANGED <<store, mine, stray>>
    BY <1>7 DEF LogoutGuard, LogoutRevoke, LogoutClose, PasswordRevoke, PasswordClose, Fail, PasswordStart,
                GraceEnds, Suspend, Unsuspend
  <2>2. Outside
    BY <1>7, OutsideEffect
  <2> QED
    BY <2>1, <2>2, EmptiedFrame DEF Outside, Leaves
<1> QED
  BY <1>1, <1>2, <1>3, <1>4, <1>5, <1>6, <1>7 DEF Next

-----------------------------------------------------------------------------
(* A device stays signed in *)

\* A pair that is still on its way is on no device and in no other request.
Unstored == {"refreshed", "loggedIn"}

Fresh ==
  \A h \in Handler : handler[h].pc \in Unstored =>
    /\ \A d \in Device : store[d] # handler[h].pair
    /\ \A g \in Handler : g # h /\ handler[g].pc \in RefreshStep \cup {"loggedIn"}
                          => handler[g].pair # handler[h].pair

LEMMA FreshFrame ==
  ASSUME Fresh,
         store' = store,
         \A h \in Handler : handler'[h].pc \in Unstored => handler[h].pc \in Unstored /\ handler'[h].pair = handler[h].pair,
         \A h \in Handler : handler'[h].pc \in RefreshStep =>
                             handler[h].pc \in RefreshStep /\ handler'[h].pair = handler[h].pair
  PROVE  Fresh'
  BY DEF Fresh, Unstored, RefreshStep

LEMMA FreshStep ==
  ASSUME TypeOK, Fresh, Next PROVE Fresh'
<1> USE DEF TypeOK
<1>1. ASSUME NEW h \in Handler, NEW t \in Tab, RefreshStart(h, t) PROVE Fresh'
  <2>1. Becomes(h, "check", t, store[DeviceOf[t]], 0)
    BY <1>1, RefreshEffect
  <2>2. store' = store /\ DeviceOf[t] \in Device
    BY <1>1, SessionAssumption DEF RefreshStart
  <2> QED
    BY <2>1, <2>2 DEF Fresh, Becomes, Unstored, RefreshStep
<1>2. ASSUME NEW h \in Handler, RefreshCheck(h) \/ RefreshRotate(h) \/ (RefreshIssue(h) /\ suspended) PROVE Fresh'
  <2>1. \E pc \in {"rotate", "denied", "issue"} : \E t, s : Becomes(h, pc, t, handler[h].pair, s)
    BY <1>2, RefreshEffect
  <2>2. handler[h].pc \in RefreshStep /\ store' = store
    BY <1>2 DEF RefreshCheck, RefreshRotate, RefreshIssue, At, RefreshStep
  <2> QED
    BY <2>1, <2>2, FreshFrame DEF Becomes, Unstored
<1>3. ASSUME NEW h \in Handler, (RefreshIssue(h) /\ ~suspended) \/ LoginPair(h) PROVE Fresh'
  <2>1. \E pc \in Unstored : \E t, s : Becomes(h, pc, t, issued + 1, s)
    BY <1>3, RefreshEffect, LoginEffect DEF Unstored
  <2>2. store' = store /\ \A d \in Device : store[d] # issued + 1
    BY <1>3, Bounds DEF RefreshIssue, LoginPair, DevicesOK
  <2>3. \A g \in Handler : handler[g].pc \in RefreshStep \cup {"loggedIn"} => handler[g].pair # issued + 1
    BY Carries, Bounds
  <2> QED
    BY <2>1, <2>2, <2>3 DEF Fresh, Becomes, Unstored, RefreshStep
<1>4. ASSUME NEW h \in Handler, Refreshed(h) \/ LoggedIn(h) PROVE Fresh'
  <2> DEFINE d == DeviceOf[handler[h].tab]
  <2>1. Leaves(h)
    BY <1>4, LeaveEffect DEF Refreshed, LoggedIn
  <2>2. handler[h].pc \in Unstored /\ store' = [store EXCEPT ![d] = handler[h].pair]
    BY <1>4 DEF Refreshed, LoggedIn, At, Unstored
  <2>3. \A e \in Device : store'[e] = store[e] \/ store'[e] = handler[h].pair
    BY <2>2 DEF DevicesOK
  <2> QED
    BY <2>1, <2>2, <2>3 DEF Fresh, Leaves, Unstored, RefreshStep, LoginStep
<1>5. ASSUME NEW h \in Handler, Denied(h) \/ \E d \in Device : LogoutStart(h, d) PROVE Fresh'
  <2>1. Leaves(h)
    BY <1>5, LeaveEffect DEF Denied
  <2>2. \A e \in Device : store'[e] = store[e] \/ store'[e] = 0
    BY <1>5 DEF Denied, LogoutStart, Wiped, DevicesOK
  <2>3. \A g \in Handler : handler[g].pc \in Unstored => handler[g].pair # 0
    BY Carries DEF Unstored, RefreshStep
  <2> QED
    BY <2>1, <2>2, <2>3 DEF Fresh, Leaves, Unstored, RefreshStep, LoginStep
<1>6. ASSUME NEW h \in Handler,
             \/ LoginFind(h) \/ LoginClose(h) \/ LoginOpen(h)
             \/ \E t \in Tab : LoginStart(h, t)
      PROVE  Fresh'
  <2>1. \E pc \in {"find", "close", "open", "pair"} : \E t, p, s : Becomes(h, pc, t, p, s)
    BY <1>6, LoginEffect
  <2>2. store' = store
    BY <1>6 DEF LoginFind, LoginClose, LoginOpen, LoginStart
  <2> QED
    BY <2>1, <2>2, FreshFrame DEF Becomes, Unstored, RefreshStep
<1>7. ASSUME \/ \E h \in Handler :
                  \/ LogoutGuard(h) \/ LogoutRevoke(h) \/ LogoutClose(h) \/ PasswordRevoke(h) \/ PasswordClose(h)
                  \/ Fail(h) \/ \E d \in Device : PasswordStart(h, d)
             \/ \E p \in Pair : GraceEnds(p)
             \/ Suspend \/ Unsuspend
      PROVE  Fresh'
  <2>1. store' = store
    BY <1>7 DEF LogoutGuard, LogoutRevoke, LogoutClose, PasswordRevoke, PasswordClose, Fail, PasswordStart,
                GraceEnds, Suspend, Unsuspend
  <2>2. Outside
    BY <1>7, OutsideEffect
  <2> QED
    BY <2>1, <2>2, FreshFrame DEF Outside, Leaves, Unstored, RefreshStep, LoginStep
<1> QED
  BY <1>1, <1>2, <1>3, <1>4, <1>5, <1>6, <1>7 DEF Next

\* The pair a login returns is one of the session it opened.
Signed == \A h \in Handler : handler[h].pc = "loggedIn" => sess[handler[h].pair] = handler[h].sess

LEMMA SignedStep ==
  ASSUME TypeOK, Signed, Next PROVE Signed'
<1> USE DEF TypeOK
<1>1. ASSUME NEW h \in Handler, LoginPair(h) PROVE Signed'
  <2>1. Becomes(h, "loggedIn", handler[h].tab, issued + 1, handler[h].sess)
    BY <1>1, LoginEffect
  <2>2. handler[h].sess \in 0..MaxSession /\ NewPair(handler[h].sess)
    BY <1>1, Carries DEF LoginPair
  <2>3. issued' = issued + 1 /\ sess'[issued'] = handler[h].sess /\ \A p \in 1..issued : sess'[p] = sess[p]
    BY <2>2, NewPairOK
  <2>4. \A g \in Handler : handler[g].pc = "loggedIn" => handler[g].pair \in 1..issued
    BY Carries
  <2> QED
    BY <2>1, <2>3, <2>4 DEF Signed, Becomes
<1>2. ASSUME NEW h \in Handler, RefreshIssue(h) PROVE Signed'
  <2>1. \E pc \in {"denied", "refreshed"} : \E t, p, s : Becomes(h, pc, t, p, s)
    BY <1>2, RefreshEffect
  <2>2. \A p \in 1..issued : sess'[p] = sess[p]
    <3>1. handler[h].pc \in RefreshStep
      BY <1>2 DEF RefreshIssue, At, RefreshStep
    <3>2. sess[handler[h].pair] \in 0..MaxSession
      BY <3>1, Carries DEF RowsOK
    <3> QED
      BY <1>2, <3>2, NewPairOK DEF RefreshIssue
  <2>3. \A g \in Handler : handler[g].pc = "loggedIn" => handler[g].pair \in 1..issued
    BY Carries
  <2> QED
    BY <2>1, <2>2, <2>3 DEF Signed, Becomes
<1>3. ASSUME NEW h \in Handler,
             \/ RefreshCheck(h) \/ RefreshRotate(h) \/ LoginFind(h) \/ LoginClose(h) \/ LoginOpen(h)
             \/ \E t \in Tab : RefreshStart(h, t) \/ LoginStart(h, t)
      PROVE  Signed'
  <2>1. \E pc \in Step \ {"loggedIn"} : \E t, p, s : Becomes(h, pc, t, p, s)
    BY <1>3, RefreshEffect, LoginEffect DEF Step
  <2>2. sess' = sess
    BY <1>3 DEF RefreshCheck, RefreshRotate, LoginFind, LoginClose, LoginOpen, RefreshStart, LoginStart
  <2> QED
    BY <2>1, <2>2 DEF Signed, Becomes
<1>4. ASSUME Outside PROVE Signed'
  BY <1>4 DEF Signed, Outside, Leaves, LoginStep
<1> QED
  BY <1>1, <1>2, <1>3, <1>4, OutsideEffect DEF Next

\* A device that is not excused and whose last login is still open holds a pair
\* of that session that is accepted; so do its refreshes, and one that was
\* refused all the same has been overtaken.
Kept ==
  passed \/ \A d \in Device : mine[d] \in active /\ d \notin excused =>
    /\ store[d] # 0 /\ sess[store[d]] = mine[d] /\ revoked[store[d]] # "old"
    /\ \A h \in Handler : handler[h].pc \in RefreshStep /\ DeviceOf[handler[h].tab] = d =>
         sess[handler[h].pair] = mine[d] /\ (handler[h].pc = "denied" => handler[h].pair # store[d])

LEMMA KeptFrame ==
  ASSUME TypeOK, Kept, UNCHANGED <<store, mine, excused, passed>>,
         \A d \in Device : mine[d] \in active' => mine[d] \in active,
         \A p \in 1..issued : sess'[p] = sess[p] /\ (revoked'[p] = "old" => revoked[p] = "old"),
         \A h \in Handler : handler'[h].pc \in RefreshStep =>
           /\ handler[h].pc \in RefreshStep /\ handler'[h].tab = handler[h].tab
           /\ sess'[handler'[h].pair] = sess[handler[h].pair]
           /\ handler'[h].pc = "denied" => handler[h].pc = "denied" /\ handler'[h].pair = handler[h].pair
  PROVE  Kept'
<1>1. \A d \in Device : store[d] # 0 => store[d] \in 1..issued
  BY Bounds DEF TypeOK, DevicesOK
<1> QED
  BY <1>1 DEF Kept

LEMMA RevokeKept ==
  ASSUME RowsOK, NEW P, RevokeAll(P) PROVE \A p \in 1..issued : revoked'[p] = "old" => revoked[p] = "old"
  BY Bounds DEF RevokeAll, RowsOK

LEMMA HandlersPairs ==
  ASSUME RowsOK, HandlersOK, NEW h \in Handler, handler[h].pc \in RefreshStep
  PROVE  handler[h].pair \in 1..issued /\ handler[h].pair \in Pair /\ sess[handler[h].pair] \in 0..MaxSession
  BY Carries DEF RowsOK

LEMMA KeptRefresh ==
  ASSUME TypeOK, Kept, Barred, NEW h \in Handler, RefreshCheck(h) \/ RefreshRotate(h) \/ RefreshIssue(h)
  PROVE  Kept'
<1> USE DEF TypeOK
<1> DEFINE p == handler[h].pair
<1>0. /\ handler[h].pc \in RefreshStep /\ p \in 1..issued /\ p \in Pair /\ sess[p] \in 0..MaxSession
      /\ UNCHANGED <<store, mine, excused, passed, active>>
  <2>1. handler[h].pc \in RefreshStep
    BY DEF RefreshCheck, RefreshRotate, RefreshIssue, At, RefreshStep
  <2> QED
    BY <2>1, HandlersPairs DEF RefreshCheck, RefreshRotate, RefreshIssue
<1>1. CASE RefreshCheck(h)
  <2>1. UNCHANGED <<sess, revoked>>
    BY <1>1 DEF RefreshCheck
  <2>2. CASE Accepted(p)
    <3>1. Becomes(h, "rotate", handler[h].tab, p, handler[h].sess)
      BY <1>1, <2>2, RefreshEffect
    <3> QED
      BY <1>0, <2>1, <3>1, KeptFrame DEF Becomes
  <2>3. CASE ~Accepted(p)
    <3>1. Becomes(h, "denied", handler[h].tab, p, handler[h].sess)
      BY <1>1, <2>3, RefreshEffect
    <3>2. revoked[p] = "old" \/ sess[p] \notin active
      BY <2>3 DEF Accepted
    <3> HIDE DEF p
    <3>3. p = handler[h].pair
      BY DEF p
    <3> QED
      BY <1>0, <2>1, <3>1, <3>2, <3>3 DEF Kept, Becomes
  <2> QED
    BY <2>2, <2>3
<1>2. CASE RefreshRotate(h)
  <2>1. Becomes(h, "issue", handler[h].tab, p, handler[h].sess)
    BY <1>2, RefreshEffect
  <2>2. sess' = sess /\ \A q \in 1..issued : revoked'[q] = "old" => revoked[q] = "old"
    BY <1>0, <1>2, Bounds DEF RefreshRotate, RowsOK
  <2> QED
    BY <1>0, <2>1, <2>2, KeptFrame DEF Becomes
<1>3. CASE RefreshIssue(h) /\ suspended
  <2>1. passed \/ active = {}
    BY <1>3 DEF Barred
  <2> QED
    BY <1>0, <2>1 DEF Kept
<1>4. CASE RefreshIssue(h) /\ ~suspended
  <2>1. Becomes(h, "refreshed", handler[h].tab, issued + 1, handler[h].sess)
    BY <1>4, RefreshEffect
  <2>2. NewPair(sess[p]) /\ revoked' = revoked
    BY <1>4 DEF RefreshIssue
  <2>3. issued' = issued + 1 /\ sess'[issued'] = sess[p] /\ \A q \in 1..issued : sess'[q] = sess[q]
    BY <1>0, <2>2, NewPairOK
  <2>4. \A g \in Handler : handler[g].pc \in RefreshStep => handler[g].pair \in 1..issued
    BY HandlersPairs
  <2> HIDE DEF p
  <2>5. p = handler[h].pair
    BY DEF p
  <2> QED
    BY <1>0, <2>1, <2>2, <2>3, <2>4, <2>5, KeptFrame DEF Becomes
<1> QED
  BY <1>1, <1>2, <1>3, <1>4

LEMMA KeptAnswer ==
  ASSUME TypeOK, Kept, Fresh, Signed, NEW h \in Handler, Refreshed(h) \/ Denied(h) \/ LoggedIn(h)
  PROVE  Kept'
<1> USE DEF TypeOK
<1> DEFINE d == DeviceOf[handler[h].tab]
           p == handler[h].pair
<1>0. /\ Leaves(h) /\ d \in Device /\ p \in 1..issued /\ p # 0
      /\ UNCHANGED <<active, sess, revoked, passed>>
  <2>1. handler[h].pc \in RefreshStep \cup {"loggedIn"}
    BY DEF Refreshed, Denied, LoggedIn, At, RefreshStep
  <2>2. handler[h].pc \in RefreshStep \cup LoginStep
    BY <2>1 DEF LoginStep
  <2> QED
    BY <2>1, <2>2, Carries, OnDevice, LeaveEffect DEF Refreshed, Denied, LoggedIn
<1>1. CASE Refreshed(h)
  <2>1. /\ handler[h].pc = "refreshed" /\ mine' = mine /\ store'[d] = p
        /\ revoked[p] = "old" => d \in excused'
        /\ excused \subseteq excused'
        /\ \A e \in Device : e # d => store'[e] = store[e]
    BY <1>0, <1>1 DEF Refreshed, At, DevicesOK
  <2>2. \A g \in Handler : g # h /\ handler[g].pc \in RefreshStep => handler[g].pair # p
    BY <2>1 DEF Fresh, Unstored
  <2>3. d = DeviceOf[handler[h].tab] /\ p = handler[h].pair
    OBVIOUS
  <2> HIDE DEF d, p
  <2> QED
    BY <1>0, <2>1, <2>2, <2>3 DEF Kept, Leaves, RefreshStep, LoginStep
<1>2. CASE Denied(h)
  <2>1. /\ handler[h].pc = "denied" /\ mine' = mine /\ excused' = excused
        /\ store[d] # 0 /\ store[d] # p => store'[d] = store[d]
        /\ \A e \in Device : e # d => store'[e] = store[e]
    BY <1>0, <1>2 DEF Denied, At, DevicesOK, Replaced
  <2>2. d = DeviceOf[handler[h].tab] /\ p = handler[h].pair
    OBVIOUS
  <2> HIDE DEF d, p
  <2> QED
    BY <1>0, <2>1, <2>2 DEF Kept, Leaves, RefreshStep, LoginStep
<1>3. CASE LoggedIn(h)
  <2>1. /\ handler[h].pc = "loggedIn" /\ store'[d] = p
        /\ \A e \in Device : e # d => store'[e] = store[e] /\ mine'[e] = mine[e] /\ (e \in excused' <=> e \in excused)
        /\ mine'[d] = handler[h].sess
        /\ d \notin excused' => ~Refreshing(d) /\ revoked[p] # "old"
    BY <1>0, <1>3 DEF LoggedIn, At, DevicesOK
  <2>2. sess[p] = handler[h].sess
    BY <2>1 DEF Signed
  <2>3. d = DeviceOf[handler[h].tab] /\ p = handler[h].pair
    OBVIOUS
  <2> HIDE DEF d, p
  <2> QED
    BY <1>0, <2>1, <2>2, <2>3 DEF Kept, Leaves, Refreshing, RefreshStep, LoginStep
<1> QED
  BY <1>1, <1>2, <1>3

LEMMA KeptLogin ==
  ASSUME TypeOK, Kept, NEW h \in Handler,
         \/ LoginFind(h) \/ LoginClose(h) \/ LoginOpen(h) \/ LoginPair(h)
         \/ \E t \in Tab : LoginStart(h, t)
  PROVE  Kept'
<1> USE DEF TypeOK
<1>1. \E pc \in LoginStep : \E t, p, s : Becomes(h, pc, t, p, s)
  BY LoginEffect DEF LoginStep
<1>2. UNCHANGED <<store, mine, excused, passed>>
  BY DEF LoginFind, LoginClose, LoginOpen, LoginPair, LoginStart
<1>3. \A d \in Device : mine[d] \in active' => mine[d] \in active
  <2>1. active' \subseteq active \cup {opened + 1}
    BY DEF LoginFind, LoginClose, LoginOpen, LoginPair, LoginStart, WithoutOld
  <2>2. \A d \in Device : mine[d] # opened + 1
    BY Bounds DEF DevicesOK
  <2> QED
    BY <2>1, <2>2
<1>4. \A p \in 1..issued : sess'[p] = sess[p] /\ (revoked'[p] = "old" => revoked[p] = "old")
  <2>1. CASE LoginPair(h)
    <3>1. handler[h].sess \in 0..MaxSession /\ NewPair(handler[h].sess) /\ revoked' = revoked
      BY <2>1, Carries DEF LoginPair
    <3> QED
      BY <3>1, NewPairOK
  <2>2. CASE ~LoginPair(h)
    BY <2>2, RevokeKept DEF LoginFind, LoginClose, LoginOpen, LoginStart
  <2> QED
    BY <2>1, <2>2
<1>5. \A g \in Handler : handler[g].pc \in RefreshStep => handler[g].pair \in 1..issued
  BY HandlersPairs
<1> QED
  BY <1>1, <1>2, <1>3, <1>4, <1>5, KeptFrame DEF Becomes, LoginStep, RefreshStep

LEMMA KeptStep ==
  ASSUME TypeOK, Barred, Fresh, Signed, Kept, Next PROVE Kept'
<1> USE DEF TypeOK
<1>1. ASSUME NEW h \in Handler, NEW t \in Tab, RefreshStart(h, t) PROVE Kept'
  <2>1. Becomes(h, "check", t, store[DeviceOf[t]], 0)
    BY <1>1, RefreshEffect
  <2>2. UNCHANGED <<store, mine, excused, passed, active, sess, revoked>>
    BY <1>1 DEF RefreshStart
  <2> QED
    BY <2>1, <2>2 DEF Kept, Becomes
<1>2. ASSUME NEW h \in Handler, NEW d \in Device, LogoutStart(h, d) PROVE Kept'
  <2>1. Leaves(h)
    BY <1>2, LeaveEffect
  <2>2. mine'[d] = 0 /\ 0 \notin active /\ UNCHANGED <<excused, passed, active, sess, revoked>>
    BY <1>2, Bounds DEF LogoutStart, DevicesOK, RowsOK
  <2>3. \A e \in Device : e # d => store'[e] = store[e] /\ mine'[e] = mine[e]
    BY <1>2 DEF LogoutStart, Wiped, DevicesOK
  <2> QED
    BY <2>1, <2>2, <2>3 DEF Kept, Leaves, RefreshStep, LoginStep
<1>3. ASSUME NEW p \in Pair, GraceEnds(p) PROVE Kept'
  <2>1. /\ UNCHANGED <<handler, store, mine, passed, active, sess>> /\ excused \subseteq excused'
        /\ \A d \in Device : store[d] = p => d \in excused'
        /\ \A q \in Pair : q # p => revoked'[q] = revoked[q]
    BY <1>3 DEF GraceEnds, RowsOK
  <2>2. \A d \in Device : store[d] # 0 => store[d] \in Pair
    BY Bounds DEF DevicesOK
  <2> QED
    BY <2>1, <2>2 DEF Kept
<1>4. CASE Suspend
  <2>1. active' = {}
    BY <1>4 DEF Suspend, SignedOut
  <2> QED
    BY <2>1 DEF Kept
<1>5. ASSUME NEW h \in Handler,
             \/ LogoutGuard(h) \/ LogoutRevoke(h) \/ LogoutClose(h) \/ PasswordRevoke(h) \/ PasswordClose(h)
             \/ Fail(h) \/ \E d \in Device : PasswordStart(h, d)
      PROVE  Kept'
  <2>1. Outside
    BY <1>5, OutsideEffect
  <2>2. UNCHANGED <<store, mine, excused, passed>>
    BY <1>5 DEF LogoutGuard, LogoutRevoke, LogoutClose, PasswordRevoke, PasswordClose, Fail, PasswordStart
  <2>3. \A p \in 1..issued : revoked'[p] = "old" => revoked[p] = "old"
    BY <1>5, RevokeKept DEF LogoutGuard, LogoutRevoke, LogoutClose, PasswordRevoke, PasswordClose, Fail, PasswordStart
  <2> QED
    BY <2>1, <2>2, <2>3, KeptFrame DEF Outside, Leaves
<1>6. CASE Unsuspend
  BY <1>6, KeptFrame DEF Unsuspend
<1> QED
  BY <1>1, <1>2, <1>3, <1>4, <1>5, <1>6, KeptRefresh, KeptAnswer, KeptLogin DEF Next

-----------------------------------------------------------------------------
(* Theorems *)

IInv == TypeOK /\ Alone /\ Barred /\ Emptied /\ Fresh /\ Signed /\ Kept

LEMMA InitInv == Init => IInv
<1> SUFFICES ASSUME Init PROVE IInv
  OBVIOUS
<1>1. \A h \in Handler : handler[h] = Idle /\ handler[h].pc = "idle"
  BY DEF Init, Idle, Request
<1>2. HandlersOK
  BY <1>1, IdleOK DEF Init, HandlersOK
<1>3. RowsOK
  <2>1. 0 \in 0..MaxSession /\ 0 \in 0..MaxPair /\ 0 \in 0..MaxFaults
    BY SessionAssumption
  <2>2. sess \in [Pair -> 0..MaxSession] /\ revoked \in [Pair -> {"no", "recent", "old"}]
    BY <2>1 DEF Init
  <2>3. active \subseteq 1..opened /\ suspended \in BOOLEAN
    BY DEF Init
  <2> QED
    BY <2>1, <2>2, <2>3 DEF Init, RowsOK
<1>7. DevicesOK
  BY <1>3, Bounds DEF Init, DevicesOK
<1>4. Alone /\ Barred
  BY <1>1 DEF Init, Alone, Barred, Opening, At
<1>5. Emptied /\ Fresh /\ Signed
  BY <1>1 DEF Init, Emptied, Fresh, Signed, Unstored, Refreshing, RefreshStep
<1>6. Kept
  BY DEF Init, Kept
<1> QED
  BY <1>2, <1>3, <1>4, <1>5, <1>6, <1>7 DEF IInv, TypeOK

LEMMA NextInv == IInv /\ [Next]_vars => IInv'
<1> SUFFICES ASSUME IInv, [Next]_vars PROVE IInv'
  OBVIOUS
<1>1. CASE Next
  <2>1. TypeOK'
    BY <1>1, RefreshTypes, LoginTypes, OtherTypes DEF IInv, Next
  <2> QED
    BY <1>1, <2>1, AloneStep, BarredStep, EmptiedStep, FreshStep, SignedStep, KeptStep DEF IInv
<1>2. CASE UNCHANGED vars
  <2>1. TypeOK'
    BY <1>2 DEF IInv, TypeOK, vars, RowsOK, DevicesOK, HandlersOK
  <2>2. Alone' /\ Barred' /\ Emptied'
    BY <1>2 DEF IInv, vars, Alone, Opening, At, Barred, Emptied, Refreshing
  <2>3. Fresh' /\ Signed' /\ Kept'
    BY <1>2 DEF IInv, vars, Fresh, Signed, Kept
  <2> QED
    BY <2>1, <2>2, <2>3 DEF IInv
<1> QED
  BY <1>1, <1>2

\* The invariant all theorems below follow from: what sessions, tokens, browsers
\* and requests under way know of each other (login, refresh, logout).
THEOREM Inductive == Spec => []IInv
  BY InitInv, NextInv, PTL DEF Spec

\* In every reachable state the variables have their types, a tab waits for
\* exactly one request, and a request goes on only with rows that exist.
THEOREM TypeCorrect == Spec => []TypeOK
<1>1. IInv => TypeOK
  BY DEF IInv
<1> QED
  BY <1>1, Inductive, PTL

\* completeAuth keeps one active session as long as no login reads the session
\* between the read and the write of another.
THEOREM OneSessionAlways == Spec => []OneSession
<1>1. IInv => OneSession
  <2> SUFFICES ASSUME IInv, ~overlapped PROVE Cardinality(active) <= 1
    BY DEF OneSession
  <2>1. \A s, t \in active : s = t
    BY DEF IInv, Alone
  <2>2. CASE active = {}
    BY <2>2, FS_EmptySet
  <2>3. CASE active # {}
    <3>1. PICK s \in active : TRUE
      BY <2>3
    <3>2. active = {s}
      BY <2>1, <3>1
    <3> QED
      BY <3>2, FS_Singleton
  <2> QED
    BY <2>2, <2>3
<1> QED
  BY <1>1, Inductive, PTL

\* A suspension leaves no session open, and none is opened after it, but by a
\* login that was already past the check.
THEOREM SuspendedStaysOutAlways == Spec => []SuspendedStaysOut
<1>1. IInv => SuspendedStaysOut
  BY DEF IInv, Barred, SuspendedStaysOut
<1> QED
  BY <1>1, Inductive, PTL

\* However many tabs refresh at once, none of them logs its device out while the
\* session is open, with the exceptions KeptSignedIn names.
THEOREM KeptSignedInAlways == Spec => []KeptSignedIn
<1>1. IInv => KeptSignedIn
  BY DEF IInv, Kept, KeptSignedIn
<1> QED
  BY <1>1, Inductive, PTL

\* After logoutAndClear only a refresh that was under way brings tokens back.
THEOREM LogoutSticksAlways == Spec => []LogoutSticks
<1>1. IInv => LogoutSticks
  BY DEF IInv, Emptied, LogoutSticks
<1> QED
  BY <1>1, Inductive, PTL
=============================================================================
