------------------------------ MODULE Session ------------------------------
(***************************************************************************)
(* Login sessions of one student on one platform: AuthService              *)
(* (backend/src/auth/auth.service.ts), JwtAuthGuard and the suspension of  *)
(* an account on the server; frontend/src/lib/api.ts and session-cache.ts  *)
(* in the browser, where all tabs of a device share one localStorage.      *)
(*                                                                         *)
(* A login opens a session and closes the one before.  Its token pair is   *)
(* renewed by /auth/refresh, which revokes the refresh token it is given;  *)
(* a token is still taken for a minute after that.  Each statement of a    *)
(* request is a step; replies travel, are late or are lost.                *)
(***************************************************************************)
EXTENDS Integers, FiniteSets

CONSTANTS
  Tab, Device, DeviceOf,   \* the tabs of the browsers, and whose browser each one is in
  Handler,                 \* requests that run at the same time
  MaxSession, MaxPair,     \* bounds: logins, token pairs
  MaxFaults,               \* bound: lost connections, failed requests
  None

ASSUME SessionAssumption ==
  /\ DeviceOf \in [Tab -> Device]
  /\ MaxSession \in Nat /\ MaxPair \in Nat /\ MaxFaults \in Nat
  /\ None \notin Tab

VARIABLES
  opened, active,      \* device_sessions: how many were created; those with isActive
  issued, sess,        \* refresh_tokens: how many were created; their deviceSessionId
  revoked,             \* revokedAt: "no", "recent" (less than a minute ago) or "old"
  suspended,           \* users.isSuspended
  store,               \* the pair in a device's localStorage, 0 if there is none
  handler,             \* what each request has read and where it stands
  faults,
  mine,                \* the session of the last login on a device, 0 once its user logged out
  excused,             \* devices that were late to learn of a new pair: see KeptSignedIn
  stray,               \* devices whose user logged out while a refresh was under way
  overlapped, passed   \* two logins, or a login and a suspension, overlapped

tokenVars == <<issued, sess, revoked>>
ghostVars == <<mine, excused, stray, overlapped, passed>>
vars == <<opened, active, tokenVars, suspended, store, handler, faults, ghostVars>>

Session == 1..MaxSession
Pair == 1..MaxPair

Step == {"idle", "check", "rotate", "issue", "refreshed", "denied",
         "find", "close", "open", "pair", "loggedIn",
         "guardOut", "revokeOut", "closeOut", "revokeAll", "closeAll"}

Request(pc, t, p) == [pc |-> pc, tab |-> t, pair |-> p, sess |-> 0, seen |-> "no"]

Idle == Request("idle", None, 0)

HandlerType == [pc : Step, tab : Tab \cup {None}, pair : 0..MaxPair, sess : 0..MaxSession,
                seen : {"no", "recent", "old"}]

RefreshStep == {"check", "rotate", "issue", "refreshed", "denied"}
LoginStep == {"find", "close", "open", "pair", "loggedIn"}

\* A tab has one request at a time, and waits for it; the rows a request goes
\* on with exist.
WellFormed(w, lastPair, lastSession) ==
  /\ w.tab # None <=> w.pc \in RefreshStep \cup LoginStep
  /\ w.pc \in RefreshStep \cup {"loggedIn", "guardOut", "revokeOut", "closeOut"} => w.pair \in 1..lastPair
  /\ w.pc \in {"close", "pair", "loggedIn"} => w.sess \in 1..lastSession

RowsOK ==
  /\ opened \in 0..MaxSession /\ active \subseteq 1..opened
  /\ issued \in 0..MaxPair /\ sess \in [Pair -> 0..MaxSession]
  /\ revoked \in [Pair -> {"no", "recent", "old"}]
  /\ suspended \in BOOLEAN /\ faults \in 0..MaxFaults

DevicesOK ==
  /\ store \in [Device -> 0..issued] /\ mine \in [Device -> 0..opened]
  /\ excused \subseteq Device /\ stray \subseteq Device
  /\ overlapped \in BOOLEAN /\ passed \in BOOLEAN

HandlersOK ==
  /\ handler \in [Handler -> HandlerType]
  /\ \A h \in Handler : WellFormed(handler[h], issued, opened)

TypeOK == RowsOK /\ DevicesOK /\ HandlersOK

Init == /\ opened = 0 /\ active = {} /\ issued = 0 /\ sess = [p \in Pair |-> 0]
        /\ revoked = [p \in Pair |-> "no"] /\ suspended = FALSE
        /\ store = [d \in Device |-> 0] /\ handler = [h \in Handler |-> Idle] /\ faults = 0
        /\ mine = [d \in Device |-> 0] /\ excused = {} /\ stray = {}
        /\ overlapped = FALSE /\ passed = FALSE

At(h, pc) == handler[h].pc = pc
Become(h, w) == handler' = [handler EXCEPT ![h] = w]
GoTo(h, pc) == Become(h, [handler[h] EXCEPT !.pc = pc])

\* Mutant: a tab never forgets its request, as if refreshInFlight was not reset.
Mut_End(h) == GoTo(h, "idle")

End(h) == Become(h, Idle)

Waits(t) == \E h \in Handler : handler[h].tab = t

\* Bound: what the requests under way may still create fits in, too.
Under(S) == Cardinality({h \in Handler : handler[h].pc \in S})
RoomForPair == issued + Under({"check", "rotate", "issue", "find", "close", "open", "pair"}) < MaxPair
RoomForSession == opened + Under({"find", "close", "open"}) < MaxSession

-----------------------------------------------------------------------------
(* A tab renews its pair: doRefresh and AuthService.refresh.               *)

Refreshing(d) == \E h \in Handler : handler[h].pc \in RefreshStep /\ DeviceOf[handler[h].tab] = d

\* One refresh at a time in a tab, when the access token has run out, which it
\* may at any moment, or was refused.
RefreshStart(h, t) ==
  LET p == store[DeviceOf[t]]
  IN /\ At(h, "idle") /\ ~Waits(t) /\ p # 0 /\ RoomForPair
     /\ Become(h, Request("check", t, p))
     /\ UNCHANGED <<opened, active, tokenVars, suspended, store, faults, ghostVars>>

\* Mutant: no grace for a token that was rotated a moment ago.
Mut_Accepted(p) == revoked[p] = "no" /\ sess[p] \in active

Accepted(p) == revoked[p] # "old" /\ sess[p] \in active

RefreshCheck(h) ==
  LET p == handler[h].pair
  IN /\ At(h, "check")
     /\ IF Accepted(p) THEN Become(h, [handler[h] EXCEPT !.pc = "rotate", !.seen = revoked[p]])
                       ELSE GoTo(h, "denied")
     /\ UNCHANGED <<opened, active, tokenVars, suspended, store, faults, ghostVars>>

\* A token in its grace keeps its revokedAt, as far as was read.
RefreshRotate(h) ==
  /\ At(h, "rotate")
  /\ revoked' = IF handler[h].seen = "no" THEN [revoked EXCEPT ![handler[h].pair] = "recent"] ELSE revoked
  /\ Become(h, [handler[h] EXCEPT !.pc = "issue", !.seen = "no"])
  /\ UNCHANGED <<opened, active, issued, sess, suspended, store, faults, ghostVars>>

NewPair(s) == /\ issued < MaxPair
              /\ issued' = issued + 1
              /\ sess' = [sess EXCEPT ![issued + 1] = s]

RefreshIssue(h) ==
  /\ At(h, "issue")
  /\ IF suspended THEN GoTo(h, "denied") /\ UNCHANGED <<issued, sess>>
     ELSE /\ NewPair(sess[handler[h].pair])
          /\ Become(h, [handler[h] EXCEPT !.pc = "refreshed", !.pair = issued + 1])
  /\ UNCHANGED <<opened, active, revoked, suspended, store, faults, ghostVars>>

\* The new pair is stored, whatever localStorage holds by now.
Refreshed(h) ==
  LET d == DeviceOf[handler[h].tab]  p == handler[h].pair
  IN /\ At(h, "refreshed")
     /\ store' = [store EXCEPT ![d] = p]
     /\ excused' = IF revoked[p] = "old" THEN excused \cup {d} ELSE excused
     /\ End(h)
     /\ UNCHANGED <<opened, active, tokenVars, suspended, faults, mine, stray, overlapped, passed>>

\* Mutant: a refused tab does not look whether another tab was faster.
Mut_Replaced(d, p) == FALSE

Replaced(d, p) == store[d] \notin {0, p}

\* 401 or 403: the device is logged out unless another tab stored a new pair.
Denied(h) ==
  LET d == DeviceOf[handler[h].tab]
  IN /\ At(h, "denied")
     /\ store' = IF Replaced(d, handler[h].pair) THEN store ELSE [store EXCEPT ![d] = 0]
     /\ End(h)
     /\ UNCHANGED <<opened, active, tokenVars, suspended, faults, ghostVars>>

-----------------------------------------------------------------------------
(* Login: the user row is read, then completeAuth.                         *)

LoginStart(h, t) == /\ At(h, "idle") /\ ~Waits(t) /\ ~suspended /\ RoomForSession /\ RoomForPair
                    /\ Become(h, Request("find", t, 0))
                    /\ UNCHANGED <<opened, active, tokenVars, suspended, store, faults, ghostVars>>

Opening(h) == handler[h].pc \in {"close", "open"}

\* findFirst: one active session of the student, or none.
LoginFind(h) ==
  /\ At(h, "find")
  /\ overlapped' = (overlapped \/ \E g \in Handler : Opening(g))
  /\ \/ \E s \in active : Become(h, [handler[h] EXCEPT !.pc = "close", !.sess = s])
     \/ active = {} /\ GoTo(h, "open")
  /\ UNCHANGED <<opened, active, tokenVars, suspended, store, faults, mine, excused, stray, passed>>

RevokeAll(P) == revoked' = [p \in Pair |-> IF p \in P /\ revoked[p] = "no" THEN "recent" ELSE revoked[p]]

Issued(S) == {p \in 1..issued : sess[p] \in S}

\* Mutant: the session that was found is left open.
Mut_WithoutOld(s) == active

WithoutOld(s) == active \ {s}

LoginClose(h) == /\ At(h, "close")
                 /\ active' = WithoutOld(handler[h].sess)
                 /\ RevokeAll(Issued({handler[h].sess}))
                 /\ Become(h, [handler[h] EXCEPT !.pc = "open", !.sess = 0])
                 /\ UNCHANGED <<opened, issued, sess, suspended, store, faults, ghostVars>>

LoginOpen(h) == /\ At(h, "open") /\ opened < MaxSession
                /\ opened' = opened + 1 /\ active' = active \cup {opened + 1}
                /\ Become(h, [handler[h] EXCEPT !.pc = "pair", !.sess = opened + 1])
                /\ UNCHANGED <<tokenVars, suspended, store, faults, ghostVars>>

LoginPair(h) == /\ At(h, "pair")
                /\ NewPair(handler[h].sess)
                /\ Become(h, [handler[h] EXCEPT !.pc = "loggedIn", !.pair = issued + 1])
                /\ UNCHANGED <<opened, active, revoked, suspended, store, faults, ghostVars>>

LoggedIn(h) ==
  LET d == DeviceOf[handler[h].tab]
  IN /\ At(h, "loggedIn")
     /\ store' = [store EXCEPT ![d] = handler[h].pair]
     /\ mine' = [mine EXCEPT ![d] = handler[h].sess]
     /\ excused' = IF Refreshing(d) \/ revoked[handler[h].pair] = "old" THEN excused \cup {d} ELSE excused \ {d}
     /\ stray' = stray \ {d}
     /\ End(h)
     /\ UNCHANGED <<opened, active, tokenVars, suspended, faults, overlapped, passed>>

-----------------------------------------------------------------------------
(* Logout, password change, suspension.                                    *)

\* Mutant: logout spares the tokens, as it spares the device's preferences.
Mut_Wiped(d) == store

Wiped(d) == [store EXCEPT ![d] = 0]

\* logoutAndClear: the request goes out and nobody waits for it; the browser
\* is wiped at once.
LogoutStart(h, d) ==
  /\ At(h, "idle") /\ store[d] # 0
  /\ Become(h, Request("guardOut", None, store[d]))
  /\ store' = Wiped(d)
  /\ mine' = [mine EXCEPT ![d] = 0]
  /\ stray' = IF Refreshing(d) THEN stray \cup {d} ELSE stray
  /\ UNCHANGED <<opened, active, tokenVars, suspended, faults, excused, overlapped, passed>>

\* JwtAuthGuard: the session is active, and the access token has not run out.
LogoutGuard(h) == /\ At(h, "guardOut")
                  /\ \/ sess[handler[h].pair] \in active /\ GoTo(h, "revokeOut")
                     \/ End(h)
                  /\ UNCHANGED <<opened, active, tokenVars, suspended, store, faults, ghostVars>>

LogoutRevoke(h) == /\ At(h, "revokeOut")
                   /\ RevokeAll({handler[h].pair}) /\ GoTo(h, "closeOut")
                   /\ UNCHANGED <<opened, active, issued, sess, suspended, store, faults, ghostVars>>

LogoutClose(h) == /\ At(h, "closeOut")
                  /\ active' = active \ {sess[handler[h].pair]} /\ End(h)
                  /\ UNCHANGED <<opened, tokenVars, suspended, store, faults, ghostVars>>

\* changePassword after the guard and the new hash: everybody has to log in again.
PasswordStart(h, d) == /\ At(h, "idle") /\ store[d] # 0 /\ sess[store[d]] \in active
                       /\ Become(h, Request("revokeAll", None, 0))
                       /\ UNCHANGED <<opened, active, tokenVars, suspended, store, faults, ghostVars>>

PasswordRevoke(h) == /\ At(h, "revokeAll")
                     /\ RevokeAll(1..issued) /\ GoTo(h, "closeAll")
                     /\ UNCHANGED <<opened, active, issued, sess, suspended, store, faults, ghostVars>>

PasswordClose(h) == /\ At(h, "closeAll")
                    /\ active' = {} /\ End(h)
                    /\ UNCHANGED <<opened, tokenVars, suspended, store, faults, ghostVars>>

\* Mutant: the suspension leaves the sessions alone.
Mut_SignedOut == active

SignedOut == {}

\* One transaction.
Suspend == /\ ~suspended /\ faults < MaxFaults
           /\ faults' = faults + 1
           /\ suspended' = TRUE /\ active' = SignedOut /\ RevokeAll(1..issued)
           /\ passed' = \E h \in Handler : handler[h].pc \in {"find", "close", "open"}
           /\ UNCHANGED <<opened, issued, sess, store, handler, mine, excused, stray, overlapped>>

Unsuspend == /\ suspended
             /\ suspended' = FALSE
             /\ UNCHANGED <<opened, active, tokenVars, store, handler, faults, ghostVars>>

-----------------------------------------------------------------------------
(* Time and faults.                                                        *)

\* A minute after a token was revoked that somebody still holds: he is late.
GraceEnds(p) == /\ revoked[p] = "recent"
                /\ (\E d \in Device : store[d] = p) \/ (\E h \in Handler : handler[h].pair = p)
                /\ revoked' = [revoked EXCEPT ![p] = "old"]
                /\ excused' = excused \cup {d \in Device : store[d] = p}
                /\ UNCHANGED <<opened, active, issued, sess, suspended, store, handler, faults,
                               mine, stray, overlapped, passed>>

\* A request or its answer gets lost, or the server dies under it.
Fail(h) == /\ ~At(h, "idle") /\ faults < MaxFaults
           /\ faults' = faults + 1
           /\ End(h)
           /\ UNCHANGED <<opened, active, tokenVars, suspended, store, ghostVars>>

Next ==
  \/ \E h \in Handler :
       \/ RefreshCheck(h) \/ RefreshRotate(h) \/ RefreshIssue(h) \/ Refreshed(h) \/ Denied(h)
       \/ LoginFind(h) \/ LoginClose(h) \/ LoginOpen(h) \/ LoginPair(h) \/ LoggedIn(h)
       \/ LogoutGuard(h) \/ LogoutRevoke(h) \/ LogoutClose(h) \/ PasswordRevoke(h) \/ PasswordClose(h)
       \/ Fail(h)
       \/ \E t \in Tab : RefreshStart(h, t) \/ LoginStart(h, t)
       \/ \E d \in Device : LogoutStart(h, d) \/ PasswordStart(h, d)
  \/ \E p \in Pair : GraceEnds(p)
  \/ Suspend \/ Unsuspend

Spec == Init /\ [][Next]_vars

-----------------------------------------------------------------------------
(* Properties *)

\* The comment of AuthService, "1 WEB + 1 APP session max": two sessions of one
\* platform are only ever open after two logins overlapped.
OneSession == overlapped \/ Cardinality(active) <= 1

\* "Suspended accounts never get a session" - except by a login that had read
\* the account before it was suspended.
SuspendedStaysOut == suspended => active = {} \/ passed

\* The "baar baar logout" fix: as long as the session of its last login is
\* open, a device keeps tokens of that session, however many of its tabs
\* refresh at once - unless the answer to a refresh was lost or took more than
\* a minute, or crossed a login on the same device, and unless a login that
\* overlapped a suspension opened a session no refresh is granted for.
KeptSignedIn ==
  passed \/ \A d \in Device :
    mine[d] \in active => (store[d] # 0 /\ sess[store[d]] = mine[d]) \/ d \in excused

\* After a logout the device stays empty until the next login; only a refresh
\* that was under way when the user logged out can bring tokens back.
LogoutSticks == \A d \in Device : mine[d] = 0 => store[d] = 0 \/ d \in stray
=============================================================================
