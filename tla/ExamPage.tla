------------------------------ MODULE ExamPage ------------------------------
(***************************************************************************)
(* The student's exam page in front of Attempt: answers on the device,     *)
(* debounced autosave, the final submit and the queue that replays it when *)
(* the network was down - frontend/src/app/test/page.tsx and               *)
(* lib/submit-queue.ts, with the replay timer of components/AppStatus.tsx. *)
(*                                                                         *)
(* The device talks to the server through the requests of Attempt.  A      *)
(* request or its reply may be lost: the page then sees a network error,   *)
(* while the server may still be working.                                  *)
(***************************************************************************)
EXTENDS Attempt

CONSTANTS MaxEdits,    \* bound: answers chosen or cleared
          MaxReloads   \* bound: times the page is opened again

\* The page shows the questions of the paper, all of them; None is none of the
\* things the device remembers.
ASSUME PageAssumption ==
  /\ MaxEdits \in Nat /\ MaxReloads \in Nat
  /\ Paper \in {None, Question}
  /\ None \notin [slot : Request, stamp : Nat]
  /\ None \notin [pay : Given, stamp : Nat]
  /\ None \notin [slot : Request, byPage : BOOLEAN]

VARIABLES
  page,      \* "exam", "sending", "waiting" (offlinePending), "away" or "results"
  ans,       \* the sheet on the page, or the draft it left; Null is no answer
  chosen,    \* history: what the student chose or cleared last
  wiped,     \* history: a reload took answers off the sheet
  known,     \* savedOnServerRef: what the page believes the server holds
  due,       \* the changes the autosave timer is about to send
  saving,    \* the changes of each autosave the page awaits
  sending,   \* the submit request the page awaits: its slot and clientSubmittedAt
  queue,     \* the entry of ssc_pending_submits
  flushing,  \* the replay under way: its slot, and whether the page awaits it
  told,      \* the device was told that the attempt is stored
  pressed,   \* history: what the student had chosen at each submit, whether the
             \* submit was in time, and whether a reload had come before
  edits,
  reloads

sheetVars == <<ans, chosen, wiped>>
pageVars == <<page, sheetVars, known, due, saving, sending, queue, flushing, told, pressed,
              edits, reloads>>
allVars == <<vars, pageVars>>

Blank == [q \in Question |-> Null]
Unknown == [q \in Question |-> None]
NotSaving == [h \in Request |-> Nothing]
OnPage == page \in {"exam", "sending", "waiting"}

Listening == {h \in Request : \/ saving[h] # Nothing
                              \/ sending # None /\ sending.slot = h
                              \/ flushing # None /\ flushing.slot = h}

PageTypeOK ==
  /\ page \in {"exam", "sending", "waiting", "away", "results"}
  /\ ans \in [Question -> Answer] /\ chosen \in [Question -> Answer]
  /\ wiped \in BOOLEAN
  /\ known \in [Question -> Answer \cup {None}]
  /\ due \in Given
  /\ saving \in [Request -> Given]
  /\ sending \in [slot : Request, stamp : Nat] \cup {None}
  /\ queue \in [pay : Given, stamp : Nat] \cup {None}
  /\ flushing \in [slot : Request, byPage : BOOLEAN] \cup {None}
  /\ pressed \subseteq [sheet : Given, inTime : BOOLEAN, wiped : BOOLEAN]
  /\ told \in BOOLEAN
  /\ edits \in 0..MaxEdits /\ reloads \in 0..MaxReloads
  /\ page = "sending" <=> sending # None

PageInit == /\ Init
            /\ page = "exam"
            /\ ans = Blank /\ chosen = Blank /\ wiped = FALSE
            /\ known = Unknown
            /\ due = Nothing
            /\ saving = NotSaving
            /\ sending = None /\ queue = None /\ flushing = None
            /\ told = FALSE
            /\ pressed = {}
            /\ edits = 0 /\ reloads = 0

-----------------------------------------------------------------------------
(* Answers and autosave *)

\* What the autosave effect would send for sheet a when the server is known
\* to hold k: changed answers, and a Null for each cleared one.
Changes(a, k) == [q \in {q \in Question : IF a[q] = Null THEN k[q] \in Option ELSE k[q] # a[q]} |-> a[q]]

Choose(q, a) == /\ page = "exam"
                /\ now <= Deadline
                /\ edits < MaxEdits
                /\ ans[q] # a
                /\ ans' = [ans EXCEPT ![q] = a]
                /\ chosen' = [chosen EXCEPT ![q] = a]
                /\ due' = Changes(ans', known)
                /\ edits' = edits + 1
                /\ UNCHANGED <<vars, page, wiped, known, saving, sending, queue, flushing, told,
                               pressed, reloads>>

\* A new timer replaces an older one, but not a request already on its way.
Autosave(h) == /\ OnPage
               /\ due # Nothing
               /\ h \notin Listening
               /\ SaveArrives(h, due)
               /\ saving' = [saving EXCEPT ![h] = due]
               /\ due' = Nothing
               /\ UNCHANGED <<page, sheetVars, known, sending, queue, flushing, told, pressed,
                              edits, reloads>>

\* saved.set for every answer of the request; a 4xx is given up.
SaveReply(h) ==
  /\ saving[h] # Nothing
  /\ ReplyGone(h)
  /\ known' = IF At(h, "done")
              THEN [q \in Question |-> IF q \in DOMAIN saving[h] THEN saving[h][q] ELSE known[q]]
              ELSE known
  /\ due' = IF At(h, "failed") THEN Changes(ans, known) ELSE due
  /\ saving' = [saving EXCEPT ![h] = Nothing]
  /\ UNCHANGED <<page, sheetVars, sending, queue, flushing, told, pressed, edits, reloads>>

SaveLost(h) == /\ saving[h] # Nothing
               /\ saving' = [saving EXCEPT ![h] = Nothing]
               /\ due' = Changes(ans, known)
               /\ UNCHANGED <<vars, page, sheetVars, known, sending, queue, flushing, told,
                              pressed, edits, reloads>>

-----------------------------------------------------------------------------
(* Submit *)

\* clientSubmittedAt is the server's clock on the device.
Press == [pay |-> ans, stamp |-> now]
Submitted == [sheet |-> chosen, inTime |-> now <= Deadline + Slack, wiped |-> wiped]

Submit(h) == /\ page = "exam"
             /\ h \notin Listening
             /\ SubmitArrives(h, ans, now)
             /\ page' = "sending"
             /\ sending' = [slot |-> h, stamp |-> now]
             /\ pressed' = pressed \cup {Submitted}
             /\ UNCHANGED <<sheetVars, known, due, saving, queue, flushing, told, edits, reloads>>

SubmitUnreachable == /\ page = "exam"
                     /\ page' = "waiting"
                     /\ queue' = Press
                     /\ pressed' = pressed \cup {Submitted}
                     /\ UNCHANGED <<vars, sheetVars, known, due, saving, sending, flushing,
                                    told, edits, reloads>>

SubmitOk(h) == /\ sending # None /\ sending.slot = h
               /\ At(h, "done")
               /\ ReplyGone(h)
               /\ page' = "results"
               /\ told' = TRUE
               /\ sending' = None /\ due' = Nothing /\ saving' = NotSaving /\ flushing' = None
               /\ UNCHANGED <<sheetVars, known, queue, pressed, edits, reloads>>

\* Mutant: the page goes on waiting for the request it queued again.
Mut_Enqueue == /\ page' = "waiting"
               /\ queue' = [pay |-> ans, stamp |-> sending.stamp]
               /\ UNCHANGED <<sheetVars, known, due, saving, sending, flushing, told, pressed,
                              edits, reloads>>

Enqueue == /\ page' = "waiting"
           /\ sending' = None
           /\ queue' = [pay |-> ans, stamp |-> sending.stamp]
           /\ UNCHANGED <<sheetVars, known, due, saving, flushing, told, pressed, edits, reloads>>

SubmitFailed(h) == /\ sending # None /\ sending.slot = h
                   /\ At(h, "failed")
                   /\ ReplyGone(h)
                   /\ Enqueue

SubmitLost == /\ sending # None
              /\ Enqueue
              /\ UNCHANGED vars

-----------------------------------------------------------------------------
(* The replay of the queue: flushPendingSubmits *)

\* Started by the waiting page or by AppStatus, one at a time.
Flush(h, byPage) == /\ queue # None /\ flushing = None
                    /\ byPage => page = "waiting"
                    /\ h \notin Listening
                    /\ SubmitArrives(h, queue.pay, queue.stamp)
                    /\ flushing' = [slot |-> h, byPage |-> byPage]
                    /\ UNCHANGED <<page, sheetVars, known, due, saving, sending, queue, told,
                                   pressed,
                                   edits, reloads>>

\* The waiting page asks while AppStatus is at it: it gets the same promise.
JoinFlush == /\ flushing # None /\ ~flushing.byPage
             /\ page = "waiting"
             /\ flushing' = [flushing EXCEPT !.byPage = TRUE]
             /\ UNCHANGED <<vars, page, sheetVars, known, due, saving, sending, queue, told,
                            pressed,
                            edits, reloads>>

FlushOk(h) == /\ flushing # None /\ flushing.slot = h
              /\ At(h, "done")
              /\ ReplyGone(h)
              /\ queue' = None
              /\ told' = TRUE
              /\ flushing' = None
              /\ IF page = "waiting" /\ flushing.byPage
                 THEN page' = "results" /\ due' = Nothing /\ saving' = NotSaving
                 ELSE UNCHANGED <<page, due, saving>>
              /\ UNCHANGED <<sheetVars, known, sending, pressed, edits, reloads>>

\* A 5xx, or no answer at all, keeps the entry.
FlushFailed(h) == /\ flushing # None /\ flushing.slot = h
                  /\ \/ At(h, "failed") /\ ReplyGone(h)
                     \/ UNCHANGED vars
                  /\ flushing' = None
                  /\ UNCHANGED <<page, sheetVars, known, due, saving, sending, queue, told, pressed,
                                 edits, reloads>>

-----------------------------------------------------------------------------
(* Leaving the page and coming back *)

Leave == /\ OnPage
         /\ page' = "away"
         /\ known' = Unknown
         /\ due' = Nothing /\ saving' = NotSaving /\ sending' = None /\ flushing' = None
         /\ UNCHANGED <<vars, sheetVars, queue, told, pressed, edits, reloads>>

\* The page asks for the running attempt and lays the draft over its answers
\* (setAnswers(savedMap)), but goes on to setAnswers({}) before it shows the
\* exam: the sheet is blank, the empty draft replaces the old one, and the
\* autosave is about to send a Null for every answer the server is known to hold.
Open(k) == /\ page = "away"
           /\ reloads < MaxReloads
           /\ page' = "exam"
           /\ ans' = Blank
           /\ wiped' = (wiped \/ chosen # Blank)
           /\ known' = k
           /\ due' = Changes(Blank, k)
           /\ reloads' = reloads + 1
           /\ UNCHANGED <<vars, chosen, saving, sending, queue, flushing, told, pressed, edits>>

\* start returns the running attempt and its rows.
Resume == /\ status = "IN_PROGRESS" /\ now < Deadline /\ ~told
          /\ Open(rows)

\* The network drops after the paper has been fetched: the stashed response of
\* an earlier start is used, without rows.
ResumeOffline == /\ now <= Deadline /\ ~told
                 /\ Open(Unknown)

-----------------------------------------------------------------------------

Student == \/ \E q \in Question, a \in Answer : Choose(q, a)
           \/ \E h \in Request : Submit(h)
           \/ SubmitUnreachable \/ Leave \/ Resume \/ ResumeOffline

Device == \/ JoinFlush
          \/ \E h \in Request : \/ Autosave(h) \/ SaveReply(h)
                                \/ SubmitOk(h) \/ SubmitFailed(h)
                                \/ FlushOk(h)
                                \/ \E b \in BOOLEAN : Flush(h, b)

Network == \/ SubmitLost
           \/ \E h \in Request : SaveLost(h) \/ FlushFailed(h)

\* A request slot is free for others when nobody listens to it.
ServerStep == /\ \/ \E h \in Request : Work(h) \/ Trouble(h)
                 \/ \E h \in Request \ Listening : SweepFinds(h) \/ ReplyGone(h)
                 \/ StrayWrite \/ Crash \/ Tick
              /\ UNCHANGED pageVars

PageNext == Student \/ Device \/ Network \/ ServerStep

PageSpec == PageInit /\ [][PageNext]_allVars

\* The server reads a replay while the device still waits for it.
ReplayArrives(h) == /\ flushing # None /\ flushing.slot = h
                    /\ SubmitRead(h)
                    /\ UNCHANGED pageVars

\* The server works, the device replays the queue again and again (8 s, 60 s,
\* on focus), of infinitely many replays one gets through and is answered, and
\* a device notices when the server broke the connection.
\* Nothing is assumed of the student.
PageFairness ==
  /\ \A h \in Request : /\ WF_allVars(Work(h) /\ UNCHANGED pageVars)
                        /\ SF_allVars(ReplayArrives(h)) /\ SF_allVars(FlushOk(h))
                        /\ WF_allVars(handler[h].pc \in {"failed", "idle"} /\ FlushFailed(h))
                        /\ WF_allVars(h \notin Listening /\ ReplyGone(h) /\ UNCHANGED pageVars)
                        /\ WF_allVars(SaveReply(h)) /\ WF_allVars(SubmitOk(h)) /\ WF_allVars(SubmitFailed(h))
  /\ SF_allVars(\E h \in Request, b \in BOOLEAN : Flush(h, b))

FairPageSpec == PageSpec /\ PageFairness

-----------------------------------------------------------------------------
(* Properties *)

\* flushPendingSubmits "returns the attempt ids that are now safely stored on
\* the server": once the device was told so and forgot its copy, the attempt
\* is finished and stays so.
ToldIsStored == told => Done

\* "the student gets their REAL result": when every submit was made in time
\* and the one that won arrived within the replay window, the score is that of
\* what the student had chosen when submitting, whatever was autosaved, lost or
\* replayed - as long as no reload had taken answers off the sheet before.
RealResult ==
  /\ status = "SUBMITTED"
  /\ submittedAt <= Deadline + ReplayWindow
  /\ \A p \in pressed : p.inTime /\ ~p.wiped
  => \E p \in pressed : totals = Totals(p.sheet)

\* "Your answers save as you go, so a refresh or a dropped connection will not
\* lose them": what the student chose last is on the page (or in the draft it
\* left), or at least with the server.
AnswersKept == \A q \in Question : chosen[q] # Null => chosen[q] \in {ans[q], rows[q]}

\* A queued submit is not kept for ever.
QueueDelivered == queue # None ~> queue = None
=============================================================================
