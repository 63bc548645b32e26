--------------------------- MODULE ExamPageProofs ---------------------------
(***************************************************************************)
(* Theorems about ExamPage, for any paper, options, number of requests and *)
(* any times: the page is one of the clients AttemptProofs speaks of, so   *)
(* all that holds of the server holds behind the page as well; the score   *)
(* of an attempt is that of what the student had chosen when submitting,   *)
(* unless a reload had blanked the sheet; and what the device was told is  *)
(* stored, as long as no row write of a submit fails.                      *)
(***************************************************************************)
EXTENDS ExamPage, AttemptReviewProofs

USE DEF sheetVars

-----------------------------------------------------------------------------
(* Sheets of the page *)

Sheets == [Question -> Answer]

LEMMA SheetIsGiven ==
  ASSUME NEW a \in Sheets
  PROVE  a \in Given
  BY GivenIntro DEF Sheets

LEMMA ChangesGiven ==
  ASSUME NEW a \in Sheets, NEW k
  PROVE  Changes(a, k) \in Given
<1> DEFINE D == {q \in Question : IF a[q] = Null THEN k[q] \in Option ELSE k[q] # a[q]}
<1>1. D \in SUBSET Question
  OBVIOUS
<1>2. Changes(a, k) \in [D -> Answer]
  BY DEF Changes, Sheets
<1> QED
  BY <1>1, <1>2, GivenIntro

LEMMA BlankIsSheet == Blank \in Sheets
  BY DEF Blank, Sheets, Answer

KnownType == [Question -> Answer \cup {None}]

LEMMA UnknownIsKnown == Unknown \in KnownType
  BY DEF Unknown, KnownType

-----------------------------------------------------------------------------
(* The page is a client of the server: a step of the page is a step of the *)
(* server with some sheet, or leaves the server alone.                     *)

LEMMA PageStepIsAny ==
  ASSUME TypeOK, PageTypeOK, [PageNext]_allVars
  PROVE  [AnyNext]_vars
<1>1. ASSUME Student PROVE [AnyNext]_vars
  <2>1. ASSUME NEW h \in Request, Submit(h) PROVE AnyNext
    <3>1. ans \in Given /\ now \in Nat \cup {None}
      BY SheetIsGiven DEF PageTypeOK, TypeOK, Sheets
    <3> QED
      BY <2>1, <3>1 DEF Submit, AnyNext, AnyArrival
  <2> QED
    BY <1>1, <2>1 DEF Student, Choose, SubmitUnreachable, Leave, Resume, ResumeOffline, Open
<1>2. ASSUME Device PROVE [AnyNext]_vars
  <2>1. ASSUME NEW h \in Request, Autosave(h) PROVE AnyNext
    BY <2>1 DEF Autosave, AnyNext, AnyArrival, PageTypeOK
  <2>2. ASSUME NEW h \in Request, NEW b \in BOOLEAN, Flush(h, b) PROVE AnyNext
    BY <2>2 DEF Flush, AnyNext, AnyArrival, PageTypeOK
  <2>3. ASSUME NEW h \in Request, \/ SaveReply(h) \/ SubmitOk(h) \/ SubmitFailed(h)
                                  \/ FlushOk(h)
        PROVE  AnyNext
    BY <2>3 DEF SaveReply, SubmitOk, SubmitFailed, FlushOk, AnyNext
  <2> QED
    BY <1>2, <2>1, <2>2, <2>3 DEF Device, JoinFlush
<1>3. ASSUME Network PROVE [AnyNext]_vars
  BY <1>3 DEF Network, SubmitLost, SaveLost, FlushFailed, AnyNext
<1>4. ASSUME ServerStep PROVE AnyNext
  BY <1>4 DEF ServerStep, AnyNext, Server
<1>5. CASE UNCHANGED allVars
  BY <1>5 DEF allVars
<1> QED
  BY <1>1, <1>2, <1>3, <1>4, <1>5 DEF PageNext

-----------------------------------------------------------------------------
(* Type correctness *)

\* What the device remembers, one variable at a time.
PageFields ==
  /\ page \in {"exam", "sending", "waiting", "away", "results"}
  /\ ans \in Sheets /\ chosen \in Sheets
  /\ wiped \in BOOLEAN
  /\ known \in KnownType
  /\ due \in Given
  /\ saving \in [Request -> Given]
  /\ sending \in [slot : Request, stamp : Nat] \cup {None}
  /\ queue \in [pay : Given, stamp : Nat] \cup {None}
  /\ flushing \in [slot : Request, byPage : BOOLEAN] \cup {None}
  /\ pressed \subseteq [sheet : Given, inTime : BOOLEAN, wiped : BOOLEAN]
  /\ told \in BOOLEAN
  /\ edits \in 0..MaxEdits /\ reloads \in 0..MaxReloads

Counted == page = "sending" <=> sending # None

LEMMA PageTypeIs == PageTypeOK <=> PageFields /\ Counted
  BY DEF PageTypeOK, PageFields, Counted, Sheets, KnownType

LEMMA PageTypeInit == PageInit => PageTypeOK
<1> SUFFICES ASSUME PageInit PROVE PageFields /\ Counted
  BY PageTypeIs
<1>1. NotSaving \in [Request -> Given]
  BY NothingGiven DEF NotSaving
<1>2. edits \in 0..MaxEdits /\ reloads \in 0..MaxReloads
  BY PageAssumption DEF PageInit
<1>3. told \in BOOLEAN /\ wiped \in BOOLEAN
  BY Zenon DEF PageInit
<1> QED
  BY <1>1, <1>2, <1>3, NothingGiven, BlankIsSheet, UnknownIsKnown DEF PageInit, PageFields, Counted

LEMMA PressIsTyped ==
  ASSUME TypeOK, PageFields
  PROVE  Press \in [pay : Given, stamp : Nat] /\ Submitted \in [sheet : Given, inTime : BOOLEAN, wiped : BOOLEAN]
<1>1. ans \in Given /\ chosen \in Given /\ now \in Nat /\ wiped \in BOOLEAN
  BY SheetIsGiven DEF PageFields, TypeOK
<1> QED
  BY <1>1 DEF Press, Submitted

LEMMA PageTypeStep ==
  ASSUME TypeOK, PageTypeOK, [PageNext]_allVars
  PROVE  PageTypeOK'
<1> SUFFICES PageFields' /\ Counted'
  BY DEF PageTypeOK, PageFields, Counted, Sheets, KnownType
<1>t. PageFields /\ Counted
  BY PageTypeIs
<1>n. NotSaving \in [Request -> Given] /\ Nothing \in Given
  BY NothingGiven DEF NotSaving
<1>c. Changes(ans, known) \in Given
  BY <1>t, ChangesGiven DEF PageFields
<1>1. ASSUME NEW q \in Question, NEW a \in Answer, Choose(q, a) PROVE PageFields' /\ Counted'
  <2>1. ans' \in Sheets /\ chosen' \in Sheets
    BY <1>t, <1>1 DEF Choose, PageFields, Sheets
  <2>2. due' \in Given
    BY <1>1, <2>1, ChangesGiven DEF Choose
  <2>3. edits' \in 0..MaxEdits
    BY <1>t, <1>1, PageAssumption DEF Choose, PageFields
  <2> QED
    BY <1>t, <1>1, <2>1, <2>2, <2>3 DEF Choose, PageFields, Counted
<1>2. ASSUME NEW h \in Request, Submit(h) PROVE PageFields' /\ Counted'
  <2>1. sending' \in [slot : Request, stamp : Nat] /\ sending' # None
    BY <1>2, PageAssumption DEF Submit, TypeOK
  <2>2. pressed' \subseteq [sheet : Given, inTime : BOOLEAN, wiped : BOOLEAN]
    BY <1>t, <1>2, PressIsTyped DEF Submit, PageFields
  <2> QED
    BY <1>t, <1>2, <2>1, <2>2 DEF Submit, PageFields, Counted
<1>3. CASE SubmitUnreachable
  BY <1>t, <1>3, PressIsTyped DEF SubmitUnreachable, PageFields, Counted
<1>4. CASE Leave
  BY <1>t, <1>n, <1>4, UnknownIsKnown DEF Leave, PageFields, Counted
<1>5. ASSUME NEW k \in KnownType, Open(k) PROVE PageFields' /\ Counted'
  <2>1. due' \in Given /\ ans' \in Sheets
    BY <1>5, BlankIsSheet, ChangesGiven DEF Open
  <2>w. wiped' \in BOOLEAN
    BY <1>t, <1>5, Zenon DEF Open, PageFields
  <2>2. reloads' \in 0..MaxReloads
    BY <1>t, <1>5, PageAssumption DEF Open, PageFields
  <2> QED
    BY <1>t, <1>5, <2>1, <2>2, <2>w DEF Open, PageFields, Counted
<1>6. CASE Resume
  <2>1. rows \in KnownType
    BY DEF TypeOK, KnownType
  <2> QED
    BY <1>5, <1>6, <2>1 DEF Resume
<1>7. CASE ResumeOffline
  BY <1>5, <1>7, UnknownIsKnown DEF ResumeOffline
<1>8. CASE JoinFlush
  BY <1>t, <1>8 DEF JoinFlush, PageFields, Counted
<1>9. ASSUME NEW h \in Request, Autosave(h) PROVE PageFields' /\ Counted'
  BY <1>t, <1>n, <1>9 DEF Autosave, PageFields, Counted
<1>10. ASSUME NEW h \in Request, SaveReply(h) PROVE PageFields' /\ Counted'
  <2>1. known' \in KnownType
    <3>1. saving[h] \in Given
      BY <1>t DEF PageFields
    <3>2. \A q \in DOMAIN saving[h] : saving[h][q] \in Answer
      BY <3>1, GivenElim
    <3> QED
      BY <1>t, <1>10, <3>2 DEF SaveReply, PageFields, KnownType
  <2>2. due' \in Given
    BY <1>t, <1>c, <1>10 DEF SaveReply, PageFields
  <2>3. saving' \in [Request -> Given]
    BY <1>t, <1>n, <1>10 DEF SaveReply, PageFields
  <2> QED
    BY <1>t, <1>10, <2>1, <2>2, <2>3 DEF SaveReply, PageFields, Counted
<1>11. ASSUME NEW h \in Request, SubmitOk(h) PROVE PageFields' /\ Counted'
  BY <1>t, <1>n, <1>11 DEF SubmitOk, PageFields, Counted
<1>12. ASSUME sending # None, Enqueue PROVE PageFields' /\ Counted'
  <2>1. queue' \in [pay : Given, stamp : Nat]
    BY <1>t, <1>12, SheetIsGiven DEF Enqueue, PageFields
  <2> QED
    BY <1>t, <1>12, <2>1 DEF Enqueue, PageFields, Counted
<1>13. ASSUME NEW h \in Request, NEW b \in BOOLEAN, Flush(h, b) PROVE PageFields' /\ Counted'
  BY <1>t, <1>13 DEF Flush, PageFields, Counted
<1>14. ASSUME NEW h \in Request, FlushOk(h) PROVE PageFields' /\ Counted'
  <2>1. page' = page \/ (page = "waiting" /\ page' = "results")
    BY <1>14 DEF FlushOk
  <2>2. due' \in Given /\ saving' \in [Request -> Given]
    BY <1>t, <1>n, <1>14 DEF FlushOk, PageFields
  <2> QED
    BY <1>t, <1>14, <2>1, <2>2 DEF FlushOk, PageFields, Counted
<1>15. ASSUME NEW h \in Request, FlushFailed(h) PROVE PageFields' /\ Counted'
  BY <1>t, <1>15 DEF FlushFailed, PageFields, Counted
<1>16. ASSUME NEW h \in Request, SaveLost(h) PROVE PageFields' /\ Counted'
  BY <1>t, <1>n, <1>c, <1>16 DEF SaveLost, PageFields, Counted
<1>17. CASE UNCHANGED pageVars
  BY <1>t, <1>17 DEF pageVars, PageFields, Counted
<1> QED
  BY <1>1, <1>2, <1>3, <1>4, <1>6, <1>7, <1>8, <1>9, <1>10, <1>11, <1>12, <1>13, <1>14, <1>15,
     <1>16, <1>17
     DEF PageNext, Student, Device, Network, ServerStep, SubmitFailed, SubmitLost, allVars

\* What the page and the device remember is well typed in every reachable
\* state: the page awaits its submit exactly while it says so.
THEOREM PageTypeCorrect == PageSpec => [](TypeOK /\ PageTypeOK)
<1>1. PageInit => TypeOK /\ PageTypeOK
  BY PageTypeInit, TypeInit DEF PageInit
<1>2. TypeOK /\ PageTypeOK /\ [PageNext]_allVars => TypeOK' /\ PageTypeOK'
  BY PageTypeStep, PageStepIsAny, TypeStep
<1> QED
  BY <1>1, <1>2, PTL DEF PageSpec

\* The page and its queue are a client of the server: behind them the attempt
\* runs as AttemptProofs describes it for any client.
THEOREM PageIsAClient == PageSpec => AnySpec
<1>1. PageInit => Init
  BY DEF PageInit
<1>2. TypeOK /\ PageTypeOK /\ [PageNext]_allVars => [AnyNext]_vars
  BY PageStepIsAny
<1> QED
  BY <1>1, <1>2, PageTypeCorrect, PTL DEF PageSpec, AnySpec

\* So however often the page, a second opening of it and the replays of the
\* queue submit one attempt, one of them wins it, XP and weak topics follow
\* once, the review adds up, and the finished attempt stays.
THEOREM PageKeepsTheAttempt ==
  PageSpec => /\ OutcomeSpec
              /\ []EffectsOnce
              /\ FinishedStays
              /\ []SweptAfterWindow
              /\ []UndisturbedReviewMatches
  BY PageIsAClient, AnyImplementsOutcome, AnyEffectsOnce, AnyFinishedStays, AnySweptAfterWindow,
     AnyReviewAddsUp, PTL
-----------------------------------------------------------------------------
(* What the server does to one request.  The two results below follow the  *)
(* submits of the page through the server; they need no more than this.    *)

Reports(g) == /\ handler'[g].mode = "manual"
              /\ handler'[g].pc \in {"done", "idle"}

\* What the sweeper has found is put to work.
Sweeps(g) == /\ At(g, "sweep")
             /\ handler'[g].pc = "submit" /\ handler'[g].mode = handler[g].mode

Saves(g) == /\ handler[g].pc \in Saving
            /\ handler'[g].pc \in {"saveRow", "refused", "done", "idle"}

FailsNow(g) == /\ handler'[g].mode = "manual"
               /\ handler'[g].pc \in {"failed", "idle"}

Reads(g) == /\ At(g, "submit")
            /\ handler'[g].pc = "merge" /\ handler'[g].mode = handler[g].mode
            /\ handler'[g].pay = handler[g].pay
            /\ handler'[g].at = now
            /\ handler'[g].honour = HonourClientAnswers(g)

ScoresNow(g) == /\ At(g, "merge")
                /\ handler'[g].pc = "claim" /\ handler'[g].mode = handler[g].mode
                /\ handler'[g].at = handler[g].at
                /\ handler'[g].totals = Totals(RowsToWrite(Merged(g)))

\* A winner, or a submit that has just become one.
Writes(g) == /\ handler[g].pc \in {"claim", "write", "undo"}
             /\ handler'[g].pc \in {"write", "undo"}
             /\ At(g, "claim") => status = "IN_PROGRESS" /\ Done'
             /\ At(g, "undo") => handler'[g].pc = "undo"
             /\ handler'[g].mode = handler[g].mode
             /\ handler'[g].at = handler[g].at
             /\ handler'[g].totals = handler[g].totals

\* A request that has an attempt to report: found finished, or finished by it.
Finds(g) == /\ Reports(g)
            /\ \/ handler[g].pc \in {"submit", "claim"} /\ Done
               \/ At(g, "write")

Move(g) == \/ handler'[g] = handler[g]
           \/ handler'[g] = Idle
           \/ Sweeps(g) \/ Saves(g) \/ FailsNow(g)
           \/ Reads(g) \/ ScoresNow(g) \/ Writes(g) \/ Finds(g)

\* What a step does to the attempt.
AttemptMove == \/ UNCHANGED attemptVars
               \/ \E g \in Request : /\ At(g, "claim") /\ status = "IN_PROGRESS"
                                     /\ status' = FinalStatus(g)
                                     /\ totals' = handler[g].totals
                                     /\ handler[g].mode = "manual" => submittedAt' = handler[g].at
               \/ /\ \E g \in Request : At(g, "undo")
                  /\ status' \in {status, "IN_PROGRESS"}
                  /\ status' = status => submittedAt' = submittedAt
                  /\ totals' = totals

\* Request h alone moves.
Alone(h) == \A g \in Request \ {h} : handler'[g] = handler[g]

LEMMA AloneMoves ==
  ASSUME NEW h \in Request, Alone(h), Move(h)
  PROVE  \A g \in Request : Move(g)
  BY DEF Alone, Move

LEMMA SetAlone ==
  ASSUME TypeOK, NEW h \in Request, NEW x, handler' = [handler EXCEPT ![h] = x]
  PROVE  Alone(h) /\ handler'[h] = x
  BY DEF TypeOK, Alone

\* What the reply to a client and the end of a sweep have in common.
LEMMA ReplyAlone ==
  ASSUME TypeOK, NEW h \in Request, NEW r \in Replying, Reply(h, r)
  PROVE  /\ Alone(h)
         /\ handler'[h].mode = "manual"
         /\ handler'[h].pc \in {r, "idle"}
<1> DEFINE x == [Idle EXCEPT !.pc = IF handler[h].mode = "auto" THEN "idle" ELSE r]
<1>1. x.mode = "manual" /\ x.pc \in {r, "idle"}
  BY DEF Idle
<1>2. Alone(h) /\ handler'[h] = x
  BY SetAlone DEF Reply
<1> HIDE DEF x
<1> QED
  BY <1>1, <1>2

\* The steps of the server at which no request begins.
ServerWorks == \/ \E h \in Request : Work(h) \/ Trouble(h) \/ ReplyGone(h)
               \/ StrayWrite \/ Crash \/ Tick \/ UNCHANGED vars

LEMMA EveryRequestMoves ==
  ASSUME TypeOK, ServerWorks
  PROVE  \A g \in Request : Move(g)
<1>t. handler \in [Request -> HandlerType]
  BY DEF TypeOK
<1>1. ASSUME NEW h \in Request, AutoSubmitAttempt(h) PROVE Alone(h) /\ Move(h)
  <2>1. CASE handler' = [handler EXCEPT ![h] = Idle]
    BY <2>1, SetAlone DEF Move
  <2>2. CASE handler' = [handler EXCEPT ![h].pc = "submit"]
    <3>1. /\ Alone(h) /\ handler'[h].pc = "submit" /\ handler'[h].mode = handler[h].mode
      BY <1>t, <2>2 DEF Alone, HandlerType
    <3> QED
      BY <1>1, <3>1 DEF AutoSubmitAttempt, Move, Sweeps
  <2> QED
    BY <1>1, <2>1, <2>2 DEF AutoSubmitAttempt
<1>2. ASSUME NEW h \in Request, SaveRead(h) PROVE Alone(h) /\ Move(h)
  <2> DEFINE todo == Restrict(handler[h].pay, {q \in Question : InPaper(q)})
             x == [Idle EXCEPT !.pc = "saveRow", !.todo = todo]
  <2>1. x.pc = "saveRow"
    BY DEF Idle
  <2>2. Reply(h, "refused") \/ Reply(h, "done") \/ handler' = [handler EXCEPT ![h] = x]
    BY <1>2 DEF SaveRead
  <2> HIDE DEF x
  <2>3. Alone(h) /\ handler'[h].pc \in {"saveRow", "refused", "done", "idle"}
    BY <2>1, <2>2, ReplyAlone, SetAlone DEF Replying
  <2> QED
    BY <1>2, <2>3 DEF SaveRead, At, Saving, Move, Saves
<1>3. ASSUME NEW h \in Request, NEW q \in Question, SaveRow(h, q) PROVE Alone(h) /\ Move(h)
  <2> DEFINE left == Restrict(handler[h].todo, Question \ {q})
  <2>1. Reply(h, "done") \/ handler' = [handler EXCEPT ![h].todo = left]
    BY <1>3 DEF SaveRow
  <2> HIDE DEF left
  <2>2. Alone(h) /\ handler'[h].pc \in {"saveRow", "done", "idle"}
    BY <1>3, <1>t, <2>1, ReplyAlone DEF SaveRow, At, Replying, Alone, HandlerType
  <2> QED
    BY <1>3, <2>2 DEF SaveRow, At, Saving, Move, Saves
<1>4. ASSUME NEW h \in Request, SubmitRead(h) PROVE Alone(h) /\ Move(h)
  <2>1. CASE Done /\ Reply(h, "done")
    <3>1. Alone(h) /\ Reports(h)
      BY <2>1, ReplyAlone DEF Replying, Reports
    <3> QED
      BY <1>4, <2>1, <3>1 DEF SubmitRead, At, Move, Finds
  <2>2. CASE handler' = [handler EXCEPT ![h].pc = "merge", ![h].stamp = None, ![h].at = now,
                                        ![h].honour = HonourClientAnswers(h)]
    <3>1. Alone(h)
      BY <1>t, <2>2 DEF Alone
    <3>2. /\ handler'[h].pc = "merge" /\ handler'[h].mode = handler[h].mode
          /\ handler'[h].pay = handler[h].pay /\ handler'[h].at = now
          /\ handler'[h].honour = HonourClientAnswers(h)
      BY <1>t, <2>2 DEF HandlerType
    <3> QED
      BY <1>4, <3>1, <3>2 DEF SubmitRead, Move, Reads
  <2> QED
    BY <1>4, <2>1, <2>2 DEF SubmitRead
<1>5. ASSUME NEW h \in Request, MergeAndScore(h) PROVE Alone(h) /\ Move(h)
  <2> DEFINE write == RowsToWrite(Merged(h))
             x == [Idle EXCEPT !.pc = "claim", !.mode = handler[h].mode, !.at = handler[h].at,
                               !.totals = Totals(write), !.todo = write]
  <2>1. handler' = [handler EXCEPT ![h] = Idle] \/ handler' = [handler EXCEPT ![h] = x]
    BY <1>5 DEF MergeAndScore
  <2>2. /\ x.pc = "claim" /\ x.mode = handler[h].mode /\ x.at = handler[h].at
        /\ x.totals = Totals(write)
    <3> HIDE DEF write
    <3> QED
      BY DEF Idle
  <2> HIDE DEF x
  <2>3. Alone(h) /\ handler'[h] \in {Idle, x}
    BY <2>1, SetAlone
  <2> QED
    BY <1>5, <2>2, <2>3 DEF MergeAndScore, Move, ScoresNow
<1>6. ASSUME NEW h \in Request, Claim(h) PROVE Alone(h) /\ Move(h)
  <2>1. CASE status = "IN_PROGRESS"
    <3>1. handler' = [handler EXCEPT ![h].pc = "write"] /\ Done'
      BY <1>6, <2>1, FinalIsDone DEF Claim, Done
    <3>2. /\ Alone(h) /\ handler'[h].pc = "write" /\ handler'[h].mode = handler[h].mode
          /\ handler'[h].at = handler[h].at /\ handler'[h].totals = handler[h].totals
      BY <1>t, <3>1 DEF Alone, HandlerType
    <3> QED
      BY <1>6, <2>1, <3>1, <3>2 DEF Claim, At, Move, Writes
  <2>2. CASE status # "IN_PROGRESS"
    <3>1. Done /\ Reply(h, "done")
      BY <1>6, <2>2 DEF Claim, TypeOK, Done
    <3>2. Alone(h) /\ Reports(h)
      BY <3>1, ReplyAlone DEF Replying, Reports
    <3> QED
      BY <1>6, <3>1, <3>2 DEF Claim, At, Move, Finds
  <2> QED
    BY <2>1, <2>2
<1>7. ASSUME NEW h \in Request, NEW q \in Question, WriteRow(h, q) \/ WriteFails(h, q)
      PROVE  Alone(h) /\ Move(h)
  <2> DEFINE left == Restrict(handler[h].todo, Question \ {q})
  <2>1. /\ handler[h].pc \in {"write", "undo"}
        /\ \/ handler' = [handler EXCEPT ![h].todo = left]
           \/ handler' = [handler EXCEPT ![h].pc = "undo", ![h].todo = left]
    BY <1>7 DEF WriteRow, WriteFails
  <2> HIDE DEF left
  <2>2. /\ Alone(h) /\ handler'[h].pc \in {handler[h].pc, "undo"}
        /\ handler'[h].mode = handler[h].mode
        /\ handler'[h].at = handler[h].at /\ handler'[h].totals = handler[h].totals
    BY <1>t, <2>1 DEF Alone, HandlerType
  <2> QED
    BY <2>1, <2>2 DEF At, Move, Writes
<1>8. ASSUME NEW h \in Request, Undo(h) \/ UndoFails(h) \/ Fails(h) PROVE Alone(h) /\ Move(h)
  <2>1. Reply(h, "failed")
    BY <1>8 DEF Undo, UndoFails, Fails
  <2> QED
    BY <2>1, ReplyAlone DEF Replying, Move, FailsNow
<1>9. ASSUME NEW h \in Request, Settle(h) PROVE Alone(h) /\ Move(h)
  <2>1. Alone(h) /\ Reports(h)
    BY <1>9, ReplyAlone DEF Settle, Replying, Reports
  <2> QED
    BY <1>9, <2>1 DEF Settle, Move, Finds
<1>10. ASSUME NEW h \in Request, ReplyGone(h) PROVE Alone(h) /\ Move(h)
  BY <1>10, SetAlone DEF ReplyGone, Move
<1>11. ASSUME StrayWrite \/ Tick \/ UNCHANGED vars PROVE \A g \in Request : Move(g)
  BY <1>11 DEF StrayWrite, StrayLands, StrayLost, Tick, vars, Move
<1>12. ASSUME Crash PROVE \A g \in Request : Move(g)
  BY <1>12 DEF Crash, Move
<1> QED
  BY <1>1, <1>2, <1>3, <1>4, <1>5, <1>6, <1>7, <1>8, <1>9, <1>10, <1>11, <1>12, AloneMoves
     DEF ServerWorks, Work, Trouble

\* A request begins: of the page, or of the sweeper.
LEMMA SubmitBegins ==
  ASSUME TypeOK, NEW h \in Request, NEW s, NEW t, SubmitArrives(h, s, t)
  PROVE  /\ At(h, "idle") /\ Alone(h) /\ UNCHANGED <<now, attemptVars>>
         /\ handler'[h].pc = "submit" /\ handler'[h].mode = "manual"
         /\ handler'[h].pay = s /\ handler'[h].stamp = t
<1> DEFINE x == [Idle EXCEPT !.pc = "submit", !.pay = s, !.stamp = t]
<1>1. x.pc = "submit" /\ x.mode = "manual" /\ x.pay = s /\ x.stamp = t
  BY DEF Idle
<1>2. Alone(h) /\ handler'[h] = x
  BY SetAlone DEF SubmitArrives, Begin
<1> HIDE DEF x
<1> QED
  BY <1>1, <1>2 DEF SubmitArrives, Begin

LEMMA SaveBegins ==
  ASSUME TypeOK, NEW h \in Request, NEW d, SaveArrives(h, d)
  PROVE  /\ At(h, "idle") /\ Alone(h) /\ UNCHANGED <<now, attemptVars>>
         /\ handler'[h].pc = "save"
<1> DEFINE x == [Idle EXCEPT !.pc = "save", !.pay = d, !.stamp = None]
<1>1. x.pc = "save"
  BY DEF Idle
<1>2. Alone(h) /\ handler'[h] = x
  BY SetAlone DEF SaveArrives, Begin
<1> HIDE DEF x
<1> QED
  BY <1>1, <1>2 DEF SaveArrives, Begin

LEMMA SweepBegins ==
  ASSUME TypeOK, NEW h \in Request, SweepFinds(h)
  PROVE  /\ At(h, "idle") /\ Alone(h) /\ UNCHANGED <<now, attemptVars>>
         /\ handler'[h].pc = "sweep" /\ handler'[h].mode = "auto"
<1> DEFINE x == [Idle EXCEPT !.pc = "sweep", !.mode = "auto"]
<1>1. x.pc = "sweep" /\ x.mode = "auto"
  BY DEF Idle
<1>2. Alone(h) /\ handler'[h] = x
  BY SetAlone DEF SweepFinds
<1> HIDE DEF x
<1> QED
  BY <1>1, <1>2 DEF SweepFinds

LEMMA AttemptMoves ==
  ASSUME TypeOK, [AnyNext]_vars
  PROVE  AttemptMove
<1>1. ASSUME NEW h \in Request, Claim(h) PROVE AttemptMove
  BY <1>1 DEF Claim, AttemptMove, attemptVars
<1>2. ASSUME NEW h \in Request, Undo(h) PROVE AttemptMove
  <2>1. At(h, "undo") /\ totals' = totals
    BY <1>2 DEF Undo
  <2>2. status' \in {status, "IN_PROGRESS"} /\ (status' = status => submittedAt' = submittedAt)
    BY <1>2, FinalIsDone DEF Undo, DoneStatus
  <2> QED
    BY <2>1, <2>2 DEF AttemptMove
<1>3. ASSUME NEW h \in Request,
             \/ AnyArrival(h) \/ ReplyGone(h) \/ SaveRead(h) \/ SubmitRead(h) \/ MergeAndScore(h)
             \/ UndoFails(h) \/ Settle(h) \/ Fails(h) \/ AutoSubmitAttempt(h) \/ SweepFinds(h)
      PROVE  UNCHANGED attemptVars
  BY <1>3 DEF AnyArrival, SaveArrives, SubmitArrives, ReplyGone, SaveRead, SubmitRead,
              MergeAndScore, UndoFails, Settle, Fails, AutoSubmitAttempt, SweepFinds
<1>4. ASSUME NEW h \in Request, NEW q \in Question,
             SaveRow(h, q) \/ WriteRow(h, q) \/ WriteFails(h, q)
      PROVE  UNCHANGED attemptVars
  BY <1>4 DEF SaveRow, WriteRow, WriteFails
<1>5. ASSUME StrayWrite \/ Crash \/ Tick \/ UNCHANGED vars PROVE UNCHANGED attemptVars
  BY <1>5 DEF StrayWrite, StrayLands, StrayLost, Crash, Tick, vars, attemptVars
<1>6. AttemptMove \/ UNCHANGED attemptVars
  BY <1>1, <1>2, <1>3, <1>4, <1>5 DEF AnyNext, Server, Work, Trouble
<1> QED
  BY <1>6 DEF AttemptMove

-----------------------------------------------------------------------------
(* Told is stored.  The device is told by the reply of a submit; another   *)
(* submit may have finished the attempt.  The reply is true when it is     *)
(* given, and stays true only while nobody puts the attempt back, which    *)
(* the winner does when one of its row writes has failed.                  *)

NoWriteFails == \A h \in Request : handler[h].pc # "undo"

\* The submits the page or the replay waits for.
Awaited(h) == \/ sending # None /\ sending.slot = h
              \/ flushing # None /\ flushing.slot = h

LEMMA AwaitedListens ==
  ASSUME NEW h \in Request, h \notin Listening
  PROVE  ~Awaited(h)
  BY DEF Listening, Awaited

\* What the request of such a submit can be doing, and what its answer means.
InSubmit(h) == /\ handler[h].mode = "manual"
               /\ handler[h].pc \in {"submit", "merge", "claim", "write", "undo", "done", "failed", "idle"}
               /\ At(h, "done") => Done

ToldInv == /\ ToldIsStored
           /\ \A h \in Request : At(h, "write") => Done
           /\ \A h \in Request : Awaited(h) => InSubmit(h)

LEMMA DoneGoesOn ==
  ASSUME TypeOK, NoWriteFails, [AnyNext]_vars, Done
  PROVE  Done'
<1>1. ASSUME UNCHANGED attemptVars PROVE Done'
  BY <1>1 DEF attemptVars, Done
<1>2. status # "IN_PROGRESS"
  BY DEF Done, DoneStatus
<1> QED
  BY <1>1, <1>2, AttemptMoves DEF AttemptMove, NoWriteFails, At

LEMMA SubmitGoesOn ==
  ASSUME TypeOK, ToldInv, NEW h \in Request, InSubmit(h), Move(h), Done => Done'
  PROVE  InSubmit(h)'
<1>1. Idle.mode = "manual" /\ Idle.pc = "idle"
  BY DEF Idle
<1>2. CASE handler'[h] = handler[h] \/ handler'[h] = Idle
  BY <1>1, <1>2 DEF InSubmit, At
<1>3. CASE Sweeps(h) \/ Saves(h) \/ FailsNow(h)
  BY <1>3 DEF Sweeps, Saves, Saving, FailsNow, InSubmit, At
<1>4. CASE Reads(h) \/ ScoresNow(h)
  BY <1>4 DEF Reads, ScoresNow, InSubmit, At
<1>5. CASE Writes(h)
  BY <1>5 DEF Writes, InSubmit, At
<1>6. CASE Finds(h)
  <2>1. Done
    BY <1>6 DEF Finds, ToldInv
  <2> QED
    BY <1>6, <2>1 DEF Finds, Reports, InSubmit, At
<1> QED
  BY <1>2, <1>3, <1>4, <1>5, <1>6 DEF Move

LEMMA WriterGoesOn ==
  ASSUME TypeOK, ToldInv, NEW h \in Request, Move(h), Done => Done', At(h, "write")'
  PROVE  Done'
<1>1. Idle.pc = "idle"
  BY DEF Idle
<1> QED
  BY <1>1 DEF Move, ToldInv, At, Sweeps, Saves, FailsNow, Reads, ScoresNow, Writes, Finds, Reports

\* The server works on while the page waits for no other submit than before,
\* and is told nothing but what the answer of one of them says.
LEMMA ToldWhileWorking ==
  ASSUME TypeOK, ToldInv, NoWriteFails, ServerWorks, [AnyNext]_vars,
         \A h \in Request : Awaited(h)' => Awaited(h),
         told' => told \/ \E h \in Request : Awaited(h) /\ At(h, "done")
  PROVE  ToldInv'
<1>1. Done => Done'
  BY DoneGoesOn
<1>2. \A h \in Request : Move(h)
  BY EveryRequestMoves
<1>3. ASSUME NEW h \in Request, Awaited(h)' PROVE InSubmit(h)'
  BY <1>1, <1>2, <1>3, SubmitGoesOn DEF ToldInv
<1>4. ASSUME NEW h \in Request, At(h, "write")' PROVE Done'
  BY <1>1, <1>2, <1>4, WriterGoesOn
<1>5. told' => Done'
  BY <1>1 DEF ToldInv, ToldIsStored, InSubmit
<1> QED
  BY <1>3, <1>4, <1>5 DEF ToldInv, ToldIsStored

\* A request begins that the page does not wait for, or a submit it waits for.
LEMMA ToldWhileBeginning ==
  ASSUME TypeOK, ToldInv, NEW h \in Request,
         h \notin Listening, Alone(h), UNCHANGED attemptVars, told' = told,
         handler'[h].pc \in {"submit", "save", "sweep"},
         \A g \in Request \ {h} : Awaited(g)' => Awaited(g),
         Awaited(h)' => handler'[h].pc = "submit" /\ handler'[h].mode = "manual"
  PROVE  ToldInv'
<1>1. Done' = Done
  BY DEF Done, attemptVars
<1>2. ASSUME NEW g \in Request, g # h PROVE handler'[g] = handler[g]
  BY <1>2 DEF Alone
<1>3. ASSUME NEW g \in Request, Awaited(g)' PROVE InSubmit(g)'
  <2>1. CASE g = h
    BY <1>3, <2>1 DEF InSubmit, At
  <2>2. CASE g # h
    <3>1. InSubmit(g)
      BY <1>3, <2>2 DEF ToldInv
    <3> QED
      BY <1>1, <1>2, <2>2, <3>1 DEF InSubmit, At
  <2> QED
    BY <2>1, <2>2
<1>4. ASSUME NEW g \in Request, At(g, "write")' PROVE Done'
  BY <1>1, <1>2, <1>4 DEF ToldInv, At
<1>5. told' => Done'
  BY <1>1 DEF ToldInv, ToldIsStored
<1> QED
  BY <1>3, <1>4, <1>5 DEF ToldInv, ToldIsStored

LEMMA ToldStep ==
  ASSUME TypeOK, PageTypeOK, ToldInv, NoWriteFails, [PageNext]_allVars
  PROVE  ToldInv'
<1>a. [AnyNext]_vars
  BY PageStepIsAny
<1>p. /\ sending \in [slot : Request, stamp : Nat] \cup {None}
      /\ flushing \in [slot : Request, byPage : BOOLEAN] \cup {None}
  BY DEF PageTypeOK
<1>1. ASSUME NEW h \in Request, Submit(h) PROVE ToldInv'
  <2>1. /\ h \notin Listening /\ SubmitArrives(h, ans, now)
        /\ sending' = [slot |-> h, stamp |-> now]
        /\ UNCHANGED <<told, flushing>>
    BY <1>1 DEF Submit
  <2>2. \A g \in Request \ {h} : Awaited(g)' => Awaited(g)
    BY <2>1 DEF Awaited
  <2> QED
    BY <2>1, <2>2, SubmitBegins, ToldWhileBeginning
<1>2. ASSUME NEW h \in Request, NEW b \in BOOLEAN, Flush(h, b) PROVE ToldInv'
  <2>1. /\ h \notin Listening /\ SubmitArrives(h, queue.pay, queue.stamp)
        /\ flushing' = [slot |-> h, byPage |-> b]
        /\ UNCHANGED <<told, sending>>
    BY <1>2 DEF Flush
  <2>2. \A g \in Request \ {h} : Awaited(g)' => Awaited(g)
    BY <2>1 DEF Awaited
  <2> QED
    BY <2>1, <2>2, SubmitBegins, ToldWhileBeginning
<1>3. ASSUME NEW h \in Request, Autosave(h) PROVE ToldInv'
  <2>1. /\ h \notin Listening /\ SaveArrives(h, due)
        /\ UNCHANGED <<told, sending, flushing>>
    BY <1>3 DEF Autosave
  <2>2. \A g \in Request : Awaited(g)' => Awaited(g)
    BY <2>1 DEF Awaited
  <2> QED
    BY <2>1, <2>2, AwaitedListens, SaveBegins, ToldWhileBeginning
<1>4. ASSUME NEW h \in Request \ Listening, SweepFinds(h), UNCHANGED pageVars PROVE ToldInv'
  <2>1. UNCHANGED <<told, sending, flushing>>
    BY <1>4 DEF pageVars
  <2>2. \A g \in Request : Awaited(g)' => Awaited(g)
    BY <2>1 DEF Awaited
  <2> QED
    BY <1>4, <2>1, <2>2, AwaitedListens, SweepBegins, ToldWhileBeginning
<1>5. ASSUME ServerWorks,
             sending' = sending \/ sending' = None,
             flushing' = flushing \/ flushing' = None
                         \/ (flushing # None /\ flushing'.slot = flushing.slot),
             told' => told \/ \E h \in Request : Awaited(h) /\ At(h, "done")
      PROVE  ToldInv'
  <2>1. \A g \in Request : Awaited(g)' => Awaited(g)
    BY <1>5 DEF Awaited
  <2> QED
    BY <1>5, <1>a, <2>1, ToldWhileWorking
<1>6. CASE SubmitUnreachable \/ Leave \/ Resume \/ ResumeOffline
           \/ \E q \in Question, a \in Answer : Choose(q, a)
  BY <1>5, <1>6 DEF SubmitUnreachable, Leave, Resume, ResumeOffline, Open, Choose, ServerWorks
<1>7. CASE JoinFlush
  <2>1. /\ UNCHANGED <<vars, sending, told>> /\ flushing # None
        /\ flushing'.slot = flushing.slot
    BY <1>p, <1>7 DEF JoinFlush
  <2> QED
    BY <1>5, <2>1 DEF ServerWorks
<1>8. ASSUME NEW h \in Request, SubmitOk(h) \/ FlushOk(h) PROVE ToldInv'
  <2>1. ReplyGone(h) /\ At(h, "done") /\ Awaited(h)
    BY <1>8 DEF SubmitOk, FlushOk, Awaited
  <2>2. sending' \in {sending, None} /\ flushing' \in {flushing, None}
    BY <1>8 DEF SubmitOk, FlushOk
  <2> QED
    BY <1>5, <2>1, <2>2 DEF ServerWorks
<1>9. ASSUME NEW h \in Request, SaveReply(h) \/ SubmitFailed(h) \/ FlushFailed(h) \/ SaveLost(h)
      PROVE  ToldInv'
  <2>1. ServerWorks
    BY <1>9 DEF SaveReply, SubmitFailed, FlushFailed, SaveLost, ServerWorks
  <2>2. sending' \in {sending, None} /\ flushing' \in {flushing, None} /\ told' = told
    BY <1>9 DEF SaveReply, SubmitFailed, FlushFailed, SaveLost, Enqueue
  <2> QED
    BY <1>5, <2>1, <2>2
<1>10. CASE SubmitLost
  BY <1>5, <1>10 DEF SubmitLost, Enqueue, ServerWorks
<1>11. ASSUME ServerWorks, UNCHANGED pageVars PROVE ToldInv'
  BY <1>5, <1>11 DEF pageVars
<1>12. CASE UNCHANGED allVars
  BY <1>11, <1>12 DEF allVars, ServerWorks
<1>13. CASE ServerStep
  BY <1>4, <1>11, <1>13 DEF ServerStep, ServerWorks
<1> QED
  BY <1>1, <1>2, <1>3, <1>6, <1>7, <1>8, <1>9, <1>10, <1>12, <1>13
     DEF PageNext, Student, Device, Network

\* What the device was told to be stored on the server is stored there and
\* stays: whatever is lost, retried, replayed or crashes, as long as no row
\* write of a submit fails.  Without that condition the statement is false: a
\* replay can be told of an attempt whose winner then puts it back.
THEOREM ToldUnlessPutBack == PageSpec /\ []NoWriteFails => []ToldIsStored
<1>1. PageInit => ToldInv
  BY DEF PageInit, Init, ToldInv, ToldIsStored, Awaited, At, Idle
<1>2. TypeOK /\ PageTypeOK /\ ToldInv /\ NoWriteFails /\ [PageNext]_allVars => ToldInv'
  BY ToldStep
<1>3. ToldInv => ToldIsStored
  BY DEF ToldInv
<1> QED
  BY <1>1, <1>2, <1>3, PageTypeCorrect, PTL DEF PageSpec

-----------------------------------------------------------------------------
(* The real result.  RealResult speaks of the stored score alone; what     *)
(* leads there is that each submit on its way, at whatever stage, still    *)
(* stands for a sheet the student submitted and for the time it was        *)
(* submitted: the page's, the queue's, and every request's.                *)

Window == Deadline + ReplayWindow

\* There was a submit no later than the stamp says, and this sheet is what the
\* student had chosen then, if no reload had come before.
IsPressed(pay, t) == \E p \in pressed : /\ ~p.wiped => p.sheet = pay
                                        /\ p.inTime => t <= Deadline + Slack

\* The score is that of what was chosen at a submit, if that was still to count
\* when it was scored.
Earned(score, at) ==
  \E p \in pressed : p.inTime /\ ~p.wiped /\ at <= Window => score = Totals(p.sheet)

CallOK(h) ==
  /\ At(h, "sweep") => handler[h].mode = "auto"
  /\ handler[h].mode = "manual" =>
       /\ At(h, "submit") => /\ handler[h].stamp \in Nat /\ handler[h].stamp <= now
                             /\ handler[h].pay \in Sheets
                             /\ IsPressed(handler[h].pay, handler[h].stamp)
       /\ At(h, "merge") => /\ handler[h].pay \in Sheets
                            /\ \E p \in pressed : /\ ~p.wiped => p.sheet = handler[h].pay
                                                  /\ p.inTime /\ handler[h].at <= Window
                                                       => handler[h].honour
       /\ handler[h].pc \in {"claim", "write", "undo"} => Earned(handler[h].totals, handler[h].at)

SendingOK == sending # None => sending.stamp <= now /\ IsPressed(ans, sending.stamp)
QueueOK == queue # None => /\ queue.stamp <= now
                           /\ queue.pay \in Sheets /\ IsPressed(queue.pay, queue.stamp)

\* Nothing but a reload comes between the student and the sheet.
SheetOK == ~wiped => ans = chosen

PressedInv == /\ SheetOK /\ SendingOK /\ QueueOK
              /\ \A h \in Request : CallOK(h)
              /\ status = "SUBMITTED" => Earned(totals, submittedAt)

\* A sheet that is honoured is scored as it is: it answers every question of
\* the page, so nothing that was saved before shows through.
LEMMA HonouredSheetIsScored ==
  ASSUME TypeOK, NEW h \in Request, handler[h].honour, handler[h].pay \in Sheets
  PROVE  RowsToWrite(Merged(h)) = handler[h].pay
<1> PICK pay : pay = handler[h].pay
  OBVIOUS
<1>1. DOMAIN pay = Question /\ pay = [q \in Question |-> pay[q]]
  BY DEF Sheets
<1>2. \A q \in Question : InPaper(q)
  BY PageAssumption DEF InPaper
<1>3. Merged(h) = [q \in Question |-> pay[q]]
  <2>1. {q \in HasRow \cup Question : InPaper(q)} = Question
    BY <1>2 DEF HasRow
  <2> QED
    BY <1>1, <2>1 DEF Merged
<1>4. Merged(h) = pay
  BY <1>1, <1>3
<1>5. RowsToWrite(pay) = [q \in Question |-> pay[q]]
  BY <1>1, PageAssumption DEF RowsToWrite
<1> QED
  BY <1>1, <1>4, <1>5

\* What was submitted in time is honoured when it arrives inside the window.
LEMMA PressedIsHonoured ==
  ASSUME TypeOK, NEW h \in Request, handler[h].mode = "manual",
         handler[h].stamp \in Nat, handler[h].stamp <= now, now <= Window,
         handler[h].stamp <= Deadline + Slack
  PROVE  HonourClientAnswers(h)
<1>1. Slack \in Nat /\ now \in Nat /\ None \notin Nat
  BY AttemptAssumption DEF TypeOK
<1> QED
  BY <1>1 DEF HonourClientAnswers, FinishedInsideWindow, Window

\* A request that does not move, while time passes and the student submits.
LEMMA CallStays ==
  ASSUME NEW h \in Request, CallOK(h), handler'[h] = handler[h],
         pressed \subseteq pressed', now \in Nat, now' \in Nat, now <= now'
  PROVE  CallOK(h)'
<1>1. /\ handler'[h].mode = handler[h].mode /\ handler'[h].pc = handler[h].pc
      /\ handler'[h].pay = handler[h].pay /\ handler'[h].stamp = handler[h].stamp
      /\ handler'[h].at = handler[h].at /\ handler'[h].honour = handler[h].honour
      /\ handler'[h].totals = handler[h].totals
  OBVIOUS
<1>2. CASE handler[h].mode # "manual"
  BY <1>1, <1>2 DEF CallOK, At
<1>3. CASE At(h, "submit")
  <2>1. handler[h].stamp \in Nat /\ handler[h].stamp <= now => handler[h].stamp <= now'
    OBVIOUS
  <2> QED
    BY <1>1, <1>3, <2>1 DEF CallOK, At, IsPressed
<1>4. CASE ~At(h, "submit")
  BY <1>1, <1>4 DEF CallOK, At, Earned
<1> QED
  BY <1>2, <1>3, <1>4

LEMMA CallMoves ==
  ASSUME TypeOK, NEW h \in Request, CallOK(h), Move(h),
         pressed \subseteq pressed', now' \in Nat, now <= now'
  PROVE  CallOK(h)'
<1>n. now \in Nat
  BY DEF TypeOK
<1>1. CASE handler'[h] = handler[h]
  BY <1>n, <1>1, CallStays
<1>2. CASE handler'[h] = Idle \/ Saves(h) \/ FailsNow(h) \/ Finds(h)
  <2>1. handler'[h].pc \in {"idle", "saveRow", "refused", "done", "failed"}
    BY <1>2 DEF Idle, Saves, FailsNow, Finds, Reports
  <2> QED
    BY <2>1 DEF CallOK, At
<1>3. CASE Sweeps(h)
  BY <1>3 DEF Sweeps, CallOK, At
<1>4. CASE Reads(h)
  <2>1. handler'[h].mode = handler[h].mode /\ handler'[h].pc = "merge"
    BY <1>4 DEF Reads
  <2>2. CASE handler[h].mode # "manual"
    BY <2>1, <2>2 DEF CallOK, At
  <2>3. CASE handler[h].mode = "manual"
    <3>1. /\ handler[h].stamp \in Nat /\ handler[h].stamp <= now /\ handler[h].pay \in Sheets
          /\ handler'[h].pay = handler[h].pay /\ handler'[h].at = now
          /\ handler'[h].honour = HonourClientAnswers(h)
      BY <1>4, <2>3 DEF Reads, CallOK
    <3>2. PICK p \in pressed : /\ ~p.wiped => p.sheet = handler[h].pay
                               /\ p.inTime => handler[h].stamp <= Deadline + Slack
      BY <1>4, <2>3 DEF Reads, CallOK, IsPressed
    <3>3. p.inTime /\ now <= Window => handler'[h].honour
      BY <2>3, <3>1, <3>2, PressedIsHonoured
    <3>4. p \in pressed'
      OBVIOUS
    <3> QED
      BY <2>1, <3>1, <3>2, <3>3, <3>4 DEF CallOK, At
  <2> QED
    BY <2>2, <2>3
<1>5. CASE ScoresNow(h)
  <2>1. /\ handler'[h].mode = handler[h].mode /\ handler'[h].pc = "claim"
        /\ handler'[h].at = handler[h].at
        /\ handler'[h].totals = Totals(RowsToWrite(Merged(h)))
    BY <1>5 DEF ScoresNow
  <2>2. CASE handler[h].mode # "manual"
    BY <2>1, <2>2 DEF CallOK, At
  <2>3. CASE handler[h].mode = "manual"
    <3>1. handler[h].pay \in Sheets
      BY <1>5, <2>3 DEF ScoresNow, CallOK
    <3>2. PICK p \in pressed : /\ ~p.wiped => p.sheet = handler[h].pay
                               /\ p.inTime /\ handler[h].at <= Window => handler[h].honour
      BY <1>5, <2>3 DEF ScoresNow, CallOK
    <3>3. p.inTime /\ ~p.wiped /\ handler[h].at <= Window
            => Totals(RowsToWrite(Merged(h))) = Totals(p.sheet)
      BY <3>1, <3>2, HonouredSheetIsScored
    <3>4. handler'[h].totals = Totals(RowsToWrite(Merged(h))) /\ handler'[h].at = handler[h].at
      BY <2>1
    <3>5. p.inTime /\ ~p.wiped /\ handler'[h].at <= Window => handler'[h].totals = Totals(p.sheet)
      BY <3>3, <3>4
    <3>6. \E r \in pressed' : r.inTime /\ ~r.wiped /\ handler'[h].at <= Window
                              => handler'[h].totals = Totals(r.sheet)
      BY <3>5
    <3> QED
      BY <2>1, <3>6 DEF CallOK, At, Earned
  <2> QED
    BY <2>2, <2>3
<1>6. CASE Writes(h)
  <2>1. /\ handler'[h].mode = handler[h].mode /\ handler'[h].pc \in {"write", "undo"}
        /\ handler'[h].at = handler[h].at /\ handler'[h].totals = handler[h].totals
        /\ handler[h].pc \in {"claim", "write", "undo"}
    BY <1>6 DEF Writes
  <2> QED
    BY <2>1 DEF CallOK, At, Earned
<1> QED
  BY <1>1, <1>2, <1>3, <1>4, <1>5, <1>6 DEF Move

\* The stored score is that of the winner.
LEMMA ScoreStays ==
  ASSUME TypeOK, PressedInv, AttemptMove, pressed \subseteq pressed'
  PROVE  (status = "SUBMITTED" => Earned(totals, submittedAt))'
<1>1. CASE UNCHANGED attemptVars
  BY <1>1 DEF attemptVars, PressedInv, Earned
<1>2. ASSUME NEW g \in Request, At(g, "claim"), status' = FinalStatus(g),
             totals' = handler[g].totals,
             handler[g].mode = "manual" => submittedAt' = handler[g].at,
             status' = "SUBMITTED"
      PROVE  Earned(totals, submittedAt)'
  <2>1. handler[g].mode = "manual"
    BY <1>2, FieldTypes DEF FinalStatus
  <2>2. Earned(handler[g].totals, handler[g].at)
    BY <1>2, <2>1 DEF PressedInv, CallOK, At
  <2> QED
    BY <1>2, <2>1, <2>2 DEF Earned
<1>3. ASSUME status' \in {status, "IN_PROGRESS"}, status' = status => submittedAt' = submittedAt,
             totals' = totals, status' = "SUBMITTED"
      PROVE  Earned(totals, submittedAt)'
  BY <1>3 DEF PressedInv, Earned
<1> QED
  BY <1>1, <1>2, <1>3 DEF AttemptMove

\* The server works on what the page has sent; the device remembers no more.
LEMMA PressedWhileWorking ==
  ASSUME TypeOK, PressedInv, ServerWorks, [AnyNext]_vars,
         pressed \subseteq pressed', SheetOK', SendingOK', QueueOK'
  PROVE  PressedInv'
<1>1. now' \in Nat /\ now <= now'
  BY ClockGoesOn
<1>2. ASSUME NEW h \in Request PROVE CallOK(h)'
  BY <1>1, <1>2, EveryRequestMoves, CallMoves DEF PressedInv
<1>3. (status = "SUBMITTED" => Earned(totals, submittedAt))'
  BY AttemptMoves, ScoreStays
<1> QED
  BY <1>2, <1>3 DEF PressedInv

\* A request begins: a submit with what the student submitted, an autosave or
\* a sweep.
LEMMA PressedWhileBeginning ==
  ASSUME TypeOK, PressedInv, NEW h \in Request, Alone(h), UNCHANGED <<now, attemptVars>>,
         pressed \subseteq pressed', SheetOK', SendingOK', QueueOK', CallOK(h)'
  PROVE  PressedInv'
<1>1. now \in Nat /\ now' \in Nat /\ now <= now'
  BY DEF TypeOK
<1>2. ASSUME NEW g \in Request PROVE CallOK(g)'
  <2>1. CASE g = h
    BY <2>1
  <2>2. CASE g # h
    BY <1>1, <1>2, <2>2, CallStays DEF PressedInv, Alone
  <2> QED
    BY <2>1, <2>2
<1>3. (status = "SUBMITTED" => Earned(totals, submittedAt))'
  BY ScoreStays DEF AttemptMove
<1> QED
  BY <1>2, <1>3 DEF PressedInv

LEMMA SendingStays ==
  ASSUME TypeOK, SendingOK, now' \in Nat, now <= now', pressed \subseteq pressed',
         PageTypeOK,
         sending' = None \/ (sending' = sending /\ ans' = ans)
  PROVE  SendingOK'
<1>1. now \in Nat /\ (sending # None => sending.stamp \in Nat)
  BY DEF TypeOK, PageTypeOK
<1> QED
  BY <1>1 DEF SendingOK, IsPressed

LEMMA QueueStays ==
  ASSUME TypeOK, QueueOK, now' \in Nat, now <= now', pressed \subseteq pressed',
         PageTypeOK,
         queue' = None \/ queue' = queue
  PROVE  QueueOK'
<1>1. now \in Nat /\ (queue # None => queue.stamp \in Nat)
  BY DEF TypeOK, PageTypeOK
<1> QED
  BY <1>1 DEF QueueOK, IsPressed

\* The student submits: the sheet on the page, with the time of now.
LEMMA PressIsPressed ==
  ASSUME TypeOK, PageTypeOK, SheetOK, pressed' = pressed \cup {Submitted}
  PROVE  /\ \E p \in pressed' : (~p.wiped => p.sheet = ans) /\ (p.inTime => now <= Deadline + Slack)
         /\ pressed \subseteq pressed' /\ now <= now /\ now \in Nat /\ ans \in Sheets
<1>1. /\ ~Submitted.wiped => Submitted.sheet = ans
      /\ Submitted.inTime <=> now <= Deadline + Slack
  BY DEF Submitted, SheetOK
<1>2. now \in Nat /\ ans \in Sheets
  BY DEF TypeOK, PageTypeOK, Sheets
<1> QED
  BY <1>1, <1>2

\* No step but the opening of the page parts the sheet from what was chosen.
LEMMA SheetStep ==
  ASSUME PageTypeOK, SheetOK, [PageNext]_allVars
  PROVE  SheetOK'
<1>1. ASSUME NEW q \in Question, NEW a \in Answer, Choose(q, a) PROVE SheetOK'
  BY <1>1 DEF Choose, SheetOK
<1>2. ASSUME NEW k, Open(k) PROVE SheetOK'
  BY <1>2 DEF Open, SheetOK
<1>3. CASE UNCHANGED sheetVars
  BY <1>3 DEF SheetOK
<1>4. CASE Student
  BY <1>1, <1>2, <1>3, <1>4 DEF Student, Submit, SubmitUnreachable, Leave, Resume, ResumeOffline
<1>5. CASE Device
  BY <1>3, <1>5 DEF Device, JoinFlush, Autosave, SaveReply, SubmitOk, SubmitFailed, Enqueue, FlushOk, Flush
<1>6. CASE Network \/ ServerStep \/ UNCHANGED allVars
  BY <1>3, <1>6 DEF Network, SubmitLost, Enqueue, SaveLost, FlushFailed, ServerStep, pageVars, allVars
<1> QED
  BY <1>4, <1>5, <1>6 DEF PageNext

LEMMA PressedStep ==
  ASSUME TypeOK, PageTypeOK, PressedInv, [PageNext]_allVars
  PROVE  PressedInv'
<1>a. [AnyNext]_vars
  BY PageStepIsAny
<1>n. now \in Nat /\ now' \in Nat /\ now <= now'
  BY <1>a, ClockGoesOn DEF TypeOK
<1>p. SheetOK /\ SendingOK /\ QueueOK
  BY DEF PressedInv
<1>s. SheetOK'
  BY <1>p, SheetStep
<1>1. ASSUME NEW h \in Request, Submit(h) PROVE PressedInv'
  <2>1. /\ SubmitArrives(h, ans, now)
        /\ sending' = [slot |-> h, stamp |-> now]
        /\ pressed' = pressed \cup {Submitted}
        /\ UNCHANGED <<ans, queue>>
    BY <1>1 DEF Submit
  <2>2. /\ \E p \in pressed' : (~p.wiped => p.sheet = ans) /\ (p.inTime => now <= Deadline + Slack)
        /\ pressed \subseteq pressed' /\ ans \in Sheets
    BY <1>p, <2>1, PressIsPressed
  <2>3. /\ Alone(h) /\ UNCHANGED <<now, attemptVars>>
        /\ handler'[h].pc = "submit" /\ handler'[h].mode = "manual"
        /\ handler'[h].pay = ans /\ handler'[h].stamp = now
    BY <2>1, SubmitBegins
  <2>4. SendingOK'
    BY <1>n, <2>1, <2>2, <2>3 DEF SendingOK, IsPressed
  <2>5. QueueOK'
    BY <1>n, <1>p, <2>1, <2>2, QueueStays
  <2>6. CallOK(h)'
    BY <1>n, <2>2, <2>3 DEF CallOK, At, IsPressed
  <2> QED
    BY <1>s, <2>2, <2>3, <2>4, <2>5, <2>6, PressedWhileBeginning
<1>2. ASSUME NEW h \in Request, NEW b \in BOOLEAN, Flush(h, b) PROVE PressedInv'
  <2>1. /\ SubmitArrives(h, queue.pay, queue.stamp) /\ queue # None
        /\ UNCHANGED <<ans, sending, queue, pressed>>
    BY <1>2 DEF Flush
  <2>2. /\ Alone(h) /\ UNCHANGED <<now, attemptVars>>
        /\ handler'[h].pc = "submit" /\ handler'[h].mode = "manual"
        /\ handler'[h].pay = queue.pay /\ handler'[h].stamp = queue.stamp
    BY <2>1, SubmitBegins
  <2>3. SendingOK' /\ QueueOK'
    BY <1>n, <1>p, <2>1, SendingStays, QueueStays
  <2>4. CallOK(h)'
    <3>1. queue.stamp \in Nat /\ queue.stamp <= now /\ queue.pay \in Sheets
          /\ \E p \in pressed' : (~p.wiped => p.sheet = queue.pay) /\ (p.inTime => queue.stamp <= Deadline + Slack)
      BY <1>p, <2>1 DEF QueueOK, IsPressed, PageTypeOK
    <3> QED
      BY <2>2, <3>1 DEF CallOK, At, IsPressed
  <2> QED
    BY <1>s, <2>1, <2>2, <2>3, <2>4, PressedWhileBeginning
<1>3. ASSUME NEW h \in Request, Autosave(h) PROVE PressedInv'
  <2>1. SaveArrives(h, due) /\ UNCHANGED <<ans, sending, queue, pressed>>
    BY <1>3 DEF Autosave
  <2>2. Alone(h) /\ UNCHANGED <<now, attemptVars>> /\ handler'[h].pc = "save"
    BY <2>1, SaveBegins
  <2>3. CallOK(h)'
    BY <2>2 DEF CallOK, At
  <2> QED
    BY <1>s, <1>n, <1>p, <2>1, <2>2, <2>3, SendingStays, QueueStays, PressedWhileBeginning
<1>4. ASSUME NEW h \in Request, SweepFinds(h), UNCHANGED pageVars PROVE PressedInv'
  <2>1. UNCHANGED <<ans, sending, queue, pressed>>
    BY <1>4 DEF pageVars
  <2>2. Alone(h) /\ UNCHANGED <<now, attemptVars>> /\ handler'[h].pc = "sweep" /\ handler'[h].mode = "auto"
    BY <1>4, SweepBegins
  <2>3. CallOK(h)'
    BY <2>2 DEF CallOK, At
  <2> QED
    BY <1>s, <1>n, <1>p, <2>1, <2>2, <2>3, SendingStays, QueueStays, PressedWhileBeginning
<1>5. ASSUME ServerWorks, pressed' = pressed,
             sending' = None \/ (sending' = sending /\ ans' = ans),
             queue' = None \/ queue' = queue
      PROVE  PressedInv'
  BY <1>s, <1>a, <1>n, <1>p, <1>5, SendingStays, QueueStays, PressedWhileWorking
<1>6. ASSUME ServerWorks, Enqueue, sending # None, pressed' = pressed PROVE PressedInv'
  <2>1. /\ sending' = None /\ queue' = [pay |-> ans, stamp |-> sending.stamp]
    BY <1>6 DEF Enqueue
  <2>2. SendingOK'
    BY <2>1 DEF SendingOK
  <2>3. /\ sending.stamp \in Nat /\ sending.stamp <= now /\ ans \in Sheets
        /\ IsPressed(ans, sending.stamp)
    BY <1>6, <1>p DEF SendingOK, PageTypeOK, Sheets
  <2>4. QueueOK'
    BY <1>n, <1>6, <2>1, <2>3 DEF QueueOK, IsPressed
  <2> QED
    BY <1>s, <1>a, <1>6, <2>2, <2>4, PressedWhileWorking
<1>7. CASE SubmitUnreachable
  <2>1. /\ ServerWorks /\ UNCHANGED <<vars, ans, sending>>
        /\ queue' = [pay |-> ans, stamp |-> now]
        /\ pressed' = pressed \cup {Submitted}
    BY <1>7 DEF SubmitUnreachable, Press, ServerWorks
  <2>2. /\ \E p \in pressed' : (~p.wiped => p.sheet = ans) /\ (p.inTime => now <= Deadline + Slack)
        /\ pressed \subseteq pressed' /\ ans \in Sheets
    BY <1>p, <2>1, PressIsPressed
  <2>3. QueueOK'
    BY <1>n, <2>1, <2>2 DEF QueueOK, IsPressed, vars
  <2> QED
    BY <1>s, <1>a, <1>n, <1>p, <2>1, <2>2, <2>3, SendingStays, PressedWhileWorking
<1>8. ASSUME NEW q \in Question, NEW a \in Answer, Choose(q, a) PROVE PressedInv'
  <2>1. sending' = None
    BY <1>8 DEF Choose, PageTypeOK
  <2> QED
    BY <1>5, <1>8, <2>1 DEF Choose, ServerWorks
<1>9. CASE Resume \/ ResumeOffline
  <2>1. sending' = None
    BY <1>9 DEF Resume, ResumeOffline, Open, PageTypeOK
  <2> QED
    BY <1>5, <1>9, <2>1 DEF Resume, ResumeOffline, Open, ServerWorks
<1>10. CASE Leave \/ JoinFlush
  BY <1>5, <1>10 DEF Leave, JoinFlush, ServerWorks
<1>11. ASSUME NEW h \in Request, SubmitOk(h) \/ FlushOk(h) \/ SaveReply(h) PROVE PressedInv'
  <2>1. ReplyGone(h)
    BY <1>11 DEF SubmitOk, FlushOk, SaveReply
  <2>2. /\ pressed' = pressed /\ ans' = ans
        /\ sending' \in {sending, None} /\ queue' \in {queue, None}
    BY <1>11 DEF SubmitOk, FlushOk, SaveReply
  <2> QED
    BY <1>5, <2>1, <2>2 DEF ServerWorks
<1>12. ASSUME NEW h \in Request, SubmitFailed(h) PROVE PressedInv'
  <2>1. /\ ServerWorks /\ sending # None /\ Enqueue
    BY <1>12 DEF SubmitFailed, ServerWorks
  <2>2. pressed' = pressed
    BY <2>1 DEF Enqueue
  <2> QED
    BY <1>6, <2>1, <2>2
<1>13. ASSUME NEW h \in Request, FlushFailed(h) \/ SaveLost(h) PROVE PressedInv'
  <2>1. ServerWorks /\ UNCHANGED <<ans, sending, queue, pressed>>
    BY <1>13 DEF FlushFailed, SaveLost, ServerWorks
  <2> QED
    BY <1>5, <2>1
<1>14. ASSUME ServerWorks, UNCHANGED pageVars PROVE PressedInv'
  BY <1>5, <1>14 DEF pageVars
<1>15. CASE UNCHANGED allVars
  BY <1>14, <1>15 DEF allVars, ServerWorks
<1>16. CASE ServerStep
  BY <1>4, <1>14, <1>16 DEF ServerStep, ServerWorks
<1>17. CASE SubmitLost
  BY <1>6, <1>17 DEF SubmitLost, Enqueue, ServerWorks
<1> QED
  BY <1>1, <1>2, <1>3, <1>7, <1>8, <1>9, <1>10, <1>11, <1>12, <1>13, <1>15, <1>16, <1>17
     DEF PageNext, Student, Device, Network

\* The student gets the real result: when every submit was made in time and
\* the one that won arrived inside the replay window, the score is that of what
\* the student had chosen when submitting - whatever was autosaved, lost,
\* replayed or put back by a failed submit, and however the steps fall.  The one
\* exception is a page that was opened again after answers had been given: the
\* code blanks its sheet.
THEOREM RealResultAlways == PageSpec => []RealResult
<1>1. PageInit => PressedInv
  BY DEF PageInit, Init, PressedInv, SheetOK, SendingOK, QueueOK, CallOK, At, Idle
<1>2. TypeOK /\ PageTypeOK /\ PressedInv /\ [PageNext]_allVars => PressedInv'
  BY PressedStep
<1>3. PressedInv => RealResult
  BY DEF PressedInv, Earned, Window, RealResult
<1> QED
  BY <1>1, <1>2, <1>3, PageTypeCorrect, PTL DEF PageSpec
=============================================================================
