--------------------------- MODULE AttemptProofs ---------------------------
(***************************************************************************)
(* Theorems about Attempt, for any paper, any sheets, any number of        *)
(* requests, faults and any times: every reachable state is well typed, at *)
(* most one submit is the winner, the code implements AttemptOutcome, its  *)
(* effects happen once, a finished attempt stays as it is, and the sweeper *)
(* keeps out of the replay window.                                         *)
(***************************************************************************)
EXTENDS Attempt, TLAPS

-----------------------------------------------------------------------------
(* Answer sheets *)

LEMMA GivenIntro ==
  ASSUME NEW D \in SUBSET Question, NEW f \in [D -> Answer]
  PROVE  f \in Given
  BY DEF Given

LEMMA GivenElim ==
  ASSUME NEW f \in Given
  PROVE  /\ DOMAIN f \in SUBSET Question
         /\ f \in [DOMAIN f -> Answer]
  BY DEF Given

LEMMA NothingGiven == Nothing \in Given
<1>1. Nothing \in [{} -> Answer]
  BY DEF Nothing
<1> QED
  BY <1>1, GivenIntro

LEMMA RestrictGiven ==
  ASSUME NEW f \in Given, NEW S
  PROVE  Restrict(f, S) \in Given
<1>1. Restrict(f, S) \in [DOMAIN f \cap S -> Answer]
  BY GivenElim DEF Restrict
<1> QED
  BY <1>1, GivenIntro, GivenElim

LEMMA ScoreIsResult ==
  ASSUME NEW f \in Given
  PROVE  Totals(f) \in Result
  BY DEF Result

-----------------------------------------------------------------------------
(* Handlers stay well typed *)

HandlerOK(x) ==
  /\ x \in HandlerType
  /\ x.pc \in {"claim", "write", "undo"} => x.totals \in Result

HandlersOK(hs) ==
  /\ hs \in [Request -> HandlerType]
  /\ \A h \in Request : HandlerOK(hs[h])

LEMMA IdleOK == HandlerOK(Idle)
  BY NothingGiven DEF HandlerOK, Idle, HandlerType, Step, Finishing, Saving, Replying

LEMMA TypeOKHandlers ==
  ASSUME TypeOK
  PROVE  HandlersOK(handler)
<1>1. handler \in [Request -> HandlerType]
  BY DEF TypeOK
<1>2. ASSUME NEW h \in Request PROVE HandlerOK(handler[h])
  BY <1>1 DEF TypeOK, ScoredHandlers, HandlerOK
<1> QED
  BY <1>1, <1>2 DEF HandlersOK

LEMMA SetHandlerOK ==
  ASSUME TypeOK, NEW h \in Request, NEW x, HandlerOK(x),
         handler' = [handler EXCEPT ![h] = x]
  PROVE  HandlersOK(handler')
  BY TypeOKHandlers DEF HandlersOK, HandlerOK

LEMMA FieldTypes ==
  ASSUME TypeOK, NEW h \in Request
  PROVE  /\ handler[h] \in HandlerType
         /\ handler[h].pc \in Step
         /\ handler[h].mode \in {"manual", "auto"}
         /\ handler[h].pay \in Given
         /\ handler[h].stamp \in Nat \cup {None}
         /\ handler[h].at \in Nat
         /\ handler[h].honour \in BOOLEAN
         /\ handler[h].totals \in Result \cup {None}
         /\ handler[h].todo \in Given
         /\ handler[h].pc \in {"claim", "write", "undo"} => handler[h].totals \in Result
<1>1. HandlerOK(handler[h])
  BY TypeOKHandlers DEF HandlersOK
<1> QED
  BY <1>1 DEF HandlerOK, HandlerType

LEMMA ReplyOK ==
  ASSUME TypeOK, NEW h \in Request, NEW r \in Replying, Reply(h, r)
  PROVE  HandlersOK(handler')
<1> DEFINE x == [Idle EXCEPT !.pc = IF handler[h].mode = "auto" THEN "idle" ELSE r]
<1>1. HandlerOK(x)
  BY IdleOK DEF HandlerOK, HandlerType, Step, Replying, Idle
<1> QED
  BY <1>1, SetHandlerOK DEF Reply

LEMMA BeginOK ==
  ASSUME TypeOK, NEW h \in Request, NEW step \in {"submit", "save"}, NEW pay \in Given,
         NEW t \in Nat \cup {None}, Begin(h, step, pay, t)
  PROVE  HandlersOK(handler')
<1>1. HandlerOK([Idle EXCEPT !.pc = step, !.pay = pay, !.stamp = t])
  BY IdleOK DEF HandlerOK, HandlerType, Idle, Step, Finishing, Saving
<1> QED
  BY <1>1, SetHandlerOK DEF Begin

-----------------------------------------------------------------------------
(* What a submit scores and writes *)

LEMMA MergedGiven ==
  ASSUME TypeOK, NEW h \in Request
  PROVE  Merged(h) \in Given
<1> DEFINE sent == IF handler[h].honour THEN DOMAIN handler[h].pay ELSE {}
           D == {q \in HasRow \cup sent : InPaper(q)}
<1>1. D \in SUBSET Question
  BY FieldTypes, GivenElim DEF HasRow
<1>2. ASSUME NEW q \in D
      PROVE  (IF q \in sent THEN handler[h].pay[q] ELSE rows[q]) \in Answer
  BY <1>1, FieldTypes, GivenElim DEF HasRow, TypeOK
<1>3. Merged(h) \in [D -> Answer]
  BY <1>2 DEF Merged
<1> QED
  BY <1>1, <1>3, GivenIntro

LEMMA RowsToWriteGiven ==
  ASSUME NEW a \in Given
  PROVE  RowsToWrite(a) \in Given
<1> DEFINE D == DOMAIN a \cup (IF Paper = None THEN {} ELSE Paper)
<1>1. D \in SUBSET Question
  BY AttemptAssumption, GivenElim
<1>2. RowsToWrite(a) \in [D -> Answer]
  BY GivenElim DEF RowsToWrite, Answer
<1> QED
  BY <1>1, <1>2, GivenIntro

-----------------------------------------------------------------------------
(* Clients of any kind.  What the server does is proved for requests with  *)
(* whatever well-typed sheet and stamp; Spec draws them from Sheet, Diff   *)
(* and Stamp, and the exam page (ExamPage) from its own state.             *)

AnyArrival(h) == \/ \E s \in Given, t \in Nat \cup {None} : SubmitArrives(h, s, t)
                 \/ \E d \in Given : SaveArrives(h, d)

AnyNext == Server \/ \E h \in Request : AnyArrival(h) \/ ReplyGone(h)

AnySpec == Init /\ [][AnyNext]_vars

LEMMA NextIsAny == Next => AnyNext
  BY AttemptAssumption DEF Next, Arrival, AnyNext, AnyArrival

LEMMA SpecIsAny == Spec => AnySpec
  BY NextIsAny, PTL DEF Spec, AnySpec

-----------------------------------------------------------------------------
(* Type correctness *)

RowsType == [Question -> Answer \cup {None}]
StrayType == SUBSET (Question \X Answer)

LEMMA TypeInit == Init => TypeOK
<1> SUFFICES ASSUME Init PROVE TypeOK
  OBVIOUS
<1>1. handler \in [Request -> HandlerType] /\ ScoredHandlers
  BY IdleOK DEF Init, HandlerOK, ScoredHandlers
<1>2. /\ now \in Nat /\ xp \in Nat /\ settled \in Nat /\ faults \in 0..MaxFaults
  BY AttemptAssumption DEF Init
<1>5. disturbed \in BOOLEAN
  BY Zenon DEF Init
<1>3. rows \in [Question -> Answer \cup {None}] /\ stray \subseteq Question \X Answer
  BY DEF Init
<1>4. /\ status \in DoneStatus \cup {"IN_PROGRESS"}
      /\ totals \in Result \cup {None} /\ submittedAt \in Nat \cup {None}
  BY DEF Init
<1> QED
  BY <1>1, <1>2, <1>3, <1>4, <1>5 DEF TypeOK

\* What a step must show: the handlers, and each remaining variable it changes.
LEMMA TypeOKFrom ==
  ASSUME HandlersOK(handler'),
         now' \in Nat,
         status' \in DoneStatus \cup {"IN_PROGRESS"},
         totals' \in Result \cup {None},
         submittedAt' \in Nat \cup {None},
         rows' \in RowsType,
         xp' \in Nat, settled' \in Nat,
         stray' \in StrayType,
         faults' \in 0..MaxFaults,
         disturbed' \in BOOLEAN
  PROVE  TypeOK'
<1>1. handler' \in [Request -> HandlerType] /\ ScoredHandlers'
  BY DEF HandlersOK, HandlerOK, ScoredHandlers
<1> QED
  BY <1>1 DEF TypeOK, RowsType, StrayType

LEMMA TypeOKFacts ==
  ASSUME TypeOK
  PROVE  /\ HandlersOK(handler)
         /\ now \in Nat
         /\ status \in DoneStatus \cup {"IN_PROGRESS"}
         /\ totals \in Result \cup {None}
         /\ submittedAt \in Nat \cup {None}
         /\ rows \in RowsType
         /\ xp \in Nat /\ settled \in Nat
         /\ stray \in StrayType
         /\ faults \in 0..MaxFaults
         /\ disturbed \in BOOLEAN
  BY TypeOKHandlers DEF TypeOK, RowsType, StrayType

LEMMA FaultType ==
  ASSUME faults \in 0..MaxFaults, Fault
  PROVE  faults' \in 0..MaxFaults
  BY AttemptAssumption DEF Fault

\* A row is overwritten with an answer.
LEMMA RowWritten ==
  ASSUME rows \in RowsType, NEW q, NEW a \in Answer, rows' = [rows EXCEPT ![q] = a]
  PROVE  rows' \in RowsType
  BY DEF RowsType

\* What is left of a failed submit are rows of its sheet.
LEMMA StrayLeft ==
  ASSUME TypeOK, NEW h \in Request,
         stray' = stray \cup {<<q, handler[h].todo[q]>> : q \in DOMAIN handler[h].todo}
  PROVE  stray' \in StrayType
<1>1. \A q \in DOMAIN handler[h].todo : q \in Question /\ handler[h].todo[q] \in Answer
  BY FieldTypes, GivenElim
<1> QED
  BY <1>1 DEF TypeOK, StrayType

LEMMA TypeStep == TypeOK /\ [AnyNext]_vars => TypeOK'
<1> SUFFICES ASSUME TypeOK, [AnyNext]_vars PROVE TypeOK'
  OBVIOUS
<1> USE TypeOKFacts
<1>1. ASSUME NEW h \in Request, NEW d \in Given, SaveArrives(h, d) PROVE TypeOK'
  BY <1>1, BeginOK, TypeOKFrom
     DEF SaveArrives, attemptVars, effectVars, faultVars
<1>2. ASSUME NEW h \in Request, SaveRead(h) PROVE TypeOK'
  <2> DEFINE todo == Restrict(handler[h].pay, {q \in Question : InPaper(q)})
  <2>1. CASE handler' = [handler EXCEPT ![h] = [Idle EXCEPT !.pc = "saveRow", !.todo = todo]]
    <3>1. HandlerOK([Idle EXCEPT !.pc = "saveRow", !.todo = todo])
      <4>1. todo \in Given
        BY FieldTypes, RestrictGiven
      <4> HIDE DEF todo
      <4> QED
        BY <4>1, IdleOK DEF HandlerOK, HandlerType, Idle, Step, Saving
    <3>2. HandlersOK(handler')
      BY <2>1, <3>1, SetHandlerOK
    <3> QED
      BY <1>2, <3>2, TypeOKFrom DEF SaveRead, attemptVars, effectVars, faultVars
  <2>2. CASE Reply(h, "refused") \/ Reply(h, "done")
    <3>1. HandlersOK(handler')
      BY <2>2, ReplyOK DEF Replying
    <3> QED
      BY <1>2, <3>1, TypeOKFrom DEF SaveRead, attemptVars, effectVars, faultVars
  <2> QED
    BY <1>2, <2>1, <2>2 DEF SaveRead
<1>3. ASSUME NEW h \in Request, NEW q \in Question, SaveRow(h, q) PROVE TypeOK'
  <2>1. handler[h].todo[q] \in Answer
    BY <1>3, FieldTypes, GivenElim DEF SaveRow
  <2>2. rows' \in RowsType
    BY <1>3, <2>1, RowWritten DEF SaveRow
  <2>3. HandlersOK(handler')
    <3> DEFINE left == Restrict(handler[h].todo, Question \ {q})
    <3>1. CASE Reply(h, "done")
      BY <3>1, ReplyOK DEF Replying
    <3>2. CASE handler' = [handler EXCEPT ![h].todo = left]
      <4>1. left \in Given
        BY FieldTypes, RestrictGiven
      <4> HIDE DEF left
      <4>2. HandlerOK([handler[h] EXCEPT !.todo = left])
        BY <4>1, FieldTypes DEF HandlerOK, HandlerType
      <4> QED
        BY <3>2, <4>2, SetHandlerOK
    <3> QED
      BY <1>3, <3>1, <3>2 DEF SaveRow
  <2>4. disturbed' \in BOOLEAN
    BY <1>3 DEF SaveRow
  <2> QED
    BY <1>3, <2>2, <2>3, <2>4, TypeOKFrom DEF SaveRow, attemptVars, effectVars
<1>4. ASSUME NEW h \in Request, NEW s \in Given, NEW t \in Nat \cup {None}, SubmitArrives(h, s, t)
      PROVE  TypeOK'
  BY <1>4, BeginOK, TypeOKFrom
     DEF SubmitArrives, attemptVars, effectVars, faultVars
<1>5. ASSUME NEW h \in Request, SubmitRead(h) PROVE TypeOK'
  <2>1. CASE Reply(h, "done")
    <3>1. HandlersOK(handler')
      BY <2>1, ReplyOK DEF Replying
    <3> QED
      BY <1>5, <3>1, TypeOKFrom DEF SubmitRead, attemptVars, effectVars, faultVars
  <2>2. CASE handler' = [handler EXCEPT ![h].pc = "merge", ![h].stamp = None, ![h].at = now,
                                        ![h].honour = HonourClientAnswers(h)]
    <3> DEFINE x == [handler[h] EXCEPT !.pc = "merge", !.stamp = None, !.at = now,
                                       !.honour = HonourClientAnswers(h)]
    <3>1. HonourClientAnswers(h) \in BOOLEAN
      BY DEF HonourClientAnswers
    <3>2. HandlerOK(x)
      BY <3>1, FieldTypes DEF HandlerOK, HandlerType, Step, Finishing
    <3>3. handler' = [handler EXCEPT ![h] = x]
      BY <2>2, FieldTypes DEF HandlerType
    <3>4. HandlersOK(handler')
      BY <3>2, <3>3, SetHandlerOK
    <3> QED
      BY <1>5, <3>4, TypeOKFrom DEF SubmitRead, attemptVars, effectVars, faultVars
  <2> QED
    BY <1>5, <2>1, <2>2 DEF SubmitRead
<1>6. ASSUME NEW h \in Request, MergeAndScore(h) PROVE TypeOK'
  <2> DEFINE write == RowsToWrite(Merged(h))
             x == [Idle EXCEPT !.pc = "claim", !.mode = handler[h].mode, !.at = handler[h].at,
                               !.totals = Totals(write), !.todo = write]
  <2>1. HandlerOK(x)
    <3>1. write \in Given /\ Totals(write) \in Result
      BY MergedGiven, RowsToWriteGiven, ScoreIsResult
    <3> HIDE DEF write
    <3> QED
      BY <3>1, FieldTypes, IdleOK DEF HandlerOK, HandlerType, Idle, Step, Finishing
  <2>2. handler' = [handler EXCEPT ![h] = Idle] \/ handler' = [handler EXCEPT ![h] = x]
    BY <1>6 DEF MergeAndScore
  <2>3. HandlersOK(handler')
    BY <2>1, <2>2, IdleOK, SetHandlerOK
  <2> QED
    BY <1>6, <2>3, TypeOKFrom DEF MergeAndScore, attemptVars, effectVars, faultVars
<1>7. ASSUME NEW h \in Request, Claim(h) PROVE TypeOK'
  <2>1. CASE status = "IN_PROGRESS"
    <3>1. HandlerOK([handler[h] EXCEPT !.pc = "write"])
      BY <1>7, FieldTypes DEF Claim, At, HandlerOK, HandlerType, Step, Finishing
    <3>2. HandlersOK(handler')
      BY <1>7, <2>1, <3>1, SetHandlerOK DEF Claim
    <3>3. /\ status' \in DoneStatus
          /\ totals' \in Result
          /\ submittedAt' \in Nat
      BY <1>7, <2>1, FieldTypes, AttemptAssumption DEF Claim, At, FinalStatus, DoneStatus
    <3> QED
      BY <1>7, <3>2, <3>3, TypeOKFrom DEF Claim, effectVars, faultVars
  <2>2. CASE status # "IN_PROGRESS"
    <3>1. HandlersOK(handler')
      BY <1>7, <2>2, ReplyOK DEF Claim, Replying
    <3> QED
      BY <1>7, <2>2, <3>1, TypeOKFrom DEF Claim, attemptVars, effectVars, faultVars
  <2> QED
    BY <2>1, <2>2
<1>8. ASSUME NEW h \in Request, NEW q \in Question, WriteRow(h, q) PROVE TypeOK'
  <2>1. handler[h].todo[q] \in Answer
    BY <1>8, FieldTypes, GivenElim DEF WriteRow
  <2>2. rows' \in RowsType
    BY <1>8, <2>1, RowWritten DEF WriteRow
  <2> DEFINE left == Restrict(handler[h].todo, Question \ {q})
  <2>3. HandlerOK([handler[h] EXCEPT !.todo = left])
    <3>1. left \in Given
      BY FieldTypes, RestrictGiven
    <3> HIDE DEF left
    <3> QED
      BY <3>1, FieldTypes DEF HandlerOK, HandlerType
  <2>4. HandlersOK(handler')
    BY <1>8, <2>3, SetHandlerOK DEF WriteRow
  <2> QED
    BY <1>8, <2>2, <2>4, TypeOKFrom DEF WriteRow, attemptVars, effectVars, faultVars
<1>9. ASSUME NEW h \in Request, NEW q \in Question, WriteFails(h, q) PROVE TypeOK'
  <2> DEFINE left == Restrict(handler[h].todo, Question \ {q})
             x == [handler[h] EXCEPT !.pc = "undo", !.todo = left]
  <2>1. HandlerOK(x) /\ handler' = [handler EXCEPT ![h] = x]
    <3>1. left \in Given
      BY FieldTypes, RestrictGiven
    <3>2. handler' = [handler EXCEPT ![h].pc = "undo", ![h].todo = left]
      BY <1>9 DEF WriteFails
    <3> HIDE DEF left
    <3>3. handler' = [handler EXCEPT ![h] = x]
      BY <3>2, FieldTypes DEF HandlerType
    <3>4. HandlerOK(x)
      BY <1>9, <3>1, FieldTypes DEF WriteFails, HandlerOK, HandlerType, Step, Finishing
    <3> QED
      BY <3>3, <3>4
  <2>2. HandlersOK(handler')
    BY <2>1, SetHandlerOK
  <2> QED
    BY <1>9, <2>2, FaultType, TypeOKFrom DEF WriteFails, attemptVars, effectVars
<1>10. ASSUME NEW h \in Request, Undo(h) PROVE TypeOK'
  <2>1. HandlersOK(handler')
    BY <1>10, ReplyOK DEF Undo, Replying
  <2>2. stray' \in StrayType
    BY <1>10, StrayLeft DEF Undo
  <2>3. /\ status' \in DoneStatus \cup {"IN_PROGRESS"}
        /\ submittedAt' \in Nat \cup {None}
        /\ disturbed' \in BOOLEAN
    BY <1>10 DEF Undo
  <2> QED
    BY <1>10, <2>1, <2>2, <2>3, TypeOKFrom DEF Undo, effectVars
<1>11. ASSUME NEW h \in Request, UndoFails(h) PROVE TypeOK'
  <2>1. HandlersOK(handler')
    BY <1>11, ReplyOK DEF UndoFails, Replying
  <2>2. stray' \in StrayType
    BY <1>11, StrayLeft DEF UndoFails
  <2> QED
    BY <1>11, <2>1, <2>2, FaultType, TypeOKFrom DEF UndoFails, attemptVars, effectVars
<1>12. ASSUME NEW h \in Request, Settle(h) PROVE TypeOK'
  <2>1. HandlersOK(handler')
    BY <1>12, ReplyOK DEF Settle, Replying
  <2>2. xp' \in Nat /\ settled' \in Nat
    BY <1>12 DEF Settle
  <2> QED
    BY <1>12, <2>1, <2>2, TypeOKFrom DEF Settle, attemptVars, faultVars
<1>13. ASSUME NEW h \in Request, AutoSubmitAttempt(h) PROVE TypeOK'
  <2>1. HandlerOK([handler[h] EXCEPT !.pc = "submit"])
    BY FieldTypes DEF HandlerOK, HandlerType, Step, Finishing
  <2>2. HandlersOK(handler')
    BY <1>13, <2>1, IdleOK, SetHandlerOK DEF AutoSubmitAttempt
  <2> QED
    BY <1>13, <2>2, TypeOKFrom DEF AutoSubmitAttempt, attemptVars, effectVars, faultVars
<1>14. ASSUME NEW h \in Request, SweepFinds(h) PROVE TypeOK'
  <2>1. HandlerOK([Idle EXCEPT !.pc = "sweep", !.mode = "auto"])
    BY IdleOK DEF HandlerOK, HandlerType, Idle, Step
  <2>2. HandlersOK(handler')
    BY <1>14, <2>1, SetHandlerOK DEF SweepFinds
  <2> QED
    BY <1>14, <2>2, TypeOKFrom DEF SweepFinds, attemptVars, effectVars, faultVars
<1>15. ASSUME NEW h \in Request, Fails(h) PROVE TypeOK'
  <2>1. HandlersOK(handler')
    BY <1>15, ReplyOK DEF Fails, Replying
  <2> QED
    BY <1>15, <2>1, FaultType, TypeOKFrom DEF Fails, attemptVars, effectVars
<1>16. ASSUME NEW h \in Request, ReplyGone(h) PROVE TypeOK'
  BY <1>16, IdleOK, SetHandlerOK, TypeOKFrom DEF ReplyGone, attemptVars, effectVars, faultVars
<1>17. ASSUME NEW w \in stray, StrayLands(w) PROVE TypeOK'
  <2>1. w[1] \in Question /\ w[2] \in Answer
    BY DEF StrayType
  <2>2. rows' \in RowsType
    BY <1>17, <2>1, RowWritten DEF StrayLands
  <2>3. disturbed' \in BOOLEAN /\ stray' \in StrayType
    BY <1>17 DEF StrayLands, StrayType
  <2> QED
    BY <1>17, <2>2, <2>3, TypeOKFrom DEF StrayLands, attemptVars, effectVars
<1>18. ASSUME NEW w \in stray, StrayLost(w) PROVE TypeOK'
  BY <1>18, TypeOKFrom DEF StrayLost, StrayType, attemptVars, effectVars
<1>19. CASE Crash
  <2>1. ASSUME NEW h \in Request PROVE HandlerOK(handler'[h])
    BY <1>19, IdleOK DEF Crash, HandlersOK
  <2>2. HandlersOK(handler')
    BY <1>19, <2>1 DEF Crash, HandlersOK, HandlerOK
  <2>3. disturbed' \in BOOLEAN /\ stray' \in StrayType
    BY <1>19 DEF Crash, StrayType
  <2> QED
    BY <1>19, <2>2, <2>3, FaultType, TypeOKFrom DEF Crash, attemptVars, effectVars
<1>20. CASE Tick
  BY <1>20, TypeOKFrom DEF Tick, attemptVars, effectVars, faultVars
<1>21. CASE UNCHANGED vars
  BY <1>21, TypeOKFrom DEF vars
<1> QED
  BY <1>1, <1>2, <1>3, <1>4, <1>5, <1>6, <1>7, <1>8, <1>9, <1>10, <1>11, <1>12, <1>13, <1>14,
     <1>15, <1>16, <1>17, <1>18, <1>19, <1>20, <1>21
     DEF AnyNext, Server, AnyArrival, Work, Trouble, StrayWrite

LEMMA TypeAlways == AnySpec => []TypeOK
  BY TypeInit, TypeStep, PTL DEF AnySpec

\* Every reachable state of the attempt, its rows and the requests working on
\* it is well typed; a request that is to store a result has scored one.
THEOREM TypeCorrect == Spec => []TypeOK
  BY SpecIsAny, TypeAlways, PTL
-----------------------------------------------------------------------------
(* The shape of a step: what it does to the attempt, to the effects and to *)
(* the winners, whatever the request is doing.  All that follows is proved *)
(* from these four shapes.                                                 *)

\* After the step g is a winner as it was before.
StillWins(g) == g \in Winners /\ handler'[g].mode = handler[g].mode

\* Nothing happens to the attempt; winners may die.
Keeps == /\ UNCHANGED <<attemptVars, effectVars>>
         /\ \A g \in Winners' : StillWins(g)

Wins(h) == /\ ~Done
           /\ status' = FinalStatus(h)
           /\ totals' \in Result
           /\ UNCHANGED effectVars
           /\ h \in Winners' /\ handler'[h].mode = handler[h].mode
           /\ \A g \in Winners' \ {h} : StillWins(g)

\* Winner h is done with the attempt.
Ends(h) == /\ h \in Winners
           /\ \A g \in Winners' : g # h /\ StillWins(g)

GivesBack(h) == /\ Ends(h)
                /\ status' = IF status = FinalStatus(h) THEN "IN_PROGRESS" ELSE status
                /\ UNCHANGED <<totals, effectVars>>

Settles(h) == /\ Ends(h)
              /\ UNCHANGED attemptVars
              /\ settled' = settled + 1
              /\ xp' = IF handler[h].mode = "manual" THEN xp + 1 ELSE xp

Shape == Keeps \/ \E h \in Request : Wins(h) \/ GivesBack(h) \/ Settles(h)

\* A request works for the sweeper only if the sweeper found it late enough.
ModesFrom == \A g \in Request : handler'[g].mode = "auto"
                                  => handler[g].mode = "auto" \/ now > Deadline + Grace

\* Request h alone moves, and not to a step of a winner.
Quiet1(h) == /\ \A g \in Request \ {h} : handler'[g] = handler[g]
             /\ handler'[h].pc \notin {"write", "undo"}
             /\ handler'[h].mode = "auto" => handler[h].mode = "auto" \/ now > Deadline + Grace

LEMMA QuietKeeps ==
  ASSUME NEW h \in Request, Quiet1(h), UNCHANGED <<attemptVars, effectVars>>
  PROVE  Keeps /\ ModesFrom
  BY DEF Quiet1, Keeps, ModesFrom, Winners, StillWins

LEMMA QuietEnds ==
  ASSUME NEW h \in Request, Quiet1(h), h \in Winners
  PROVE  Ends(h) /\ ModesFrom
  BY DEF Quiet1, Ends, ModesFrom, Winners, StillWins

LEMMA ReplyIsQuiet ==
  ASSUME TypeOK, NEW h \in Request, NEW r \in Replying, Reply(h, r)
  PROVE  Quiet1(h)
<1> DEFINE x == [Idle EXCEPT !.pc = IF handler[h].mode = "auto" THEN "idle" ELSE r]
<1>1. x.pc \in Replying \cup {"idle"} /\ x.mode = "manual"
  BY DEF Idle
<1>2. handler'[h] = x /\ \A g \in Request \ {h} : handler'[g] = handler[g]
  BY DEF Reply, TypeOK
<1> HIDE DEF x
<1> QED
  BY <1>1, <1>2 DEF Quiet1, Replying

LEMMA IdleIsQuiet ==
  ASSUME TypeOK, NEW h \in Request, handler' = [handler EXCEPT ![h] = Idle]
  PROVE  Quiet1(h)
  BY DEF TypeOK, Quiet1, Idle

LEMMA BeginIsQuiet ==
  ASSUME TypeOK, NEW h \in Request, NEW step \in {"submit", "save"}, NEW pay, NEW t,
         Begin(h, step, pay, t)
  PROVE  Quiet1(h)
<1> DEFINE x == [Idle EXCEPT !.pc = step, !.pay = pay, !.stamp = t]
<1>1. x.pc = step /\ x.mode = "manual"
  BY DEF Idle
<1>2. handler'[h] = x /\ \A g \in Request \ {h} : handler'[g] = handler[g]
  BY DEF Begin, TypeOK
<1> HIDE DEF x
<1> QED
  BY <1>1, <1>2 DEF Quiet1

LEMMA StepShape ==
  ASSUME TypeOK, [AnyNext]_vars
  PROVE  Shape /\ ModesFrom
<1> USE DEF Replying
<1>t. handler \in [Request -> HandlerType]
  BY DEF TypeOK
<1>1. ASSUME NEW h \in Request, AnyArrival(h)
      PROVE  Keeps /\ ModesFrom
  BY <1>1, BeginIsQuiet, QuietKeeps DEF AnyArrival, SaveArrives, SubmitArrives
<1>2. ASSUME NEW h \in Request, SaveRead(h) PROVE Keeps /\ ModesFrom
  <2> DEFINE todo == Restrict(handler[h].pay, {q \in Question : InPaper(q)})
  <2>1. CASE handler' = [handler EXCEPT ![h] = [Idle EXCEPT !.pc = "saveRow", !.todo = todo]]
    <3>1. Quiet1(h)
      BY <1>t, <2>1 DEF Quiet1, Idle
    <3> QED
      BY <1>2, <3>1, QuietKeeps DEF SaveRead
  <2>2. CASE Reply(h, "refused") \/ Reply(h, "done")
    BY <1>2, <2>2, ReplyIsQuiet, QuietKeeps DEF SaveRead
  <2> QED
    BY <1>2, <2>1, <2>2 DEF SaveRead
<1>3. ASSUME NEW h \in Request, NEW q \in Question, SaveRow(h, q) PROVE Keeps /\ ModesFrom
  <2> DEFINE left == Restrict(handler[h].todo, Question \ {q})
  <2>1. CASE handler' = [handler EXCEPT ![h].todo = left]
    <3>1. Quiet1(h)
      <4> HIDE DEF left
      <4> QED
        BY <1>3, <1>t, <2>1 DEF SaveRow, At, Quiet1, HandlerType
    <3> QED
      BY <1>3, <3>1, QuietKeeps DEF SaveRow
  <2>2. CASE Reply(h, "done")
    BY <1>3, <2>2, ReplyIsQuiet, QuietKeeps DEF SaveRow
  <2> QED
    BY <1>3, <2>1, <2>2 DEF SaveRow
<1>4. ASSUME NEW h \in Request, SubmitRead(h) PROVE Keeps /\ ModesFrom
  <2>1. CASE handler' = [handler EXCEPT ![h].pc = "merge", ![h].stamp = None, ![h].at = now,
                                        ![h].honour = HonourClientAnswers(h)]
    <3>1. Quiet1(h)
      BY <1>t, <2>1 DEF Quiet1, HandlerType
    <3> QED
      BY <1>4, <3>1, QuietKeeps DEF SubmitRead
  <2>2. CASE Reply(h, "done")
    BY <1>4, <2>2, ReplyIsQuiet, QuietKeeps DEF SubmitRead
  <2> QED
    BY <1>4, <2>1, <2>2 DEF SubmitRead
<1>5. ASSUME NEW h \in Request, MergeAndScore(h) PROVE Keeps /\ ModesFrom
  <2> DEFINE write == RowsToWrite(Merged(h))
             x == [Idle EXCEPT !.pc = "claim", !.mode = handler[h].mode, !.at = handler[h].at,
                               !.totals = Totals(write), !.todo = write]
  <2>1. handler' = [handler EXCEPT ![h] = Idle] \/ handler' = [handler EXCEPT ![h] = x]
    BY <1>5 DEF MergeAndScore
  <2>2. x.pc = "claim" /\ x.mode = handler[h].mode
    <3> HIDE DEF write
    <3> QED
      BY DEF Idle
  <2>3. Quiet1(h)
    <3> HIDE DEF x
    <3> QED
      BY <1>t, <2>1, <2>2, IdleIsQuiet DEF Quiet1
  <2> QED
    BY <1>5, <2>3, QuietKeeps DEF MergeAndScore
<1>6. ASSUME NEW h \in Request, Claim(h) PROVE (Keeps \/ Wins(h)) /\ ModesFrom
  <2>1. CASE status = "IN_PROGRESS"
    <3>1. /\ handler'[h].pc = "write" /\ handler'[h].mode = handler[h].mode
          /\ \A g \in Request \ {h} : handler'[g] = handler[g]
      BY <1>6, <1>t, <2>1 DEF Claim, HandlerType
    <3>2. totals' \in Result
      BY <1>6, <2>1, FieldTypes DEF Claim, At
    <3> QED
      BY <1>6, <2>1, <3>1, <3>2
         DEF Claim, Wins, Done, DoneStatus, Winners, StillWins, ModesFrom
  <2>2. CASE status # "IN_PROGRESS"
    BY <1>6, <2>2, ReplyIsQuiet, QuietKeeps DEF Claim
  <2> QED
    BY <2>1, <2>2
<1>7. ASSUME NEW h \in Request, NEW q \in Question, WriteRow(h, q) \/ WriteFails(h, q)
      PROVE  Keeps /\ ModesFrom
  <2> DEFINE left == Restrict(handler[h].todo, Question \ {q})
  <2>1. /\ handler[h].pc \in {"write", "undo"}
        /\ \/ handler' = [handler EXCEPT ![h].todo = left]
           \/ handler' = [handler EXCEPT ![h].pc = "undo", ![h].todo = left]
        /\ UNCHANGED <<attemptVars, effectVars>>
    BY <1>7 DEF WriteRow, WriteFails
  <2>2. /\ handler'[h].mode = handler[h].mode
        /\ \A g \in Request \ {h} : handler'[g] = handler[g]
    <3> HIDE DEF left
    <3> QED
      BY <1>t, <2>1 DEF HandlerType
  <2> QED
    BY <2>1, <2>2 DEF Keeps, StillWins, Winners, ModesFrom
<1>8. ASSUME NEW h \in Request, Undo(h) PROVE GivesBack(h) /\ ModesFrom
  <2>1. h \in Winners
    BY <1>8 DEF Undo, At, Winners
  <2>2. Ends(h) /\ ModesFrom
    BY <1>8, <2>1, ReplyIsQuiet, QuietEnds DEF Undo
  <2> QED
    BY <1>8, <2>2 DEF Undo, GivesBack
<1>9. ASSUME NEW h \in Request, UndoFails(h) \/ Fails(h) PROVE Keeps /\ ModesFrom
  BY <1>9, ReplyIsQuiet, QuietKeeps DEF UndoFails, Fails
<1>10. ASSUME NEW h \in Request, Settle(h) PROVE Settles(h) /\ ModesFrom
  <2>1. h \in Winners
    BY <1>10 DEF Settle, At, Winners
  <2>2. Ends(h) /\ ModesFrom
    BY <1>10, <2>1, ReplyIsQuiet, QuietEnds DEF Settle
  <2> QED
    BY <1>10, <2>2 DEF Settle, Settles
<1>11. ASSUME NEW h \in Request, SweepFinds(h) PROVE Keeps /\ ModesFrom
  <2>1. Quiet1(h)
    BY <1>11, <1>t, AttemptAssumption DEF SweepFinds, Quiet1, Idle, TypeOK, Grace, SWEEP_GRACE
  <2> QED
    BY <1>11, <2>1, QuietKeeps DEF SweepFinds
<1>12. ASSUME NEW h \in Request, AutoSubmitAttempt(h) PROVE Keeps /\ ModesFrom
  <2>1. CASE handler' = [handler EXCEPT ![h].pc = "submit"]
    <3>1. Quiet1(h)
      BY <1>t, <2>1 DEF Quiet1, HandlerType
    <3> QED
      BY <1>12, <3>1, QuietKeeps DEF AutoSubmitAttempt
  <2>2. CASE handler' = [handler EXCEPT ![h] = Idle]
    BY <1>12, <2>2, IdleIsQuiet, QuietKeeps DEF AutoSubmitAttempt
  <2> QED
    BY <1>12, <2>1, <2>2 DEF AutoSubmitAttempt
<1>13. ASSUME NEW h \in Request, ReplyGone(h) PROVE Keeps /\ ModesFrom
  BY <1>13, IdleIsQuiet, QuietKeeps DEF ReplyGone
<1>14. ASSUME StrayWrite \/ Tick PROVE Keeps /\ ModesFrom
  BY <1>14 DEF StrayWrite, StrayLands, StrayLost, Tick, Keeps, StillWins, Winners, ModesFrom
<1>15. CASE Crash
  <2>1. ASSUME NEW g \in Request
        PROVE  \/ handler'[g] = handler[g] /\ handler[g].pc \in Replying
               \/ handler'[g] = Idle
    BY <1>15 DEF Crash
  <2>2. Idle.pc = "idle" /\ Idle.mode = "manual"
    BY DEF Idle
  <2>3. Winners' = {}
    BY <2>1, <2>2 DEF Winners
  <2>4. ModesFrom
    BY <2>1, <2>2 DEF ModesFrom
  <2> QED
    BY <1>15, <2>3, <2>4 DEF Crash, Keeps, Shape
<1>16. CASE UNCHANGED vars
  BY <1>16 DEF vars, Shape, Keeps, StillWins, Winners, ModesFrom, attemptVars, effectVars
<1> QED
  BY <1>1, <1>2, <1>3, <1>4, <1>5, <1>6, <1>7, <1>8, <1>9, <1>10, <1>11, <1>12, <1>13, <1>14,
     <1>15, <1>16
     DEF AnyNext, Server, Work, Trouble, Shape

-----------------------------------------------------------------------------
(* One winner.  This is the strengthening the other results need: the      *)
(* claim alone does not say that its winner is still the only one when it  *)
(* comes to write, undo or settle.                                         *)

WinInv == \A g \in Winners : /\ status = FinalStatus(g)
                             /\ \A h \in Winners : h = g

LEMMA FinalIsDone ==
  ASSUME NEW h
  PROVE  FinalStatus(h) \in DoneStatus
  BY DEF FinalStatus, DoneStatus

LEMMA WinInit == Init => WinInv
  BY DEF Init, WinInv, Winners, Idle

LEMMA WinStep ==
  ASSUME WinInv, Shape
  PROVE  WinInv'
<1>1. CASE Keeps
  BY <1>1 DEF Keeps, StillWins, WinInv, FinalStatus, attemptVars, Winners
<1>2. ASSUME NEW h \in Request, Wins(h) PROVE WinInv'
  <2>1. Winners = {}
    BY <1>2, FinalIsDone DEF WinInv, Wins, Done
  <2> QED
    BY <1>2, <2>1 DEF Wins, StillWins, WinInv, FinalStatus
<1>3. ASSUME NEW h \in Request, GivesBack(h) \/ Settles(h) PROVE WinInv'
  <2>1. Winners' = {}
    BY <1>3 DEF GivesBack, Settles, Ends, StillWins, WinInv
  <2> QED
    BY <2>1 DEF WinInv
<1> QED
  BY <1>1, <1>2, <1>3 DEF Shape

LEMMA OneWinner == AnySpec => []WinInv
<1>1. TypeOK /\ WinInv /\ [AnyNext]_vars => WinInv'
  BY StepShape, WinStep
<1> QED
  BY <1>1, WinInit, TypeAlways, PTL DEF AnySpec

-----------------------------------------------------------------------------
(* The code implements AttemptOutcome *)

LEMMA InitMaps == Init => Outcome!Init
  BY DEF Init, Outcome!Init, Stage, Done, DoneStatus

LEMMA StepMaps ==
  ASSUME TypeOK, WinInv, Shape
  PROVE  [Outcome!Next]_(Outcome!outcomeVars)
<1>1. CASE Keeps
  <2>1. UNCHANGED <<status, totals, settled, xp>>
    BY <1>1 DEF Keeps, attemptVars, effectVars
  <2>2. Done' = Done
    BY <2>1 DEF Done
  <2>3. CASE Stage' = Stage
    BY <2>1, <2>2, <2>3 DEF Outcome!outcomeVars
  <2>4. CASE Stage' # Stage
    <3>1. Done /\ Winners # {} /\ Winners' = {}
      BY <1>1, <2>2, <2>4 DEF Stage, Keeps, StillWins
    <3>2. Stage = "won" /\ Stage' = "final"
      BY <2>2, <3>1 DEF Stage
    <3>3. Outcome!Die
      BY <2>1, <2>2, <3>2 DEF Outcome!Die
    <3> QED
      BY <3>3 DEF Outcome!Next
  <2> QED
    BY <2>3, <2>4
<1>2. ASSUME NEW h \in Request, Wins(h) PROVE Outcome!Next
  <2>1. FinalStatus(h) \in {"SUBMITTED", "AUTO_SUBMITTED"} /\ Done'
    BY <1>2, FinalIsDone DEF Wins, Done, DoneStatus
  <2>2. Stage = "running" /\ Stage' = "won"
    BY <1>2, <2>1 DEF Wins, Stage
  <2>3. Outcome!Win(FinalStatus(h), totals')
    BY <1>2, <2>1, <2>2 DEF Wins, Outcome!Win, effectVars
  <2> QED
    BY <1>2, <2>1, <2>3 DEF Wins, Outcome!Next
<1>3. ASSUME NEW h \in Request, GivesBack(h) PROVE Outcome!Next
  <2>1. Done /\ Stage = "won" /\ status = FinalStatus(h)
    BY <1>3, FinalIsDone DEF GivesBack, Ends, WinInv, Stage, Done
  <2>2. ~Done' /\ Stage' = "running"
    BY <1>3, <2>1 DEF GivesBack, Stage, Done, DoneStatus
  <2>3. Outcome!GiveBack
    BY <1>3, <2>1, <2>2 DEF GivesBack, Outcome!GiveBack, effectVars
  <2> QED
    BY <2>3 DEF Outcome!Next
<1>4. ASSUME NEW h \in Request, Settles(h) PROVE Outcome!Next
  <2>1. Done /\ Stage = "won" /\ status = FinalStatus(h)
    BY <1>4, FinalIsDone DEF Settles, Ends, WinInv, Stage, Done
  <2>2. UNCHANGED <<status, totals>> /\ Done' = Done
    BY <1>4 DEF Settles, attemptVars, Done
  <2>3. Winners' = {}
    BY <1>4 DEF Settles, Ends, StillWins, WinInv
  <2>4. Stage' = "final"
    BY <2>1, <2>2, <2>3 DEF Stage
  <2>5. handler[h].mode = "manual" <=> status = "SUBMITTED"
    BY <2>1, FieldTypes DEF FinalStatus
  <2>6. Outcome!Settle
    BY <1>4, <2>1, <2>2, <2>4, <2>5 DEF Settles, Outcome!Settle
  <2> QED
    BY <2>6 DEF Outcome!Next
<1> QED
  BY <1>1, <1>2, <1>3, <1>4 DEF Shape

LEMMA AnyImplementsOutcome == AnySpec => OutcomeSpec
<1>1. TypeOK /\ WinInv /\ [AnyNext]_vars => [Outcome!Next]_(Outcome!outcomeVars)
  BY StepShape, StepMaps
<1> QED
  BY <1>1, InitMaps, TypeAlways, OneWinner, PTL DEF AnySpec, OutcomeSpec, Outcome!Spec

\* Whatever submits, replays, sweeps, failures and crashes interleave, one of
\* them wins the attempt with one result, and what follows from it is started
\* by that one.
THEOREM ImplementsOutcome == Spec => OutcomeSpec
  BY SpecIsAny, AnyImplementsOutcome, PTL

-----------------------------------------------------------------------------
(* Effects, finished attempts, the replay window *)

LEMMA OnceInit == Outcome!Init => Outcome!OnceOnly
  BY DEF Outcome!Init, Outcome!OnceOnly

LEMMA OnceStep ==
  ASSUME Outcome!OnceOnly, [Outcome!Next]_(Outcome!outcomeVars)
  PROVE  Outcome!OnceOnly'
<1> USE DEF Outcome!OnceOnly
<1>1. ASSUME NEW m \in {"SUBMITTED", "AUTO_SUBMITTED"}, NEW r \in Result, Outcome!Win(m, r)
      PROVE  Outcome!OnceOnly'
  BY <1>1 DEF Outcome!Win
<1>2. CASE Outcome!GiveBack
  BY <1>2 DEF Outcome!GiveBack
<1>3. CASE Outcome!Settle
  BY <1>3 DEF Outcome!Settle
<1>4. CASE Outcome!Die
  BY <1>4 DEF Outcome!Die
<1>5. CASE UNCHANGED Outcome!outcomeVars
  BY <1>5 DEF Outcome!outcomeVars
<1> QED
  BY <1>1, <1>2, <1>3, <1>4, <1>5 DEF Outcome!Next

LEMMA AnyEffectsOnce == AnySpec => []EffectsOnce
<1>1. Outcome!OnceOnly => EffectsOnce
  BY DEF Outcome!OnceOnly, EffectsOnce, Stage, Done, DoneStatus
<1> QED
  BY <1>1, OnceInit, OnceStep, AnyImplementsOutcome, PTL DEF OutcomeSpec, Outcome!Spec

\* XP, chapters and weak topics follow from an attempt at most once, and XP
\* only from a student's own submit.
THEOREM EffectsHappenOnce == Spec => []EffectsOnce
  BY SpecIsAny, AnyEffectsOnce, PTL

LEMMA AnyFinishedStays == AnySpec => FinishedStays
<1>1. ASSUME TypeOK, [AnyNext]_vars
      PROVE  Done /\ (\A h \in Request : handler[h].pc \notin {"write", "undo"})
               => UNCHANGED <<attemptVars, effectVars>>
  <2>1. Shape
    BY <1>1, StepShape
  <2> QED
    BY <2>1 DEF Shape, Keeps, Wins, GivesBack, Settles, Ends, Winners
<1> QED
  BY <1>1, TypeAlways, PTL DEF AnySpec, FinishedStays

\* A finished attempt that no submit is busy with is never changed again: not
\* by a late replay, a second tab, or the sweeper.
THEOREM FinishedForGood == Spec => FinishedStays
  BY SpecIsAny, AnyFinishedStays, PTL

\* A request of the sweeper exists only after the replay window.
LateInv == /\ \A h \in Request : handler[h].mode = "auto" => now > Deadline + ReplayWindow
           /\ SweptAfterWindow

LEMMA GraceIsLong == Grace \in Nat /\ ReplayWindow <= Grace
  BY AttemptAssumption DEF Grace, SWEEP_GRACE

LEMMA ClockGoesOn ==
  ASSUME TypeOK, [AnyNext]_vars
  PROVE  now' \in Nat /\ now <= now'
<1>1. now \in Nat /\ (now' = now \/ now' = now + 1)
  BY DEF TypeOK, AnyNext, Server, AnyArrival, Work, Trouble, StrayWrite, SaveArrives, SubmitArrives,
         SaveRead, SaveRow, SubmitRead, MergeAndScore, Claim, Undo, UndoFails, Settle, Fails,
         AutoSubmitAttempt, WriteRow, WriteFails, SweepFinds, StrayLands, StrayLost, Crash, Tick,
         ReplyGone, vars
<1> QED
  BY <1>1

LEMMA LateStep ==
  ASSUME TypeOK, WinInv, LateInv, [AnyNext]_vars
  PROVE  LateInv'
<1>1. Shape /\ ModesFrom
  BY StepShape
<1>2. now \in Nat /\ now' \in Nat /\ now <= now'
  BY ClockGoesOn DEF TypeOK
<1>3. Deadline \in Nat /\ ReplayWindow \in Nat /\ Grace \in Nat /\ ReplayWindow <= Grace
  BY AttemptAssumption, GraceIsLong
<1>4. ASSUME NEW h \in Request, handler'[h].mode = "auto" PROVE now' > Deadline + ReplayWindow
  <2>1. handler[h].mode = "auto" \/ now > Deadline + Grace
    BY <1>1, <1>4 DEF ModesFrom
  <2> QED
    BY <1>2, <1>3, <2>1 DEF LateInv
<1>5. status' = "AUTO_SUBMITTED" => now' > Deadline + ReplayWindow
  <2>1. CASE Keeps \/ \E h \in Request : GivesBack(h) \/ Settles(h)
    <3>1. status' = "AUTO_SUBMITTED" => status = "AUTO_SUBMITTED"
      BY <2>1 DEF Keeps, GivesBack, Settles, attemptVars
    <3> QED
      BY <1>2, <1>3, <3>1 DEF LateInv, SweptAfterWindow
  <2>2. ASSUME NEW h \in Request, Wins(h), status' = "AUTO_SUBMITTED"
        PROVE  now' > Deadline + ReplayWindow
    <3>1. handler[h].mode = "auto"
      BY <2>2 DEF Wins, FinalStatus
    <3> QED
      BY <1>2, <1>3, <3>1 DEF LateInv
  <2> QED
    BY <1>1, <2>1, <2>2 DEF Shape
<1> QED
  BY <1>4, <1>5 DEF LateInv, SweptAfterWindow

LEMMA AnySweptAfterWindow == AnySpec => []SweptAfterWindow
<1>1. Init => LateInv
  BY DEF Init, LateInv, SweptAfterWindow, Idle
<1>2. TypeOK /\ WinInv /\ LateInv /\ [AnyNext]_vars => LateInv'
  BY LateStep
<1>3. LateInv => SweptAfterWindow
  BY DEF LateInv
<1> QED
  BY <1>1, <1>2, <1>3, TypeAlways, OneWinner, PTL DEF AnySpec

\* The sweeper never takes a result away from a queued submit that could still
\* be honoured, whatever ATTEMPT_SWEEP_GRACE_MIN says.
THEOREM SweeperWaits == Spec => []SweptAfterWindow
  BY SpecIsAny, AnySweptAfterWindow, PTL
=============================================================================
