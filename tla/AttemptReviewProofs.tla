------------------------ MODULE AttemptReviewProofs ------------------------
(***************************************************************************)
(* The review of a finished attempt adds up to its score unless somebody   *)
(* wrote a row behind the winner's back - for any paper, sheets, requests, *)
(* faults and times.                                                       *)
(*                                                                         *)
(* A finished attempt was scored from rows that are long overwritten, so   *)
(* the property says nothing about the states on the way.  ReviewInv does: *)
(* a submit about to claim has the rows it will write scored and misses no *)
(* row, and the winner's rows, once written, add up to the stored score.   *)
(***************************************************************************)
EXTENDS AttemptProofs

\* The rows as they will be when h has written what is left of its sheet.
Will(h) == [q \in HasRow \cup DOMAIN handler[h].todo |->
              IF q \in DOMAIN handler[h].todo THEN handler[h].todo[q] ELSE rows[q]]

\* Only questions of the paper have rows, or get them.
PaperInv == /\ \A q \in HasRow : InPaper(q)
            /\ \A h \in Request : \A q \in DOMAIN handler[h].todo : InPaper(q)
            /\ \A w \in stray : InPaper(w[1])

ScoredTodo == \A h \in Request : At(h, "claim") => handler[h].totals = Totals(handler[h].todo)
ClaimsSeeAll == \A h \in Request : At(h, "claim") /\ ~Done => HasRow \subseteq DOMAIN handler[h].todo
WinnersWill == \A h \in Request : At(h, "write") => totals = Totals(Will(h))
RowsMatch == Done /\ Winners = {} => totals = Totals(ReviewRows)

ReviewInv == ScoredTodo /\ (~disturbed => ClaimsSeeAll /\ WinnersWill /\ RowsMatch)

Inv == PaperInv /\ ReviewInv

LEMMA NothingIsEmpty == DOMAIN Nothing = {}
  BY DEF Nothing

\* What is left of a sheet when one row is written.
LEMMA LeftOver ==
  ASSUME NEW f \in Given, NEW q
  PROVE  /\ DOMAIN Restrict(f, Question \ {q}) = DOMAIN f \ {q}
         /\ \A r \in DOMAIN f \ {q} : Restrict(f, Question \ {q})[r] = f[r]
  BY GivenElim DEF Restrict

-----------------------------------------------------------------------------
(* Steps of a request that is neither winner nor about to become one *)

\* Request h alone moves, to a step that neither claims nor wins.
Moves(h) == /\ \A g \in Request \ {h} : handler'[g] = handler[g]
            /\ handler'[h].pc \notin {"claim", "write", "undo"}
            /\ \A q \in DOMAIN handler'[h].todo : InPaper(q)

LEMMA ReplyMoves ==
  ASSUME TypeOK, NEW h \in Request, NEW r \in Replying, Reply(h, r)
  PROVE  Moves(h)
<1> DEFINE x == [Idle EXCEPT !.pc = IF handler[h].mode = "auto" THEN "idle" ELSE r]
<1>1. x.pc \in Replying \cup {"idle"} /\ x.todo = Nothing
  BY DEF Idle
<1>2. handler'[h] = x /\ \A g \in Request \ {h} : handler'[g] = handler[g]
  BY DEF Reply, TypeOK
<1> HIDE DEF x
<1> QED
  BY <1>1, <1>2, NothingIsEmpty DEF Moves, Replying

LEMMA IdleMoves ==
  ASSUME TypeOK, NEW h \in Request, handler' = [handler EXCEPT ![h] = Idle]
  PROVE  Moves(h)
  BY NothingIsEmpty DEF TypeOK, Moves, Idle

LEMMA BeginMoves ==
  ASSUME TypeOK, NEW h \in Request, NEW step \in {"submit", "save"}, NEW pay, NEW t,
         Begin(h, step, pay, t)
  PROVE  Moves(h)
<1> DEFINE x == [Idle EXCEPT !.pc = step, !.pay = pay, !.stamp = t]
<1>1. x.pc = step /\ x.todo = Nothing
  BY DEF Idle
<1>2. handler'[h] = x /\ \A g \in Request \ {h} : handler'[g] = handler[g]
  BY DEF Begin, TypeOK
<1> HIDE DEF x
<1> QED
  BY <1>1, <1>2, NothingIsEmpty DEF Moves

LEMMA MovesKeepPaper ==
  ASSUME PaperInv, NEW h \in Request, Moves(h), rows' = rows, stray' \subseteq stray
  PROVE  PaperInv'
  BY DEF PaperInv, Moves, HasRow, InPaper

LEMMA MovesKeepReview ==
  ASSUME ReviewInv, NEW h \in Request, Moves(h), handler[h].pc \notin {"write", "undo"},
         UNCHANGED <<attemptVars, rows, disturbed>>
  PROVE  ReviewInv'
<1>1. Winners' = Winners /\ Done' = Done
  BY DEF Moves, Winners, Done, attemptVars
<1>2. ScoredTodo'
  BY DEF ReviewInv, ScoredTodo, Moves, At
<1>3. ASSUME ~disturbed PROVE ClaimsSeeAll'
  BY <1>1, <1>3 DEF ReviewInv, ClaimsSeeAll, Moves, At, HasRow
<1>4. ASSUME ~disturbed PROVE WinnersWill'
  BY <1>4 DEF ReviewInv, WinnersWill, Moves, At, Will, HasRow, attemptVars
<1>5. ASSUME ~disturbed PROVE RowsMatch'
  BY <1>1, <1>5 DEF ReviewInv, RowsMatch, ReviewRows, HasRow, attemptVars
<1> QED
  BY <1>2, <1>3, <1>4, <1>5 DEF ReviewInv

LEMMA MovesKeepInv ==
  ASSUME Inv, NEW h \in Request, Moves(h), handler[h].pc \notin {"write", "undo"},
         UNCHANGED <<attemptVars, rows, disturbed, stray>>
  PROVE  Inv'
  BY MovesKeepPaper, MovesKeepReview DEF Inv

-----------------------------------------------------------------------------
(* Rows written by an autosave, or by a submit that was put back *)

\* It only goes unnoticed while nothing is finished or about to claim.
LEMMA UnnoticedKeepsReview ==
  ASSUME TypeOK, WinInv, ScoredTodo', ~disturbed' => ~Overtaken,
         UNCHANGED attemptVars,
         \A g \in Request : handler'[g].pc \in {"claim", "write", "undo"} => handler'[g] = handler[g]
  PROVE  ReviewInv'
<1> SUFFICES ASSUME ~disturbed'
             PROVE  ClaimsSeeAll' /\ WinnersWill' /\ RowsMatch'
  BY DEF ReviewInv
<1>1. ~Done /\ ~Done' /\ \A g \in Request : ~At(g, "claim")
  BY DEF Overtaken, Done, attemptVars
<1>2. Winners = {}
  BY <1>1, FinalIsDone DEF WinInv, Done
<1>3. \A g \in Request : handler'[g].pc \notin {"claim", "write"}
  BY <1>1, <1>2 DEF At, Winners
<1> QED
  BY <1>1, <1>3 DEF ClaimsSeeAll, WinnersWill, RowsMatch, At

LEMMA SaveRowKeepsInv ==
  ASSUME TypeOK, WinInv, Inv, NEW h \in Request, NEW q \in Question, SaveRow(h, q)
  PROVE  Inv'
<1> DEFINE left == Restrict(handler[h].todo, Question \ {q})
<1>0. handler \in [Request -> HandlerType]
  BY DEF TypeOK
<1>1. Moves(h)
  <2>1. CASE handler' = [handler EXCEPT ![h].todo = left]
    <3>1. DOMAIN left \subseteq DOMAIN handler[h].todo
      BY FieldTypes, LeftOver
    <3> HIDE DEF left
    <3> QED
      BY <1>0, <2>1, <3>1 DEF SaveRow, At, Moves, HandlerType, Inv, PaperInv
  <2>2. CASE Reply(h, "done")
    BY <2>2, ReplyMoves DEF Replying
  <2> QED
    BY <2>1, <2>2 DEF SaveRow
<1>2. PaperInv'
  <2>1. InPaper(q)
    BY DEF SaveRow, Inv, PaperInv
  <2>2. \A r \in HasRow' : r \in HasRow \/ r = q
    BY DEF SaveRow, HasRow, TypeOK
  <2> QED
    BY <1>1, <2>1, <2>2 DEF Inv, PaperInv, InPaper, Moves, SaveRow
<1>3. ScoredTodo'
  BY <1>1 DEF Inv, ReviewInv, ScoredTodo, Moves, At
<1>4. ~disturbed' => ~Overtaken
  BY DEF SaveRow
<1>5. ReviewInv'
  BY <1>1, <1>3, <1>4, UnnoticedKeepsReview DEF Moves, SaveRow
<1> QED
  BY <1>2, <1>5 DEF Inv

LEMMA StrayLandsKeepsInv ==
  ASSUME TypeOK, WinInv, Inv, NEW w \in stray, StrayLands(w)
  PROVE  Inv'
<1>1. PaperInv'
  <2>1. InPaper(w[1])
    BY DEF Inv, PaperInv
  <2>2. \A r \in HasRow' : r \in HasRow \/ r = w[1]
    BY DEF StrayLands, HasRow, TypeOK
  <2> QED
    BY <2>1, <2>2 DEF Inv, PaperInv, InPaper, StrayLands
<1>2. ScoredTodo'
  BY DEF Inv, ReviewInv, ScoredTodo, At, StrayLands
<1>3. ~disturbed' => ~Overtaken
  BY DEF StrayLands
<1>4. ReviewInv'
  BY <1>2, <1>3, UnnoticedKeepsReview DEF StrayLands
<1> QED
  BY <1>1, <1>4 DEF Inv

-----------------------------------------------------------------------------
(* The winner *)

\* A submit scores every row there is, and every question of the paper.
LEMMA MergeKeepsInv ==
  ASSUME TypeOK, Inv, NEW h \in Request, MergeAndScore(h)
  PROVE  Inv'
<1> DEFINE answers == Merged(h)
           write == RowsToWrite(answers)
           x == [Idle EXCEPT !.pc = "claim", !.mode = handler[h].mode, !.at = handler[h].at,
                             !.totals = Totals(write), !.todo = write]
<1>0. handler \in [Request -> HandlerType]
  BY DEF TypeOK
<1>1. CASE handler' = [handler EXCEPT ![h] = Idle]
  BY <1>1, IdleMoves, MovesKeepInv DEF MergeAndScore, At, faultVars
<1>2. CASE handler' = [handler EXCEPT ![h] = x]
  <2>1. x.pc = "claim" /\ x.totals = Totals(write) /\ x.todo = write
    <3> HIDE DEF write
    <3> QED
      BY DEF Idle
  <2>2. DOMAIN write = DOMAIN answers \cup (IF Paper = None THEN {} ELSE Paper)
    BY DEF RowsToWrite
  <2>3. /\ HasRow \subseteq DOMAIN answers
        /\ \A q \in DOMAIN answers : InPaper(q)
    BY DEF Merged, Inv, PaperInv
  <2>4. \A q \in DOMAIN write : InPaper(q)
    BY <2>2, <2>3 DEF InPaper
  <2>5. handler'[h] = x /\ \A g \in Request \ {h} : handler'[g] = handler[g]
    BY <1>0, <1>2
  <2> HIDE DEF x, write, answers
  <2>6. UNCHANGED <<attemptVars, rows, disturbed, stray>>
    BY DEF MergeAndScore, faultVars
  <2>7. PaperInv'
    BY <2>1, <2>4, <2>5, <2>6 DEF Inv, PaperInv, HasRow, InPaper
  <2>8. ScoredTodo'
    BY <2>1, <2>5 DEF Inv, ReviewInv, ScoredTodo, At
  <2>9. Winners' = Winners /\ Done' = Done /\ HasRow' = HasRow
    BY <2>1, <2>5, <2>6 DEF MergeAndScore, At, Winners, Done, HasRow, attemptVars
  <2>10. ASSUME ~disturbed PROVE ClaimsSeeAll'
    BY <2>1, <2>2, <2>3, <2>5, <2>9, <2>10 DEF Inv, ReviewInv, ClaimsSeeAll, At
  <2>11. ASSUME ~disturbed PROVE WinnersWill' /\ RowsMatch'
    <3>1. WinnersWill'
      BY <2>1, <2>5, <2>6, <2>9, <2>11 DEF Inv, ReviewInv, WinnersWill, At, Will, attemptVars
    <3>2. RowsMatch'
      BY <2>6, <2>9, <2>11 DEF Inv, ReviewInv, RowsMatch, ReviewRows, attemptVars
    <3> QED
      BY <3>1, <3>2
  <2> QED
    BY <2>6, <2>7, <2>8, <2>10, <2>11 DEF Inv, ReviewInv
<1> QED
  BY <1>1, <1>2 DEF MergeAndScore

\* The winner's sheet covers all rows, so what it will leave is its sheet.
LEMMA ClaimKeepsInv ==
  ASSUME TypeOK, WinInv, Inv, NEW h \in Request, Claim(h)
  PROVE  Inv'
<1>0. handler \in [Request -> HandlerType]
  BY DEF TypeOK
<1>1. CASE status # "IN_PROGRESS"
  BY <1>1, ReplyMoves, MovesKeepInv DEF Claim, At, faultVars, Replying
<1>2. CASE status = "IN_PROGRESS"
  <2>1. /\ handler'[h].pc = "write" /\ handler'[h].todo = handler[h].todo
        /\ \A g \in Request \ {h} : handler'[g] = handler[g]
    BY <1>0, <1>2 DEF Claim, HandlerType
  <2>2. /\ totals' = handler[h].totals /\ Done' /\ ~Done
        /\ UNCHANGED <<rows, disturbed, stray>>
    BY <1>2 DEF Claim, FinalStatus, Done, DoneStatus, faultVars
  <2>3. HasRow' = HasRow
    BY <2>2 DEF HasRow
  <2>4. Winners = {}
    BY <2>2, FinalIsDone DEF WinInv, Done
  <2>5. h \in Winners'
    BY <2>1 DEF Winners
  <2>6. PaperInv'
    BY <2>1, <2>2, <2>3 DEF Inv, PaperInv, InPaper
  <2>7. ScoredTodo'
    BY <2>1 DEF Inv, ReviewInv, ScoredTodo, At
  <2>8. ASSUME ~disturbed PROVE WinnersWill'
    <3>1. HasRow \subseteq DOMAIN handler[h].todo /\ totals' = Totals(handler[h].todo)
      BY <2>2, <2>8 DEF Inv, ReviewInv, ClaimsSeeAll, ScoredTodo, Claim
    <3>2. Will(h)' = handler[h].todo
      <4>1. handler[h].todo = [q \in DOMAIN handler[h].todo |-> handler[h].todo[q]]
        BY FieldTypes, GivenElim
      <4> QED
        BY <2>1, <2>3, <3>1, <4>1 DEF Will
    <3>3. \A g \in Request : At(g, "write")' => g = h
      BY <2>1, <2>4 DEF At, Winners
    <3> QED
      BY <3>1, <3>2, <3>3 DEF WinnersWill
  <2>9. ClaimsSeeAll' /\ RowsMatch'
    BY <2>2, <2>5 DEF ClaimsSeeAll, RowsMatch
  <2> QED
    BY <2>2, <2>6, <2>7, <2>8, <2>9 DEF Inv, ReviewInv
<1> QED
  BY <1>1, <1>2

\* Writing a row of the sheet does not change what will be there in the end.
LEMMA WriteKeepsInv ==
  ASSUME TypeOK, WinInv, Inv, NEW h \in Request, NEW q \in Question, WriteRow(h, q)
  PROVE  Inv'
<1> DEFINE todo == handler[h].todo
           left == Restrict(todo, Question \ {q})
<1>0. handler \in [Request -> HandlerType] /\ rows \in [Question -> Answer \cup {None}]
  BY DEF TypeOK
<1>1. todo \in Given /\ q \in DOMAIN todo /\ DOMAIN todo \subseteq Question /\ todo[q] \in Answer
  BY FieldTypes, GivenElim DEF WriteRow
<1>2. DOMAIN left = DOMAIN todo \ {q} /\ \A r \in DOMAIN left : left[r] = todo[r]
  BY <1>1, LeftOver
<1>3. /\ handler'[h].pc = handler[h].pc /\ handler'[h].todo = left
      /\ handler'[h].totals = handler[h].totals
      /\ \A g \in Request \ {h} : handler'[g] = handler[g]
  BY <1>0 DEF WriteRow, HandlerType
<1>4. h \in Winners /\ h \in Winners' /\ Done /\ Done' /\ UNCHANGED <<totals, stray, disturbed>>
  BY <1>3, FinalIsDone DEF WriteRow, Winners, WinInv, Done, attemptVars, faultVars
<1>5. HasRow' = HasRow \cup {q} /\ rows'[q] = todo[q] /\ \A r \in Question \ {q} : rows'[r] = rows[r]
  BY <1>0, <1>1, AttemptAssumption DEF WriteRow, HasRow
<1> HIDE DEF left
<1>6. PaperInv'
  BY <1>1, <1>2, <1>3, <1>4, <1>5 DEF Inv, PaperInv, InPaper
<1>7. ScoredTodo'
  BY <1>3 DEF WriteRow, Inv, ReviewInv, ScoredTodo, At
<1>8. Will(h)' = Will(h)
  <2>1. HasRow' \cup DOMAIN left = HasRow \cup DOMAIN todo
    BY <1>1, <1>2, <1>5
  <2>2. ASSUME NEW r \in HasRow \cup DOMAIN todo
        PROVE  (IF r \in DOMAIN left THEN left[r] ELSE rows'[r])
                 = (IF r \in DOMAIN todo THEN todo[r] ELSE rows[r])
    <3>1. CASE r = q
      BY <1>1, <1>2, <1>5, <3>1
    <3>2. CASE r # q
      <4>1. r \in Question
        BY <1>1 DEF HasRow
      <4> QED
        BY <1>2, <1>5, <3>2, <4>1
    <3> QED
      BY <3>1, <3>2
  <2> QED
    BY <1>3, <2>1, <2>2 DEF Will
<1>9. ASSUME ~disturbed PROVE WinnersWill'
  <2>1. \A g \in Request : At(g, "write")' => g = h
    BY <1>3, <1>4 DEF WinInv, At, Winners
  <2>2. At(h, "write")' => totals' = Totals(Will(h))
    BY <1>3, <1>4, <1>9 DEF Inv, ReviewInv, WinnersWill, At
  <2> QED
    BY <1>8, <2>1, <2>2 DEF WinnersWill
<1>10. ClaimsSeeAll' /\ RowsMatch'
  BY <1>4 DEF ClaimsSeeAll, RowsMatch
<1> QED
  BY <1>4, <1>6, <1>7, <1>9, <1>10 DEF Inv, ReviewInv

\* Nothing is left to write: what was to be there is there.
LEMMA SettleKeepsInv ==
  ASSUME TypeOK, WinInv, Inv, NEW h \in Request, Settle(h)
  PROVE  Inv'
<1>1. Moves(h)
  BY ReplyMoves DEF Settle, Replying
<1>2. UNCHANGED <<attemptVars, rows, disturbed, stray>>
  BY DEF Settle, faultVars
<1>3. PaperInv'
  BY <1>1, <1>2, MovesKeepPaper DEF Inv
<1>4. ScoredTodo'
  BY <1>1 DEF Inv, ReviewInv, ScoredTodo, Moves, At
<1>5. Done /\ Done' /\ h \in Winners /\ HasRow' = HasRow
  BY <1>2, FinalIsDone DEF Settle, At, Winners, WinInv, Done, attemptVars, HasRow
<1>6. \A g \in Request : handler'[g].pc \notin {"write", "undo"}
  BY <1>1, <1>5 DEF Moves, WinInv, Winners
<1>7. ASSUME ~disturbed PROVE RowsMatch'
  <2>1. totals = Totals(Will(h))
    BY <1>7 DEF Inv, ReviewInv, WinnersWill, Settle
  <2>2. Will(h) = ReviewRows
    BY NothingIsEmpty DEF Settle, Will, ReviewRows
  <2>3. ReviewRows' = ReviewRows /\ totals' = totals
    BY <1>2, <1>5 DEF ReviewRows, attemptVars
  <2> QED
    BY <2>1, <2>2, <2>3 DEF RowsMatch
<1>8. ClaimsSeeAll' /\ WinnersWill'
  BY <1>5, <1>6 DEF ClaimsSeeAll, WinnersWill, At
<1> QED
  BY <1>2, <1>3, <1>4, <1>7, <1>8 DEF Inv, ReviewInv

-----------------------------------------------------------------------------
(* The winner fails *)

LEMMA WriteFailsKeepsInv ==
  ASSUME TypeOK, WinInv, Inv, NEW h \in Request, NEW q \in Question, WriteFails(h, q)
  PROVE  Inv'
<1> DEFINE left == Restrict(handler[h].todo, Question \ {q})
<1>0. handler \in [Request -> HandlerType]
  BY DEF TypeOK
<1>1. DOMAIN left \subseteq DOMAIN handler[h].todo
  BY FieldTypes, LeftOver
<1>2. /\ handler'[h].pc = "undo" /\ handler'[h].todo = left
      /\ \A g \in Request \ {h} : handler'[g] = handler[g]
  BY <1>0 DEF WriteFails, HandlerType
<1>3. h \in Winners /\ h \in Winners' /\ Done /\ Done' /\ UNCHANGED <<stray, disturbed, rows>>
  BY <1>2, FinalIsDone DEF WriteFails, Winners, WinInv, Done, attemptVars
<1> HIDE DEF left
<1>4. PaperInv'
  BY <1>1, <1>2, <1>3 DEF Inv, PaperInv, InPaper, HasRow
<1>5. ScoredTodo'
  BY <1>2 DEF Inv, ReviewInv, ScoredTodo, At
<1>6. \A g \in Request : ~At(g, "write")'
  BY <1>2, <1>3 DEF WinInv, At, Winners
<1>7. ClaimsSeeAll' /\ WinnersWill' /\ RowsMatch'
  BY <1>3, <1>6 DEF ClaimsSeeAll, WinnersWill, RowsMatch
<1> QED
  BY <1>4, <1>5, <1>7 DEF Inv, ReviewInv

\* After the rollback the attempt runs; another submit that was about to claim
\* has missed the rows of this one, and counts as disturbed.
LEMMA UndoKeepsInv ==
  ASSUME TypeOK, WinInv, Inv, NEW h \in Request, Undo(h) \/ UndoFails(h)
  PROVE  Inv'
<1>1. Moves(h)
  BY ReplyMoves DEF Undo, UndoFails, Replying
<1>2. PaperInv'
  <2>1. \A w \in stray' : InPaper(w[1])
    BY DEF Undo, UndoFails, Inv, PaperInv
  <2>2. rows' = rows
    BY DEF Undo, UndoFails
  <2> QED
    BY <1>1, <2>1, <2>2 DEF Inv, PaperInv, Moves, HasRow, InPaper
<1>3. ScoredTodo'
  BY <1>1 DEF Inv, ReviewInv, ScoredTodo, Moves, At
<1>4. ASSUME ~disturbed' PROVE ClaimsSeeAll' /\ WinnersWill' /\ RowsMatch'
  <2>1. Undo(h)
    BY <1>4 DEF UndoFails
  <2>2. \A g \in Request : handler'[g].pc \notin {"claim", "write"}
    <3>1. \A g \in Request \ {h} : handler[g].pc \notin {"claim", "write"}
      BY <1>4, <2>1 DEF Undo, At, WinInv, Winners
    <3> QED
      BY <1>1, <3>1 DEF Moves
  <2>3. ~Done'
    BY <2>1 DEF Undo, At, WinInv, Winners, Done, DoneStatus
  <2> QED
    BY <2>2, <2>3 DEF ClaimsSeeAll, WinnersWill, RowsMatch, At
<1> QED
  BY <1>2, <1>3, <1>4 DEF Inv, ReviewInv

LEMMA CrashKeepsInv ==
  ASSUME TypeOK, Inv, Crash
  PROVE  Inv'
<1>1. ASSUME NEW g \in Request
      PROVE  \/ handler'[g] = handler[g] /\ handler[g].pc \in Replying
             \/ handler'[g] = Idle
  BY DEF Crash
<1>2. Idle.pc = "idle" /\ Idle.todo = Nothing
  BY DEF Idle
<1>3. \A g \in Request : handler'[g].pc \notin {"claim", "write", "undo"}
  BY <1>1, <1>2 DEF Replying
<1>4. PaperInv'
  BY <1>1, <1>2, NothingIsEmpty DEF Crash, Inv, PaperInv, HasRow, InPaper
<1>5. ASSUME ~disturbed' PROVE RowsMatch'
  <2>1. Winners = {} /\ ~disturbed
    BY <1>5 DEF Crash, Winners
  <2>2. UNCHANGED <<attemptVars, rows>>
    BY DEF Crash
  <2> QED
    BY <2>1, <2>2 DEF Inv, ReviewInv, RowsMatch, ReviewRows, HasRow, Done, attemptVars
<1> QED
  BY <1>3, <1>4, <1>5 DEF Inv, ReviewInv, ScoredTodo, ClaimsSeeAll, WinnersWill, At

-----------------------------------------------------------------------------
(* The theorem *)

\* Requests that have not come to their claim.
LEMMA EarlyStepKeepsInv ==
  ASSUME TypeOK, Inv, NEW h \in Request,
         \/ AnyArrival(h) \/ ReplyGone(h) \/ SaveRead(h) \/ SubmitRead(h)
         \/ SweepFinds(h) \/ AutoSubmitAttempt(h) \/ Fails(h)
  PROVE  Inv'
<1> USE DEF Replying, Saving, At
<1>0. handler \in [Request -> HandlerType]
  BY DEF TypeOK
<1>1. /\ handler[h].pc \notin {"write", "undo"}
      /\ UNCHANGED <<attemptVars, rows, disturbed, stray>>
  BY DEF AnyArrival, SaveArrives, SubmitArrives, Begin, ReplyGone, SaveRead, SubmitRead, SweepFinds,
         AutoSubmitAttempt, Fails, faultVars
<1>2. Moves(h)
  <2>1. CASE AnyArrival(h)
    BY <2>1, BeginMoves DEF AnyArrival, SaveArrives, SubmitArrives
  <2>2. CASE ReplyGone(h)
    BY <2>2, IdleMoves DEF ReplyGone
  <2>3. CASE SaveRead(h)
    <3> DEFINE P == {q \in Question : InPaper(q)}
               todo == Restrict(handler[h].pay, P)
    <3>1. CASE handler' = [handler EXCEPT ![h] = [Idle EXCEPT !.pc = "saveRow", !.todo = todo]]
      <4>1. \A q \in DOMAIN todo : InPaper(q)
        BY DEF Restrict
      <4> HIDE DEF todo
      <4> QED
        BY <1>0, <3>1, <4>1 DEF Moves, Idle
    <3>2. CASE Reply(h, "refused") \/ Reply(h, "done")
      BY <3>2, ReplyMoves
    <3> QED
      BY <2>3, <3>1, <3>2 DEF SaveRead
  <2>4. CASE SubmitRead(h)
    <3>1. CASE handler' = [handler EXCEPT ![h].pc = "merge", ![h].stamp = None, ![h].at = now,
                                          ![h].honour = HonourClientAnswers(h)]
      BY <1>0, <3>1 DEF Moves, HandlerType, Inv, PaperInv
    <3>2. CASE Reply(h, "done")
      BY <3>2, ReplyMoves
    <3> QED
      BY <2>4, <3>1, <3>2 DEF SubmitRead
  <2>5. CASE SweepFinds(h)
    BY <1>0, <2>5, NothingIsEmpty DEF SweepFinds, Moves, Idle
  <2>6. CASE AutoSubmitAttempt(h)
    <3>1. CASE handler' = [handler EXCEPT ![h].pc = "submit"]
      BY <1>0, <3>1 DEF Moves, HandlerType, Inv, PaperInv
    <3>2. CASE handler' = [handler EXCEPT ![h] = Idle]
      BY <3>2, IdleMoves
    <3> QED
      BY <2>6, <3>1, <3>2 DEF AutoSubmitAttempt
  <2>7. CASE Fails(h)
    BY <2>7, ReplyMoves DEF Fails
  <2> QED
    BY <2>1, <2>2, <2>3, <2>4, <2>5, <2>6, <2>7
<1> QED
  BY <1>1, <1>2, MovesKeepInv

\* Steps that touch no request, no row and no result.
LEMMA OutsideKeepsInv ==
  ASSUME Inv, UNCHANGED <<attemptVars, rows, handler, disturbed>>, stray' \subseteq stray
  PROVE  Inv'
<1>1. PaperInv'
  BY DEF Inv, PaperInv, HasRow, InPaper
<1>2. ReviewInv'
  BY DEF Inv, ReviewInv, ScoredTodo, ClaimsSeeAll, WinnersWill, RowsMatch, ReviewRows, Will, At,
         Winners, Done, HasRow, attemptVars
<1> QED
  BY <1>1, <1>2 DEF Inv

LEMMA InvStep ==
  ASSUME TypeOK, WinInv, Inv, [AnyNext]_vars
  PROVE  Inv'
<1>1. ASSUME NEW h \in Request,
             \/ AnyArrival(h) \/ ReplyGone(h) \/ SaveRead(h) \/ SubmitRead(h)
             \/ SweepFinds(h) \/ AutoSubmitAttempt(h) \/ Fails(h)
      PROVE  Inv'
  BY <1>1, EarlyStepKeepsInv
<1>2. ASSUME NEW h \in Request, NEW q \in Question, SaveRow(h, q) PROVE Inv'
  BY <1>2, SaveRowKeepsInv
<1>3. ASSUME NEW h \in Request, MergeAndScore(h) PROVE Inv'
  BY <1>3, MergeKeepsInv
<1>4. ASSUME NEW h \in Request, Claim(h) PROVE Inv'
  BY <1>4, ClaimKeepsInv
<1>5. ASSUME NEW h \in Request, NEW q \in Question, WriteRow(h, q) PROVE Inv'
  BY <1>5, WriteKeepsInv
<1>6. ASSUME NEW h \in Request, NEW q \in Question, WriteFails(h, q) PROVE Inv'
  BY <1>6, WriteFailsKeepsInv
<1>7. ASSUME NEW h \in Request, Undo(h) \/ UndoFails(h) PROVE Inv'
  BY <1>7, UndoKeepsInv
<1>8. ASSUME NEW h \in Request, Settle(h) PROVE Inv'
  BY <1>8, SettleKeepsInv
<1>9. ASSUME NEW w \in stray, StrayLands(w) PROVE Inv'
  BY <1>9, StrayLandsKeepsInv
<1>10. ASSUME NEW w \in stray, StrayLost(w) PROVE Inv'
  BY <1>10, OutsideKeepsInv DEF StrayLost
<1>11. CASE Crash
  BY <1>11, CrashKeepsInv
<1>12. CASE Tick
  BY <1>12, OutsideKeepsInv DEF Tick, faultVars
<1>13. CASE UNCHANGED vars
  BY <1>13, OutsideKeepsInv DEF vars, attemptVars
<1> QED
  BY <1>1, <1>2, <1>3, <1>4, <1>5, <1>6, <1>7, <1>8, <1>9, <1>10, <1>11, <1>12, <1>13
     DEF AnyNext, Server, Work, Trouble, StrayWrite

LEMMA InvInit == Init => Inv
<1> SUFFICES ASSUME Init PROVE Inv
  OBVIOUS
<1>1. HasRow = {} /\ ~Done
  BY DEF Init, HasRow, Done, DoneStatus
<1>2. \A h \in Request : handler[h].pc = "idle" /\ handler[h].todo = Nothing
  BY DEF Init, Idle
<1>3. stray = {}
  BY DEF Init
<1> QED
  BY <1>1, <1>2, <1>3, NothingIsEmpty
     DEF Inv, PaperInv, ReviewInv, ScoredTodo, ClaimsSeeAll, WinnersWill, RowsMatch, At

LEMMA AnyReviewAddsUp == AnySpec => []UndisturbedReviewMatches
<1>1. TypeOK /\ WinInv /\ Inv /\ [AnyNext]_vars => Inv'
  BY InvStep
<1>2. Inv => UndisturbedReviewMatches
  <2>1. Quiet => Winners = {}
    BY DEF Quiet, Winners, Finishing
  <2> QED
    BY <2>1 DEF Inv, ReviewInv, RowsMatch, UndisturbedReviewMatches, ReviewMatchesScore
<1> QED
  BY <1>1, <1>2, InvInit, TypeAlways, OneWinner, PTL DEF AnySpec

\* Racing submits with different sheets, retries, sweeps and failed tries never
\* mix their rows: unless somebody wrote behind the winner's back, the review
\* of a finished attempt adds up to its score.
THEOREM ReviewAddsUp == Spec => []UndisturbedReviewMatches
  BY SpecIsAny, AnyReviewAddsUp, PTL
=============================================================================
