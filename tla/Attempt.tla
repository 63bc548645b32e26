------------------------------ MODULE Attempt ------------------------------
(***************************************************************************)
(* One timed attempt on the server: submit, autosave and the sweeper of    *)
(* abandoned attempts, backend/src/tests/tests.service.ts (finishAttempt,  *)
(* autoSubmitAttempt, saveAnswers) and attempt-sweeper.service.ts.         *)
(*                                                                         *)
(* Every request is a handler of its own; each database call is one step,  *)
(* so requests interleave wherever the code awaits.  A row write may fail  *)
(* and a process may die between two steps, at most MaxFaults times.       *)
(*                                                                         *)
(* The attempt has no strict section plan (section-plan.ts), one marking   *)
(* rule for all its questions (so the right / wrong / skipped totals fix   *)
(* the score), and tabSwitches, which nothing reads back, is left out.     *)
(***************************************************************************)
EXTENDS Naturals, FiniteSets

CONSTANTS
  Request,       \* requests in progress at one time: submits, autosaves, sweeps
  Question,      \* questions a client may answer
  Option,        \* options of a question
  Key,           \* the right option of each question
  Paper,         \* questionSnapshot: the questions of the paper, or None
  Sheet,         \* answer sheets a submit may carry
  Diff,          \* answers an autosave may carry
  Stamp,         \* clientSubmittedAt values a submit may carry, None if unstamped
  Deadline,      \* expiresAt
  Slack,         \* CLOCK_SLACK_MS
  ReplayWindow,  \* OFFLINE_REPLAY_WINDOW_MS
  SweepMargin,   \* what SWEEP_GRACE_MS adds to the replay window
  EnvGrace,      \* ATTEMPT_SWEEP_GRACE_MIN
  MaxNow,        \* bound: the clock stops here
  MaxFaults,     \* bound: failed database calls and crashes
  None,          \* no row, no value
  Null           \* a row without an option

Answer == Option \cup {Null}
Given == UNION {[D -> Answer] : D \in SUBSET Question}
Nothing == [q \in {} |-> Null]

ASSUME AttemptAssumption ==
  /\ Key \in [Question -> Option]
  /\ Paper = None \/ Paper \subseteq Question
  /\ Sheet \subseteq Given /\ Diff \subseteq Given
  /\ Stamp \subseteq Nat \cup {None}
  /\ Deadline \in Nat /\ Slack \in Nat /\ ReplayWindow \in Nat
  /\ SweepMargin \in Nat /\ EnvGrace \in Nat
  /\ MaxNow \in Nat /\ MaxFaults \in Nat
  /\ None \notin Answer \cup Nat
  /\ Null \notin Option

VARIABLES
  now,          \* the server clock
  status,       \* test_attempts.status
  totals,       \* totalCorrect, totalWrong, totalSkipped
  submittedAt,  \* test_attempts.submittedAt
  rows,         \* attempt_answers.selectedOption, None where there is no row
  xp,           \* how often awardTestXp was called for the attempt
  settled,      \* how often chapters and weak topics were told of the attempt
  handler,      \* what each request has read and where it stands
  stray,        \* row writes of a failed submit that are still under way
  faults,       \* failed calls and crashes so far
  disturbed     \* history: someone else wrote a row after the submit read them,
                \* or the winner died before its rows were written

attemptVars == <<status, totals, submittedAt>>
effectVars == <<xp, settled>>
faultVars == <<stray, faults, disturbed>>
vars == <<now, status, totals, submittedAt, rows, xp, settled, handler, stray, faults, disturbed>>

DoneStatus == {"SUBMITTED", "AUTO_SUBMITTED"}
Done == status \in DoneStatus

Finishing == {"submit", "merge", "claim", "write", "undo"}
Saving == {"save", "saveRow"}
Replying == {"done", "failed", "refused"}
Step == Finishing \cup Saving \cup Replying \cup {"idle", "sweep"}

Totals(given) == LET right == {q \in DOMAIN given : given[q] = Key[q]}
                     blank == {q \in DOMAIN given : given[q] = Null}
                 IN [right   |-> Cardinality(right),
                     wrong   |-> Cardinality(DOMAIN given \ (right \cup blank)),
                     skipped |-> Cardinality(blank)]

Result == {Totals(given) : given \in Given}

Idle == [pc |-> "idle", mode |-> "manual", pay |-> Nothing, stamp |-> None, at |-> 0,
         honour |-> FALSE, totals |-> None, todo |-> Nothing]

HandlerType == [pc : Step, mode : {"manual", "auto"}, pay : Given, stamp : Nat \cup {None},
                at : Nat, honour : BOOLEAN, totals : Result \cup {None}, todo : Given]

\* A handler that is to store a result has one.
ScoredHandlers == \A h \in Request : handler[h].pc \in {"claim", "write", "undo"}
                                       => handler[h].totals \in Result

TypeOK == /\ now \in Nat
          /\ status \in DoneStatus \cup {"IN_PROGRESS"}
          /\ totals \in Result \cup {None}
          /\ submittedAt \in Nat \cup {None}
          /\ rows \in [Question -> Answer \cup {None}]
          /\ xp \in Nat
          /\ settled \in Nat
          /\ handler \in [Request -> HandlerType]
          /\ ScoredHandlers
          /\ stray \subseteq Question \X Answer
          /\ faults \in 0..MaxFaults
          /\ disturbed \in BOOLEAN

\* The row startAttempt creates: the attempt runs and has no answers yet.
Init == /\ now = 0
        /\ status = "IN_PROGRESS"
        /\ totals = None
        /\ submittedAt = None
        /\ rows = [q \in Question |-> None]
        /\ xp = 0
        /\ settled = 0
        /\ handler = [h \in Request |-> Idle]
        /\ stray = {}
        /\ faults = 0
        /\ disturbed = FALSE

-----------------------------------------------------------------------------
(* Requests *)

At(h, step) == handler[h].pc = step

Begin(h, step, pay, t) == /\ At(h, "idle")
                          /\ handler' = [handler EXCEPT ![h] =
                               [Idle EXCEPT !.pc = step, !.pay = pay, !.stamp = t]]

\* A request of a client ends with a reply; the sweeper wants none.
Reply(h, r) == handler' = [handler EXCEPT ![h] =
                 [Idle EXCEPT !.pc = IF handler[h].mode = "auto" THEN "idle" ELSE r]]

\* The reply reaches the client or is lost.
ReplyGone(h) == /\ handler[h].pc \in Replying
                /\ handler' = [handler EXCEPT ![h] = Idle]
                /\ UNCHANGED <<now, attemptVars, rows, effectVars, faultVars>>

Fault == faults < MaxFaults /\ faults' = faults + 1

\* A database call other than a row write of a submit fails: 500, nothing is
\* undone.  An autosave keeps the rows it has written.
Fails(h) == /\ handler[h].pc \in {"submit", "merge", "claim", "sweep"} \cup Saving
            /\ Fault
            /\ Reply(h, "failed")
            /\ UNCHANGED <<now, attemptVars, rows, effectVars, stray, disturbed>>

InPaper(q) == Paper = None \/ q \in Paper

Restrict(given, S) == [q \in DOMAIN given \cap S |-> given[q]]

HasRow == {q \in Question : rows[q] # None}

\* A submit that has read the rows, or has stored its result, is overtaken by
\* a row written by somebody else.
Overtaken == Done \/ \E g \in Request : At(g, "claim")

-----------------------------------------------------------------------------
(* Autosave: saveAnswers *)

SaveArrives(h, d) == /\ Begin(h, "save", d, None)
                     /\ UNCHANGED <<now, attemptVars, rows, effectVars, faultVars>>

\* The status is looked at once, here, and the deadline not at all.
SaveRead(h) ==
  /\ At(h, "save")
  /\ LET todo == Restrict(handler[h].pay, {q \in Question : InPaper(q)})
     IN \/ Done /\ Reply(h, "refused")
        \/ ~Done /\ todo = Nothing /\ Reply(h, "done")
        \/ /\ ~Done
           /\ todo # Nothing
           /\ handler' = [handler EXCEPT ![h] = [Idle EXCEPT !.pc = "saveRow", !.todo = todo]]
  /\ UNCHANGED <<now, attemptVars, rows, effectVars, faultVars>>

\* The rows are written one by one, in the order of the request (any order).
SaveRow(h, q) ==
  /\ At(h, "saveRow")
  /\ q \in DOMAIN handler[h].todo
  /\ rows' = [rows EXCEPT ![q] = handler[h].todo[q]]
  /\ disturbed' = (disturbed \/ Overtaken)
  /\ LET left == Restrict(handler[h].todo, Question \ {q})
     IN IF left = Nothing
        THEN Reply(h, "done")
        ELSE handler' = [handler EXCEPT ![h].todo = left]
  /\ UNCHANGED <<now, attemptVars, effectVars, stray, faults>>

-----------------------------------------------------------------------------
(* Submit: finishAttempt *)

SubmitArrives(h, s, t) == /\ Begin(h, "submit", s, t)
                          /\ UNCHANGED <<now, attemptVars, rows, effectVars, faultVars>>

Expired(h) == handler[h].mode = "auto" \/ now > Deadline

\* Mutant: a replay too has to arrive before the deadline.
Mut_FinishedInsideWindow(t) == /\ t # None
                               /\ t <= Deadline + Slack
                               /\ t <= now + Slack
                               /\ now <= Deadline + Slack

FinishedInsideWindow(t) == /\ t # None
                           /\ t <= Deadline + Slack
                           /\ t <= now + Slack
                           /\ now <= Deadline + ReplayWindow

HonourClientAnswers(h) == /\ handler[h].mode = "manual"
                          /\ ~Expired(h) \/ FinishedInsideWindow(handler[h].stamp)

\* Mutant: the claim is tried before the answers are scored.
Mut_SubmitRead(h) ==
  /\ At(h, "submit")
  /\ \/ Done /\ Reply(h, "done")
     \/ ~Done /\ handler' = [handler EXCEPT ![h].pc = "claim", ![h].stamp = None, ![h].at = now,
                                            ![h].honour = HonourClientAnswers(h)]
  /\ UNCHANGED <<now, attemptVars, rows, effectVars, faultVars>>

\* Mutant: a second submit of a finished attempt is an error again.
Mut_SubmitReadError(h) ==
  /\ At(h, "submit")
  /\ \/ Done /\ Reply(h, "failed")
     \/ ~Done /\ handler' = [handler EXCEPT ![h].pc = "merge", ![h].stamp = None, ![h].at = now,
                                            ![h].honour = HonourClientAnswers(h)]
  /\ UNCHANGED <<now, attemptVars, rows, effectVars, faultVars>>

\* A finished attempt is answered with the stored result (alreadySubmitted).
SubmitRead(h) ==
  /\ At(h, "submit")
  /\ \/ Done /\ Reply(h, "done")
     \/ ~Done /\ handler' = [handler EXCEPT ![h].pc = "merge", ![h].stamp = None, ![h].at = now,
                                            ![h].honour = HonourClientAnswers(h)]
  /\ UNCHANGED <<now, attemptVars, rows, effectVars, faultVars>>

\* What the client sent, where it is honoured, over what was autosaved.
Merged(h) == LET sent == IF handler[h].honour THEN DOMAIN handler[h].pay ELSE {}
             IN [q \in {q \in HasRow \cup sent : InPaper(q)} |->
                   IF q \in sent THEN handler[h].pay[q] ELSE rows[q]]

\* The rows a submit writes: a question of the paper nobody touched is skipped.
RowsToWrite(answers) ==
  [q \in DOMAIN answers \cup (IF Paper = None THEN {} ELSE Paper) |->
     IF q \in DOMAIN answers THEN answers[q] ELSE Null]

\* Mutant: an empty sheet is skipped for a student's submit as well.
Mut_MergeAndScore(h) ==
  /\ At(h, "merge")
  /\ LET answers == Merged(h)
         write == RowsToWrite(answers)
     IN IF \A q \in DOMAIN answers : answers[q] = Null
        THEN Reply(h, "done")
        ELSE handler' = [handler EXCEPT ![h] =
               [Idle EXCEPT !.pc = "claim", !.mode = handler[h].mode, !.at = handler[h].at,
                            !.totals = Totals(write), !.todo = write]]
  /\ UNCHANGED <<now, attemptVars, rows, effectVars, faultVars>>

MergeAndScore(h) ==
  /\ At(h, "merge")
  /\ LET answers == Merged(h)
         write == RowsToWrite(answers)
     IN \/ /\ handler[h].mode = "auto"
           /\ \A q \in DOMAIN answers : answers[q] = Null
           /\ handler' = [handler EXCEPT ![h] = Idle]
        \/ /\ handler[h].mode = "manual" \/ \E q \in DOMAIN answers : answers[q] # Null
           /\ handler' = [handler EXCEPT ![h] =
                [Idle EXCEPT !.pc = "claim", !.mode = handler[h].mode, !.at = handler[h].at,
                             !.totals = Totals(write), !.todo = write]]
  /\ UNCHANGED <<now, attemptVars, rows, effectVars, faultVars>>

FinalStatus(h) == IF handler[h].mode = "auto" THEN "AUTO_SUBMITTED" ELSE "SUBMITTED"

\* Mutant: the update is not conditional on IN_PROGRESS.
Mut_Claim(h) ==
  /\ At(h, "claim")
  /\ status' = FinalStatus(h)
  /\ totals' = handler[h].totals
  /\ submittedAt' = handler[h].at
  /\ handler' = [handler EXCEPT ![h].pc = "write"]
  /\ UNCHANGED <<now, rows, effectVars, faultVars>>

\* Mutant: a submit that lost the claim writes its rows all the same.
Mut_ClaimLoserWrites(h) ==
  /\ At(h, "claim")
  /\ handler' = [handler EXCEPT ![h].pc = "write"]
  /\ IF status = "IN_PROGRESS"
     THEN status' = FinalStatus(h) /\ totals' = handler[h].totals /\ submittedAt' = handler[h].at
     ELSE UNCHANGED attemptVars
  /\ UNCHANGED <<now, rows, effectVars, faultVars>>

\* The conditional update: one submit wins, the others answer with its result.
Claim(h) ==
  /\ At(h, "claim")
  /\ \/ /\ status = "IN_PROGRESS"
        /\ status' = FinalStatus(h)
        /\ totals' = handler[h].totals
        /\ submittedAt' = IF handler[h].mode = "auto" /\ Deadline < handler[h].at
                          THEN Deadline ELSE handler[h].at
        /\ handler' = [handler EXCEPT ![h].pc = "write"]
     \/ /\ status # "IN_PROGRESS"
        /\ Reply(h, "done")
        /\ UNCHANGED attemptVars
  /\ UNCHANGED <<now, rows, effectVars, faultVars>>

\* The rows are upserted in parallel; they go on while a failure is handled.
WriteRow(h, q) ==
  /\ handler[h].pc \in {"write", "undo"}
  /\ q \in DOMAIN handler[h].todo
  /\ rows' = [rows EXCEPT ![q] = handler[h].todo[q]]
  /\ handler' = [handler EXCEPT ![h].todo = Restrict(@, Question \ {q})]
  /\ UNCHANGED <<now, attemptVars, effectVars, faultVars>>

WriteFails(h, q) ==
  /\ handler[h].pc \in {"write", "undo"}
  /\ q \in DOMAIN handler[h].todo
  /\ Fault
  /\ handler' = [handler EXCEPT ![h].pc = "undo", ![h].todo = Restrict(@, Question \ {q})]
  /\ UNCHANGED <<now, attemptVars, rows, effectVars, stray, disturbed>>

\* After a failed write the attempt is put back, and the request fails.
Undo(h) ==
  /\ At(h, "undo")
  /\ IF status = FinalStatus(h)
     THEN status' = "IN_PROGRESS" /\ submittedAt' = None
     ELSE UNCHANGED <<status, submittedAt>>
  /\ stray' = stray \cup {<<q, handler[h].todo[q]>> : q \in DOMAIN handler[h].todo}
  /\ disturbed' = (disturbed \/ \E g \in Request \ {h} : At(g, "claim"))
  /\ Reply(h, "failed")
  /\ UNCHANGED <<now, totals, rows, effectVars, faults>>

\* Putting it back may fail as well, and that error is swallowed.
UndoFails(h) ==
  /\ At(h, "undo")
  /\ Fault
  /\ stray' = stray \cup {<<q, handler[h].todo[q]>> : q \in DOMAIN handler[h].todo}
  /\ disturbed' = TRUE
  /\ Reply(h, "failed")
  /\ UNCHANGED <<now, attemptVars, rows, effectVars>>

StrayLands(w) == /\ w \in stray
                 /\ rows' = [rows EXCEPT ![w[1]] = w[2]]
                 /\ disturbed' = (disturbed \/ Overtaken)
                 /\ stray' = stray \ {w}
                 /\ UNCHANGED <<now, attemptVars, effectVars, handler, faults>>

StrayLost(w) == /\ w \in stray
                /\ stray' = stray \ {w}
                /\ UNCHANGED <<now, attemptVars, rows, effectVars, handler, faults, disturbed>>

\* Mutant: the sweeper awards XP too.
Mut_Settle(h) ==
  /\ At(h, "write")
  /\ handler[h].todo = Nothing
  /\ settled' = settled + 1
  /\ xp' = xp + 1
  /\ Reply(h, "done")
  /\ UNCHANGED <<now, attemptVars, rows, faultVars>>

\* All rows are written: chapters and weak topics are told, and a student who
\* submitted earns XP.
Settle(h) ==
  /\ At(h, "write")
  /\ handler[h].todo = Nothing
  /\ settled' = settled + 1
  /\ xp' = IF handler[h].mode = "manual" THEN xp + 1 ELSE xp
  /\ Reply(h, "done")
  /\ UNCHANGED <<now, attemptVars, rows, faultVars>>

-----------------------------------------------------------------------------
(* The sweeper of abandoned attempts *)

\* sweepGraceMs: a shorter value in the environment is not taken.
SWEEP_GRACE == ReplayWindow + SweepMargin
\* Mutant: any value of the environment is taken.
Mut_Grace == EnvGrace

Grace == IF EnvGrace >= SWEEP_GRACE THEN EnvGrace ELSE SWEEP_GRACE

SweepFinds(h) ==
  /\ At(h, "idle")
  /\ status = "IN_PROGRESS"
  /\ Deadline + Grace < now
  /\ \E q \in Question : rows[q] \in Option
  /\ handler' = [handler EXCEPT ![h] = [Idle EXCEPT !.pc = "sweep", !.mode = "auto"]]
  /\ UNCHANGED <<now, attemptVars, rows, effectVars, faultVars>>

\* Mutant: the test of the deadline is the wrong way round.
Mut_AutoSubmitAttempt(h) ==
  /\ At(h, "sweep")
  /\ IF status # "IN_PROGRESS" \/ now > Deadline + Grace
     THEN handler' = [handler EXCEPT ![h] = Idle]
     ELSE handler' = [handler EXCEPT ![h].pc = "submit"]
  /\ UNCHANGED <<now, attemptVars, rows, effectVars, faultVars>>

AutoSubmitAttempt(h) ==
  /\ At(h, "sweep")
  /\ IF status # "IN_PROGRESS" \/ now < Deadline + Grace
     THEN handler' = [handler EXCEPT ![h] = Idle]
     ELSE handler' = [handler EXCEPT ![h].pc = "submit"]
  /\ UNCHANGED <<now, attemptVars, rows, effectVars, faultVars>>

-----------------------------------------------------------------------------
(* The process and the clock *)

\* The server dies with everything it is doing.
Crash == /\ Fault
         /\ \E h \in Request : handler[h].pc \notin Replying \cup {"idle"}
         /\ handler' = [h \in Request |-> IF handler[h].pc \in Replying THEN handler[h] ELSE Idle]
         /\ stray' = {}
         /\ disturbed' = (disturbed \/ \E h \in Request : handler[h].pc \in {"write", "undo"})
         /\ UNCHANGED <<now, attemptVars, rows, effectVars>>

Tick == /\ now < MaxNow
        /\ now' = now + 1
        /\ UNCHANGED <<attemptVars, rows, effectVars, handler, faultVars>>

Arrival(h) == \/ \E s \in Sheet, t \in Stamp : SubmitArrives(h, s, t)
              \/ \E d \in Diff : SaveArrives(h, d)

Work(h) == \/ SaveRead(h)
           \/ SubmitRead(h) \/ MergeAndScore(h) \/ Claim(h) \/ Undo(h) \/ Settle(h)
           \/ AutoSubmitAttempt(h)
           \/ \E q \in Question : SaveRow(h, q) \/ WriteRow(h, q)

Trouble(h) == \/ Fails(h) \/ UndoFails(h)
              \/ \E q \in Question : WriteFails(h, q)

StrayWrite == \E w \in stray : StrayLands(w) \/ StrayLost(w)

Server == \/ \E h \in Request : Work(h) \/ Trouble(h) \/ SweepFinds(h)
          \/ StrayWrite \/ Crash \/ Tick

Next == \/ Server
        \/ \E h \in Request : Arrival(h) \/ ReplyGone(h)

Spec == Init /\ [][Next]_vars

\* Requests run to their end, the clock runs, and the sweeper's timer comes
\* round whenever there is a free moment.  Clients promise nothing.
ServerFairness == /\ \A h \in Request : WF_vars(Work(h)) /\ WF_vars(ReplyGone(h))
                  /\ WF_vars(Tick) /\ WF_vars(StrayWrite)
                  /\ SF_vars(\E h \in Request : SweepFinds(h))

FairSpec == Spec /\ ServerFairness

-----------------------------------------------------------------------------
(* Properties *)

\* "double XP for one test": whatever submits race, fail or are retried, XP and
\* the weak-topic update follow from an attempt at most once, and an attempt
\* that the sweeper finished earns none.
EffectsOnce == /\ settled \in {0, 1}
               /\ xp \in {0, settled}
               /\ status # "SUBMITTED" => xp = 0

\* "the first accepted submit is final": nothing changes a finished attempt
\* once no submit is busy with it.
FinishedStays ==
  [][Done /\ (\A h \in Request : handler[h].pc \notin {"write", "undo"})
       => UNCHANGED <<attemptVars, effectVars>>]_vars

\* "the sweeper can never take that result away from them": it finishes an
\* attempt only when a queued submit can no longer be honoured.
SweptAfterWindow == status = "AUTO_SUBMITTED" => now > Deadline + ReplayWindow

\* The review of a finished attempt adds up to its score.
Quiet == stray = {} /\ \A h \in Request : handler[h].pc \notin Finishing \cup Saving
ReviewRows == [q \in HasRow |-> rows[q]]
ReviewMatchesScore == Done /\ Quiet => totals = Totals(ReviewRows)

\* The same, when nobody wrote a row behind the winner's back: racing submits
\* with different answers, retries and a failed try never mix their rows.
UndisturbedReviewMatches == ~disturbed => ReviewMatchesScore

\* An attempt with a saved answer is scored in the end, by the sweeper if
\* nobody else does it, unless the student takes the answer back.
AnySaved == \E q \in Question : rows[q] \in Option
ScoredInTheEnd == AnySaved ~> (Done \/ ~AnySaved)

\* The code implements AttemptOutcome.
Winners == {h \in Request : handler[h].pc \in {"write", "undo"}}
Stage == IF ~Done THEN "running" ELSE IF Winners # {} THEN "won" ELSE "final"

Outcome == INSTANCE AttemptOutcome WITH stage <- Stage,
                                        how <- IF Done THEN status ELSE None,
                                        result <- IF Done THEN totals ELSE None
OutcomeSpec == Outcome!Spec
=============================================================================
