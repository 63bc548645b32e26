-------------------------- MODULE DuplicateReview --------------------------
(***************************************************************************)
(* The copies of one question (one searchHash) in the question bank:       *)
(* a chunk of an upload (backend/src/bank/bank-upload.service.ts, run by   *)
(* bank-upload-job.service.ts), which saves a row or queues it for review  *)
(* when the bank or the sheet already has the question, and the decisions  *)
(* on that queue, their undo and the scan for copies                       *)
(* (bank/duplicate-review.service.ts), by admins or the auto-publish job.  *)
(*                                                                         *)
(* Nothing is locked: the duplicate check, the queueing, the saving and    *)
(* the linking of a chunk are statements of their own, and so are the      *)
(* claim of a decision, the copy it saves and the copy it hides.           *)
(***************************************************************************)
EXTENDS Naturals, Sequences, FiniteSets, Functions

CONSTANTS
  Upload, Bank,   \* the uploads, and the name of the copies that were there before
  Sheet,          \* the rows of each: what compareQuestions looks at, row by row
  Worker,         \* requests and auto-publish decisions that run at the same time
  MaxEvents,      \* bound: decisions, undos and scans, and failed statements, lost
                  \* answers and crashes, counted together
  None

ASSUME DuplicateAssumption ==
  /\ Bank \notin Upload /\ None \notin Upload \cup {Bank}
  /\ DOMAIN Sheet = Upload \cup {Bank}
  /\ \A u \in Upload : Sheet[u] # <<>>
  /\ \A s \in Upload \cup {Bank} : Len(Sheet[s]) \in Nat /\ DOMAIN Sheet[s] = 1..Len(Sheet[s])
  /\ MaxEvents \in Nat

VARIABLES
  question,   \* questions by age: the row each was saved from, and isActive
  review,     \* question_duplicate_reviews by age
  job,        \* where the chunk of each upload stands
  outcome,    \* what the upload reports of each row
  worker,     \* what each request has read and where it stands
  calls, faults,
  cut,        \* rows whose decision was cut off after the claim and before the save,
              \* or that an undo took the copy of another row for
  crossed,    \* two of them got in each other's way: see Busy, Again and the link loop
  stale       \* a decision or an undo took a copy away although no other was live

ghostVars == <<cut, crossed, stale>>
vars == <<question, review, job, outcome, worker, calls, faults, ghostVars>>

Row == UNION {{s} \X DOMAIN Sheet[s] : s \in Upload \cup {Bank}}
NoRow == <<None, 0>>

Decision == {"KEPT_EXISTING", "KEPT_NEW", "KEPT_BOTH"}
Outcome == {"none", "saved", "queued", "already", "failed"}
JobStep == {"idle", "prior", "many", "each", "inFile", "single",
            "find", "link", "make", "drop", "done", "dead"}
WorkerStep == {"idle", "claim", "make", "hide", "remember", "publish", "putBack",
               "unclaim", "unhide", "restore", "forget", "prior", "queue"}

Id(s) == 0..Len(s)

Question == [row : Row, live : BOOLEAN]
Review == [status : Decision \cup {"PENDING", "gone"}, row : Row \cup {NoRow}, old : Nat, new : Nat, made : Nat]
Job == [pc : JobStep, old : Nat, links : Seq(Nat)]
Request == [pc : WorkerStep, id : Nat, act : Decision, was : Decision \cup {"PENDING"},
            old : Nat, made : Nat, found : SUBSET Nat]

RowsOK ==
  /\ question \in Seq(Question) /\ review \in Seq(Review)
  /\ \A i \in DOMAIN review : {review[i].old, review[i].new, review[i].made} \subseteq Id(question)

JobsOK ==
  /\ job \in [Upload -> Job] /\ \A u \in Upload : job[u].old \in Id(question)
  /\ \A u \in Upload : \A k \in DOMAIN job[u].links : job[u].links[k] \in DOMAIN review
  /\ \A u \in Upload : outcome[u] \in [DOMAIN Sheet[u] -> Outcome]

WorkersOK ==
  /\ worker \in [Worker -> Request]
  /\ \A w \in Worker : /\ worker[w].id \in Id(review) /\ {worker[w].old, worker[w].made} \subseteq Id(question)
                       /\ worker[w].found \subseteq DOMAIN question

TypeOK ==
  /\ RowsOK /\ JobsOK /\ WorkersOK
  /\ calls \in 0..MaxEvents /\ faults \in 0..MaxEvents
  /\ cut \subseteq Row /\ crossed \in BOOLEAN /\ stale \in BOOLEAN

NewJob == [pc |-> "idle", old |-> 0, links |-> <<>>]
Idle == [pc |-> "idle", id |-> 0, act |-> "KEPT_BOTH", was |-> "PENDING", old |-> 0, made |-> 0, found |-> {}]

Init ==
  /\ question = [i \in DOMAIN Sheet[Bank] |-> [row |-> <<Bank, i>>, live |-> TRUE]]
  /\ review = <<>>
  /\ job = [u \in Upload |-> NewJob]
  /\ outcome = [u \in Upload |-> [i \in DOMAIN Sheet[u] |-> "none"]]
  /\ worker = [w \in Worker |-> Idle]
  /\ calls = 0 /\ faults = 0 /\ cut = {} /\ crossed = FALSE /\ stale = FALSE

Look(row) == Sheet[row[1]][row[2]]
Live == {q \in DOMAIN question : question[q].live}
Oldest(S) == {q \in S : \A p \in S : q <= p}
InOrder(S) == {rows \in [1..Cardinality(S) -> S] : \A k, n \in DOMAIN rows : k < n => rows[k] < rows[n]}

Saved(row) == Append(question, [row |-> row, live |-> TRUE])
Show(q, live) == question' = [question EXCEPT ![q].live = live]

Pair(row, old, new) == [status |-> "PENDING", row |-> row, old |-> old, new |-> new, made |-> 0]

Fault == calls + faults < MaxEvents /\ faults' = faults + 1

-----------------------------------------------------------------------------
(* A chunk of an upload: processBulkQuestions.                             *)

JobAt(u, pc) == job[u].pc = pc
JobGoes(u, pc) == job' = [job EXCEPT ![u].pc = pc]
Report(u, rows, what) == outcome' = [outcome EXCEPT ![u] = [i \in DOMAIN @ |-> IF i \in rows THEN what ELSE @[i]]]
Waiting(u) == {i \in DOMAIN Sheet[u] : outcome[u][i] = "none"}

\* The duplicate check of the whole chunk: the first row is saved if no copy
\* is live, and every later row is then a duplicate of that row.
Index(u) ==
  /\ JobAt(u, "idle")
  /\ \/ /\ \E q \in Live : job' = [job EXCEPT ![u] = [@ EXCEPT !.pc = "prior", !.old = q]]
        /\ UNCHANGED <<outcome, faults>>
     \/ /\ Live = {} /\ JobGoes(u, "inFile")
        /\ UNCHANGED <<outcome, faults>>
     \/ /\ Fault /\ JobGoes(u, "done") /\ Report(u, DOMAIN Sheet[u], "failed")
  /\ UNCHANGED <<question, review, worker, calls, ghostVars>>

\* A row is asked once: it is waiting, answered "keep the old one", or earlier
\* in the sheet.
Asked(u, i) ==
  \/ \E r \in Range(review) : /\ r.row # NoRow /\ r.old = job[u].old /\ Look(r.row) = Sheet[u][i]
                              /\ r.status \in {"PENDING", "KEPT_EXISTING"}
  \/ \E k \in 1..i - 1 : Sheet[u][k] = Sheet[u][i]

ReadPrior(u) ==
  /\ JobAt(u, "prior")
  /\ \/ /\ Report(u, {i \in Waiting(u) : Asked(u, i)}, "already") /\ JobGoes(u, "many")
        /\ UNCHANGED faults
     \/ /\ Fault /\ Report(u, Waiting(u), "failed") /\ JobGoes(u, "done")
  /\ UNCHANGED <<question, review, worker, calls, ghostVars>>

Queued(u, rows) == review \o [k \in 1..Len(rows) |-> Pair(<<u, rows[k]>>, job[u].old, 0)]

\* createMany; when it fails, or its answer is lost, the rows are queued one by one.
QueueMany(u) ==
  /\ JobAt(u, "many")
  /\ \E rows \in InOrder(Waiting(u)) :
       \/ review' = Queued(u, rows) /\ Report(u, Waiting(u), "queued") /\ JobGoes(u, "done") /\ UNCHANGED faults
       \/ /\ Fault /\ rows # <<>> /\ review' \in {review, Queued(u, rows)}
          /\ JobGoes(u, "each") /\ UNCHANGED outcome
  /\ UNCHANGED <<question, worker, calls, ghostVars>>

QueueEach(u) ==
  /\ JobAt(u, "each")
  /\ \E i \in Oldest(Waiting(u)) :
       /\ \/ review' = Queued(u, <<i>>) /\ Report(u, {i}, "queued") /\ UNCHANGED faults
          \/ Fault /\ review' \in {review, Queued(u, <<i>>)} /\ Report(u, {i}, "failed")
       /\ JobGoes(u, IF Waiting(u) = {i} THEN "done" ELSE "each")
  /\ UNCHANGED <<question, worker, calls, ghostVars>>

\* A duplicate of the first row of the sheet, which has no id yet.
QueueInFile(u) ==
  /\ JobAt(u, "inFile")
  /\ \E i \in Oldest(Waiting(u) \ {1}) :
       \/ /\ review' = Queued(u, <<i>>) /\ Report(u, {i}, "queued") /\ UNCHANGED faults
          /\ job' = [job EXCEPT ![u].links = Append(@, Len(review'))]
       \/ /\ Fault /\ review' \in {review, Queued(u, <<i>>)} /\ Report(u, {i}, "failed")
          /\ UNCHANGED job
  /\ UNCHANGED <<question, worker, calls, ghostVars>>

\* commitQuestionsBatch: createMany, then the row on its own if that failed.
Commit(u) ==
  /\ JobAt(u, "inFile") /\ Waiting(u) = {1}
  /\ \/ question' = Saved(<<u, 1>>) /\ Report(u, {1}, "saved") /\ JobGoes(u, "find") /\ UNCHANGED faults
     \/ Fault /\ question' \in {question, Saved(<<u, 1>>)} /\ JobGoes(u, "single") /\ UNCHANGED outcome
  /\ UNCHANGED <<review, worker, calls, ghostVars>>

CommitSingle(u) ==
  /\ JobAt(u, "single") /\ JobGoes(u, "find")
  /\ \/ question' = Saved(<<u, 1>>) /\ Report(u, {1}, "saved") /\ UNCHANGED faults
     \/ Fault /\ question' \in {question, Saved(<<u, 1>>)} /\ Report(u, {1}, "failed")
  /\ UNCHANGED <<review, worker, calls, ghostVars>>

\* linkPendingDuplicateReviews: once the first row is saved, it is what the
\* reviews of the later rows compare with; if there is no such question, the
\* row is saved and its review deleted.  What fails is skipped.
Linked(u) == Head(job[u].links)
NextLink(u) == job' = [job EXCEPT ![u] = [@ EXCEPT !.pc = "find", !.links = Tail(job[u].links)]]

LinkFind(u) ==
  LET mine == {q \in Live : question[q].row[1] = u}
  IN /\ JobAt(u, "find")
     /\ \/ job[u].links = <<>> /\ JobGoes(u, "done") /\ UNCHANGED faults
        \/ /\ job[u].links # <<>> /\ UNCHANGED faults
           /\ \E q \in Oldest(mine) : job' = [job EXCEPT ![u] = [@ EXCEPT !.pc = "link", !.old = q]]
        \/ job[u].links # <<>> /\ mine = {} /\ JobGoes(u, "make") /\ UNCHANGED faults
        \/ job[u].links # <<>> /\ Fault /\ NextLink(u)
  /\ UNCHANGED <<question, review, outcome, worker, calls, ghostVars>>

LinkSet(u) ==
  LET set == [review EXCEPT ![Linked(u)].old = job[u].old]
  IN /\ JobAt(u, "link") /\ NextLink(u)
     /\ \/ review' = set /\ UNCHANGED faults
        \/ Fault /\ review' \in {review, set}
     /\ crossed' = (crossed \/ \E w \in Worker : worker[w].id = Linked(u) /\ worker[w].pc \in {"unclaim", "unhide"})
     /\ UNCHANGED <<question, outcome, worker, calls, cut, stale>>

LinkMake(u) ==
  LET saved == Saved(review[Linked(u)].row)
  IN /\ JobAt(u, "make")
     /\ \/ question' = saved /\ JobGoes(u, "drop") /\ UNCHANGED faults
        \/ Fault /\ question' \in {question, saved} /\ NextLink(u)
     /\ crossed' = (crossed \/ review[Linked(u)].status # "PENDING")
     /\ UNCHANGED <<review, outcome, worker, calls, cut, stale>>

LinkDrop(u) ==
  LET dropped == [review EXCEPT ![Linked(u)].status = "gone"]
  IN /\ JobAt(u, "drop") /\ NextLink(u)
     /\ \/ review' = dropped /\ UNCHANGED faults
        \/ Fault /\ review' \in {review, dropped}
     /\ UNCHANGED <<question, outcome, worker, calls, ghostVars>>

-----------------------------------------------------------------------------
(* A decision: DuplicateReviewService.resolve and apply.                   *)

At(w, pc) == worker[w].pc = pc
Become(w, r) == worker' = [worker EXCEPT ![w] = r]
GoTo(w, pc) == Become(w, IF pc = "idle" THEN Idle ELSE [worker[w] EXCEPT !.pc = pc])
Call == calls + faults < MaxEvents /\ calls' = calls + 1

FromSheet(i) == review[i].row # NoRow
Of(w) == review[worker[w].id]
RowOf(w) == {Of(w).row} \ {NoRow}
Status(i, status) == [review EXCEPT ![i].status = IF @ = "gone" THEN @ ELSE status]

\* A statement that may fail, or go through and lose its answer: changes is
\* done and the request goes on at next, or it goes to else.
Tries(w, changes, next, else) ==
  \/ changes /\ GoTo(w, next) /\ UNCHANGED faults
  \/ changes /\ GoTo(w, else) /\ Fault
  \/ UNCHANGED <<question, review>> /\ GoTo(w, else) /\ Fault

ResolveRead(w, i, act) ==
  /\ At(w, "idle") /\ Call /\ review[i].status = "PENDING"
  /\ Become(w, [Idle EXCEPT !.pc = "claim", !.id = i, !.act = act, !.old = review[i].old])
  /\ UNCHANGED <<question, review, job, outcome, faults, ghostVars>>

\* Is another request past its claim of this review, or the link loop saving its row?
Busy(w, i) ==
  \/ \E x \in Worker \ {w} : worker[x].id = i /\ worker[x].pc \notin {"claim", "unclaim"}
  \/ \E u \in Upload : job[u].pc \in {"make", "drop"} /\ Linked(u) = i

\* Does a copy come back that is not the one the decision on its row has saved?
Again(q) ==
  \E r \in Range(review) : /\ r.row = question[q].row
                           /\ r.status \notin {"KEPT_NEW", "KEPT_BOTH"} \/ r.made # q

\* Mutant: the status is not looked at again when the decision is written.
Mut_Undecided(w) == Of(w).status # "gone"

Undecided(w) == Of(w).status = "PENDING"

ResolveClaim(w) ==
  LET r == worker[w]
      next == IF FromSheet(r.id) THEN IF r.act = "KEPT_EXISTING" THEN "idle" ELSE "make"
              ELSE IF r.act = "KEPT_BOTH" THEN "idle" ELSE "hide"
  IN /\ At(w, "claim")
     /\ \/ /\ Undecided(w) /\ crossed' = (crossed \/ Busy(w, r.id))
           /\ review' = Status(r.id, r.act)
           /\ \/ GoTo(w, next) /\ UNCHANGED <<faults, cut>>
              \/ Fault /\ GoTo(w, "idle") /\ cut' = IF next = "make" THEN cut \cup {Of(w).row} ELSE cut
        \/ /\ ~Undecided(w) /\ GoTo(w, "idle")
           /\ UNCHANGED <<review, faults, crossed, cut>>
     /\ UNCHANGED <<question, job, outcome, calls, stale>>

\* createFromReviewCandidate: the row is saved without a duplicate check.
Make(w) ==
  LET r == worker[w]
      saved == Saved(Of(w).row)
      next == IF r.act = "KEPT_NEW" /\ r.old # 0 THEN "hide" ELSE "remember"
  IN /\ At(w, "make")
     /\ \/ /\ question' = saved /\ UNCHANGED faults
           /\ Become(w, [r EXCEPT !.pc = next, !.made = Len(saved)])
        \/ Fault /\ question' \in {question, saved} /\ GoTo(w, "putBack")
     /\ UNCHANGED <<review, job, outcome, calls, ghostVars>>

Loser(w) == IF FromSheet(worker[w].id) \/ worker[w].act = "KEPT_NEW" THEN worker[w].old ELSE Of(w).new

Winner(w) == IF FromSheet(worker[w].id) THEN worker[w].made
             ELSE IF worker[w].act = "KEPT_NEW" THEN Of(w).new ELSE worker[w].old

Hide(w) ==
  /\ At(w, "hide")
  /\ Tries(w, Show(Loser(w), FALSE) /\ UNCHANGED review,
           IF FromSheet(worker[w].id) THEN "remember" ELSE "publish", "putBack")
  /\ stale' = (stale \/ ~question[Winner(w)].live)
  /\ UNCHANGED <<job, outcome, calls, cut, crossed>>

\* Which copy the decision saved is noted for the undo; a failure is ignored.
Remember(w) ==
  /\ At(w, "remember")
  /\ Tries(w, review' = [review EXCEPT ![worker[w].id].made = worker[w].made] /\ UNCHANGED question, "idle", "idle")
  /\ UNCHANGED <<job, outcome, calls, ghostVars>>

\* The kept side of a scanned pair is made live again if the admin asks for it.
Publish(w) ==
  /\ At(w, "publish")
  /\ \/ /\ Tries(w, Show(Winner(w), TRUE) /\ UNCHANGED review, "idle", "idle")
        /\ crossed' = (crossed \/ Again(Winner(w)))
     \/ GoTo(w, "idle") /\ UNCHANGED <<question, review, faults, crossed>>
  /\ UNCHANGED <<job, outcome, calls, cut, stale>>

\* Mutant: a decision that failed keeps its status.
Mut_PutBack(w) ==
  /\ At(w, "putBack") /\ GoTo(w, "idle")
  /\ UNCHANGED <<question, review, job, outcome, calls, faults, ghostVars>>

\* A decision or an undo that failed gives the review its status back.
PutBack(w) ==
  /\ At(w, "putBack") /\ GoTo(w, "idle")
  /\ \/ review' = Status(worker[w].id, worker[w].was) /\ UNCHANGED <<faults, cut>>
     \/ Fault /\ UNCHANGED review /\ cut' = cut \cup RowOf(w)
  /\ UNCHANGED <<question, job, outcome, calls, crossed, stale>>

-----------------------------------------------------------------------------
(* undo, and the scan for copies in the bank.                              *)

\* findCreatedQuestion: the copy that was noted, or else one that was saved
\* from the same sheet.  0 where the decision saved nothing.
Created(i) ==
  IF ~FromSheet(i) \/ review[i].status = "KEPT_EXISTING" THEN {0}
  ELSE IF review[i].made # 0 THEN {review[i].made}
  ELSE {q \in DOMAIN question : question[q].row[1] = review[i].row[1] /\ q # review[i].old}

\* Mutant: the undo of a decision for the new copy brings nothing back.
Mut_Restored(i) == IF ~FromSheet(i) /\ review[i].status = "KEPT_EXISTING" THEN review[i].new ELSE 0

Restored(i) ==
  IF review[i].status = "KEPT_NEW" THEN review[i].old
  ELSE IF ~FromSheet(i) /\ review[i].status = "KEPT_EXISTING" THEN review[i].new
  ELSE 0

\* Mutant: an undo also takes a review that the link loop has deleted.
Mut_Decided(i) == review[i].status # "PENDING"

Decided(i) == review[i].status \in Decision

UndoRead(w, i) ==
  /\ At(w, "idle") /\ Call /\ Decided(i)
  /\ \E q \in Created(i) :
       /\ Become(w, [Idle EXCEPT !.pc = "unclaim", !.id = i, !.was = review[i].status,
                                 !.made = q, !.old = Restored(i)])
       /\ cut' = IF q # 0 /\ question[q].row # review[i].row THEN cut \cup {review[i].row} ELSE cut
  /\ crossed' = (crossed \/ Busy(w, i))
  /\ UNCHANGED <<question, review, job, outcome, faults, stale>>

ThenForget(w) == IF FromSheet(worker[w].id) THEN "forget" ELSE "idle"
ThenRestore(w) == IF worker[w].old # 0 THEN "restore" ELSE ThenForget(w)
ThenHide(w) == IF worker[w].made # 0 THEN "unhide" ELSE ThenRestore(w)

UndoClaim(w) ==
  /\ At(w, "unclaim")
  /\ \/ /\ Of(w).status = worker[w].was /\ crossed' = (crossed \/ Busy(w, worker[w].id) \/ Of(w).made # worker[w].made)
        /\ review' = Status(worker[w].id, "PENDING")
        /\ \/ GoTo(w, ThenHide(w)) /\ UNCHANGED faults
           \/ GoTo(w, "idle") /\ Fault
     \/ Of(w).status # worker[w].was /\ GoTo(w, "idle") /\ UNCHANGED <<review, faults, crossed>>
  /\ UNCHANGED <<question, job, outcome, calls, cut, stale>>

UndoHide(w) ==
  /\ At(w, "unhide")
  /\ Tries(w, Show(worker[w].made, FALSE) /\ UNCHANGED review, ThenRestore(w), "putBack")
  /\ stale' = (stale \/ (Live \subseteq {worker[w].made} /\ (worker[w].was = "KEPT_BOTH" \/ Of(w).old = 0)))
  /\ UNCHANGED <<job, outcome, calls, cut, crossed>>

UndoRestore(w) ==
  /\ At(w, "restore")
  /\ Tries(w, Show(worker[w].old, TRUE) /\ UNCHANGED review, ThenForget(w), "putBack")
  /\ crossed' = (crossed \/ Again(worker[w].old))
  /\ UNCHANGED <<job, outcome, calls, cut, stale>>

Forget(w) ==
  /\ At(w, "forget")
  /\ Tries(w, review' = [review EXCEPT ![worker[w].id].made = 0] /\ UNCHANGED question, "idle", "idle")
  /\ UNCHANGED <<job, outcome, calls, ghostVars>>

ScanRows(w) ==
  /\ At(w, "idle") /\ Call /\ Cardinality(Live) > 1
  /\ Become(w, [Idle EXCEPT !.pc = "prior", !.found = Live])
  /\ UNCHANGED <<question, review, job, outcome, faults, ghostVars>>

\* Copies are paired with the oldest one, unless that pair has been reviewed;
\* those that differ in a detail only if the admin asks for them.
ScanPrior(w) ==
  /\ At(w, "prior")
  /\ \E base \in Oldest(worker[w].found) :
       LET others == worker[w].found \ {base}
           fresh == {q \in others : ~\E r \in Range(review) : r.row = NoRow /\ {r.old, r.new} = {base, q}}
           exact == {q \in fresh : Look(question[q].row) = Look(question[base].row)}
       IN \E pairs \in {fresh, exact} :
            Become(w, IF pairs = {} THEN Idle ELSE [worker[w] EXCEPT !.pc = "queue", !.old = base, !.found = pairs])
  /\ UNCHANGED <<question, review, job, outcome, calls, faults, ghostVars>>

ScanQueue(w) ==
  /\ At(w, "queue")
  /\ \E others \in InOrder(worker[w].found) :
       Tries(w, /\ review' = review \o [k \in 1..Len(others) |-> Pair(NoRow, worker[w].old, others[k])]
                /\ UNCHANGED question, "idle", "idle")
  /\ UNCHANGED <<job, outcome, calls, ghostVars>>

-----------------------------------------------------------------------------
\* The process dies with everything that is under way in it: the batch stays RUNNING.
Crash ==
  LET busy == {w \in Worker : ~At(w, "idle")}
      running == {u \in Upload : job[u].pc \notin {"idle", "done", "dead"}}
  IN /\ Fault /\ (busy # {} \/ running # {})
     /\ worker' = [w \in Worker |-> Idle]
     /\ job' = [u \in Upload |-> IF u \in running THEN [NewJob EXCEPT !.pc = "dead"] ELSE job[u]]
     /\ cut' = cut \cup UNION {RowOf(w) : w \in {x \in busy : worker[x].pc \in {"make", "putBack"}}}
     /\ UNCHANGED <<question, review, outcome, calls, crossed, stale>>

UploadNext(u) ==
  \/ Index(u) \/ ReadPrior(u) \/ QueueMany(u) \/ QueueEach(u) \/ QueueInFile(u)
  \/ Commit(u) \/ CommitSingle(u)
  \/ LinkFind(u) \/ LinkSet(u) \/ LinkMake(u) \/ LinkDrop(u)

WorkerNext(w) ==
  \/ \E i \in DOMAIN review : UndoRead(w, i) \/ \E act \in Decision : ResolveRead(w, i, act)
  \/ ResolveClaim(w) \/ Make(w) \/ Hide(w) \/ Remember(w) \/ Publish(w) \/ PutBack(w)
  \/ UndoClaim(w) \/ UndoHide(w) \/ UndoRestore(w) \/ Forget(w)
  \/ ScanRows(w) \/ ScanPrior(w) \/ ScanQueue(w)

Next ==
  \/ \E u \in Upload : UploadNext(u)
  \/ \E w \in Worker : WorkerNext(w)
  \/ Crash

Spec == Init /\ [][Next]_vars

-----------------------------------------------------------------------------
\* The rows are questions, wait in a review, were answered "keep the old one" or
\* are about to be saved, unless their decision was cut off.
Kept(rows) ==
  \/ \E q \in DOMAIN question : question[q].row \in rows
  \/ \E r \in Range(review) : r.row \in rows /\ r.status \in {"PENDING", "KEPT_EXISTING"}
  \/ \E w \in Worker : worker[w].pc \in {"make", "putBack"} /\ Of(w).row \in rows
  \/ cut \cap rows # {}

\* No row is lost between the upload that took it, the queue and the decisions:
\* what was reported as saved or queued is kept, and what was reported as queued
\* already has an equal row that is kept or stands earlier in the sheet.
RowKept ==
  \A u \in Upload : \A i \in DOMAIN Sheet[u] :
    /\ outcome[u][i] \in {"saved", "queued"} => Kept({<<u, i>>})
    /\ outcome[u][i] = "already" =>
         \/ Kept({r \in Row : Look(r) = Sheet[u][i]})
         \/ \E k \in 1..i - 1 : Sheet[u][k] = Sheet[u][i]

\* A row is live at most once: no double click, second admin, undo or link loop
\* saves it again beside itself, as long as no statement failed and no request
\* claimed a review that an earlier one was still at work on.
RowOnce ==
  faults = 0 /\ ~crossed =>
    \A q, p \in Live : question[q].row = question[p].row => q = p

\* Decisions never take the last copy away from the students: only an undo that
\* is about to bring one back, or a decision on a pair whose kept side was
\* already gone.
LastCopyStays ==
  question # <<>> /\ Live = {} /\ faults = 0 /\ ~crossed /\ ~stale =>
    \E w \in Worker : At(w, "restore")
=============================================================================
