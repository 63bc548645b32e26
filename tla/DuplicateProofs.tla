-------------------------- MODULE DuplicateProofs --------------------------
(***************************************************************************)
(* Theorems about DuplicateReview, for any uploads, sheets, workers and    *)
(* failures: every reachable state is well typed, no row of a sheet is     *)
(* lost between the upload, the queue and the decisions, a row is live at  *)
(* most once, and decisions never take the last copy away.                 *)
(***************************************************************************)
EXTENDS DuplicateReview, SequenceTheorems, FiniteSetTheorems, TLAPS

-----------------------------------------------------------------------------
(* The tables.  Questions and reviews are only ever added, and keep their row. *)

LEMMA RowOK ==
  /\ NoRow \notin Row
  /\ \A u \in Upload \cup {Bank} : \A i \in DOMAIN Sheet[u] : <<u, i>> \in Row
BY DuplicateAssumption DEF Row, NoRow

Has(row, q) == \E k \in 1..Len(q) : q[k].row = row

\* What a step writes.
WithCopy(q, row) == Append(q, [row |-> row, live |-> TRUE])
WithLive(q, n, live) == [q EXCEPT ![n].live = live]
WithMore(r, new) == r \o new
WithStatus(r, i, s) == [r EXCEPT ![i].status = s]
WithOld(r, i, old) == [r EXCEPT ![i].old = old]
WithMade(r, i, made) == [r EXCEPT ![i].made = made]

\* What the reviews refer to exists; a copy that was noted was saved from the
\* row of its review, and a deleted review's row was saved.
ReviewOK(r, q) ==
  /\ {r.old, r.new, r.made} \subseteq 0..Len(q)
  /\ r.row # NoRow /\ r.made # 0 => q[r.made].row = r.row
  /\ r.status = "gone" => r.row # NoRow /\ Has(r.row, q)

Tables(q, r, c) ==
  /\ q \in Seq(Question) /\ r \in Seq(Review) /\ c \subseteq Row
  /\ \A i \in 1..Len(r) : ReviewOK(r[i], q)

Older(q, r, c, q2, r2, c2) ==
  /\ Len(q) <= Len(q2) /\ \A k \in 1..Len(q) : q2[k].row = q[k].row
  /\ Len(r) <= Len(r2) /\ \A i \in 1..Len(r) : r2[i].row = r[i].row
  /\ c \subseteq c2

LEMMA HasOlder ==
  ASSUME NEW q, NEW r, NEW c, NEW q2, NEW r2, NEW c2, NEW row,
         Len(q) \in Nat, Len(q2) \in Nat, Older(q, r, c, q2, r2, c2), Has(row, q)
  PROVE  Has(row, q2)
BY DEF Has, Older

LEMMA ReviewOlder ==
  ASSUME NEW q, NEW r, NEW c, NEW q2, NEW r2, NEW c2, NEW x,
         Len(q) \in Nat, Len(q2) \in Nat, Older(q, r, c, q2, r2, c2),
         x \in Review, ReviewOK(x, q)
  PROVE  ReviewOK(x, q2)
<1>1. {x.old, x.new, x.made} \subseteq 0..Len(q2)
  BY DEF Older, ReviewOK, Review
<1>2. x.row # NoRow /\ x.made # 0 => q2[x.made].row = x.row
  BY DEF Older, ReviewOK, Review
<1>3. x.status = "gone" => x.row # NoRow /\ Has(x.row, q2)
  BY HasOlder DEF ReviewOK
<1> QED
  BY <1>1, <1>2, <1>3 DEF ReviewOK

LEMMA Lengths ==
  ASSUME NEW q, NEW r, NEW c, Tables(q, r, c)
  PROVE  /\ Len(q) \in Nat /\ DOMAIN q = 1..Len(q) /\ \A k \in 1..Len(q) : q[k] \in Question
         /\ Len(r) \in Nat /\ DOMAIN r = 1..Len(r) /\ \A i \in 1..Len(r) : r[i] \in Review
<1>1. q \in Seq(Question) /\ r \in Seq(Review)
  BY DEF Tables
<1> QED
  BY <1>1, LenProperties, ElementOfSeq

LEMMA IsSeq ==
  ASSUME NEW S, NEW n \in Nat, NEW f \in [1..n -> S]
  PROVE  f \in Seq(S) /\ Len(f) = n
<1>1. f \in Seq(S)
  BY SeqDef
<1> QED
  BY <1>1, LenProperties

LEMMA Same ==
  ASSUME NEW q, NEW r, NEW c, NEW c2, Tables(q, r, c), c \subseteq c2, c2 \subseteq Row
  PROVE  Tables(q, r, c2) /\ Older(q, r, c, q, r, c2)
BY Lengths DEF Tables, Older

\* A copy is saved.
LEMMA SavedOK ==
  ASSUME NEW q, NEW r, NEW c, Tables(q, r, c), NEW row \in Row
  PROVE  LET q2 == WithCopy(q, row) IN
         Tables(q2, r, c) /\ Older(q, r, c, q2, r, c) /\ Len(q2) = Len(q) + 1 /\ q2[Len(q2)].row = row
<1> DEFINE q2 == WithCopy(q, row)
<1>1. [row |-> row, live |-> TRUE] \in Question
  BY DEF Question
<1>2. /\ q2 \in Seq(Question) /\ Len(q2) = Len(q) + 1
      /\ \A k \in 1..Len(q) : q2[k] = q[k]
      /\ q2[Len(q2)] = [row |-> row, live |-> TRUE]
  BY <1>1, AppendProperties DEF Tables, WithCopy
<1>3. Older(q, r, c, q2, r, c)
  BY <1>2, Lengths DEF Older
<1>4. \A i \in 1..Len(r) : ReviewOK(r[i], q2)
  BY <1>2, <1>3, Lengths, ReviewOlder DEF Tables
<1>5. q2[Len(q2)].row = row
  BY <1>2
<1>6. Tables(q2, r, c)
  BY <1>2, <1>4 DEF Tables
<1> QED
  BY <1>2, <1>3, <1>5, <1>6

\* A copy is hidden or shown.
LEMMA ShowOK ==
  ASSUME NEW q, NEW r, NEW c, Tables(q, r, c), NEW n, NEW live \in BOOLEAN
  PROVE  LET q2 == WithLive(q, n, live) IN
         Tables(q2, r, c) /\ Older(q, r, c, q2, r, c) /\ Len(q2) = Len(q)
<1> DEFINE q2 == WithLive(q, n, live)
<1>1. q \in [1..Len(q) -> Question] /\ Len(q) \in Nat
  BY LenProperties DEF Tables
<1>2. q2 \in [1..Len(q) -> Question]
  BY <1>1 DEF Question, WithLive
<1>3. q2 \in Seq(Question) /\ Len(q2) = Len(q)
  BY <1>1, <1>2, IsSeq
<1>4. Len(q2) = Len(q)
  BY <1>3
<1>5. \A k \in 1..Len(q) : q2[k].row = q[k].row
  BY <1>1, Lengths DEF Question, WithLive
<1>6. Older(q, r, c, q2, r, c)
  BY <1>1, <1>4, <1>5, Lengths DEF Older
<1>7. \A i \in 1..Len(r) : ReviewOK(r[i], q2)
  BY <1>1, <1>4, <1>6, Lengths, ReviewOlder DEF Tables
<1> QED
  BY <1>3, <1>4, <1>6, <1>7 DEF Tables

\* A review changes, but not its row.
LEMMA EditOK ==
  ASSUME NEW q, NEW r, NEW c, Tables(q, r, c), NEW i \in 1..Len(r), NEW x \in Review,
         x.row = r[i].row, ReviewOK(x, q), NEW r2 \in [1..Len(r) -> Review],
         \A n \in 1..Len(r) : r2[n] = IF n = i THEN x ELSE r[n]
  PROVE  Tables(q, r2, c) /\ Older(q, r, c, q, r2, c)
<1>1. r2 \in Seq(Review) /\ Len(r2) = Len(r)
  BY IsSeq, Lengths
<1> QED
  BY <1>1, Lengths DEF Tables, Older

\* Reviews are added.
LEMMA AddOK ==
  ASSUME NEW q, NEW r, NEW c, Tables(q, r, c), NEW new \in Seq(Review),
         \A k \in 1..Len(new) : ReviewOK(new[k], q)
  PROVE  LET r2 == WithMore(r, new) IN
         /\ Tables(q, r2, c) /\ Older(q, r, c, q, r2, c) /\ Len(r2) = Len(r) + Len(new)
         /\ \A i \in 1..Len(r) : r2[i] = r[i]
         /\ \A k \in 1..Len(new) : r2[Len(r) + k] = new[k]
<1> DEFINE r2 == WithMore(r, new)
<1>1. /\ r2 \in Seq(Review) /\ Len(r2) = Len(r) + Len(new)
      /\ \A i \in 1..Len(r) + Len(new) : r2[i] = IF i <= Len(r) THEN r[i] ELSE new[i - Len(r)]
  BY ConcatProperties DEF Tables, WithMore
<1>2. Len(r) \in Nat /\ Len(new) \in Nat
  BY Lengths, LenProperties
<1>3. \A i \in 1..Len(r) : r2[i] = r[i]
  BY <1>1, <1>2
<1>4. \A k \in 1..Len(new) : r2[Len(r) + k] = new[k]
  BY <1>1, <1>2
<1>5. \A i \in 1..Len(r2) : ReviewOK(r2[i], q)
  <2> TAKE i \in 1..Len(r2)
  <2>1. CASE i <= Len(r)
    BY <2>1, <1>1, <1>2 DEF Tables
  <2>2. CASE ~(i <= Len(r))
    <3>1. i - Len(r) \in 1..Len(new) /\ r2[i] = new[i - Len(r)]
      BY <2>2, <1>1, <1>2
    <3> QED
      BY <3>1
  <2> QED
    BY <2>1, <2>2
<1> QED
  BY <1>1, <1>2, <1>3, <1>4, <1>5, Lengths DEF Tables, Older

\* A decision, its undo or their failure changes the status.
LEMMA StatusOK ==
  ASSUME NEW q, NEW r, NEW c, Tables(q, r, c), NEW i \in 1..Len(r), NEW s \in Decision \cup {"PENDING"}
  PROVE  LET r2 == WithStatus(r, i, IF r[i].status = "gone" THEN "gone" ELSE s) IN
         /\ Tables(q, r2, c) /\ Older(q, r, c, q, r2, c)
         /\ r2[i].status \in {"gone", s} /\ \A n \in 1..Len(r) : n # i => r2[n].status = r[n].status
<1> DEFINE r2 == WithStatus(r, i, IF r[i].status = "gone" THEN "gone" ELSE s)
<1> DEFINE x == [r[i] EXCEPT !.status = IF r[i].status = "gone" THEN "gone" ELSE s]
<1>1. r[i] \in Review /\ ReviewOK(r[i], q)
  BY Lengths DEF Tables
<1>2. x \in Review /\ x.row = r[i].row /\ x.status = (IF r[i].status = "gone" THEN "gone" ELSE s)
  BY <1>1 DEF Review
<1>3. x.old = r[i].old /\ x.new = r[i].new /\ x.made = r[i].made
  BY <1>1 DEF Review
<1>4. ReviewOK(x, q)
  BY <1>1, <1>2, <1>3 DEF ReviewOK, Decision
<1>5. r2 \in [1..Len(r) -> Review] /\ \A n \in 1..Len(r) : r2[n] = IF n = i THEN x ELSE r[n]
  <2>1. r \in [1..Len(r) -> Review]
    BY LenProperties DEF Tables
  <2> QED
    BY <2>1, <1>2 DEF WithStatus
<1> HIDE DEF x
<1>6. Tables(q, r2, c) /\ Older(q, r, c, q, r2, c)
  BY <1>2, <1>4, <1>5, EditOK
<1> QED
  BY <1>1, <1>2, <1>5, <1>6

LEMMA LinkedOK ==
  ASSUME NEW q, NEW r, NEW c, Tables(q, r, c), NEW i \in 1..Len(r), NEW old \in 0..Len(q)
  PROVE  LET r2 == WithOld(r, i, old) IN
         Tables(q, r2, c) /\ Older(q, r, c, q, r2, c) /\ \A n \in 1..Len(r) : r2[n].status = r[n].status
<1> DEFINE r2 == WithOld(r, i, old)
<1> DEFINE x == [r[i] EXCEPT !.old = old]
<1>1. r[i] \in Review /\ ReviewOK(r[i], q) /\ old \in Nat
  BY Lengths DEF Tables
<1>2. x \in Review /\ x.row = r[i].row /\ x.status = r[i].status
  BY <1>1 DEF Review
<1>3. x.old = old /\ x.new = r[i].new /\ x.made = r[i].made
  BY <1>1 DEF Review
<1>4. ReviewOK(x, q)
  BY <1>1, <1>2, <1>3 DEF ReviewOK
<1>5. r2 \in [1..Len(r) -> Review] /\ \A n \in 1..Len(r) : r2[n] = IF n = i THEN x ELSE r[n]
  <2>1. r \in [1..Len(r) -> Review]
    BY LenProperties DEF Tables
  <2> QED
    BY <2>1, <1>2 DEF WithOld
<1> HIDE DEF x
<1>6. Tables(q, r2, c) /\ Older(q, r, c, q, r2, c)
  BY <1>2, <1>4, <1>5, EditOK
<1> QED
  BY <1>1, <1>2, <1>5, <1>6

LEMMA NotedOK ==
  ASSUME NEW q, NEW r, NEW c, Tables(q, r, c), NEW i \in 1..Len(r), NEW made \in 0..Len(q),
         made # 0 => q[made].row = r[i].row
  PROVE  LET r2 == WithMade(r, i, made) IN
         Tables(q, r2, c) /\ Older(q, r, c, q, r2, c) /\ \A n \in 1..Len(r) : r2[n].status = r[n].status
<1> DEFINE r2 == WithMade(r, i, made)
<1> DEFINE x == [r[i] EXCEPT !.made = made]
<1>1. r[i] \in Review /\ ReviewOK(r[i], q) /\ made \in Nat
  BY Lengths DEF Tables
<1>2. x \in Review /\ x.row = r[i].row /\ x.status = r[i].status
  BY <1>1 DEF Review
<1>3. x.old = r[i].old /\ x.new = r[i].new /\ x.made = made
  BY <1>1 DEF Review
<1>4. ReviewOK(x, q)
  BY <1>1, <1>2, <1>3 DEF ReviewOK
<1>5. r2 \in [1..Len(r) -> Review] /\ \A n \in 1..Len(r) : r2[n] = IF n = i THEN x ELSE r[n]
  <2>1. r \in [1..Len(r) -> Review]
    BY LenProperties DEF Tables
  <2> QED
    BY <2>1, <1>2 DEF WithMade
<1> HIDE DEF x
<1>6. Tables(q, r2, c) /\ Older(q, r, c, q, r2, c)
  BY <1>2, <1>4, <1>5, EditOK
<1> QED
  BY <1>1, <1>2, <1>5, <1>6

LEMMA MadeStatus ==
  ASSUME NEW q, NEW r, NEW c, Tables(q, r, c), NEW i \in 1..Len(r), NEW made, NEW n \in 1..Len(r)
  PROVE  WithMade(r, i, made)[n].status = r[n].status
<1>1. r \in [1..Len(r) -> Review]
  BY LenProperties DEF Tables
<1>2. WithMade(r, i, made)[n] = IF n = i THEN [r[i] EXCEPT !.made = made] ELSE r[n]
  BY <1>1 DEF WithMade
<1>3. [r[i] EXCEPT !.made = made].status = r[i].status
  BY <1>1 DEF Review
<1> QED
  BY <1>2, <1>3

LEMMA DroppedOK ==
  ASSUME NEW q, NEW r, NEW c, Tables(q, r, c), NEW i \in 1..Len(r), r[i].row # NoRow, Has(r[i].row, q)
  PROVE  LET r2 == WithStatus(r, i, "gone") IN
         /\ Tables(q, r2, c) /\ Older(q, r, c, q, r2, c)
         /\ r2[i].status = "gone" /\ \A n \in 1..Len(r) : n # i => r2[n].status = r[n].status
<1> DEFINE r2 == WithStatus(r, i, "gone")
<1> DEFINE x == [r[i] EXCEPT !.status = "gone"]
<1>1. r[i] \in Review /\ ReviewOK(r[i], q)
  BY Lengths DEF Tables
<1>2. x \in Review /\ x.row = r[i].row /\ x.status = "gone"
  BY <1>1 DEF Review
<1>3. x.old = r[i].old /\ x.new = r[i].new /\ x.made = r[i].made
  BY <1>1 DEF Review
<1>4. ReviewOK(x, q)
  BY <1>1, <1>2, <1>3 DEF ReviewOK
<1>5. r2 \in [1..Len(r) -> Review] /\ \A n \in 1..Len(r) : r2[n] = IF n = i THEN x ELSE r[n]
  <2>1. r \in [1..Len(r) -> Review]
    BY LenProperties DEF Tables
  <2> QED
    BY <2>1, <1>2 DEF WithStatus
<1> HIDE DEF x
<1>6. Tables(q, r2, c) /\ Older(q, r, c, q, r2, c)
  BY <1>2, <1>4, <1>5, EditOK
<1> QED
  BY <1>1, <1>2, <1>5, <1>6

\* The elements of a finite set in order: a sequence that leaves none out.
LEMMA Ordered ==
  ASSUME NEW S, IsFiniteSet(S), S \subseteq Nat, NEW rows \in InOrder(S)
  PROVE  /\ rows \in Seq(S) /\ Len(rows) \in Nat
         /\ \A k \in 1..Len(rows) : rows[k] \in S
         /\ \A x \in S : \E k \in 1..Len(rows) : rows[k] = x
<1> DEFINE n == Cardinality(S)
<1>1. n \in Nat /\ rows \in [1..n -> S]
  BY FS_CardinalityType DEF InOrder
<1>2. \A k, m \in 1..n : k < m => rows[k] < rows[m]
  BY <1>1 DEF InOrder
<1>3. rows \in Seq(S) /\ Len(rows) = n
  BY <1>1, IsSeq
<1>4. Len(rows) = n
  BY <1>3
<1>5. ASSUME NEW x \in S, \A k \in 1..n : rows[k] # x PROVE FALSE
  <2>1. IsFiniteSet(S \ {x}) /\ Cardinality(S \ {x}) = n - 1
    BY FS_RemoveElement
  <2>2. IsFiniteSet(1..n) /\ Cardinality(1..n) = n
    BY <1>1, FS_Interval
  <2>3. rows \in [1..n -> S \ {x}]
    BY <1>1, <1>5
  <2>4. \E k, m \in 1..n : k # m /\ rows[k] = rows[m]
    BY <2>1, <2>2, <2>3, <1>1, FS_PigeonHole
  <2>5. \A k \in 1..n : rows[k] \in Nat
    BY <1>1
  <2> QED
    BY <2>4, <2>5, <1>1, <1>2
<1> QED
  BY <1>1, <1>3, <1>4, <1>5, LenProperties, ElementOfSeq

-----------------------------------------------------------------------------
(* The inductive invariant. *)

JobOK(j, q, r) ==
  /\ j \in Job /\ j.old \in 0..Len(q)
  /\ \A k \in 1..Len(j.links) : j.links[k] \in 1..Len(r) /\ r[j.links[k]].row # NoRow
  /\ j.pc \in {"link", "make", "drop"} => j.links # <<>>
  /\ j.pc = "drop" => Has(r[Head(j.links)].row, q)

\* Where a request knows its review, what it was before the claim, and whose
\* copy it saved.  An undo takes back a decision that saved the row, or the row
\* counts as cut off.
WorkerOK(x, q, r, c) ==
  /\ x \in Request /\ x.id \in 0..Len(r) /\ {x.old, x.made} \subseteq 0..Len(q) /\ x.found \subseteq 1..Len(q)
  /\ x.pc \notin {"idle", "prior", "queue"} => x.id # 0
  /\ x.pc \in {"claim", "make", "hide"} => x.was = "PENDING"
  /\ x.pc \in {"make", "remember"} => r[x.id].row # NoRow
  /\ x.pc \in {"claim", "make", "hide", "remember"} /\ x.made # 0 => q[x.made].row = r[x.id].row
  /\ /\ x.pc \in {"unclaim", "unhide", "restore", "forget", "putBack"}
     /\ x.was \in {"KEPT_NEW", "KEPT_BOTH"} /\ r[x.id].row # NoRow
     => Has(r[x.id].row, q) \/ r[x.id].row \in c

Jobs == job \in [Upload -> Job] /\ \A u \in Upload : JobOK(job[u], question, review)
Workers == worker \in [Worker -> Request] /\ \A w \in Worker : WorkerOK(worker[w], question, review, cut)
Outcomes ==
  /\ outcome = [u \in Upload |-> outcome[u]]
  /\ \A u \in Upload : outcome[u] \in [DOMAIN Sheet[u] -> Outcome]
Counters == calls \in 0..MaxEvents /\ faults \in 0..MaxEvents /\ crossed \in BOOLEAN /\ stale \in BOOLEAN

IInv == Tables(question, review, cut) /\ Jobs /\ Workers /\ Outcomes /\ Counters

LEMMA JobOlder ==
  ASSUME NEW q, NEW r, NEW c, NEW q2, NEW r2, NEW c2, NEW j,
         Len(q) \in Nat, Len(q2) \in Nat, Len(r) \in Nat, Len(r2) \in Nat,
         Older(q, r, c, q2, r2, c2), JobOK(j, q, r)
  PROVE  JobOK(j, q2, r2)
<1>1. j \in Job /\ j.old \in 0..Len(q2)
  BY DEF JobOK, Older
<1>2. \A k \in 1..Len(j.links) : j.links[k] \in 1..Len(r2) /\ r2[j.links[k]].row # NoRow
  BY DEF JobOK, Older
<1>3. ASSUME j.pc = "drop" PROVE Has(r2[Head(j.links)].row, q2)
  <2>1. j.links \in Seq(Nat) /\ j.links # <<>>
    BY <1>3 DEF JobOK, Job
  <2>2. Head(j.links) = j.links[1] /\ 1 \in 1..Len(j.links)
    BY <2>1, HeadTailProperties, EmptySeq, LenProperties
  <2>3. r2[Head(j.links)].row = r[Head(j.links)].row
    BY <2>2 DEF JobOK, Older
  <2> QED
    BY <1>3, <2>3, HasOlder DEF JobOK
<1> QED
  BY <1>1, <1>2, <1>3 DEF JobOK

LEMMA WorkerOlder ==
  ASSUME NEW q, NEW r, NEW c, NEW q2, NEW r2, NEW c2, NEW x,
         Len(q) \in Nat, Len(q2) \in Nat, Len(r) \in Nat, Len(r2) \in Nat,
         Older(q, r, c, q2, r2, c2), WorkerOK(x, q, r, c)
  PROVE  WorkerOK(x, q2, r2, c2)
<1>1. x \in Request /\ x.id \in 0..Len(r2) /\ {x.old, x.made} \subseteq 0..Len(q2) /\ x.found \subseteq 1..Len(q2)
  BY DEF WorkerOK, Older
<1>2. x.id # 0 => r2[x.id].row = r[x.id].row
  BY DEF WorkerOK, Older
<1>3. x.made # 0 => q2[x.made].row = q[x.made].row
  BY DEF WorkerOK, Older
<1>4. Has(r[x.id].row, q) \/ r[x.id].row \in c => Has(r[x.id].row, q2) \/ r[x.id].row \in c2
  <2>1. Has(r[x.id].row, q) => Has(r[x.id].row, q2)
    BY HasOlder
  <2> QED
    BY <2>1 DEF Older
<1> QED
  BY <1>1, <1>2, <1>3, <1>4 DEF WorkerOK

-----------------------------------------------------------------------------
(* The tables are kept by every step. *)

LEMMA InitOK == Init => IInv
<1> SUFFICES ASSUME Init PROVE IInv
  OBVIOUS
<1> DEFINE n == Len(Sheet[Bank])
<1>1. n \in Nat /\ DOMAIN Sheet[Bank] = 1..n
  BY DuplicateAssumption
<1>2. question \in [1..n -> Question]
  BY <1>1, RowOK DEF Init, Question
<1>3. question \in Seq(Question) /\ Len(question) = n
  BY <1>1, <1>2, IsSeq
<1>4. review = <<>> /\ review \in Seq(Review) /\ Len(review) = 0
  BY EmptySeq DEF Init
<1>5. Tables(question, review, cut)
  BY <1>3, <1>4 DEF Tables, Init
<1>6. Len(question) \in Nat
  BY <1>1, <1>3
<1>7. Jobs
  <2>1. NewJob \in Job /\ NewJob.old = 0 /\ NewJob.links = <<>> /\ Len(<<>>) = 0 /\ NewJob.pc = "idle"
    BY EmptySeq DEF NewJob, Job, JobStep
  <2>2. JobOK(NewJob, question, review)
    BY <2>1, <1>6 DEF JobOK
  <2> QED
    BY <2>1, <2>2 DEF Init, Jobs
<1>8. Workers
  <2>1. Idle \in Request
    BY DEF Idle, Request, WorkerStep, Decision
  <2>2. WorkerOK(Idle, question, review, cut)
    BY <2>1, <1>4, <1>6 DEF WorkerOK, Idle
  <2> QED
    BY <2>1, <2>2 DEF Init, Workers
<1>9. Outcomes
  BY DEF Init, Outcomes, Outcome
<1>10. Counters
  <2>1. MaxEvents \in Nat /\ calls = 0 /\ faults = 0
    BY DuplicateAssumption DEF Init
  <2>2. crossed \in BOOLEAN /\ stale \in BOOLEAN
    BY DEF Init
  <2> QED
    BY <2>1, <2>2 DEF Counters
<1> QED
  BY <1>5, <1>7, <1>8, <1>9, <1>10 DEF IInv

\* What the invariant says of an upload and of a request that has read a review.
LEMMA JobFacts ==
  ASSUME IInv, NEW u \in Upload
  PROVE  /\ JobOK(job[u], question, review) /\ job[u] \in Job /\ job[u].old \in 0..Len(question)
         /\ JobAt(u, "link") \/ JobAt(u, "make") \/ JobAt(u, "drop") \/ job[u].links # <<>> =>
              /\ job[u].links \in Seq(Nat) /\ Len(job[u].links) \in Nat /\ job[u].links # <<>>
              /\ Linked(u) \in 1..Len(review) /\ review[Linked(u)].row \in Row
         /\ JobAt(u, "drop") => Has(review[Linked(u)].row, question)
<1>1. JobOK(job[u], question, review) /\ Tables(question, review, cut)
  BY DEF IInv, Jobs
<1>2. job[u] \in Job /\ job[u].links \in Seq(Nat)
  BY <1>1 DEF JobOK, Job
<1>3. ASSUME job[u].links # <<>> PROVE Linked(u) \in 1..Len(review) /\ review[Linked(u)].row \in Row
  <2>1. Linked(u) = job[u].links[1] /\ 1 \in 1..Len(job[u].links)
    BY <1>2, <1>3, HeadTailProperties, EmptySeq, LenProperties DEF Linked
  <2> QED
    BY <2>1, <1>1, Lengths DEF JobOK, Review
<1> QED
  BY <1>1, <1>2, <1>3, LenProperties DEF JobOK, JobAt, Linked

LEMMA WorkerFacts ==
  ASSUME IInv, NEW w \in Worker
  PROVE  /\ WorkerOK(worker[w], question, review, cut) /\ worker[w] \in Request
         /\ worker[w].pc \notin {"idle", "prior", "queue"} =>
              /\ worker[w].id \in 1..Len(review) /\ Of(w) = review[worker[w].id]
              /\ Of(w) \in Review /\ ReviewOK(Of(w), question) /\ RowOf(w) \subseteq Row
<1>1. WorkerOK(worker[w], question, review, cut) /\ Tables(question, review, cut)
  BY DEF IInv, Workers
<1>2. worker[w].pc \notin {"idle", "prior", "queue"} => worker[w].id \in 1..Len(review)
  BY <1>1, Lengths DEF WorkerOK
<1>3. worker[w].id \in 1..Len(review) => Of(w) \in Review /\ ReviewOK(Of(w), question)
  BY <1>1, Lengths DEF Of, Tables
<1>4. Of(w) \in Review => RowOf(w) \subseteq Row
  BY DEF RowOf, Review
<1> QED
  BY <1>1, <1>2, <1>3, <1>4 DEF WorkerOK, Of

LEMMA WaitingOrdered ==
  ASSUME IInv, NEW u \in Upload, NEW rows \in InOrder(Waiting(u))
  PROVE  /\ rows \in Seq(DOMAIN Sheet[u]) /\ Len(rows) \in Nat
         /\ \A k \in 1..Len(rows) : rows[k] \in Waiting(u)
         /\ \A i \in Waiting(u) : \E k \in 1..Len(rows) : rows[k] = i
<1>1. DOMAIN Sheet[u] = 1..Len(Sheet[u]) /\ Len(Sheet[u]) \in Nat
  BY DuplicateAssumption
<1>2. IsFiniteSet(1..Len(Sheet[u]))
  BY <1>1, FS_Interval
<1>3. Waiting(u) \subseteq DOMAIN Sheet[u]
  BY DEF Waiting
<1>4. IsFiniteSet(Waiting(u)) /\ Waiting(u) \subseteq Nat
  BY <1>1, <1>2, <1>3, FS_Subset
<1>5. rows \in Seq(Waiting(u)) /\ Len(rows) \in Nat
  BY <1>4, Ordered
<1>6. rows \in Seq(DOMAIN Sheet[u])
  BY <1>3, <1>5 
<1> QED
  BY <1>4, <1>5, <1>6, Ordered

LEMMA OneRow ==
  ASSUME NEW u \in Upload, NEW i \in Waiting(u)
  PROVE  <<i>> \in Seq(DOMAIN Sheet[u]) /\ Len(<<i>>) = 1 /\ <<i>>[1] = i
<1>1. i \in DOMAIN Sheet[u]
  BY DEF Waiting
<1>2. Len(<<i>>) = 1 /\ <<i>>[1] = i /\ <<i>> \in [1..1 -> DOMAIN Sheet[u]]
  BY <1>1
<1>3. <<i>> \in Seq(DOMAIN Sheet[u])
  BY <1>2, IsSeq
<1> QED
  BY <1>2, <1>3

LEMMA QueuedOK ==
  ASSUME IInv, NEW u \in Upload, NEW rows \in Seq(DOMAIN Sheet[u])
  PROVE  LET r2 == Queued(u, rows) IN
         /\ Tables(question, r2, cut) /\ Older(question, review, cut, question, r2, cut)
         /\ Len(r2) = Len(review) + Len(rows)
         /\ \A i \in 1..Len(review) : r2[i] = review[i]
         /\ \A k \in 1..Len(rows) : r2[Len(review) + k] = Pair(<<u, rows[k]>>, job[u].old, 0)
<1>0. PICK new : new = [k \in 1..Len(rows) |-> Pair(<<u, rows[k]>>, job[u].old, 0)]
  OBVIOUS
<1>1. Tables(question, review, cut) /\ job[u].old \in 0..Len(question) /\ Len(question) \in Nat
  BY JobFacts, Lengths DEF IInv
<1>2. Len(rows) \in Nat /\ \A k \in 1..Len(rows) : rows[k] \in DOMAIN Sheet[u]
  BY LenProperties, ElementOfSeq
<1>3. \A k \in 1..Len(rows) : new[k] \in Review /\ ReviewOK(new[k], question)
  <2> TAKE k \in 1..Len(rows)
  <2>1. <<u, rows[k]>> \in Row
    BY <1>2, RowOK
  <2>2. Pair(<<u, rows[k]>>, job[u].old, 0) \in Review
    BY <2>1, <1>1 DEF Pair, Review
  <2>3. ReviewOK(Pair(<<u, rows[k]>>, job[u].old, 0), question)
    BY <1>1 DEF Pair, ReviewOK
  <2> QED
    BY <1>0, <2>2, <2>3
<1>4. new \in Seq(Review) /\ Len(new) = Len(rows)
  BY <1>0, <1>2, <1>3, IsSeq
<1>5. Queued(u, rows) = WithMore(review, new)
  BY <1>0 DEF Queued, WithMore
<1>6. \A k \in 1..Len(rows) : new[k] = Pair(<<u, rows[k]>>, job[u].old, 0)
  BY <1>0
<1>7. \A k \in 1..Len(new) : ReviewOK(new[k], question)
  BY <1>3, <1>4
<1>8. /\ Tables(question, WithMore(review, new), cut)
      /\ Older(question, review, cut, question, WithMore(review, new), cut)
      /\ Len(WithMore(review, new)) = Len(review) + Len(new)
      /\ \A i \in 1..Len(review) : WithMore(review, new)[i] = review[i]
      /\ \A k \in 1..Len(new) : WithMore(review, new)[Len(review) + k] = new[k]
  <2>1. Tables(question, review, cut) /\ new \in Seq(Review)
    BY <1>1, <1>4
  <2> QED
    BY <2>1, <1>7, AddOK
<1> QED
  BY <1>4, <1>5, <1>6, <1>8

Paired(w, others) == review \o [k \in 1..Len(others) |-> Pair(NoRow, worker[w].old, others[k])]

LEMMA PairedOK ==
  ASSUME IInv, NEW w \in Worker, NEW others \in InOrder(worker[w].found)
  PROVE  LET r2 == Paired(w, others) IN
         /\ Tables(question, r2, cut) /\ Older(question, review, cut, question, r2, cut)
         /\ \A i \in 1..Len(review) : r2[i] = review[i]
         /\ \A i \in 1..Len(r2) : i \notin 1..Len(review) =>
              r2[i].row = NoRow /\ r2[i].old = worker[w].old /\ r2[i].new \in worker[w].found
<1>1. Tables(question, review, cut) /\ Len(question) \in Nat
  BY Lengths DEF IInv
<1>2. worker[w].found \subseteq 1..Len(question) /\ worker[w].old \in 0..Len(question)
  BY WorkerFacts DEF WorkerOK
<1>3. /\ others \in Seq(worker[w].found) /\ Len(others) \in Nat
      /\ \A k \in 1..Len(others) : others[k] \in worker[w].found
  <2>1. IsFiniteSet(1..Len(question))
    BY <1>1, FS_Interval
  <2>2. IsFiniteSet(worker[w].found) /\ worker[w].found \subseteq Nat
    BY <1>1, <1>2, <2>1, FS_Subset
  <2> QED
    BY <2>2, Ordered
<1>4. PICK new : new = [k \in 1..Len(others) |-> Pair(NoRow, worker[w].old, others[k])]
  OBVIOUS
<1>5. \A k \in 1..Len(others) : new[k] \in Review /\ ReviewOK(new[k], question)
  BY <1>1, <1>2, <1>3, <1>4 DEF Pair, Review, ReviewOK
<1>6. new \in Seq(Review) /\ Len(new) = Len(others)
  BY <1>3, <1>4, <1>5, IsSeq
<1>7. Paired(w, others) = WithMore(review, new)
  BY <1>4 DEF Paired, WithMore
<1>8. \A k \in 1..Len(new) : ReviewOK(new[k], question)
  BY <1>5, <1>6
<1> DEFINE r2 == WithMore(review, new)
<1>9. /\ Tables(question, r2, cut) /\ Older(question, review, cut, question, r2, cut) /\ Len(r2) = Len(review) + Len(new)
      /\ \A i \in 1..Len(review) : r2[i] = review[i]
      /\ \A k \in 1..Len(new) : r2[Len(review) + k] = new[k]
  <2>1. Tables(question, review, cut) /\ new \in Seq(Review)
    BY <1>1, <1>6
  <2> QED
    BY <2>1, <1>8, AddOK
<1>10. \A k \in 1..Len(new) : new[k].row = NoRow /\ new[k].old = worker[w].old /\ new[k].new \in worker[w].found
  BY <1>3, <1>4, <1>6 DEF Pair
<1>11. ASSUME NEW i \in 1..Len(r2), i \notin 1..Len(review)
       PROVE  r2[i].row = NoRow /\ r2[i].old = worker[w].old /\ r2[i].new \in worker[w].found
  <2>1. Len(review) \in Nat /\ Len(new) \in Nat
    BY <1>1, <1>3, <1>6, Lengths
  <2>2. i - Len(review) \in 1..Len(new) /\ Len(review) + (i - Len(review)) = i
    BY <1>9, <1>11, <2>1
  <2>3. r2[Len(review) + (i - Len(review))] = new[i - Len(review)]
    BY <1>9, <2>2
  <2> QED
    BY <1>10, <2>2, <2>3
<1> QED
  BY <1>7, <1>9, <1>11

LEMMA TablesStep ==
  ASSUME IInv, [Next]_vars
  PROVE  Tables(question', review', cut') /\ Older(question, review, cut, question', review', cut')
<1> DEFINE Goal == Tables(question', review', cut') /\ Older(question, review, cut, question', review', cut')
<1> USE DEF Goal
<1>1. /\ Tables(question, review, cut) /\ cut \subseteq Row
      /\ Len(question) \in Nat /\ DOMAIN question = 1..Len(question)
      /\ \A k \in 1..Len(question) : question[k] \in Question
      /\ Len(review) \in Nat /\ DOMAIN review = 1..Len(review) /\ \A i \in 1..Len(review) : review[i] \in Review
  BY Lengths DEF IInv, Tables
<1>2. ASSUME UNCHANGED <<question, review>>, cut \subseteq cut', cut' \subseteq Row PROVE Goal
  BY <1>1, <1>2, Same
<1>3. ASSUME NEW row \in Row, question' \in {question, WithCopy(question, row)}, UNCHANGED <<review, cut>> PROVE Goal
  BY <1>1, <1>3, Same, SavedOK
<1>4. ASSUME NEW n, NEW live \in BOOLEAN, question' = WithLive(question, n, live), UNCHANGED <<review, cut>> PROVE Goal
  BY <1>1, <1>4, ShowOK
<1>5. ASSUME UNCHANGED <<question, review, cut>> PROVE Goal
  BY <1>1, <1>2, <1>5
<1>6. ASSUME NEW u \in Upload, UploadNext(u) PROVE Goal
  <2>1. CASE Index(u) \/ ReadPrior(u) \/ LinkFind(u)
    BY <1>5, <2>1 DEF Index, ReadPrior, LinkFind, ghostVars
  <2>2. CASE QueueMany(u)
    <3>1. PICK rows \in InOrder(Waiting(u)) : review' \in {review, Queued(u, rows)}
      BY <2>2 DEF QueueMany
    <3>2. rows \in Seq(DOMAIN Sheet[u])
      BY <3>1, WaitingOrdered
    <3>3. UNCHANGED <<question, cut>>
      BY <2>2 DEF QueueMany, ghostVars
    <3> QED
      BY <1>5, <3>1, <3>2, <3>3, QueuedOK
  <2>3. CASE QueueEach(u) \/ QueueInFile(u)
    <3>1. PICK i \in Waiting(u) : review' \in {review, Queued(u, <<i>>)}
      BY <2>3 DEF QueueEach, QueueInFile, Oldest
    <3>2. <<i>> \in Seq(DOMAIN Sheet[u])
      BY <3>1, OneRow
    <3>3. UNCHANGED <<question, cut>>
      BY <2>3 DEF QueueEach, QueueInFile, ghostVars
    <3> QED
      BY <1>5, <3>1, <3>2, <3>3, QueuedOK
  <2>4. CASE Commit(u) \/ CommitSingle(u)
    <3>1. <<u, 1>> \in Row
      BY DuplicateAssumption, RowOK
    <3> QED
      BY <1>3, <2>4, <3>1 DEF Commit, CommitSingle, Saved, WithCopy, ghostVars
  <2>5. CASE LinkSet(u)
    <3>1. Linked(u) \in 1..Len(review) /\ job[u].old \in 0..Len(question)
      BY <2>5, JobFacts DEF LinkSet
    <3>2. review' \in {review, WithOld(review, Linked(u), job[u].old)} /\ UNCHANGED <<question, cut>>
      BY <2>5 DEF LinkSet, WithOld
    <3> QED
      BY <1>1, <1>5, <3>1, <3>2, LinkedOK
  <2>6. CASE LinkMake(u)
    BY <1>3, <2>6, JobFacts DEF LinkMake, Saved, WithCopy
  <2>7. CASE LinkDrop(u)
    <3>1. Linked(u) \in 1..Len(review) /\ review[Linked(u)].row # NoRow /\ Has(review[Linked(u)].row, question)
      BY <2>7, JobFacts, RowOK DEF LinkDrop
    <3>2. review' \in {review, WithStatus(review, Linked(u), "gone")} /\ UNCHANGED <<question, cut>>
      BY <2>7 DEF LinkDrop, WithStatus, ghostVars
    <3> QED
      BY <1>1, <1>5, <3>1, <3>2, DroppedOK
  <2> QED
    BY <1>6, <2>1, <2>2, <2>3, <2>4, <2>5, <2>6, <2>7 DEF UploadNext
<1>7. ASSUME NEW w \in Worker, WorkerNext(w) PROVE Goal
  <2> DEFINE id == worker[w].id
  <2>1. CASE \/ \E i \in DOMAIN review : UndoRead(w, i) \/ \E act \in Decision : ResolveRead(w, i, act)
             \/ ScanRows(w) \/ ScanPrior(w)
    <3>1. UNCHANGED <<question, review>> /\ cut \subseteq cut' /\ cut' \subseteq Row
      <4>1. CASE \E i \in DOMAIN review : UndoRead(w, i)
        <5>1. PICK i \in DOMAIN review : UndoRead(w, i)
          BY <4>1
        <5>2. PICK q \in Created(i) :
                cut' = IF q # 0 /\ question[q].row # review[i].row THEN cut \cup {review[i].row} ELSE cut
          BY <5>1 DEF UndoRead
        <5>3. q # 0 => review[i].row # NoRow
          BY <5>2 DEF Created, FromSheet
        <5>4. review[i].row \in Row \cup {NoRow}
          BY <1>1 DEF Review
        <5>5. UNCHANGED <<question, review>>
          BY <5>1 DEF UndoRead
        <5> QED
          BY <5>2, <5>3, <5>4, <5>5, <1>1
      <4>2. CASE \E i \in DOMAIN review : \E act \in Decision : ResolveRead(w, i, act)
        BY <4>2, <1>1 DEF ResolveRead, ghostVars
      <4>3. CASE ScanRows(w) \/ ScanPrior(w)
        BY <4>3, <1>1 DEF ScanRows, ScanPrior, ghostVars
      <4> QED
        BY <2>1, <4>1, <4>2, <4>3
    <3> QED
      BY <3>1, <1>2
  <2>2. ASSUME ~At(w, "idle"), ~At(w, "prior"), ~At(w, "queue")
        PROVE  id \in 1..Len(review) /\ Of(w) = review[id] /\ RowOf(w) \subseteq Row /\ WorkerOK(worker[w], question, review, cut)
    BY <2>2, WorkerFacts DEF At
  <2>3. ASSUME NEW s \in Decision \cup {"PENDING"}, id \in 1..Len(review), UNCHANGED question, cut \subseteq cut',
               cut' \subseteq Row, review' = Status(id, s)
        PROVE  Goal
    <3>1. review' = WithStatus(review, id, IF review[id].status = "gone" THEN "gone" ELSE s)
      BY <2>3, <1>1 DEF Status, WithStatus
    <3>2. Tables(question, review', cut) /\ Older(question, review, cut, question, review', cut)
      BY <1>1, <2>3, <3>1, StatusOK
    <3> QED
      BY <2>3, <3>2, Lengths DEF Tables, Older
  <2>4. CASE ResolveClaim(w)
    <3>1. At(w, "claim") /\ UNCHANGED question
      BY <2>4 DEF ResolveClaim
    <3>2. worker[w].act \in Decision /\ id \in 1..Len(review) /\ Of(w) = review[id]
      BY <3>1, <2>2, WorkerFacts DEF At, Request
    <3>3. cut \subseteq cut' /\ cut' \subseteq Row
      <4>1. FromSheet(id) => Of(w).row \in Row
        BY <3>2, <1>1 DEF FromSheet, Review
      <4> QED
        BY <2>4, <3>2, <4>1, <1>1 DEF ResolveClaim
    <3>4. review' \in {review, Status(id, worker[w].act)}
      BY <2>4 DEF ResolveClaim
    <3> QED
      BY <1>2, <2>3, <3>1, <3>2, <3>3, <3>4
  <2>5. CASE Make(w)
    <3>1. At(w, "make") /\ Of(w).row \in Row
      BY <2>5, <2>2, <1>1 DEF Make, At, WorkerOK, Review
    <3> QED
      BY <1>3, <2>5, <3>1 DEF Make, Saved, WithCopy, ghostVars
  <2>6. CASE Hide(w) \/ Publish(w) \/ UndoHide(w) \/ UndoRestore(w)
    <3>1. \/ UNCHANGED <<question, review, cut>>
          \/ \E n, live : live \in BOOLEAN /\ question' = WithLive(question, n, live) /\ UNCHANGED <<review, cut>>
      BY <2>6 DEF Hide, Publish, UndoHide, UndoRestore, Tries, Show, WithLive, ghostVars
    <3> QED
      BY <1>4, <1>5, <3>1
  <2>7. CASE Remember(w) \/ Forget(w)
    <3>1. id \in 1..Len(review) /\ worker[w].made \in 0..Len(question) /\ UNCHANGED <<question, cut>>
      BY <2>7, <2>2 DEF Remember, Forget, Tries, At, WorkerOK, ghostVars
    <3>2. ASSUME Remember(w), worker[w].made # 0 PROVE question[worker[w].made].row = review[id].row
      BY <3>2, <2>2 DEF Remember, At, WorkerOK
    <3>3. \/ Remember(w) /\ review' = WithMade(review, id, worker[w].made)
          \/ review' = WithMade(review, id, 0)
          \/ UNCHANGED review
      BY <2>7 DEF Remember, Forget, Tries, WithMade
    <3>4. 0 \in 0..Len(question)
      BY <1>1
    <3> QED
      BY <1>1, <1>5, <3>1, <3>2, <3>3, <3>4, NotedOK
  <2>8. CASE PutBack(w)
    <3>1. At(w, "putBack") /\ UNCHANGED question
      BY <2>8 DEF PutBack
    <3>2. id \in 1..Len(review) /\ worker[w].was \in Decision \cup {"PENDING"} /\ RowOf(w) \subseteq Row
      BY <3>1, <2>2, WorkerFacts DEF At, Request
    <3>3. review' \in {review, Status(id, worker[w].was)} /\ cut \subseteq cut' /\ cut' \subseteq Row
      BY <2>8, <3>2, <1>1 DEF PutBack
    <3> QED
      BY <1>2, <2>3, <3>1, <3>2, <3>3
  <2>9. CASE UndoClaim(w)
    <3>1. id \in 1..Len(review)
      BY <2>9, <2>2 DEF UndoClaim, At
    <3>2. review' \in {review, Status(id, "PENDING")} /\ UNCHANGED <<question, cut>>
      BY <2>9 DEF UndoClaim
    <3> QED
      BY <1>1, <1>5, <2>3, <3>1, <3>2
  <2>10. CASE ScanQueue(w)
    <3>1. PICK others \in InOrder(worker[w].found) :
            review' \in {review, Paired(w, others)} /\ UNCHANGED <<question, cut>>
      BY <2>10 DEF ScanQueue, Tries, Paired, ghostVars
    <3> QED
      BY <1>1, <1>5, <3>1, PairedOK
  <2> QED
    BY <1>7, <2>1, <2>4, <2>5, <2>6, <2>7, <2>8, <2>9, <2>10 DEF WorkerNext
<1>8. CASE Crash
  <2>1. ASSUME NEW w \in Worker, worker[w].pc \in {"make", "putBack"} PROVE RowOf(w) \subseteq Row
    BY <2>1, WorkerFacts
  <2>2. UNCHANGED <<question, review>> /\ cut \subseteq cut' /\ cut' \subseteq Row
    BY <1>8, <2>1, <1>1 DEF Crash
  <2> QED
    BY <1>2, <2>2
<1>9. CASE UNCHANGED vars
  BY <1>5, <1>9 DEF vars, ghostVars
<1> QED
  BY <1>6, <1>7, <1>8, <1>9 DEF Next

-----------------------------------------------------------------------------
(* So is what the uploads know. *)

LEMMA NextLengths ==
  ASSUME IInv, [Next]_vars
  PROVE  /\ Len(question) \in Nat /\ DOMAIN question = 1..Len(question) /\ Len(question') \in Nat
         /\ Len(review) \in Nat /\ DOMAIN review = 1..Len(review) /\ Len(review') \in Nat
         /\ Tables(question', review', cut')
         /\ Older(question, review, cut, question', review', cut')
<1>1. Tables(question, review, cut) /\ Tables(question', review', cut') /\ Older(question, review, cut, question', review', cut')
  BY TablesStep DEF IInv
<1> QED
  BY <1>1, Lengths

LEMMA JobGo ==
  ASSUME NEW q, NEW r, NEW j, JobOK(j, q, r), NEW pc \in JobStep,
         pc \in {"link", "make", "drop"} => j.links # <<>>,
         pc = "drop" => Has(r[Head(j.links)].row, q)
  PROVE  JobOK([j EXCEPT !.pc = pc], q, r)
BY DEF JobOK, Job

LEMMA JobNext ==
  ASSUME NEW q, NEW r, NEW j, JobOK(j, q, r), j.links # <<>>
  PROVE  JobOK([j EXCEPT !.pc = "find", !.links = Tail(@)], q, r)
<1>1. j.links \in Seq(Nat)
  BY DEF JobOK, Job
<1>2. /\ Tail(j.links) \in Seq(Nat) /\ Len(Tail(j.links)) = Len(j.links) - 1 /\ Len(j.links) \in Nat
      /\ \A k \in 1..Len(Tail(j.links)) : Tail(j.links)[k] = j.links[k + 1]
  BY <1>1, HeadTailProperties, LenProperties
<1>3. \A k \in 1..Len(Tail(j.links)) : Tail(j.links)[k] \in 1..Len(r) /\ r[Tail(j.links)[k]].row # NoRow
  BY <1>2 DEF JobOK
<1> DEFINE n == [j EXCEPT !.pc = "find", !.links = Tail(@)]
<1>4. n.pc = "find" /\ n.links = Tail(j.links) /\ n.old = j.old /\ n \in Job
  BY <1>2 DEF JobOK, Job, JobStep
<1> HIDE DEF n
<1>5. JobOK(n, q, r)
  BY <1>3, <1>4 DEF JobOK
<1> QED
  BY <1>5 DEF n

LEMMA JobsMove ==
  ASSUME IInv, [Next]_vars, job' = [u \in Upload |-> job'[u]],
         \A u \in Upload : job'[u] = job[u] \/ JobOK(job'[u], question', review')
  PROVE  Jobs'
<1>1. ASSUME NEW u \in Upload PROVE JobOK(job'[u], question', review')
  <2>1. JobOK(job[u], question, review)
    BY DEF IInv, Jobs
  <2>2. JobOK(job[u], question', review')
    BY <2>1, NextLengths, JobOlder
  <2> QED
    BY <2>2
<1>2. \A u \in Upload : job'[u] \in Job
  BY <1>1 DEF JobOK
<1>3. job' \in [Upload -> Job]
  BY <1>2
<1> QED
  BY <1>1, <1>3 DEF Jobs

LEMMA JobsStep ==
  ASSUME IInv, [Next]_vars
  PROVE  Jobs'
<1>1. job \in [Upload -> Job]
  BY DEF IInv, Jobs
<1>2. CASE UNCHANGED job
  BY <1>1, <1>2, JobsMove
<1>3. ASSUME NEW u \in Upload, UploadNext(u) PROVE Jobs'
  <2>1. /\ JobOK(job[u], question', review') /\ job[u].old \in 0..Len(question) /\ job[u] \in Job
    BY JobFacts, NextLengths, JobOlder
  <2>2. ASSUME NEW j, JobOK(j, question', review'), job' = [job EXCEPT ![u] = j] PROVE Jobs'
    BY <1>1, <2>2, JobsMove
  <2>3. ASSUME NEW pc \in JobStep, JobGoes(u, pc), pc \in {"link", "make", "drop"} => job[u].links # <<>>,
               pc = "drop" => Has(review'[Head(job[u].links)].row, question')
        PROVE  Jobs'
    <3>1. job' = [job EXCEPT ![u] = [job[u] EXCEPT !.pc = pc]]
      BY <1>1, <2>3 DEF JobGoes
    <3>2. JobOK([job[u] EXCEPT !.pc = pc], question', review')
      BY <2>1, <2>3, JobGo
    <3> QED
      BY <2>2, <3>1, <3>2
  <2>4. ASSUME NextLink(u), job[u].links # <<>> PROVE Jobs'
    <3>1. job' = [job EXCEPT ![u] = [job[u] EXCEPT !.pc = "find", !.links = Tail(@)]]
      BY <1>1, <2>4 DEF NextLink
    <3>2. JobOK([job[u] EXCEPT !.pc = "find", !.links = Tail(@)], question', review')
      BY <2>1, <2>4, JobNext
    <3> QED
      BY <2>2, <3>1, <3>2
  <2>5. ASSUME NEW pc \in {"prior", "link"}, NEW q \in Live, UNCHANGED question, pc = "link" => job[u].links # <<>>,
               job' = [job EXCEPT ![u] = [@ EXCEPT !.pc = pc, !.old = q]]
        PROVE  Jobs'
    <3>1. q \in 1..Len(question) /\ q \in Nat
      BY NextLengths DEF Live
    <3> DEFINE j == [job[u] EXCEPT !.pc = pc, !.old = q]
    <3>2. /\ j \in Job /\ j.pc = pc /\ j.old = q /\ j.links = job[u].links
      BY <2>1, <3>1 DEF Job, JobStep
    <3>3. job' = [job EXCEPT ![u] = j]
      BY <1>1, <2>5
    <3> HIDE DEF j
    <3>4. q \in 0..Len(question')
      BY <2>5, <3>1, NextLengths
    <3>5. JobOK(j, question', review')
      BY <2>1, <2>5, <3>2, <3>4 DEF JobOK
    <3> QED
      BY <2>2, <3>3, <3>5
  <2>6. CASE Index(u)
    <3>1. CASE \E q \in Live : job' = [job EXCEPT ![u] = [@ EXCEPT !.pc = "prior", !.old = q]]
      BY <2>5, <2>6, <3>1 DEF Index
    <3>2. CASE JobGoes(u, "inFile") \/ JobGoes(u, "done")
      BY <2>3, <3>2 DEF JobStep
    <3> QED
      BY <2>6, <3>1, <3>2 DEF Index
  <2>7. CASE ReadPrior(u)
    BY <2>3, <2>7 DEF ReadPrior, JobStep
  <2>8. CASE QueueMany(u) \/ QueueEach(u)
    BY <2>3, <2>8 DEF QueueMany, QueueEach, JobStep
  <2>9. CASE QueueInFile(u)
    <3>1. PICK i \in Waiting(u) :
            \/ review' = Queued(u, <<i>>) /\ job' = [job EXCEPT ![u].links = Append(@, Len(review'))]
            \/ UNCHANGED job
      BY <2>9 DEF QueueInFile, Oldest
    <3>2. JobAt(u, "inFile")
      BY <2>9 DEF QueueInFile
    <3> DEFINE n == Len(review')
    <3>3. ASSUME review' = Queued(u, <<i>>), job' = [job EXCEPT ![u].links = Append(@, n)]
          PROVE  Jobs'
      <4>1. n \in 1..Len(review') /\ review'[n].row # NoRow
        <5>1. <<i>> \in Seq(DOMAIN Sheet[u]) /\ Len(<<i>>) = 1 /\ <<i>>[1] = i /\ i \in DOMAIN Sheet[u]
          BY OneRow DEF Waiting
        <5>2. Len(review') = Len(review) + 1 /\ review'[Len(review) + 1] = Pair(<<u, i>>, job[u].old, 0)
          <6>1. /\ Len(Queued(u, <<i>>)) = Len(review) + Len(<<i>>)
                /\ \A k \in 1..Len(<<i>>) : Queued(u, <<i>>)[Len(review) + k] = Pair(<<u, <<i>>[k]>>, job[u].old, 0)
            BY <5>1, QueuedOK
          <6>2. 1 \in 1..Len(<<i>>)
            BY <5>1
          <6> QED
            BY <3>3, <5>1, <6>1, <6>2
        <5>3. Pair(<<u, i>>, job[u].old, 0).row = <<u, i>> /\ <<u, i>> # NoRow
          BY <5>1, RowOK DEF Pair
        <5> QED
          BY <5>2, <5>3, NextLengths
      <4> HIDE DEF n
      <4>2. job[u].links \in Seq(Nat) /\ Len(job[u].links) \in Nat /\ n \in Nat
        BY <2>1, <4>1, LenProperties, NextLengths DEF Job
      <4>3. /\ Append(job[u].links, n) \in Seq(Nat) /\ Len(Append(job[u].links, n)) = Len(job[u].links) + 1
            /\ \A k \in 1..Len(job[u].links) : Append(job[u].links, n)[k] = job[u].links[k]
            /\ Append(job[u].links, n)[Len(job[u].links) + 1] = n
        BY <4>2, AppendProperties
      <4>4. PICK j : j = [job[u] EXCEPT !.links = Append(job[u].links, n)]
        OBVIOUS
      <4>5. j \in Job /\ j.pc = "inFile" /\ j.old = job[u].old /\ j.links = Append(job[u].links, n)
        BY <2>1, <3>2, <4>3, <4>4 DEF Job, JobAt
      <4>6. ASSUME NEW k \in 1..Len(j.links) PROVE j.links[k] \in 1..Len(review') /\ review'[j.links[k]].row # NoRow
        <5>1. k \in 1..Len(job[u].links) \/ k = Len(job[u].links) + 1
          BY <4>2, <4>3, <4>5
        <5> QED
          BY <2>1, <4>1, <4>3, <4>5, <5>1 DEF JobOK
      <4>7. JobOK(j, question', review')
        BY <2>1, <4>5, <4>6 DEF JobOK
      <4>8. job' = [job EXCEPT ![u] = j]
        BY <1>1, <3>3, <4>4
      <4> QED
        BY <2>2, <4>7, <4>8
    <3> QED
      BY <1>2, <3>1, <3>3
  <2>10. CASE Commit(u) \/ CommitSingle(u)
    BY <2>3, <2>10 DEF Commit, CommitSingle, JobStep
  <2>11. CASE LinkFind(u)
    <3>1. \/ JobGoes(u, "done")
          \/ /\ job[u].links # <<>> /\ UNCHANGED question
             /\ \E q \in Live : job' = [job EXCEPT ![u] = [@ EXCEPT !.pc = "link", !.old = q]]
          \/ job[u].links # <<>> /\ JobGoes(u, "make")
          \/ job[u].links # <<>> /\ NextLink(u)
      BY <2>11 DEF LinkFind, Oldest
    <3> QED
      BY <2>3, <2>4, <2>5, <3>1 DEF JobStep
  <2>12. CASE LinkSet(u) \/ LinkDrop(u)
    <3>1. job[u].links # <<>> /\ NextLink(u)
      BY <2>12, JobFacts DEF LinkSet, LinkDrop
    <3> QED
      BY <2>4, <3>1
  <2>13. CASE LinkMake(u)
    <3>1. job[u].links # <<>> /\ Linked(u) = Head(job[u].links)
      BY <2>13, JobFacts DEF LinkMake, Linked
    <3>2. CASE NextLink(u)
      BY <2>4, <3>1, <3>2
    <3>3. CASE JobGoes(u, "drop") /\ question' = Saved(review[Linked(u)].row)
      <4>1. Has(review'[Head(job[u].links)].row, question')
        <5>1. review[Linked(u)].row \in Row /\ review' = review
          BY <2>13, JobFacts DEF LinkMake
        <5>2. question' = WithCopy(question, review[Linked(u)].row) /\ Tables(question, review, cut)
          BY <3>3 DEF Saved, WithCopy, IInv
        <5>3. Len(question') = Len(question) + 1 /\ question'[Len(question')].row = review[Linked(u)].row
          BY <5>1, <5>2, SavedOK
        <5> QED
          BY <3>1, <5>1, <5>3, NextLengths DEF Has
      <4> QED
        BY <2>3, <3>1, <3>3, <4>1 DEF JobStep
    <3> QED
      BY <2>13, <3>2, <3>3 DEF LinkMake
  <2> QED
    BY <1>3, <2>6, <2>7, <2>8, <2>9, <2>10, <2>11, <2>12, <2>13 DEF UploadNext
<1>4. ASSUME NEW w \in Worker, WorkerNext(w) PROVE UNCHANGED job
  BY <1>4 DEF WorkerNext, UndoRead, ResolveRead, ResolveClaim, Make, Hide, Remember, Publish, PutBack,
              UndoClaim, UndoHide, UndoRestore, Forget, ScanRows, ScanPrior, ScanQueue
<1>5. CASE Crash
  <2>1. NewJob \in Job /\ Len(NewJob.links) = 0 /\ NewJob.old = 0
    BY EmptySeq DEF NewJob, Job, JobStep
  <2>2. PICK dead : dead = [NewJob EXCEPT !.pc = "dead"]
    OBVIOUS
  <2>3. dead \in Job /\ Len(dead.links) = 0 /\ dead.old = 0 /\ dead.pc = "dead"
    BY <2>2, EmptySeq DEF NewJob, Job, JobStep
  <2>4. JobOK(dead, question', review')
    BY <2>3, NextLengths DEF JobOK
  <2>5. job' = [u \in Upload |-> job'[u]] /\ \A u \in Upload : job'[u] \in {job[u], dead}
    BY <1>5, <2>2 DEF Crash
  <2> QED
    BY <2>4, <2>5, JobsMove
<1>6. CASE UNCHANGED vars
  BY <1>2, <1>6 DEF vars
<1> QED
  BY <1>2, <1>3, <1>4, <1>5, <1>6 DEF Next

-----------------------------------------------------------------------------
(* And what the requests know. *)

Undoing == {"unclaim", "unhide", "restore", "forget", "putBack"}
Deciding == {"claim", "make", "hide", "remember"}

LEMMA WorkersMove ==
  ASSUME IInv, [Next]_vars, worker' = [w \in Worker |-> worker'[w]],
         \A w \in Worker : worker'[w] = worker[w] \/ WorkerOK(worker'[w], question', review', cut')
  PROVE  Workers'
<1>1. ASSUME NEW w \in Worker PROVE WorkerOK(worker'[w], question', review', cut')
  <2>1. WorkerOK(worker[w], question, review, cut)
    BY DEF IInv, Workers
  <2>2. WorkerOK(worker[w], question', review', cut')
    BY <2>1, NextLengths, WorkerOlder
  <2> QED
    BY <2>2
<1>2. \A w \in Worker : worker'[w] \in Request
  BY <1>1 DEF WorkerOK
<1>3. worker' \in [Worker -> Request]
  BY <1>2
<1> QED
  BY <1>1, <1>3 DEF Workers

LEMMA IdleOK ==
  ASSUME NEW q, NEW r, NEW c, Len(q) \in Nat, Len(r) \in Nat
  PROVE  WorkerOK(Idle, q, r, c)
BY DEF Idle, WorkerOK, Request, WorkerStep, Decision

LEMMA WorkerBecomes ==
  ASSUME IInv, [Next]_vars, NEW w \in Worker, NEW x, Become(w, x), WorkerOK(x, question', review', cut')
  PROVE  Workers'
<1>1. worker \in [Worker -> Request]
  BY DEF IInv, Workers
<1> QED
  BY <1>1, WorkersMove DEF Become

\* A request goes on to another statement with what it knows.
LEMMA WorkerGoes ==
  ASSUME IInv, [Next]_vars, NEW w \in Worker, NEW pc \in WorkerStep, GoTo(w, pc), pc \notin {"prior", "queue"},
         pc # "idle" => worker[w].pc \notin {"idle", "prior", "queue"},
         pc \in {"claim", "make", "hide"} => worker[w].was = "PENDING",
         pc \in {"make", "remember"} => Of(w).row # NoRow,
         pc \in Deciding => worker[w].pc \in Deciding,
         pc \in Undoing => worker[w].pc \in Undoing \/ worker[w].was = "PENDING"
  PROVE  Workers'
<1>1. CASE pc = "idle"
  <2>1. WorkerOK(Idle, question', review', cut')
    BY NextLengths, IdleOK
  <2> QED
    BY <1>1, <2>1, WorkerBecomes DEF GoTo
<1>2. CASE pc # "idle"
  <2>1. /\ WorkerOK(worker[w], question, review, cut) /\ worker[w].id \in 1..Len(review)
        /\ Of(w) = review[worker[w].id] /\ worker[w] \in Request
    BY <1>2, WorkerFacts
  <2>2. WorkerOK(worker[w], question', review', cut')
    BY <2>1, NextLengths, WorkerOlder
  <2>3. review'[worker[w].id].row = Of(w).row
    BY <2>1, NextLengths DEF Older
  <2>4. PICK x : x = [worker[w] EXCEPT !.pc = pc]
    OBVIOUS
  <2>5. /\ x \in Request /\ x.pc = pc /\ x.id = worker[w].id /\ x.was = worker[w].was
        /\ x.old = worker[w].old /\ x.made = worker[w].made /\ x.found = worker[w].found
    BY <2>1, <2>4 DEF Request
  <2>6. WorkerOK(x, question', review', cut')
    BY <1>2, <2>1, <2>2, <2>3, <2>5 DEF WorkerOK, Undoing, Deciding
  <2> QED
    BY <1>2, <2>4, <2>6, WorkerBecomes DEF GoTo
<1> QED
  BY <1>1, <1>2

LEMMA ResolveReadWorkers ==
  ASSUME IInv, [Next]_vars, NEW w \in Worker, NEW i \in DOMAIN review, NEW act \in Decision, ResolveRead(w, i, act)
  PROVE  Workers'
<1>1. i \in 1..Len(review) /\ review[i] \in Review /\ review[i].old \in 0..Len(question) /\ UNCHANGED <<question, review>>
  BY Lengths DEF IInv, Tables, ReviewOK, ResolveRead
<1>2. PICK x : x = [Idle EXCEPT !.pc = "claim", !.id = i, !.act = act, !.old = review[i].old]
  OBVIOUS
<1>3. /\ x \in Request /\ x.pc = "claim" /\ x.id = i /\ x.was = "PENDING" /\ x.old = review[i].old
      /\ x.made = 0 /\ x.found = {}
  <2>1. x = [pc |-> "claim", id |-> i, act |-> act, was |-> "PENDING", old |-> review[i].old, made |-> 0, found |-> {}]
    BY <1>2 DEF Idle
  <2>2. i \in Nat /\ review[i].old \in Nat
    BY <1>1, NextLengths
  <2> QED
    BY <2>1, <2>2 DEF Request, WorkerStep
<1>4. WorkerOK(x, question', review', cut')
  BY <1>1, <1>3, NextLengths DEF WorkerOK
<1> QED
  BY <1>2, <1>4, WorkerBecomes DEF ResolveRead

LEMMA UndoReadWorkers ==
  ASSUME IInv, [Next]_vars, NEW w \in Worker, NEW i \in DOMAIN review, UndoRead(w, i)
  PROVE  Workers'
<1>1. /\ i \in 1..Len(review) /\ review[i] \in Review /\ ReviewOK(review[i], question)
      /\ UNCHANGED <<question, review>> /\ review[i].status \in Decision
  BY Lengths DEF IInv, Tables, UndoRead, Decided
<1>2. PICK q \in Created(i) :
        /\ Become(w, [Idle EXCEPT !.pc = "unclaim", !.id = i, !.was = review[i].status,
                                  !.made = q, !.old = Restored(i)])
        /\ cut' = IF q # 0 /\ question[q].row # review[i].row THEN cut \cup {review[i].row} ELSE cut
  BY DEF UndoRead
<1>3. q \in 0..Len(question) /\ Restored(i) \in 0..Len(question)
  BY <1>1, <1>2, NextLengths DEF Created, Restored, ReviewOK
<1>4. PICK x : x = [Idle EXCEPT !.pc = "unclaim", !.id = i, !.was = review[i].status, !.made = q, !.old = Restored(i)]
  OBVIOUS
<1>5. /\ x \in Request /\ x.pc = "unclaim" /\ x.id = i /\ x.was = review[i].status /\ x.old = Restored(i)
      /\ x.made = q /\ x.found = {}
  <2>1. x = [pc |-> "unclaim", id |-> i, act |-> "KEPT_BOTH", was |-> review[i].status, old |-> Restored(i),
             made |-> q, found |-> {}]
    BY <1>4 DEF Idle
  <2>2. i \in Nat /\ q \in Nat /\ Restored(i) \in Nat
    BY <1>1, <1>3, NextLengths
  <2> QED
    BY <1>1, <2>1, <2>2 DEF Request, WorkerStep, Decision
<1>6. ASSUME review[i].status \in {"KEPT_NEW", "KEPT_BOTH"}, review[i].row # NoRow
      PROVE  Has(review[i].row, question) \/ review[i].row \in cut'
  <2>1. q # 0 /\ q \in 1..Len(question)
    BY <1>2, <1>3, <1>6, <1>1, NextLengths DEF Created, FromSheet
  <2>2. CASE question[q].row = review[i].row
    BY <2>1, <2>2 DEF Has
  <2>3. CASE question[q].row # review[i].row
    BY <1>2, <2>1, <2>3
  <2> QED
    BY <2>2, <2>3
<1>7. WorkerOK(x, question', review', cut')
  BY <1>1, <1>3, <1>5, <1>6, NextLengths DEF WorkerOK
<1> QED
  BY <1>2, <1>4, <1>7, WorkerBecomes

LEMMA MakeWorkers ==
  ASSUME IInv, [Next]_vars, NEW w \in Worker, Make(w)
  PROVE  Workers'
<1>1. /\ WorkerOK(worker[w], question, review, cut) /\ worker[w].id \in 1..Len(review) /\ worker[w].pc = "make"
      /\ Of(w) = review[worker[w].id] /\ Of(w).row \in Row /\ worker[w] \in Request /\ UNCHANGED review
  BY WorkerFacts DEF Make, At, WorkerOK, Review
<1>2. CASE GoTo(w, "putBack")
  BY <1>1, <1>2, WorkerGoes DEF WorkerOK, Undoing, Deciding, WorkerStep
<1>3. ASSUME NEW next \in {"hide", "remember"}, question' = Saved(Of(w).row),
             Become(w, [worker[w] EXCEPT !.pc = next, !.made = Len(Saved(Of(w).row))])
      PROVE  Workers'
  <2>1. question' = WithCopy(question, Of(w).row) /\ Tables(question, review, cut)
    BY <1>3 DEF Saved, WithCopy, IInv
  <2>2. Len(question') = Len(question) + 1 /\ question'[Len(question')].row = Of(w).row
    BY <1>1, <2>1, SavedOK
  <2>3. PICK x : x = [worker[w] EXCEPT !.pc = next, !.made = Len(Saved(Of(w).row))]
    OBVIOUS
  <2>4. /\ x \in Request /\ x.pc = next /\ x.id = worker[w].id /\ x.was = worker[w].was
        /\ x.old = worker[w].old /\ x.made = Len(question') /\ x.found = worker[w].found
    BY <1>1, <1>3, <2>3, NextLengths DEF Request, WorkerStep
  <2>5. WorkerOK(x, question', review', cut')
    BY <1>1, <2>2, <2>4, RowOK, NextLengths DEF WorkerOK
  <2> QED
    BY <1>3, <2>3, <2>5, WorkerBecomes
<1> QED
  BY <1>2, <1>3 DEF Make

LEMMA ScanWorkers ==
  ASSUME IInv, [Next]_vars, NEW w \in Worker, ScanRows(w) \/ ScanPrior(w)
  PROVE  Workers'
<1>1. UNCHANGED <<question, review>>
  BY DEF ScanRows, ScanPrior
<1>2. CASE ScanRows(w)
  <2>1. PICK x : x = [Idle EXCEPT !.pc = "prior", !.found = Live]
    OBVIOUS
  <2>2. Live \subseteq 1..Len(question) /\ Live \subseteq Nat
    BY NextLengths DEF Live
  <2>3. /\ x \in Request /\ x.pc = "prior" /\ x.id = 0 /\ x.was = "PENDING" /\ x.old = 0 /\ x.made = 0 /\ x.found = Live
    BY <2>1, <2>2 DEF Idle, Request, WorkerStep, Decision
  <2>4. WorkerOK(x, question', review', cut')
    BY <1>1, <2>2, <2>3, NextLengths DEF WorkerOK
  <2> QED
    BY <1>2, <2>1, <2>4, WorkerBecomes DEF ScanRows
<1>3. CASE ScanPrior(w)
  <2>1. PICK base \in worker[w].found, pairs \in SUBSET worker[w].found :
          Become(w, IF pairs = {} THEN Idle ELSE [worker[w] EXCEPT !.pc = "queue", !.old = base, !.found = pairs])
    BY <1>3 DEF ScanPrior, Oldest
  <2>2. CASE pairs = {}
    <3>1. WorkerOK(Idle, question', review', cut')
      BY NextLengths, IdleOK
    <3> QED
      BY <2>1, <2>2, <3>1, WorkerBecomes
  <2>3. CASE pairs # {}
    <3>1. WorkerOK(worker[w], question, review, cut) /\ worker[w] \in Request
      BY WorkerFacts
    <3>2. PICK x : x = [worker[w] EXCEPT !.pc = "queue", !.old = base, !.found = pairs]
      OBVIOUS
    <3>3. base \in 1..Len(question) /\ base \in Nat /\ pairs \subseteq 1..Len(question) /\ pairs \subseteq Nat
      BY <2>1, <3>1, NextLengths DEF WorkerOK
    <3>4. /\ x \in Request /\ x.pc = "queue" /\ x.id = worker[w].id /\ x.was = worker[w].was
          /\ x.old = base /\ x.made = worker[w].made /\ x.found = pairs
      BY <3>1, <3>2, <3>3 DEF Request, WorkerStep
    <3>5. WorkerOK(x, question', review', cut')
      BY <1>1, <3>1, <3>3, <3>4, NextLengths DEF WorkerOK
    <3> QED
      BY <2>1, <2>3, <3>2, <3>5, WorkerBecomes
  <2> QED
    BY <2>2, <2>3
<1> QED
  BY <1>2, <1>3

LEMMA WorkersStep ==
  ASSUME IInv, [Next]_vars
  PROVE  Workers'
<1>1. worker \in [Worker -> Request]
  BY DEF IInv, Workers
<1>2. CASE UNCHANGED worker
  BY <1>1, <1>2, WorkersMove
<1>3. ASSUME NEW u \in Upload, UploadNext(u) PROVE UNCHANGED worker
  BY <1>3 DEF UploadNext, Index, ReadPrior, QueueMany, QueueEach, QueueInFile, Commit, CommitSingle,
              LinkFind, LinkSet, LinkMake, LinkDrop
<1>4. ASSUME NEW w \in Worker, WorkerNext(w) PROVE Workers'
  <2> USE DEF Undoing, Deciding
  <2>1. ASSUME GoTo(w, "idle") PROVE Workers'
    BY <2>1, WorkerGoes DEF WorkerStep
  <2>2. worker[w].pc \in {"claim", "make", "hide"} => worker[w].was = "PENDING"
    BY WorkerFacts DEF WorkerOK
  <2>4. CASE ResolveClaim(w)
    <3>1. \/ GoTo(w, "idle")
          \/ Of(w).row # NoRow /\ GoTo(w, "make")
          \/ GoTo(w, "hide")
      BY <2>4 DEF ResolveClaim, FromSheet, Of
    <3> QED
      BY <2>1, <2>2, <2>4, <3>1, WorkerGoes DEF ResolveClaim, At, WorkerStep
  <2>5. CASE Hide(w)
    <3>1. \/ Of(w).row # NoRow /\ GoTo(w, "remember")
          \/ GoTo(w, "publish")
          \/ GoTo(w, "putBack")
      BY <2>5 DEF Hide, Tries, FromSheet, Of
    <3> QED
      BY <2>2, <2>5, <3>1, WorkerGoes DEF Hide, At, WorkerStep
  <2>6. CASE Remember(w) \/ Publish(w) \/ PutBack(w) \/ Forget(w) \/ ScanQueue(w)
    BY <2>1, <2>6 DEF Remember, Publish, PutBack, Forget, ScanQueue, Tries
  <2>7. CASE UndoClaim(w) \/ UndoHide(w) \/ UndoRestore(w)
    <3>1. GoTo(w, "idle") \/ GoTo(w, "unhide") \/ GoTo(w, "restore") \/ GoTo(w, "forget") \/ GoTo(w, "putBack")
      BY <2>7 DEF UndoClaim, UndoHide, UndoRestore, Tries, ThenHide, ThenRestore, ThenForget
    <3> QED
      BY <2>1, <2>7, <3>1, WorkerGoes DEF UndoClaim, UndoHide, UndoRestore, At, WorkerStep
  <2> QED
    BY <1>4, <2>4, <2>5, <2>6, <2>7, ResolveReadWorkers, UndoReadWorkers, MakeWorkers, ScanWorkers DEF WorkerNext
<1>5. CASE Crash
  <2>1. worker' = [w \in Worker |-> Idle] /\ WorkerOK(Idle, question', review', cut')
    BY <1>5, NextLengths, IdleOK DEF Crash
  <2> QED
    BY <2>1, WorkersMove
<1>6. CASE UNCHANGED vars
  BY <1>2, <1>6 DEF vars
<1> QED
  BY <1>2, <1>3, <1>4, <1>5, <1>6 DEF Next

-----------------------------------------------------------------------------
(* The reports and the bounds; type correctness. *)

LEMMA Reported ==
  ASSUME Outcomes, NEW u \in Upload, NEW rows, NEW what \in Outcome, Report(u, rows, what)
  PROVE  /\ Outcomes'
         /\ \A v \in Upload : \A i \in DOMAIN Sheet[v] :
              outcome'[v][i] = IF v = u /\ i \in rows THEN what ELSE outcome[v][i]
<1>1. outcome = [v \in Upload |-> outcome[v]] /\ \A v \in Upload : outcome[v] \in [DOMAIN Sheet[v] -> Outcome]
  BY DEF Outcomes
<1>2. PICK f : f = [i \in DOMAIN outcome[u] |-> IF i \in rows THEN what ELSE outcome[u][i]]
  OBVIOUS
<1>3. f \in [DOMAIN Sheet[u] -> Outcome] /\ \A i \in DOMAIN Sheet[u] : f[i] = IF i \in rows THEN what ELSE outcome[u][i]
  BY <1>1, <1>2
<1>4. outcome' = [outcome EXCEPT ![u] = f]
  BY <1>2 DEF Report
<1>5. outcome' = [v \in Upload |-> IF v = u THEN f ELSE outcome[v]]
  BY <1>1, <1>4
<1>6. outcome' = [v \in Upload |-> outcome'[v]]
  BY <1>5
<1>7. \A v \in Upload : outcome'[v] \in [DOMAIN Sheet[v] -> Outcome]
  BY <1>1, <1>3, <1>5
<1> QED
  BY <1>3, <1>5, <1>6, <1>7 DEF Outcomes

LEMMA OutcomesStep ==
  ASSUME IInv, [Next]_vars
  PROVE  Outcomes'
<1>1. Outcomes
  BY DEF IInv
<1>2. ASSUME UNCHANGED outcome PROVE Outcomes'
  BY <1>1, <1>2 DEF Outcomes
<1>3. ASSUME NEW u \in Upload, UploadNext(u) PROVE Outcomes'
  <2>1. \/ UNCHANGED outcome
        \/ \E rows : \E what \in Outcome : Report(u, rows, what)
    BY <1>3 DEF UploadNext, Index, ReadPrior, QueueMany, QueueEach, QueueInFile, Commit, CommitSingle,
                LinkFind, LinkSet, LinkMake, LinkDrop, Outcome
  <2> QED
    BY <1>1, <1>2, <2>1, Reported
<1>4. ASSUME NEW w \in Worker, WorkerNext(w) PROVE UNCHANGED outcome
  BY <1>4 DEF WorkerNext, UndoRead, ResolveRead, ResolveClaim, Make, Hide, Remember, Publish, PutBack,
              UndoClaim, UndoHide, UndoRestore, Forget, ScanRows, ScanPrior, ScanQueue
<1> QED
  BY <1>2, <1>3, <1>4 DEF Next, Crash, vars

LEMMA CountersStep ==
  ASSUME IInv, [Next]_vars
  PROVE  Counters'
<1>1. /\ calls \in 0..MaxEvents /\ faults \in 0..MaxEvents /\ MaxEvents \in Nat
      /\ crossed \in BOOLEAN /\ stale \in BOOLEAN
  BY DuplicateAssumption DEF IInv, Counters
<1> DEFINE Counted == (calls' = calls \/ Call) /\ (faults' = faults \/ Fault)
<1>2. Counted /\ crossed' \in BOOLEAN /\ stale' \in BOOLEAN
  <2>1. ASSUME NEW u \in Upload, UploadNext(u) PROVE Counted /\ crossed' \in BOOLEAN /\ stale' \in BOOLEAN
    BY <1>1, <2>1 DEF UploadNext, Index, ReadPrior, QueueMany, QueueEach, QueueInFile, Commit, CommitSingle,
                      LinkFind, LinkSet, LinkMake, LinkDrop, ghostVars
  <2>2. ASSUME NEW w \in Worker, WorkerNext(w) PROVE Counted
    BY <2>2 DEF WorkerNext, UndoRead, ResolveRead, ResolveClaim, Make, Hide, Remember, Publish, PutBack,
                UndoClaim, UndoHide, UndoRestore, Forget, ScanRows, ScanPrior, ScanQueue, Tries
  <2>3. ASSUME NEW w \in Worker, WorkerNext(w) PROVE crossed' \in BOOLEAN /\ stale' \in BOOLEAN
    BY <1>1, <2>3 DEF WorkerNext, UndoRead, ResolveRead, ResolveClaim, Make, Hide, Remember, Publish, PutBack,
                UndoClaim, UndoHide, UndoRestore, Forget, ScanRows, ScanPrior, ScanQueue, ghostVars
  <2>4. CASE Crash
    BY <1>1, <2>4 DEF Crash
  <2>5. CASE UNCHANGED vars
    BY <1>1, <2>5 DEF vars, ghostVars
  <2> QED
    BY <2>1, <2>2, <2>3, <2>4, <2>5 DEF Next
<1>3. calls' \in 0..MaxEvents /\ faults' \in 0..MaxEvents
  BY <1>1, <1>2 DEF Call, Fault
<1> QED
  BY <1>2, <1>3 DEF Counters

LEMMA Inductive == IInv /\ [Next]_vars => IInv'
BY TablesStep, JobsStep, WorkersStep, OutcomesStep, CountersStep DEF IInv

LEMMA Typed == IInv => TypeOK
<1> SUFFICES ASSUME IInv PROVE TypeOK
  OBVIOUS
<1>1. /\ Tables(question, review, cut)
      /\ Len(question) \in Nat /\ DOMAIN question = 1..Len(question)
      /\ Len(review) \in Nat /\ DOMAIN review = 1..Len(review)
  BY Lengths DEF IInv
<1>2. RowsOK /\ cut \subseteq Row
  BY <1>1 DEF RowsOK, Tables, ReviewOK, Id
<1>3. JobsOK
  <2>1. \A u \in Upload : job[u].old \in Id(question)
    BY <1>1 DEF IInv, Jobs, JobOK, Id
  <2>2. ASSUME NEW u \in Upload PROVE DOMAIN job[u].links = 1..Len(job[u].links)
    <3>1. job[u].links \in Seq(Nat)
      BY DEF IInv, Jobs, Job
    <3> QED
      BY <3>1, LenProperties
  <2>3. \A u \in Upload : \A k \in DOMAIN job[u].links : job[u].links[k] \in DOMAIN review
    BY <1>1, <2>2 DEF IInv, Jobs, JobOK
  <2> QED
    BY <2>1, <2>3 DEF JobsOK, IInv, Jobs, Outcomes
<1>4. WorkersOK
  BY <1>1 DEF WorkersOK, IInv, Workers, WorkerOK, Id
<1> QED
  BY <1>2, <1>3, <1>4 DEF TypeOK, IInv, Counters

\* The tables, the uploads and the requests stay well typed, and what they refer
\* to exists, whatever runs at the same time, fails or is lost.
THEOREM TypeCorrect == Spec => []TypeOK
<1>1. Init => IInv
  BY InitOK
<1>2. IInv /\ [Next]_vars => IInv'
  BY Inductive
<1>3. IInv => TypeOK
  BY Typed
<1> QED
  BY <1>1, <1>2, <1>3, PTL DEF Spec

-----------------------------------------------------------------------------
(* No row is lost.  Every row that is kept stays kept: each step that takes  *)
(* away one of the reasons leaves another.                                   *)

Open == {"PENDING", "KEPT_EXISTING"}
Saving == {"make", "putBack"}

\* A row is a question, or its decision was cut off: that is for good.
Settled(row) == Has(row, question) \/ row \in cut
Waits(row) == \E i \in 1..Len(review) : review[i].row = row /\ review[i].status \in Open
Held(row) == \E w \in Worker : worker[w].pc \in Saving /\ review[worker[w].id].row = row

LEMMA KeptIs ==
  ASSUME IInv, NEW rows
  PROVE  Kept(rows) <=> \E row \in rows : Settled(row) \/ Waits(row) \/ Held(row)
<1>1. DOMAIN question = 1..Len(question) /\ DOMAIN review = 1..Len(review)
  BY NextLengths, Lengths DEF IInv
<1>2. (\E q \in DOMAIN question : question[q].row \in rows) <=> \E row \in rows : Has(row, question)
  BY <1>1 DEF Has
<1>3. (\E r \in Range(review) : r.row \in rows /\ r.status \in Open) <=> \E row \in rows : Waits(row)
  BY <1>1 DEF Waits, Range
<1>4. (\E w \in Worker : worker[w].pc \in Saving /\ Of(w).row \in rows) <=> \E row \in rows : Held(row)
  BY DEF Held, Of
<1>5. cut \cap rows # {} <=> \E row \in rows : row \in cut
  OBVIOUS
<1> QED
  BY <1>2, <1>3, <1>4, <1>5 DEF Kept, Settled, Open, Saving

LEMMA KeptAgain ==
  ASSUME IInv, [Next]_vars, NEW rows, NEW row \in rows, Settled(row)' \/ Waits(row)' \/ Held(row)'
  PROVE  Kept(rows)'
<1>1. DOMAIN question' = 1..Len(question') /\ DOMAIN review' = 1..Len(review')
  BY NextLengths, Lengths
<1>2. CASE Has(row, question')
  BY <1>1, <1>2 DEF Kept, Has
<1>3. CASE row \in cut'
  BY <1>3 DEF Kept
<1>4. CASE Waits(row)'
  BY <1>1, <1>4 DEF Kept, Waits, Range, Open
<1>5. CASE Held(row)'
  BY <1>5 DEF Kept, Held, Saving, Of
<1> QED
  BY <1>2, <1>3, <1>4, <1>5 DEF Settled

LEMMA SettledStays ==
  ASSUME IInv, [Next]_vars, NEW row, Settled(row)
  PROVE  Settled(row)'
<1>1. Has(row, question) => Has(row, question')
  BY NextLengths, HasOlder
<1>2. row \in cut => row \in cut'
  BY NextLengths DEF Older
<1> QED
  BY <1>1, <1>2 DEF Settled

\* Only a decision, the undo of one and the link loop change the status of a review.
LEMMA StatusStays ==
  ASSUME IInv, [Next]_vars, NEW i \in 1..Len(review), review'[i].status # review[i].status
  PROVE  \/ \E w \in Worker : worker[w].id = i /\ (ResolveClaim(w) \/ PutBack(w) \/ UndoClaim(w))
         \/ \E u \in Upload : LinkDrop(u) /\ Linked(u) = i
<1>1. /\ Tables(question, review, cut) /\ Len(question) \in Nat /\ Len(review) \in Nat
      /\ \A n \in 1..Len(review) : review[n] \in Review
      /\ DOMAIN review = 1..Len(review)
  BY Lengths DEF IInv
<1>2. ASSUME NEW u \in Upload, UploadNext(u) PROVE LinkDrop(u) /\ Linked(u) = i
  <2>1. CASE QueueMany(u)
    <3>1. PICK rows \in InOrder(Waiting(u)) : review' \in {review, Queued(u, rows)}
      BY <2>1 DEF QueueMany
    <3>2. rows \in Seq(DOMAIN Sheet[u])
      BY <3>1, WaitingOrdered
    <3>3. \A n \in 1..Len(review) : Queued(u, rows)[n] = review[n]
      BY <3>2, QueuedOK
    <3> QED
      BY <3>1, <3>3
  <2>2. CASE QueueEach(u) \/ QueueInFile(u)
    <3>1. PICK n \in Waiting(u) : review' \in {review, Queued(u, <<n>>)}
      BY <2>2 DEF QueueEach, QueueInFile, Oldest
    <3>2. \A k \in 1..Len(review) : Queued(u, <<n>>)[k] = review[k]
      BY OneRow, QueuedOK
    <3> QED
      BY <3>1, <3>2
  <2>3. CASE LinkSet(u)
    <3>1. Linked(u) \in 1..Len(review) /\ job[u].old \in 0..Len(question)
      BY <2>3, JobFacts DEF LinkSet
    <3>2. review' \in {review, WithOld(review, Linked(u), job[u].old)}
      BY <2>3 DEF LinkSet, WithOld
    <3> QED
      BY <1>1, <3>1, <3>2, LinkedOK
  <2>4. CASE LinkDrop(u)
    <3>1. Linked(u) \in 1..Len(review) /\ review[Linked(u)].row # NoRow /\ Has(review[Linked(u)].row, question)
      BY <2>4, JobFacts, RowOK DEF LinkDrop
    <3>2. review' \in {review, WithStatus(review, Linked(u), "gone")}
      BY <2>4 DEF LinkDrop, WithStatus
    <3>3. Linked(u) = i
      BY <1>1, <3>1, <3>2, DroppedOK
    <3> QED
      BY <2>4, <3>3
  <2>5. CASE Index(u) \/ ReadPrior(u) \/ Commit(u) \/ CommitSingle(u) \/ LinkFind(u) \/ LinkMake(u)
    BY <2>5 DEF Index, ReadPrior, Commit, CommitSingle, LinkFind, LinkMake
  <2> QED
    BY <1>2, <2>1, <2>2, <2>3, <2>4, <2>5 DEF UploadNext
<1>3. ASSUME NEW w \in Worker, WorkerNext(w)
      PROVE  worker[w].id = i /\ (ResolveClaim(w) \/ PutBack(w) \/ UndoClaim(w))
  <2>1. CASE Remember(w) \/ Forget(w)
    <3>1. worker[w].id \in 1..Len(review) /\ worker[w].pc \in {"remember", "forget"}
      BY <2>1, WorkerFacts DEF Remember, Forget, At
    <3>2. \/ UNCHANGED review
          \/ \E made : review' = WithMade(review, worker[w].id, made)
      BY <2>1 DEF Remember, Forget, Tries, WithMade
    <3> QED
      BY <1>1, <3>1, <3>2, MadeStatus
  <2>2. CASE ScanQueue(w)
    <3>1. PICK others \in InOrder(worker[w].found) : review' \in {review, Paired(w, others)}
      BY <2>2 DEF ScanQueue, Tries, Paired
    <3> QED
      BY <3>1, PairedOK
  <2>3. CASE ResolveClaim(w) \/ PutBack(w) \/ UndoClaim(w)
    <3>1. worker[w].id \in 1..Len(review)
      BY <2>3, WorkerFacts DEF ResolveClaim, PutBack, UndoClaim, At
    <3>2. \/ UNCHANGED review
          \/ \E status : review' = Status(worker[w].id, status)
      BY <2>3 DEF ResolveClaim, PutBack, UndoClaim
    <3>3. worker[w].id = i
      BY <1>1, <3>1, <3>2 DEF Status
    <3> QED
      BY <2>3, <3>3
  <2>4. CASE \/ \E n \in DOMAIN review : UndoRead(w, n) \/ \E act \in Decision : ResolveRead(w, n, act)
             \/ Make(w) \/ Hide(w) \/ Publish(w) \/ UndoHide(w) \/ UndoRestore(w) \/ ScanRows(w) \/ ScanPrior(w)
    BY <2>4 DEF UndoRead, ResolveRead, Make, Hide, Publish, UndoHide, UndoRestore, ScanRows, ScanPrior, Tries
  <2> QED
    BY <1>3, <2>1, <2>2, <2>3, <2>4 DEF WorkerNext
<1>4. CASE Crash \/ UNCHANGED vars
  BY <1>4 DEF Crash, vars
<1> QED
  BY <1>2, <1>3, <1>4 DEF Next

\* What takes a review off the queue keeps its row.
LEMMA WaitsStays ==
  ASSUME IInv, [Next]_vars, NEW row \in Row, Waits(row)
  PROVE  Settled(row)' \/ Waits(row)' \/ Held(row)'
<1>1. PICK i \in 1..Len(review) : review[i].row = row /\ review[i].status \in Open
  BY DEF Waits
<1>2. i \in 1..Len(review') /\ review'[i].row = row /\ review[i].row # NoRow
  BY <1>1, NextLengths, RowOK DEF Older
<1>3. CASE review'[i].status = review[i].status
  BY <1>1, <1>2, <1>3 DEF Waits
<1>4. ASSUME NEW w \in Worker, worker[w].id = i, ResolveClaim(w) PROVE Settled(row)' \/ Waits(row)' \/ Held(row)'
  <2>1. Of(w) = review[i] /\ FromSheet(i) /\ worker \in [Worker -> Request]
    BY <1>1, <1>2, <1>4 DEF Of, FromSheet, IInv, Workers
  <2>2. CASE ~Undecided(w)
    BY <1>1, <1>2, <1>4, <2>2 DEF ResolveClaim, Waits
  <2>3. CASE Undecided(w) /\ worker[w].act = "KEPT_EXISTING"
    <3>1. review' = Status(i, "KEPT_EXISTING")
      BY <1>4, <2>3 DEF ResolveClaim
    <3>2. review'[i].status = "KEPT_EXISTING"
      <4>1. review[i].status # "gone" /\ review[i] \in Review /\ DOMAIN review = 1..Len(review)
        BY <1>1, Lengths DEF Open, IInv
      <4> QED
        BY <3>1, <4>1, <1>1 DEF Status, Review
    <3> QED
      BY <1>2, <3>2 DEF Waits, Open
  <2>4. CASE Undecided(w) /\ worker[w].act # "KEPT_EXISTING" /\ GoTo(w, "make")
    <3>1. worker'[w].pc = "make" /\ worker'[w].id = i
      BY <1>4, <2>1, <2>4 DEF GoTo, Become, Request
    <3> QED
      BY <1>2, <3>1 DEF Held, Saving
  <2>5. CASE cut' = cut \cup {Of(w).row}
    BY <1>1, <2>1, <2>5 DEF Settled
  <2> QED
    BY <1>4, <2>1, <2>2, <2>3, <2>4, <2>5 DEF ResolveClaim
<1>5. ASSUME NEW w \in Worker, worker[w].id = i, UndoClaim(w) \/ PutBack(w)
      PROVE  Settled(row)' \/ Waits(row)' \/ Held(row)'
  <2>1. /\ review[i].status # "gone" /\ review[i] \in Review /\ DOMAIN review = 1..Len(review)
        /\ Of(w) = review[i] /\ worker[w] \in Request /\ WorkerOK(worker[w], question, review, cut)
    BY <1>1, <1>5, Lengths, WorkerFacts DEF Open, IInv, Of
  <2>2. ASSUME NEW s, review' = Status(i, s) PROVE review'[i].status = s
    BY <2>1, <2>2, <1>1 DEF Status, Review
  <2>3. CASE UNCHANGED review
    BY <1>1, <1>2, <2>3 DEF Waits
  <2>4. CASE review' = Status(i, "PENDING")
    BY <1>2, <2>2, <2>4 DEF Waits, Open
  <2>5. CASE PutBack(w) /\ review' = Status(i, worker[w].was)
    <3>1. CASE worker[w].was \in Open
      BY <1>2, <2>2, <2>5, <3>1 DEF Waits
    <3>2. CASE worker[w].was \notin Open
      <4>1. Has(review[i].row, question) \/ review[i].row \in cut
        BY <1>2, <1>5, <2>1, <2>5, <3>2 DEF WorkerOK, PutBack, At, Open, Request, Decision
      <4>2. Settled(row)
        BY <1>1, <4>1 DEF Settled
      <4> QED
        BY <4>2, SettledStays
    <3> QED
      BY <3>1, <3>2
  <2> QED
    BY <1>5, <2>3, <2>4, <2>5 DEF UndoClaim, PutBack
<1>6. ASSUME NEW u \in Upload, LinkDrop(u), Linked(u) = i PROVE Settled(row)'
  <2>1. Settled(row)
    BY <1>1, <1>6, JobFacts DEF LinkDrop, Settled
  <2> QED
    BY <2>1, SettledStays
<1> QED
  BY <1>3, <1>4, <1>5, <1>6, StatusStays

\* A request that holds a row saves it, gives it back or leaves it cut off.
LEMMA HeldStays ==
  ASSUME IInv, [Next]_vars, NEW row \in Row, Held(row)
  PROVE  Settled(row)' \/ Waits(row)' \/ Held(row)'
<1>1. PICK w \in Worker : worker[w].pc \in Saving /\ review[worker[w].id].row = row
  BY DEF Held
<1>2. /\ worker[w].id \in 1..Len(review) /\ Of(w) = review[worker[w].id] /\ worker[w] \in Request
      /\ ReviewOK(Of(w), question) /\ Of(w) \in Review /\ WorkerOK(worker[w], question, review, cut)
  BY <1>1, WorkerFacts DEF Saving
<1>3. worker[w].id \in 1..Len(review') /\ review'[worker[w].id].row = row /\ row # NoRow
  BY <1>1, <1>2, NextLengths, RowOK DEF Older
<1>4. CASE worker'[w] = worker[w]
  BY <1>1, <1>3, <1>4 DEF Held
<1>5. worker \in [Worker -> Request]
  BY DEF IInv, Workers
<1>6. ASSUME NEW u \in Upload, UploadNext(u) PROVE worker'[w] = worker[w]
  BY <1>6 DEF UploadNext, Index, ReadPrior, QueueMany, QueueEach, QueueInFile, Commit, CommitSingle,
              LinkFind, LinkSet, LinkMake, LinkDrop
<1>7. ASSUME NEW x \in Worker \ {w}, WorkerNext(x) PROVE worker'[w] = worker[w]
  <2>1. \E r : Become(x, r)
    BY <1>7 DEF WorkerNext, UndoRead, ResolveRead, ResolveClaim, Make, Hide, Remember, Publish, PutBack,
                UndoClaim, UndoHide, UndoRestore, Forget, ScanRows, ScanPrior, ScanQueue, Tries, GoTo
  <2> QED
    BY <1>5, <2>1 DEF Become
<1>8. ASSUME WorkerNext(w) PROVE Make(w) \/ PutBack(w)
  BY <1>1, <1>8 DEF WorkerNext, UndoRead, ResolveRead, ResolveClaim, Make, Hide, Remember, Publish, PutBack,
                UndoClaim, UndoHide, UndoRestore, Forget, ScanRows, ScanPrior, ScanQueue, At, Saving
<1>9. CASE Make(w)
  <2>1. CASE GoTo(w, "putBack")
    <3>1. worker'[w].pc = "putBack" /\ worker'[w].id = worker[w].id
      BY <1>2, <1>5, <2>1 DEF GoTo, Become, Request
    <3> QED
      BY <1>3, <3>1 DEF Held, Saving
  <2>2. CASE question' = Saved(Of(w).row)
    <3>1. question' = WithCopy(question, row) /\ Tables(question, review, cut)
      BY <1>1, <1>2, <2>2 DEF Saved, WithCopy, IInv
    <3>2. Len(question') = Len(question) + 1 /\ question'[Len(question')].row = row
      BY <3>1, SavedOK
    <3>3. Has(row, question')
      BY <3>2, NextLengths DEF Has
    <3> QED
      BY <3>3 DEF Settled
  <2> QED
    BY <1>9, <2>1, <2>2 DEF Make
<1>10. CASE PutBack(w)
  <2>1. CASE cut' = cut \cup RowOf(w)
    BY <1>1, <1>2, <1>3, <2>1 DEF RowOf, Settled
  <2>2. CASE review' = Status(worker[w].id, worker[w].was)
    <3>1. CASE Of(w).status = "gone"
      <4>1. Settled(row)
        BY <1>1, <1>2, <3>1 DEF ReviewOK, Settled
      <4> QED
        BY <4>1, SettledStays
    <3>2. CASE Of(w).status # "gone" /\ worker[w].was \in Open
      <4>1. DOMAIN review = 1..Len(review)
        BY NextLengths
      <4>2. review'[worker[w].id].status \in Open
        BY <1>2, <2>2, <3>2, <4>1 DEF Status, Review
      <4> QED
        BY <1>3, <4>2 DEF Waits
    <3>3. CASE worker[w].was \notin Open
      <4>1. Has(row, question) \/ row \in cut
        BY <1>1, <1>2, <1>3, <1>10, <3>3 DEF WorkerOK, PutBack, At, Open, Request, Decision
      <4>2. Settled(row)
        BY <4>1 DEF Settled
      <4> QED
        BY <4>2, SettledStays
    <3> QED
      BY <3>1, <3>2, <3>3
  <2> QED
    BY <1>10, <2>1, <2>2 DEF PutBack
<1>11. CASE Crash
  <2>1. RowOf(w) = {row}
    BY <1>1, <1>2, <1>3 DEF RowOf
  <2>2. worker[w].pc \in {"make", "putBack"} /\ ~At(w, "idle")
    BY <1>1 DEF Saving, At
  <2>3. row \in cut'
    BY <1>11, <2>1, <2>2 DEF Crash
  <2> QED
    BY <2>3 DEF Settled
<1>12. CASE UNCHANGED vars
  BY <1>4, <1>12 DEF vars
<1> QED
  BY <1>4, <1>6, <1>7, <1>8, <1>9, <1>10, <1>11, <1>12 DEF Next

LEMMA KeptStays ==
  ASSUME IInv, [Next]_vars, NEW rows \in SUBSET Row, Kept(rows)
  PROVE  Kept(rows)'
<1>1. PICK row \in rows : Settled(row) \/ Waits(row) \/ Held(row)
  BY KeptIs
<1>2. Settled(row)' \/ Waits(row)' \/ Held(row)'
  BY <1>1, SettledStays, WaitsStays, HeldStays
<1> QED
  BY <1>2, KeptAgain

-----------------------------------------------------------------------------
(* What an upload reports. *)

\* The rows that a step puts on the queue are kept after it.
LEMMA QueuedKept ==
  ASSUME IInv, [Next]_vars, NEW u \in Upload, NEW rows \in Seq(DOMAIN Sheet[u]), review' = Queued(u, rows),
         NEW k \in 1..Len(rows)
  PROVE  Kept({<<u, rows[k]>>})'
<1> DEFINE n == Len(review) + k
<1>1. Len(review') = Len(review) + Len(rows) /\ review'[n] = Pair(<<u, rows[k]>>, job[u].old, 0)
  BY QueuedOK
<1>2. n \in 1..Len(review')
  BY <1>1, NextLengths, LenProperties
<1>3. review'[n].row = <<u, rows[k]>> /\ review'[n].status \in Open
  BY <1>1 DEF Pair, Open
<1>4. Waits(<<u, rows[k]>>)'
  BY <1>2, <1>3 DEF Waits
<1> QED
  BY <1>4, KeptAgain

LEMMA SavedKept ==
  ASSUME IInv, [Next]_vars, NEW row \in Row, question' = Saved(row)
  PROVE  Kept({row})'
<1>1. question' = WithCopy(question, row) /\ Tables(question, review, cut)
  BY DEF Saved, WithCopy, IInv
<1>2. Len(question') = Len(question) + 1 /\ question'[Len(question')].row = row
  BY <1>1, SavedOK
<1>3. Settled(row)'
  BY <1>2, NextLengths DEF Has, Settled
<1> QED
  BY <1>3, KeptAgain

Alike(u, i) == {r \in Row : Look(r) = Sheet[u][i]}

\* A row is reported as saved, queued or already asked only by the step that
\* makes it so.
LEMMA NewReport ==
  ASSUME IInv, [Next]_vars, NEW u \in Upload, NEW i \in DOMAIN Sheet[u], outcome'[u][i] # outcome[u][i]
  PROVE  /\ outcome'[u][i] \in {"saved", "queued"} => Kept({<<u, i>>})'
         /\ outcome'[u][i] = "already" => Kept(Alike(u, i))' \/ \E k \in 1..i - 1 : Sheet[u][k] = Sheet[u][i]
<1>1. Outcomes
  BY DEF IInv
<1>2. ASSUME NEW v \in Upload, NEW rows, NEW what \in Outcome, Report(v, rows, what)
      PROVE  v = u /\ i \in rows /\ outcome'[u][i] = what
  BY <1>1, <1>2, Reported
<1>3. ASSUME NEW v \in Upload, NEW rows, Report(v, rows, "failed") PROVE outcome'[u][i] = "failed"
  BY <1>2, <1>3 DEF Outcome
<1>4. ASSUME NEW v \in Upload, UploadNext(v)
      PROVE  /\ outcome'[u][i] \in {"saved", "queued"} => Kept({<<u, i>>})'
             /\ outcome'[u][i] = "already" => Kept(Alike(u, i))' \/ \E k \in 1..i - 1 : Sheet[u][k] = Sheet[u][i]
  <2>1. CASE Index(v)
    BY <1>3, <2>1 DEF Index
  <2>2. CASE ReadPrior(v)
    <3>1. CASE Report(v, {n \in Waiting(v) : Asked(v, n)}, "already") /\ UNCHANGED <<question, review, worker, cut>>
      <4>1. v = u /\ i \in {n \in Waiting(v) : Asked(v, n)} /\ outcome'[u][i] = "already"
        BY <1>2, <3>1 DEF Outcome
      <4>2. Asked(u, i)
        BY <4>1
      <4>3. ASSUME NEW r \in Range(review), r.row # NoRow, Look(r.row) = Sheet[u][i], r.status \in Open
            PROVE  Kept(Alike(u, i))'
        <5>1. PICK n \in 1..Len(review) : r = review[n] /\ review[n] \in Review
          BY Lengths DEF Range, IInv
        <5>2. r.row \in Alike(u, i)
          BY <4>3, <5>1 DEF Alike, Review
        <5>3. Waits(r.row)'
          BY <3>1, <4>3, <5>1 DEF Waits
        <5> QED
          BY <5>2, <5>3, KeptAgain
      <4> QED
        BY <4>1, <4>2, <4>3 DEF Asked, Open
    <3>2. CASE Report(v, Waiting(v), "failed")
      BY <1>3, <3>2
    <3> QED
      BY <2>2, <3>1, <3>2 DEF ReadPrior, ghostVars
  <2>3. CASE QueueMany(v)
    <3>1. PICK rows \in InOrder(Waiting(v)) :
            \/ review' = Queued(v, rows) /\ Report(v, Waiting(v), "queued")
            \/ UNCHANGED outcome
      BY <2>3 DEF QueueMany
    <3>2. review' = Queued(v, rows) /\ v = u /\ i \in Waiting(u) /\ outcome'[u][i] = "queued"
      BY <1>2, <3>1 DEF Outcome
    <3>3. rows \in Seq(DOMAIN Sheet[u]) /\ \E k \in 1..Len(rows) : rows[k] = i
      BY <3>2, WaitingOrdered
    <3> QED
      BY <3>2, <3>3, QueuedKept
  <2>4. CASE QueueEach(v) \/ QueueInFile(v)
    <3>1. PICK n \in Waiting(v) :
            \/ review' = Queued(v, <<n>>) /\ Report(v, {n}, "queued")
            \/ Report(v, {n}, "failed")
      BY <2>4 DEF QueueEach, QueueInFile, Oldest
    <3>2. CASE review' = Queued(v, <<n>>) /\ Report(v, {n}, "queued")
      <4>1. v = u /\ n = i /\ outcome'[u][i] = "queued"
        BY <1>2, <3>2 DEF Outcome
      <4>2. <<n>> \in Seq(DOMAIN Sheet[u]) /\ 1 \in 1..Len(<<n>>) /\ <<n>>[1] = n
        BY <3>1, <4>1, OneRow
      <4>3. Kept({<<u, <<n>>[1]>>})'
        BY <3>2, <4>1, <4>2, QueuedKept
      <4> QED
        BY <4>1, <4>2, <4>3
    <3> QED
      BY <1>3, <3>1, <3>2
  <2>5. CASE Commit(v) \/ CommitSingle(v)
    <3>1. \/ question' = Saved(<<v, 1>>) /\ Report(v, {1}, "saved")
          \/ Report(v, {1}, "failed")
      BY <2>5 DEF Commit, CommitSingle
    <3>2. CASE question' = Saved(<<v, 1>>) /\ Report(v, {1}, "saved")
      <4>1. v = u /\ i = 1 /\ outcome'[u][i] = "saved"
        BY <1>2, <3>2 DEF Outcome
      <4> QED
        BY <3>2, <4>1, RowOK, SavedKept
    <3> QED
      BY <1>3, <3>1, <3>2
  <2>6. CASE LinkFind(v) \/ LinkSet(v) \/ LinkMake(v) \/ LinkDrop(v)
    BY <2>6 DEF LinkFind, LinkSet, LinkMake, LinkDrop
  <2> QED
    BY <1>4, <2>1, <2>2, <2>3, <2>4, <2>5, <2>6 DEF UploadNext
<1>5. ASSUME NEW w \in Worker, WorkerNext(w) PROVE UNCHANGED outcome
  BY <1>5 DEF WorkerNext, UndoRead, ResolveRead, ResolveClaim, Make, Hide, Remember, Publish, PutBack,
              UndoClaim, UndoHide, UndoRestore, Forget, ScanRows, ScanPrior, ScanQueue
<1> QED
  BY <1>4, <1>5 DEF Next, Crash, vars

LEMMA RowKeptStep ==
  ASSUME IInv, [Next]_vars, RowKept
  PROVE  RowKept'
<1> SUFFICES ASSUME NEW u \in Upload, NEW i \in DOMAIN Sheet[u]
             PROVE  /\ outcome'[u][i] \in {"saved", "queued"} => Kept({<<u, i>>})'
                    /\ outcome'[u][i] = "already" =>
                         Kept(Alike(u, i))' \/ \E k \in 1..i - 1 : Sheet[u][k] = Sheet[u][i]
  BY DEF RowKept, Alike
<1>1. {<<u, i>>} \in SUBSET Row /\ Alike(u, i) \in SUBSET Row
  BY RowOK DEF Alike
<1>2. /\ outcome[u][i] \in {"saved", "queued"} => Kept({<<u, i>>})
      /\ outcome[u][i] = "already" => Kept(Alike(u, i)) \/ \E k \in 1..i - 1 : Sheet[u][k] = Sheet[u][i]
  BY DEF RowKept, Alike
<1>3. Kept({<<u, i>>}) => Kept({<<u, i>>})'
  BY <1>1, KeptStays
<1>4. Kept(Alike(u, i)) => Kept(Alike(u, i))'
  BY <1>1, KeptStays
<1>5. CASE outcome'[u][i] = outcome[u][i]
  BY <1>2, <1>3, <1>4, <1>5
<1>6. CASE outcome'[u][i] # outcome[u][i]
  BY <1>6, NewReport
<1> QED
  BY <1>5, <1>6

\* No row is lost: what an upload has reported as saved or queued stays a
\* question or in the queue through every decision, undo, link, failure and
\* crash, unless its decision was cut off; so does an equal of every row that
\* was reported as already asked.
THEOREM RowKeptAlways == Spec => []RowKept
<1>1. Init => IInv /\ RowKept
  BY InitOK DEF Init, RowKept
<1>2. IInv /\ RowKept /\ [Next]_vars => (IInv /\ RowKept)'
  BY Inductive, RowKeptStep
<1> QED
  BY <1>1, <1>2, PTL DEF Spec

-----------------------------------------------------------------------------
(* A row is live at most once, as long as nothing failed and no two        *)
(* requests got in each other's way.  While that is so, the status of the  *)
(* review of a row says where its one live copy is, and no two requests    *)
(* are past the claim of the same review.                                  *)

Calm == faults = 0 /\ ~crossed

SheetReview == {i \in 1..Len(review) : review[i].row # NoRow}
Copy(t, q, row) == q \in DOMAIN t /\ t[q].live /\ t[q].row = row
NoCopy(t, row) == \A q : ~Copy(t, q, row)
Said(o, row) == o[row[1]][row[2]]

At4(w, i, pcs) == worker[w].id = i /\ worker[w].pc \in pcs
Applying == {"make", "hide", "remember"}
Reverting == {"unhide", "restore", "forget"}
Away(w, i) == ~At4(w, i, Applying \cup Reverting)

\* Every row that has a review was queued, by that review only; every row that
\* has a copy was queued or saved, and only a row with a review has a second one.
Rows ==
  /\ \A i \in SheetReview :
       /\ review[i].row[1] \in Upload /\ Said(outcome, review[i].row) = "queued"
       /\ \A k \in SheetReview : review[k].row = review[i].row => k = i
  /\ \A q \in DOMAIN question : question[q].row[1] # Bank =>
       question[q].row[1] \in Upload /\ Said(outcome, question[q].row) \in {"saved", "queued"}
  /\ \A q, p \in DOMAIN question : question[q].row = question[p].row /\ q # p =>
       \E i \in SheetReview : review[i].row = question[q].row
  /\ \A q, p \in DOMAIN question :
       question[q].live /\ question[p].live /\ question[q].row = question[p].row => q = p

\* The copy of a row whose review is pending is one that an undo is about to
\* hide, or that the link loop has just saved.
PendingOK(i) ==
  review[i].status = "PENDING" =>
    /\ \A q : Copy(question, q, review[i].row) => \/ \E w \in Worker : At4(w, i, {"unhide"}) /\ worker[w].made = q
                                        \/ \E u \in Upload : JobAt(u, "drop") /\ Linked(u) = i
    /\ review[i].made # 0 => \E w \in Worker : At4(w, i, Reverting)

\* The copy of a decided row is the one the decision has noted or is about to note.
DecidedOK(i) ==
  /\ review[i].status = "KEPT_EXISTING" => NoCopy(question, review[i].row)
  /\ review[i].status \in {"KEPT_NEW", "KEPT_BOTH"} =>
       \A q : Copy(question, q, review[i].row) =>
         \/ review[i].made = q
         \/ \E w \in Worker : At4(w, i, {"hide", "remember"}) /\ worker[w].made = q

\* A request past the claim is the only one on that review, and its decision stands.
AloneOK(w, i) ==
  /\ At4(w, i, Applying) => /\ review[i].made = 0
                            /\ review[i].status = worker[w].act
                            /\ worker[w].act \in {"KEPT_NEW", "KEPT_BOTH"}
  /\ At4(w, i, {"make"}) => NoCopy(question, review[i].row)
  /\ At4(w, i, Reverting) => review[i].status \in {"PENDING", "gone"}
  /\ ~Away(w, i) => \A x \in Worker \ {w} : Away(x, i)

CalmReview(i) == PendingOK(i) /\ DecidedOK(i) /\ \A w \in Worker : AloneOK(w, i)

\* The link loop saves a row only while its review is pending and no copy is live.
CalmJob(u) ==
  /\ job[u].pc \notin {"each", "single"}
  /\ \A k \in 1..Len(job[u].links) : review[job[u].links[k]].row[1] = u
  /\ JobAt(u, "make") /\ review[Linked(u)].status = "PENDING" => NoCopy(question, review[Linked(u)].row)
  /\ JobAt(u, "drop") => review[Linked(u)].status = "PENDING"

CalmInv ==
  /\ Rows
  /\ \A i \in SheetReview : CalmReview(i)
  /\ \A u \in Upload : CalmJob(u)
  /\ \A w \in Worker : worker[w].pc # "putBack"

\* Calm is lost for good, and a statement that fails ends it.
LEMMA CalmBack ==
  ASSUME IInv, [Next]_vars, Calm'
  PROVE  Calm /\ ~Fault
<1>1. faults \in Nat /\ faults' = 0
  BY DuplicateAssumption DEF IInv, Counters, Calm
<1>2. ~Fault
  BY <1>1 DEF Fault
<1>3. (faults' = faults \/ Fault) /\ (crossed => crossed')
  <2>1. ASSUME NEW u \in Upload, UploadNext(u) PROVE faults' = faults \/ Fault
    BY <2>1 DEF UploadNext, Index, ReadPrior, QueueMany, QueueEach, QueueInFile, Commit, CommitSingle,
                LinkFind, LinkSet, LinkMake, LinkDrop
  <2>2. ASSUME NEW u \in Upload, UploadNext(u) PROVE crossed => crossed'
    BY <2>2 DEF UploadNext, Index, ReadPrior, QueueMany, QueueEach, QueueInFile, Commit, CommitSingle,
                LinkFind, LinkSet, LinkMake, LinkDrop, ghostVars
  <2>3. ASSUME NEW w \in Worker, WorkerNext(w) PROVE faults' = faults \/ Fault
    BY <2>3 DEF WorkerNext, UndoRead, ResolveRead, ResolveClaim, Make, Hide, Remember, Publish, PutBack,
                UndoClaim, UndoHide, UndoRestore, Forget, ScanRows, ScanPrior, ScanQueue, Tries
  <2>4. ASSUME NEW w \in Worker, WorkerNext(w) PROVE crossed => crossed'
    BY <2>4 DEF WorkerNext, UndoRead, ResolveRead, ResolveClaim, Make, Hide, Remember, Publish, PutBack,
                UndoClaim, UndoHide, UndoRestore, Forget, ScanRows, ScanPrior, ScanQueue, ghostVars
  <2> QED
    BY <2>1, <2>2, <2>3, <2>4 DEF Next, Crash, vars, ghostVars
<1> QED
  BY <1>1, <1>2, <1>3 DEF Calm

\* What the invariant says of a review of a sheet and of the reviews an upload has linked.
LEMMA ReviewFacts ==
  ASSUME IInv
  PROVE  /\ Len(question) \in Nat /\ DOMAIN question = 1..Len(question)
         /\ question \in [1..Len(question) -> Question] /\ \A q \in 1..Len(question) : question[q] \in Question
         /\ Len(review) \in Nat /\ DOMAIN review = 1..Len(review)
         /\ review \in [1..Len(review) -> Review] /\ \A i \in 1..Len(review) : review[i] \in Review
         /\ \A i \in SheetReview : i \in 1..Len(review) /\ review[i] \in Review /\ review[i].row \in Row
         /\ \A u \in Upload : \A k \in 1..Len(job[u].links) : job[u].links[k] \in SheetReview
         /\ \A u \in Upload : job[u].pc \in {"link", "make", "drop"} => Linked(u) \in SheetReview
<1>1. Tables(question, review, cut) /\ Len(review) \in Nat
  BY Lengths DEF IInv
<1>2. \A i \in SheetReview : i \in 1..Len(review) /\ review[i] \in Review /\ review[i].row \in Row
  BY <1>1, Lengths DEF SheetReview, Review
<1>3. \A u \in Upload : \A k \in 1..Len(job[u].links) : job[u].links[k] \in SheetReview
  BY JobFacts DEF JobOK, SheetReview
<1>4. \A u \in Upload : job[u].pc \in {"link", "make", "drop"} => Linked(u) \in SheetReview
  BY JobFacts, RowOK DEF JobAt, SheetReview
<1>5. question \in [1..Len(question) -> Question] /\ review \in [1..Len(review) -> Review]
  BY <1>1, LenProperties DEF Tables
<1> QED
  BY <1>1, <1>2, <1>3, <1>4, <1>5, Lengths

\* What the rows depend on.
LEMMA RowsKept ==
  ASSUME IInv, Rows, DOMAIN question' = DOMAIN question,
         \A q \in DOMAIN question : question'[q].row = question[q].row,
         \A q, p \in DOMAIN question :
           question'[q].live /\ question'[p].live /\ question[q].row = question[p].row => q = p,
         SheetReview' = SheetReview, \A i \in SheetReview : review'[i].row = review[i].row,
         \A row \in Row : row[1] \in Upload /\ Said(outcome, row) \in {"saved", "queued"} => Said(outcome', row) = Said(outcome, row)
  PROVE  Rows'
<1>1. \A i \in SheetReview :
        /\ review[i].row[1] \in Upload /\ Said(outcome, review[i].row) = "queued"
        /\ \A k \in SheetReview : review[k].row = review[i].row => k = i
  BY DEF Rows
<1>2. \A i \in SheetReview' :
        /\ review'[i].row[1] \in Upload /\ Said(outcome', review'[i].row) = "queued"
        /\ \A k \in SheetReview' : review'[k].row = review'[i].row => k = i
  BY <1>1, ReviewFacts
<1>3. \A q \in DOMAIN question' : question'[q].row[1] # Bank =>
        question'[q].row[1] \in Upload /\ Said(outcome', question'[q].row) \in {"saved", "queued"}
  <2>1. \A q \in DOMAIN question : question[q].row \in Row
    BY ReviewFacts DEF Question
  <2> QED
    BY <2>1 DEF Rows
<1>4. \A q, p \in DOMAIN question' : question'[q].row = question'[p].row /\ q # p =>
        \E i \in SheetReview' : review'[i].row = question'[q].row
  BY DEF Rows
<1> QED
  BY <1>2, <1>3, <1>4 DEF Rows

\* A step that keeps what a review and its copies are, and is not of a request or a
\* link loop that is at work on it.
Same4(i) ==
  /\ review'[i].row = review[i].row /\ review'[i].status = review[i].status /\ review'[i].made = review[i].made
  /\ \A q : Copy(question', q, review[i].row) => Copy(question, q, review[i].row)

LEMMA ReviewKept ==
  ASSUME NEW i, CalmReview(i), Same4(i),
         \A x \in Worker : worker'[x] = worker[x] \/ (Away(x, i) /\ Away(x, i)'),
         \A u \in Upload : JobAt(u, "drop") /\ Linked(u) = i => JobAt(u, "drop")' /\ Linked(u)' = i
  PROVE  CalmReview(i)'
<1>1. \A x \in Worker : Away(x, i)' <=> Away(x, i)
  BY DEF Away, At4
<1>2. \A x \in Worker : ~Away(x, i) => worker'[x] = worker[x]
  OBVIOUS
<1>3. PendingOK(i)'
  <2>1. PendingOK(i)
    BY DEF CalmReview
  <2>2. ASSUME NEW x \in Worker, At4(x, i, {"unhide"}) PROVE worker'[x] = worker[x]
    BY <1>2, <2>2 DEF At4, Away, Reverting
  <2>3. ASSUME NEW x \in Worker, At4(x, i, Reverting) PROVE worker'[x] = worker[x]
    BY <1>2, <2>3 DEF At4, Away
  <2> QED
    BY <2>1, <2>2, <2>3 DEF PendingOK, Same4, At4
<1>4. DecidedOK(i)'
  <2>1. DecidedOK(i)
    BY DEF CalmReview
  <2>2. ASSUME NEW x \in Worker, At4(x, i, {"hide", "remember"}) PROVE worker'[x] = worker[x]
    BY <1>2, <2>2 DEF At4, Away, Applying
  <2> QED
    BY <2>1, <2>2 DEF DecidedOK, Same4, At4, NoCopy
<1>5. ASSUME NEW x \in Worker PROVE AloneOK(x, i)'
  <2>1. AloneOK(x, i)
    BY DEF CalmReview
  <2>2. CASE worker'[x] = worker[x]
    BY <1>1, <2>1, <2>2 DEF AloneOK, Same4, At4, NoCopy
  <2>3. CASE Away(x, i)'
    BY <2>3 DEF AloneOK, Away, At4, Applying, Reverting
  <2> QED
    BY <2>2, <2>3
<1> QED
  BY <1>3, <1>4, <1>5 DEF CalmReview

\* What an upload that is linking its rows has to find.
LinkFine(u) ==
  /\ JobAt(u, "make") /\ review'[Linked(u)].status = "PENDING" => NoCopy(question', review[Linked(u)].row)
  /\ JobAt(u, "drop") => review'[Linked(u)].status = "PENDING"

LEMMA JobKept ==
  ASSUME IInv, [Next]_vars, NEW u \in Upload, CalmJob(u), job'[u] = job[u],
         JobAt(u, "make") \/ JobAt(u, "drop") => Same4(Linked(u)) \/ LinkFine(u)
  PROVE  CalmJob(u)'
<1>1. JobAt(u, "make") \/ JobAt(u, "drop") => LinkFine(u)
  BY DEF CalmJob, LinkFine, Same4, NoCopy
<1>2. \A k \in 1..Len(job[u].links) : job[u].links[k] \in 1..Len(review)
  BY JobFacts DEF JobOK
<1>3. \A k \in 1..Len(job[u].links) : review'[job[u].links[k]].row = review[job[u].links[k]].row
  BY <1>2, NextLengths DEF Older
<1>4. JobAt(u, "make") \/ JobAt(u, "drop") => review'[Linked(u)].row = review[Linked(u)].row
  BY JobFacts, NextLengths DEF Older
<1> QED
  BY <1>1, <1>3, <1>4 DEF CalmJob, LinkFine, JobAt, Linked

\* A step of a request: what it has to leave.
LEMMA WorkerActs ==
  ASSUME IInv, [Next]_vars, CalmInv, Rows', NEW w \in Worker, UNCHANGED job, worker'[w].pc # "putBack",
         \A x \in Worker \ {w} : worker'[x] = worker[x], SheetReview' = SheetReview,
         \A i \in SheetReview :
           \/ Same4(i) /\ Away(w, i) /\ Away(w, i)'
           \/ CalmReview(i)' /\ \A u \in Upload : Linked(u) = i /\ job[u].pc \in {"make", "drop"} => LinkFine(u)
  PROVE  CalmInv'
<1>1. \A x \in Worker : worker'[x].pc # "putBack"
  BY DEF CalmInv
<1>2. ASSUME NEW i \in SheetReview PROVE CalmReview(i)'
  <2>1. CASE Same4(i) /\ Away(w, i) /\ Away(w, i)'
    <3>1. CalmReview(i)
      BY DEF CalmInv
    <3>2. \A u \in Upload : JobAt(u, "drop") /\ Linked(u) = i => JobAt(u, "drop")' /\ Linked(u)' = i
      BY DEF JobAt, Linked
    <3> QED
      BY <2>1, <3>1, <3>2, ReviewKept
  <2> QED
    BY <2>1
<1>3. ASSUME NEW u \in Upload PROVE CalmJob(u)'
  <2>1. job[u].pc \in {"make", "drop"} => Linked(u) \in SheetReview
    BY ReviewFacts
  <2>2. CalmJob(u) /\ job'[u] = job[u]
    BY DEF CalmInv
  <2>3. JobAt(u, "make") \/ JobAt(u, "drop") => Same4(Linked(u)) \/ LinkFine(u)
    BY <2>1 DEF JobAt
  <2> QED
    BY <2>2, <2>3, JobKept
<1> QED
  BY <1>1, <1>2, <1>3 DEF CalmInv

\* A step of an upload.
LEMMA UploadActs ==
  ASSUME IInv, [Next]_vars, CalmInv, Rows', NEW u \in Upload, CalmJob(u)', UNCHANGED worker,
         \A v \in Upload \ {u} : job'[v] = job[v],
         \A i \in SheetReview : review[i].row[1] # u => Same4(i),
         \A i \in SheetReview' :
           \/ i \in SheetReview /\ Same4(i) /\ ~(JobAt(u, "drop") /\ Linked(u) = i)
           \/ CalmReview(i)'
  PROVE  CalmInv'
<1>1. \A x \in Worker : worker'[x].pc # "putBack"
  BY DEF CalmInv
<1>2. ASSUME NEW i \in SheetReview' PROVE CalmReview(i)'
  <2>1. CASE i \in SheetReview /\ Same4(i) /\ ~(JobAt(u, "drop") /\ Linked(u) = i)
    <3>1. CalmReview(i)
      BY <2>1 DEF CalmInv
    <3>2. \A v \in Upload : JobAt(v, "drop") /\ Linked(v) = i => JobAt(v, "drop")' /\ Linked(v)' = i
      BY <2>1 DEF JobAt, Linked
    <3> QED
      BY <2>1, <3>1, <3>2, ReviewKept
  <2> QED
    BY <2>1
<1>3. ASSUME NEW v \in Upload \ {u} PROVE CalmJob(v)'
  <2>1. CalmJob(v) /\ job'[v] = job[v]
    BY DEF CalmInv
  <2>2. ASSUME JobAt(v, "make") \/ JobAt(v, "drop") PROVE Same4(Linked(v))
    <3>1. Linked(v) \in SheetReview /\ job[v].links \in Seq(Nat) /\ job[v].links # <<>>
      BY <2>2, ReviewFacts, JobFacts DEF JobAt
    <3>2. Linked(v) = job[v].links[1] /\ 1 \in 1..Len(job[v].links)
      BY <3>1, HeadTailProperties, EmptySeq, LenProperties DEF Linked
    <3>3. review[Linked(v)].row[1] = v
      BY <2>1, <3>2 DEF CalmJob
    <3> QED
      BY <3>1, <3>3
  <2> QED
    BY <2>1, <2>2, JobKept
<1> QED
  BY <1>1, <1>2, <1>3 DEF CalmInv

-----------------------------------------------------------------------------
(* What the statements of a request change. *)

LEMMA ShowIs ==
  ASSUME IInv, NEW n, NEW live \in BOOLEAN, Show(n, live)
  PROVE  /\ DOMAIN question' = DOMAIN question
         /\ \A q \in DOMAIN question : /\ question'[q].row = question[q].row
                                       /\ question'[q].live = IF q = n THEN live ELSE question[q].live
<1>1. question \in [1..Len(question) -> Question] /\ DOMAIN question = 1..Len(question)
  BY ReviewFacts
<1> QED
  BY <1>1 DEF Show, Question

LEMMA StatusIs ==
  ASSUME IInv, NEW i \in 1..Len(review), NEW s, review' = Status(i, s)
  PROVE  /\ SheetReview' = SheetReview
         /\ \A k \in 1..Len(review) :
              /\ review'[k].row = review[k].row /\ review'[k].made = review[k].made
              /\ review'[k].status = IF k = i /\ review[i].status # "gone" THEN s ELSE review[k].status
<1>1. /\ review \in [1..Len(review) -> Review] /\ DOMAIN review = 1..Len(review) /\ review[i] \in Review
      /\ Len(review) \in Nat
  BY ReviewFacts
<1>2. review' = [review EXCEPT ![i] = [review[i] EXCEPT !.status = IF @ = "gone" THEN @ ELSE s]]
  BY <1>1 DEF Status
<1>3. \A k \in 1..Len(review) :
        /\ review'[k].row = review[k].row /\ review'[k].made = review[k].made
        /\ review'[k].status = IF k = i /\ review[i].status # "gone" THEN s ELSE review[k].status
  BY <1>1, <1>2 DEF Review
<1>4. DOMAIN review' = 1..Len(review)
  BY <1>1, <1>2
<1>5. Len(review') = Len(review)
  <2>1. review' \in [1..Len(review) -> {review'[k] : k \in 1..Len(review)}]
    BY <1>1, <1>2
  <2> QED
    BY <1>1, <2>1, IsSeq
<1> QED
  BY <1>3, <1>5 DEF SheetReview

LEMMA MadeIs ==
  ASSUME IInv, NEW i \in 1..Len(review), NEW m, review' = WithMade(review, i, m)
  PROVE  /\ SheetReview' = SheetReview
         /\ \A k \in 1..Len(review) :
              /\ review'[k].row = review[k].row /\ review'[k].status = review[k].status
              /\ review'[k].made = IF k = i THEN m ELSE review[k].made
<1>1. /\ review \in [1..Len(review) -> Review] /\ DOMAIN review = 1..Len(review) /\ review[i] \in Review
      /\ Len(review) \in Nat
  BY ReviewFacts
<1>2. \A k \in 1..Len(review) :
        /\ review'[k].row = review[k].row /\ review'[k].status = review[k].status
        /\ review'[k].made = IF k = i THEN m ELSE review[k].made
  BY <1>1 DEF Review, WithMade
<1>3. Len(review') = Len(review)
  <2>1. review' \in [1..Len(review) -> {review'[k] : k \in 1..Len(review)}]
    BY <1>1 DEF WithMade
  <2> QED
    BY <1>1, <2>1, IsSeq
<1> QED
  BY <1>2, <1>3 DEF SheetReview

LEMMA GoesTo ==
  ASSUME IInv, NEW w \in Worker, NEW pc, GoTo(w, pc)
  PROVE  /\ \A x \in Worker \ {w} : worker'[x] = worker[x]
         /\ worker'[w].pc = pc
         /\ pc # "idle" => /\ worker'[w].id = worker[w].id /\ worker'[w].made = worker[w].made
                           /\ worker'[w].act = worker[w].act /\ worker'[w].old = worker[w].old
                           /\ worker'[w].was = worker[w].was
<1>1. worker \in [Worker -> Request] /\ worker[w] \in Request
  BY DEF IInv, Workers
<1>2. CASE pc = "idle"
  BY <1>1, <1>2 DEF GoTo, Become, Idle
<1>3. CASE pc # "idle"
  <2>1. worker' = [worker EXCEPT ![w] = [worker[w] EXCEPT !.pc = pc]]
    BY <1>3 DEF GoTo, Become
  <2> QED
    BY <1>1, <2>1 DEF Request
<1> QED
  BY <1>2, <1>3

LEMMA MayGo ==
  ASSUME NEW w, NEW i, worker[w].pc \notin Applying \cup Reverting \/ worker[w].id # i
  PROVE  Away(w, i)
BY DEF Away, At4

\* A copy is hidden or shown: no row gets a second live copy.
LEMMA RowsShown ==
  ASSUME IInv, Rows, NEW n, NEW live \in BOOLEAN, Show(n, live), UNCHANGED <<review, outcome>>,
         live => \A q : Copy(question, q, question[n].row) => q = n
  PROVE  Rows'
<1>1. /\ DOMAIN question' = DOMAIN question
      /\ \A q \in DOMAIN question : /\ question'[q].row = question[q].row
                                    /\ question'[q].live = IF q = n THEN live ELSE question[q].live
  BY ShowIs
<1>2. \A q, p \in DOMAIN question :
        question'[q].live /\ question'[p].live /\ question[q].row = question[p].row => q = p
  <2> SUFFICES ASSUME NEW q \in DOMAIN question, NEW p \in DOMAIN question,
                      question'[q].live, question'[p].live, question[q].row = question[p].row
               PROVE  q = p
    OBVIOUS
  <2>1. CASE q # n /\ p # n
    BY <1>1, <2>1 DEF Rows
  <2>2. CASE q = n \/ p = n
    BY <1>1, <2>2 DEF Copy
  <2> QED
    BY <2>1, <2>2
<1>3. SheetReview' = SheetReview
  BY DEF SheetReview
<1> QED
  BY <1>1, <1>2, <1>3, RowsKept

\* A copy that is hidden is no new copy of any row.
LEMMA HiddenSame ==
  ASSUME IInv, NEW n, Show(n, FALSE), UNCHANGED review, NEW i
  PROVE  Same4(i)
BY ShowIs DEF Same4, Copy

LEMMA RowsStill ==
  ASSUME IInv, Rows, UNCHANGED <<question, outcome>>, SheetReview' = SheetReview,
         \A i \in SheetReview : review'[i].row = review[i].row
  PROVE  Rows'
BY RowsKept DEF Rows

-----------------------------------------------------------------------------
(* Each statement of a request keeps what calm needs. *)

\* Nothing is written, and the request is not past a claim.
LEMMA ReadsCalm ==
  ASSUME IInv, [Next]_vars, CalmInv, NEW w \in Worker, UNCHANGED <<question, review, job, outcome>>,
         \A x \in Worker \ {w} : worker'[x] = worker[x],
         worker[w].pc \notin Applying \cup Reverting, worker'[w].pc \notin Applying \cup Reverting \cup {"putBack"}
  PROVE  CalmInv'
<1>1. SheetReview' = SheetReview /\ Rows'
  BY RowsStill DEF SheetReview, CalmInv
<1>2. \A i : Same4(i) /\ Away(w, i) /\ Away(w, i)'
  BY DEF Same4, Copy, Away, At4
<1> QED
  BY <1>1, <1>2, WorkerActs

LEMMA CalmRead ==
  ASSUME IInv, [Next]_vars, CalmInv, NEW w \in Worker,
         \/ \E i \in DOMAIN review : UndoRead(w, i) \/ \E act \in Decision : ResolveRead(w, i, act)
         \/ ScanRows(w) \/ ScanPrior(w)
  PROVE  CalmInv'
<1>1. worker \in [Worker -> Request]
  BY DEF IInv, Workers
<1>2. UNCHANGED <<question, review, job, outcome>> /\ worker[w].pc \in {"idle", "prior"}
  BY DEF UndoRead, ResolveRead, ScanRows, ScanPrior, At
<1>3. \E x : Become(w, x) /\ x.pc \in {"claim", "unclaim", "prior", "queue", "idle"}
  <2>1. CASE \E i \in DOMAIN review : \E act \in Decision : ResolveRead(w, i, act)
    <3>1. PICK i, act : Become(w, [Idle EXCEPT !.pc = "claim", !.id = i, !.act = act, !.old = review[i].old])
      BY <2>1 DEF ResolveRead
    <3>2. [Idle EXCEPT !.pc = "claim", !.id = i, !.act = act, !.old = review[i].old].pc = "claim"
      BY DEF Idle
    <3> QED
      BY <3>1, <3>2
  <2>2. CASE \E i \in DOMAIN review : UndoRead(w, i)
    <3>1. PICK i, q : Become(w, [Idle EXCEPT !.pc = "unclaim", !.id = i, !.was = review[i].status,
                                             !.made = q, !.old = Restored(i)])
      BY <2>2 DEF UndoRead
    <3>2. [Idle EXCEPT !.pc = "unclaim", !.id = i, !.was = review[i].status, !.made = q, !.old = Restored(i)].pc = "unclaim"
      BY DEF Idle
    <3> QED
      BY <3>1, <3>2
  <2>3. CASE ScanRows(w)
    <3>1. Become(w, [Idle EXCEPT !.pc = "prior", !.found = Live]) /\ [Idle EXCEPT !.pc = "prior", !.found = Live].pc = "prior"
      BY <2>3 DEF ScanRows, Idle
    <3> QED
      BY <3>1
  <2>4. CASE ScanPrior(w)
    <3>1. PICK base, pairs :
            Become(w, IF pairs = {} THEN Idle ELSE [worker[w] EXCEPT !.pc = "queue", !.old = base, !.found = pairs])
      BY <2>4 DEF ScanPrior
    <3>2. worker[w] \in Request
      BY <1>1
    <3>3. Idle.pc = "idle" /\ [worker[w] EXCEPT !.pc = "queue", !.old = base, !.found = pairs].pc = "queue"
      BY <3>2 DEF Idle, Request
    <3> QED
      BY <3>1, <3>3
  <2> QED
    BY <2>1, <2>2, <2>3, <2>4
<1>4. \A x \in Worker \ {w} : worker'[x] = worker[x]
  BY <1>1, <1>3 DEF Become
<1>5. worker'[w].pc \in {"claim", "unclaim", "prior", "queue", "idle"}
  BY <1>1, <1>3 DEF Become
<1> QED
  BY <1>2, <1>4, <1>5, ReadsCalm DEF Applying, Reverting

LEMMA CalmResolveClaim ==
  ASSUME IInv, [Next]_vars, CalmInv, Calm', NEW w \in Worker, ResolveClaim(w)
  PROVE  CalmInv'
<1>0. PICK i : i = worker[w].id
  OBVIOUS
<1> DEFINE next == IF FromSheet(i) THEN IF worker[w].act = "KEPT_EXISTING" THEN "idle" ELSE "make"
                   ELSE IF worker[w].act = "KEPT_BOTH" THEN "idle" ELSE "hide"
<1>1. /\ worker[w].pc = "claim" /\ UNCHANGED <<question, job, outcome>> /\ i \in 1..Len(review) /\ Of(w) = review[i]
      /\ worker[w].act \in Decision
  BY <1>0, WorkerFacts DEF ResolveClaim, At, Request
<1>2. CASE GoTo(w, "idle") /\ UNCHANGED review
  BY <1>1, <1>2, GoesTo, ReadsCalm DEF Applying, Reverting
<1>3. CASE /\ Undecided(w) /\ ~Busy(w, i) /\ review' = Status(i, worker[w].act) /\ GoTo(w, next)
  <2>1. /\ SheetReview' = SheetReview
        /\ \A k \in 1..Len(review) :
             /\ review'[k].row = review[k].row /\ review'[k].made = review[k].made
             /\ review'[k].status = IF k = i THEN worker[w].act ELSE review[k].status
    <3>1. review[i].status = "PENDING"
      BY <1>1, <1>3 DEF Undecided
    <3> QED
      BY <1>1, <1>3, <3>1, StatusIs
  <2>2. Rows'
    BY <1>1, <2>1, RowsStill DEF SheetReview, CalmInv
  <2>3. /\ \A x \in Worker \ {w} : worker'[x] = worker[x]
        /\ worker'[w].pc = next
        /\ next # "idle" => /\ worker'[w].id = i /\ worker'[w].act = worker[w].act
    BY <1>0, <1>3, GoesTo
  <2>4. \A x \in Worker \ {w} : Away(x, i) /\ Away(x, i)'
    <3>1. \A x \in Worker \ {w} : Away(x, i)
      BY <1>3 DEF Busy, Away, At4, Applying, Reverting
    <3> QED
      BY <2>3, <3>1 DEF Away, At4
  <2>5. Away(w, i)
    BY <1>1 DEF Away, At4, Applying, Reverting
  <2>6. ASSUME NEW k \in SheetReview, k # i PROVE Same4(k) /\ Away(w, k) /\ Away(w, k)'
    <3>1. Same4(k)
      BY <1>1, <2>1, <2>6 DEF Same4, Copy, SheetReview
    <3>2. Away(w, k) /\ Away(w, k)'
      BY <1>0, <2>3, <2>6, <1>1 DEF Away, At4, Applying, Reverting
    <3> QED
      BY <3>1, <3>2
  <2>7. ASSUME i \in SheetReview
        PROVE  CalmReview(i)' /\ \A u \in Upload : Linked(u) = i /\ job[u].pc \in {"make", "drop"} => LinkFine(u)
    <3>1. FromSheet(i) /\ PendingOK(i) /\ review[i].status = "PENDING"
      BY <1>1, <1>3, <2>7 DEF FromSheet, SheetReview, CalmInv, CalmReview, Undecided
    <3>2. \A u \in Upload : ~(Linked(u) = i /\ job[u].pc \in {"make", "drop"})
      BY <1>3 DEF Busy
    <3>3. \A x \in Worker : ~At4(x, i, Reverting) /\ ~At4(x, i, {"unhide"})
      BY <2>4, <2>5 DEF Away, At4, Reverting
    <3>4. NoCopy(question, review[i].row) /\ review[i].made = 0
      BY <3>1, <3>2, <3>3 DEF PendingOK, NoCopy, JobAt
    <3>5. NoCopy(question', review'[i].row) /\ review'[i].made = 0 /\ review'[i].status = worker[w].act
      BY <1>1, <2>1, <3>4
    <3>6. PendingOK(i)' /\ DecidedOK(i)'
      BY <1>1, <3>5 DEF PendingOK, DecidedOK, NoCopy, Decision
    <3>7. AloneOK(w, i)'
      <4>1. \/ worker'[w].pc = "idle"
            \/ worker'[w].pc = "make" /\ worker'[w].act = worker[w].act /\ worker[w].act \in {"KEPT_NEW", "KEPT_BOTH"}
        BY <1>1, <2>3, <3>1 DEF Decision
      <4> QED
        BY <2>4, <3>5, <4>1 DEF AloneOK, Away, At4, Applying, Reverting
    <3>8. \A x \in Worker \ {w} : AloneOK(x, i)'
      BY <2>4 DEF AloneOK, Away, At4, Applying, Reverting
    <3> QED
      BY <3>2, <3>6, <3>7, <3>8 DEF CalmReview
  <2>8. worker'[w].pc # "putBack"
    BY <2>3
  <2> QED
    BY <1>1, <2>1, <2>2, <2>3, <2>6, <2>7, <2>8, WorkerActs
<1> QED
  <2>1. ~Fault /\ ~crossed'
    BY CalmBack DEF Calm
  <2> QED
    BY <1>0, <1>2, <1>3, <2>1 DEF ResolveClaim

LEMMA SavedIs ==
  ASSUME IInv, NEW row \in Row, question' = Saved(row), NEW n, n = Len(question) + 1
  PROVE  /\ DOMAIN question' = DOMAIN question \cup {n} /\ n \notin DOMAIN question /\ n # 0 /\ Len(Saved(row)) = n
         /\ \A q \in DOMAIN question : question'[q] = question[q]
         /\ question'[n].row = row /\ question'[n].live
<1>1. question \in Seq(Question) /\ Len(question) \in Nat /\ DOMAIN question = 1..Len(question)
  BY ReviewFacts DEF IInv, Tables
<1>2. PICK x : x = [row |-> row, live |-> TRUE]
  OBVIOUS
<1>3. x \in Question /\ x.row = row /\ x.live
  BY <1>2 DEF Question
<1>4. question' = Append(question, x)
  BY <1>2 DEF Saved
<1>5. /\ question' \in Seq(Question) /\ Len(question') = n /\ \A k \in 1..Len(question) : question'[k] = question[k]
      /\ question'[n] = x
  BY <1>1, <1>3, <1>4, AppendProperties
<1>6. DOMAIN question' = 1..n
  BY <1>5, LenProperties
<1> QED
  BY <1>1, <1>3, <1>5, <1>6

\* A row is saved that has no live copy: its review was queued, or it is the first copy.
LEMMA RowsSaved ==
  ASSUME IInv, Rows, NEW row \in Row, question' = Saved(row), UNCHANGED review, NoCopy(question, row),
         \A other \in Row : other[1] \in Upload /\ Said(outcome, other) \in {"saved", "queued"} =>
                      Said(outcome', other) = Said(outcome, other),
         \/ \E i \in SheetReview : review[i].row = row
         \/ row[1] \in Upload /\ Said(outcome', row) = "saved" /\ \A q \in DOMAIN question : question[q].row # row
  PROVE  Rows'
<1>1. PICK n : n = Len(question) + 1
  OBVIOUS
<1>2. /\ DOMAIN question' = DOMAIN question \cup {n} /\ n \notin DOMAIN question
      /\ \A q \in DOMAIN question : question'[q] = question[q]
      /\ question'[n].row = row /\ question'[n].live
  BY <1>1, SavedIs
<1>3. SheetReview' = SheetReview
  BY DEF SheetReview
<1>4. /\ \A i \in SheetReview :
           /\ review[i].row[1] \in Upload /\ Said(outcome, review[i].row) = "queued"
           /\ \A k \in SheetReview : review[k].row = review[i].row => k = i
      /\ \A q \in DOMAIN question : question[q].row[1] # Bank =>
           question[q].row[1] \in Upload /\ Said(outcome, question[q].row) \in {"saved", "queued"}
      /\ \A q, p \in DOMAIN question : question[q].row = question[p].row /\ q # p =>
           \E i \in SheetReview : review[i].row = question[q].row
      /\ \A q, p \in DOMAIN question :
           question[q].live /\ question[p].live /\ question[q].row = question[p].row => q = p
  BY DEF Rows
<1>5. row[1] \in Upload /\ Said(outcome', row) \in {"saved", "queued"}
  BY <1>4, ReviewFacts
<1>6. \A i \in SheetReview' :
        /\ review'[i].row[1] \in Upload /\ Said(outcome', review'[i].row) = "queued"
        /\ \A k \in SheetReview' : review'[k].row = review'[i].row => k = i
  BY <1>3, <1>4, ReviewFacts
<1>7. \A q \in DOMAIN question' : question'[q].row[1] # Bank =>
        question'[q].row[1] \in Upload /\ Said(outcome', question'[q].row) \in {"saved", "queued"}
  <2>1. \A q \in DOMAIN question : question[q].row \in Row
    BY ReviewFacts DEF Question
  <2> QED
    BY <1>2, <1>4, <1>5, <2>1
<1>8. \A q, p \in DOMAIN question' : question'[q].row = question'[p].row /\ q # p =>
        \E i \in SheetReview' : review'[i].row = question'[q].row
  BY <1>2, <1>3, <1>4
<1>9. \A q, p \in DOMAIN question' :
        question'[q].live /\ question'[p].live /\ question'[q].row = question'[p].row => q = p
  BY <1>2, <1>4 DEF NoCopy, Copy
<1> QED
  BY <1>6, <1>7, <1>8, <1>9 DEF Rows

LEMMA SavedSame ==
  ASSUME IInv, NEW row \in Row, question' = Saved(row), UNCHANGED review, NEW i, review[i].row # row
  PROVE  Same4(i)
<1>1. PICK n : n = Len(question) + 1
  OBVIOUS
<1>2. /\ DOMAIN question' = DOMAIN question \cup {n}
      /\ \A q \in DOMAIN question : question'[q] = question[q]
      /\ question'[n].row = row
  BY <1>1, SavedIs
<1> QED
  BY <1>2 DEF Same4, Copy

LEMMA CalmMake ==
  ASSUME IInv, [Next]_vars, CalmInv, Calm', NEW w \in Worker, Make(w)
  PROVE  CalmInv'
<1>0. PICK i, n : i = worker[w].id /\ n = Len(question) + 1
  OBVIOUS
<1>1. /\ worker[w].pc = "make" /\ UNCHANGED <<review, job, outcome>> /\ i \in SheetReview /\ review[i].row \in Row
      /\ Of(w) = review[i]
  <2>1. worker[w].pc = "make" /\ UNCHANGED <<review, job, outcome>>
    BY DEF Make, At
  <2>2. worker[w].id \in 1..Len(review) /\ review[worker[w].id].row # NoRow
    BY <2>1, WorkerFacts DEF WorkerOK
  <2> QED
    BY <1>0, <2>1, <2>2, ReviewFacts DEF SheetReview, Of
<1>2. /\ question' = Saved(review[i].row)
      /\ \E pc \in {"hide", "remember"} : Become(w, [worker[w] EXCEPT !.pc = pc, !.made = Len(Saved(review[i].row))])
  BY <1>1, CalmBack DEF Make
<1>3. /\ DOMAIN question' = DOMAIN question \cup {n} /\ n \notin DOMAIN question
      /\ \A q \in DOMAIN question : question'[q] = question[q]
      /\ question'[n].row = review[i].row /\ question'[n].live /\ Len(Saved(review[i].row)) = n
  BY <1>0, <1>1, <1>2, SavedIs
<1>4. /\ \A x \in Worker \ {w} : worker'[x] = worker[x]
      /\ worker'[w].pc \in {"hide", "remember"} /\ worker'[w].made = n
      /\ worker'[w].id = i /\ worker'[w].act = worker[w].act
  <2>1. worker \in [Worker -> Request] /\ worker[w] \in Request
    BY DEF IInv, Workers
  <2>2. PICK pc \in {"hide", "remember"} : worker' = [worker EXCEPT ![w] = [worker[w] EXCEPT !.pc = pc, !.made = n]]
    BY <1>2, <1>3 DEF Become
  <2> QED
    BY <1>0, <2>1, <2>2 DEF Request
<1>5. /\ NoCopy(question, review[i].row) /\ review[i].made = 0 /\ review[i].status = worker[w].act
      /\ worker[w].act \in {"KEPT_NEW", "KEPT_BOTH"} /\ \A x \in Worker \ {w} : Away(x, i)
  BY <1>0, <1>1 DEF CalmInv, CalmReview, AloneOK, At4, Away, Applying
<1>6. SheetReview' = SheetReview
  BY <1>1 DEF SheetReview
<1>7. Rows'
  BY <1>1, <1>2, <1>5, RowsSaved DEF CalmInv
<1>8. ASSUME NEW k \in SheetReview, k # i PROVE Same4(k) /\ Away(w, k) /\ Away(w, k)'
  <2>1. review[k].row # review[i].row
    BY <1>1, <1>8 DEF CalmInv, Rows
  <2>2. Same4(k)
    BY <1>1, <1>2, <2>1, SavedSame
  <2> QED
    BY <1>0, <1>4, <1>8, <2>2 DEF Away, At4
<1>9. \A u \in Upload : Linked(u) = i /\ job[u].pc \in {"make", "drop"} => LinkFine(u)
  BY <1>1, <1>5 DEF LinkFine, CalmInv, CalmJob, JobAt
<1>10. CalmReview(i)'
  <2>1. \A q : Copy(question', q, review'[i].row) => q = n
    BY <1>1, <1>3, <1>5 DEF NoCopy, Copy
  <2>2. \A x \in Worker \ {w} : Away(x, i)'
    BY <1>4, <1>5 DEF Away, At4
  <2>3. review'[i] = review[i]
    BY <1>1
  <2>4. PendingOK(i)'
    BY <1>5, <2>3 DEF PendingOK
  <2>5. DecidedOK(i)'
    BY <1>4, <1>5, <2>1, <2>3 DEF DecidedOK, At4
  <2>6. AloneOK(w, i)'
    BY <1>4, <1>5, <2>2, <2>3 DEF AloneOK, At4, Reverting
  <2>7. \A x \in Worker \ {w} : AloneOK(x, i)'
    BY <2>2 DEF AloneOK, Away, At4, Applying, Reverting
  <2> QED
    BY <2>4, <2>5, <2>6, <2>7 DEF CalmReview
<1> QED
  BY <1>1, <1>4, <1>6, <1>7, <1>8, <1>9, <1>10, WorkerActs

LEMMA OthersAway ==
  ASSUME NEW i, CalmReview(i), NEW w \in Worker, ~Away(w, i), \A x \in Worker \ {w} : worker'[x] = worker[x]
  PROVE  \A x \in Worker \ {w} : Away(x, i) /\ Away(x, i)' /\ AloneOK(x, i)'
<1>1. \A x \in Worker \ {w} : Away(x, i)
  BY DEF CalmReview, AloneOK
<1>2. \A x \in Worker \ {w} : Away(x, i)'
  BY <1>1 DEF Away, At4
<1>3. \A x \in Worker \ {w} : AloneOK(x, i)'
  BY <1>2 DEF AloneOK, Away, At4, Applying, Reverting
<1> QED
  BY <1>1, <1>2, <1>3

LEMMA LinkStill ==
  ASSUME NEW u \in Upload, CalmJob(u), Same4(Linked(u))
  PROVE  LinkFine(u)
BY DEF CalmJob, LinkFine, Same4, NoCopy

LEMMA CalmHide ==
  ASSUME IInv, [Next]_vars, CalmInv, Calm', NEW w \in Worker, Hide(w)
  PROVE  CalmInv'
<1>0. PICK i : i = worker[w].id
  OBVIOUS
<1>1. /\ worker[w].pc = "hide" /\ UNCHANGED <<review, job, outcome>> /\ Show(Loser(w), FALSE)
      /\ GoTo(w, IF FromSheet(i) THEN "remember" ELSE "publish")
  BY <1>0, CalmBack DEF Hide, Tries, At
<1>2. /\ \A x \in Worker \ {w} : worker'[x] = worker[x]
      /\ worker'[w].pc = IF FromSheet(i) THEN "remember" ELSE "publish"
      /\ worker'[w].id = i /\ worker'[w].made = worker[w].made /\ worker'[w].act = worker[w].act
  BY <1>0, <1>1, GoesTo
<1>3. Rows' /\ SheetReview' = SheetReview
  BY <1>1, RowsShown DEF CalmInv, SheetReview
<1>4. \A k : Same4(k)
  BY <1>1, HiddenSame
<1>5. \A k : k # i => Away(w, k) /\ Away(w, k)'
  BY <1>0, <1>2 DEF Away, At4
<1>6. ASSUME i \in SheetReview PROVE CalmReview(i)'
  <2>1. CalmReview(i) /\ At4(w, i, Applying) /\ At4(w, i, {"hide", "remember"}) /\ ~Away(w, i)
    BY <1>0, <1>1, <1>6 DEF CalmInv, At4, Away, Applying
  <2>2. \A x \in Worker \ {w} : Away(x, i) /\ Away(x, i)' /\ AloneOK(x, i)'
    BY <2>1, <1>2, OthersAway
  <2>3. worker'[w].pc = "remember"
    BY <1>2, <1>6 DEF FromSheet, SheetReview
  <2>4. /\ review[i].made = 0 /\ review[i].status = worker[w].act /\ worker[w].act \in {"KEPT_NEW", "KEPT_BOTH"}
    BY <2>1 DEF CalmReview, AloneOK
  <2>5. /\ review'[i] = review[i] /\ \A q : Copy(question', q, review[i].row) => Copy(question, q, review[i].row)
    BY <1>1, <1>4 DEF Same4
  <2>6. PendingOK(i)'
    BY <2>4, <2>5 DEF PendingOK
  <2>7. DecidedOK(i)'
    <3>1. \A q : Copy(question, q, review[i].row) => worker[w].made = q
      <4>1. ASSUME NEW q, Copy(question, q, review[i].row) PROVE worker[w].made = q
        <5>1. q # 0
          BY <4>1, ReviewFacts DEF Copy
        <5>2. PICK x \in Worker : At4(x, i, {"hide", "remember"}) /\ worker[x].made = q
          BY <2>1, <2>4, <4>1, <5>1 DEF CalmReview, DecidedOK
        <5>3. x = w
          BY <2>2, <5>2 DEF Away, At4, Applying
        <5> QED
          BY <5>2, <5>3
      <4> QED
        BY <4>1
    <3> QED
      BY <1>2, <2>3, <2>4, <2>5, <3>1 DEF DecidedOK, At4
  <2>8. AloneOK(w, i)'
    BY <1>2, <2>2, <2>3, <2>4, <2>5 DEF AloneOK, At4, Reverting
  <2> QED
    BY <2>2, <2>6, <2>7, <2>8 DEF CalmReview
<1>7. \A u \in Upload : LinkFine(u)
  BY <1>4, LinkStill DEF CalmInv
<1>8. worker'[w].pc # "putBack"
  BY <1>2
<1> QED
  BY <1>1, <1>2, <1>3, <1>4, <1>5, <1>6, <1>7, <1>8, WorkerActs

LEMMA CalmRemember ==
  ASSUME IInv, [Next]_vars, CalmInv, Calm', NEW w \in Worker, Remember(w)
  PROVE  CalmInv'
<1>0. PICK i, m : i = worker[w].id /\ m = worker[w].made
  OBVIOUS
<1>1. /\ worker[w].pc = "remember" /\ UNCHANGED <<question, job, outcome>> /\ GoTo(w, "idle")
      /\ review' = WithMade(review, i, m)
  BY <1>0, CalmBack DEF Remember, Tries, At, WithMade
<1>2. i \in SheetReview /\ i \in 1..Len(review)
  <2>1. worker[w].id \in 1..Len(review) /\ review[worker[w].id].row # NoRow
    BY <1>1, WorkerFacts DEF WorkerOK
  <2> QED
    BY <1>0, <2>1 DEF SheetReview
<1>3. \A x \in Worker \ {w} : worker'[x] = worker[x]
  BY <1>1, GoesTo
<1>4. worker'[w].pc = "idle"
  BY <1>1, GoesTo
<1>5. /\ SheetReview' = SheetReview
      /\ \A k \in 1..Len(review) :
           /\ review'[k].row = review[k].row /\ review'[k].status = review[k].status
           /\ review'[k].made = IF k = i THEN m ELSE review[k].made
  BY <1>1, <1>2, MadeIs
<1>6. Rows'
  BY <1>1, <1>5, RowsStill DEF SheetReview, CalmInv
<1>7. \A k \in SheetReview : k # i => Same4(k) /\ Away(w, k) /\ Away(w, k)'
  BY <1>0, <1>1, <1>4, <1>5 DEF Same4, Copy, SheetReview, Away, At4, Applying, Reverting
<1>8. CalmReview(i) /\ At4(w, i, Applying) /\ ~Away(w, i)
  BY <1>0, <1>1, <1>2 DEF CalmInv, At4, Away, Applying
<1>9. \A x \in Worker \ {w} : Away(x, i) /\ Away(x, i)' /\ AloneOK(x, i)'
  BY <1>3, <1>8, OthersAway
<1>10. /\ review[i].made = 0 /\ review[i].status = worker[w].act /\ worker[w].act \in {"KEPT_NEW", "KEPT_BOTH"}
  BY <1>8 DEF CalmReview, AloneOK
<1>11. CalmReview(i)'
  <2>1. review'[i].row = review[i].row /\ review'[i].status = review[i].status /\ review'[i].made = m
    BY <1>2, <1>5
  <2>2. PendingOK(i)'
    BY <1>10, <2>1 DEF PendingOK
  <2>3. \A q : Copy(question, q, review[i].row) => m = q
    <3>1. ASSUME NEW q, Copy(question, q, review[i].row) PROVE m = q
      <4>1. q # 0
        BY <3>1, ReviewFacts DEF Copy
      <4>2. PICK x \in Worker : At4(x, i, {"hide", "remember"}) /\ worker[x].made = q
        BY <1>8, <1>10, <3>1, <4>1 DEF CalmReview, DecidedOK
      <4>3. x = w
        BY <1>9, <4>2 DEF Away, At4, Applying
      <4> QED
        BY <1>0, <4>2, <4>3
    <3> QED
      BY <3>1
  <2>4. DecidedOK(i)'
    BY <1>1, <1>10, <2>1, <2>3 DEF DecidedOK
  <2>5. AloneOK(w, i)'
    BY <1>4 DEF AloneOK, Away, At4, Applying, Reverting
  <2> QED
    BY <1>9, <2>2, <2>4, <2>5 DEF CalmReview
<1>12. \A u \in Upload : Linked(u) = i /\ job[u].pc \in {"make", "drop"} => LinkFine(u)
  BY <1>2, <1>5, <1>10 DEF LinkFine, CalmInv, CalmJob, JobAt
<1> QED
  BY <1>1, <1>3, <1>4, <1>5, <1>6, <1>7, <1>11, <1>12, WorkerActs

\* A copy that is shown is the one the decision on its row has saved, or its row
\* has no review: no request is past the claim of that review.
LEMMA ShownOnce ==
  ASSUME IInv, CalmInv, NEW n \in DOMAIN question, ~Again(n)
  PROVE  /\ \A q : Copy(question, q, question[n].row) => q = n
         /\ \A i \in SheetReview : review[i].row = question[n].row =>
              /\ review[i].status \in {"KEPT_NEW", "KEPT_BOTH"} /\ review[i].made = n
              /\ \A x \in Worker : Away(x, i)
<1>1. n # 0
  BY ReviewFacts
<1>2. ASSUME NEW i \in SheetReview, review[i].row = question[n].row
      PROVE  /\ review[i].status \in {"KEPT_NEW", "KEPT_BOTH"} /\ review[i].made = n
             /\ \A x \in Worker : Away(x, i)
             /\ \A q : Copy(question, q, question[n].row) => q = n
  <2>1. review[i] \in Range(review)
    BY ReviewFacts DEF Range
  <2>2. review[i].status \in {"KEPT_NEW", "KEPT_BOTH"} /\ review[i].made = n
    BY <1>2, <2>1 DEF Again
  <2>3. CalmReview(i)
    BY DEF CalmInv
  <2>4. \A x \in Worker : Away(x, i)
    BY <1>1, <2>2, <2>3 DEF CalmReview, AloneOK, Away, At4
  <2>5. \A q : Copy(question, q, question[n].row) => q = n
    BY <1>2, <2>2, <2>3, <2>4 DEF CalmReview, DecidedOK, Away, At4, Applying
  <2> QED
    BY <2>2, <2>4, <2>5
<1>3. \A q : Copy(question, q, question[n].row) => q = n
  BY <1>2 DEF Copy, CalmInv, Rows
<1> QED
  BY <1>2, <1>3

LEMMA ShownSame ==
  ASSUME IInv, NEW n, Show(n, TRUE), UNCHANGED review, NEW i, n \in DOMAIN question => review[i].row # question[n].row
  PROVE  Same4(i)
BY ShowIs DEF Same4, Copy

LEMMA RowsShowTrue ==
  ASSUME IInv, CalmInv, NEW n, Show(n, TRUE), ~Again(n), UNCHANGED <<review, outcome>>
  PROVE  Rows'
<1>1. CASE n \in DOMAIN question
  BY <1>1, ShownOnce, RowsShown DEF CalmInv
<1>2. CASE n \notin DOMAIN question
  <2>1. /\ DOMAIN question' = DOMAIN question
        /\ \A q \in DOMAIN question : /\ question'[q].row = question[q].row
                                      /\ question'[q].live = IF q = n THEN TRUE ELSE question[q].live
    BY ShowIs
  <2>2. \A q, p \in DOMAIN question :
          question'[q].live /\ question'[p].live /\ question[q].row = question[p].row => q = p
    BY <1>2, <2>1 DEF CalmInv, Rows
  <2>3. SheetReview' = SheetReview
    BY DEF SheetReview
  <2> QED
    BY <2>1, <2>2, <2>3, RowsKept DEF CalmInv
<1> QED
  BY <1>1, <1>2

\* What a step that shows a copy leaves, of the reviews it does not belong to.
LEMMA ReviewShown ==
  ASSUME IInv, CalmInv, NEW n, Show(n, TRUE), ~Again(n), UNCHANGED <<review, job>>, NEW i \in SheetReview,
         NEW w \in Worker, \A x \in Worker \ {w} : worker'[x] = worker[x], Away(w, i), Away(w, i)'
  PROVE  CalmReview(i)' /\ \A u \in Upload : Linked(u) = i /\ job[u].pc \in {"make", "drop"} => LinkFine(u)
<1>1. CASE n \in DOMAIN question => review[i].row # question[n].row
  <2>1. Same4(i)
    BY <1>1, ShownSame
  <2>2. \A u \in Upload : JobAt(u, "drop") /\ Linked(u) = i => JobAt(u, "drop")' /\ Linked(u)' = i
    BY DEF JobAt, Linked
  <2>3. CalmReview(i) /\ \A u \in Upload : CalmJob(u)
    BY DEF CalmInv
  <2>4. \A x \in Worker : worker'[x] = worker[x] \/ (Away(x, i) /\ Away(x, i)')
    OBVIOUS
  <2>5. CalmReview(i)'
    BY <2>1, <2>2, <2>3, <2>4, ReviewKept
  <2>6. \A u \in Upload : Linked(u) = i => LinkFine(u)
    BY <2>1, <2>3, LinkStill
  <2> QED
    BY <2>5, <2>6
<1>2. CASE n \in DOMAIN question /\ review[i].row = question[n].row
  <2>1. /\ review[i].status \in {"KEPT_NEW", "KEPT_BOTH"} /\ review[i].made = n
        /\ \A x \in Worker : Away(x, i)
        /\ \A q : Copy(question, q, question[n].row) => q = n
    BY <1>2, ShownOnce
  <2>2. /\ DOMAIN question' = DOMAIN question
        /\ \A q \in DOMAIN question : /\ question'[q].row = question[q].row
                                      /\ question'[q].live = IF q = n THEN TRUE ELSE question[q].live
    BY ShowIs
  <2>3. \A q : Copy(question', q, review[i].row) => q = n
    BY <1>2, <2>1, <2>2 DEF Copy
  <2>4. \A x \in Worker : Away(x, i)'
    BY <2>1 DEF Away, At4
  <2>5. PendingOK(i)' /\ DecidedOK(i)'
    BY <2>1, <2>3 DEF PendingOK, DecidedOK
  <2>6. \A x \in Worker : AloneOK(x, i)'
    BY <2>4 DEF AloneOK, Away, At4, Applying, Reverting
  <2>7. \A u \in Upload : Linked(u) = i /\ job[u].pc \in {"make", "drop"} => LinkFine(u)
    BY <2>1 DEF LinkFine, CalmInv, CalmJob, JobAt
  <2> QED
    BY <2>5, <2>6, <2>7 DEF CalmReview
<1> QED
  BY <1>1, <1>2

\* An undo goes on: the copy it has hidden is gone, and the review waits.
LEMMA RevertsOn ==
  ASSUME IInv, CalmInv, NEW i \in SheetReview, Same4(i), NEW w \in Worker, At4(w, i, Reverting), UNCHANGED job,
         \A x \in Worker \ {w} : worker'[x] = worker[x], worker'[w].id = i, worker'[w].pc \in {"restore", "forget"},
         \A q : Copy(question', q, review[i].row) => worker[w].pc # "unhide" \/ worker[w].made # q
  PROVE  CalmReview(i)' /\ \A u \in Upload : Linked(u) = i => LinkFine(u)
<1>1. CalmReview(i) /\ ~Away(w, i) /\ \A u \in Upload : CalmJob(u)
  BY DEF CalmInv, Away, At4
<1>2. \A x \in Worker \ {w} : Away(x, i) /\ Away(x, i)' /\ AloneOK(x, i)'
  BY <1>1, OthersAway
<1>3. review[i].status \in {"PENDING", "gone"}
  BY <1>1 DEF CalmReview, AloneOK
<1>4. At4(w, i, Reverting)'
  BY DEF At4, Reverting
<1>5. PendingOK(i)'
  <2>1. ASSUME review[i].status = "PENDING", NEW q, Copy(question', q, review[i].row)
        PROVE  \E u \in Upload : JobAt(u, "drop") /\ Linked(u) = i
    <3>1. Copy(question, q, review[i].row)
      BY <2>1 DEF Same4
    <3>2. ASSUME NEW x \in Worker, At4(x, i, {"unhide"}), worker[x].made = q PROVE FALSE
      <4>1. x = w
        BY <1>2, <3>2 DEF Away, At4, Reverting
      <4> QED
        BY <2>1, <3>2, <4>1 DEF At4
    <3> QED
      BY <1>1, <2>1, <3>1, <3>2 DEF CalmReview, PendingOK
  <2>2. \A u \in Upload : JobAt(u, "drop")' <=> JobAt(u, "drop")
    BY DEF JobAt
  <2>3. \A u \in Upload : Linked(u)' = Linked(u)
    BY DEF Linked
  <2> QED
    BY <1>4, <2>1, <2>2, <2>3 DEF PendingOK, Same4
<1>6. DecidedOK(i)'
  BY <1>3 DEF DecidedOK, Same4
<1>7. AloneOK(w, i)'
  BY <1>2, <1>3 DEF AloneOK, At4, Applying, Same4
<1> QED
  BY <1>1, <1>2, <1>5, <1>6, <1>7, LinkStill DEF CalmReview

LEMMA CalmPublish ==
  ASSUME IInv, [Next]_vars, CalmInv, Calm', NEW w \in Worker, Publish(w)
  PROVE  CalmInv'
<1>1. /\ worker[w].pc = "publish" /\ UNCHANGED <<review, job, outcome>> /\ GoTo(w, "idle")
      /\ UNCHANGED question \/ (Show(Winner(w), TRUE) /\ ~Again(Winner(w)))
  BY CalmBack DEF Publish, Tries, At, Calm
<1>2. (\A x \in Worker \ {w} : worker'[x] = worker[x]) /\ worker'[w].pc = "idle"
  BY <1>1, GoesTo
<1>3. CASE UNCHANGED question
  BY <1>1, <1>2, <1>3, ReadsCalm DEF Applying, Reverting
<1>4. CASE Show(Winner(w), TRUE) /\ ~Again(Winner(w))
  <2>1. PICK n : n = Winner(w)
    OBVIOUS
  <2>2. Rows' /\ SheetReview' = SheetReview
    BY <1>1, <1>4, <2>1, RowsShowTrue DEF SheetReview
  <2>3. \A i : Away(w, i) /\ Away(w, i)'
    BY <1>1, <1>2 DEF Away, At4, Applying, Reverting
  <2>4. \A i \in SheetReview :
          CalmReview(i)' /\ \A u \in Upload : Linked(u) = i /\ job[u].pc \in {"make", "drop"} => LinkFine(u)
    BY <1>1, <1>2, <1>4, <2>1, <2>3, ReviewShown
  <2> QED
    BY <1>1, <1>2, <2>2, <2>4, WorkerActs
<1> QED
  BY <1>1, <1>3, <1>4

\* Where an undo stands after a statement, in a review of a sheet.
LEMMA UndoGoes ==
  ASSUME NEW w, FromSheet(worker[w].id)
  PROVE  /\ ThenForget(w) = "forget" /\ ThenRestore(w) \in {"restore", "forget"} /\ ThenHide(w) \in Reverting
         /\ worker[w].made # 0 => ThenHide(w) = "unhide"
BY DEF ThenForget, ThenRestore, ThenHide, Reverting

LEMMA CalmUndoRestore ==
  ASSUME IInv, [Next]_vars, CalmInv, Calm', NEW w \in Worker, UndoRestore(w)
  PROVE  CalmInv'
<1>0. PICK i, n : i = worker[w].id /\ n = worker[w].old
  OBVIOUS
<1>1. /\ worker[w].pc = "restore" /\ UNCHANGED <<review, job, outcome>> /\ GoTo(w, ThenForget(w))
      /\ Show(n, TRUE) /\ ~Again(n)
  BY <1>0, CalmBack DEF UndoRestore, Tries, At, Calm
<1>2. /\ \A x \in Worker \ {w} : worker'[x] = worker[x]
      /\ worker'[w].pc = ThenForget(w) /\ worker'[w].pc \in {"idle", "forget"}
      /\ worker'[w].pc # "idle" => worker'[w].id = i
  BY <1>0, <1>1, GoesTo DEF ThenForget
<1>3. Rows' /\ SheetReview' = SheetReview
  BY <1>1, RowsShowTrue DEF SheetReview
<1>4. ASSUME NEW k \in SheetReview, k # i
      PROVE  CalmReview(k)' /\ \A u \in Upload : Linked(u) = k /\ job[u].pc \in {"make", "drop"} => LinkFine(u)
  <2>1. Away(w, k) /\ Away(w, k)'
    BY <1>0, <1>2, <1>4 DEF Away, At4, Applying, Reverting
  <2> QED
    BY <1>1, <1>2, <2>1, ReviewShown
<1>5. ASSUME i \in SheetReview
      PROVE  CalmReview(i)' /\ \A u \in Upload : Linked(u) = i => LinkFine(u)
  <2>1. At4(w, i, Reverting) /\ CalmReview(i)
    BY <1>0, <1>1, <1>5 DEF At4, Reverting, CalmInv
  <2>2. review[i].status \in {"PENDING", "gone"}
    BY <2>1 DEF CalmReview, AloneOK
  <2>3. n \in DOMAIN question => review[i].row # question[n].row
    BY <1>1, <1>5, <2>2, ShownOnce
  <2>4. Same4(i)
    BY <1>1, <2>3, ShownSame
  <2>5. worker'[w].pc = "forget" /\ worker'[w].id = i
    BY <1>0, <1>2, <1>5, UndoGoes DEF SheetReview, FromSheet
  <2> QED
    BY <1>1, <1>2, <1>5, <2>1, <2>4, <2>5, RevertsOn
<1> QED
  BY <1>1, <1>2, <1>3, <1>4, <1>5, WorkerActs

LEMMA CalmUndoHide ==
  ASSUME IInv, [Next]_vars, CalmInv, Calm', NEW w \in Worker, UndoHide(w)
  PROVE  CalmInv'
<1>0. PICK i, n : i = worker[w].id /\ n = worker[w].made
  OBVIOUS
<1>1. /\ worker[w].pc = "unhide" /\ UNCHANGED <<review, job, outcome>> /\ GoTo(w, ThenRestore(w)) /\ Show(n, FALSE)
  BY <1>0, CalmBack DEF UndoHide, Tries, At
<1>2. /\ \A x \in Worker \ {w} : worker'[x] = worker[x]
      /\ worker'[w].pc = ThenRestore(w) /\ worker'[w].pc \in {"idle", "restore", "forget"}
      /\ worker'[w].pc # "idle" => worker'[w].id = i
  BY <1>0, <1>1, GoesTo DEF ThenRestore, ThenForget
<1>3. Rows' /\ SheetReview' = SheetReview
  BY <1>1, RowsShown DEF CalmInv, SheetReview
<1>4. \A k : Same4(k)
  BY <1>1, HiddenSame
<1>5. \A k : k # i => Away(w, k) /\ Away(w, k)'
  BY <1>0, <1>2 DEF Away, At4, Applying, Reverting
<1>6. ASSUME i \in SheetReview
      PROVE  CalmReview(i)' /\ \A u \in Upload : Linked(u) = i => LinkFine(u)
  <2>1. At4(w, i, Reverting)
    BY <1>0, <1>1 DEF At4, Reverting
  <2>2. worker'[w].pc \in {"restore", "forget"} /\ worker'[w].id = i
    BY <1>0, <1>2, <1>6, UndoGoes DEF SheetReview, FromSheet
  <2>3. \A q : Copy(question', q, review[i].row) => n # q
    BY <1>1, ShowIs DEF Copy
  <2> QED
    BY <1>0, <1>1, <1>2, <1>4, <1>6, <2>1, <2>2, <2>3, RevertsOn
<1>7. worker'[w].pc # "putBack"
  BY <1>2
<1> QED
  BY <1>1, <1>2, <1>3, <1>4, <1>5, <1>6, <1>7, WorkerActs

LEMMA CalmForget ==
  ASSUME IInv, [Next]_vars, CalmInv, Calm', NEW w \in Worker, Forget(w)
  PROVE  CalmInv'
<1>0. PICK i : i = worker[w].id
  OBVIOUS
<1>1. /\ worker[w].pc = "forget" /\ UNCHANGED <<question, job, outcome>> /\ GoTo(w, "idle")
      /\ review' = WithMade(review, i, 0)
  BY <1>0, CalmBack DEF Forget, Tries, At, WithMade
<1>2. i \in 1..Len(review)
  BY <1>0, <1>1, WorkerFacts
<1>3. (\A x \in Worker \ {w} : worker'[x] = worker[x]) /\ worker'[w].pc = "idle"
  BY <1>1, GoesTo
<1>4. /\ SheetReview' = SheetReview
      /\ \A k \in 1..Len(review) :
           /\ review'[k].row = review[k].row /\ review'[k].status = review[k].status
           /\ review'[k].made = IF k = i THEN 0 ELSE review[k].made
  BY <1>1, <1>2, MadeIs
<1>5. Rows'
  BY <1>1, <1>4, RowsStill DEF SheetReview, CalmInv
<1>6. \A k \in SheetReview : k # i => Same4(k) /\ Away(w, k) /\ Away(w, k)'
  BY <1>0, <1>1, <1>3, <1>4 DEF Same4, Copy, SheetReview, Away, At4, Applying, Reverting
<1>7. ASSUME i \in SheetReview
      PROVE  CalmReview(i)' /\ \A u \in Upload : Linked(u) = i /\ job[u].pc \in {"make", "drop"} => LinkFine(u)
  <2>1. CalmReview(i) /\ At4(w, i, Reverting) /\ ~Away(w, i)
    BY <1>0, <1>1, <1>7 DEF CalmInv, At4, Away, Reverting
  <2>2. \A x \in Worker \ {w} : Away(x, i) /\ Away(x, i)' /\ AloneOK(x, i)'
    BY <1>3, <2>1, OthersAway
  <2>3. review[i].status \in {"PENDING", "gone"}
    BY <2>1 DEF CalmReview, AloneOK
  <2>4. review'[i].row = review[i].row /\ review'[i].status = review[i].status /\ review'[i].made = 0
    BY <1>2, <1>4
  <2>5. PendingOK(i)'
    <3>1. ASSUME NEW x \in Worker, At4(x, i, {"unhide"}) PROVE FALSE
      <4>1. x = w
        BY <2>2, <3>1 DEF Away, At4, Reverting
      <4> QED
        BY <1>1, <3>1, <4>1 DEF At4
    <3>2. review[i].status = "PENDING" =>
            \A q : Copy(question, q, review[i].row) => \E u \in Upload : JobAt(u, "drop") /\ Linked(u) = i
      BY <2>1, <3>1 DEF CalmReview, PendingOK
    <3>3. \A u \in Upload : (JobAt(u, "drop")' <=> JobAt(u, "drop")) /\ Linked(u)' = Linked(u)
      BY <1>1 DEF JobAt, Linked
    <3> QED
      BY <1>1, <2>4, <3>2, <3>3 DEF PendingOK
  <2>6. DecidedOK(i)'
    BY <2>3, <2>4 DEF DecidedOK
  <2>7. AloneOK(w, i)'
    BY <1>3 DEF AloneOK, Away, At4, Applying, Reverting
  <2>8. \A u \in Upload : Linked(u) = i => LinkFine(u)
    BY <1>1, <2>4 DEF LinkFine, CalmInv, CalmJob
  <2> QED
    BY <2>2, <2>5, <2>6, <2>7, <2>8 DEF CalmReview
<1> QED
  BY <1>1, <1>3, <1>4, <1>5, <1>6, <1>7, WorkerActs

LEMMA CalmUndoClaim ==
  ASSUME IInv, [Next]_vars, CalmInv, Calm', NEW w \in Worker, UndoClaim(w)
  PROVE  CalmInv'
<1>0. PICK i, m : i = worker[w].id /\ m = worker[w].made
  OBVIOUS
<1>1. worker[w].pc = "unclaim" /\ UNCHANGED <<question, job, outcome>> /\ i \in 1..Len(review) /\ Of(w) = review[i]
      /\ worker[w].was \in Decision \cup {"PENDING"}
  BY <1>0, WorkerFacts DEF UndoClaim, At, Request
<1>2. CASE GoTo(w, "idle") /\ UNCHANGED review
  BY <1>1, <1>2, GoesTo, ReadsCalm DEF Applying, Reverting
<1>3. CASE /\ Of(w).status = worker[w].was /\ ~Busy(w, i) /\ review[i].made = m
           /\ review' = Status(i, "PENDING") /\ GoTo(w, ThenHide(w))
  <2>1. /\ SheetReview' = SheetReview
        /\ \A k \in 1..Len(review) :
             /\ review'[k].row = review[k].row /\ review'[k].made = review[k].made
             /\ review'[k].status = IF k = i THEN "PENDING" ELSE review[k].status
    <3>1. review[i].status # "gone"
      BY <1>1, <1>3 DEF Decision
    <3> QED
      BY <1>1, <1>3, <3>1, StatusIs
  <2>2. Rows'
    BY <1>1, <2>1, RowsStill DEF SheetReview, CalmInv
  <2>3. /\ \A x \in Worker \ {w} : worker'[x] = worker[x]
        /\ worker'[w].pc = ThenHide(w) /\ ThenHide(w) \in {"idle", "unhide", "restore", "forget"}
        /\ ThenHide(w) # "idle" => worker'[w].id = i /\ worker'[w].made = m
    BY <1>0, <1>3, GoesTo DEF ThenHide, ThenRestore, ThenForget
  <2>4. \A x \in Worker \ {w} : Away(x, i) /\ Away(x, i)'
    <3>1. \A x \in Worker \ {w} : Away(x, i)
      BY <1>3 DEF Busy, Away, At4, Applying, Reverting
    <3> QED
      BY <2>3, <3>1 DEF Away, At4
  <2>5. Away(w, i)
    BY <1>1 DEF Away, At4, Applying, Reverting
  <2>6. ASSUME NEW k \in SheetReview, k # i PROVE Same4(k) /\ Away(w, k) /\ Away(w, k)'
    <3>1. Same4(k)
      BY <1>1, <2>1, <2>6 DEF Same4, Copy, SheetReview
    <3>2. Away(w, k) /\ Away(w, k)'
      BY <1>0, <2>3, <2>6, <1>1 DEF Away, At4, Applying, Reverting
    <3> QED
      BY <3>1, <3>2
  <2>7. ASSUME i \in SheetReview
        PROVE  CalmReview(i)' /\ \A u \in Upload : Linked(u) = i /\ job[u].pc \in {"make", "drop"} => LinkFine(u)
    <3>1. CalmReview(i)
      BY <2>7 DEF CalmInv
    <3>2. \A u \in Upload : ~(Linked(u) = i /\ job[u].pc \in {"make", "drop"})
      BY <1>3 DEF Busy
    <3>3. worker'[w].pc \in Reverting /\ worker'[w].id = i /\ (m # 0 => worker'[w].pc = "unhide" /\ worker'[w].made = m)
      <4>1. ThenHide(w) \in Reverting /\ (m # 0 => ThenHide(w) = "unhide")
        BY <1>0, <2>7, UndoGoes DEF FromSheet, SheetReview
      <4> QED
        BY <2>3, <4>1 DEF Reverting
    <3>4. ASSUME NEW q, Copy(question, q, review[i].row) PROVE q = m /\ q # 0
      <4>1. q # 0
        BY <3>4, ReviewFacts DEF Copy
      <4>2. \A x \in Worker : ~At4(x, i, {"unhide"}) /\ ~At4(x, i, {"hide", "remember"})
        BY <2>4, <2>5 DEF Away, At4, Applying, Reverting
      <4>3. review[i].status # "PENDING"
        BY <3>1, <3>2, <3>4, <4>2 DEF CalmReview, PendingOK, JobAt
      <4>4. review[i].status # "KEPT_EXISTING"
        BY <3>1, <3>4 DEF CalmReview, DecidedOK, NoCopy
      <4>5. review[i].status \in {"KEPT_NEW", "KEPT_BOTH"}
        BY <1>1, <1>3, <4>3, <4>4 DEF Decision
      <4> QED
        BY <1>3, <3>1, <3>4, <4>1, <4>2, <4>5 DEF CalmReview, DecidedOK
    <3>5. review'[i].row = review[i].row /\ review'[i].status = "PENDING" /\ review'[i].made = m
      BY <1>1, <1>3, <2>1
    <3>6. PendingOK(i)'
      <4>1. \A q : Copy(question', q, review'[i].row) => worker'[w].pc = "unhide" /\ worker'[w].made = q
        BY <1>1, <3>3, <3>4, <3>5
      <4> QED
        BY <3>3, <3>5, <4>1 DEF PendingOK, At4
    <3>7. DecidedOK(i)'
      BY <3>5 DEF DecidedOK
    <3>8. AloneOK(w, i)'
      BY <2>4, <3>3, <3>5 DEF AloneOK, At4, Applying, Reverting
    <3>9. \A x \in Worker \ {w} : AloneOK(x, i)'
      BY <2>4 DEF AloneOK, Away, At4, Applying, Reverting
    <3> QED
      BY <3>2, <3>6, <3>7, <3>8, <3>9 DEF CalmReview
  <2>8. worker'[w].pc # "putBack"
    BY <2>3
  <2> QED
    BY <1>1, <2>1, <2>2, <2>3, <2>6, <2>7, <2>8, WorkerActs
<1> QED
  <2>1. ~Fault /\ ~crossed'
    BY CalmBack DEF Calm
  <2> QED
    BY <1>0, <1>1, <1>2, <1>3, <2>1 DEF UndoClaim

LEMMA CalmScanQueue ==
  ASSUME IInv, [Next]_vars, CalmInv, NEW w \in Worker, ScanQueue(w)
  PROVE  CalmInv'
<1>1. /\ worker[w].pc = "queue" /\ UNCHANGED <<question, job, outcome>> /\ GoTo(w, "idle")
      /\ \E others \in InOrder(worker[w].found) : review' \in {review, Paired(w, others)}
  BY DEF ScanQueue, Tries, At, Paired
<1>2. (\A x \in Worker \ {w} : worker'[x] = worker[x]) /\ worker'[w].pc = "idle"
  BY <1>1, GoesTo
<1>3. CASE UNCHANGED review
  BY <1>1, <1>2, <1>3, ReadsCalm DEF Applying, Reverting
<1>4. ASSUME NEW others \in InOrder(worker[w].found), review' = Paired(w, others) PROVE CalmInv'
  <2>1. /\ Older(question, review, cut, question, review', cut)
        /\ \A i \in 1..Len(review) : review'[i] = review[i]
        /\ \A i \in 1..Len(review') : i \notin 1..Len(review) => review'[i].row = NoRow
    BY <1>4, PairedOK
  <2>2. SheetReview' = SheetReview
    <3>1. Len(review) \in Nat /\ Len(review') \in Nat /\ Len(review) <= Len(review')
      BY <2>1, NextLengths DEF Older
    <3> QED
      BY <2>1, <3>1 DEF SheetReview
  <2>3. \A i \in SheetReview : review'[i] = review[i]
    BY <2>1 DEF SheetReview
  <2>4. Rows'
    BY <1>1, <2>2, <2>3, RowsStill DEF CalmInv
  <2>5. \A i \in SheetReview : Same4(i) /\ Away(w, i) /\ Away(w, i)'
    BY <1>1, <1>2, <2>3 DEF Same4, Copy, Away, At4, Applying, Reverting
  <2> QED
    BY <1>1, <1>2, <2>2, <2>4, <2>5, WorkerActs
<1> QED
  BY <1>1, <1>3, <1>4

LEMMA CalmPutBack ==
  ASSUME CalmInv, NEW w \in Worker, PutBack(w)
  PROVE  CalmInv'
BY DEF CalmInv, PutBack, At

LEMMA CalmWorker ==
  ASSUME IInv, [Next]_vars, CalmInv, Calm', NEW w \in Worker, WorkerNext(w)
  PROVE  CalmInv'
BY CalmRead, CalmResolveClaim, CalmMake, CalmHide, CalmRemember, CalmPublish, CalmPutBack,
   CalmUndoClaim, CalmUndoHide, CalmUndoRestore, CalmForget, CalmScanQueue DEF WorkerNext

-----------------------------------------------------------------------------
(* So does each statement of an upload. *)

LEMMA ReportedMore ==
  ASSUME IInv, NEW u \in Upload, NEW rows, rows \subseteq Waiting(u), NEW what \in Outcome, Report(u, rows, what)
  PROVE  /\ \A row \in Row : row[1] \in Upload /\ Said(outcome, row) \in {"saved", "queued"} =>
                               Said(outcome', row) = Said(outcome, row)
         /\ \A i \in rows : outcome'[u][i] = what /\ i \in DOMAIN Sheet[u] /\ <<u, i>> \in Row
<1>1. \A v \in Upload : \A i \in DOMAIN Sheet[v] : outcome'[v][i] = IF v = u /\ i \in rows THEN what ELSE outcome[v][i]
  BY Reported DEF IInv
<1>2. \A row \in Row : row[1] \in Upload => row[2] \in DOMAIN Sheet[row[1]]
  BY DEF Row
<1> QED
  BY <1>1, <1>2, RowOK DEF Waiting, Said

LEMMA JobGoesIs ==
  ASSUME IInv, NEW u \in Upload, NEW pc, JobGoes(u, pc)
  PROVE  /\ \A v \in Upload \ {u} : job'[v] = job[v]
         /\ job'[u].pc = pc /\ job'[u].links = job[u].links
<1>1. job \in [Upload -> Job]
  BY DEF IInv, Jobs
<1> QED
  BY <1>1 DEF JobGoes, Job

LEMMA NextLinkIs ==
  ASSUME IInv, NEW u \in Upload, NextLink(u)
  PROVE  /\ \A v \in Upload \ {u} : job'[v] = job[v]
         /\ job'[u].pc = "find" /\ job'[u].links = Tail(job[u].links)
<1>1. job \in [Upload -> Job] /\ job[u] \in Job
  BY DEF IInv, Jobs
<1>2. job' = [job EXCEPT ![u] = [job[u] EXCEPT !.pc = "find", !.links = Tail(job[u].links)]]
  BY <1>1 DEF NextLink
<1> QED
  BY <1>1, <1>2 DEF Job

\* A link loop that is not about to save or drop keeps the same reviews, or fewer.
LEMMA LinksKept ==
  ASSUME IInv, [Next]_vars, CalmInv, NEW u \in Upload,
         job'[u].pc \notin {"each", "single", "make", "drop"},
         \/ job'[u].links = job[u].links
         \/ job[u].links # <<>> /\ job'[u].links = Tail(job[u].links)
  PROVE  CalmJob(u)'
<1>1. job[u].links \in Seq(Nat) /\ Len(job[u].links) \in Nat
  BY JobFacts, LenProperties DEF Job
<1>2. \A k \in 1..Len(job[u].links) : review'[job[u].links[k]].row = review[job[u].links[k]].row
  BY JobFacts, NextLengths DEF JobOK, Older
<1>3. \A k \in 1..Len(job[u].links) : review'[job[u].links[k]].row[1] = u
  BY <1>2 DEF CalmInv, CalmJob
<1>4. \A k \in 1..Len(job'[u].links) : review'[job'[u].links[k]].row[1] = u
  <2>1. CASE job[u].links # <<>> /\ job'[u].links = Tail(job[u].links)
    <3>1. /\ Len(job'[u].links) = Len(job[u].links) - 1
          /\ \A k \in 1..Len(job'[u].links) : job'[u].links[k] = job[u].links[k + 1]
      BY <1>1, <2>1, HeadTailProperties
    <3>2. \A k \in 1..Len(job'[u].links) : k + 1 \in 1..Len(job[u].links)
      BY <1>1, <3>1
    <3> QED
      BY <1>3, <3>1, <3>2
  <2> QED
    BY <1>3, <2>1
<1> QED
  BY <1>4 DEF CalmJob, JobAt

\* Nothing is written but the job and, of rows that waited, what is reported.
LEMMA CalmLooks ==
  ASSUME IInv, [Next]_vars, CalmInv, NEW u \in Upload, UNCHANGED <<question, review, worker>>,
         \/ UNCHANGED outcome
         \/ \E rows \in SUBSET Waiting(u) : \E what \in Outcome : Report(u, rows, what),
         \A v \in Upload \ {u} : job'[v] = job[v], ~JobAt(u, "drop"), CalmJob(u)'
  PROVE  CalmInv'
<1>1. SheetReview' = SheetReview
  BY DEF SheetReview
<1>2. \A row \in Row : row[1] \in Upload /\ Said(outcome, row) \in {"saved", "queued"} =>
                         Said(outcome', row) = Said(outcome, row)
  BY ReportedMore
<1>3. Rows'
  <2>1. \A q, p \in DOMAIN question :
          question'[q].live /\ question'[p].live /\ question[q].row = question[p].row => q = p
    BY DEF CalmInv, Rows
  <2> QED
    BY <1>1, <1>2, <2>1, RowsKept DEF CalmInv
<1>4. \A i : Same4(i)
  BY DEF Same4, Copy
<1> QED
  BY <1>1, <1>3, <1>4, UploadActs

LEMMA CalmIndex ==
  ASSUME IInv, [Next]_vars, CalmInv, Calm', NEW u \in Upload, Index(u)
  PROVE  CalmInv'
<1>1. /\ JobAt(u, "idle") /\ UNCHANGED <<question, review, worker, outcome>>
      /\ \/ \E q \in Live : job' = [job EXCEPT ![u] = [job[u] EXCEPT !.pc = "prior", !.old = q]]
         \/ JobGoes(u, "inFile")
  BY CalmBack DEF Index
<1>2. (\A v \in Upload \ {u} : job'[v] = job[v]) /\ job'[u].pc \in {"prior", "inFile"} /\ job'[u].links = job[u].links
  <2>1. CASE \E q \in Live : job' = [job EXCEPT ![u] = [job[u] EXCEPT !.pc = "prior", !.old = q]]
    <3>1. job \in [Upload -> Job] /\ job[u] \in Job
      BY DEF IInv, Jobs
    <3> QED
      BY <2>1, <3>1 DEF Job
  <2>2. CASE JobGoes(u, "inFile")
    BY <2>2, JobGoesIs
  <2> QED
    BY <1>1, <2>1, <2>2
<1>3. CalmJob(u)'
  BY <1>2, LinksKept
<1> QED
  BY <1>1, <1>2, <1>3, CalmLooks DEF JobAt

LEMMA CalmReadPrior ==
  ASSUME IInv, [Next]_vars, CalmInv, Calm', NEW u \in Upload, ReadPrior(u)
  PROVE  CalmInv'
<1>1. /\ JobAt(u, "prior") /\ UNCHANGED <<question, review, worker>> /\ JobGoes(u, "many")
      /\ Report(u, {i \in Waiting(u) : Asked(u, i)}, "already")
  BY CalmBack DEF ReadPrior
<1>2. (\A v \in Upload \ {u} : job'[v] = job[v]) /\ job'[u].pc = "many" /\ job'[u].links = job[u].links
  BY <1>1, JobGoesIs
<1>3. CalmJob(u)'
  BY <1>2, LinksKept
<1>4. \E rows \in SUBSET Waiting(u) : \E what \in Outcome : Report(u, rows, what)
  BY <1>1 DEF Outcome
<1> QED
  BY <1>1, <1>2, <1>3, <1>4, CalmLooks DEF JobAt

LEMMA InOrderOnce ==
  ASSUME IInv, NEW u \in Upload, NEW rows \in InOrder(Waiting(u))
  PROVE  \A k, n \in 1..Len(rows) : rows[k] = rows[n] => k = n
<1> DEFINE c == Cardinality(Waiting(u))
<1>1. rows \in [1..c -> Waiting(u)] /\ \A k, n \in 1..c : k < n => rows[k] < rows[n]
  BY DEF InOrder
<1>2. rows \in Seq(DOMAIN Sheet[u]) /\ Len(rows) \in Nat
  BY WaitingOrdered
<1>3. DOMAIN rows = 1..Len(rows) /\ DOMAIN rows = 1..c
  BY <1>1, <1>2, LenProperties
<1>4. \A k \in 1..Len(rows) : rows[k] \in Nat
  BY <1>2, ElementOfSeq, DuplicateAssumption
<1> HIDE DEF c
<1>5. \A k, n \in 1..Len(rows) : k < n => rows[k] < rows[n]
  BY <1>1, <1>3
<1> QED
  BY <1>2, <1>4, <1>5

\* Rows that waited are queued: each gets a review of its own, and has no copy.
LEMMA CalmQueued ==
  ASSUME IInv, [Next]_vars, CalmInv, NEW u \in Upload, NEW rows \in Seq(DOMAIN Sheet[u]),
         \A k, n \in 1..Len(rows) : rows[k] = rows[n] => k = n,
         NEW W, W \subseteq Waiting(u), \A k \in 1..Len(rows) : rows[k] \in W,
         review' = Queued(u, rows), Report(u, W, "queued"), UNCHANGED <<question, worker>>,
         \A v \in Upload \ {u} : job'[v] = job[v], ~JobAt(u, "drop"), CalmJob(u)'
  PROVE  CalmInv'
<1> DEFINE len == Len(review)
<1>1. /\ Len(review') = len + Len(rows)
      /\ \A i \in 1..len : review'[i] = review[i]
      /\ \A k \in 1..Len(rows) : review'[len + k] = Pair(<<u, rows[k]>>, job[u].old, 0)
  BY QueuedOK
<1>2. len \in Nat /\ Len(rows) \in Nat
  BY ReviewFacts, LenProperties
<1>3. \A k \in 1..Len(rows) : /\ Pair(<<u, rows[k]>>, job[u].old, 0).row = <<u, rows[k]>>
                              /\ Pair(<<u, rows[k]>>, job[u].old, 0).status = "PENDING"
                              /\ Pair(<<u, rows[k]>>, job[u].old, 0).made = 0
  BY DEF Pair
<1>4. /\ \A row \in Row : row[1] \in Upload /\ Said(outcome, row) \in {"saved", "queued"} =>
                            Said(outcome', row) = Said(outcome, row)
      /\ \A i \in W : outcome'[u][i] = "queued" /\ i \in DOMAIN Sheet[u] /\ <<u, i>> \in Row
  BY ReportedMore DEF Outcome
<1>5. \A k \in 1..Len(rows) :
        /\ Said(outcome, <<u, rows[k]>>) = "none" /\ Said(outcome', <<u, rows[k]>>) = "queued"
        /\ <<u, rows[k]>> \in Row
  BY <1>4 DEF Waiting, Said
<1> HIDE DEF len
<1>6. /\ \A i \in SheetReview : i \in SheetReview' /\ review'[i] = review[i]
      /\ \A i \in SheetReview' : \/ i \in SheetReview
                                 \/ i - len \in 1..Len(rows) /\ i = len + (i - len)
  BY <1>1, <1>2 DEF SheetReview, len
<1>7. \A i \in SheetReview' \ SheetReview : \E k \in 1..Len(rows) :
        /\ i = len + k /\ review'[i].row = <<u, rows[k]>> /\ review'[i].status = "PENDING" /\ review'[i].made = 0
  <2> SUFFICES ASSUME NEW i \in SheetReview' \ SheetReview, NEW k, k = i - len
               PROVE  /\ k \in 1..Len(rows) /\ i = len + k /\ review'[i].row = <<u, rows[k]>>
                      /\ review'[i].status = "PENDING" /\ review'[i].made = 0
    OBVIOUS
  <2>1. k \in 1..Len(rows) /\ i = len + k
    BY <1>6
  <2>2. review'[i] = Pair(<<u, rows[k]>>, job[u].old, 0)
    BY <1>1, <2>1
  <2> QED
    BY <1>3, <2>1, <2>2
<1>8. /\ \A i \in SheetReview :
           /\ review[i].row[1] \in Upload /\ Said(outcome, review[i].row) = "queued"
           /\ \A k \in SheetReview : review[k].row = review[i].row => k = i
      /\ \A q \in DOMAIN question : question[q].row[1] # Bank =>
           question[q].row[1] \in Upload /\ Said(outcome, question[q].row) \in {"saved", "queued"}
      /\ \A q, p \in DOMAIN question : question[q].row = question[p].row /\ q # p =>
           \E i \in SheetReview : review[i].row = question[q].row
      /\ \A q, p \in DOMAIN question :
           question[q].live /\ question[p].live /\ question[q].row = question[p].row => q = p
  BY DEF CalmInv, Rows
<1>9. Rows'
  <2>1. \A i \in SheetReview' : review'[i].row[1] \in Upload /\ Said(outcome', review'[i].row) = "queued"
    <3>1. \A i \in SheetReview : review'[i].row[1] \in Upload /\ Said(outcome', review'[i].row) = "queued"
      BY <1>4, <1>6, <1>8, ReviewFacts
    <3>2. \A i \in SheetReview' \ SheetReview : review'[i].row[1] \in Upload /\ Said(outcome', review'[i].row) = "queued"
      <4> SUFFICES ASSUME NEW i \in SheetReview' \ SheetReview
                   PROVE  review'[i].row[1] \in Upload /\ Said(outcome', review'[i].row) = "queued"
        OBVIOUS
      <4>1. PICK n \in 1..Len(rows) : review'[i].row = <<u, rows[n]>>
        BY <1>7
      <4> QED
        BY <1>5, <4>1
    <3> QED
      BY <3>1, <3>2
  <2>2. ASSUME NEW i \in SheetReview', NEW k \in SheetReview', review'[k].row = review'[i].row PROVE k = i
    <3>1. CASE i \in SheetReview /\ k \in SheetReview
      BY <1>6, <1>8, <2>2, <3>1
    <3>2. ASSUME NEW a \in SheetReview, NEW b \in SheetReview' \ SheetReview PROVE review'[a].row # review'[b].row
      <4>1. PICK n \in 1..Len(rows) : review'[b].row = <<u, rows[n]>>
        BY <1>7
      <4>2. Said(outcome, review'[b].row) = "none" /\ Said(outcome, review'[a].row) = "queued"
        BY <1>5, <1>6, <1>8, <4>1
      <4> QED
        BY <4>2
    <3>3. CASE i \notin SheetReview /\ k \notin SheetReview
      <4>1. PICK n \in 1..Len(rows) : i = len + n /\ review'[i].row = <<u, rows[n]>>
        BY <1>7, <3>3
      <4>2. PICK m \in 1..Len(rows) : k = len + m /\ review'[k].row = <<u, rows[m]>>
        BY <1>7, <3>3
      <4>3. rows[n] = rows[m]
        BY <2>2, <4>1, <4>2
      <4> QED
        BY <4>1, <4>2, <4>3
    <3> QED
      BY <2>2, <3>1, <3>2, <3>3
  <2>3. \A q \in DOMAIN question' : question'[q].row[1] # Bank =>
          question'[q].row[1] \in Upload /\ Said(outcome', question'[q].row) \in {"saved", "queued"}
    <3>1. \A q \in DOMAIN question : question[q].row \in Row
      BY ReviewFacts DEF Question
    <3> QED
      BY <1>4, <1>8, <3>1
  <2>4. \A q, p \in DOMAIN question' : question'[q].row = question'[p].row /\ q # p =>
          \E i \in SheetReview' : review'[i].row = question'[q].row
    BY <1>6, <1>8
  <2>5. \A q, p \in DOMAIN question' :
          question'[q].live /\ question'[p].live /\ question'[q].row = question'[p].row => q = p
    BY <1>8
  <2> QED
    BY <2>1, <2>2, <2>3, <2>4, <2>5 DEF Rows
<1>10. \A i \in SheetReview : Same4(i)
  BY <1>6 DEF Same4, Copy
<1>11. ASSUME NEW i \in SheetReview' \ SheetReview PROVE CalmReview(i)'
  <2>1. PICK k \in 1..Len(rows) :
          i = len + k /\ review'[i].row = <<u, rows[k]>> /\ review'[i].status = "PENDING" /\ review'[i].made = 0
    BY <1>7
  <2>2. NoCopy(question', review'[i].row)
    <3>1. Said(outcome, review'[i].row) = "none" /\ review'[i].row[1] = u /\ u # Bank
      BY <1>5, <2>1, DuplicateAssumption
    <3> QED
      BY <1>8, <3>1 DEF NoCopy, Copy
  <2>3. \A x \in Worker : worker[x].id # i
    <3>1. \A x \in Worker : worker[x].id \in 0..len
      BY WorkerFacts DEF WorkerOK, len
    <3> QED
      BY <1>2, <2>1, <3>1
  <2>4. \A x \in Worker : Away(x, i)'
    BY <2>3 DEF Away, At4
  <2>5. PendingOK(i)' /\ DecidedOK(i)'
    BY <2>1, <2>2 DEF PendingOK, DecidedOK, NoCopy
  <2>6. \A x \in Worker : AloneOK(x, i)'
    BY <2>4 DEF AloneOK, Away, At4, Applying, Reverting
  <2> QED
    BY <2>5, <2>6 DEF CalmReview
<1> QED
  BY <1>9, <1>10, <1>11, UploadActs

LEMMA CalmQueueMany ==
  ASSUME IInv, [Next]_vars, CalmInv, Calm', NEW u \in Upload, QueueMany(u)
  PROVE  CalmInv'
<1>1. PICK rows \in InOrder(Waiting(u)) :
        review' = Queued(u, rows) /\ Report(u, Waiting(u), "queued") /\ JobGoes(u, "done")
  BY CalmBack DEF QueueMany
<1>2. UNCHANGED <<question, worker>> /\ JobAt(u, "many")
  BY DEF QueueMany
<1>3. (\A v \in Upload \ {u} : job'[v] = job[v]) /\ job'[u].pc = "done" /\ job'[u].links = job[u].links
  BY <1>1, JobGoesIs
<1>4. CalmJob(u)'
  BY <1>3, LinksKept
<1>5. rows \in Seq(DOMAIN Sheet[u]) /\ \A k \in 1..Len(rows) : rows[k] \in Waiting(u)
  BY WaitingOrdered
<1>6. \A k, n \in 1..Len(rows) : rows[k] = rows[n] => k = n
  BY InOrderOnce
<1>7. ~JobAt(u, "drop")
  BY <1>2 DEF JobAt
<1> QED
  BY <1>1, <1>2, <1>3, <1>4, <1>5, <1>6, <1>7, CalmQueued

LEMMA CalmQueueInFile ==
  ASSUME IInv, [Next]_vars, CalmInv, Calm', NEW u \in Upload, QueueInFile(u)
  PROVE  CalmInv'
<1>1. PICK i \in Waiting(u) :
        /\ review' = Queued(u, <<i>>) /\ Report(u, {i}, "queued")
        /\ job' = [job EXCEPT ![u].links = Append(@, Len(review'))]
  BY CalmBack DEF QueueInFile, Oldest
<1>2. UNCHANGED <<question, worker>> /\ JobAt(u, "inFile")
  BY DEF QueueInFile
<1>3. PICK n : n = Len(review')
  OBVIOUS
<1>4. job[u].links \in Seq(Nat) /\ Len(job[u].links) \in Nat /\ job \in [Upload -> Job] /\ job[u] \in Job
  BY JobFacts, LenProperties DEF Job, IInv, Jobs
<1>5. /\ \A v \in Upload \ {u} : job'[v] = job[v]
      /\ job'[u].pc = "inFile" /\ job'[u].links = Append(job[u].links, n)
  BY <1>1, <1>2, <1>3, <1>4 DEF Job, JobAt
<1>6. <<i>> \in Seq(DOMAIN Sheet[u]) /\ Len(<<i>>) = 1 /\ <<i>>[1] = i
  BY OneRow
<1>7. review'[n].row[1] = u /\ n \in Nat
  <2>1. /\ Len(Queued(u, <<i>>)) = Len(review) + Len(<<i>>)
        /\ \A k \in 1..Len(<<i>>) : Queued(u, <<i>>)[Len(review) + k] = Pair(<<u, <<i>>[k]>>, job[u].old, 0)
    BY <1>6, QueuedOK
  <2>2. n = Len(review) + 1 /\ review'[n] = Pair(<<u, i>>, job[u].old, 0)
    BY <1>1, <1>3, <1>6, <2>1
  <2>3. Pair(<<u, i>>, job[u].old, 0).row = <<u, i>>
    BY DEF Pair
  <2>4. review'[n].row = <<u, i>>
    BY <2>2, <2>3
  <2>5. Len(review) \in Nat
    BY ReviewFacts
  <2> QED
    BY <2>2, <2>4, <2>5
<1>8. CalmJob(u)'
  <2>1. \A k \in 1..Len(job[u].links) : review'[job[u].links[k]].row[1] = u
    <3>1. \A k \in 1..Len(job[u].links) : review'[job[u].links[k]].row = review[job[u].links[k]].row
      BY JobFacts, NextLengths DEF JobOK, Older
    <3> QED
      BY <3>1 DEF CalmInv, CalmJob
  <2>2. /\ Len(job'[u].links) = Len(job[u].links) + 1
        /\ \A k \in 1..Len(job[u].links) : job'[u].links[k] = job[u].links[k]
        /\ job'[u].links[Len(job[u].links) + 1] = n
    BY <1>4, <1>5, <1>7, AppendProperties
  <2>3. \A k \in 1..Len(job'[u].links) : k \in 1..Len(job[u].links) \/ k = Len(job[u].links) + 1
    BY <1>4, <2>2
  <2>4. \A k \in 1..Len(job'[u].links) : review'[job'[u].links[k]].row[1] = u
    BY <1>7, <2>1, <2>2, <2>3
  <2> QED
    BY <1>5, <2>4 DEF CalmJob, JobAt
<1>9. /\ \A k \in 1..Len(<<i>>) : <<i>>[k] \in {i}
      /\ \A k, m \in 1..Len(<<i>>) : <<i>>[k] = <<i>>[m] => k = m
  BY <1>6
<1>10. ~JobAt(u, "drop") /\ {i} \subseteq Waiting(u)
  BY <1>2 DEF JobAt
<1>11. PICK rows, W : rows = <<i>> /\ W = {i}
  OBVIOUS
<1>12. /\ rows \in Seq(DOMAIN Sheet[u]) /\ \A k, m \in 1..Len(rows) : rows[k] = rows[m] => k = m
       /\ W \subseteq Waiting(u) /\ \A k \in 1..Len(rows) : rows[k] \in W
       /\ review' = Queued(u, rows) /\ Report(u, W, "queued")
  BY <1>1, <1>6, <1>9, <1>10, <1>11
<1> QED
  BY <1>2, <1>5, <1>8, <1>10, <1>12, CalmQueued

LEMMA CalmCommit ==
  ASSUME IInv, [Next]_vars, CalmInv, Calm', NEW u \in Upload, Commit(u)
  PROVE  CalmInv'
<1>0. PICK row : row = <<u, 1>>
  OBVIOUS
<1>1. /\ JobAt(u, "inFile") /\ Waiting(u) = {1} /\ question' = Saved(row) /\ Report(u, {1}, "saved")
      /\ JobGoes(u, "find") /\ UNCHANGED <<review, worker>>
  BY <1>0, CalmBack DEF Commit
<1>2. /\ \A other \in Row : other[1] \in Upload /\ Said(outcome, other) \in {"saved", "queued"} =>
                              Said(outcome', other) = Said(outcome, other)
      /\ outcome'[u][1] = "saved" /\ <<u, 1>> \in Row
  BY <1>1, ReportedMore DEF Outcome
<1>3. /\ row \in Row /\ row[1] = u /\ u # Bank /\ Said(outcome, row) = "none" /\ Said(outcome', row) = "saved"
  BY <1>0, <1>1, <1>2, DuplicateAssumption DEF Said, Waiting
<1>4. \A q \in DOMAIN question : question[q].row # row
  BY <1>3 DEF CalmInv, Rows
<1>5. \A i \in SheetReview : review[i].row # row
  BY <1>3 DEF CalmInv, Rows
<1>6. NoCopy(question, row)
  BY <1>4 DEF NoCopy, Copy
<1>7. Rows'
  BY <1>1, <1>2, <1>3, <1>4, <1>6, RowsSaved DEF CalmInv
<1>8. SheetReview' = SheetReview
  BY <1>1 DEF SheetReview
<1>9. \A i \in SheetReview : Same4(i)
  BY <1>1, <1>3, <1>5, SavedSame
<1>10. (\A v \in Upload \ {u} : job'[v] = job[v]) /\ job'[u].pc = "find" /\ job'[u].links = job[u].links
  BY <1>1, JobGoesIs
<1>11. CalmJob(u)'
  BY <1>10, LinksKept
<1>12. ~JobAt(u, "drop")
  BY <1>1 DEF JobAt
<1> QED
  BY <1>1, <1>7, <1>8, <1>9, <1>10, <1>11, <1>12, UploadActs

LEMMA CalmLinkFind ==
  ASSUME IInv, [Next]_vars, CalmInv, Calm', NEW u \in Upload, LinkFind(u)
  PROVE  CalmInv'
<1> DEFINE mine == {q \in Live : question[q].row[1] = u}
<1>1. /\ JobAt(u, "find") /\ UNCHANGED <<question, review, worker, outcome>>
      /\ \/ JobGoes(u, "done")
         \/ \E q : job' = [job EXCEPT ![u] = [job[u] EXCEPT !.pc = "link", !.old = q]]
         \/ job[u].links # <<>> /\ mine = {} /\ JobGoes(u, "make")
  BY CalmBack DEF LinkFind
<1>2. job \in [Upload -> Job] /\ job[u] \in Job
  BY DEF IInv, Jobs
<1>3. CASE \/ JobGoes(u, "done")
           \/ \E q : job' = [job EXCEPT ![u] = [job[u] EXCEPT !.pc = "link", !.old = q]]
  <2>1. (\A v \in Upload \ {u} : job'[v] = job[v]) /\ job'[u].pc \in {"done", "link"} /\ job'[u].links = job[u].links
    <3>1. CASE JobGoes(u, "done")
      BY <3>1, JobGoesIs
    <3>2. CASE \E q : job' = [job EXCEPT ![u] = [job[u] EXCEPT !.pc = "link", !.old = q]]
      BY <1>2, <3>2 DEF Job
    <3> QED
      BY <1>3, <3>1, <3>2
  <2>2. CalmJob(u)'
    BY <2>1, LinksKept
  <2> QED
    BY <1>1, <2>1, <2>2, CalmLooks DEF JobAt
<1>4. CASE job[u].links # <<>> /\ mine = {} /\ JobGoes(u, "make")
  <2>1. (\A v \in Upload \ {u} : job'[v] = job[v]) /\ job'[u].pc = "make" /\ job'[u].links = job[u].links
    BY <1>4, JobGoesIs
  <2>2. Linked(u)' = Linked(u)
    BY <2>1 DEF Linked
  <2>3. CalmJob(u)
    BY DEF CalmInv
  <2>4. review[Linked(u)].row[1] = u
    <3>1. Linked(u) = job[u].links[1] /\ 1 \in 1..Len(job[u].links)
      BY <1>4, JobFacts, HeadTailProperties, EmptySeq, LenProperties DEF Linked
    <3> QED
      BY <2>3, <3>1 DEF CalmJob
  <2>5. NoCopy(question, review[Linked(u)].row)
    BY <1>4, <2>4 DEF NoCopy, Copy, Live
  <2>6. CalmJob(u)'
    BY <1>1, <2>1, <2>2, <2>3, <2>5 DEF CalmJob, JobAt
  <2> QED
    BY <1>1, <2>1, <2>6, CalmLooks DEF JobAt
<1> QED
  BY <1>1, <1>3, <1>4

LEMMA CalmLinkSet ==
  ASSUME IInv, [Next]_vars, CalmInv, Calm', NEW u \in Upload, LinkSet(u)
  PROVE  CalmInv'
<1>0. PICK i, old : i = Linked(u) /\ old = job[u].old
  OBVIOUS
<1>1. /\ JobAt(u, "link") /\ UNCHANGED <<question, outcome, worker>> /\ NextLink(u)
      /\ review' = [review EXCEPT ![i].old = old]
  BY <1>0, CalmBack DEF LinkSet
<1>2. job[u].links # <<>> /\ i \in 1..Len(review)
  BY <1>0, <1>1, JobFacts
<1>3. (\A v \in Upload \ {u} : job'[v] = job[v]) /\ job'[u].pc = "find" /\ job'[u].links = Tail(job[u].links)
  BY <1>1, NextLinkIs
<1>4. CalmJob(u)'
  BY <1>2, <1>3, LinksKept
<1>5. /\ review \in [1..Len(review) -> Review] /\ Len(review) \in Nat
  BY ReviewFacts
<1>6. \A k \in 1..Len(review) :
        review'[k].row = review[k].row /\ review'[k].status = review[k].status /\ review'[k].made = review[k].made
  BY <1>1, <1>5 DEF Review
<1>7. Len(review') = Len(review)
  <2>1. review' \in [1..Len(review) -> {review'[k] : k \in 1..Len(review)}]
    BY <1>1, <1>5
  <2> QED
    BY <1>5, <2>1, IsSeq
<1>8. SheetReview' = SheetReview
  BY <1>6, <1>7 DEF SheetReview
<1>9. Rows'
  BY <1>1, <1>6, <1>8, RowsStill DEF SheetReview, CalmInv
<1>10. \A k \in SheetReview : Same4(k)
  BY <1>1, <1>6 DEF Same4, Copy, SheetReview
<1>11. ~JobAt(u, "drop")
  BY <1>1 DEF JobAt
<1> QED
  BY <1>1, <1>3, <1>4, <1>8, <1>9, <1>10, <1>11, UploadActs

LEMMA CalmLinkMake ==
  ASSUME IInv, [Next]_vars, CalmInv, Calm', NEW u \in Upload, LinkMake(u)
  PROVE  CalmInv'
<1>0. PICK i, row : i = Linked(u) /\ row = review[i].row
  OBVIOUS
<1>1. /\ JobAt(u, "make") /\ UNCHANGED <<review, outcome, worker>> /\ JobGoes(u, "drop")
      /\ question' = Saved(row) /\ review[i].status = "PENDING"
  BY <1>0, CalmBack DEF LinkMake, Calm
<1>2. i \in SheetReview /\ row \in Row /\ i \in 1..Len(review) /\ job[u].links # <<>>
  BY <1>0, <1>1, JobFacts, ReviewFacts DEF JobAt
<1>3. (\A v \in Upload \ {u} : job'[v] = job[v]) /\ job'[u].pc = "drop" /\ job'[u].links = job[u].links
  BY <1>1, JobGoesIs
<1>4. CalmJob(u) /\ CalmReview(i)
  BY <1>2 DEF CalmInv
<1>5. NoCopy(question, row)
  BY <1>0, <1>1, <1>4 DEF CalmJob
<1>6. Linked(u)' = i
  BY <1>0, <1>3 DEF Linked
<1>7. CalmJob(u)'
  BY <1>1, <1>3, <1>4, <1>6 DEF CalmJob, JobAt
<1>8. SheetReview' = SheetReview
  BY <1>1 DEF SheetReview
<1>9. Rows'
  BY <1>0, <1>1, <1>2, <1>5, RowsSaved DEF CalmInv
<1>10. ASSUME NEW k \in SheetReview, k # i PROVE Same4(k)
  <2>1. review[k].row # row
    BY <1>0, <1>2, <1>10 DEF CalmInv, Rows
  <2> QED
    BY <1>1, <1>2, <2>1, SavedSame
<1>11. review[i].row[1] = u
  <2>1. i = job[u].links[1] /\ 1 \in 1..Len(job[u].links)
    BY <1>0, <1>2, JobFacts, HeadTailProperties, EmptySeq, LenProperties DEF Linked
  <2> QED
    BY <1>4, <2>1 DEF CalmJob
<1>12. CalmReview(i)'
  <2>1. review'[i] = review[i]
    BY <1>1
  <2>2. PendingOK(i)'
    <3>1. JobAt(u, "drop")'
      BY <1>3 DEF JobAt
    <3>2. review[i].made # 0 => \E x \in Worker : At4(x, i, Reverting)
      BY <1>1, <1>4 DEF CalmReview, PendingOK
    <3>3. \A x \in Worker : At4(x, i, Reverting)' <=> At4(x, i, Reverting)
      BY <1>1 DEF At4
    <3> QED
      BY <1>6, <2>1, <3>1, <3>2, <3>3 DEF PendingOK
  <2>3. DecidedOK(i)'
    BY <1>1, <2>1 DEF DecidedOK
  <2>4. ASSUME NEW x \in Worker PROVE AloneOK(x, i)'
    <3>1. AloneOK(x, i) /\ UNCHANGED worker
      BY <1>1, <1>4 DEF CalmReview
    <3>2. ~At4(x, i, Applying) /\ ~At4(x, i, {"make"})
      BY <1>1, <3>1 DEF AloneOK, At4, Applying
    <3> QED
      BY <2>1, <3>1, <3>2 DEF AloneOK, At4, Away
  <2> QED
    BY <2>2, <2>3, <2>4 DEF CalmReview
<1>13. ~JobAt(u, "drop")
  BY <1>1 DEF JobAt
<1> QED
  BY <1>1, <1>3, <1>7, <1>8, <1>9, <1>10, <1>11, <1>12, <1>13, UploadActs

LEMMA CalmLinkDrop ==
  ASSUME IInv, [Next]_vars, CalmInv, Calm', NEW u \in Upload, LinkDrop(u)
  PROVE  CalmInv'
<1>0. PICK i : i = Linked(u)
  OBVIOUS
<1>1. /\ JobAt(u, "drop") /\ UNCHANGED <<question, outcome, worker>> /\ NextLink(u)
      /\ review' = [review EXCEPT ![i].status = "gone"]
  BY <1>0, CalmBack DEF LinkDrop
<1>2. i \in SheetReview /\ i \in 1..Len(review) /\ job[u].links # <<>> /\ review[i].status = "PENDING"
  BY <1>0, <1>1, JobFacts, ReviewFacts DEF JobAt, CalmInv, CalmJob
<1>3. (\A v \in Upload \ {u} : job'[v] = job[v]) /\ job'[u].pc = "find" /\ job'[u].links = Tail(job[u].links)
  BY <1>1, NextLinkIs
<1>4. CalmJob(u)'
  BY <1>2, <1>3, LinksKept
<1>5. review' = Status(i, "gone")
  <2>1. review \in [1..Len(review) -> Review]
    BY ReviewFacts
  <2>2. (IF review[i].status = "gone" THEN review[i].status ELSE "gone") = "gone"
    OBVIOUS
  <2> QED
    BY <1>1, <2>2 DEF Status
<1>6. /\ SheetReview' = SheetReview
      /\ \A k \in 1..Len(review) :
           /\ review'[k].row = review[k].row /\ review'[k].made = review[k].made
           /\ review'[k].status = IF k = i THEN "gone" ELSE review[k].status
  BY <1>2, <1>5, StatusIs
<1>7. Rows'
  BY <1>1, <1>6, RowsStill DEF SheetReview, CalmInv
<1>8. \A k \in SheetReview : k # i => Same4(k)
  BY <1>1, <1>6 DEF Same4, Copy, SheetReview
<1>9. review[i].row[1] = u
  <2>1. i = job[u].links[1] /\ 1 \in 1..Len(job[u].links)
    BY <1>0, <1>2, JobFacts, HeadTailProperties, EmptySeq, LenProperties DEF Linked
  <2> QED
    BY <2>1 DEF CalmInv, CalmJob
<1>10. CalmReview(i)'
  <2>1. review'[i].status = "gone"
    BY <1>2, <1>6
  <2>2. PendingOK(i)' /\ DecidedOK(i)'
    BY <2>1 DEF PendingOK, DecidedOK
  <2>3. ASSUME NEW x \in Worker PROVE AloneOK(x, i)'
    <3>1. AloneOK(x, i) /\ UNCHANGED worker
      BY <1>1, <1>2 DEF CalmInv, CalmReview
    <3>2. ~At4(x, i, Applying) /\ ~At4(x, i, {"make"})
      BY <1>2, <3>1 DEF AloneOK, At4, Applying
    <3> QED
      BY <2>1, <3>1, <3>2 DEF AloneOK, At4, Away
  <2> QED
    BY <2>2, <2>3 DEF CalmReview
<1> QED
  BY <1>0, <1>1, <1>2, <1>3, <1>4, <1>6, <1>7, <1>8, <1>9, <1>10, UploadActs

LEMMA CalmUpload ==
  ASSUME IInv, [Next]_vars, CalmInv, Calm', NEW u \in Upload, UploadNext(u)
  PROVE  CalmInv'
<1>1. ~QueueEach(u) /\ ~CommitSingle(u)
  BY DEF QueueEach, CommitSingle, CalmInv, CalmJob, JobAt
<1> QED
  BY <1>1, CalmIndex, CalmReadPrior, CalmQueueMany, CalmQueueInFile, CalmCommit, CalmLinkFind,
     CalmLinkSet, CalmLinkMake, CalmLinkDrop DEF UploadNext

LEMMA CalmInit == Init => CalmInv
<1> SUFFICES ASSUME Init PROVE CalmInv
  OBVIOUS
<1>1. SheetReview = {}
  <2>1. Len(review) = 0
    BY EmptySeq DEF Init
  <2> QED
    BY <2>1 DEF SheetReview
<1>2. \A q \in DOMAIN question : question[q].row = <<Bank, q>>
  BY DEF Init
<1>3. Rows
  <2>1. \A q \in DOMAIN question : question[q].row[1] = Bank
    BY <1>2
  <2>2. \A q, p \in DOMAIN question : question[q].row = question[p].row => q = p
    BY <1>2
  <2> QED
    BY <1>1, <2>1, <2>2 DEF Rows
<1>4. \A u \in Upload : job[u].pc = "idle" /\ job[u].links = <<>>
  BY DEF Init, NewJob
<1>5. \A u \in Upload : CalmJob(u)
  <2>1. Len(<<>>) = 0
    BY EmptySeq
  <2> QED
    BY <1>4, <2>1 DEF CalmJob, JobAt
<1>6. \A w \in Worker : worker[w].pc # "putBack"
  BY DEF Init, Idle
<1> QED
  BY <1>1, <1>3, <1>5, <1>6 DEF CalmInv

LEMMA CalmStep ==
  ASSUME IInv, [Next]_vars, CalmInv, Calm'
  PROVE  CalmInv'
<1>1. CASE UNCHANGED vars
  BY <1>1 DEF vars, CalmInv, Rows, CalmReview, PendingOK, DecidedOK, AloneOK, CalmJob, Away, At4, Copy, NoCopy,
              SheetReview, JobAt, Linked
<1>2. ~Crash
  BY CalmBack DEF Crash
<1> QED
  BY <1>1, <1>2, CalmWorker, CalmUpload DEF Next

\* A row is live at most once: no double click, second admin, undo or link loop
\* saves a row again or brings a copy back beside the one that is live, for any
\* uploads, sheets and number of requests, as long as no statement failed and no
\* request took over a review that another was still at work on.
THEOREM RowOnceAlways == Spec => []RowOnce
<1> DEFINE Inv == IInv /\ (Calm => CalmInv)
<1>1. Init => Inv
  BY InitOK, CalmInit
<1>2. Inv /\ [Next]_vars => Inv'
  <2>1. ASSUME IInv, Calm => CalmInv, [Next]_vars PROVE Calm' => CalmInv'
    BY <2>1, CalmBack, CalmStep
  <2> QED
    BY <2>1, Inductive
<1>3. Inv => RowOnce
  BY DEF RowOnce, Calm, CalmInv, Rows, Live
<1> QED
  BY <1>1, <1>2, <1>3, PTL DEF Spec

-----------------------------------------------------------------------------
(* Decisions and undos leave a copy live.  What a request has read of the  *)
(* copies, before its claim, still holds when it hides one of them, as     *)
(* long as nothing failed, nobody got in its way and the copy it keeps is  *)
(* live.                                                                   *)

Clear == Calm /\ ~stale

\* The copy a decision keeps is not the one it hides; an undo that hides the only
\* copy has read, from the review, which one it brings back.
LastOK(x, r) ==
  /\ x.pc = "hide" /\ r[x.id].row # NoRow => x.made # 0 /\ x.made # x.old
  /\ x.pc \in {"claim", "hide"} /\ r[x.id].row = NoRow => x.old = r[x.id].old
  /\ x.pc \in {"unclaim", "unhide"} /\ x.made # 0 =>
       /\ r[x.id].row # NoRow /\ x.was \in {"KEPT_NEW", "KEPT_BOTH"}
       /\ x.was = "KEPT_NEW" => x.old = r[x.id].old
  /\ x.pc = "unhide" => x.made # 0
  /\ x.pc = "restore" => x.old # 0
  /\ x.pc = "queue" => x.old # 0 /\ x.old \notin x.found

\* A scanned pair is of two questions.
PairsOK == \A i \in 1..Len(review) : review[i].row = NoRow =>
             review[i].old # review[i].new /\ review[i].old # 0 /\ review[i].new # 0

OneLive == DOMAIN question # {} => Live # {} \/ \E w \in Worker : At(w, "restore")

LastInv == (\A w \in Worker : LastOK(worker[w], review)) /\ PairsOK /\ OneLive

LEMMA ClearBack ==
  ASSUME IInv, [Next]_vars, Clear'
  PROVE  Clear /\ ~Fault
<1>1. Calm /\ ~Fault
  BY CalmBack DEF Clear
<1>2. stale => stale'
  <2>1. ASSUME NEW u \in Upload, UploadNext(u) PROVE stale' = stale
    BY <2>1 DEF UploadNext, Index, ReadPrior, QueueMany, QueueEach, QueueInFile, Commit, CommitSingle,
                LinkFind, LinkSet, LinkMake, LinkDrop, ghostVars
  <2>2. ASSUME NEW w \in Worker, WorkerNext(w) PROVE stale => stale'
    BY <2>2 DEF WorkerNext, UndoRead, ResolveRead, ResolveClaim, Make, Hide, Remember, Publish, PutBack,
                UndoClaim, UndoHide, UndoRestore, Forget, ScanRows, ScanPrior, ScanQueue, ghostVars
  <2> QED
    BY <2>1, <2>2 DEF Next, Crash, vars, ghostVars
<1> QED
  BY <1>1, <1>2 DEF Clear

\* What a step of an upload, or of a request, leaves of the questions a review is about.
LEMMA UploadReviews ==
  ASSUME IInv, [Next]_vars, NEW u \in Upload, UploadNext(u), NEW i \in 1..Len(review')
  PROVE  \/ /\ i \in 1..Len(review) /\ review'[i].new = review[i].new
            /\ review'[i].old = review[i].old \/ (LinkSet(u) /\ Linked(u) = i)
         \/ i \notin 1..Len(review) /\ review'[i].row # NoRow
<1>1. /\ review \in [1..Len(review) -> Review] /\ DOMAIN review = 1..Len(review) /\ Len(review) \in Nat
      /\ DOMAIN review' = 1..Len(review')
  BY ReviewFacts, NextLengths, Lengths
<1>2. ASSUME NEW rows \in Seq(DOMAIN Sheet[u]), review' = Queued(u, rows)
      PROVE  \/ i \in 1..Len(review) /\ review'[i] = review[i]
             \/ i \notin 1..Len(review) /\ review'[i].row # NoRow
  <2>1. /\ Len(review') = Len(review) + Len(rows)
        /\ \A n \in 1..Len(review) : review'[n] = review[n]
        /\ \A k \in 1..Len(rows) : review'[Len(review) + k] = Pair(<<u, rows[k]>>, job[u].old, 0)
    BY <1>2, QueuedOK
  <2>2. CASE i \notin 1..Len(review)
    <3>1. PICK k : k = i - Len(review)
      OBVIOUS
    <3>2. Len(rows) \in Nat
      BY LenProperties
    <3>3. k \in 1..Len(rows) /\ i = Len(review) + k
      BY <1>1, <2>1, <2>2, <3>1, <3>2
    <3>4. <<u, rows[k]>> \in Row
      BY <3>3, ElementOfSeq, RowOK
    <3>5. Pair(<<u, rows[k]>>, job[u].old, 0).row = <<u, rows[k]>>
      BY DEF Pair
    <3> QED
      BY <2>1, <2>2, <3>3, <3>4, <3>5, RowOK
  <2> QED
    BY <2>1, <2>2
<1>3. CASE QueueMany(u)
  <2>1. PICK rows \in InOrder(Waiting(u)) : review' \in {review, Queued(u, rows)}
    BY <1>3 DEF QueueMany
  <2>2. rows \in Seq(DOMAIN Sheet[u])
    BY <2>1, WaitingOrdered
  <2> QED
    BY <1>2, <2>1, <2>2
<1>4. CASE QueueEach(u) \/ QueueInFile(u)
  <2>1. PICK n \in Waiting(u) : review' \in {review, Queued(u, <<n>>)}
    BY <1>4 DEF QueueEach, QueueInFile, Oldest
  <2>2. <<n>> \in Seq(DOMAIN Sheet[u])
    BY OneRow
  <2> QED
    BY <1>2, <2>1, <2>2
<1>5. CASE LinkSet(u)
  <2>1. review' \in {review, [review EXCEPT ![Linked(u)].old = job[u].old]}
    BY <1>5 DEF LinkSet
  <2>2. DOMAIN review' = DOMAIN review
    BY <2>1
  <2>3. \A n \in 1..Len(review) : review'[n].new = review[n].new /\ (n # Linked(u) => review'[n].old = review[n].old)
    <3>1. review' = review \/ \A n \in 1..Len(review) :
            review'[n] = IF n = Linked(u) THEN [review[n] EXCEPT !.old = job[u].old] ELSE review[n]
      BY <1>1, <2>1
    <3>2. \A x \in Review : [x EXCEPT !.old = job[u].old].new = x.new
      BY DEF Review
    <3> QED
      BY <1>1, <3>1, <3>2
  <2> QED
    BY <1>1, <1>5, <2>2, <2>3
<1>6. CASE LinkDrop(u)
  <2>1. review' \in {review, [review EXCEPT ![Linked(u)].status = "gone"]}
    BY <1>6 DEF LinkDrop
  <2>2. DOMAIN review' = DOMAIN review
    BY <2>1
  <2>3. \A n \in 1..Len(review) : review'[n].new = review[n].new /\ review'[n].old = review[n].old
    <3>1. review' = review \/ \A n \in 1..Len(review) :
            review'[n] = IF n = Linked(u) THEN [review[n] EXCEPT !.status = "gone"] ELSE review[n]
      BY <1>1, <2>1
    <3>2. \A x \in Review : [x EXCEPT !.status = "gone"].new = x.new /\ [x EXCEPT !.status = "gone"].old = x.old
      BY DEF Review
    <3> QED
      BY <1>1, <3>1, <3>2
  <2> QED
    BY <1>1, <2>2, <2>3
<1>7. CASE Index(u) \/ ReadPrior(u) \/ Commit(u) \/ CommitSingle(u) \/ LinkFind(u) \/ LinkMake(u)
  <2>1. review' = review
    BY <1>7 DEF Index, ReadPrior, Commit, CommitSingle, LinkFind, LinkMake
  <2> QED
    BY <2>1
<1> QED
  BY <1>3, <1>4, <1>5, <1>6, <1>7 DEF UploadNext

LEMMA WorkerReviews ==
  ASSUME IInv, [Next]_vars, NEW w \in Worker, WorkerNext(w), NEW i \in 1..Len(review')
  PROVE  \/ i \in 1..Len(review) /\ review'[i].new = review[i].new /\ review'[i].old = review[i].old
         \/ /\ i \notin 1..Len(review) /\ worker[w].pc = "queue"
            /\ review'[i].old = worker[w].old /\ review'[i].new \in worker[w].found
<1>1. /\ review \in [1..Len(review) -> Review] /\ DOMAIN review = 1..Len(review) /\ Len(review) \in Nat
      /\ DOMAIN review' = 1..Len(review')
  BY ReviewFacts, NextLengths, Lengths
<1>2. CASE Remember(w) \/ Forget(w)
  <2>1. review' = review \/ \E made : review' = [review EXCEPT ![worker[w].id].made = made]
    BY <1>2 DEF Remember, Forget, Tries
  <2>2. DOMAIN review' = DOMAIN review
    BY <2>1
  <2>3. \A n \in 1..Len(review) : review'[n].new = review[n].new /\ review'[n].old = review[n].old
    <3>1. CASE \E made : review' = [review EXCEPT ![worker[w].id].made = made]
      <4>1. PICK made : review' = [review EXCEPT ![worker[w].id].made = made]
        BY <3>1
      <4>2. \A n \in 1..Len(review) : review'[n] = IF n = worker[w].id THEN [review[n] EXCEPT !.made = made] ELSE review[n]
        BY <1>1, <4>1
      <4>3. \A x \in Review : [x EXCEPT !.made = made].new = x.new /\ [x EXCEPT !.made = made].old = x.old
        BY DEF Review
      <4> QED
        BY <1>1, <4>2, <4>3
    <3> QED
      BY <2>1, <3>1
  <2> QED
    BY <1>1, <2>2, <2>3
<1>3. CASE ScanQueue(w)
  <2>1. PICK others \in InOrder(worker[w].found) : review' \in {review, Paired(w, others)}
    BY <1>3 DEF ScanQueue, Tries, Paired
  <2>2. worker[w].pc = "queue"
    BY <1>3 DEF ScanQueue, At
  <2> QED
    BY <2>1, <2>2, PairedOK
<1>4. CASE ResolveClaim(w) \/ PutBack(w) \/ UndoClaim(w)
  <2>1. review' = review \/ \E s : review' = Status(worker[w].id, s)
    BY <1>4 DEF ResolveClaim, PutBack, UndoClaim
  <2>2. DOMAIN review' = DOMAIN review
    BY <2>1 DEF Status
  <2>3. \A n \in 1..Len(review) : review'[n].new = review[n].new /\ review'[n].old = review[n].old
    <3>1. CASE \E s : review' = Status(worker[w].id, s)
      <4>1. PICK s : review' = Status(worker[w].id, s)
        BY <3>1
      <4>2. PICK said : said = IF review[worker[w].id].status = "gone" THEN review[worker[w].id].status ELSE s
        OBVIOUS
      <4>3. review' = [review EXCEPT ![worker[w].id].status = said]
        BY <4>1, <4>2 DEF Status
      <4>4. \A n \in 1..Len(review) : review'[n] = IF n = worker[w].id THEN [review[n] EXCEPT !.status = said] ELSE review[n]
        BY <1>1, <4>3
      <4>5. \A x \in Review : [x EXCEPT !.status = said].new = x.new /\ [x EXCEPT !.status = said].old = x.old
        BY DEF Review
      <4> QED
        BY <1>1, <4>4, <4>5
    <3> QED
      BY <2>1, <3>1
  <2> QED
    BY <1>1, <2>2, <2>3
<1>5. CASE \/ \E n \in DOMAIN review : UndoRead(w, n) \/ \E act \in Decision : ResolveRead(w, n, act)
           \/ Make(w) \/ Hide(w) \/ Publish(w) \/ UndoHide(w) \/ UndoRestore(w) \/ ScanRows(w) \/ ScanPrior(w)
  <2>1. review' = review
    BY <1>5 DEF UndoRead, ResolveRead, Make, Hide, Publish, UndoHide, UndoRestore, ScanRows, ScanPrior, Tries
  <2> QED
    BY <2>1
<1> QED
  BY <1>2, <1>3, <1>4, <1>5 DEF WorkerNext

LEMMA UploadPairs ==
  ASSUME IInv, [Next]_vars, LastInv, NEW u \in Upload, UploadNext(u)
  PROVE  PairsOK'
<1> SUFFICES ASSUME NEW i \in 1..Len(review'), review'[i].row = NoRow
             PROVE  review'[i].old # review'[i].new /\ review'[i].old # 0 /\ review'[i].new # 0
  BY DEF PairsOK
<1>1. i \in 1..Len(review) /\ review'[i].new = review[i].new /\ (review'[i].old = review[i].old \/ (LinkSet(u) /\ Linked(u) = i))
  BY UploadReviews
<1>2. review[i].row = NoRow
  BY <1>1, NextLengths DEF Older
<1>3. ~(LinkSet(u) /\ Linked(u) = i)
  BY <1>2, JobFacts, RowOK DEF LinkSet
<1> QED
  BY <1>1, <1>2, <1>3 DEF LastInv, PairsOK

LEMMA WorkerPairs ==
  ASSUME IInv, [Next]_vars, LastInv, NEW w \in Worker, WorkerNext(w)
  PROVE  PairsOK'
<1> SUFFICES ASSUME NEW i \in 1..Len(review'), review'[i].row = NoRow
             PROVE  review'[i].old # review'[i].new /\ review'[i].old # 0 /\ review'[i].new # 0
  BY DEF PairsOK
<1>1. CASE i \in 1..Len(review)
  <2>1. review'[i].new = review[i].new /\ review'[i].old = review[i].old
    BY <1>1, WorkerReviews
  <2>2. review[i].row = NoRow
    BY <1>1, NextLengths DEF Older
  <2> QED
    BY <1>1, <2>1, <2>2 DEF LastInv, PairsOK
<1>2. CASE i \notin 1..Len(review)
  <2>1. worker[w].pc = "queue" /\ review'[i].old = worker[w].old /\ review'[i].new \in worker[w].found
    BY <1>2, WorkerReviews
  <2>2. worker[w].old # 0 /\ worker[w].old \notin worker[w].found
    BY <2>1 DEF LastInv, LastOK
  <2>3. worker[w].found \subseteq 1..Len(question) /\ Len(question) \in Nat
    BY WorkerFacts, ReviewFacts DEF WorkerOK
  <2> QED
    BY <2>1, <2>2, <2>3
<1> QED
  BY <1>1, <1>2

\* What a request has read stays true while it does not move.
LEMMA LastSame ==
  ASSUME IInv, NEW x, x \in Request, x.pc \notin {"idle", "prior", "queue"} => x.id \in 1..Len(review), LastOK(x, review),
         \A i \in 1..Len(review) : review'[i].row = review[i].row,
         \A i \in 1..Len(review) : review'[i].old = review[i].old \/
           (i = x.id => review[i].row # NoRow /\ x.pc \notin {"unclaim", "unhide"})
  PROVE  LastOK(x, review')
BY DEF LastOK

\* Where a request goes that has no copy to hide or bring back.
LEMMA LastPast ==
  ASSUME NEW w \in Worker, worker'[w].pc \notin {"claim", "hide", "unclaim", "unhide", "restore", "queue"}
  PROVE  LastOK(worker'[w], review')
BY DEF LastOK

LEMMA OthersStay ==
  ASSUME IInv, NEW w \in Worker, WorkerNext(w)
  PROVE  \A x \in Worker \ {w} : worker'[x] = worker[x]
<1>1. worker \in [Worker -> Request]
  BY DEF IInv, Workers
<1>2. \E r : Become(w, r)
  BY DEF WorkerNext, UndoRead, ResolveRead, ResolveClaim, Make, Hide, Remember, Publish, PutBack,
         UndoClaim, UndoHide, UndoRestore, Forget, ScanRows, ScanPrior, ScanQueue, Tries, GoTo
<1> QED
  BY <1>1, <1>2 DEF Become

\* A request that starts knows the review as it is.
LEMMA LastReads ==
  ASSUME IInv, NEW w \in Worker, NEW i \in 1..Len(review),
         UndoRead(w, i) \/ \E act \in Decision : ResolveRead(w, i, act)
  PROVE  LastOK(worker'[w], review')
<1>1. worker \in [Worker -> Request] /\ review' = review /\ review[i] \in Review
  BY ReviewFacts DEF IInv, Workers, UndoRead, ResolveRead
<1>2. CASE UndoRead(w, i)
  <2>1. PICK q \in Created(i) : worker' = [worker EXCEPT ![w] = [Idle EXCEPT !.pc = "unclaim", !.id = i,
                                             !.was = review[i].status, !.made = q, !.old = Restored(i)]]
    BY <1>2 DEF UndoRead, Become
  <2>2. /\ worker'[w].pc = "unclaim" /\ worker'[w].id = i /\ worker'[w].was = review[i].status
        /\ worker'[w].made = q /\ worker'[w].old = Restored(i)
    BY <1>1, <2>1 DEF Idle
  <2>3. q # 0 => review[i].row # NoRow /\ review[i].status \in {"KEPT_NEW", "KEPT_BOTH"}
    BY <1>2, <2>1 DEF Created, FromSheet, UndoRead, Decided, Decision
  <2>4. review[i].status = "KEPT_NEW" => Restored(i) = review[i].old
    BY DEF Restored
  <2> QED
    BY <1>1, <2>2, <2>3, <2>4 DEF LastOK
<1>3. ASSUME NEW act \in Decision, ResolveRead(w, i, act) PROVE LastOK(worker'[w], review')
  <2>1. worker' = [worker EXCEPT ![w] = [Idle EXCEPT !.pc = "claim", !.id = i, !.act = act, !.old = review[i].old]]
    BY <1>3 DEF ResolveRead, Become
  <2>2. worker'[w].pc = "claim" /\ worker'[w].id = i /\ worker'[w].old = review[i].old
    BY <1>1, <2>1 DEF Idle
  <2> QED
    BY <1>1, <2>2 DEF LastOK
<1> QED
  BY <1>2, <1>3

LEMMA LastMake ==
  ASSUME IInv, [Next]_vars, NEW w \in Worker, Make(w)
  PROVE  LastOK(worker'[w], review')
<1>1. /\ worker[w].pc = "make" /\ review' = review /\ worker[w].id \in 1..Len(review)
      /\ review[worker[w].id].row # NoRow /\ review[worker[w].id].row \in Row /\ Of(w).row = review[worker[w].id].row
      /\ worker[w].old \in 0..Len(question) /\ Len(question) \in Nat
  <2>1. worker[w].pc = "make" /\ review' = review
    BY DEF Make, At
  <2>2. worker[w].id \in 1..Len(review) /\ review[worker[w].id].row # NoRow /\ worker[w].old \in 0..Len(question)
    BY <2>1, WorkerFacts DEF WorkerOK
  <2>3. review[worker[w].id].row \in Row /\ Len(question) \in Nat
    BY <2>2, ReviewFacts DEF SheetReview
  <2> QED
    BY <2>1, <2>2, <2>3 DEF Of
<1>2. worker \in [Worker -> Request] /\ worker[w] \in Request
  BY DEF IInv, Workers
<1>3. CASE GoTo(w, "putBack")
  BY <1>3, GoesTo, LastPast
<1>4. CASE ~GoTo(w, "putBack")
  <2>1. PICK n : n = Len(Saved(review[worker[w].id].row))
    OBVIOUS
  <2>2. question' = Saved(review[worker[w].id].row)
    BY <1>1, <1>4 DEF Make
  <2>3. n = Len(question) + 1
    BY <1>1, <2>1, <2>2, SavedIs
  <2>4. PICK pc \in {"hide", "remember"} : worker' = [worker EXCEPT ![w] = [worker[w] EXCEPT !.pc = pc, !.made = n]]
    BY <1>1, <1>4, <2>1 DEF Make, Become
  <2>5. worker'[w].pc = pc /\ worker'[w].made = n /\ worker'[w].id = worker[w].id /\ worker'[w].old = worker[w].old
    BY <1>2, <2>4 DEF Request
  <2>6. worker'[w].made # 0 /\ worker'[w].made # worker'[w].old
    BY <1>1, <2>3, <2>5
  <2> QED
    BY <1>1, <2>5, <2>6 DEF LastOK
<1> QED
  BY <1>3, <1>4

LEMMA LastScan ==
  ASSUME IInv, NEW w \in Worker, ScanPrior(w)
  PROVE  LastOK(worker'[w], review')
<1>1. worker \in [Worker -> Request] /\ worker[w] \in Request /\ worker[w].found \subseteq 1..Len(question)
      /\ Len(question) \in Nat
  BY WorkerFacts, ReviewFacts DEF IInv, Workers, WorkerOK
<1>2. PICK base \in worker[w].found, pairs \in SUBSET worker[w].found :
        /\ base \notin pairs
        /\ worker' = [worker EXCEPT ![w] = IF pairs = {} THEN Idle ELSE [worker[w] EXCEPT !.pc = "queue", !.old = base, !.found = pairs]]
  BY DEF ScanPrior, Oldest, Become
<1>3. CASE pairs = {}
  <2>1. worker'[w].pc = "idle"
    BY <1>1, <1>2, <1>3 DEF Idle
  <2> QED
    BY <2>1 DEF LastOK
<1>4. CASE pairs # {}
  <2>1. worker'[w].pc = "queue" /\ worker'[w].old = base /\ worker'[w].found = pairs
    BY <1>1, <1>2, <1>4 DEF Request
  <2>2. base # 0 /\ base \notin pairs
    BY <1>1, <1>2
  <2> QED
    BY <2>1, <2>2 DEF LastOK
<1> QED
  BY <1>3, <1>4

\* Where a request goes on, with what it has read.
LEMMA LastGoes ==
  ASSUME IInv, LastInv, NEW w \in Worker,
         \A i \in 1..Len(review) : review'[i].row = review[i].row /\ review'[i].old = review[i].old,
         ResolveClaim(w) \/ UndoClaim(w) \/ UndoHide(w)
  PROVE  LastOK(worker'[w], review')
<1>1. LastOK(worker[w], review)
  BY DEF LastInv
<1>2. PICK i : i = worker[w].id
  OBVIOUS
<1>3. /\ worker[w].pc \in {"claim", "unclaim", "unhide"} /\ i \in 1..Len(review)
      /\ review'[i].row = review[i].row /\ review'[i].old = review[i].old
  BY <1>2, WorkerFacts DEF ResolveClaim, UndoClaim, UndoHide, At
<1>4. CASE ResolveClaim(w)
  <2>1. GoTo(w, "idle") \/ GoTo(w, "make") \/ (review[i].row = NoRow /\ GoTo(w, "hide"))
    BY <1>2, <1>4 DEF ResolveClaim, FromSheet
  <2>2. CASE GoTo(w, "idle") \/ GoTo(w, "make")
    BY <2>2, GoesTo, LastPast
  <2>3. CASE review[i].row = NoRow /\ GoTo(w, "hide")
    <3>1. worker'[w].pc = "hide" /\ worker'[w].id = i /\ worker'[w].old = worker[w].old
      BY <1>2, <2>3, GoesTo
    <3>2. worker[w].old = review[i].old
      BY <1>1, <1>2, <1>4, <2>3 DEF LastOK, ResolveClaim, At
    <3> QED
      BY <1>3, <2>3, <3>1, <3>2 DEF LastOK
  <2> QED
    BY <2>1, <2>2, <2>3
<1>5. CASE UndoClaim(w) \/ UndoHide(w)
  <2>1. \/ GoTo(w, "idle") \/ GoTo(w, "putBack") \/ GoTo(w, "forget")
        \/ worker[w].old # 0 /\ GoTo(w, "restore")
        \/ worker[w].pc = "unclaim" /\ worker[w].made # 0 /\ GoTo(w, "unhide")
    BY <1>5 DEF UndoClaim, UndoHide, Tries, ThenHide, ThenRestore, ThenForget, At
  <2>2. CASE GoTo(w, "idle") \/ GoTo(w, "putBack") \/ GoTo(w, "forget")
    BY <2>2, GoesTo, LastPast
  <2>3. CASE worker[w].old # 0 /\ GoTo(w, "restore")
    <3>1. worker'[w].pc = "restore" /\ worker'[w].old = worker[w].old
      BY <2>3, GoesTo
    <3> QED
      BY <2>3, <3>1 DEF LastOK
  <2>4. CASE worker[w].pc = "unclaim" /\ worker[w].made # 0 /\ GoTo(w, "unhide")
    <3>1. /\ worker'[w].pc = "unhide" /\ worker'[w].id = i /\ worker'[w].old = worker[w].old
          /\ worker'[w].made = worker[w].made /\ worker'[w].was = worker[w].was
      BY <1>2, <2>4, GoesTo
    <3> QED
      BY <1>1, <1>2, <1>3, <2>4, <3>1 DEF LastOK
  <2> QED
    BY <2>1, <2>2, <2>3, <2>4
<1> QED
  BY <1>4, <1>5

LEMMA LastWorkers ==
  ASSUME IInv, [Next]_vars, LastInv, NEW w \in Worker, WorkerNext(w), NEW x \in Worker
  PROVE  LastOK(worker'[x], review')
<1>1. \A i \in 1..Len(review) : review'[i].row = review[i].row /\ review'[i].old = review[i].old
  <2>1. \A i \in 1..Len(review) : i \in 1..Len(review') /\ review'[i].row = review[i].row
    BY NextLengths DEF Older
  <2> QED
    BY <2>1, WorkerReviews
<1>2. CASE x # w
  <2>1. worker'[x] = worker[x]
    BY <1>2, OthersStay
  <2>2. worker[x] \in Request /\ (worker[x].pc \notin {"idle", "prior", "queue"} => worker[x].id \in 1..Len(review))
        /\ LastOK(worker[x], review)
    BY WorkerFacts DEF LastInv
  <2>3. LastOK(worker[x], review')
    BY <1>1, <2>2, LastSame
  <2> QED
    BY <2>1, <2>3
<1>3. CASE ResolveClaim(w) \/ UndoClaim(w) \/ UndoHide(w)
  BY <1>1, <1>2, <1>3, LastGoes
<1>4. CASE \E i \in DOMAIN review : UndoRead(w, i) \/ \E act \in Decision : ResolveRead(w, i, act)
  BY <1>2, <1>4, LastReads, ReviewFacts
<1>5. CASE Make(w) \/ ScanPrior(w)
  BY <1>2, <1>5, LastMake, LastScan
<1>6. CASE Hide(w) \/ Remember(w) \/ Publish(w) \/ PutBack(w) \/ UndoRestore(w) \/ Forget(w) \/ ScanQueue(w)
  <2>1. \E pc \in {"idle", "remember", "publish", "putBack", "forget"} : GoTo(w, pc)
    BY <1>6 DEF Hide, Remember, Publish, PutBack, UndoRestore, Forget, ScanQueue, Tries, ThenForget
  <2>2. worker'[w].pc \in {"idle", "remember", "publish", "putBack", "forget"}
    BY <2>1, GoesTo
  <2> QED
    BY <1>2, <2>2, LastPast
<1>7. CASE ScanRows(w)
  <2>1. worker'[w].pc = "prior"
    <3>1. worker \in [Worker -> Request]
      BY DEF IInv, Workers
    <3> QED
      BY <1>7, <3>1 DEF ScanRows, Become, Idle
  <2> QED
    BY <1>2, <2>1, LastPast
<1> QED
  BY <1>3, <1>4, <1>5, <1>6, <1>7 DEF WorkerNext

-----------------------------------------------------------------------------
(* A copy is live, or an undo is about to bring one back. *)

LEMMA LiveSome ==
  ASSUME NEW q, q \in DOMAIN question', question'[q].live
  PROVE  OneLive'
BY DEF OneLive, Live

LEMMA LiveKept ==
  ASSUME OneLive, DOMAIN question' = DOMAIN question,
         \A q \in DOMAIN question : question[q].live => question'[q].live,
         \A x \in Worker : At(x, "restore") => worker'[x] = worker[x]
  PROVE  OneLive'
BY DEF OneLive, Live, At

LEMMA LiveUpload ==
  ASSUME IInv, [Next]_vars, LastInv, NEW u \in Upload, UploadNext(u)
  PROVE  OneLive'
<1>1. UNCHANGED worker
  BY DEF UploadNext, Index, ReadPrior, QueueMany, QueueEach, QueueInFile, Commit, CommitSingle,
         LinkFind, LinkSet, LinkMake, LinkDrop
<1>2. UNCHANGED question \/ \E row \in Row : question' = Saved(row)
  <2>1. CASE LinkMake(u)
    <3>1. review[Linked(u)].row \in Row
      BY <2>1, JobFacts DEF LinkMake
    <3> QED
      BY <2>1, <3>1 DEF LinkMake
  <2>2. CASE Commit(u) \/ CommitSingle(u)
    <3>1. <<u, 1>> \in Row
      BY DuplicateAssumption, RowOK
    <3> QED
      BY <2>2, <3>1 DEF Commit, CommitSingle
  <2> QED
    BY <2>1, <2>2 DEF UploadNext, Index, ReadPrior, QueueMany, QueueEach, QueueInFile, LinkFind, LinkSet, LinkDrop
<1>3. CASE UNCHANGED question
  BY <1>1, <1>3, LiveKept DEF LastInv
<1>4. ASSUME NEW row \in Row, question' = Saved(row) PROVE OneLive'
  <2>1. PICK n : n = Len(question) + 1
    OBVIOUS
  <2>2. n \in DOMAIN question' /\ question'[n].live
    BY <1>4, <2>1, SavedIs
  <2> QED
    BY <2>2, LiveSome
<1> QED
  BY <1>2, <1>3, <1>4

\* A decision hides the copy it does not keep.
LEMMA LiveHide ==
  ASSUME IInv, [Next]_vars, LastInv, ~Fault, ~stale', NEW w \in Worker, Hide(w)
  PROVE  OneLive'
<1>1. PICK i, winner, loser : i = worker[w].id /\ winner = Winner(w) /\ loser = Loser(w)
  OBVIOUS
<1>2. worker[w].pc = "hide" /\ Show(loser, FALSE) /\ question[winner].live
  BY <1>1 DEF Hide, Tries, At
<1>3. /\ i \in 1..Len(review) /\ Of(w) = review[i] /\ LastOK(worker[w], review)
      /\ worker[w].made \in 0..Len(question) /\ worker[w].old \in 0..Len(question) /\ Len(question) \in Nat
      /\ DOMAIN question = 1..Len(question)
      /\ review[i].new \in 0..Len(question) /\ review[i].old \in 0..Len(question)
  BY <1>1, <1>2, WorkerFacts, ReviewFacts DEF WorkerOK, ReviewOK, LastInv
<1>4. winner \in DOMAIN question /\ winner # loser
  <2>1. CASE FromSheet(i)
    BY <1>1, <1>2, <1>3, <2>1 DEF FromSheet, Winner, Loser, LastOK
  <2>2. CASE ~FromSheet(i)
    <3>1. review[i].row = NoRow
      BY <2>2 DEF FromSheet
    <3>2. worker[w].old = review[i].old
      BY <1>1, <1>2, <1>3, <3>1 DEF LastOK
    <3>3. review[i].old # review[i].new /\ review[i].old # 0 /\ review[i].new # 0
      BY <1>3, <3>1 DEF LastInv, PairsOK
    <3> QED
      BY <1>1, <1>3, <2>2, <3>2, <3>3 DEF Winner, Loser
  <2> QED
    BY <2>1, <2>2
<1>5. winner \in DOMAIN question' /\ question'[winner].live
  BY <1>2, <1>4, ShowIs
<1> QED
  BY <1>5, LiveSome

\* An undo hides the copy the decision has saved: another is live, or it brings back
\* the one the decision had hidden.
LEMMA LiveUndoHide ==
  ASSUME IInv, [Next]_vars, LastInv, ~Fault, ~stale', NEW w \in Worker, UndoHide(w)
  PROVE  OneLive'
<1>1. PICK i, m : i = worker[w].id /\ m = worker[w].made
  OBVIOUS
<1>2. /\ worker[w].pc = "unhide" /\ Show(m, FALSE) /\ GoTo(w, ThenRestore(w))
      /\ ~(Live \subseteq {m} /\ (worker[w].was = "KEPT_BOTH" \/ Of(w).old = 0))
  BY <1>1 DEF UndoHide, Tries, At
<1>3. i \in 1..Len(review) /\ Of(w) = review[i] /\ LastOK(worker[w], review)
  BY <1>1, <1>2, WorkerFacts DEF LastInv
<1>4. CASE ~(Live \subseteq {m})
  <2>1. PICK q \in DOMAIN question : question[q].live /\ q # m
    BY <1>4 DEF Live
  <2>2. q \in DOMAIN question' /\ question'[q].live
    BY <1>2, <2>1, ShowIs
  <2> QED
    BY <2>2, LiveSome
<1>5. CASE worker[w].was # "KEPT_BOTH" /\ Of(w).old # 0
  <2>1. worker[w].old # 0
    BY <1>1, <1>2, <1>3, <1>5 DEF LastOK
  <2>2. worker'[w].pc = "restore"
    BY <1>2, <2>1, GoesTo DEF ThenRestore
  <2> QED
    BY <2>2 DEF OneLive, At
<1> QED
  BY <1>2, <1>4, <1>5

LEMMA LiveRestore ==
  ASSUME IInv, [Next]_vars, LastInv, ~Fault, NEW w \in Worker, UndoRestore(w)
  PROVE  OneLive'
<1>1. PICK n : n = worker[w].old
  OBVIOUS
<1>2. worker[w].pc = "restore" /\ Show(n, TRUE)
  BY <1>1 DEF UndoRestore, Tries, At
<1>3. n \in DOMAIN question
  <2>1. worker[w].old \in 0..Len(question) /\ LastOK(worker[w], review)
    BY WorkerFacts DEF WorkerOK, LastInv
  <2> QED
    BY <1>1, <1>2, <2>1, ReviewFacts DEF LastOK
<1>4. n \in DOMAIN question' /\ question'[n].live
  BY <1>2, <1>3, ShowIs
<1> QED
  BY <1>4, LiveSome

LEMMA LiveWorker ==
  ASSUME IInv, [Next]_vars, LastInv, ~Fault, ~stale', NEW w \in Worker, WorkerNext(w)
  PROVE  OneLive'
<1>1. ASSUME worker[w].pc # "restore" PROVE \A x \in Worker : At(x, "restore") => worker'[x] = worker[x]
  BY <1>1, OthersStay DEF At
<1>2. CASE Hide(w) \/ UndoHide(w) \/ UndoRestore(w)
  BY <1>2, LiveHide, LiveUndoHide, LiveRestore
<1>3. CASE Make(w)
  <2>1. worker[w].pc = "make" /\ question' = Saved(Of(w).row)
    BY <1>3 DEF Make, At
  <2>2. Of(w).row \in Row
    <3>1. worker[w].id \in 1..Len(review) /\ review[worker[w].id].row # NoRow
      BY <2>1, WorkerFacts DEF WorkerOK
    <3> QED
      BY <3>1, ReviewFacts DEF SheetReview, Of
  <2>3. PICK n, row : n = Len(question) + 1 /\ row = Of(w).row
    OBVIOUS
  <2>4. n \in DOMAIN question' /\ question'[n].live
    BY <2>1, <2>2, <2>3, SavedIs
  <2> QED
    BY <2>4, LiveSome
<1>4. CASE Publish(w)
  <2>1. worker[w].pc # "restore"
    BY <1>4 DEF Publish, At
  <2>2. UNCHANGED question \/ \E n : Show(n, TRUE)
    BY <1>4 DEF Publish, Tries
  <2>3. DOMAIN question' = DOMAIN question /\ \A q \in DOMAIN question : question[q].live => question'[q].live
    BY <2>2, ShowIs
  <2> QED
    BY <1>1, <2>1, <2>3, LiveKept DEF LastInv
<1>5. CASE \/ \E i \in DOMAIN review : UndoRead(w, i) \/ \E act \in Decision : ResolveRead(w, i, act)
           \/ ResolveClaim(w) \/ Remember(w) \/ PutBack(w) \/ UndoClaim(w) \/ Forget(w)
           \/ ScanRows(w) \/ ScanPrior(w) \/ ScanQueue(w)
  <2>1. UNCHANGED question
    BY <1>5 DEF UndoRead, ResolveRead, ResolveClaim, Remember, PutBack, UndoClaim, Forget, ScanRows, ScanPrior,
                ScanQueue, Tries
  <2>2. worker[w].pc # "restore"
    BY <1>5 DEF UndoRead, ResolveRead, ResolveClaim, Remember, PutBack, UndoClaim, Forget, ScanRows, ScanPrior,
                ScanQueue, At
  <2> QED
    BY <1>1, <2>1, <2>2, LiveKept DEF LastInv
<1> QED
  BY <1>2, <1>3, <1>4, <1>5 DEF WorkerNext

LEMMA LastUpload ==
  ASSUME IInv, [Next]_vars, LastInv, Clear', NEW u \in Upload, UploadNext(u), NEW x \in Worker
  PROVE  LastOK(worker'[x], review')
<1>1. UNCHANGED worker
  BY DEF UploadNext, Index, ReadPrior, QueueMany, QueueEach, QueueInFile, Commit, CommitSingle,
         LinkFind, LinkSet, LinkMake, LinkDrop
<1>2. \A i \in 1..Len(review) : i \in 1..Len(review') /\ review'[i].row = review[i].row
  BY NextLengths DEF Older
<1>3. LinkSet(u) /\ Linked(u) = worker[x].id => worker[x].pc \notin {"unclaim", "unhide"}
  BY DEF Clear, Calm, LinkSet
<1>4. LinkSet(u) => Linked(u) \in 1..Len(review) /\ review[Linked(u)].row # NoRow
  BY JobFacts, RowOK DEF LinkSet
<1>5. \A i \in 1..Len(review) : review'[i].old = review[i].old \/
        (i = worker[x].id => review[i].row # NoRow /\ worker[x].pc \notin {"unclaim", "unhide"})
  BY <1>2, <1>3, <1>4, UploadReviews
<1>6. worker[x] \in Request /\ (worker[x].pc \notin {"idle", "prior", "queue"} => worker[x].id \in 1..Len(review))
      /\ LastOK(worker[x], review)
  BY WorkerFacts DEF LastInv
<1>7. LastOK(worker[x], review')
  BY <1>2, <1>5, <1>6, LastSame
<1> QED
  BY <1>1, <1>7

LEMMA LastInit == Init => LastInv
<1> SUFFICES ASSUME Init PROVE LastInv
  OBVIOUS
<1>1. \A w \in Worker : worker[w].pc = "idle"
  BY DEF Init, Idle
<1>2. \A w \in Worker : LastOK(worker[w], review)
  BY <1>1 DEF LastOK
<1>3. Len(review) = 0
  BY EmptySeq DEF Init
<1>4. PairsOK
  BY <1>3 DEF PairsOK
<1>5. \A q \in DOMAIN question : question[q].live
  BY DEF Init
<1> QED
  BY <1>2, <1>4, <1>5 DEF LastInv, OneLive, Live

LEMMA LastStep ==
  ASSUME IInv, [Next]_vars, LastInv, Clear'
  PROVE  LastInv'
<1>1. ~Fault /\ ~stale'
  BY ClearBack DEF Clear
<1>2. ASSUME NEW u \in Upload, UploadNext(u) PROVE LastInv'
  <2>1. \A x \in Worker : LastOK(worker'[x], review')
    BY <1>2, LastUpload
  <2>2. PairsOK' /\ OneLive'
    BY <1>2, UploadPairs, LiveUpload
  <2> QED
    BY <2>1, <2>2 DEF LastInv, LastOK
<1>3. ASSUME NEW w \in Worker, WorkerNext(w) PROVE LastInv'
  <2>1. \A x \in Worker : LastOK(worker'[x], review')
    BY <1>3, LastWorkers
  <2>2. PairsOK' /\ OneLive'
    BY <1>1, <1>3, WorkerPairs, LiveWorker
  <2> QED
    BY <2>1, <2>2 DEF LastInv, LastOK
<1>4. CASE UNCHANGED vars
  BY <1>4 DEF vars, LastInv, LastOK, PairsOK, OneLive, Live, At
<1> QED
  BY <1>1, <1>2, <1>3, <1>4 DEF Next, Crash

\* Decisions and undos never take the last copy away from the students, for any
\* uploads, sheets and number of requests: when no copy is live, an undo is about
\* to bring one back, or a statement failed, a request got in another's way, or the
\* copy that was kept was no longer live.
THEOREM LastCopyAlways == Spec => []LastCopyStays
<1> DEFINE Inv == IInv /\ (Clear => LastInv)
<1>1. Init => Inv
  BY InitOK, LastInit
<1>2. Inv /\ [Next]_vars => Inv'
  <2>1. ASSUME IInv, Clear => LastInv, [Next]_vars PROVE Clear' => LastInv'
    BY <2>1, ClearBack, LastStep
  <2> QED
    BY <2>1, Inductive
<1>3. Inv => LastCopyStays
  <2>1. ASSUME IInv, question # <<>> PROVE DOMAIN question # {}
    <3>1. question \in Seq(Question) /\ DOMAIN question = 1..Len(question) /\ Len(question) \in Nat
      BY <2>1, ReviewFacts DEF IInv, Tables
    <3>2. Len(question) # 0
      BY <2>1, <3>1, EmptySeq
    <3>3. 1 \in 1..Len(question)
      BY <3>1, <3>2
    <3> QED
      BY <3>1, <3>3
  <2> QED
    BY <2>1 DEF LastCopyStays, Clear, Calm, LastInv, OneLive
<1> QED
  BY <1>1, <1>2, <1>3, PTL DEF Spec
=============================================================================
