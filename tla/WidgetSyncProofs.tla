--------------------------- MODULE WidgetSyncProofs ---------------------------
(***************************************************************************)
(* Proofs about WidgetSync, for any logs, plots and bounds, and any width   *)
(* of an integer that is a square.                                          *)
(*                                                                         *)
(* A log is right (LogInv) when the row of its view that is selected shows  *)
(* the row of the table that was chosen; this needs the two mappings of the *)
(* proxy to be inverse to each other, which is counted: the rank of a row   *)
(* among those shown is one-to-one.  The first row of a table is selected   *)
(* in the view before a filter lets it in (OutOfView), which lasts until    *)
(* the view shows a row.  A plot is right (PlotInv) when its marker is      *)
(* where the loop over its samples ends; this needs the samples in order    *)
(* (InTime) and the arithmetic of the loop.  What a recursive function      *)
(* computes is shown without induction over data: a set of numbers that     *)
(* holds 0 and the successor of each of its members holds all, since the    *)
(* least one missing would have a predecessor (UpTo).                       *)
(***************************************************************************)
EXTENDS WidgetSync, FiniteSetTheorems, SequenceTheorems, TLAPS

-----------------------------------------------------------------------------
(* Ranks of rows *)

(* The rows shown are finitely many. *)
LEMMA FiniteRows ==
  ASSUME NEW n \in Nat, NEW rows \in SUBSET (0 .. n)
  PROVE  IsFiniteSet(rows) /\ Cardinality(rows) \in Nat
<1>1. IsFiniteSet(0 .. n)
  BY FS_Interval
<1>2. IsFiniteSet(rows)
  BY <1>1, FS_Subset
<1> QED
  BY <1>2, FS_CardinalityType

(* There are no more rows in view than in the table. *)
LEMMA FewRows ==
  ASSUME NEW n \in Nat, NEW rows \in SUBSET (1 .. n)
  PROVE  Cardinality(rows) \in Nat /\ Cardinality(rows) <= n
<1>1. IsFiniteSet(1 .. n) /\ Cardinality(1 .. n) = IF 1 > n THEN 0 ELSE n - 1 + 1
  BY FS_Interval
<1>2. Cardinality(1 .. n) = n
  BY <1>1
<1>3. IsFiniteSet(rows) /\ Cardinality(rows) <= Cardinality(1 .. n)
  BY <1>1, FS_Subset
<1> QED
  BY <1>2, <1>3, FS_CardinalityType

(* The rows of a view are numbered in the order of the table, without gaps. *)
LEMMA Ranks ==
  ASSUME NEW n \in Nat, NEW rows \in SUBSET (0 .. n)
  PROVE  /\ \A r \in rows : ViewRow(rows, r) \in 1 .. Cardinality(rows)
         /\ \A q, r \in rows : q < r => ViewRow(rows, q) < ViewRow(rows, r)
         /\ \A q, r \in rows : ViewRow(rows, q) = ViewRow(rows, r) => q = r
         /\ \A i \in 1 .. Cardinality(rows) : \E r \in rows : ViewRow(rows, r) = i
<1> DEFINE upto(r) == {q \in rows : q <= r}
           rank == [r \in rows |-> ViewRow(rows, r)]
<1>1. IsFiniteSet(rows) /\ Cardinality(rows) \in Nat
  BY FiniteRows
<1>2. \A r \in rows : r \in Nat
  OBVIOUS
<1>3. ASSUME NEW r \in rows
      PROVE  /\ IsFiniteSet(upto(r)) /\ ViewRow(rows, r) = Cardinality(upto(r))
             /\ ViewRow(rows, r) \in 1 .. Cardinality(rows)
  <2>1. upto(r) \in SUBSET rows /\ r \in upto(r)
    BY <1>2
  <2>2. IsFiniteSet(upto(r)) /\ Cardinality(upto(r)) <= Cardinality(rows)
    BY <1>1, <2>1, FS_Subset
  <2>3. Cardinality(upto(r)) \in Nat /\ Cardinality(upto(r)) # 0
    BY <2>1, <2>2, FS_CardinalityType, FS_EmptySet
  <2> QED
    BY <1>1, <2>2, <2>3 DEF ViewRow
<1>4. ASSUME NEW q \in rows, NEW r \in rows, q < r
      PROVE  ViewRow(rows, q) < ViewRow(rows, r)
  <2>1. upto(q) \in SUBSET upto(r) /\ r \in upto(r) /\ r \notin upto(q)
    <3>1. q \in Nat /\ r \in Nat
      BY <1>2
    <3>2. \A x \in rows : x <= q => x <= r
      BY <1>2, <1>4, <3>1
    <3>3. upto(q) \in SUBSET upto(r)
      BY <3>2
    <3>4. r <= r /\ ~ (r <= q)
      BY <1>4, <3>1
    <3> QED
      BY <3>3, <3>4
  <2>2. /\ IsFiniteSet(upto(r)) /\ ViewRow(rows, r) = Cardinality(upto(r))
        /\ ViewRow(rows, q) = Cardinality(upto(q))
        /\ ViewRow(rows, r) \in 1 .. Cardinality(rows)
        /\ ViewRow(rows, q) \in 1 .. Cardinality(rows)
    BY <1>3
  <2> HIDE DEF upto
  <2>3. /\ Cardinality(upto(q)) <= Cardinality(upto(r))
        /\ Cardinality(upto(r)) = Cardinality(upto(q)) => upto(r) = upto(q)
    BY <2>1, <2>2, FS_Subset
  <2>4. Cardinality(upto(q)) # Cardinality(upto(r))
    BY <2>1, <2>3
  <2> QED
    BY <1>1, <2>2, <2>3, <2>4
<1>5. ASSUME NEW q \in rows, NEW r \in rows, ViewRow(rows, q) = ViewRow(rows, r)
      PROVE  q = r
  <2>1. q \in Nat /\ r \in Nat
    BY <1>2
  <2>2. ViewRow(rows, q) \in 1 .. Cardinality(rows)
    BY <1>3
  <2>3. ~ (ViewRow(rows, q) < ViewRow(rows, r)) /\ ~ (ViewRow(rows, r) < ViewRow(rows, q))
    BY <1>1, <1>5, <2>2
  <2> QED
    BY <1>4, <2>1, <2>3
<1>6. rank \in Injection(rows, 1 .. Cardinality(rows))
  <2>1. rank \in [rows -> 1 .. Cardinality(rows)]
    BY <1>3
  <2>2. \A q, r \in rows : rank[q] = rank[r] => q = r
    BY <1>5
  <2> QED
    BY <2>1, <2>2 DEF Injection, IsInjective
<1>7. rank \in Surjection(rows, 1 .. Cardinality(rows))
  <2>1. /\ IsFiniteSet(1 .. Cardinality(rows))
        /\ Cardinality(1 .. Cardinality(rows)) = Cardinality(rows)
    BY <1>1, FS_Interval
  <2> HIDE DEF rank
  <2> QED
    BY <1>6, <2>1, FS_Injection
<1>8. \A i \in 1 .. Cardinality(rows) : \E r \in rows : ViewRow(rows, r) = i
  BY <1>7 DEF Surjection
<1> QED
  BY <1>3, <1>4, <1>5, <1>8

(* A set of naturals that is not empty has a least element: the one of rank 1. *)
LEMMA Least ==
  ASSUME NEW S \in SUBSET Nat, S # {}
  PROVE  \E m \in S : \A x \in S : m <= x
<1>1. PICK s \in S : TRUE
  OBVIOUS
<1> DEFINE rows == {x \in S : x <= s}
<1>2. s \in Nat /\ rows \in SUBSET (0 .. s) /\ s \in rows
  <2>1. s \in Nat /\ s <= s
    OBVIOUS
  <2>2. \A x \in rows : x \in Nat /\ x <= s
    OBVIOUS
  <2>3. s \in rows
    BY <2>1
  <2> HIDE DEF rows
  <2> QED
    BY <2>1, <2>2, <2>3
<1>3. IsFiniteSet(rows) /\ Cardinality(rows) \in Nat /\ Cardinality(rows) # 0
  BY <1>2, FiniteRows, FS_EmptySet
<1> HIDE DEF rows
<1>4. PICK m \in rows : ViewRow(rows, m) = 1
  <2>1. 1 \in 1 .. Cardinality(rows)
    BY <1>3
  <2>2. \A i \in 1 .. Cardinality(rows) : \E r \in rows : ViewRow(rows, r) = i
    BY <1>2, Ranks
  <2> QED
    BY <2>1, <2>2
<1>5. \A x \in rows : ~ (x < m)
  <2> SUFFICES ASSUME NEW x \in rows, x < m PROVE FALSE
    OBVIOUS
  <2>1. ViewRow(rows, x) < ViewRow(rows, m) /\ ViewRow(rows, x) \in 1 .. Cardinality(rows)
    BY <1>2, Ranks
  <2> QED
    BY <1>3, <1>4, <2>1
<1>6. m \in S /\ m \in Nat /\ m <= s
  BY <1>2 DEF rows
<1>7. \A x \in S : m <= x
  <2> TAKE x \in S
  <2>1. x \in Nat
    OBVIOUS
  <2>2. CASE x <= s
    <3>1. x \in rows
      BY <2>2 DEF rows
    <3> QED
      BY <1>5, <1>6, <2>1, <3>1
  <2>3. CASE ~ (x <= s)
    BY <1>2, <1>6, <2>1, <2>3
  <2> QED
    BY <2>2, <2>3
<1> QED
  BY <1>6, <1>7

(* Induction over the numbers up to n, for a set instead of a formula *)
LEMMA UpTo ==
  ASSUME NEW n \in Nat, NEW S, 0 \in S,
         \A k \in 0 .. n : k < n /\ k \in S => k + 1 \in S
  PROVE  \A k \in 0 .. n : k \in S
<1> DEFINE T == {k \in 0 .. n : k \notin S}
<1> SUFFICES ASSUME T # {} PROVE FALSE
  OBVIOUS
<1>1. T \in SUBSET Nat
  OBVIOUS
<1>2. PICK m \in T : \A x \in T : m <= x
  BY <1>1, Least
<1>3. m \in 0 .. n /\ m \notin S /\ m # 0
  OBVIOUS
<1>4. m - 1 \in 0 .. n /\ m - 1 < n /\ (m - 1) + 1 = m /\ ~ (m <= m - 1)
  BY <1>3
<1>5. m - 1 \in S
  BY <1>2, <1>4
<1> QED
  BY <1>3, <1>4, <1>5

-----------------------------------------------------------------------------
(* Rows of the view and rows of the table, for any set of rows shown *)

RowAt(rows, v) ==
  IF v \in 1 .. Cardinality(rows) THEN CHOOSE r \in rows : ViewRow(rows, r) = v ELSE 0

(* SourceRow is the row at a place among those the log shows. *)
LEMMA SourceRowAt ==
  ASSUME NEW l, NEW v
  PROVE  SourceRow(l, v) = RowAt(shown[l], v)
BY DEF SourceRow, RowAt

ChosenRow(rows, ch) == IF ch = First THEN RowAt(rows, 1) ELSE ch

(* The row chosen depends on the rows the log shows only. *)
LEMMA ChosenAt ==
  ASSUME NEW l
  PROVE  Chosen(l) = ChosenRow(shown[l], chosen[l])
BY SourceRowAt DEF Chosen, ChosenRow

(* mapToSource and mapFromSource are inverse to each other. *)
LEMMA RowAtFacts ==
  ASSUME NEW n \in Nat, NEW rows \in SUBSET (1 .. n)
  PROVE  /\ Cardinality(rows) \in Nat /\ Cardinality(rows) <= n
         /\ RowAt(rows, 0) = 0 /\ ViewRow(rows, 0) = 0
         /\ \A v \in 1 .. Cardinality(rows) :
              RowAt(rows, v) \in rows /\ ViewRow(rows, RowAt(rows, v)) = v
         /\ \A r \in rows :
              ViewRow(rows, r) \in 1 .. Cardinality(rows) /\ RowAt(rows, ViewRow(rows, r)) = r
<1>1. rows \in SUBSET (0 .. n)
  OBVIOUS
<1>2. Cardinality(rows) \in Nat /\ Cardinality(rows) <= n
  BY FewRows
<1>3. RowAt(rows, 0) = 0 /\ ViewRow(rows, 0) = 0
  <2>1. 0 \notin rows /\ 0 \notin 1 .. Cardinality(rows)
    BY <1>2
  <2> QED
    BY <2>1 DEF RowAt, ViewRow
<1>4. ASSUME NEW v \in 1 .. Cardinality(rows)
      PROVE  RowAt(rows, v) \in rows /\ ViewRow(rows, RowAt(rows, v)) = v
  <2>1. \E r \in rows : ViewRow(rows, r) = v
    BY <1>1, Ranks
  <2>2. RowAt(rows, v) = CHOOSE r \in rows : ViewRow(rows, r) = v
    BY DEF RowAt
  <2> QED
    BY <2>1, <2>2
<1>5. ASSUME NEW r \in rows
      PROVE  ViewRow(rows, r) \in 1 .. Cardinality(rows) /\ RowAt(rows, ViewRow(rows, r)) = r
  <2>1. ViewRow(rows, r) \in 1 .. Cardinality(rows)
    BY <1>1, Ranks
  <2>2. RowAt(rows, ViewRow(rows, r)) \in rows
        /\ ViewRow(rows, RowAt(rows, ViewRow(rows, r))) = ViewRow(rows, r)
    BY <1>4, <2>1
  <2>3. \A p, q \in rows : ViewRow(rows, p) = ViewRow(rows, q) => p = q
    BY <1>1, Ranks
  <2> QED
    BY <2>1, <2>2, <2>3
<1> QED
  BY <1>2, <1>3, <1>4, <1>5

(* A row behind all others leaves the rows of the view where they are. *)
LEMMA RowAtMore ==
  ASSUME NEW n \in Nat, NEW rows \in SUBSET (1 .. n)
  PROVE  /\ Cardinality(rows) <= Cardinality(rows \cup {n + 1})
         /\ \A v \in 0 .. Cardinality(rows) : RowAt(rows \cup {n + 1}, v) = RowAt(rows, v)
<1> DEFINE more == rows \cup {n + 1}
<1>1. n + 1 \in Nat /\ more \in SUBSET (1 .. n + 1) /\ more \in SUBSET (0 .. n + 1)
  OBVIOUS
<1>2. Cardinality(rows) \in Nat /\ Cardinality(more) \in Nat
  BY <1>1, RowAtFacts
<1>3. Cardinality(rows) <= Cardinality(more)
  <2>1. IsFiniteSet(more)
    BY <1>1, FiniteRows
  <2>2. rows \subseteq more
    OBVIOUS
  <2> HIDE DEF more
  <2> QED
    BY <2>1, <2>2, FS_Subset
<1>4. ASSUME NEW r \in rows
      PROVE  ViewRow(more, r) = ViewRow(rows, r)
  <2>1. r \in Nat /\ r <= n
    OBVIOUS
  <2>2. ~ (n + 1 <= r)
    BY <2>1
  <2>3. {q \in more : q <= r} = {q \in rows : q <= r}
    BY <2>2
  <2> QED
    BY <2>3 DEF ViewRow
<1>5. ASSUME NEW v \in 1 .. Cardinality(rows)
      PROVE  RowAt(more, v) = RowAt(rows, v)
  <2> DEFINE r == RowAt(rows, v)
  <2>1. r \in rows /\ ViewRow(rows, r) = v
    BY RowAtFacts
  <2>2. r \in more /\ ViewRow(more, r) = v
    BY <1>4, <2>1
  <2>3. RowAt(more, ViewRow(more, r)) = r
    <3> HIDE DEF more, r
    <3> QED
      BY <1>1, <2>2, RowAtFacts
  <2> QED
    BY <2>2, <2>3
<1>6. RowAt(more, 0) = RowAt(rows, 0)
  <2>1. RowAt(more, 0) = 0
    BY <1>1, RowAtFacts
  <2>2. RowAt(rows, 0) = 0
    BY RowAtFacts
  <2> QED
    BY <2>1, <2>2
<1>7. \A v \in 0 .. Cardinality(rows) : v = 0 \/ v \in 1 .. Cardinality(rows)
  BY <1>2
<1> QED
  BY <1>3, <1>5, <1>6, <1>7

-----------------------------------------------------------------------------
(* The nearest row *)

Samples == BoundedSeq(1 .. MaxTime, MaxRows)
Heards == [time : 0 .. MaxTime, rows : Rows]

NearestIn(tms, rows, t) ==
  IF rows = {} THEN 1
  ELSE CHOOSE r \in rows : \A q \in rows \ {r} :
         \/ Distance(tms[r], t) < Distance(tms[q], t)
         \/ Distance(tms[r], t) = Distance(tms[q], t) /\ r < q

(* What the proofs need of the constants *)
LEMMA Constants ==
  /\ MaxRows \in Nat /\ MaxTime \in Nat /\ 1 <= MaxTime /\ MaxClicks \in Nat /\ Width \in Nat
  /\ Never \in Heards /\ 0 \in Rows
<1>1. /\ MaxRows \in Nat /\ MaxTime \in Nat /\ 1 <= MaxTime /\ MaxClicks \in Nat
      /\ Width \in Nat
  BY WidgetSyncAssumption
<1>2. Never \in Heards /\ 0 \in Rows
  BY <1>1 DEF Never, Heards, Rows
<1> QED
  BY <1>1, <1>2

(* NearestRow depends on the log's times and on the rows it shows only. *)
LEMMA NearestRowIn ==
  ASSUME NEW l, NEW t
  PROVE  NearestRow(l, t) = NearestIn(times[l], shown[l], t)
BY DEF NearestRow, NearestIn

(* A sequence of times of at most MaxRows elements *)
LEMMA SamplesFacts ==
  ASSUME NEW s \in Samples
  PROVE  /\ s \in Seq(1 .. MaxTime) /\ Len(s) \in Nat /\ Len(s) <= MaxRows
         /\ DOMAIN s = 1 .. Len(s)
         /\ \A i \in 1 .. Len(s) : s[i] \in 1 .. MaxTime /\ s[i] \in Nat
<1>1. PICK m \in 0 .. MaxRows : s \in [1 .. m -> 1 .. MaxTime]
  BY DEF Samples, BoundedSeq, SeqOf
<1>2. MaxRows \in Nat /\ MaxTime \in Nat
  BY WidgetSyncAssumption
<1>3. m \in Nat /\ m <= MaxRows
  BY <1>1, <1>2
<1>4. s \in Seq(1 .. MaxTime)
  BY <1>1, <1>3, SeqDef
<1>5. Len(s) = m /\ DOMAIN s = 1 .. Len(s)
  BY <1>1, <1>3, <1>4
<1>6. \A i \in 1 .. Len(s) : s[i] \in 1 .. MaxTime /\ s[i] \in Nat
  BY <1>1, <1>2, <1>5
<1> QED
  BY <1>3, <1>4, <1>5, <1>6

(* What makes a sequence one of times *)
LEMMA SamplesIntro ==
  ASSUME NEW s \in Seq(1 .. MaxTime), Len(s) <= MaxRows
  PROVE  s \in Samples
<1>1. MaxRows \in Nat /\ Len(s) \in Nat
  BY WidgetSyncAssumption
<1>2. Len(s) \in 0 .. MaxRows
  BY <1>1
<1>3. s \in [1 .. Len(s) -> 1 .. MaxTime]
  BY LenProperties
<1> QED
  BY <1>2, <1>3 DEF Samples, BoundedSeq, SeqOf

(* One more time, at the end *)
LEMMA Appended ==
  ASSUME NEW s \in Samples, Len(s) < MaxRows, NEW t \in 1 .. MaxTime
  PROVE  /\ Append(s, t) \in Samples /\ Len(Append(s, t)) = Len(s) + 1
         /\ \A i \in 1 .. Len(s) : Append(s, t)[i] = s[i]
         /\ Append(s, t)[Len(s) + 1] = t
<1>1. s \in Seq(1 .. MaxTime) /\ Len(s) \in Nat /\ MaxRows \in Nat
  BY SamplesFacts, Constants
<1>2. /\ Append(s, t) \in Seq(1 .. MaxTime) /\ Len(Append(s, t)) = Len(s) + 1
      /\ \A i \in 1 .. Len(s) : Append(s, t)[i] = s[i]
      /\ Append(s, t)[Len(s) + 1] = t
  BY <1>1
<1>3. Append(s, t) \in Samples
  <2>1. Len(Append(s, t)) <= MaxRows
    BY <1>1, <1>2
  <2> QED
    BY <1>2, <2>1, SamplesIntro
<1> QED
  BY <1>2, <1>3

(* A distance is not negative. *)
LEMMA DistanceType ==
  ASSUME NEW s \in Nat, NEW t \in Nat
  PROVE  Distance(s, t) \in Nat
BY DEF Distance

(* Some row in view is nearest, and it is the one gone to. *)
LEMMA NearestFacts ==
  ASSUME NEW tms \in Samples, NEW rows \in SUBSET DOMAIN tms, rows # {}, NEW t \in Nat
  PROVE  /\ NearestIn(tms, rows, t) \in rows
         /\ \A q \in rows : Distance(tms[NearestIn(tms, rows, t)], t) <= Distance(tms[q], t)
<1> DEFINE far(r) == Distance(tms[r], t)
           best(r) == \A q \in rows \ {r} :
                        \/ far(r) < far(q)
                        \/ far(r) = far(q) /\ r < q
<1>1. ASSUME NEW r \in rows
      PROVE  r \in Nat /\ far(r) \in Nat
  <2>1. r \in 1 .. Len(tms) /\ Len(tms) \in Nat
    BY SamplesFacts
  <2>2. tms[r] \in Nat
    BY <2>1, SamplesFacts
  <2>3. Distance(tms[r], t) \in Nat
    BY <2>2, DistanceType
  <2> QED
    BY <2>1, <2>3
<1> HIDE DEF far
<1>2. PICK d \in {far(r) : r \in rows} : \A x \in {far(r) : r \in rows} : d <= x
  <2>1. {far(r) : r \in rows} \in SUBSET Nat /\ {far(r) : r \in rows} # {}
    BY <1>1
  <2> QED
    BY <2>1, Least
<1>3. PICK m \in {r \in rows : far(r) = d} : \A x \in {r \in rows : far(r) = d} : m <= x
  <2>1. {r \in rows : far(r) = d} \in SUBSET Nat /\ {r \in rows : far(r) = d} # {}
    BY <1>1, <1>2
  <2> QED
    BY <2>1, Least
<1>4. best(m)
  <2> SUFFICES ASSUME NEW q \in rows, q # m
               PROVE  far(m) < far(q) \/ (far(m) = far(q) /\ m < q)
    OBVIOUS
  <2>1. far(m) = d /\ d <= far(q) /\ far(m) \in Nat /\ far(q) \in Nat /\ m \in Nat /\ q \in Nat
    BY <1>1, <1>2, <1>3
  <2>2. far(q) = d => m <= q
    BY <1>3
  <2> QED
    BY <2>1, <2>2
<1>5. NearestIn(tms, rows, t) = CHOOSE r \in rows : best(r)
  BY DEF NearestIn, far
<1>6. NearestIn(tms, rows, t) \in rows /\ best(NearestIn(tms, rows, t))
  <2> HIDE DEF best
  <2> QED
    BY <1>3, <1>4, <1>5
<1>7. ASSUME NEW q \in rows
      PROVE  far(NearestIn(tms, rows, t)) <= far(q)
  <2> DEFINE r == NearestIn(tms, rows, t)
  <2>1. far(q) \in Nat /\ far(r) \in Nat
    BY <1>1, <1>6
  <2>2. CASE q = r
    BY <2>1, <2>2
  <2>3. CASE q # r
    BY <1>6, <2>1, <2>3
  <2> QED
    BY <2>2, <2>3
<1> QED
  BY <1>6, <1>7 DEF far

-----------------------------------------------------------------------------
(* What is true of a log: its samples tms, the rows it shows, what is selected, current  *)
(* and chosen in it, and what it heard                                                   *)

(* SelectionNearest for one log *)
IsNearest(tms, rows, s, h) ==
  h # Never =>
    LET then == {r \in rows : r <= h.rows} IN
    IF then = {} THEN s = 0
    ELSE /\ s # 0
         /\ \A r \in then : Distance(tms[RowAt(rows, s)], h.time) <= Distance(tms[r], h.time)

(* The first batch selected a row that no filter let into view yet. *)
OutOfView(tms, rows, s, ch) == s = 1 /\ ch = First /\ rows = {} /\ tms # << >>

LogInv(tms, rows, s, c, ch, h) ==
  /\ tms \in Samples /\ rows \in SUBSET (1 .. Len(tms))
  /\ s \in 0 .. Cardinality(rows) \/ OutOfView(tms, rows, s, ch)
  /\ c \in Rows
  /\ h \in Heards /\ h.rows <= Len(tms)
  /\ RowAt(rows, s) = ChosenRow(rows, ch)
  /\ ch = First => s = 1 /\ h = Never
  /\ s # 0 /\ h = Never => c = s
  /\ IsNearest(tms, rows, s, h)

(* Rows of the view, and the row selected, are rows of the model. *)
LEMMA LogRows ==
  ASSUME NEW tms \in Samples, NEW rows \in SUBSET (1 .. Len(tms))
  PROVE  /\ Len(tms) \in Nat /\ Len(tms) <= MaxRows /\ Len(tms) \in Rows
         /\ Cardinality(rows) \in Nat /\ Cardinality(rows) <= MaxRows
         /\ \A v \in 0 .. Cardinality(rows) : v \in Rows /\ RowAt(rows, v) \in Rows
<1>1. Len(tms) \in Nat /\ Len(tms) <= MaxRows /\ MaxRows \in Nat
  BY SamplesFacts, Constants
<1>2. Cardinality(rows) \in Nat /\ Cardinality(rows) <= Len(tms)
  BY <1>1, RowAtFacts
<1>3. ASSUME NEW v \in 0 .. Cardinality(rows)
      PROVE  v \in Rows /\ RowAt(rows, v) \in Rows
  <2>1. v \in Rows
    BY <1>1, <1>2 DEF Rows
  <2>2. CASE v = 0
    BY <1>1, <2>1, <2>2, RowAtFacts DEF Rows
  <2>3. CASE v \in 1 .. Cardinality(rows)
    <3>1. RowAt(rows, v) \in rows
      BY <1>1, <2>3, RowAtFacts
    <3>2. RowAt(rows, v) \in 1 .. Len(tms)
      BY <3>1
    <3> HIDE DEF RowAt
    <3> QED
      BY <1>1, <2>1, <3>2 DEF Rows
  <2> QED
    BY <1>2, <2>1, <2>2, <2>3
<1> QED
  BY <1>1, <1>2, <1>3 DEF Rows

(* A row is not the mark of the first batch. *)
LEMMA NotFirst ==
  ASSUME NEW ch \in Rows
  PROVE  ch # First /\ \A rows : ChosenRow(rows, ch) = ch
BY Constants DEF First, Rows, ChosenRow

(* A click: the row selected is the current one, and what was heard is forgotten. *)
LEMMA AfterClick ==
  ASSUME NEW tms \in Samples, NEW rows \in SUBSET (1 .. Len(tms)), NEW v \in 0 .. Cardinality(rows)
  PROVE  LogInv(tms, rows, v, v, RowAt(rows, v), Never)
<1>1. v \in Rows /\ Len(tms) \in Nat /\ RowAt(rows, v) \in Rows
  BY LogRows
<1>2. Never.rows = 0
  BY DEF Never
<1>3. IsNearest(tms, rows, v, Never)
  BY DEF IsNearest
<1>4. RowAt(rows, v) # First /\ ChosenRow(rows, RowAt(rows, v)) = RowAt(rows, v)
  BY <1>1, NotFirst
<1> QED
  BY <1>1, <1>2, <1>3, <1>4, Constants DEF LogInv

(* A request: the selection goes to the nearest row, the current index stays. *)
LEMMA AfterRequest ==
  ASSUME NEW tms, NEW rows, NEW s, NEW c, NEW ch, NEW h, LogInv(tms, rows, s, c, ch, h),
         NEW t \in 0 .. MaxTime
  PROVE  LogInv(tms, rows, ViewRow(rows, NearestIn(tms, rows, t)), c,
                IF rows = {} THEN 0 ELSE NearestIn(tms, rows, t),
                [time |-> t, rows |-> Len(tms)])
<1> DEFINE r == NearestIn(tms, rows, t)
           v == ViewRow(rows, r)
           now == [time |-> t, rows |-> Len(tms)]
<1>1. tms \in Samples /\ rows \in SUBSET (1 .. Len(tms)) /\ c \in Rows
  BY DEF LogInv
<1>2. /\ Len(tms) \in Nat /\ Len(tms) \in Rows /\ t \in Nat
      /\ Cardinality(rows) \in Nat
  BY <1>1, LogRows, Constants
<1>3. now \in Heards /\ now.rows = Len(tms) /\ now.time = t /\ now.rows <= Len(tms)
  BY <1>2 DEF Heards
<1>4. {q \in rows : q <= now.rows} = rows
  <2>1. \A q \in rows : q <= now.rows
    BY <1>1, <1>2
  <2> HIDE DEF now
  <2> QED
    BY <2>1
<1>5. CASE rows = {}
  <2>1. v = 0 /\ RowAt(rows, 0) = 0
    BY <1>1, <1>2, <1>5, RowAtFacts DEF ViewRow
  <2>2. IsNearest(tms, rows, v, now)
    BY <1>4, <1>5, <2>1 DEF IsNearest
  <2>3. 0 # First /\ ChosenRow(rows, 0) = 0
    BY Constants, NotFirst
  <2>5. LogInv(tms, rows, v, c, 0, now)
    <3> HIDE DEF v, r
    <3> QED
      BY <1>1, <1>2, <1>3, <1>5, <2>1, <2>2, <2>3 DEF LogInv
  <2> QED
    BY <1>5, <2>5
<1>6. CASE rows # {}
  <2>1. r \in rows /\ \A q \in rows : Distance(tms[r], t) <= Distance(tms[q], t)
    <3>1. rows \in SUBSET DOMAIN tms
      BY <1>1, SamplesFacts
    <3> QED
      BY <1>1, <1>2, <1>6, <3>1, NearestFacts
  <2> HIDE DEF r
  <2>2. v \in 1 .. Cardinality(rows) /\ RowAt(rows, v) = r
    BY <1>1, <1>2, <2>1, RowAtFacts
  <2> HIDE DEF v, now
  <2>3. v # 0 /\ v \in 0 .. Cardinality(rows)
    BY <1>2, <2>2
  <2>4. now # Never
    <3>1. Len(tms) # 0
      <4>1. PICK q \in rows : TRUE
        BY <1>6
      <4>2. q \in 1 .. Len(tms)
        BY <1>1
      <4> QED
        BY <1>2, <4>2
    <3> QED
      BY <1>3, <3>1 DEF Never
  <2>5. IsNearest(tms, rows, v, now)
    BY <1>3, <1>4, <1>6, <2>1, <2>2, <2>3 DEF IsNearest
  <2>6. r # First /\ ChosenRow(rows, r) = r
    <3>1. RowAt(rows, v) \in Rows
      BY <1>1, <2>3, LogRows
    <3> QED
      BY <2>2, <3>1, NotFirst
  <2>7. LogInv(tms, rows, v, c, r, now)
    BY <1>1, <1>3, <2>2, <2>3, <2>4, <2>5, <2>6 DEF LogInv
  <2> QED
    BY <1>6, <2>7 DEF r, v, now
<1> QED
  BY <1>5, <1>6

(* What the row selected is, in view or not *)
LEMMA SelectedRow ==
  ASSUME NEW tms, NEW rows, NEW s, NEW c, NEW ch, NEW h, LogInv(tms, rows, s, c, ch, h)
  PROVE  /\ RowAt(rows, s) \in Rows /\ RowAt(rows, s) # First
         /\ ChosenRow(rows, RowAt(rows, s)) = RowAt(rows, s)
         /\ s \in 0 .. Cardinality(rows) => ViewRow(rows, RowAt(rows, s)) = s
         /\ OutOfView(tms, rows, s, ch) =>
              RowAt(rows, s) = 0 /\ ViewRow(rows, RowAt(rows, s)) = 0 /\ h = Never
<1>1. /\ tms \in Samples /\ rows \in SUBSET (1 .. Len(tms))
      /\ s \in 0 .. Cardinality(rows) \/ OutOfView(tms, rows, s, ch)
  BY DEF LogInv
<1>2. Len(tms) \in Nat /\ Cardinality(rows) \in Nat
  BY <1>1, LogRows
<1>3. ASSUME s \in 0 .. Cardinality(rows)
      PROVE  RowAt(rows, s) \in Rows /\ ViewRow(rows, RowAt(rows, s)) = s
  <2>1. RowAt(rows, s) \in Rows
    BY <1>1, <1>3, LogRows
  <2>2. CASE s = 0
    <3>1. RowAt(rows, 0) = 0 /\ ViewRow(rows, 0) = 0
      BY <1>1, <1>2, RowAtFacts
    <3> QED
      BY <2>1, <2>2, <3>1
  <2>3. CASE s # 0
    <3>1. s \in 1 .. Cardinality(rows)
      BY <1>2, <1>3, <2>3
    <3> QED
      BY <1>1, <1>2, <2>1, <3>1, RowAtFacts
  <2> QED
    BY <2>1, <2>2, <2>3
<1>4. ASSUME OutOfView(tms, rows, s, ch)
      PROVE  RowAt(rows, s) = 0 /\ ViewRow(rows, RowAt(rows, s)) = 0 /\ h = Never
  <2>1. rows = {} /\ ch = First
    BY <1>4 DEF OutOfView
  <2>2. Cardinality(rows) = 0 /\ s \notin 1 .. 0
    BY <2>1, <1>4, FS_EmptySet DEF OutOfView
  <2>3. RowAt(rows, s) = 0
    BY <2>2 DEF RowAt
  <2> QED
    BY <2>1, <2>3 DEF LogInv, ViewRow
<1>5. RowAt(rows, s) \in Rows
  BY <1>1, <1>3, <1>4, Constants
<1> QED
  BY <1>3, <1>4, <1>5, NotFirst

(* A filter that shows the same rows: the row selected becomes the current one; one that is *)
(* not in view is not selected any more.                                                   *)
LEMMA AfterReselect ==
  ASSUME NEW tms, NEW rows, NEW s, NEW c, NEW ch, NEW h, LogInv(tms, rows, s, c, ch, h)
  PROVE  LET k == ViewRow(rows, RowAt(rows, s))
         IN  LogInv(tms, rows, k, IF k # 0 THEN k ELSE c, ChosenRow(rows, ch), h)
<1> DEFINE k == ViewRow(rows, RowAt(rows, s))
           x == RowAt(rows, s)
<1>1. /\ tms \in Samples /\ rows \in SUBSET (1 .. Len(tms)) /\ c \in Rows
      /\ h \in Heards /\ h.rows <= Len(tms) /\ x = ChosenRow(rows, ch)
  BY DEF LogInv
<1>2. Len(tms) \in Nat /\ Cardinality(rows) \in Nat
  BY <1>1, LogRows
<1>3. x # First /\ ChosenRow(rows, x) = x
  BY SelectedRow
<1>4. CASE s \in 0 .. Cardinality(rows)
  <2>1. k = s /\ s \in Rows
    BY <1>1, <1>4, SelectedRow, LogRows
  <2>2. RowAt(rows, s) = ChosenRow(rows, x) /\ IsNearest(tms, rows, s, h)
    BY <1>3 DEF LogInv
  <2> HIDE DEF k, x
  <2>3. LogInv(tms, rows, s, IF s # 0 THEN s ELSE c, x, h)
    BY <1>1, <1>3, <1>4, <2>1, <2>2 DEF LogInv
  <2> QED
    BY <1>1, <2>1, <2>3 DEF k
<1>5. CASE OutOfView(tms, rows, s, ch)
  <2>1. k = 0 /\ x = 0 /\ h = Never
    BY <1>5, SelectedRow
  <2>2. RowAt(rows, 0) = 0 /\ 0 \in 0 .. Cardinality(rows)
    BY <1>1, <1>2, RowAtFacts
  <2>3. IsNearest(tms, rows, 0, Never)
    BY DEF IsNearest
  <2> HIDE DEF k, x
  <2>4. LogInv(tms, rows, 0, c, 0, Never)
    BY <1>1, <1>3, <2>1, <2>2, <2>3 DEF LogInv
  <2> QED
    BY <1>1, <2>1, <2>4 DEF k
<1> QED
  BY <1>4, <1>5 DEF LogInv

(* A request the log made itself: the row selected is in view. *)
LEMMA AfterButton ==
  ASSUME NEW tms, NEW rows, NEW s, NEW c, NEW ch, NEW h, LogInv(tms, rows, s, c, ch, h),
         rows # {}
  PROVE  LogInv(tms, rows, s, c, RowAt(rows, s), h)
<1>1. s \in 0 .. Cardinality(rows)
  BY DEF LogInv, OutOfView
<1>2. RowAt(rows, s) # First /\ ChosenRow(rows, RowAt(rows, s)) = RowAt(rows, s)
  BY SelectedRow
<1> QED
  BY <1>1, <1>2 DEF LogInv

(* A filter: the row of the table selected stays selected if it is still in view. *)
LEMMA AfterFilter ==
  ASSUME NEW tms, NEW rows, NEW s, NEW c, NEW ch, NEW h, LogInv(tms, rows, s, c, ch, h),
         NEW now \in SUBSET (1 .. Len(tms))
  PROVE  LET k == ViewRow(now, RowAt(rows, s))
             x == ChosenRow(rows, ch)
         IN  LogInv(tms, now, k, IF k # 0 THEN k ELSE c, IF x \in now THEN x ELSE 0, Never)
<1> DEFINE x == ChosenRow(rows, ch)
           k == ViewRow(now, RowAt(rows, s))
           to == IF x \in now THEN x ELSE 0
<1>1. tms \in Samples /\ RowAt(rows, s) = x /\ c \in Rows
  BY DEF LogInv
<1>2. Len(tms) \in Nat /\ Cardinality(now) \in Nat
  BY <1>1, LogRows
<1>3. x \in Rows
  BY <1>1, SelectedRow
<1> HIDE DEF x
<1>4. k \in 0 .. Cardinality(now) /\ RowAt(now, k) = to
  <2>1. CASE x \in now
    <3>1. k \in 1 .. Cardinality(now) /\ RowAt(now, k) = x
      BY <1>1, <1>2, <2>1, RowAtFacts
    <3> QED
      BY <1>2, <2>1, <3>1
  <2>2. CASE x \notin now
    <3>1. k = 0 /\ RowAt(now, 0) = 0
      BY <1>1, <1>2, <2>2, RowAtFacts DEF ViewRow
    <3> QED
      BY <1>2, <2>2, <3>1
  <2> QED
    BY <2>1, <2>2
<1>5. to # First /\ ChosenRow(now, to) = to
  BY <1>3, NotFirst, Constants
<1> HIDE DEF k, to
<1>6. k \in Rows
  BY <1>1, <1>4, LogRows
<1>7. Never \in Heards /\ Never.rows <= Len(tms) /\ IsNearest(tms, now, k, Never)
  BY <1>2, Constants DEF Never, IsNearest
<1>8. LogInv(tms, now, k, IF k # 0 THEN k ELSE c, to, Never)
  BY <1>1, <1>4, <1>5, <1>6, <1>7 DEF LogInv
<1> QED
  BY <1>8 DEF k, x, to

(* The first row arrives: it is selected and current, in view or not. *)
LEMMA AfterFirst ==
  ASSUME NEW tms \in Samples, tms = << >>, NEW t \in 1 .. MaxTime, 0 < MaxRows,
         NEW now \in SUBSET {1}
  PROVE  LogInv(Append(tms, t), now, 1, 1, First, Never)
<1> DEFINE next == Append(tms, t)
<1>1. Len(tms) = 0 /\ MaxRows \in Nat
  BY Constants
<1>2. next \in Samples /\ Len(next) = 1
  <2>1. next \in Samples /\ Len(next) = Len(tms) + 1
    BY <1>1, Appended
  <2> HIDE DEF next
  <2> QED
    BY <1>1, <2>1
<1> HIDE DEF next
<1>3. next # << >> /\ now \in SUBSET (1 .. Len(next)) /\ 1 \in Rows
  BY <1>1, <1>2 DEF Rows
<1>4. RowAt(now, 1) = ChosenRow(now, First)
  BY DEF ChosenRow
<1>5. Never \in Heards /\ Never.rows <= Len(next) /\ IsNearest(next, now, 1, Never)
  BY <1>2, Constants DEF Never, IsNearest
<1>6. 1 \in 0 .. Cardinality(now) \/ OutOfView(next, now, 1, First)
  <2>1. CASE now = {}
    BY <1>3, <2>1 DEF OutOfView
  <2>2. CASE now = {1}
    <3>1. Cardinality(now) = 1
      BY <2>2, FS_Singleton
    <3> QED
      BY <3>1
  <2> QED
    BY <2>1, <2>2
<1>7. LogInv(next, now, 1, 1, First, Never)
  BY <1>2, <1>3, <1>4, <1>5, <1>6 DEF LogInv
<1> QED
  BY <1>7 DEF next

(* Another row arrives, and is shown or not. *)
LEMMA AfterAppend ==
  ASSUME NEW tms, NEW rows, NEW s, NEW c, NEW ch, NEW h, LogInv(tms, rows, s, c, ch, h),
         tms # << >>, Len(tms) < MaxRows, NEW t \in 1 .. MaxTime,
         NEW now, now = rows \/ now = rows \cup {Len(tms) + 1}
  PROVE  LogInv(Append(tms, t), now, s, c, ch, h)
<1> DEFINE n == Len(tms)
           next == Append(tms, t)
<1>1. /\ tms \in Samples /\ rows \in SUBSET (1 .. n)
      /\ c \in Rows /\ h \in Heards /\ h.rows <= n
  BY DEF LogInv
<1>2. n \in Nat /\ MaxRows \in Nat
  BY <1>1, SamplesFacts, Constants
<1>3. next \in Samples /\ Len(next) = n + 1 /\ \A i \in 1 .. n : next[i] = tms[i]
  BY <1>1, Appended
<1> HIDE DEF next, n
<1>4. /\ Cardinality(rows) \in Nat /\ Cardinality(now) \in Nat /\ now \in SUBSET (1 .. n + 1)
      /\ Cardinality(rows) <= Cardinality(now)
      /\ \A v \in 0 .. Cardinality(rows) : RowAt(now, v) = RowAt(rows, v)
  <2>1. now \in SUBSET (1 .. n + 1) /\ n + 1 \in Nat
    <3>1. rows \in SUBSET (1 .. n + 1) /\ n + 1 \in 1 .. n + 1
      BY <1>1, <1>2
    <3>2. now = rows \/ now = rows \cup {n + 1}
      BY DEF n
    <3>3. rows \cup {n + 1} \in SUBSET (1 .. n + 1)
      BY <3>1
    <3>4. n + 1 \in Nat
      BY <1>2
    <3>5. now \in SUBSET (1 .. n + 1)
      BY <3>1, <3>2, <3>3
    <3> QED
      BY <3>4, <3>5
  <2>2. Cardinality(rows) \in Nat /\ Cardinality(now) \in Nat
    BY <1>1, <1>2, <2>1, RowAtFacts
  <2>3. CASE now = rows
    BY <2>1, <2>2, <2>3
  <2>4. CASE now = rows \cup {n + 1}
    BY <1>1, <1>2, <2>1, <2>2, <2>4, RowAtMore
  <2> QED
    BY <2>3, <2>4 DEF n
<1>5. s \in 0 .. Cardinality(now) \/ OutOfView(next, now, s, ch)
  <2>1. CASE s \in 0 .. Cardinality(rows)
    BY <1>4, <2>1
  <2>2. CASE OutOfView(tms, rows, s, ch)
    <3>1. s = 1 /\ ch = First /\ rows = {}
      BY <2>2 DEF OutOfView
    <3>2. next # << >>
      BY <1>2, <1>3
    <3>3. CASE now = {}
      BY <3>1, <3>2, <3>3 DEF OutOfView
    <3>4. CASE now = {n + 1}
      <4>1. Cardinality(now) = 1
        BY <3>4, FS_Singleton
      <4> QED
        BY <3>1, <4>1
    <3> QED
      BY <3>1, <3>3, <3>4 DEF n
  <2> QED
    BY <2>1, <2>2 DEF LogInv
<1>6. h.rows \in Nat /\ h.rows <= n + 1
  BY <1>1, <1>2, Constants DEF Heards, Rows
<1>7. {r \in now : r <= h.rows} = {r \in rows : r <= h.rows}
  <2>1. ~ (n + 1 <= h.rows)
    BY <1>1, <1>2, <1>6
  <2> QED
    BY <2>1 DEF n
<1>8. ASSUME s \in 0 .. Cardinality(rows)
      PROVE  IsNearest(next, now, s, h)
  <2>0. RowAt(now, s) = RowAt(rows, s)
    BY <1>4, <1>8
  <2> SUFFICES ASSUME h # Never
               PROVE  LET then == {r \in rows : r <= h.rows} IN
                      IF then = {} THEN s = 0
                      ELSE /\ s # 0
                           /\ \A r \in then : Distance(next[RowAt(rows, s)], h.time)
                                                <= Distance(next[r], h.time)
    BY <1>7, <2>0 DEF IsNearest
  <2> DEFINE then == {r \in rows : r <= h.rows}
  <2>1. IF then = {} THEN s = 0
        ELSE /\ s # 0
             /\ \A r \in then : Distance(tms[RowAt(rows, s)], h.time)
                                  <= Distance(tms[r], h.time)
    BY DEF LogInv, IsNearest
  <2>2. \A r \in then : next[r] = tms[r]
    BY <1>1, <1>3
  <2>3. ASSUME s # 0 PROVE next[RowAt(rows, s)] = tms[RowAt(rows, s)]
    <3>1. s \in 1 .. Cardinality(rows)
      BY <1>1, <1>4, <1>8, <2>3
    <3>2. RowAt(rows, s) \in 1 .. n
      BY <1>1, <1>2, <3>1, RowAtFacts
    <3> QED
      BY <1>3, <3>2
  <2> HIDE DEF then
  <2>4. IF then = {} THEN s = 0
        ELSE /\ s # 0
             /\ \A r \in then : Distance(next[RowAt(rows, s)], h.time)
                                  <= Distance(next[r], h.time)
    BY <2>1, <2>2, <2>3
  <2> QED
    BY <2>4 DEF then
<1>9. IsNearest(next, now, s, h)
  <2>1. CASE OutOfView(tms, rows, s, ch)
    <3>1. h = Never
      BY <2>1, SelectedRow
    <3> QED
      BY <3>1 DEF IsNearest
  <2> QED
    BY <1>8, <2>1 DEF LogInv
<1>10. /\ ch = First => s = 1 /\ h = Never
       /\ s # 0 /\ h = Never => c = s
  BY DEF LogInv
<1>11. RowAt(now, s) = ChosenRow(now, ch)
  <2>1. CASE ch = First
    BY <1>10, <2>1 DEF ChosenRow
  <2>2. CASE ch # First
    <3>1. s \in 0 .. Cardinality(rows) /\ RowAt(rows, s) = ch
      BY <2>2 DEF LogInv, OutOfView, ChosenRow
    <3> QED
      BY <1>4, <2>2, <3>1 DEF ChosenRow
  <2> QED
    BY <2>1, <2>2
<1>12. LogInv(next, now, s, c, ch, h)
  BY <1>1, <1>3, <1>4, <1>5, <1>6, <1>9, <1>10, <1>11 DEF LogInv
<1> QED
  BY <1>12 DEF next

-----------------------------------------------------------------------------
(* Arithmetic of the marker's loop *)

(* Products grow with their factors. *)
LEMMA ProductMono ==
  ASSUME NEW a \in Nat, NEW b \in Nat, NEW c \in Nat, a <= b
  PROVE  a * c <= b * c /\ c * a <= c * b
OBVIOUS

(* A remainder is what is left over of a multiple. *)
LEMMA ModUnique ==
  ASSUME NEW n \in Nat, n # 0, NEW q \in Int, NEW r \in 0 .. n - 1
  PROVE  (q * n + r) % n = r
OBVIOUS

(* A distance whose square fits is below the root of the width. *)
LEMMA BelowRoot ==
  ASSUME NEW root \in Nat, NEW d \in Nat, d * d < root * root
  PROVE  d + 1 <= root
<1> SUFFICES ASSUME root <= d PROVE FALSE
  OBVIOUS
<1>1. root * root <= d * root /\ d * root <= d * d
  BY ProductMono
<1> QED
  BY <1>1

(* The square of one such distance and another one fit together. *)
LEMMA SquareAndDistance ==
  ASSUME NEW root \in Nat, NEW d \in Nat, NEW e \in Nat, d + 1 <= root, e + 1 <= root
  PROVE  e * e + d < root * root
<1>1. (e + 1) * (e + 1) <= root * (e + 1) /\ root * (e + 1) <= root * root
  BY ProductMono
<1>2. root * e + root = root * (e + 1)
  OBVIOUS
<1>3. e * e <= root * e
  BY ProductMono
<1> QED
  BY <1>1, <1>2, <1>3

(* An unsigned difference, and its square, when the square of the distance fits *)
LEMMA Unsigned ==
  ASSUME NEW s \in Nat, NEW t \in Nat, Distance(s, t) * Distance(s, t) < Width
  PROVE  LET dist == (s - t) % Width
             d == Distance(s, t)
         IN  /\ d \in Nat /\ d < Width
             /\ dist = IF s >= t THEN d ELSE Width - d
             /\ (dist * dist) % Width = d * d
<1> DEFINE d == Distance(s, t)
           dist == (s - t) % Width
<1>1. d \in Nat /\ Width \in Nat /\ d * d < Width /\ Width # 0
  <2>1. d \in Nat /\ Width \in Nat
    BY DistanceType, Constants
  <2>2. d * d \in Nat
    BY <2>1
  <2> HIDE DEF d
  <2>3. d * d < Width
    BY DEF d
  <2> QED
    BY <2>1, <2>2, <2>3
<1>2. d <= d * d
  <2>1. d = 0 \/ 1 <= d
    BY <1>1
  <2>2. 1 <= d => 1 * d <= d * d
    BY <1>1, ProductMono
  <2> HIDE DEF d
  <2> QED
    BY <1>1, <2>1, <2>2
<1>3. d < Width /\ d * d \in 0 .. Width - 1
  <2> HIDE DEF d
  <2> QED
    BY <1>1, <1>2
<1>4. CASE s >= t
  <2>1. s - t = 0 * Width + d /\ d \in 0 .. Width - 1
    BY <1>1, <1>3, <1>4 DEF Distance
  <2>2. dist = d
    <3> HIDE DEF d
    <3>1. (0 * Width + d) % Width = d
      BY <1>1, <2>1, ModUnique
    <3> QED
      BY <2>1, <3>1
  <2> HIDE DEF d, dist
  <2>3. dist * dist = 0 * Width + d * d
    BY <1>1, <2>2
  <2>4. (dist * dist) % Width = d * d
    BY <1>1, <1>3, <2>3, ModUnique
  <2> QED
    BY <1>1, <1>3, <1>4, <2>2, <2>4 DEF d, dist
<1>5. CASE ~ (s >= t)
  <2>1. s - t = (-1) * Width + (Width - d) /\ d # 0
    BY <1>1, <1>3, <1>5 DEF Distance
  <2> HIDE DEF d
  <2>2. Width - d \in 0 .. Width - 1
    BY <1>1, <1>3, <2>1
  <2>3. dist = Width - d
    BY <1>1, <2>1, <2>2, ModUnique
  <2> HIDE DEF dist
  <2>4. (Width - d) * (Width - d) = (Width - d - d) * Width + d * d
    BY <1>1
  <2>5. Width - d - d \in Int
    BY <1>1
  <2>6. (dist * dist) % Width = d * d
    BY <1>1, <1>3, <2>3, <2>4, <2>5, ModUnique
  <2> QED
    BY <1>1, <1>3, <1>5, <2>3, <2>6 DEF d, dist
<1> QED
  BY <1>4, <1>5

-----------------------------------------------------------------------------
(* The loop over the samples *)

Start == [idx |-> 0, best |-> Width - 1]

IsSearch(f, k, s, t) ==
  f = [i \in 0 .. k |-> IF i = 0 THEN Start ELSE Look(f[i - 1], i, s[i], t)]

(* A function as Search defines it exists: every prefix of the samples has one. *)
LEMMA SearchExists ==
  ASSUME NEW n \in Nat, NEW s, NEW t
  PROVE  \E f : IsSearch(f, n, s, t)
<1> DEFINE S == {k \in 0 .. n : \E f : IsSearch(f, k, s, t)}
<1>1. 0 \in S
  <2>1. IsSearch([i \in 0 .. 0 |-> Start], 0, s, t)
    BY DEF IsSearch
  <2> QED
    BY <2>1
<1>2. ASSUME NEW k \in 0 .. n, k < n, k \in S
      PROVE  k + 1 \in S
  <2>1. PICK f : IsSearch(f, k, s, t)
    BY <1>2
  <2> DEFINE g == [i \in 0 .. k + 1 |-> IF i <= k THEN f[i] ELSE Look(f[k], k + 1, s[k + 1], t)]
  <2>2. ASSUME NEW i \in 0 .. k + 1
        PROVE  g[i] = IF i = 0 THEN Start ELSE Look(g[i - 1], i, s[i], t)
    <3>1. k \in Nat /\ i \in Nat
      OBVIOUS
    <3>2. CASE i = 0
      <4>1. g[i] = f[0] /\ 0 \in 0 .. k
        BY <3>1, <3>2
      <4> QED
        BY <2>1, <3>2, <4>1 DEF IsSearch
    <3>3. CASE i # 0 /\ i <= k
      <4>1. i \in 0 .. k /\ i - 1 \in 0 .. k + 1 /\ i - 1 <= k
        BY <3>1, <3>3
      <4>2. g[i] = f[i] /\ g[i - 1] = f[i - 1]
        BY <3>3, <4>1
      <4>3. f[i] = Look(f[i - 1], i, s[i], t)
        BY <2>1, <3>3, <4>1 DEF IsSearch
      <4> HIDE DEF g
      <4> QED
        BY <3>3, <4>2, <4>3
    <3>4. CASE ~ (i <= k)
      <4>1. i = k + 1 /\ i - 1 = k /\ i # 0 /\ k \in 0 .. k + 1 /\ k <= k
        BY <3>1, <3>4
      <4>2. g[i] = Look(f[k], k + 1, s[k + 1], t) /\ g[k] = f[k]
        BY <3>4, <4>1
      <4> HIDE DEF g
      <4> QED
        BY <4>1, <4>2
    <3> QED
      BY <3>1, <3>2, <3>3, <3>4
  <2>3. IsSearch(g, k + 1, s, t)
    <3>1. g = [i \in 0 .. k + 1 |-> g[i]]
      OBVIOUS
    <3> HIDE DEF g
    <3> QED
      BY <2>2, <3>1 DEF IsSearch
  <2>4. k + 1 \in 0 .. n
    BY <1>2
  <2> QED
    BY <2>3, <2>4
<1> HIDE DEF S
<1>3. \A k \in 0 .. n : k \in S
  BY <1>1, <1>2, UpTo
<1> QED
  BY <1>3 DEF S

(* The loop begins with nothing found and looks at one sample after the other. *)
LEMMA SearchTurns ==
  ASSUME NEW s \in Samples, NEW t
  PROVE  LET f == Search(s, t)
         IN  /\ f[0] = Start
             /\ \A k \in 0 .. Len(s) : k < Len(s) => f[k + 1] = Look(f[k], k + 1, s[k + 1], t)
<1> DEFINE f == Search(s, t)
<1>1. Len(s) \in Nat
  BY SamplesFacts
<1>2. f = CHOOSE g : IsSearch(g, Len(s), s, t)
  BY DEF Search, IsSearch, Start
<1>3. IsSearch(f, Len(s), s, t)
  BY <1>1, <1>2, SearchExists
<1> HIDE DEF f
<1>4. \A i \in 0 .. Len(s) : f[i] = IF i = 0 THEN Start ELSE Look(f[i - 1], i, s[i], t)
  BY <1>3 DEF IsSearch
<1>5. f[0] = Start
  BY <1>1, <1>4
<1>6. ASSUME NEW k \in 0 .. Len(s), k < Len(s)
      PROVE  f[k + 1] = Look(f[k], k + 1, s[k + 1], t)
  <2>1. k + 1 \in 0 .. Len(s) /\ k + 1 # 0 /\ (k + 1) - 1 = k
    BY <1>1, <1>6
  <2> QED
    BY <1>4, <2>1
<1> QED
  BY <1>5, <1>6 DEF f

(* Whether or not a sample is nearer, the loop has found a sample or none so far. *)
LEMMA SearchType ==
  ASSUME NEW s \in Samples, NEW t
  PROVE  Search(s, t)[Len(s)].idx \in 0 .. Len(s)
<1> DEFINE f == Search(s, t)
           n == Len(s)
           S == {k \in 0 .. n : f[k].idx \in 0 .. k}
<1>1. n \in Nat
  BY SamplesFacts
<1>2. /\ f[0] = Start
      /\ \A k \in 0 .. n : k < n => f[k + 1] = Look(f[k], k + 1, s[k + 1], t)
  BY SearchTurns
<1> HIDE DEF f, n
<1>3. 0 \in S
  BY <1>1, <1>2 DEF Start
<1>4. ASSUME NEW k \in 0 .. n, k < n, k \in S
      PROVE  k + 1 \in S
  <2>1. f[k + 1] = Look(f[k], k + 1, s[k + 1], t)
    BY <1>2, <1>4
  <2>2. f[k + 1] = f[k] \/ f[k + 1].idx = k + 1
    BY <2>1 DEF Look
  <2>3. f[k].idx \in 0 .. k
    BY <1>4
  <2>4. k \in Nat /\ k + 1 \in 0 .. n
    BY <1>1, <1>4
  <2>5. f[k + 1].idx \in 0 .. k + 1
    BY <2>2, <2>3, <2>4
  <2> QED
    BY <2>4, <2>5
<1> HIDE DEF S
<1>5. \A k \in 0 .. n : k \in S
  BY <1>1, <1>3, <1>4, UpTo
<1>6. n \in 0 .. n
  BY <1>1
<1>7. f[n].idx \in 0 .. n
  BY <1>5, <1>6 DEF S
<1> QED
  BY <1>7 DEF f, n

InOrder(s) == \A i, j \in 1 .. Len(s) : i <= j => s[i] <= s[j]

(* What the loop has found after the first k samples: as long as the time is not reached, *)
(* the last one, with a distance so wide that every next square is smaller; from then on  *)
(* the first that reaches it, with a distance that no later square is smaller than.       *)
Found(s, t, k, found) ==
  /\ k = 0 => found = Start
  /\ k # 0 /\ s[k] < t => found = [idx |-> k, best |-> Width - Distance(s[k], t)]
  /\ k # 0 /\ ~ (s[k] < t) =>
       /\ found.idx \in 1 .. k /\ ~ (s[found.idx] < t)
       /\ \A i \in 1 .. k : ~ (s[i] < t) => found.idx <= i
       /\ found.best = Distance(s[found.idx], t)

(* One turn of the loop takes what is found after k samples to what is found after k + 1. *)
LEMMA OneTurn ==
  ASSUME NEW s \in Samples, InOrder(s), NEW t \in Nat, NEW k \in Nat, k + 1 <= Len(s),
         \A i \in 1 .. Len(s) : Distance(s[i], t) * Distance(s[i], t) < Width,
         NEW found, Found(s, t, k, found)
  PROVE  Found(s, t, k + 1, Look(found, k + 1, s[k + 1], t))
<1> DEFINE far(i) == Distance(s[i], t)
           m == k + 1
           dist == (s[m] - t) % Width
           next == Look(found, m, s[m], t)
<1>1. /\ Len(s) \in Nat /\ m \in 1 .. Len(s)
      /\ \A i \in 1 .. Len(s) : s[i] \in Nat /\ far(i) \in Nat
  <2>1. Len(s) \in Nat /\ \A i \in 1 .. Len(s) : s[i] \in Nat
    BY SamplesFacts
  <2>2. \A i \in 1 .. Len(s) : far(i) \in Nat
    BY <2>1, DistanceType
  <2>3. m \in 1 .. Len(s)
    BY <2>1
  <2> HIDE DEF far, m
  <2> QED
    BY <2>1, <2>2, <2>3
<1>2. PICK root \in 2 .. Width : Width = root * root
  BY WidgetSyncAssumption
<1>3. root \in Nat /\ 2 <= root /\ Width \in Nat
  BY <1>2, Constants
<1>4. ASSUME NEW i \in 1 .. Len(s) PROVE far(i) + 1 <= root
  BY <1>1, <1>2, <1>3, BelowRoot
<1>5. ASSUME NEW i \in 1 .. Len(s), NEW j \in 1 .. Len(s)
      PROVE  far(j) * far(j) + far(i) < Width
  BY <1>1, <1>2, <1>3, <1>4, SquareAndDistance
<1>6. /\ dist = IF s[m] >= t THEN far(m) ELSE Width - far(m)
      /\ (dist * dist) % Width = far(m) * far(m)
  BY <1>1, Unsigned
<1>7. next = IF far(m) * far(m) < found.best THEN [idx |-> m, best |-> dist] ELSE found
  BY <1>6 DEF Look, Closer
<1>8. far(m) * far(m) \in Nat /\ far(m) \in Nat
  BY <1>1
<1>9. CASE k = 0 \/ s[k] < t
  <2>1. far(m) * far(m) < found.best
    <3>1. CASE k = 0
      <4>1. found.best = Width - 1
        BY <3>1 DEF Found, Start
      <4>2. 1 + 1 <= root /\ far(m) + 1 <= root
        BY <1>1, <1>3, <1>4
      <4>3. far(m) * far(m) + 1 < Width
        BY <1>2, <1>3, <1>8, <4>2, SquareAndDistance
      <4> QED
        BY <1>3, <1>8, <4>1, <4>3
    <3>2. CASE k # 0 /\ s[k] < t
      <4>1. k \in 1 .. Len(s)
        BY <1>1, <3>2
      <4>2. found.best = Width - far(k)
        BY <3>2 DEF Found
      <4>3. far(m) * far(m) + far(k) < Width /\ far(k) \in Nat
        BY <1>1, <1>5, <4>1
      <4> QED
        BY <1>3, <1>8, <4>2, <4>3
    <3> QED
      BY <1>9, <3>1, <3>2
  <2>2. next = [idx |-> m, best |-> dist]
    BY <1>7, <2>1
  <2>3. ASSUME NEW i \in 1 .. m, ~ (s[i] < t)
        PROVE  m <= i
    <3>1. CASE i = m
      BY <1>1, <3>1
    <3>2. CASE i # m
      <4>1. k \in 1 .. Len(s) /\ i \in 1 .. Len(s) /\ i <= k /\ k # 0
        BY <1>1, <3>2
      <4>2. s[i] <= s[k] /\ s[k] < t /\ s[i] \in Nat /\ s[k] \in Nat
        BY <1>1, <1>9, <4>1 DEF InOrder
      <4> QED
        BY <2>3, <4>2
    <3> QED
      BY <3>1, <3>2
  <2>4. CASE s[m] < t
    <3>1. dist = Width - far(m)
      BY <1>1, <1>6, <2>4
    <3> QED
      BY <1>1, <2>2, <2>4, <3>1 DEF Found
  <2>5. CASE ~ (s[m] < t)
    <3>1. dist = far(m)
      BY <1>1, <1>6, <2>5
    <3>2. next.idx = m /\ next.best = far(m) /\ m \in 1 .. m /\ m # 0
      BY <1>1, <2>2, <3>1
    <3> HIDE DEF next, m
    <3>3. Found(s, t, m, next)
      BY <2>3, <2>5, <3>2 DEF Found
    <3> QED
      BY <3>3 DEF next, m
  <2> QED
    BY <2>4, <2>5
<1>10. CASE k # 0 /\ ~ (s[k] < t)
  <2> DEFINE j == found.idx
  <2>1. /\ j \in 1 .. k /\ ~ (s[j] < t) /\ found.best = far(j)
        /\ \A i \in 1 .. k : ~ (s[i] < t) => j <= i
    BY <1>10 DEF Found
  <2>2. j \in 1 .. Len(s) /\ j <= m /\ j \in 1 .. m
    BY <1>1, <2>1
  <2>3. s[j] <= s[m] /\ s[j] \in Nat /\ s[m] \in Nat
    BY <1>1, <2>2 DEF InOrder
  <2>4. ~ (s[m] < t) /\ far(j) <= far(m) /\ far(j) \in Nat
    BY <2>1, <2>3 DEF Distance
  <2> HIDE DEF far, j
  <2>5. ~ (far(m) * far(m) < far(j))
    <3>1. far(m) = 0 \/ 1 <= far(m)
      BY <1>8
    <3>2. 1 <= far(m) => 1 * far(m) <= far(m) * far(m)
      BY <1>8, ProductMono
    <3> QED
      BY <1>8, <2>4, <3>1, <3>2
  <2>6. next = found
    BY <1>7, <2>1, <2>5 DEF j
  <2>7. ASSUME NEW i \in 1 .. m, ~ (s[i] < t)
        PROVE  j <= i
    <3>1. CASE i = m
      BY <2>2, <3>1
    <3>2. CASE i # m
      <4>1. i \in 1 .. k
        BY <3>2
      <4> QED
        BY <2>1, <2>7, <4>1
    <3> QED
      BY <3>1, <3>2
  <2> HIDE DEF next
  <2>8. m # 0
    BY <1>1
  <2> HIDE DEF m
  <2>9. Found(s, t, m, next)
    BY <2>1, <2>2, <2>4, <2>6, <2>7, <2>8 DEF Found, j, far
  <2> QED
    BY <2>9 DEF m, next
<1> QED
  BY <1>9, <1>10

(* The marker goes to the first sample that is not before the time, or to the last. *)
LEMMA MarkerFound ==
  ASSUME NEW s \in Samples, InOrder(s), NEW t \in Nat, Len(s) # 0,
         \A i \in 1 .. Len(s) : Distance(s[i], t) * Distance(s[i], t) < Width
  PROVE  LET found == Search(s, t)[Len(s)].idx
             after == {i \in 1 .. Len(s) : s[i] >= t}
         IN  /\ found \in 1 .. Len(s)
             /\ IF after = {} THEN found = Len(s)
                ELSE found \in after /\ \A i \in after : found <= i
<1> DEFINE f == Search(s, t)
           n == Len(s)
           S == {k \in 0 .. n : Found(s, t, k, f[k])}
           after == {i \in 1 .. n : s[i] >= t}
<1>1. n \in Nat /\ n # 0 /\ \A i \in 1 .. n : s[i] \in Nat
  BY SamplesFacts
<1>2. /\ f[0] = Start
      /\ \A k \in 0 .. n : k < n => f[k + 1] = Look(f[k], k + 1, s[k + 1], t)
  BY SearchTurns
<1> HIDE DEF f
<1>3. 0 \in S
  BY <1>1, <1>2 DEF Found
<1>4. ASSUME NEW k \in 0 .. n, k < n, k \in S
      PROVE  k + 1 \in S
  <2>1. k \in Nat /\ k + 1 \in 0 .. n /\ k + 1 <= n
    BY <1>1, <1>4
  <2>2. Found(s, t, k, f[k])
    BY <1>4
  <2>3. Found(s, t, k + 1, Look(f[k], k + 1, s[k + 1], t))
    BY <2>1, <2>2, OneTurn
  <2> QED
    BY <1>2, <1>4, <2>1, <2>3
<1>5. \A k \in 0 .. n : k \in S
  <2> HIDE DEF S, n
  <2> QED
    BY <1>1, <1>3, <1>4, UpTo
<1>6. Found(s, t, n, f[n])
  BY <1>1, <1>5
<1>7. \A i \in 1 .. n : s[i] >= t <=> ~ (s[i] < t)
  BY <1>1
<1>8. n \in 1 .. n
  BY <1>1
<1>9. CASE s[n] < t
  <2>1. f[n].idx = n
    BY <1>1, <1>6, <1>9 DEF Found
  <2>2. ASSUME NEW i \in 1 .. n PROVE s[i] < t
    <3>1. i <= n /\ s[i] <= s[n] /\ s[i] \in Nat /\ s[n] \in Nat
      BY <1>1, <1>8 DEF InOrder
    <3> QED
      BY <1>9, <3>1
  <2>3. after = {}
    BY <1>7, <2>2
  <2> QED
    BY <1>8, <2>1, <2>3 DEF f
<1>10. CASE ~ (s[n] < t)
  <2>1. /\ f[n].idx \in 1 .. n /\ ~ (s[f[n].idx] < t)
        /\ \A i \in 1 .. n : ~ (s[i] < t) => f[n].idx <= i
    BY <1>1, <1>6, <1>10 DEF Found
  <2>2. f[n].idx \in after /\ \A i \in after : f[n].idx <= i
    BY <1>7, <2>1
  <2> QED
    BY <2>1, <2>2 DEF f
<1> QED
  BY <1>9, <1>10

-----------------------------------------------------------------------------
(* What is true of a plot: its samples, its marker and what it heard *)

(* MarkerNext for one plot *)
IsMarked(s, m, h) ==
  h.rows # 0 =>
    LET n == h.rows
        after == {i \in 1 .. n : s[i] >= h.time}
    IN  (\A i \in 1 .. n : Distance(s[i], h.time) * Distance(s[i], h.time) < Width) =>
          /\ m \in 1 .. n
          /\ IF after = {} THEN m = n ELSE m \in after /\ \A i \in after : m <= i

PlotInv(s, m, h) ==
  /\ s \in Samples /\ m \in Rows /\ h \in Heards /\ h.rows <= Len(s)
  /\ IsMarked(s, m, h)

(* A plot that asks for a time, or is cleared, waits for no marker. *)
LEMMA AfterForget ==
  ASSUME NEW s \in Samples, NEW m \in Rows
  PROVE  PlotInv(s, m, Never)
<1>1. Never.rows = 0 /\ Len(s) \in Nat
  BY SamplesFacts DEF Never
<1> QED
  BY <1>1, Constants DEF PlotInv, IsMarked

(* A request moves the marker to the sample the loop finds. *)
LEMMA AfterMarker ==
  ASSUME NEW s, NEW m, NEW h, PlotInv(s, m, h), InOrder(s), NEW t \in 0 .. MaxTime
  PROVE  LET found == Search(s, t)[Len(s)].idx
         IN  PlotInv(s, IF found = 0 THEN m ELSE found, [time |-> t, rows |-> Len(s)])
<1> DEFINE found == Search(s, t)[Len(s)].idx
           now == [time |-> t, rows |-> Len(s)]
           to == IF found = 0 THEN m ELSE found
<1>1. s \in Samples /\ m \in Rows
  BY DEF PlotInv
<1>2. /\ Len(s) \in Nat /\ Len(s) <= MaxRows /\ MaxRows \in Nat /\ MaxTime \in Nat
      /\ t \in Nat
  BY <1>1, SamplesFacts, Constants
<1>3. found \in 0 .. Len(s)
  BY <1>1, SearchType
<1>4. now \in Heards /\ now.rows = Len(s) /\ now.time = t /\ now.rows <= Len(s)
  BY <1>2 DEF Heards, Rows
<1>5. IsMarked(s, to, now)
  <2> SUFFICES ASSUME Len(s) # 0,
                      \A i \in 1 .. Len(s) : Distance(s[i], t) * Distance(s[i], t) < Width
               PROVE  LET after == {i \in 1 .. Len(s) : s[i] >= t}
                      IN  /\ to \in 1 .. Len(s)
                          /\ IF after = {} THEN to = Len(s)
                             ELSE to \in after /\ \A i \in after : to <= i
    BY <1>4 DEF IsMarked
  <2>1. LET after == {i \in 1 .. Len(s) : s[i] >= t}
        IN  /\ found \in 1 .. Len(s)
            /\ IF after = {} THEN found = Len(s)
               ELSE found \in after /\ \A i \in after : found <= i
    BY <1>1, <1>2, MarkerFound
  <2> HIDE DEF found
  <2>2. to = found
    BY <1>2, <2>1
  <2> QED
    BY <2>1, <2>2
<1> HIDE DEF found, now
<1>6. to \in Rows
  BY <1>1, <1>2, <1>3 DEF Rows
<1> HIDE DEF to
<1>7. PlotInv(s, to, now)
  BY <1>1, <1>4, <1>5, <1>6 DEF PlotInv
<1> QED
  BY <1>7 DEF found, now, to

(* A sample arrives: the marker stays. *)
LEMMA AfterSample ==
  ASSUME NEW s, NEW m, NEW h, PlotInv(s, m, h), Len(s) < MaxRows, NEW t \in 1 .. MaxTime
  PROVE  PlotInv(Append(s, t), m, h)
<1> DEFINE next == Append(s, t)
<1>1. s \in Samples /\ m \in Rows /\ h \in Heards /\ h.rows <= Len(s)
  BY DEF PlotInv
<1>2. next \in Samples /\ Len(next) = Len(s) + 1 /\ \A i \in 1 .. Len(s) : next[i] = s[i]
  BY <1>1, Appended
<1>3. Len(s) \in Nat /\ h.rows \in Nat /\ h.rows <= Len(next)
  BY <1>1, <1>2, SamplesFacts, Constants DEF Heards, Rows
<1> HIDE DEF next
<1>4. \A i \in 1 .. h.rows : next[i] = s[i]
  BY <1>1, <1>2, <1>3
<1>5. IsMarked(next, m, h)
  <2> SUFFICES ASSUME h.rows # 0,
                      \A i \in 1 .. h.rows :
                        Distance(next[i], h.time) * Distance(next[i], h.time) < Width
               PROVE  LET n == h.rows
                          after == {i \in 1 .. n : next[i] >= h.time}
                      IN  /\ m \in 1 .. n
                          /\ IF after = {} THEN m = n
                             ELSE m \in after /\ \A i \in after : m <= i
    BY DEF IsMarked
  <2>1. {i \in 1 .. h.rows : next[i] >= h.time} = {i \in 1 .. h.rows : s[i] >= h.time}
    BY <1>4
  <2>2. \A i \in 1 .. h.rows : Distance(s[i], h.time) * Distance(s[i], h.time) < Width
    BY <1>4
  <2>3. h.rows \in 1 .. h.rows
    BY <1>3
  <2>4. LET n == h.rows
            after == {i \in 1 .. n : s[i] >= h.time}
        IN  /\ m \in 1 .. n
            /\ IF after = {} THEN m = n ELSE m \in after /\ \A i \in after : m <= i
    BY <2>2 DEF PlotInv, IsMarked
  <2> QED
    BY <1>4, <2>1, <2>3, <2>4
<1>6. PlotInv(next, m, h)
  BY <1>1, <1>2, <1>3, <1>5 DEF PlotInv
<1> QED
  BY <1>6 DEF next

(* Samples that arrive in the order of time stay in order. *)
LEMMA OrderKept ==
  ASSUME NEW s \in Samples, InOrder(s), Len(s) < MaxRows,
         NEW clk \in Nat, \A i \in 1 .. Len(s) : s[i] <= clk, NEW t \in 1 .. MaxTime, clk <= t
  PROVE  InOrder(Append(s, t)) /\ \A i \in 1 .. Len(Append(s, t)) : Append(s, t)[i] <= t
<1> DEFINE next == Append(s, t)
<1>1. Len(s) \in Nat /\ t \in Nat /\ \A i \in 1 .. Len(s) : s[i] \in Nat
  BY SamplesFacts, Constants
<1>2. /\ Len(next) = Len(s) + 1 /\ next[Len(s) + 1] = t
      /\ \A i \in 1 .. Len(s) : next[i] = s[i]
  BY Appended
<1> HIDE DEF next
<1>3. ASSUME NEW i \in 1 .. Len(next)
      PROVE  next[i] <= t
  <2>1. CASE i = Len(s) + 1
    BY <1>1, <1>2, <2>1
  <2>2. CASE i # Len(s) + 1
    <3>1. i \in 1 .. Len(s)
      BY <1>1, <1>2, <2>2
    <3>2. next[i] = s[i] /\ s[i] <= clk /\ s[i] \in Nat
      BY <1>1, <1>2, <3>1
    <3> QED
      BY <1>1, <3>2
  <2> QED
    BY <2>1, <2>2
<1>4. ASSUME NEW i \in 1 .. Len(next), NEW j \in 1 .. Len(next), i <= j
      PROVE  next[i] <= next[j]
  <2>1. CASE j = Len(s) + 1
    BY <1>2, <1>3, <2>1
  <2>2. CASE j # Len(s) + 1
    <3>1. i \in 1 .. Len(s) /\ j \in 1 .. Len(s)
      BY <1>1, <1>2, <1>4, <2>2
    <3> QED
      BY <1>2, <1>4, <3>1 DEF InOrder
  <2> QED
    BY <2>1, <2>2
<1>5. InOrder(next)
  BY <1>4 DEF InOrder
<1> QED
  BY <1>3, <1>5 DEF next

-----------------------------------------------------------------------------
(* The inductive invariant *)

LogOK(l) == LogInv(times[l], shown[l], sel[l], cur[l], chosen[l], heard[l])
PlotOK(p) == PlotInv(times[p], marker[p], heard[p])
InTime(w) == InOrder(times[w]) /\ \A i \in 1 .. Len(times[w]) : times[w][i] <= clock

(* What is a function of logs, of plots or of widgets *)
Shapes ==
  /\ times = [w \in Widgets |-> times[w]] /\ heard = [w \in Widgets |-> heard[w]]
  /\ shown = [l \in Logs |-> shown[l]] /\ sel = [l \in Logs |-> sel[l]]
  /\ cur = [l \in Logs |-> cur[l]] /\ chosen = [l \in Logs |-> chosen[l]]
  /\ marker = [p \in Plots |-> marker[p]]

Others ==
  /\ group \in [Logs -> Groups] /\ refOn \in [Logs -> BOOLEAN]
  /\ ref \in [Logs -> 0 .. MaxTime]
  /\ clock \in 1 .. MaxTime /\ clicks \in 0 .. MaxClicks

WidgetInv ==
  /\ Shapes /\ Others
  /\ \A l \in Logs : LogOK(l)
  /\ \A p \in Plots : PlotOK(p)
  /\ \A w \in Widgets : InTime(w)

(* A widget is a log or a plot, a log has a filter or none. *)
LEMMA WidgetKinds ==
  /\ Logs \cap Plots = {} /\ Logs \subseteq Widgets /\ Plots \subseteq Widgets
  /\ \A w \in Widgets : w \in Logs \/ w \in Plots
  /\ Filtered \cap Plain = {} /\ \A l \in Logs : l \in Filtered \/ l \in Plain
BY WidgetSyncAssumption DEF Logs, Widgets

(* What a widget holds is a sequence of times. *)
LEMMA WidgetSamples ==
  ASSUME WidgetInv, NEW w \in Widgets
  PROVE  times[w] \in Samples
BY WidgetKinds DEF WidgetInv, LogOK, LogInv, PlotOK, PlotInv

(* The time in a row, also in none *)
LEMMA TimeAtType ==
  ASSUME WidgetInv, NEW w \in Widgets, NEW i
  PROVE  TimeAt(w, i) \in 0 .. MaxTime
<1>1. times[w] \in Samples
  BY WidgetSamples
<1>2. \A k \in DOMAIN times[w] : times[w][k] \in 1 .. MaxTime
  BY <1>1, SamplesFacts
<1> QED
  BY <1>2, Constants DEF TimeAt

(* The invariant includes the types. *)
LEMMA TypesHold ==
  ASSUME WidgetInv
  PROVE  TypeOK
<1>1. /\ \A l \in Logs : LogInv(times[l], shown[l], sel[l], cur[l], chosen[l], heard[l])
      /\ \A p \in Plots : PlotInv(times[p], marker[p], heard[p])
      /\ Shapes /\ Others
  BY DEF WidgetInv, LogOK, PlotOK
<1>2. ASSUME NEW l \in Logs
      PROVE  /\ times[l] \in Samples /\ heard[l] \in Heards
             /\ shown[l] \in SUBSET (1 .. MaxRows) /\ shown[l] \subseteq DOMAIN times[l]
             /\ \/ sel[l] <= Cardinality(shown[l])
                \/ sel[l] = 1 /\ chosen[l] = First /\ shown[l] = {} /\ times[l] # << >>
             /\ sel[l] \in Rows /\ cur[l] \in Rows /\ chosen[l] \in Rows \cup {First}
  <2>1. LogInv(times[l], shown[l], sel[l], cur[l], chosen[l], heard[l])
    BY <1>1
  <2>2. /\ times[l] \in Samples /\ heard[l] \in Heards /\ cur[l] \in Rows
        /\ shown[l] \in SUBSET (1 .. Len(times[l]))
        /\ \/ sel[l] \in 0 .. Cardinality(shown[l])
           \/ OutOfView(times[l], shown[l], sel[l], chosen[l])
        /\ RowAt(shown[l], sel[l]) = ChosenRow(shown[l], chosen[l])
    BY <2>1 DEF LogInv
  <2>3. /\ Len(times[l]) \in Nat /\ Len(times[l]) <= MaxRows /\ MaxRows \in Nat
        /\ DOMAIN times[l] = 1 .. Len(times[l])
        /\ Cardinality(shown[l]) \in Nat
    BY <2>2, LogRows, SamplesFacts, Constants
  <2>4. shown[l] \in SUBSET (1 .. MaxRows)
    BY <2>2, <2>3
  <2>5. chosen[l] \in Rows \cup {First}
    <3>1. RowAt(shown[l], sel[l]) \in Rows
      BY <2>1, SelectedRow
    <3> QED
      BY <2>2, <3>1 DEF ChosenRow
  <2>6. CASE sel[l] \in 0 .. Cardinality(shown[l])
    <3>1. sel[l] <= Cardinality(shown[l]) /\ sel[l] \in Rows
      BY <2>2, <2>3, <2>6, LogRows
    <3> QED
      BY <2>2, <2>3, <2>4, <2>5, <3>1
  <2>7. CASE OutOfView(times[l], shown[l], sel[l], chosen[l])
    <3>1. sel[l] = 1 /\ chosen[l] = First /\ shown[l] = {} /\ times[l] # << >>
      BY <2>7 DEF OutOfView
    <3>2. Len(times[l]) # 0
      BY <2>2, <3>1, SamplesFacts, EmptySeq
    <3>3. sel[l] \in Rows
      BY <2>3, <3>1, <3>2 DEF Rows
    <3> QED
      BY <2>2, <2>3, <2>4, <2>5, <3>1, <3>3
  <2> QED
    BY <2>2, <2>6, <2>7
<1>3. ASSUME NEW p \in Plots
      PROVE  times[p] \in Samples /\ heard[p] \in Heards /\ marker[p] \in Rows
  BY <1>1 DEF PlotInv
<1>4. times \in [Widgets -> Samples] /\ heard \in [Widgets -> Heards]
  <2>1. \A w \in Widgets : times[w] \in Samples /\ heard[w] \in Heards
    BY <1>2, <1>3, WidgetKinds
  <2>2. times = [w \in Widgets |-> times[w]] /\ heard = [w \in Widgets |-> heard[w]]
    BY <1>1 DEF Shapes
  <2> QED
    BY <2>1, <2>2
<1>5. /\ shown \in [Logs -> SUBSET (1 .. MaxRows)] /\ sel \in [Logs -> Rows]
      /\ cur \in [Logs -> Rows] /\ chosen \in [Logs -> Rows \cup {First}]
  <2>1. /\ shown = [l \in Logs |-> shown[l]] /\ sel = [l \in Logs |-> sel[l]]
        /\ cur = [l \in Logs |-> cur[l]] /\ chosen = [l \in Logs |-> chosen[l]]
    BY <1>1 DEF Shapes
  <2> QED
    BY <1>2, <2>1
<1>6. marker \in [Plots -> Rows]
  BY <1>1, <1>3 DEF Shapes
<1> QED
  BY <1>1, <1>2, <1>4, <1>5, <1>6 DEF TypeOK, Others, Samples, Heards

(* The invariant includes the properties. *)
LEMMA PropertiesHold ==
  ASSUME WidgetInv
  PROVE  SelectionKept /\ CurrentFollows /\ SelectionNearest /\ MarkerNext
<1>1. ASSUME NEW l \in Logs
      PROVE  /\ RowAt(shown[l], sel[l]) = ChosenRow(shown[l], chosen[l])
             /\ sel[l] # 0 /\ heard[l] = Never => cur[l] = sel[l]
             /\ IsNearest(times[l], shown[l], sel[l], heard[l])
  BY DEF WidgetInv, LogOK, LogInv
<1>2. SelectionKept
  BY <1>1, SourceRowAt, ChosenAt DEF SelectionKept
<1>3. CurrentFollows
  BY <1>1 DEF CurrentFollows
<1>4. SelectionNearest
  BY <1>1, SourceRowAt DEF SelectionNearest, IsNearest
<1>5. MarkerNext
  <2>1. \A p \in Plots : IsMarked(times[p], marker[p], heard[p])
    BY DEF WidgetInv, PlotOK, PlotInv
  <2> QED
    BY <2>1 DEF MarkerNext, IsMarked
<1> QED
  BY <1>2, <1>3, <1>4, <1>5

(* A widget without rows *)
LEMMA NoRows ==
  /\ << >> \in Samples /\ Len(<< >>) = 0 /\ InOrder(<< >>)
  /\ LogInv(<< >>, {}, 0, 0, 0, Never)
<1>1. << >> \in Seq(1 .. MaxTime) /\ Len(<< >>) = 0
  OBVIOUS
<1>2. Len(<< >>) <= MaxRows
  BY <1>1, Constants
<1>3. << >> \in Samples
  BY <1>1, <1>2, SamplesIntro
<1>4. Cardinality({}) = 0 /\ RowAt({}, 0) = 0 /\ {} \in SUBSET (1 .. Len(<< >>))
  <2>1. Cardinality({}) = 0 /\ {} \in SUBSET (1 .. 0)
    BY FS_EmptySet
  <2>2. RowAt({}, 0) = 0
    BY <2>1, RowAtFacts
  <2> QED
    BY <2>1, <2>2
<1>5. 0 \in 0 .. Cardinality({})
  BY <1>4
<1>6. LogInv(<< >>, {}, 0, 0, 0, Never)
  BY <1>3, <1>4, <1>5, AfterClick
<1>7. InOrder(<< >>)
  BY <1>1 DEF InOrder
<1> QED
  BY <1>1, <1>3, <1>6, <1>7

(* In the beginning nothing is shown, selected or heard. *)
LEMMA InitInv ==
  ASSUME Init
  PROVE  WidgetInv
<1> USE DEF Init
<1>1. Shapes
  BY DEF Shapes
<1>2. Others
  BY WidgetSyncAssumption, Constants DEF Others
<1>3. ASSUME NEW l \in Logs PROVE LogOK(l)
  <2>1. /\ times[l] = << >> /\ shown[l] = {} /\ sel[l] = 0 /\ cur[l] = 0 /\ chosen[l] = 0
        /\ heard[l] = Never
    BY WidgetKinds
  <2> QED
    BY <2>1, NoRows DEF LogOK
<1>4. ASSUME NEW p \in Plots PROVE PlotOK(p)
  <2>1. times[p] = << >> /\ marker[p] = 0 /\ heard[p] = Never
    BY WidgetKinds
  <2> QED
    BY <2>1, NoRows, AfterForget, Constants DEF PlotOK
<1>5. ASSUME NEW w \in Widgets PROVE InTime(w)
  <2>1. times[w] = << >>
    OBVIOUS
  <2> QED
    BY <2>1, NoRows DEF InTime
<1> QED
  BY <1>1, <1>2, <1>3, <1>4, <1>5 DEF WidgetInv

-----------------------------------------------------------------------------
(* What a request does to the widgets that hear it *)

(* A log of which nothing changed is as right as before. *)
LEMMA StillLog ==
  ASSUME NEW l \in Logs, LogOK(l), times'[l] = times[l], shown'[l] = shown[l],
         sel'[l] = sel[l], cur'[l] = cur[l], chosen'[l] = chosen[l], heard'[l] = heard[l]
  PROVE  LogOK(l)'
BY DEF LogOK

(* So is a plot. *)
LEMMA StillPlot ==
  ASSUME NEW p \in Plots, PlotOK(p), times'[p] = times[p], marker'[p] = marker[p],
         heard'[p] = heard[p]
  PROVE  PlotOK(p)'
BY DEF PlotOK

(* So is the order of samples, while the clock stands. *)
LEMMA StillInTime ==
  ASSUME NEW w \in Widgets, InTime(w), times'[w] = times[w], clock' = clock
  PROVE  InTime(w)'
BY DEF InTime

(* MoveMarkers leaves a plot it moves with the right marker. *)
LEMMA MarkerMoves ==
  ASSUME NEW p \in Plots, PlotOK(p), InTime(p), NEW t \in 0 .. MaxTime, times' = times,
         NEW ps, p \in ps, MoveMarkers(ps, t), heard'[p] = Hear(p, t)
  PROVE  PlotOK(p)'
<1> DEFINE found == Search(times[p], t)[Len(times[p])].idx
<1>1. PlotInv(times[p], IF found = 0 THEN marker[p] ELSE found,
              [time |-> t, rows |-> Len(times[p])])
  BY AfterMarker DEF PlotOK, InTime
<1>2. marker'[p] = IF found = 0 THEN marker[p] ELSE found
  BY DEF MoveMarkers, ClosestSample
<1>3. heard'[p] = [time |-> t, rows |-> Len(times[p])]
  BY DEF Hear
<1> HIDE DEF found
<1> QED
  BY <1>1, <1>2, <1>3 DEF PlotOK

(* Everyone but the widget w that asks goes to the time; w has selected its row v. *)
LEMMA Requested ==
  ASSUME WidgetInv, NEW w \in Widgets, NEW v, NEW t \in 0 .. MaxTime, SyncServerTime(w, v, t),
         times' = times, shown' = shown,
         \A l \in Logs \ {w} : cur'[l] = cur[l],
         \A x \in Widgets \ {w} : heard'[x] = Hear(x, t)
  PROVE  /\ \A l \in Logs \ {w} : LogOK(l)'
         /\ \A p \in Plots \ {w} : PlotOK(p)'
         /\ \A p \in Plots : p = w => marker'[p] = 0
         /\ sel' = [l \in Logs |-> sel'[l]] /\ chosen' = [l \in Logs |-> chosen'[l]]
         /\ marker' = [p \in Plots |-> marker'[p]]
         /\ \A l \in Logs : l = w => sel'[l] = v /\ chosen'[l] = RowAt(shown[l], v)
<1>1. ASSUME NEW l \in Logs \ {w} PROVE LogOK(l)'
  <2> DEFINE r == NearestIn(times[l], shown[l], t)
  <2>1. LogInv(times[l], shown[l], sel[l], cur[l], chosen[l], heard[l])
    BY DEF WidgetInv, LogOK
  <2>2. LogInv(times[l], shown[l], ViewRow(shown[l], r), cur[l],
               IF shown[l] = {} THEN 0 ELSE r, [time |-> t, rows |-> Len(times[l])])
    BY <2>1, AfterRequest
  <2>3. /\ sel'[l] = ViewRow(shown[l], r)
        /\ chosen'[l] = IF shown[l] = {} THEN 0 ELSE r
    BY NearestRowIn DEF SyncServerTime
  <2>4. heard'[l] = [time |-> t, rows |-> Len(times[l])] /\ cur'[l] = cur[l]
    BY WidgetKinds DEF Hear
  <2> HIDE DEF r
  <2> QED
    BY <2>2, <2>3, <2>4 DEF LogOK
<1>2. ASSUME NEW p \in Plots \ {w} PROVE PlotOK(p)'
  <2>1. PlotOK(p) /\ InTime(p) /\ p \in Widgets
    BY WidgetKinds DEF WidgetInv
  <2>2. MoveMarkers(Plots \ {w}, t) /\ heard'[p] = Hear(p, t)
    BY <2>1 DEF SyncServerTime
  <2> QED
    BY <2>1, <2>2, MarkerMoves
<1>3. /\ sel' = [l \in Logs |-> sel'[l]] /\ chosen' = [l \in Logs |-> chosen'[l]]
      /\ \A l \in Logs : l = w => sel'[l] = v /\ chosen'[l] = RowAt(shown[l], v)
  BY SourceRowAt DEF SyncServerTime
<1>4. marker' = [p \in Plots |-> marker'[p]] /\ \A p \in Plots : p = w => marker'[p] = 0
  BY DEF SyncServerTime, MoveMarkers
<1> QED
  BY <1>1, <1>2, <1>3, <1>4

(* The filter of a reference time: every log selects what it had selected in view. *)
LEMMA ReferenceMoves ==
  ASSUME WidgetInv, NEW t \in 0 .. MaxTime, SyncRefSTime(t),
         UNCHANGED << view, group, clock >>,
         clicks' \in 0 .. MaxClicks, refOn' \in [Logs -> BOOLEAN]
  PROVE  WidgetInv'
<1>1. times' = times /\ shown' = shown /\ clock' = clock
  BY DEF view
<1>2. ASSUME NEW l \in Logs PROVE LogOK(l)'
  <2> DEFINE k == ViewRow(shown[l], RowAt(shown[l], sel[l]))
  <2>1. LogInv(times[l], shown[l], sel[l], cur[l], chosen[l], heard[l])
    BY DEF WidgetInv, LogOK
  <2>2. LogInv(times[l], shown[l], k, IF k # 0 THEN k ELSE cur[l],
               ChosenRow(shown[l], chosen[l]), heard[l])
    BY <2>1, AfterReselect
  <2>3. k = Kept(l, shown[l]) /\ Chosen(l) = ChosenRow(shown[l], chosen[l])
    BY SourceRowAt, ChosenAt DEF Kept
  <2> HIDE DEF k
  <2>4. /\ sel'[l] = k /\ cur'[l] = IF k # 0 THEN k ELSE cur[l]
        /\ chosen'[l] = ChosenRow(shown[l], chosen[l])
    BY <2>3 DEF SyncRefSTime, Reselected
  <2>5. heard'[l] = heard[l]
    BY WidgetKinds DEF SyncRefSTime
  <2> QED
    BY <1>1, <2>2, <2>4, <2>5 DEF LogOK
<1>3. ASSUME NEW p \in Plots PROVE PlotOK(p)'
  <2>1. PlotOK(p) /\ InTime(p)
    BY WidgetKinds DEF WidgetInv
  <2>2. MoveMarkers(Plots, t) /\ heard'[p] = Hear(p, t)
    BY WidgetKinds DEF SyncRefSTime
  <2> QED
    BY <1>1, <2>1, <2>2, MarkerMoves
<1>4. ASSUME NEW w \in Widgets PROVE InTime(w)'
  BY <1>1, StillInTime DEF WidgetInv
<1>5. Shapes'
  BY <1>1 DEF WidgetInv, Shapes, SyncRefSTime, MoveMarkers
<1>6. Others'
  BY <1>1 DEF WidgetInv, Others, SyncRefSTime
<1> QED
  BY <1>2, <1>3, <1>4, <1>5, <1>6 DEF WidgetInv

-----------------------------------------------------------------------------
(* Every action preserves the invariant *)

(* Clicks are counted up to the bound. *)
LEMMA CountClick ==
  ASSUME WidgetInv, Clicks
  PROVE  clicks' \in 0 .. MaxClicks
BY Constants DEF WidgetInv, Others, Clicks

(* Only log l changed: what is left to show is that l is right. *)
LEMMA OnlyLog ==
  ASSUME WidgetInv, NEW l \in Logs, LogOK(l)', InTime(l)', Shapes', Others',
         \A k \in Logs \ {l} :
           /\ shown'[k] = shown[k] /\ sel'[k] = sel[k] /\ cur'[k] = cur[k]
           /\ chosen'[k] = chosen[k],
         \A w \in Widgets \ {l} : times'[w] = times[w] /\ heard'[w] = heard[w],
         marker' = marker, clock' = clock
  PROVE  WidgetInv'
<1>1. ASSUME NEW k \in Logs PROVE LogOK(k)'
  <2>1. CASE k = l
    BY <2>1
  <2>2. CASE k # l
    BY <2>2, StillLog, WidgetKinds DEF WidgetInv
  <2> QED
    BY <2>1, <2>2
<1>2. ASSUME NEW p \in Plots PROVE PlotOK(p)'
  <2>1. p \in Widgets \ {l}
    BY WidgetKinds
  <2> QED
    BY <2>1, StillPlot DEF WidgetInv
<1>3. ASSUME NEW w \in Widgets PROVE InTime(w)'
  <2>1. CASE w = l
    BY <2>1
  <2>2. CASE w # l
    BY <2>2, StillInTime DEF WidgetInv
  <2> QED
    BY <2>1, <2>2
<1> QED
  BY <1>1, <1>2, <1>3 DEF WidgetInv

(* OnTableClicked preserves the invariant. *)
LEMMA Click_Inv ==
  ASSUME WidgetInv, NEW l \in Logs, NEW v \in 1 .. Cardinality(shown[l]), OnTableClicked(l, v)
  PROVE  WidgetInv'
<1> USE DEF OnTableClicked
<1>1. LogInv(times[l], shown[l], sel[l], cur[l], chosen[l], heard[l])
  BY DEF WidgetInv, LogOK
<1>2. Shapes
  BY DEF WidgetInv
<1>3. /\ sel'[l] = v /\ cur'[l] = v /\ chosen'[l] = RowAt(shown[l], v) /\ heard'[l] = Never
      /\ times' = times /\ shown' = shown /\ clock' = clock /\ marker' = marker
  BY <1>2, WidgetKinds, SourceRowAt DEF Shapes, view
<1>4. LogOK(l)'
  <2>1. times[l] \in Samples /\ shown[l] \in SUBSET (1 .. Len(times[l]))
    BY <1>1 DEF LogInv
  <2>2. v \in 0 .. Cardinality(shown[l])
    OBVIOUS
  <2> QED
    BY <1>3, <2>1, <2>2, AfterClick DEF LogOK
<1>5. InTime(l)'
  BY <1>3, WidgetKinds DEF WidgetInv, InTime
<1>6. Shapes'
  BY <1>2, <1>3 DEF Shapes
<1>7. Others'
  BY <1>3, CountClick DEF WidgetInv, Others
<1>8. /\ \A k \in Logs \ {l} :
           /\ shown'[k] = shown[k] /\ sel'[k] = sel[k] /\ cur'[k] = cur[k]
           /\ chosen'[k] = chosen[k]
      /\ \A w \in Widgets \ {l} : times'[w] = times[w] /\ heard'[w] = heard[w]
  BY <1>2, <1>3 DEF Shapes
<1> QED
  BY <1>3, <1>4, <1>5, <1>6, <1>7, <1>8, OnlyLog

(* OnTableDoubleClicked preserves the invariant. *)
LEMMA DoubleClick_Inv ==
  ASSUME WidgetInv, NEW l \in Logs, NEW v \in 1 .. Cardinality(shown[l]),
         OnTableDoubleClicked(l, v)
  PROVE  WidgetInv'
<1> USE DEF OnTableDoubleClicked
<1> DEFINE t == TimeAt(l, SourceRow(l, v))
<1>1. LogInv(times[l], shown[l], sel[l], cur[l], chosen[l], heard[l]) /\ l \in Widgets
  BY WidgetKinds DEF WidgetInv, LogOK
<1>2. Shapes
  BY DEF WidgetInv
<1>3. /\ times' = times /\ shown' = shown /\ clock' = clock
      /\ SyncServerTime(l, v, t)
      /\ heard' = [w \in Widgets |-> IF w = l THEN Never ELSE Hear(w, t)]
      /\ cur' = [cur EXCEPT ![l] = v]
  BY DEF view
<1>4. t \in 0 .. MaxTime
  BY <1>1, TimeAtType
<1> HIDE DEF t
<1>5. /\ \A k \in Logs \ {l} : LogOK(k)'
      /\ \A p \in Plots \ {l} : PlotOK(p)'
      /\ sel' = [k \in Logs |-> sel'[k]] /\ chosen' = [k \in Logs |-> chosen'[k]]
      /\ marker' = [p \in Plots |-> marker'[p]]
      /\ sel'[l] = v /\ chosen'[l] = RowAt(shown[l], v)
  <2>1. \A k \in Logs \ {l} : cur'[k] = cur[k]
    BY <1>2, <1>3 DEF Shapes
  <2>2. \A x \in Widgets \ {l} : heard'[x] = Hear(x, t)
    BY <1>3
  <2> HIDE DEF OnTableDoubleClicked
  <2> QED
    BY <1>1, <1>3, <1>4, <2>1, <2>2, Requested
<1>6. LogOK(l)'
  <2>1. times[l] \in Samples /\ shown[l] \in SUBSET (1 .. Len(times[l]))
    BY <1>1 DEF LogInv
  <2>2. v \in 0 .. Cardinality(shown[l])
    OBVIOUS
  <2>3. cur'[l] = v /\ heard'[l] = Never
    BY <1>1, <1>2, <1>3 DEF Shapes
  <2> QED
    BY <1>3, <1>5, <2>1, <2>2, <2>3, AfterClick DEF LogOK
<1>7. ASSUME NEW w \in Widgets PROVE InTime(w)'
  BY <1>3, StillInTime DEF WidgetInv
<1>8. Shapes'
  BY <1>2, <1>3, <1>5 DEF Shapes
<1>9. Others'
  BY <1>3, CountClick DEF WidgetInv, Others
<1> QED
  BY <1>5, <1>6, <1>7, <1>8, <1>9, WidgetKinds DEF WidgetInv

(* OnSyncGroupRowButton preserves the invariant. *)
LEMMA Button_Inv ==
  ASSUME WidgetInv, NEW l \in Logs, OnSyncGroupRowButton(l)
  PROVE  WidgetInv'
<1> USE DEF OnSyncGroupRowButton
<1> DEFINE r == IF l \in Filtered THEN SourceRow(l, CurrentSource(l)) ELSE CurrentSource(l)
           t == TimeAt(l, r)
<1>1. LogInv(times[l], shown[l], sel[l], cur[l], chosen[l], heard[l]) /\ l \in Widgets
  BY WidgetKinds DEF WidgetInv, LogOK
<1>2. Shapes
  BY DEF WidgetInv
<1>3. /\ times' = times /\ shown' = shown /\ clock' = clock /\ cur' = cur
      /\ SyncServerTime(l, sel[l], t)
      /\ heard' = [w \in Widgets |-> IF w = l THEN heard[w] ELSE Hear(w, t)]
  BY DEF view
<1>4. t \in 0 .. MaxTime
  <2> HIDE DEF r
  <2> QED
    BY <1>1, TimeAtType
<1> HIDE DEF t, r
<1>5. /\ \A k \in Logs \ {l} : LogOK(k)'
      /\ \A p \in Plots \ {l} : PlotOK(p)'
      /\ sel' = [k \in Logs |-> sel'[k]] /\ chosen' = [k \in Logs |-> chosen'[k]]
      /\ marker' = [p \in Plots |-> marker'[p]]
      /\ sel'[l] = sel[l] /\ chosen'[l] = RowAt(shown[l], sel[l])
  <2>1. \A k \in Logs \ {l} : cur'[k] = cur[k]
    BY <1>3
  <2>2. \A x \in Widgets \ {l} : heard'[x] = Hear(x, t)
    BY <1>3
  <2> HIDE DEF OnSyncGroupRowButton
  <2> QED
    BY <1>1, <1>3, <1>4, <2>1, <2>2, Requested
<1>6. LogOK(l)'
  <2>1. shown[l] # {}
    <3>1. CurrentSource(l) # 0
      OBVIOUS
    <3>2. Cardinality({}) = 0 /\ \A v : v \notin 1 .. 0
      BY FS_EmptySet
    <3> QED
      BY <3>1, <3>2 DEF CurrentSource, SourceRow
  <2>2. LogInv(times[l], shown[l], sel[l], cur[l], RowAt(shown[l], sel[l]), heard[l])
    BY <1>1, <2>1, AfterButton
  <2>3. heard'[l] = heard[l]
    BY <1>1, <1>3
  <2> QED
    BY <1>3, <1>5, <2>2, <2>3 DEF LogOK
<1>7. ASSUME NEW w \in Widgets PROVE InTime(w)'
  BY <1>3, StillInTime DEF WidgetInv
<1>8. Shapes'
  BY <1>2, <1>3, <1>5 DEF Shapes
<1>9. Others'
  BY <1>3, CountClick DEF WidgetInv, Others
<1> QED
  BY <1>5, <1>6, <1>7, <1>8, <1>9, WidgetKinds DEF WidgetInv

(* SetRefSTime preserves the invariant. *)
LEMMA SetRef_Inv ==
  ASSUME WidgetInv, NEW l \in Logs, SetRefSTime(l)
  PROVE  WidgetInv'
<1> DEFINE t == TimeAt(l, CurrentSource(l))
<1>1. clicks' \in 0 .. MaxClicks /\ refOn' \in [Logs -> BOOLEAN]
  BY CountClick DEF SetRefSTime, WidgetInv, Others
<1>2. CASE CurrentSource(l) # 0
  <2>1. SyncRefSTime(t) /\ UNCHANGED << view, group, clock >>
    BY <1>2 DEF SetRefSTime
  <2>2. t \in 0 .. MaxTime
    BY TimeAtType, WidgetKinds
  <2> HIDE DEF t
  <2> QED
    BY <1>1, <2>1, <2>2, ReferenceMoves
<1>3. CASE CurrentSource(l) = 0
  <2>1. UNCHANGED << times, shown, sel, cur, chosen, heard, marker, ref, group, clock >>
    BY <1>3 DEF SetRefSTime, view, picked
  <2> QED
    BY <1>1, <2>1, StillLog, StillPlot, StillInTime DEF WidgetInv, Shapes, Others
<1> QED
  BY <1>2, <1>3

(* ClearRefSTime preserves the invariant. *)
LEMMA ClearRef_Inv ==
  ASSUME WidgetInv, NEW l \in Logs, ClearRefSTime(l)
  PROVE  WidgetInv'
<1>1. clicks' \in 0 .. MaxClicks /\ refOn' \in [Logs -> BOOLEAN]
  BY CountClick DEF ClearRefSTime, WidgetInv, Others
<1>2. SyncRefSTime(0) /\ UNCHANGED << view, group, clock >> /\ 0 \in 0 .. MaxTime
  BY Constants DEF ClearRefSTime
<1> QED
  BY <1>1, <1>2, ReferenceMoves

(* OnSyncGroupValueChanged preserves the invariant. *)
LEMMA Group_Inv ==
  ASSUME WidgetInv, NEW l \in Logs, NEW g \in Groups, OnSyncGroupValueChanged(l, g)
  PROVE  WidgetInv'
<1>1. /\ UNCHANGED << times, shown, sel, cur, chosen, heard, marker, refOn, ref, clock >>
      /\ clicks' \in 0 .. MaxClicks /\ group' \in [Logs -> Groups]
  BY CountClick DEF OnSyncGroupValueChanged, view, picked, WidgetInv, Others
<1> QED
  BY <1>1, StillLog, StillPlot, StillInTime DEF WidgetInv, Shapes, Others

(* OnInvalidateFilter preserves the invariant. *)
LEMMA Filter_Inv ==
  ASSUME WidgetInv, NEW l \in Logs, NEW rows \in SUBSET DOMAIN times[l],
         OnInvalidateFilter(l, rows)
  PROVE  WidgetInv'
<1> USE DEF OnInvalidateFilter
<1> DEFINE k == ViewRow(rows, RowAt(shown[l], sel[l]))
           x == ChosenRow(shown[l], chosen[l])
<1>1. LogInv(times[l], shown[l], sel[l], cur[l], chosen[l], heard[l]) /\ l \in Widgets
  BY WidgetKinds DEF WidgetInv, LogOK
<1>2. Shapes
  BY DEF WidgetInv
<1>3. /\ shown'[l] = rows /\ sel'[l] = k /\ cur'[l] = IF k # 0 THEN k ELSE cur[l]
      /\ chosen'[l] = (IF x \in rows THEN x ELSE 0) /\ heard'[l] = Never
      /\ times' = times /\ clock' = clock /\ marker' = marker
  BY <1>1, <1>2, SourceRowAt, ChosenAt DEF Shapes, Kept, Reselected
<1>4. LogOK(l)'
  <2>1. rows \in SUBSET (1 .. Len(times[l]))
    BY <1>1, SamplesFacts DEF LogInv
  <2>2. LogInv(times[l], rows, k, IF k # 0 THEN k ELSE cur[l],
               IF x \in rows THEN x ELSE 0, Never)
    BY <1>1, <2>1, AfterFilter
  <2> HIDE DEF k, x
  <2> QED
    BY <1>3, <2>2 DEF LogOK
<1>5. InTime(l)'
  BY <1>1, <1>3 DEF WidgetInv, InTime
<1>6. Shapes'
  BY <1>2, <1>3 DEF Shapes
<1>7. Others'
  BY <1>3, CountClick DEF WidgetInv, Others
<1>8. /\ \A j \in Logs \ {l} :
           /\ shown'[j] = shown[j] /\ sel'[j] = sel[j] /\ cur'[j] = cur[j]
           /\ chosen'[j] = chosen[j]
      /\ \A w \in Widgets \ {l} : times'[w] = times[w] /\ heard'[w] = heard[w]
  BY <1>2, <1>3 DEF Shapes
<1> QED
  BY <1>3, <1>4, <1>5, <1>6, <1>7, <1>8, OnlyLog

(* ClearLogData preserves the invariant. *)
LEMMA ClearLog_Inv ==
  ASSUME WidgetInv, NEW l \in Logs, ClearLogData(l)
  PROVE  WidgetInv'
<1> USE DEF ClearLogData
<1>1. Shapes /\ l \in Widgets
  BY WidgetKinds DEF WidgetInv
<1>2. /\ times'[l] = << >> /\ shown'[l] = {} /\ sel'[l] = 0 /\ cur'[l] = 0 /\ chosen'[l] = 0
      /\ heard'[l] = Never /\ clock' = clock /\ marker' = marker
  BY <1>1 DEF Shapes
<1>3. LogOK(l)'
  BY <1>2, NoRows DEF LogOK
<1>4. InTime(l)'
  BY <1>2, NoRows DEF InTime
<1>5. Shapes'
  BY <1>1, <1>2 DEF Shapes
<1>6. Others'
  BY <1>2, CountClick DEF WidgetInv, Others
<1>7. /\ \A k \in Logs \ {l} :
           /\ shown'[k] = shown[k] /\ sel'[k] = sel[k] /\ cur'[k] = cur[k]
           /\ chosen'[k] = chosen[k]
      /\ \A w \in Widgets \ {l} : times'[w] = times[w] /\ heard'[w] = heard[w]
  BY <1>1, <1>2 DEF Shapes
<1> QED
  BY <1>2, <1>3, <1>4, <1>5, <1>6, <1>7, OnlyLog

(* Selected preserves the invariant. *)
LEMMA Selected_Inv ==
  ASSUME WidgetInv, NEW p \in Plots, NEW i \in 0 .. Len(times[p]), Selected(p, i)
  PROVE  WidgetInv'
<1> USE DEF Selected
<1> DEFINE t == TimeAt(p, i)
<1>1. Shapes /\ PlotOK(p) /\ p \in Widgets
  BY WidgetKinds DEF WidgetInv
<1>2. /\ times' = times /\ shown' = shown /\ clock' = clock /\ cur' = cur
      /\ SyncServerTime(p, 0, t)
      /\ heard' = [w \in Widgets |-> IF w = p THEN Never ELSE Hear(w, t)]
  BY DEF view
<1>3. t \in 0 .. MaxTime
  BY <1>1, TimeAtType
<1> HIDE DEF t
<1>4. /\ \A l \in Logs \ {p} : LogOK(l)'
      /\ \A q \in Plots \ {p} : PlotOK(q)'
      /\ sel' = [l \in Logs |-> sel'[l]] /\ chosen' = [l \in Logs |-> chosen'[l]]
      /\ marker' = [q \in Plots |-> marker'[q]]
      /\ marker'[p] = 0
  <2>1. \A l \in Logs \ {p} : cur'[l] = cur[l]
    BY <1>2
  <2>2. \A x \in Widgets \ {p} : heard'[x] = Hear(x, t)
    BY <1>2
  <2> HIDE DEF Selected
  <2> QED
    BY <1>1, <1>2, <1>3, <2>1, <2>2, Requested
<1>5. PlotOK(p)'
  <2>1. times[p] \in Samples
    BY <1>1 DEF PlotOK, PlotInv
  <2>2. heard'[p] = Never
    BY <1>1, <1>2
  <2> QED
    BY <1>2, <1>4, <2>1, <2>2, AfterForget, Constants DEF PlotOK
<1>6. ASSUME NEW w \in Widgets PROVE InTime(w)'
  BY <1>2, StillInTime DEF WidgetInv
<1>7. Shapes'
  BY <1>1, <1>2, <1>4 DEF Shapes
<1>8. Others'
  BY <1>2, CountClick DEF WidgetInv, Others
<1>9. \A l \in Logs : l # p
  BY WidgetKinds
<1> QED
  BY <1>4, <1>5, <1>6, <1>7, <1>8, <1>9 DEF WidgetInv

(* ClearPlotData preserves the invariant. *)
LEMMA ClearPlot_Inv ==
  ASSUME WidgetInv, NEW p \in Plots, ClearPlotData(p)
  PROVE  WidgetInv'
<1> USE DEF ClearPlotData
<1>1. Shapes /\ PlotOK(p) /\ p \in Widgets /\ \A l \in Logs : l # p
  BY WidgetKinds DEF WidgetInv
<1>2. /\ times'[p] = << >> /\ heard'[p] = Never /\ marker' = marker /\ clock' = clock
      /\ \A w \in Widgets \ {p} : times'[w] = times[w] /\ heard'[w] = heard[w]
  BY <1>1 DEF Shapes
<1>3. ASSUME NEW l \in Logs PROVE LogOK(l)'
  BY <1>1, <1>2, StillLog, WidgetKinds DEF WidgetInv
<1>4. ASSUME NEW q \in Plots PROVE PlotOK(q)'
  <2>1. CASE q = p
    <3>1. marker[p] \in Rows
      BY <1>1 DEF PlotOK, PlotInv
    <3> QED
      BY <1>2, <2>1, <3>1, NoRows, AfterForget DEF PlotOK
  <2>2. CASE q # p
    BY <1>2, <2>2, StillPlot, WidgetKinds DEF WidgetInv
  <2> QED
    BY <2>1, <2>2
<1>5. ASSUME NEW w \in Widgets PROVE InTime(w)'
  <2>1. CASE w = p
    BY <1>2, <2>1, NoRows DEF InTime
  <2>2. CASE w # p
    BY <1>2, <2>2, StillInTime DEF WidgetInv
  <2> QED
    BY <2>1, <2>2
<1>6. Shapes'
  BY <1>1, <1>2 DEF Shapes
<1>7. Others'
  BY <1>2, CountClick DEF WidgetInv, Others
<1> QED
  BY <1>3, <1>4, <1>5, <1>6, <1>7 DEF WidgetInv

(* A row or a sample more, at a time that is not before the clock *)
LEMMA Arrives ==
  ASSUME WidgetInv, NEW w \in Widgets, NEW t \in clock .. MaxTime, Len(times[w]) < MaxRows,
         clock' = t, times' = [times EXCEPT ![w] = Append(@, t)]
  PROVE  /\ times[w] \in Samples /\ t \in 1 .. MaxTime
         /\ times'[w] = Append(times[w], t)
         /\ \A x \in Widgets \ {w} : times'[x] = times[x]
         /\ times' = [x \in Widgets |-> times'[x]]
         /\ \A x \in Widgets : InTime(x)'
<1>1. Shapes /\ Others /\ InTime(w) /\ times[w] \in Samples
  BY WidgetSamples DEF WidgetInv
<1>2. clock \in Nat /\ clock <= t /\ t \in 1 .. MaxTime
  BY <1>1, Constants DEF Others
<1>3. /\ times'[w] = Append(times[w], t)
      /\ \A x \in Widgets \ {w} : times'[x] = times[x]
      /\ times' = [x \in Widgets |-> times'[x]]
  BY <1>1 DEF Shapes
<1>4. ASSUME NEW x \in Widgets PROVE InTime(x)'
  <2>1. CASE x = w
    <3>1. /\ InOrder(Append(times[w], t))
          /\ \A i \in 1 .. Len(Append(times[w], t)) : Append(times[w], t)[i] <= t
      BY <1>1, <1>2, OrderKept DEF InTime
    <3> QED
      BY <1>3, <2>1, <3>1 DEF InTime
  <2>2. CASE x # w
    <3>1. times[x] \in Samples /\ InTime(x)
      BY WidgetSamples DEF WidgetInv
    <3>2. \A i \in 1 .. Len(times[x]) : times[x][i] \in Nat /\ times[x][i] <= clock
      BY <3>1, SamplesFacts DEF InTime
    <3>3. \A i \in 1 .. Len(times[x]) : times[x][i] <= t
      BY <1>2, <3>2, Constants
    <3> QED
      BY <1>3, <2>2, <3>1, <3>3 DEF InTime
  <2> QED
    BY <2>1, <2>2
<1> QED
  BY <1>1, <1>2, <1>3, <1>4

(* CommitLog preserves the invariant: the first row is selected, another one is not. *)
LEMMA CommitLog_Inv ==
  ASSUME WidgetInv, NEW l \in Logs, NEW t \in clock .. MaxTime, CommitLog(l, t)
  PROVE  WidgetInv'
<1>1. Shapes /\ Others /\ l \in Widgets /\ LogOK(l)
  BY WidgetKinds DEF WidgetInv
<1>2. /\ Len(times[l]) < MaxRows /\ clock' = t /\ times' = [times EXCEPT ![l] = Append(@, t)]
      /\ UNCHANGED << group, refOn, ref, marker, clicks >>
  BY DEF CommitLog
<1>3. /\ times[l] \in Samples /\ t \in 1 .. MaxTime /\ times'[l] = Append(times[l], t)
      /\ \A w \in Widgets \ {l} : times'[w] = times[w]
      /\ times' = [w \in Widgets |-> times'[w]]
      /\ \A w \in Widgets : InTime(w)'
  BY <1>1, <1>2, Arrives
<1>4. /\ \A k \in Logs \ {l} : shown'[k] = shown[k]
      /\ shown'[l] = shown[l] \/ shown'[l] = shown[l] \cup {Len(times[l]) + 1}
      /\ shown' = [k \in Logs |-> shown'[k]]
  BY <1>1 DEF CommitLog, Shapes
<1>5. LogInv(times[l], shown[l], sel[l], cur[l], chosen[l], heard[l])
  BY <1>1 DEF LogOK
<1>6. /\ LogOK(l)'
      /\ \A k \in Logs \ {l} : sel'[k] = sel[k] /\ cur'[k] = cur[k] /\ chosen'[k] = chosen[k]
      /\ \A w \in Widgets \ {l} : heard'[w] = heard[w]
      /\ sel' = [k \in Logs |-> sel'[k]] /\ cur' = [k \in Logs |-> cur'[k]]
      /\ chosen' = [k \in Logs |-> chosen'[k]] /\ heard' = [w \in Widgets |-> heard'[w]]
  <2>1. CASE times[l] = << >>
    <3>1. /\ sel' = [sel EXCEPT ![l] = 1] /\ cur' = [cur EXCEPT ![l] = 1]
          /\ chosen' = [chosen EXCEPT ![l] = First] /\ heard' = [heard EXCEPT ![l] = Never]
      BY <2>1 DEF CommitLog
    <3>2. sel'[l] = 1 /\ cur'[l] = 1 /\ chosen'[l] = First /\ heard'[l] = Never
      BY <1>1, <3>1 DEF Shapes
    <3>3. shown'[l] \in SUBSET {1} /\ 0 < MaxRows
      <4>1. Len(times[l]) = 0
        BY <2>1
      <4>2. shown[l] \in SUBSET (1 .. 0)
        BY <1>5, <4>1 DEF LogInv
      <4>3. \A r : r \notin 1 .. 0
        OBVIOUS
      <4> QED
        BY <1>2, <1>4, <4>1, <4>2, <4>3
    <3>4. LogInv(Append(times[l], t), shown'[l], 1, 1, First, Never)
      BY <1>3, <2>1, <3>3, AfterFirst
    <3>5. LogOK(l)'
      BY <1>3, <3>2, <3>4 DEF LogOK
    <3> QED
      BY <1>1, <3>1, <3>5 DEF Shapes
  <2>2. CASE times[l] # << >>
    <3>1. sel' = sel /\ cur' = cur /\ chosen' = chosen /\ heard' = heard
      BY <2>2 DEF CommitLog, picked
    <3>2. LogInv(Append(times[l], t), shown'[l], sel[l], cur[l], chosen[l], heard[l])
      BY <1>2, <1>3, <1>4, <1>5, <2>2, AfterAppend
    <3>3. LogOK(l)'
      BY <1>3, <3>1, <3>2 DEF LogOK
    <3> QED
      BY <1>1, <3>1, <3>3 DEF Shapes
  <2> QED
    BY <2>1, <2>2
<1>7. ASSUME NEW k \in Logs PROVE LogOK(k)'
  <2>1. CASE k # l
    BY <1>3, <1>4, <1>6, <2>1, StillLog, WidgetKinds DEF WidgetInv
  <2> QED
    BY <1>6, <2>1
<1>8. ASSUME NEW p \in Plots PROVE PlotOK(p)'
  <2>1. p \in Widgets \ {l}
    BY WidgetKinds
  <2> QED
    BY <1>2, <1>3, <1>6, <2>1, StillPlot DEF WidgetInv
<1>9. Shapes'
  BY <1>1, <1>2, <1>3, <1>4, <1>6 DEF Shapes
<1>10. Others'
  <2>1. t \in 1 .. MaxTime
    BY <1>3
  <2> QED
    BY <1>1, <1>2, <2>1 DEF Others
<1> QED
  BY <1>3, <1>7, <1>8, <1>9, <1>10 DEF WidgetInv

(* CommitSample preserves the invariant. *)
LEMMA CommitSample_Inv ==
  ASSUME WidgetInv, NEW p \in Plots, NEW t \in clock .. MaxTime, CommitSample(p, t)
  PROVE  WidgetInv'
<1>1. Shapes /\ Others /\ p \in Widgets /\ PlotOK(p) /\ \A l \in Logs : l # p
  BY WidgetKinds DEF WidgetInv
<1>2. /\ Len(times[p]) < MaxRows /\ clock' = t /\ times' = [times EXCEPT ![p] = Append(@, t)]
      /\ UNCHANGED << shown, sel, cur, chosen, heard, group, refOn, ref, marker, clicks >>
  BY DEF CommitSample, picked
<1>3. /\ t \in 1 .. MaxTime /\ times'[p] = Append(times[p], t)
      /\ \A w \in Widgets \ {p} : times'[w] = times[w]
      /\ times' = [w \in Widgets |-> times'[w]]
      /\ \A w \in Widgets : InTime(w)'
  BY <1>1, <1>2, Arrives
<1>4. ASSUME NEW l \in Logs PROVE LogOK(l)'
  BY <1>1, <1>2, <1>3, StillLog, WidgetKinds DEF WidgetInv
<1>5. ASSUME NEW q \in Plots PROVE PlotOK(q)'
  <2>1. CASE q = p
    <3>1. PlotInv(Append(times[p], t), marker[p], heard[p])
      BY <1>1, <1>2, <1>3, AfterSample DEF PlotOK
    <3> QED
      BY <1>2, <1>3, <2>1, <3>1 DEF PlotOK
  <2>2. CASE q # p
    BY <1>2, <1>3, <2>2, StillPlot, WidgetKinds DEF WidgetInv
  <2> QED
    BY <2>1, <2>2
<1>6. Shapes'
  BY <1>1, <1>2, <1>3 DEF Shapes
<1>7. Others'
  BY <1>1, <1>2, <1>3 DEF Others
<1> QED
  BY <1>3, <1>4, <1>5, <1>6, <1>7 DEF WidgetInv

(* Every step preserves the invariant. *)
LEMMA Next_Inv ==
  ASSUME WidgetInv, [Next]_vars
  PROVE  WidgetInv'
<1>1. ASSUME NEW l \in Logs, LogClicks(l)
      PROVE  WidgetInv'
  <2>1. CASE \E v \in 1 .. Cardinality(shown[l]) :
               OnTableClicked(l, v) \/ OnTableDoubleClicked(l, v)
    BY <2>1, Click_Inv, DoubleClick_Inv
  <2>2. CASE OnSyncGroupRowButton(l)
    BY <2>2, Button_Inv
  <2>3. CASE SetRefSTime(l) \/ ClearRefSTime(l)
    BY <2>3, SetRef_Inv, ClearRef_Inv
  <2>4. CASE \E g \in Groups : OnSyncGroupValueChanged(l, g)
    BY <2>4, Group_Inv
  <2>5. CASE \E rows \in SUBSET DOMAIN times[l] : OnInvalidateFilter(l, rows)
    BY <2>5, Filter_Inv
  <2>6. CASE ClearLogData(l)
    BY <2>6, ClearLog_Inv
  <2> QED
    BY <1>1, <2>1, <2>2, <2>3, <2>4, <2>5, <2>6 DEF LogClicks
<1>2. ASSUME NEW p \in Plots, PlotClicks(p)
      PROVE  WidgetInv'
  BY <1>2, Selected_Inv, ClearPlot_Inv DEF PlotClicks
<1>3. ASSUME NEW t \in clock .. MaxTime, \/ \E l \in Logs : CommitLog(l, t)
                                         \/ \E p \in Plots : CommitSample(p, t)
      PROVE  WidgetInv'
  BY <1>3, CommitLog_Inv, CommitSample_Inv
<1>4. CASE UNCHANGED vars
  <2>1. UNCHANGED << times, shown, sel, cur, chosen, heard, group, refOn, ref, marker, clock,
                     clicks >>
    BY <1>4 DEF vars, view, picked
  <2> QED
    BY <2>1, StillLog, StillPlot, StillInTime DEF WidgetInv, Shapes, Others
<1> QED
  BY <1>1, <1>2, <1>3, <1>4 DEF Next

-----------------------------------------------------------------------------
(* The invariant holds, and everything the run checks with it. *)
THEOREM WidgetInvariance == Spec => []WidgetInv
<1>1. Init => WidgetInv
  BY InitInv
<1>2. WidgetInv /\ [Next]_vars => WidgetInv'
  BY Next_Inv
<1> QED
  BY <1>1, <1>2, PTL DEF Spec

(* Type correctness: the selection is a row in view, but for the first row that setCurrentIndex *)
(* selects before the filter has let any into view; rows in view are rows of the table.        *)
THEOREM WidgetTypeCorrect == Spec => []TypeOK
<1>1. WidgetInv => TypeOK
  BY TypesHold
<1> QED
  BY <1>1, WidgetInvariance, PTL

(* The line selected is the one that was selected by the user, by the last request or, as  *)
(* the first line in view, by the first batch (LogTableModel::commitCommands), over every  *)
(* change of the filter (Kept, from OnInvalidateFilter) and every row that arrives.        *)
THEOREM SelectionStays == Spec => []SelectionKept
<1>1. WidgetInv => SelectionKept
  BY PropertiesHold
<1> QED
  BY <1>1, WidgetInvariance, PTL

(* The buttons act on the line selected, unless a request moved the selection: what        *)
(* onTableClicked, syncSelection and the first batch leave in currentIndex().              *)
THEOREM ButtonsFollow == Spec => []CurrentFollows
<1>1. WidgetInv => CurrentFollows
  BY PropertiesHold
<1> QED
  BY <1>1, WidgetInvariance, PTL

(* A log that went to a time has selected a line as near to it as any in view              *)
(* (findNearestTimeRow4Server), until a click, a filter or the first batch of an empty log *)
(* selects.                                                                                *)
THEOREM NearestSelected == Spec => []SelectionNearest
<1>1. WidgetInv => SelectionNearest
  BY PropertiesHold
<1> QED
  BY <1>1, WidgetInvariance, PTL

(* The loop of PlotWidget::performSynchronization, which compares squares of distances     *)
(* with distances, all unsigned, finds the first sample that is not before the time, or    *)
(* the last one, if samples are in order and the squares fit.                              *)
THEOREM MarkerFollows == Spec => []MarkerNext
<1>1. WidgetInv => MarkerNext
  BY PropertiesHold
<1> QED
  BY <1>1, WidgetInvariance, PTL
=============================================================================
