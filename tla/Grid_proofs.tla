---------------------------- MODULE Grid_proofs ----------------------------
(***************************************************************************)
(* Proofs about the window query, the layout and the grid, for any series, *)
(* slots, windows, dates and screens.                                      *)
(*                                                                         *)
(* Window's type invariant is inductive and carries what the query needs:  *)
(* an exception keeps the start the rule gave its occurrence.  What the    *)
(* screens show is computed from one such state, so the rest is lemmas on  *)
(* operators: the query answers what overlaps and what is kept; a piece is *)
(* the instants of its date; the loop of columns keeps Looping, which a    *)
(* smallest set of pieces that broke it would contradict; and what is      *)
(* later is further down whatever the heights of the hours.                *)
(***************************************************************************)
EXTENDS Grid, FiniteSetTheorems, FunctionTheorems, WellFoundedInduction, TLAPS

(* The rule's times are integers, and none is before the master's. *)
LEMMA RuleStarts ==
  ASSUME NEW k \in Occurrence
  PROVE  RuleStart(k) \in Int /\ FirstStart <= RuleStart(k)
<1>1. k \in Nat /\ Period \in Nat /\ FirstStart \in Int
  BY OccurrenceAssumption, RuleAssumption
<1>2. k * Period \in Nat
  BY <1>1
<1> QED
  BY <1>1, <1>2 DEF RuleStart

-----------------------------------------------------------------------------

(* Every row keeps its type, and every exception names the occurrence of   *)
(* the rule it stands for, wherever it was moved (map_event).              *)
THEOREM WindowTypeCorrect == Spec => []TypeOK
<1>1. Init => TypeOK
  <2> SUFFICES ASSUME Init PROVE TypeOK
    OBVIOUS
  <2>1. \A k \in Occurrence : Tombstone(k) \in Row
    BY RuleStarts DEF Tombstone, Row
  <2> QED
    BY <2>1 DEF Init, TypeOK
<1>2. TypeOK /\ [Next]_vars => TypeOK'
  <2> SUFFICES ASSUME TypeOK, [Next]_vars PROVE TypeOK'
    OBVIOUS
  <2> USE DEF TypeOK
  <2>1. ASSUME NEW k \in Occurrence, NEW s \in Slot, Move(k, s) PROVE TypeOK'
    <3>1. Moved(k, s) \in Row /\ Moved(k, s).original_start = RuleStart(k)
      BY RuleStarts, SlotAssumption DEF Moved, Row
    <3> QED
      BY <2>1, <3>1 DEF Move
  <2>2. ASSUME NEW k \in Occurrence, Cancel(k) PROVE TypeOK'
    <3>1. Tombstone(k) \in Row /\ Tombstone(k).original_start = RuleStart(k)
      BY RuleStarts DEF Tombstone, Row
    <3> QED
      BY <2>2, <3>1 DEF Cancel
  <2>3. ASSUME NEW s \in Single, Add(s) \/ Delete(s) PROVE TypeOK'
    BY <2>3 DEF Add, Delete
  <2>4. CASE UNCHANGED vars
    BY <2>4 DEF vars
  <2> QED
    BY <2>1, <2>2, <2>3, <2>4 DEF Next
<1> QED
  BY <1>1, <1>2, PTL DEF Spec

-----------------------------------------------------------------------------

(* What the calendar has in a window is found, whatever the window.        *)
LEMMA Found ==
  ASSUME TypeOK, NEW from \in Int, NEW to \in Int,
         NEW o \in Calendar, Overlaps(o, from, to)
  PROVE  o \in occurrences_in_window(from, to)
<1>1. ASSUME NEW k \in Occurrence \ exceptions, o = Drawn(k, RuleSlot(k))
      PROVE  o \in occurrences_in_window(from, to)
  <2>1. Overlaps(RuleSlot(k), from, to)
    BY <1>1 DEF Overlaps, Drawn, RuleSlot
  <2>2. MasterFetched(from, to)
    BY <2>1, RuleStarts, RuleAssumption DEF MasterFetched, Overlaps, RuleSlot
  <2>3. k \in expand(from, to) \ ExceptionsFetched(from, to)
    BY <2>1 DEF expand, ExceptionsFetched
  <2> QED
    BY <1>1, <2>2, <2>3 DEF occurrences_in_window
<1>2. ASSUME NEW k \in exceptions, ~ row[k].cancelled, o = Drawn(k, row[k])
      PROVE  o \in occurrences_in_window(from, to)
  <2>1. Overlaps(row[k], from, to)
    BY <1>2 DEF Overlaps, Drawn
  <2>2. k \in ExceptionsFetched(from, to)
    BY <2>1 DEF ExceptionsFetched
  <2> QED
    BY <1>2, <2>1, <2>2 DEF occurrences_in_window
<1>3. ASSUME NEW s \in singles, o = Drawn(-1, s)
      PROVE  o \in occurrences_in_window(from, to)
  <2>1. s \in SinglesFetched(from, to)
    BY <1>3 DEF SinglesFetched, Overlaps, Drawn
  <2> QED
    BY <1>3, <2>1 DEF occurrences_in_window
<1> QED
  BY <1>1, <1>2, <1>3 DEF Calendar

(* The query finds all that the calendar has in the window: the master     *)
(* whose occurrences are in it though its own time is not, the exception   *)
(* that moved in from outside, and the rest (events_for_window).           *)
THEOREM NothingIsLost == Spec => []NothingLost
<1>1. TypeOK => NothingLost
  BY Found, InstantAssumption DEF NothingLost
<1> QED
  BY <1>1, WindowTypeCorrect, PTL

(* Only an occurrence whose own time ran across the beginning of the       *)
(* window can be drawn though it was moved away or deleted: the clause     *)
(* original_start_utc >= ?1 misses its exception and no other.             *)
THEOREM OnlyTheEdgeRevives == Spec => []RevivedOnlyAtTheEdge
<1>1. TypeOK => RevivedOnlyAtTheEdge
  <2> SUFFICES ASSUME TypeOK, NEW from \in Instant, NEW to \in Instant,
                      NEW o \in occurrences_in_window(from, to), o \notin Calendar
               PROVE  /\ o.of \in exceptions
                      /\ RuleStart(o.of) < from
                      /\ from < RuleStart(o.of) + Duration
    BY DEF RevivedOnlyAtTheEdge
  <2>1. \/ \E k \in expand(from, to) \ ExceptionsFetched(from, to) :
              o = Drawn(k, RuleSlot(k))
        \/ \E k \in ExceptionsFetched(from, to) :
              ~ row[k].cancelled /\ o = Drawn(k, row[k])
        \/ \E s \in SinglesFetched(from, to) : o = Drawn(-1, s)
    BY DEF occurrences_in_window
  <2>2. PICK k \in expand(from, to) \ ExceptionsFetched(from, to) :
               o = Drawn(k, RuleSlot(k))
    BY <2>1 DEF Calendar, ExceptionsFetched, SinglesFetched
  <2>3. k \in exceptions
    BY <2>2 DEF Calendar, expand
  <2>4. RuleStart(k) < to /\ RuleStart(k) + Duration > from
    BY <2>2 DEF expand, Overlaps, RuleSlot
  <2>5. RuleStart(k) < from
    BY <2>2, <2>3, <2>4, RuleStarts, InstantAssumption DEF ExceptionsFetched, TypeOK
  <2>6. o.of = k
    BY <2>2 DEF Drawn
  <2>7. from < RuleStart(k) + Duration
    BY <2>4, RuleStarts, RuleAssumption, InstantAssumption, <2>3 DEF TypeOK
  <2> QED
    BY <2>3, <2>5, <2>6, <2>7
<1> QED
  BY <1>1, WindowTypeCorrect, PTL

-----------------------------------------------------------------------------
(* Whatever the query answers is a record of integers, and overlaps the    *)
(* window.                                                                 *)

Occurrences == [of : Int, start : Int, end : Int]

LEMMA Answers ==
  ASSUME TypeOK, NEW from, NEW to, NEW o \in occurrences_in_window(from, to)
  PROVE  o \in Occurrences /\ Overlaps(o, from, to)
<1> USE DEF Occurrences, Overlaps, Drawn
<1>1. ASSUME NEW k \in expand(from, to), o = Drawn(k, RuleSlot(k))
      PROVE  o \in Occurrences /\ Overlaps(o, from, to)
  <2>1. k \in Occurrence /\ k \in Int /\ Overlaps(RuleSlot(k), from, to)
    BY OccurrenceAssumption DEF expand
  <2>2. RuleStart(k) \in Int /\ Duration \in Int
    BY <2>1, RuleStarts, RuleAssumption
  <2> QED
    BY <1>1, <2>1, <2>2 DEF RuleSlot
<1>2. ASSUME NEW k \in ExceptionsFetched(from, to), Overlaps(row[k], from, to),
             o = Drawn(k, row[k])
      PROVE  o \in Occurrences /\ Overlaps(o, from, to)
  <2>1. k \in Int /\ row[k] \in Row
    BY OccurrenceAssumption DEF ExceptionsFetched, TypeOK
  <2> QED
    BY <1>2, <2>1 DEF Row
<1>3. ASSUME NEW s \in SinglesFetched(from, to), o = Drawn(-1, s)
      PROVE  o \in Occurrences /\ Overlaps(o, from, to)
  <2>1. s \in [start : Int, end : Int] /\ Overlaps(s, from, to)
    BY SlotAssumption DEF SinglesFetched, TypeOK
  <2> QED
    BY <1>3, <2>1
<1> QED
  BY <1>1, <1>2, <1>3 DEF occurrences_in_window

(* So is what the calendar has.                                            *)
LEMMA Kept ==
  ASSUME TypeOK, NEW o \in Calendar
  PROVE  o \in Occurrences
<1> USE DEF Occurrences, Drawn
<1>1. ASSUME NEW k \in Occurrence, o = Drawn(k, RuleSlot(k))
      PROVE  o \in Occurrences
  <2>1. k \in Int /\ RuleStart(k) \in Int /\ Duration \in Int
    BY RuleStarts, RuleAssumption, OccurrenceAssumption
  <2> QED
    BY <1>1, <2>1 DEF RuleSlot
<1>2. ASSUME NEW k \in exceptions, o = Drawn(k, row[k])
      PROVE  o \in Occurrences
  <2>1. k \in Int /\ row[k] \in Row
    BY OccurrenceAssumption DEF TypeOK
  <2> QED
    BY <1>2, <2>1 DEF Row
<1>3. ASSUME NEW s \in singles, o = Drawn(-1, s)
      PROVE  o \in Occurrences
  <2>1. s \in [start : Int, end : Int]
    BY SlotAssumption DEF TypeOK
  <2> QED
    BY <1>3, <2>1
<1> QED
  BY <1>1, <1>2, <1>3 DEF Calendar

(* An answer is finite.                                                    *)
LEMMA FiniteAnswers ==
  ASSUME TypeOK, NEW from, NEW to
  PROVE  IsFiniteSet(occurrences_in_window(from, to))
<1> DEFINE fetched == ExceptionsFetched(from, to)
           ruled   == IF MasterFetched(from, to) THEN expand(from, to) \ fetched ELSE {}
           moved   == {k \in fetched : ~ row[k].cancelled /\ Overlaps(row[k], from, to)}
           single  == SinglesFetched(from, to)
           Rules   == {Drawn(k, RuleSlot(k)) : k \in ruled}
           Moves   == {Drawn(k, row[k]) : k \in moved}
           Others  == {Drawn(-1, s) : s \in single}
<1>1. IsFiniteSet(ruled) /\ IsFiniteSet(moved) /\ IsFiniteSet(single)
  <2>1. ruled \in SUBSET Occurrence /\ moved \in SUBSET Occurrence /\ single \in SUBSET Single
    BY DEF expand, ExceptionsFetched, SinglesFetched, TypeOK
  <2> QED
    BY <2>1, FiniteAssumption, FS_Subset, Zenon
<1>6. \A S, T : \A f \in Surjection(S, T) : IsFiniteSet(S) => IsFiniteSet(T)
  BY FS_Surjection
<1>2. IsFiniteSet(Rules)
  <2>1. [k \in ruled |-> Drawn(k, RuleSlot(k))] \in Surjection(ruled, Rules)
    BY DEF Surjection
  <2> QED
    BY <1>1, <1>6, <2>1
<1>3. IsFiniteSet(Moves)
  <2>1. [k \in moved |-> Drawn(k, row[k])] \in Surjection(moved, Moves)
    BY DEF Surjection
  <2> QED
    BY <1>1, <1>6, <2>1
<1>4. IsFiniteSet(Others)
  <2>1. [s \in single |-> Drawn(-1, s)] \in Surjection(single, Others)
    BY DEF Surjection
  <2> QED
    BY <1>1, <1>6, <2>1
<1>5. occurrences_in_window(from, to) = (Rules \cup Moves) \cup Others
  BY DEF occurrences_in_window
<1> HIDE DEF Rules, Moves, Others
<1>7. IsFiniteSet(Rules \cup Moves)
  BY <1>2, <1>3, FS_Union
<1> QED
  BY <1>4, <1>5, <1>7, FS_Union

-----------------------------------------------------------------------------
(* A set of integers with a lower bound has a least element, and one with  *)
(* an upper bound a greatest.                                              *)

LEMMA LeastNumber ==
  ASSUME NEW T \in SUBSET Nat, T # {}
  PROVE  \E n \in T : \A m \in T : n <= m
<1> DEFINE R == {ss \in Nat \X Nat : ss[1] < ss[2]}
<1>1. IsWellFoundedOn(R, Nat)
  BY NatLessThanWellFounded, Zenon DEF OpToRel
<1> HIDE DEF R
<1>2. PICK n \in T : \A m \in T : <<m, n>> \notin R
  BY <1>1, WFMin
<1>3. \A m \in T : ~ (m < n)
  BY <1>2 DEF R
<1> QED
  BY <1>3

LEMMA LeastInteger ==
  ASSUME NEW S \in SUBSET Int, NEW x \in S, NEW low \in Int, \A y \in S : low <= y
  PROVE  Min(S) \in S /\ \A y \in S : Min(S) <= y
<1> DEFINE T == {n \in Nat : low + n \in S}
<1>1. x - low \in T
  BY DEF T
<1>2. PICK n \in T : \A m \in T : n <= m
  <2> HIDE DEF T
  <2>1. T \in SUBSET Nat /\ T # {}
    BY <1>1 DEF T
  <2> QED
    BY <2>1, LeastNumber
<1>3. low + n \in S /\ \A y \in S : low + n <= y
  <2>1. ASSUME NEW y \in S PROVE low + n <= y
    <3>1. y - low \in T
      BY DEF T
    <3> QED
      BY <1>2, <3>1
  <2> QED
    BY <2>1
<1> QED
  BY <1>3 DEF Min

LEMMA GreatestInteger ==
  ASSUME NEW S \in SUBSET Int, NEW x \in S, NEW high \in Int, \A y \in S : y <= high
  PROVE  Max(S) \in S /\ \A y \in S : y <= Max(S)
<1> DEFINE T == {n \in Nat : high - n \in S}
<1>1. high - x \in T
  BY DEF T
<1>2. PICK n \in T : \A m \in T : n <= m
  <2> HIDE DEF T
  <2>1. T \in SUBSET Nat /\ T # {}
    BY <1>1 DEF T
  <2> QED
    BY <2>1, LeastNumber
<1>3. high - n \in S /\ \A y \in S : y <= high - n
  <2>1. ASSUME NEW y \in S PROVE y <= high - n
    <3>1. high - y \in T
      BY DEF T
    <3> QED
      BY <1>2, <3>1
  <2> QED
    BY <2>1
<1> QED
  BY <1>3 DEF Max

-----------------------------------------------------------------------------
(* Dates.                                                                  *)

(* Where all dates are 24 hours long, a date begins as many times 24 hours *)
(* after another as there are dates between: what refresh_week takes for   *)
(* granted of every screen.                                                *)
LEMMA DatesInARow ==
  ASSUME NEW first \in Date, NEW d \in Date, first <= d,
         \A x \in first .. d - 1 : Ordinary(x)
  PROVE  Begins[d] = Begins[first] + (d - first) * DayLength
<1> DEFINE Wrong == {n \in Nat : first + n <= d /\ Begins[first + n] # Begins[first] + n * DayLength}
<1>1. first \in Int /\ d \in Int /\ DayLength \in Int /\ first .. d \subseteq Date
  BY DateAssumption, HourAssumption
<1>2. Wrong = {}
  <2> SUFFICES ASSUME Wrong # {} PROVE FALSE
    OBVIOUS
  <2>1. PICK n \in Wrong : \A m \in Wrong : n <= m
    <3> HIDE DEF Wrong
    <3>1. Wrong \in SUBSET Nat
      BY DEF Wrong
    <3> QED
      BY <3>1, LeastNumber
  <2>2. Begins[first] \in Int
    BY DateAssumption
  <2>3. n # 0
    BY <2>1, <2>2, <1>1
  <2>4. n \in Nat /\ n - 1 \in Nat /\ n - 1 \notin Wrong
    BY <2>1, <2>3
  <2>5. Begins[first + (n - 1)] = Begins[first] + (n - 1) * DayLength
    BY <2>1, <2>4, <1>1
  <2>6. first + (n - 1) \in first .. d - 1 /\ first + n \in Date
    BY <2>1, <2>4, <1>1
  <2>7. Begins[first + n] = Begins[first + (n - 1)] + DayLength
    <3>1. Ordinary(first + (n - 1)) /\ (first + (n - 1)) + 1 = first + n
      BY <2>6, <2>4, <1>1
    <3> QED
      BY <3>1, <2>6 DEF Ordinary, DateEnd, next_midnight
  <2>8. (n - 1) * DayLength + DayLength = n * DayLength
    BY <2>4, <1>1
  <2>9. (n - 1) * DayLength \in Int
    BY <2>4, <1>1
  <2> QED
    BY <2>1, <2>2, <2>5, <2>7, <2>8, <2>9, <1>1
<1>3. d - first \in Nat /\ first + (d - first) = d
  BY <1>1
<1>4. d - first \notin Wrong
  BY <1>2
<1>5. first + (d - first) <= d
  BY <1>1, <1>3
<1> QED
  BY <1>3, <1>4, <1>5

(* A window of so many times 24 hours reaches the end of each such date.   *)
LEMMA WindowReaches ==
  ASSUME NEW first \in Date, NEW n \in Nat, NEW d \in Shown(first, n), d \in Date,
         \A x \in first .. d : Ordinary(x)
  PROVE  /\ WindowEnd(first, n) \in Int
         /\ Begins[first] <= Begins[d]
         /\ next_midnight(d) <= WindowEnd(first, n)
<1>1. first \in Int /\ d \in Int /\ first <= d /\ DayLength \in Nat
  BY DateAssumption, HourAssumption DEF Shown
<1>2. Begins[d] = Begins[first] + (d - first) * DayLength
  BY <1>1, DatesInARow
<1>3. d - first \in Nat /\ n - 1 - (d - first) \in Nat
  BY <1>1 DEF Shown
<1>4. Begins[first] \in Int
  BY DateAssumption
<1>5. (d - first) * DayLength \in Nat /\ (n - 1 - (d - first)) * DayLength \in Nat /\ n * DayLength \in Nat
  BY <1>1, <1>3
<1>6. n * DayLength = (d - first) * DayLength + DayLength + (n - 1 - (d - first)) * DayLength
  BY <1>1, <1>3
<1> QED
  BY <1>1, <1>2, <1>4, <1>5, <1>6 DEF WindowEnd, next_midnight

-----------------------------------------------------------------------------
(* The grid: segments draws on each date what falls on it.                 *)

(* The instants of an occurrence on a date of 24 hours are an interval,    *)
(* the one that segments cuts out of it.                                   *)
LEMMA InstantsAreThePiece ==
  ASSUME NEW o \in Occurrences, NEW d \in Date, Ordinary(d)
  PROVE  /\ Instants(o, d) # {} <=> HasPiece(o, d)
         /\ HasPiece(o, d) =>
              /\ PieceStart(o, d) \in Int /\ PieceEnd(o, d) \in Int
              /\ PieceStart(o, d) <= PieceEnd(o, d)
              /\ Instants(o, d) = PieceStart(o, d) .. Later(PieceStart(o, d), PieceEnd(o, d) - 1)
<1>1. /\ o.start \in Int /\ o.end \in Int
      /\ Begins[d] \in Int /\ next_midnight(d) \in Int
      /\ Begins[d] < next_midnight(d)
  BY DateAssumption, HourAssumption DEF Occurrences, next_midnight
<1>2. d \notin Startless /\ DateEnd(d) = next_midnight(d)
  BY DEF Ordinary
<1>3. Instants(o, d) = {t \in o.start .. Later(o.start, o.end - 1) :
                          Begins[d] <= t /\ t < next_midnight(d)}
  BY <1>2 DEF Instants
<1> DEFINE b == Begins[d]
           e == next_midnight(d)
<1>4. b \in Int /\ e \in Int /\ b < e
  BY <1>1
<1> HIDE DEF b, e
<1>5. HasPiece(o, d) <=>
        \/ Later(o.start, b) < Earlier(Later(o.start, o.end), e)
        \/ Later(o.start, o.end) = o.start /\ b <= o.start /\ o.start < e
  BY <1>2 DEF HasPiece, PieceStart, PieceEnd, EndOf, b, e
<1>6. PieceStart(o, d) = Later(o.start, b) /\ PieceEnd(o, d) = Earlier(Later(o.start, o.end), e)
  BY DEF PieceStart, PieceEnd, EndOf, b, e
<1>7. HasPiece(o, d) => Later(o.start, b) \in Instants(o, d)
  BY <1>1, <1>3, <1>4, <1>5 DEF Later, Earlier, b, e
<1>8. ASSUME NEW t \in Instants(o, d) PROVE HasPiece(o, d)
  <2>1. t \in Int /\ o.start <= t /\ t <= Later(o.start, o.end - 1) /\ b <= t /\ t < e
    BY <1>1, <1>3, <1>8 DEF Later, b, e
  <2> QED
    BY <2>1, <1>1, <1>4, <1>5 DEF Later, Earlier
<1>9. ASSUME HasPiece(o, d)
      PROVE  /\ PieceStart(o, d) \in Int /\ PieceEnd(o, d) \in Int
             /\ PieceStart(o, d) <= PieceEnd(o, d)
  BY <1>1, <1>4, <1>5, <1>6, <1>9 DEF Later, Earlier
<1>10. ASSUME HasPiece(o, d), NEW t \in Int
       PROVE  t \in Instants(o, d) <=>
                t \in PieceStart(o, d) .. Later(PieceStart(o, d), PieceEnd(o, d) - 1)
  <2>1. t \in Instants(o, d) <=> o.start <= t /\ t <= Later(o.start, o.end - 1) /\ b <= t /\ t < e
    BY <1>1, <1>3, <1>10 DEF Later, b, e
  <2> DEFINE p == PieceStart(o, d)
             q == Later(PieceStart(o, d), PieceEnd(o, d) - 1)
  <2>2. p = Later(o.start, b) /\ q = Later(Later(o.start, b), Earlier(Later(o.start, o.end), e) - 1)
    BY <1>6
  <2> HIDE DEF p, q
  <2>3. CASE Later(o.start, b) < Earlier(Later(o.start, o.end), e)
    <3>1. o.start < o.end /\ Later(o.start, b) < Earlier(o.end, e)
      BY <2>3, <1>1, <1>4 DEF Later, Earlier
    <3>2. Later(Later(o.start, b), Earlier(Later(o.start, o.end), e) - 1) = Earlier(o.end, e) - 1
      BY <3>1, <1>1, <1>4 DEF Later, Earlier
    <3>3. t \in Instants(o, d) <=> Later(o.start, b) <= t /\ t <= Earlier(o.end, e) - 1
      BY <2>1, <3>1, <1>1, <1>4, <1>10 DEF Later, Earlier
    <3>4. Later(o.start, b) \in Int /\ Earlier(o.end, e) - 1 \in Int
      BY <1>1, <1>4 DEF Later, Earlier
    <3>5. p \in Int /\ q \in Int /\ (t \in Instants(o, d) <=> p <= t /\ t <= q)
      BY <2>2, <3>2, <3>3, <3>4
    <3> QED
      BY <3>5, <1>10 DEF p, q
  <2>4. CASE Later(o.start, o.end) = o.start /\ b <= o.start /\ o.start < e
    <3>1. Later(o.start, b) = o.start /\ Later(o.start, Earlier(o.start, e) - 1) = o.start
      BY <2>4, <1>1, <1>4 DEF Later, Earlier
    <3>2. t \in Instants(o, d) <=> t = o.start
      BY <2>1, <2>4, <1>1, <1>4, <1>10 DEF Later
    <3>3. p = o.start /\ q = o.start
      BY <2>2, <2>4, <3>1
    <3>4. t \in p .. q <=> t = o.start
      BY <3>3, <1>1, <1>10
    <3> QED
      BY <3>2, <3>4 DEF p, q
  <2> QED
    BY <2>3, <2>4, <1>5, <1>10
<1>11. Instants(o, d) \subseteq Int
  BY <1>1, <1>3 DEF Later
<1>12. ASSUME HasPiece(o, d)
       PROVE  Instants(o, d) = PieceStart(o, d) .. Later(PieceStart(o, d), PieceEnd(o, d) - 1)
  <2>1. PieceStart(o, d) .. Later(PieceStart(o, d), PieceEnd(o, d) - 1) \subseteq Int
    BY <1>9, <1>12 DEF Later
  <2> QED
    BY <2>1, <1>10, <1>11, <1>12
<1> QED
  BY <1>7, <1>8, <1>9, <1>12

(* The screen's query finds what falls on one of its dates.                *)
LEMMA OnTheScreen ==
  ASSUME TypeOK, NEW first \in Date, NEW n \in Nat, NEW d \in Shown(first, n), d \in Date,
         \A x \in first .. d : Ordinary(x), NEW o \in OnDate(first, d)
  PROVE  o \in items(first, n)
<1>1. o \in Calendar /\ o.end > Begins[first] /\ Instants(o, d) # {}
  BY DEF OnDate, Asked
<1>2. o.start \in Int /\ o.end \in Int /\ Begins[first] \in Int /\ Begins[d] \in Int /\ d \in first .. d
  <2>1. o.start \in Int /\ o.end \in Int
    BY <1>1, Kept DEF Occurrences
  <2> QED
    BY <2>1, DateAssumption DEF Shown
<1>3. PICK t \in Instants(o, d) : TRUE
  BY <1>1
<1>4. o.start < next_midnight(d)
  <2>1. DateEnd(d) = next_midnight(d)
    BY <1>2 DEF Ordinary
  <2>2. t \in Int /\ o.start <= t /\ t < DateEnd(d)
    BY <1>2, <1>3 DEF Instants, Later
  <2>3. next_midnight(d) \in Int
    BY <1>2, HourAssumption DEF next_midnight
  <2> QED
    BY <2>1, <2>2, <2>3, <1>2
<1>5. WindowEnd(first, n) \in Int /\ next_midnight(d) <= WindowEnd(first, n)
  BY WindowReaches
<1>6. next_midnight(d) \in Int
  BY <1>2, HourAssumption DEF next_midnight
<1>7. Overlaps(o, Begins[first], WindowEnd(first, n))
  BY <1>1, <1>2, <1>4, <1>5, <1>6 DEF Overlaps
<1> QED
  BY <1>1, <1>2, <1>5, <1>7, Found DEF items

(* So the columns of a screen hold what the calendar has on their dates,   *)
(* and every piece begins and ends where the occurrence does on that date. *)
LEMMA DrawnOnTheGrid ==
  ASSUME TypeOK, NEW n \in Nat, NEW first \in Screens(n), NEW d \in Shown(first, n),
         \A x \in first .. d : Ordinary(x)
  PROVE  /\ d \in Date
         /\ Placed(first, n, d) \cap Calendar = OnDate(first, d)
         /\ \A o \in OnDate(first, d) :
              /\ Begins[d] + Top(o, d) = Min(Instants(o, d))
              /\ Bottom(o, d) - Top(o, d) = Later(Cardinality(Instants(o, d)), MinHeight)
<1>1. first \in Date /\ first + n - 1 \in Date /\ d \in first .. (first + n - 1)
  BY DEF Screens, Shown
<1>2. d \in Date /\ first \in Int /\ d \in Int /\ d \in first .. d
  BY <1>1, DateAssumption
<1>3. Ordinary(d)
  BY <1>2
<1>4. ASSUME NEW o \in Placed(first, n, d) \cap Calendar PROVE o \in OnDate(first, d)
  <2>1. o \in items(first, n) /\ HasPiece(o, d)
    BY <1>4 DEF Placed
  <2>2. o \in Occurrences /\ Overlaps(o, Begins[first], WindowEnd(first, n))
    BY <2>1, Answers DEF items
  <2>3. Instants(o, d) # {}
    BY <2>1, <2>2, <1>2, <1>3, InstantsAreThePiece
  <2> QED
    BY <2>2, <2>3, <1>4 DEF OnDate, Asked, Overlaps
<1>5. ASSUME NEW o \in OnDate(first, d)
      PROVE  o \in Occurrences /\ HasPiece(o, d) /\ o \in Placed(first, n, d) \cap Calendar
  <2>1. o \in items(first, n)
    BY <1>1, <1>2, OnTheScreen
  <2>2. o \in Calendar /\ Instants(o, d) # {}
    BY <1>5 DEF OnDate
  <2>3. o \in Occurrences
    BY <2>2, Kept
  <2>4. HasPiece(o, d)
    BY <2>2, <2>3, <1>2, <1>3, InstantsAreThePiece
  <2> QED
    BY <2>1, <2>2, <2>3, <2>4 DEF Placed
<1>6. ASSUME NEW o \in OnDate(first, d)
      PROVE  /\ Begins[d] + Top(o, d) = Min(Instants(o, d))
             /\ Bottom(o, d) - Top(o, d) = Later(Cardinality(Instants(o, d)), MinHeight)
  <2> DEFINE low == PieceStart(o, d)
             end == PieceEnd(o, d)
             high == Later(low, end - 1)
  <2>1. low \in Int /\ end \in Int /\ low <= end /\ Instants(o, d) = low .. high
    BY <1>2, <1>3, <1>5, <1>6, InstantsAreThePiece
  <2>2. Begins[d] \in Int /\ MinHeight \in Nat \ {0}
    BY <1>2, DateAssumption, HourAssumption
  <2> HIDE DEF low, end
  <2>3. high \in Int /\ low <= high
    BY <2>1 DEF Later
  <2>4. Min(low .. high) = low
    <3>1. low \in low .. high /\ \A y \in low .. high : low <= y
      BY <2>1, <2>3
    <3>2. low .. high \subseteq Int
      BY <2>1, <2>3
    <3>3. Min(low .. high) \in low .. high /\ \A y \in low .. high : Min(low .. high) <= y
      BY <2>1, <3>1, <3>2, LeastInteger
    <3> QED
      BY <3>1, <3>3, <2>1
  <2>5. Cardinality(low .. high) = high - low + 1
    BY <2>1, <2>3, FS_Interval
  <2>6. Top(o, d) = low - Begins[d] /\ Bottom(o, d) = Top(o, d) + Later(end - low, MinHeight)
    BY DEF Top, Bottom, low, end
  <2>7. Later(end - low, MinHeight) = Later(high - low + 1, MinHeight)
    BY <2>1, <2>2 DEF Later
  <2>8. Later(high - low + 1, MinHeight) \in Int /\ Top(o, d) \in Int
    BY <2>1, <2>2, <2>3, <2>6 DEF Later
  <2> QED
    BY <2>1, <2>2, <2>4, <2>5, <2>6, <2>7, <2>8
<1> QED
  BY <1>2, <1>4, <1>5, <1>6

-----------------------------------------------------------------------------
(* The agenda: every event under the date it begins on.                    *)

(* An occurrence that was moved is in one of the slots.                    *)
MovedToSlots ==
  \A k \in exceptions :
    \/ row[k].cancelled
    \/ \E s \in Slot : row[k].start = s.start /\ row[k].end = s.end

LEMMA MovesAreToSlots == Spec => []MovedToSlots
<1>1. Init => MovedToSlots
  BY DEF Init, MovedToSlots
<1>2. TypeOK /\ MovedToSlots /\ [Next]_vars => MovedToSlots'
  <2> SUFFICES ASSUME TypeOK, MovedToSlots, [Next]_vars PROVE MovedToSlots'
    OBVIOUS
  <2> USE DEF MovedToSlots
  <2>1. row \in [Occurrence -> Row] /\ exceptions \subseteq Occurrence
    BY DEF TypeOK
  <2>2. ASSUME NEW k \in Occurrence, NEW s \in Slot, Move(k, s) PROVE MovedToSlots'
    BY <2>1, <2>2 DEF Move, Moved
  <2>3. ASSUME NEW k \in Occurrence, Cancel(k) PROVE MovedToSlots'
    BY <2>1, <2>3 DEF Cancel, Tombstone
  <2>4. ASSUME NEW s \in Single, Add(s) \/ Delete(s) PROVE MovedToSlots'
    BY <2>4 DEF Add, Delete
  <2>5. CASE UNCHANGED vars
    BY <2>5 DEF vars
  <2> QED
    BY <2>2, <2>3, <2>4, <2>5 DEF Next
<1> QED
  BY <1>1, <1>2, WindowTypeCorrect, PTL DEF Spec

(* A date is over when a later one begins.                                 *)
LEMMA DatesDoNotOverlap ==
  ASSUME NEW d \in Date, NEW e \in Date, d < e
  PROVE  DateEnd(d) \in Int /\ DateEnd(d) <= Begins[e]
<1>1. d + 1 \in Date
  <2>1. d \in Int /\ e \in Int /\ d .. e \subseteq Date
    BY DateAssumption
  <2> QED
    BY <2>1
<1>2. DateEnd(d) = Begins[d + 1] /\ Begins[d + 1] \in Int /\ Begins[e] \in Int
  BY <1>1, DateAssumption DEF DateEnd
<1>3. d + 1 = e \/ d + 1 < e
  BY DateAssumption
<1>4. d + 1 < e => Begins[d + 1] < Begins[e]
  BY <1>1, DateAssumption
<1> QED
  BY <1>2, <1>3, <1>4

LEMMA BeginsOnADate ==
  ASSUME TypeOK, MovedToSlots, NEW o \in Calendar
  PROVE  /\ day_of(o) \in Date
         /\ Begins[day_of(o)] <= o.start /\ o.start < DateEnd(day_of(o))
<1>1. \E s \in Slot \cup Single \cup {RuleSlot(k) : k \in Occurrence} : o.start = s.start
  <2> USE DEF Drawn
  <2>1. ASSUME NEW k \in Occurrence \ exceptions, o = Drawn(k, RuleSlot(k)) PROVE <1>1!:
    BY <2>1
  <2>2. ASSUME NEW k \in exceptions, ~ row[k].cancelled, o = Drawn(k, row[k]) PROVE <1>1!:
    BY <2>2 DEF MovedToSlots
  <2>3. ASSUME NEW s \in singles, o = Drawn(-1, s) PROVE <1>1!:
    BY <2>3 DEF TypeOK
  <2> QED
    BY <2>1, <2>2, <2>3 DEF Calendar
<1>2. \E d \in Date : Begins[d] <= o.start /\ o.start < DateEnd(d)
  BY <1>1, EveryInstantHasADate
<1> QED
  BY <1>2 DEF day_of

LEMMA ListedInTheAgenda ==
  ASSUME TypeOK, MovedToSlots, NEW first \in Date,
         \A x \in Shown(first, AgendaDays) : x \in Date /\ Ordinary(x),
         NEW e \in Shown(first, AgendaDays), NEW o \in OnDate(first, e)
  PROVE  {d \in DOMAIN group(first) : o \in group(first)[d]}
           = {Min({d \in {x \in Date : x < first + AgendaDays} : Instants(o, d) # {}})}
<1> DEFINE held == {d \in {x \in Date : x < first + AgendaDays} : Instants(o, d) # {}}
           listed == items(first, AgendaDays)
<1>1. AgendaDays \in Nat /\ first \in Int /\ Date \subseteq Int /\ e \in Date /\ e \in Int
  BY SpansAssumption, DateAssumption DEF Shown
<1>2. \A x \in first .. e : x \in Shown(first, AgendaDays)
  BY <1>1 DEF Shown
<1>3. o \in listed
  BY <1>1, <1>2, OnTheScreen
<1>4. o \in Calendar /\ Instants(o, e) # {}
  BY DEF OnDate
<1>5. o \in Occurrences
  BY <1>4, Kept
<1>6. o.start \in Int /\ o.end \in Int
  BY <1>5 DEF Occurrences
<1> DEFINE day == day_of(o)
<1>7. day \in Date /\ day \in Int /\ Begins[day] <= o.start /\ o.start < DateEnd(day)
  BY <1>1, <1>4, BeginsOnADate
<1> HIDE DEF day
<1>8. o.start \in Instants(o, day)
  <2>1. o.start \in o.start .. Later(o.start, o.end - 1)
    BY <1>6 DEF Later
  <2> QED
    BY <2>1, <1>7 DEF Instants
<1>9. ASSUME NEW d \in Date, Instants(o, d) # {} PROVE day <= d
  <2> SUFFICES ASSUME d < day PROVE FALSE
    BY <1>1, <1>7
  <2>1. DateEnd(d) \in Int /\ DateEnd(d) <= Begins[day]
    BY <1>7, DatesDoNotOverlap
  <2>2. PICK t \in Instants(o, d) : TRUE
    BY <1>9
  <2>3. t \in Int /\ o.start <= t /\ t < DateEnd(d)
    BY <2>2, <1>6 DEF Instants, Later
  <2>4. Begins[day] \in Int
    BY <1>7, DateAssumption
  <2> QED
    BY <2>1, <2>3, <2>4, <1>6, <1>7
<1>10. day \in held
  <2>1. day <= e /\ e < first + AgendaDays
    BY <1>1, <1>4, <1>9 DEF Shown
  <2> QED
    BY <2>1, <1>1, <1>7, <1>8
<1>11. \A d \in held : day <= d
  BY <1>9
<1>12. Min(held) = day
  <2>1. held \subseteq Int
    BY <1>1
  <2> HIDE DEF held
  <2>2. Min(held) \in held /\ \A y \in held : Min(held) <= y
    BY <2>1, <1>7, <1>10, <1>11, LeastInteger
  <2>3. Min(held) \in Int /\ Min(held) <= day /\ day <= Min(held)
    BY <2>1, <2>2, <1>10, <1>11
  <2> HIDE DEF held
  <2> QED
    BY <2>3, <1>7
<1>13. day \in {day_of(p) : p \in listed}
  BY <1>3 DEF day
<1>14. DOMAIN group(first) = {day_of(p) : p \in listed}
  BY DEF group
<1>15. \A d \in DOMAIN group(first) : group(first)[d] = {p \in listed : day_of(p) = d}
  BY DEF group
<1>16. \A d \in DOMAIN group(first) : o \in group(first)[d] <=> d = day
  BY <1>3, <1>15 DEF day
<1>17. {d \in DOMAIN group(first) : o \in group(first)[d]} = {day}
  BY <1>13, <1>14, <1>16
<1> QED
  BY <1>12, <1>17

-----------------------------------------------------------------------------
(* The month: the chips of a cell are the first of what it holds.          *)

(* What the cell sorts by is a strict order, and tells any two apart.      *)
LEMMA EarliestIsAnOrder ==
  /\ \A o \in Occurrences : ~ Earliest(o, o)
  /\ \A o, p \in Occurrences : o = p \/ Earliest(o, p) \/ Earliest(p, o)
  /\ \A o, p, q \in Occurrences : Earliest(o, p) /\ Earliest(p, q) => Earliest(o, q)
  /\ \A o, p \in Occurrences : Earliest(o, p) => BeforeOrWith(o, p)
<1>1. \A o, p \in Occurrences : o = p \/ Earliest(o, p) \/ Earliest(p, o)
  BY DEF Earliest, Occurrences
<1>2. \A o \in Occurrences : ~ Earliest(o, o)
  BY DEF Earliest, Occurrences
<1>3. \A o, p, q \in Occurrences : Earliest(o, p) /\ Earliest(p, q) => Earliest(o, q)
  BY DEF Earliest, Occurrences
<1>4. \A o, p \in Occurrences : Earliest(o, p) => BeforeOrWith(o, p)
  BY DEF Earliest, BeforeOrWith, Occurrences
<1> QED
  BY <1>1, <1>2, <1>3, <1>4

(* So many as there are asked for have fewer before them than that.        *)
LEMMA AsManyAsAskedFor ==
  ASSUME NEW S \in SUBSET Occurrences, IsFiniteSet(S), NEW k \in 0 .. Cardinality(S)
  PROVE  LET first == {o \in S : Cardinality({p \in S : Earliest(p, o)}) < k}
         IN  /\ Cardinality(first) = k
             /\ \A o \in first, p \in S \ first : BeforeOrWith(o, p)
<1> DEFINE Above(o) == {p \in S : Earliest(p, o)}
           rank == [o \in S |-> Cardinality(Above(o))]
           n == Cardinality(S)
           first == {o \in S : Cardinality(Above(o)) < k}
<1>1. n \in Nat /\ k \in Nat /\ k <= n
  BY FS_CardinalityType
<1>2. \A o \in S : IsFiniteSet(Above(o)) /\ Cardinality(Above(o)) \in Nat
  BY FS_Subset, FS_CardinalityType
<1>3. ASSUME NEW o \in S, NEW p \in S, Earliest(o, p)
      PROVE  Cardinality(Above(o)) < Cardinality(Above(p))
  <2>1. Above(o) \cup {o} \in SUBSET Above(p)
    BY <1>3, EarliestIsAnOrder
  <2>2. o \notin Above(o)
    BY EarliestIsAnOrder
  <2>3. Cardinality(Above(o) \cup {o}) = Cardinality(Above(o)) + 1
    BY <1>2, <2>2, FS_AddElement
  <2>4. Cardinality(Above(o) \cup {o}) <= Cardinality(Above(p))
    BY <1>2, <2>1, FS_Subset
  <2>5. Cardinality(Above(o)) \in Nat /\ Cardinality(Above(p)) \in Nat
    BY <1>2
  <2> HIDE DEF Above
  <2> QED
    BY <2>3, <2>4, <2>5
<1>4. \A o \in S : Cardinality(Above(o)) \in 0 .. n - 1
  <2> SUFFICES ASSUME NEW o \in S PROVE Cardinality(Above(o)) \in 0 .. n - 1
    OBVIOUS
  <2>1. Above(o) \in SUBSET (S \ {o})
    BY EarliestIsAnOrder
  <2>2. IsFiniteSet(S \ {o}) /\ Cardinality(S \ {o}) = n - 1
    BY FS_RemoveElement
  <2>3. Cardinality(Above(o)) <= Cardinality(S \ {o})
    BY <2>1, <2>2, FS_Subset
  <2> QED
    BY <2>2, <2>3, <1>1, <1>2
<1>5. \A o, p \in S : Cardinality(Above(o)) = Cardinality(Above(p)) => o = p
  <2> SUFFICES ASSUME NEW o \in S, NEW p \in S, Cardinality(Above(o)) = Cardinality(Above(p)), o # p
               PROVE  FALSE
    OBVIOUS
  <2>1. Earliest(o, p) \/ Earliest(p, o)
    BY EarliestIsAnOrder
  <2> QED
    BY <2>1, <1>2, <1>3
<1>6. rank \in Surjection(S, 0 .. n - 1)
  <2>1. rank \in [S -> 0 .. n - 1]
    BY <1>4
  <2>2. rank \in Injection(S, 0 .. n - 1)
    BY <2>1, <1>5, Fun_IsInj
  <2>3. IsFiniteSet(0 .. n - 1) /\ Cardinality(0 .. n - 1) = n
    <3> HIDE DEF n
    <3>1. n - 1 \in Int /\ (0 > n - 1 => n = 0)
      BY <1>1
    <3>2. /\ IsFiniteSet(0 .. n - 1)
          /\ Cardinality(0 .. n - 1) = IF 0 > n - 1 THEN 0 ELSE (n - 1) - 0 + 1
      BY <3>1, FS_Interval
    <3> QED
      BY <3>1, <3>2, <1>1
  <2> HIDE DEF rank
  <2> QED
    BY <2>2, <2>3, FS_Injection
<1>7. Cardinality(first) = k
  <2> DEFINE f == [o \in first |-> rank[o]]
  <2>1. f \in [first -> 0 .. k - 1]
    BY <1>1, <1>4
  <2>2. \A o, p \in first : f[o] = f[p] => o = p
    BY <1>5
  <2>3. \A t \in 0 .. k - 1 : \E o \in first : f[o] = t
    <3> SUFFICES ASSUME NEW t \in 0 .. k - 1 PROVE \E o \in first : f[o] = t
      OBVIOUS
    <3>1. t \in 0 .. n - 1
      BY <1>1
    <3>2. PICK o \in S : rank[o] = t
      BY <1>6, <3>1 DEF Surjection
    <3>3. o \in first
      BY <3>2, <1>1
    <3> QED
      BY <3>2, <3>3
  <2>4. first \in SUBSET S
    OBVIOUS
  <2> HIDE DEF first, f
  <2>5. f \in Bijection(first, 0 .. k - 1)
    BY <2>1, <2>2, <2>3, Fun_IsBij
  <2>6. IsFiniteSet(first)
    BY <2>4, FS_Subset
  <2>7. Cardinality(0 .. k - 1) = Cardinality(first)
    BY <2>5, <2>6, FS_Bijection DEF ExistsBijection
  <2> QED
    BY <2>7, <1>1, FS_Interval
<1>8. ASSUME NEW o \in first, NEW p \in S \ first PROVE BeforeOrWith(o, p)
  <2>1. ~ Earliest(p, o)
    <3>1. o \in S /\ p \in S /\ Cardinality(Above(o)) < k /\ ~ (Cardinality(Above(p)) < k)
      BY <1>8
    <3>2. Cardinality(Above(o)) \in Nat /\ Cardinality(Above(p)) \in Nat
      BY <3>1, <1>2
    <3> HIDE DEF Above
    <3>3. ~ (Cardinality(Above(p)) < Cardinality(Above(o)))
      BY <3>1, <3>2, <1>1
    <3> QED
      BY <3>1, <3>3, <1>3
  <2>2. o \in Occurrences /\ p \in Occurrences
    BY <1>8
  <2> HIDE DEF first
  <2>3. o = p \/ Earliest(o, p)
    BY <2>1, <2>2, EarliestIsAnOrder
  <2>4. o = p => BeforeOrWith(o, p)
    BY <2>2 DEF BeforeOrWith, Occurrences
  <2> QED
    BY <2>2, <2>3, <2>4, EarliestIsAnOrder
<1> QED
  BY <1>7, <1>8

(* A cell of the month shows or counts all it holds.                       *)
LEMMA ChippedOrCounted ==
  ASSUME TypeOK, NEW first \in Date, NEW d \in Date, NEW room \in Rooms
  PROVE  LET drawn == replace_chips(first, d, room)
         IN  /\ drawn.chips \subseteq cells(first, d)
             /\ drawn.more = Cardinality(cells(first, d) \ drawn.chips)
             /\ \A o \in drawn.chips, p \in cells(first, d) \ drawn.chips : BeforeOrWith(o, p)
<1> DEFINE S == cells(first, d)
           n == Cardinality(S)
           fit == visible_and_overflow(n, room)
           shown == {o \in S : Cardinality({p \in S : Earliest(p, o)}) < fit.shown}
<1>1. IsFiniteSet(items(first, Cells))
  BY FiniteAnswers DEF items
<1>2. S \in SUBSET items(first, Cells)
  BY DEF cells, Placed
<1>3. IsFiniteSet(S)
  BY <1>1, <1>2, FS_Subset
<1>4. S \in SUBSET Occurrences
  BY <1>2, Answers DEF items
<1>5. n \in Nat /\ room \in Nat \ {0}
  BY <1>3, FS_CardinalityType, SpansAssumption
<1>6. fit.shown \in 0 .. n /\ fit.hidden = n - fit.shown
  BY <1>5 DEF visible_and_overflow
<1>7. replace_chips(first, d, room) = [chips |-> shown, more |-> fit.hidden]
  BY DEF replace_chips
<1> DEFINE k == fit.shown
<1> HIDE DEF S, fit, k
<1>8. Cardinality(shown) = fit.shown /\ \A o \in shown, p \in S \ shown : BeforeOrWith(o, p)
  BY <1>3, <1>4, <1>6, AsManyAsAskedFor
<1>9. Cardinality(S \ shown) = n - fit.shown
  <2>1. S \cap shown = shown
    OBVIOUS
  <2> HIDE DEF shown
  <2>2. Cardinality(S \ shown) = Cardinality(S) - Cardinality(S \cap shown)
    BY <1>3, FS_Difference
  <2> QED
    BY <1>8, <2>1, <2>2
<1> QED
  BY <1>6, <1>7, <1>8, <1>9 DEF S

-----------------------------------------------------------------------------

(* What the calendar has is drawn on its dates from its minute to its      *)
(* minute and nowhere else, in the month as a chip or in the count, and in *)
(* the agenda once, for any dates, series and screens, up to the first     *)
(* date that is not as long as segments takes it to be (segments, cells,   *)
(* group).                                                                 *)
THEOREM DrawnWhereItIs == Spec => []DrawnOnItsDay
<1>1. TypeOK => OnTheGrid
  <2> SUFFICES ASSUME TypeOK PROVE OnTheGrid
    OBVIOUS
  <2>1. Spans \subseteq Nat
    BY SpansAssumption
  <2> QED
    BY <2>1, DrawnOnTheGrid DEF OnTheGrid
<1>2. TypeOK => InTheMonth
  <2> SUFFICES ASSUME TypeOK,
                      NEW first \in Screens(Cells), NEW d \in Shown(first, Cells),
                      \A x \in first .. d : Ordinary(x),
                      cells(first, d) \subseteq Calendar, NEW room \in Rooms
               PROVE  LET drawn == replace_chips(first, d, room)
                      IN  /\ drawn.chips \subseteq OnDate(first, d)
                          /\ drawn.more = Cardinality(OnDate(first, d) \ drawn.chips)
                          /\ \A o \in drawn.chips, p \in OnDate(first, d) \ drawn.chips :
                               BeforeOrWith(o, p)
    BY DEF InTheMonth
  <2>1. Cells \in Nat /\ first \in Date
    BY SpansAssumption DEF Screens
  <2>2. d \in Date /\ Placed(first, Cells, d) \cap Calendar = OnDate(first, d)
    BY <2>1, DrawnOnTheGrid
  <2>3. cells(first, d) = OnDate(first, d)
    BY <2>2 DEF cells
  <2> QED
    BY <2>1, <2>2, <2>3, ChippedOrCounted
<1>3. TypeOK /\ MovedToSlots => InTheAgenda
  <2> SUFFICES ASSUME TypeOK, MovedToSlots, NEW first \in Date \ Startless,
                      \A x \in Shown(first, AgendaDays) : x \in Date /\ Ordinary(x),
                      NEW o \in UNION {OnDate(first, d) : d \in Shown(first, AgendaDays)}
               PROVE  {d \in DOMAIN group(first) : o \in group(first)[d]}
                        = {Min({d \in {x \in Date : x < first + AgendaDays} : Instants(o, d) # {}})}
    BY Zenon DEF InTheAgenda
  <2>1. PICK e \in Shown(first, AgendaDays) : o \in OnDate(first, e)
    OBVIOUS
  <2> QED
    BY <2>1, ListedInTheAgenda
<1> QED
  BY <1>1, <1>2, <1>3, WindowTypeCorrect, MovesAreToSlots, PTL DEF DrawnOnItsDay

-----------------------------------------------------------------------------
(* columns: what its loop keeps.                                           *)

(* The pieces of a date.                                                   *)
Pieces(s, d) == s \subseteq Occurrences /\ IsFiniteSet(s) /\ \A o \in s : HasPiece(o, d)

LEMMA PiecesHaveHeight ==
  ASSUME NEW d \in Date, NEW o \in Occurrences, HasPiece(o, d)
  PROVE  /\ Top(o, d) \in 0 .. DayLength - 1
         /\ Bottom(o, d) \in Nat
         /\ Top(o, d) < Bottom(o, d)
<1> DEFINE b == Begins[d]
<1>1. o.start \in Int /\ o.end \in Int /\ b \in Int /\ DayLength \in Nat \ {0} /\ MinHeight \in Nat \ {0}
  BY DateAssumption, HourAssumption DEF Occurrences
<1>2. \/ Later(o.start, b) < Earlier(Later(o.start, o.end), b + DayLength)
      \/ Later(o.start, o.end) = o.start /\ b <= o.start /\ o.start < b + DayLength
  BY DEF HasPiece, PieceStart, PieceEnd, EndOf, next_midnight
<1>3. Top(o, d) = Later(o.start, b) - b
  BY DEF Top, PieceStart
<1>4. Bottom(o, d) = Top(o, d) + Later(PieceEnd(o, d) - PieceStart(o, d), MinHeight)
  BY DEF Bottom
<1> HIDE DEF b
<1>5. Top(o, d) \in Int /\ 0 <= Top(o, d) /\ Top(o, d) < DayLength
  BY <1>1, <1>2, <1>3 DEF Later, Earlier
<1>6. PieceEnd(o, d) - PieceStart(o, d) \in Int
  BY <1>1 DEF PieceEnd, PieceStart, EndOf, Later, Earlier, next_midnight, b
<1>7. Later(PieceEnd(o, d) - PieceStart(o, d), MinHeight) \in Nat \ {0}
  BY <1>1, <1>6 DEF Later
<1> QED
  BY <1>1, <1>4, <1>5, <1>7

LEMMA TheLastIsTaken ==
  ASSUME NEW d \in Date, NEW t, Pieces(t, d), t # {}
  PROVE  TakenLast(t, d) \in t /\ \A p \in t : Top(p, d) <= Top(TakenLast(t, d), d)
<1> DEFINE tops == {Top(p, d) : p \in t}
<1>1. \A p \in t : Top(p, d) \in 0 .. DayLength - 1
  BY PiecesHaveHeight DEF Pieces
<1>2. tops \in SUBSET Int /\ DayLength \in Int /\ \A y \in tops : y <= DayLength
  BY <1>1, HourAssumption
<1>3. PICK x \in tops : TRUE
  OBVIOUS
<1> HIDE DEF tops
<1>4. Max(tops) \in tops /\ \A y \in tops : y <= Max(tops)
  BY <1>2, <1>3, GreatestInteger
<1>5. \E o \in t : \A p \in t : Top(p, d) <= Top(o, d)
  BY <1>4 DEF tops
<1> QED
  BY <1>5 DEF TakenLast

(* The loop does what it says: there is such a function, turn by turn.     *)
LEMMA TheLoopTurns ==
  ASSUME NEW d \in Date, NEW s, Pieces(s, d), NEW t \in SUBSET s
  PROVE  seated(s, d)[t] = IF t = {} THEN Nothing
                           ELSE Take(TakenLast(t, d), d, seated(s, d)[t \ {TakenLast(t, d)}])
<1> DEFINE Small(n) == {u \in SUBSET s : Cardinality(u) <= n}
           Turn(g, u) == IF u = {} THEN Nothing
                         ELSE Take(TakenLast(u, d), d, g[u \ {TakenLast(u, d)}])
           Stuck == {n \in Nat : ~ \E g : g = [u \in Small(n) |-> Turn(g, u)]}
<1>1. \A u \in SUBSET s : IsFiniteSet(u) /\ Cardinality(u) \in Nat /\ Pieces(u, d)
  <2> SUFFICES ASSUME NEW u \in SUBSET s
               PROVE  IsFiniteSet(u) /\ Cardinality(u) \in Nat /\ Pieces(u, d)
    OBVIOUS
  <2>1. IsFiniteSet(u)
    BY FS_Subset DEF Pieces
  <2> QED
    BY <2>1, FS_CardinalityType DEF Pieces
<1>2. ASSUME NEW u \in SUBSET s, u # {}
      PROVE  /\ u \ {TakenLast(u, d)} \in SUBSET s
             /\ Cardinality(u \ {TakenLast(u, d)}) = Cardinality(u) - 1
  <2>1. TakenLast(u, d) \in u
    BY <1>1, <1>2, TheLastIsTaken
  <2> QED
    BY <2>1, <1>1, FS_RemoveElement
<1>3. Stuck = {}
  <2> SUFFICES ASSUME Stuck # {} PROVE FALSE
    OBVIOUS
  <2>1. PICK n \in Stuck : \A m \in Stuck : n <= m
    <3> HIDE DEF Stuck
    <3>1. Stuck \in SUBSET Nat
      BY DEF Stuck
    <3> QED
      BY <3>1, LeastNumber
  <2>2. CASE n = 0
    <3>1. \A u \in Small(0) : u = {}
      <4> SUFFICES ASSUME NEW u \in SUBSET s, Cardinality(u) <= 0 PROVE u = {}
        OBVIOUS
      <4>1. Cardinality(u) = 0
        BY <1>1
      <4> QED
        BY <4>1, <1>1, FS_EmptySet
    <3> DEFINE g == [u \in Small(0) |-> Nothing]
    <3>2. g = [u \in Small(0) |-> Turn(g, u)]
      BY <3>1
    <3> QED
      BY <2>1, <2>2, <3>2
  <2>3. CASE n # 0
    <3>1. n \in Nat /\ n - 1 \in Nat /\ n - 1 \notin Stuck
      <4>1. n \in Nat
        BY <2>1
      <4> HIDE DEF Stuck
      <4> QED
        BY <4>1, <2>1, <2>3
    <3>2. PICK h : h = [u \in Small(n - 1) |-> Turn(h, u)]
      BY <3>1
    <3> DEFINE g == [u \in Small(n) |-> IF u \in Small(n - 1) THEN h[u] ELSE Turn(h, u)]
    <3>3. \A u \in Small(n) : u # {} => u \ {TakenLast(u, d)} \in Small(n - 1) \cap Small(n)
      <4> SUFFICES ASSUME NEW u \in SUBSET s, Cardinality(u) <= n, u # {}
                   PROVE  u \ {TakenLast(u, d)} \in Small(n - 1) \cap Small(n)
        OBVIOUS
      <4>1. Cardinality(u) \in Nat
        BY <1>1
      <4> QED
        BY <4>1, <1>2, <3>1
    <3>4. \A u \in Small(n) : g[u] = Turn(h, u)
      BY <3>2
    <3>5. \A u \in Small(n) : Turn(h, u) = Turn(g, u)
      BY <3>3
    <3>6. g = [u \in Small(n) |-> Turn(g, u)]
      BY <3>4, <3>5
    <3> QED
      BY <2>1, <3>6
  <2> QED
    BY <2>2, <2>3
<1>4. Small(Cardinality(s)) = SUBSET s
  <2>1. \A u \in SUBSET s : Cardinality(u) <= Cardinality(s)
    BY FS_Subset DEF Pieces
  <2> QED
    BY <2>1
<1>5. \E g : g = [u \in SUBSET s |-> Turn(g, u)]
  <2>1. Cardinality(s) \in Nat /\ Cardinality(s) \notin Stuck
    BY <1>1, <1>3
  <2> QED
    BY <2>1, <1>4
<1>6. seated(s, d) = [u \in SUBSET s |-> Turn(seated(s, d), u)]
  BY <1>5, Zenon DEF seated
<1> QED
  BY <1>6

(* What the loop has made of the pieces t: their seats, and where the      *)
(* cluster it is in and the columns of that end.                           *)
SeatTypes(t, so) ==
  /\ so = [cluster |-> so.cluster, until |-> so.until, ends |-> so.ends, at |-> so.at]
  /\ so.cluster \in Nat /\ so.until \in Nat /\ so.ends \in Seq(Nat)
  /\ so.at \in [t -> [cluster : Nat, column : Nat]]
  /\ \A p \in t : so.at[p].cluster \in 1 .. so.cluster /\ so.at[p].column # 0

(* No more columns than pieces.                                            *)
Few(t, so) ==
  /\ Len(so.ends) <= Cardinality(t)
  /\ \A p \in t : so.at[p].column <= Cardinality(t)

(* The cluster and its columns end no earlier than their members, and each *)
(* column ends with one of them.                                           *)
EndsAreKept(t, so, d) ==
  /\ \A p \in t : so.at[p].cluster = so.cluster =>
       /\ Bottom(p, d) <= so.until
       /\ so.at[p].column <= Len(so.ends)
       /\ Bottom(p, d) <= so.ends[so.at[p].column]
  /\ \A c \in 1 .. Len(so.ends) : \E p \in t :
       so.at[p] = [cluster |-> so.cluster, column |-> c] /\ Bottom(p, d) = so.ends[c]

(* A later cluster begins when the earlier ones are over, and the pieces   *)
(* of one column follow each other.                                        *)
SeatsApart(t, so, d) ==
  \A p, q \in t :
    /\ so.at[p].cluster < so.at[q].cluster => Bottom(p, d) <= Top(q, d)
    /\ p # q /\ so.at[p] = so.at[q] => Bottom(p, d) <= Top(q, d) \/ Bottom(q, d) <= Top(p, d)

(* All columns to the left of a piece are taken where it begins.           *)
SeatsNeeded(t, so, d) ==
  \A p \in t : \A c \in 1 .. so.at[p].column - 1 : \E q \in t :
    /\ so.at[q] = [cluster |-> so.at[p].cluster, column |-> c]
    /\ Top(q, d) <= Top(p, d) /\ Top(p, d) < Bottom(q, d)

Seating(t, so, d) ==
  /\ SeatTypes(t, so) /\ Few(t, so)
  /\ EndsAreKept(t, so, d) /\ SeatsApart(t, so, d) /\ SeatsNeeded(t, so, d)

(* The leftmost column that is free, all before it being taken.            *)
LEMMA ColumnIsFree ==
  ASSUME NEW ends \in Seq(Nat), NEW top \in Nat
  PROVE  /\ FreeColumn(ends, top) \in 1 .. Len(ends) + 1
         /\ FreeColumn(ends, top) <= Len(ends) => ends[FreeColumn(ends, top)] <= top
         /\ \A c \in 1 .. FreeColumn(ends, top) - 1 : c <= Len(ends) /\ top < ends[c]
<1> DEFINE free == {c \in 1 .. Len(ends) + 1 : c > Len(ends) \/ ends[c] <= top}
           n == Len(ends)
<1>1. n \in Nat /\ \A c \in 1 .. n : ends[c] \in Nat
  OBVIOUS
<1>2. n + 1 \in free /\ free \subseteq Int /\ \A c \in free : 1 <= c
  BY <1>1
<1>3. FreeColumn(ends, top) = Min(free)
  BY DEF FreeColumn
<1>4. Min(free) \in free /\ \A c \in free : Min(free) <= c
  <2> HIDE DEF free
  <2> QED
    BY <1>2, LeastInteger
<1> DEFINE column == FreeColumn(ends, top)
<1>5. column \in free /\ \A c \in free : column <= c
  BY <1>3, <1>4
<1> HIDE DEF column
<1>6. column \in 1 .. n + 1 /\ (column <= n => ends[column] <= top)
  BY <1>1, <1>5
<1>7. ASSUME NEW c \in 1 .. column - 1 PROVE c <= n /\ top < ends[c]
  <2>1. c \in 1 .. n + 1 /\ c < column /\ c \in 1 .. n
    BY <1>1, <1>6
  <2>2. c \notin free
    <3> HIDE DEF free
    <3>1. column \in Int
      BY <1>6, <1>1
    <3> QED
      BY <2>1, <1>5, <3>1
  <2> QED
    BY <2>1, <2>2, <1>1
<1> QED
  BY <1>6, <1>7 DEF column

(* The clusters before this one are over when o begins.                    *)
ClustersOver(t, so, o, d) ==
  \A p \in t : so.at[p].cluster < so.cluster => Bottom(p, d) <= Top(o, d)

(* One turn that stays in its cluster: o takes its seat beside t.          *)
LEMMA OneMoreSeat ==
  ASSUME NEW d \in Date, NEW t, NEW o, o \notin t, Pieces(t \cup {o}, d),
         NEW so, Seating(t, so, d), so.cluster # 0,
         \A p \in t : Top(p, d) <= Top(o, d), ClustersOver(t, so, o, d)
  PROVE  LET sat == Seat(o, d, so)
         IN  Seating(t \cup {o}, sat, d) /\ sat.cluster = so.cluster /\ sat.at[o].cluster = so.cluster
<1> DEFINE column == FreeColumn(so.ends, Top(o, d))
           n      == Len(so.ends)
           m      == Later(column, n)
           ends   == [c \in 1 .. m |-> IF c = column THEN Bottom(o, d) ELSE so.ends[c]]
           seat   == [cluster |-> so.cluster, column |-> column]
           at     == [p \in t \cup {o} |-> IF p = o THEN seat ELSE so.at[p]]
           sat    == Seat(o, d, so)
           u      == t \cup {o}
<1>1. /\ so.cluster \in Nat /\ so.until \in Nat /\ so.ends \in Seq(Nat)
      /\ so.at \in [t -> [cluster : Nat, column : Nat]]
      /\ \A p \in t : so.at[p].cluster \in 1 .. so.cluster /\ so.at[p].column # 0
  BY DEF Seating, SeatTypes
<1>2. \A p \in u : Top(p, d) \in Nat /\ Bottom(p, d) \in Nat /\ Top(p, d) < Bottom(p, d)
  BY PiecesHaveHeight DEF Pieces
<1>3. n \in Nat /\ \A c \in 1 .. n : so.ends[c] \in Nat
  BY <1>1
<1>4. /\ column \in 1 .. n + 1
      /\ column <= n => so.ends[column] <= Top(o, d)
      /\ \A c \in 1 .. column - 1 : c <= n /\ Top(o, d) < so.ends[c]
  BY <1>1, <1>2, ColumnIsFree
<1>5. /\ sat.cluster = so.cluster /\ sat.until = Later(so.until, Bottom(o, d))
      /\ sat.ends = ends /\ sat.at = at
      /\ sat = [cluster |-> sat.cluster, until |-> sat.until, ends |-> sat.ends, at |-> sat.at]
  <2>1. DOMAIN so.at = t
    BY <1>1
  <2> QED
    BY <2>1 DEF Seat, ClusterEnd
<1> HIDE DEF column, n, sat
<1>6. m \in Nat /\ n <= m /\ column <= m /\ m <= n + 1 /\ \A c \in 1 .. m : c = column \/ c \in 1 .. n
  BY <1>3, <1>4 DEF Later
<1>7. ends \in Seq(Nat) /\ Len(ends) = m
  <2>1. \A c \in 1 .. m : ends[c] \in Nat
    BY <1>2, <1>3, <1>6
  <2>2. ends \in [1 .. m -> Nat]
    BY <2>1
  <2> HIDE DEF ends, m
  <2> QED
    BY <2>2, <1>6
<1>8. at[o] = seat /\ \A p \in t : at[p] = so.at[p]
  OBVIOUS
<1>9. \A p \in t : so.at[p] = [cluster |-> so.at[p].cluster, column |-> so.at[p].column]
  BY <1>1
<1> HIDE DEF at, m
<1>10. SeatTypes(u, sat)
  <2>1. seat \in [cluster : Nat, column : Nat] /\ seat.cluster \in 1 .. so.cluster /\ seat.column # 0
    BY <1>1, <1>3, <1>4
  <2>2. at \in [u -> [cluster : Nat, column : Nat]]
    BY <1>1, <2>1 DEF at
  <2>3. Later(so.until, Bottom(o, d)) \in Nat
    BY <1>1, <1>2 DEF Later
  <2>4. \A p \in u : at[p].cluster \in 1 .. so.cluster /\ at[p].column # 0
    BY <1>1, <1>8, <2>1
  <2> HIDE DEF seat, ends
  <2> QED
    BY <1>1, <1>5, <1>7, <2>2, <2>3, <2>4 DEF SeatTypes
<1>11. Few(u, sat)
  <2>1. Cardinality(u) = Cardinality(t) + 1 /\ Cardinality(t) \in Nat
    <3>1. t \in SUBSET u /\ IsFiniteSet(u)
      BY DEF Pieces
    <3>2. IsFiniteSet(t)
      BY <3>1, FS_Subset
    <3> QED
      BY <3>2, FS_AddElement, FS_CardinalityType
  <2>2. n <= Cardinality(t) /\ \A p \in t : so.at[p].column <= Cardinality(t)
    BY DEF Seating, Few, n
  <2>3. m <= Cardinality(u)
    BY <2>1, <2>2, <1>3, <1>6
  <2>4. ASSUME NEW p \in u PROVE at[p].column <= Cardinality(u)
    <3>1. CASE p = o
      <4>1. at[p].column = column
        BY <3>1, <1>8
      <4> QED
        BY <4>1, <1>3, <1>4, <1>6, <2>1, <2>3
    <3>2. CASE p \in t
      <4>1. at[p].column = so.at[p].column /\ so.at[p].column \in Nat
        BY <3>2, <1>1, <1>8
      <4> QED
        BY <4>1, <2>1, <2>2, <3>2
    <3> QED
      BY <3>1, <3>2
  <2> HIDE DEF u
  <2> QED
    BY <2>3, <2>4, <1>5, <1>7 DEF Few
<1>12. /\ \A p \in t : so.at[p].cluster = so.cluster =>
             /\ Bottom(p, d) <= so.until
             /\ so.at[p].column <= n
             /\ Bottom(p, d) <= so.ends[so.at[p].column]
       /\ \A c \in 1 .. n : \E p \in t :
             so.at[p] = [cluster |-> so.cluster, column |-> c] /\ Bottom(p, d) = so.ends[c]
  BY DEF Seating, EndsAreKept, n
<1>13. EndsAreKept(u, sat, d)
  <2>1. ASSUME NEW p \in u, at[p].cluster = so.cluster
        PROVE  /\ Bottom(p, d) <= Later(so.until, Bottom(o, d))
               /\ at[p].column <= m
               /\ Bottom(p, d) <= ends[at[p].column]
    <3>1. CASE p = o
      <4>1. at[p].column = column /\ column \in 1 .. m
        BY <3>1, <1>3, <1>4, <1>6, <1>8
      <4> QED
        BY <3>1, <4>1, <1>1, <1>2, <1>6 DEF Later
    <3>2. CASE p \in t
      <4> DEFINE c == so.at[p].column
      <4>1. at[p] = so.at[p] /\ c \in 1 .. n /\ Bottom(p, d) <= so.until /\ Bottom(p, d) <= so.ends[c]
        BY <3>2, <2>1, <1>1, <1>3, <1>8, <1>12
      <4> HIDE DEF c
      <4>2. c \in 1 .. m
        BY <4>1, <1>3, <1>6
      <4>3. c = column => so.ends[c] <= Top(o, d)
        BY <4>1, <1>4, <1>3
      <4>4. so.ends[c] \in Nat /\ Bottom(p, d) \in Nat /\ Bottom(o, d) \in Nat /\ Top(o, d) \in Nat /\ Top(o, d) < Bottom(o, d)
        BY <4>1, <1>2, <1>3, <3>2
      <4>5. Bottom(p, d) <= ends[c]
        BY <4>1, <4>2, <4>3, <4>4
      <4>6. Bottom(p, d) <= Later(so.until, Bottom(o, d))
        BY <4>1, <4>4, <1>1 DEF Later
      <4> QED
        BY <4>1, <4>2, <4>5, <4>6, <1>6 DEF c
    <3> QED
      BY <3>1, <3>2
  <2>2. ASSUME NEW c \in 1 .. m
        PROVE  \E p \in u : at[p] = [cluster |-> so.cluster, column |-> c] /\ Bottom(p, d) = ends[c]
    <3>1. CASE c = column
      BY <3>1, <1>8
    <3>2. CASE c # column
      <4>1. c \in 1 .. n
        BY <3>2, <1>6
      <4>2. PICK p \in t : so.at[p] = [cluster |-> so.cluster, column |-> c] /\ Bottom(p, d) = so.ends[c]
        BY <4>1, <1>12
      <4> QED
        BY <3>2, <4>2, <1>8
    <3> QED
      BY <3>1, <3>2
  <2> HIDE DEF ends, u
  <2> QED
    BY <2>1, <2>2, <1>5, <1>7 DEF EndsAreKept
<1>14. SeatsApart(u, sat, d)
  <2>1. \A p, q \in t :
          /\ so.at[p].cluster < so.at[q].cluster => Bottom(p, d) <= Top(q, d)
          /\ p # q /\ so.at[p] = so.at[q] => Bottom(p, d) <= Top(q, d) \/ Bottom(q, d) <= Top(p, d)
    BY DEF Seating, SeatsApart
  <2>2. ASSUME NEW p \in t
        PROVE  /\ at[p].cluster < at[o].cluster => Bottom(p, d) <= Top(o, d)
               /\ ~ (at[o].cluster < at[p].cluster)
               /\ at[p] = at[o] => Bottom(p, d) <= Top(o, d)
    <3>1. at[p] = so.at[p] /\ at[o].cluster = so.cluster /\ at[o].column = column
      BY <1>8
    <3>2. so.at[p].cluster \in 1 .. so.cluster /\ so.at[p].column \in Nat
      BY <1>1
    <3>3. ASSUME at[p] = at[o] PROVE Bottom(p, d) <= Top(o, d)
      <4>1. so.at[p].cluster = so.cluster /\ so.at[p].column = column
        BY <3>1, <3>3
      <4>2. column <= n /\ Bottom(p, d) <= so.ends[column]
        BY <4>1, <1>12
      <4>3. so.ends[column] \in Nat /\ so.ends[column] <= Top(o, d)
        BY <4>2, <1>3, <1>4
      <4> QED
        BY <4>2, <4>3, <1>2
    <3> QED
      BY <3>1, <3>2, <3>3, <1>1 DEF ClustersOver
  <2>3. ASSUME NEW p \in u, NEW q \in u
        PROVE  /\ at[p].cluster < at[q].cluster => Bottom(p, d) <= Top(q, d)
               /\ p # q /\ at[p] = at[q] => Bottom(p, d) <= Top(q, d) \/ Bottom(q, d) <= Top(p, d)
    <3>1. CASE p \in t /\ q \in t
      BY <3>1, <2>1, <1>8
    <3>2. CASE p \in t /\ q = o
      BY <3>2, <2>2
    <3>3. CASE p = o /\ q \in t
      BY <3>3, <2>2
    <3>4. CASE p = o /\ q = o
      <4>1. at[o].cluster \in Nat
        BY <1>1, <1>8
      <4> QED
        BY <3>4, <4>1
    <3> QED
      BY <3>1, <3>2, <3>3, <3>4
  <2> HIDE DEF u
  <2> QED
    BY <2>3, <1>5 DEF SeatsApart
<1>15. SeatsNeeded(u, sat, d)
  <2>1. ASSUME NEW p \in u, NEW c \in 1 .. at[p].column - 1
        PROVE  \E q \in u : /\ at[q] = [cluster |-> at[p].cluster, column |-> c]
                            /\ Top(q, d) <= Top(p, d) /\ Top(p, d) < Bottom(q, d)
    <3>1. CASE p = o
      <4>1. at[p] = seat /\ c \in 1 .. column - 1
        BY <3>1, <2>1, <1>8
      <4>2. c \in 1 .. n /\ Top(o, d) < so.ends[c]
        BY <4>1, <1>3, <1>4
      <4>3. PICK q \in t : so.at[q] = [cluster |-> so.cluster, column |-> c] /\ Bottom(q, d) = so.ends[c]
        BY <4>2, <1>12
      <4> QED
        BY <3>1, <4>1, <4>2, <4>3, <1>8
    <3>2. CASE p \in t
      <4>1. at[p] = so.at[p] /\ c \in 1 .. so.at[p].column - 1
        BY <3>2, <2>1, <1>8
      <4>2. PICK q \in t : /\ so.at[q] = [cluster |-> so.at[p].cluster, column |-> c]
                           /\ Top(q, d) <= Top(p, d) /\ Top(p, d) < Bottom(q, d)
        BY <3>2, <4>1 DEF Seating, SeatsNeeded
      <4> QED
        BY <4>1, <4>2, <1>8
    <3> QED
      BY <3>1, <3>2
  <2> HIDE DEF u
  <2> QED
    BY <2>1, <1>5 DEF SeatsNeeded
<1> QED
  BY <1>5, <1>8, <1>10, <1>11, <1>13, <1>14, <1>15 DEF Seating, sat

(* Between its turns the loop keeps the seating, and the cluster it is in  *)
(* has a member.                                                           *)
Looping(t, so, d) ==
  /\ Seating(t, so, d)
  /\ so.cluster = 0 => so.until = 0
  /\ so.cluster # 0 => \E p \in t : so.at[p].cluster = so.cluster

LEMMA OneMoreTurn ==
  ASSUME NEW d \in Date, NEW t, NEW o, o \notin t, Pieces(t \cup {o}, d),
         NEW so, Looping(t, so, d),
         \A p \in t : Top(p, d) <= Top(o, d)
  PROVE  Looping(t \cup {o}, Take(o, d, so), d)
<1>1. Seating(t, so, d) /\ SeatTypes(t, so) /\ (so.cluster = 0 => so.until = 0)
  BY DEF Looping, Seating
<1>2. /\ so.cluster \in Nat /\ so.until \in Nat /\ so.ends \in Seq(Nat)
      /\ so.at \in [t -> [cluster : Nat, column : Nat]]
      /\ \A p \in t : so.at[p].cluster \in 1 .. so.cluster
  BY <1>1 DEF SeatTypes
<1>3. \A p \in t \cup {o} : Top(p, d) \in Nat /\ Bottom(p, d) \in Nat /\ Top(p, d) < Bottom(p, d)
  BY PiecesHaveHeight DEF Pieces
<1>4. ASSUME NEW p \in t, so.at[p].cluster < so.cluster PROVE Bottom(p, d) <= Top(o, d)
  <2>1. PICK q \in t : so.at[q].cluster = so.cluster
    BY <1>2, <1>4 DEF Looping
  <2>2. Bottom(p, d) <= Top(q, d)
    BY <2>1, <1>1, <1>4 DEF Seating, SeatsApart
  <2>3. Top(q, d) <= Top(o, d) /\ Top(q, d) \in Nat
    BY <1>3
  <2> QED
    BY <2>2, <2>3, <1>3
<1>5. CASE so.until <= Top(o, d)
  <2> DEFINE open == finish(so)
  <2>1. /\ open.cluster = so.cluster + 1 /\ open.until = 0 /\ open.ends = <<>> /\ open.at = so.at
        /\ open = [cluster |-> open.cluster, until |-> open.until, ends |-> open.ends, at |-> open.at]
    BY DEF finish
  <2> HIDE DEF open
  <2>2. ASSUME NEW p \in t
        PROVE  so.at[p].cluster \in 1 .. so.cluster + 1 /\ so.at[p].cluster # so.cluster + 1
    BY <1>2
  <2>3. SeatTypes(t, open)
    <3>1. <<>> \in Seq(Nat)
      OBVIOUS
    <3> QED
      BY <3>1, <2>1, <2>2, <1>1, <1>2 DEF SeatTypes
  <2>4. Few(t, open)
    <3>1. IsFiniteSet(t)
      <4>1. t \in SUBSET (t \cup {o}) /\ IsFiniteSet(t \cup {o})
        BY DEF Pieces
      <4> QED
        BY <4>1, FS_Subset
    <3>2. Len(open.ends) = 0 /\ Cardinality(t) \in Nat
      BY <3>1, <2>1, FS_CardinalityType
    <3> QED
      BY <3>2, <2>1, <1>1 DEF Seating, Few
  <2>5. EndsAreKept(t, open, d)
    <3>1. Len(open.ends) = 0
      BY <2>1
    <3> QED
      BY <3>1, <2>1, <2>2 DEF EndsAreKept
  <2>6. SeatsApart(t, open, d) /\ SeatsNeeded(t, open, d)
    BY <2>1, <1>1 DEF Seating, SeatsApart, SeatsNeeded
  <2>7. ASSUME NEW p \in t PROVE Bottom(p, d) <= Top(o, d)
    <3>1. CASE so.at[p].cluster < so.cluster
      BY <3>1, <1>4
    <3>2. CASE so.at[p].cluster = so.cluster
      <4>1. Bottom(p, d) <= so.until
        BY <3>2, <1>1 DEF Seating, EndsAreKept
      <4> QED
        BY <4>1, <1>2, <1>3, <1>5
    <3> QED
      BY <3>1, <3>2, <1>2
  <2>8. Seating(t, open, d) /\ open.cluster # 0 /\ open.cluster \in Nat
    BY <2>1, <2>3, <2>4, <2>5, <2>6, <1>2 DEF Seating
  <2>9. /\ Seating(t \cup {o}, Seat(o, d, open), d)
        /\ Seat(o, d, open).cluster = open.cluster /\ Seat(o, d, open).at[o].cluster = open.cluster
    <3>1. ClustersOver(t, open, o, d)
      BY <2>7 DEF ClustersOver
    <3> QED
      BY <3>1, <2>8, OneMoreSeat
  <2>10. Take(o, d, so) = Seat(o, d, open)
    BY <1>5 DEF Take, open
  <2> QED
    BY <2>8, <2>9, <2>10 DEF Looping
<1>6. CASE ~ (so.until <= Top(o, d))
  <2>1. so.cluster # 0
    BY <1>1, <1>3, <1>6
  <2>2. /\ Seating(t \cup {o}, Seat(o, d, so), d)
        /\ Seat(o, d, so).cluster = so.cluster /\ Seat(o, d, so).at[o].cluster = so.cluster
    <3>1. ClustersOver(t, so, o, d)
      BY <1>4 DEF ClustersOver
    <3> QED
      BY <3>1, <2>1, <1>1, OneMoreSeat
  <2>3. Take(o, d, so) = Seat(o, d, so)
    BY <1>6 DEF Take
  <2> QED
    BY <2>1, <2>2, <2>3 DEF Looping
<1> QED
  BY <1>5, <1>6

(* So it has seated all of them in the end.                                *)
LEMMA AllAreSeated ==
  ASSUME NEW d \in Date, NEW s, Pieces(s, d)
  PROVE  Seating(s, seated(s, d)[s], d)
<1> DEFINE made == seated(s, d)
           Wrong == {n \in Nat : \E t \in SUBSET s : Cardinality(t) = n /\ ~ Looping(t, made[t], d)}
<1>1. \A t \in SUBSET s : IsFiniteSet(t) /\ Cardinality(t) \in Nat /\ Pieces(t, d)
  <2> SUFFICES ASSUME NEW t \in SUBSET s
               PROVE  IsFiniteSet(t) /\ Cardinality(t) \in Nat /\ Pieces(t, d)
    OBVIOUS
  <2>1. IsFiniteSet(t)
    BY FS_Subset DEF Pieces
  <2> QED
    BY <2>1, FS_CardinalityType DEF Pieces
<1>2. Wrong = {}
  <2> SUFFICES ASSUME Wrong # {} PROVE FALSE
    OBVIOUS
  <2>1. PICK n \in Wrong : \A m \in Wrong : n <= m
    <3> HIDE DEF Wrong
    <3>1. Wrong \in SUBSET Nat
      BY DEF Wrong
    <3> QED
      BY <3>1, LeastNumber
  <2>2. PICK t \in SUBSET s : Cardinality(t) = n /\ ~ Looping(t, made[t], d)
    BY <2>1
  <2>3. CASE t = {}
    <3>1. made[t] = Nothing
      BY <2>3, TheLoopTurns
    <3>2. SeatTypes({}, Nothing)
      BY DEF SeatTypes, Nothing
    <3>3. Few({}, Nothing)
      BY FS_EmptySet DEF Few, Nothing
    <3>4. EndsAreKept({}, Nothing, d)
      BY DEF EndsAreKept, Nothing
    <3>5. SeatsApart({}, Nothing, d) /\ SeatsNeeded({}, Nothing, d)
      BY DEF SeatsApart, SeatsNeeded
    <3>6. Nothing.cluster = 0 /\ Nothing.until = 0
      BY DEF Nothing
    <3> QED
      BY <2>2, <2>3, <3>1, <3>2, <3>3, <3>4, <3>5, <3>6 DEF Looping, Seating
  <2>4. CASE t # {}
    <3> DEFINE o == TakenLast(t, d)
               r == t \ {o}
    <3>1. o \in t /\ \A p \in t : Top(p, d) <= Top(o, d)
      BY <2>4, <1>1, TheLastIsTaken
    <3> HIDE DEF o
    <3>2. r \in SUBSET s /\ r \cup {o} = t /\ o \notin r
      BY <3>1
    <3>3. made[t] = Take(o, d, made[r])
      BY <2>4, TheLoopTurns DEF o
    <3>4. Cardinality(r) = n - 1
      BY <3>1, <1>1, <2>2, FS_RemoveElement
    <3>5. Looping(r, made[r], d)
      <4>1. n \in Nat /\ Cardinality(r) \in Nat
        BY <2>1, <1>1, <3>2
      <4>2. Cardinality(r) \notin Wrong
        <5> HIDE DEF Wrong, r
        <5> QED
          BY <4>1, <3>4, <2>1
      <4> QED
        BY <4>1, <4>2, <3>2
    <3>6. Looping(r \cup {o}, Take(o, d, made[r]), d)
      <4>1. Pieces(r \cup {o}, d)
        BY <3>2, <1>1
      <4> HIDE DEF r, made
      <4>2. \A p \in r : Top(p, d) <= Top(o, d)
        BY <3>1 DEF r
      <4> QED
        BY <4>1, <4>2, <3>2, <3>5, OneMoreTurn
    <3> QED
      BY <2>2, <3>2, <3>3, <3>6
  <2> QED
    BY <2>3, <2>4
<1>3. Looping(s, made[s], d)
  <2>1. Cardinality(s) \in Nat /\ Cardinality(s) \notin Wrong
    BY <1>1, <1>2
  <2> QED
    BY <2>1
<1> QED
  BY <1>3 DEF Looping

-----------------------------------------------------------------------------
(* y_for: what is later is further down, though hours differ in height.    *)

LEMMA FurtherDown ==
  ASSUME NEW a \in Nat, NEW b \in Nat, a <= b, NEW occupied
  PROVE  /\ y_for(a, occupied) \in Nat /\ y_for(b, occupied) \in Nat
         /\ y_for(a, occupied) <= y_for(b, occupied)
         /\ a < b /\ a < DayLength => y_for(a, occupied) < y_for(b, occupied)
<1> DEFINE until(x) == Earlier(Later(x, 0), DayLength)
           above(x) == 0 .. until(x) - 1
           tall(x)  == {minute \in above(x) : hour_height(minute \div Hour, occupied) = 2}
<1>1. /\ until(a) \in Nat /\ until(b) \in Nat /\ until(a) <= until(b)
      /\ a < b /\ a < DayLength => until(a) < until(b)
  BY HourAssumption DEF Earlier, Later
<1>2. y_for(a, occupied) = Cardinality(above(a)) + Cardinality(tall(a))
  BY DEF y_for
<1>3. y_for(b, occupied) = Cardinality(above(b)) + Cardinality(tall(b))
  BY DEF y_for
<1> HIDE DEF until
<1>4. ASSUME NEW x, until(x) \in Nat
      PROVE  IsFiniteSet(above(x)) /\ Cardinality(above(x)) = until(x)
  <2>1. /\ IsFiniteSet(above(x))
        /\ Cardinality(above(x)) = IF 0 > until(x) - 1 THEN 0 ELSE (until(x) - 1) - 0 + 1
    BY <1>4, FS_Interval
  <2> QED
    BY <2>1, <1>4
<1>5. IsFiniteSet(above(a)) /\ IsFiniteSet(above(b))
      /\ Cardinality(above(a)) = until(a) /\ Cardinality(above(b)) = until(b)
  BY <1>1, <1>4
<1>6. tall(b) \in SUBSET above(b) /\ tall(a) \in SUBSET tall(b)
  BY <1>1
<1> HIDE DEF above, tall
<1>7. IsFiniteSet(tall(b)) /\ Cardinality(tall(b)) \in Nat
  BY <1>5, <1>6, FS_Subset, FS_CardinalityType
<1>8. IsFiniteSet(tall(a)) /\ Cardinality(tall(a)) \in Nat /\ Cardinality(tall(a)) <= Cardinality(tall(b))
  BY <1>6, <1>7, FS_Subset, FS_CardinalityType
<1> QED
  BY <1>1, <1>2, <1>3, <1>5, <1>7, <1>8

-----------------------------------------------------------------------------
(* How the pieces of a date stand on the screen.                           *)

(* The seats that columns gives: as many columns as the last of the        *)
(* cluster, which is the place of one of its members.                      *)
LEMMA SeatsOfColumns ==
  ASSUME NEW d \in Date, NEW s, Pieces(s, d), NEW o \in s
  PROVE  LET seat == columns(s, d)
             at   == seated(s, d)[s].at
         IN  /\ seat[o].cluster = at[o].cluster /\ seat[o].column = at[o].column
             /\ \A p \in s : at[p].cluster = at[o].cluster => seat[p].of = seat[o].of
             /\ seat[o].of \in Nat
             /\ \A p \in s : at[p].cluster = at[o].cluster => at[p].column <= seat[o].of
             /\ \E p \in s : at[p] = [cluster |-> at[o].cluster, column |-> seat[o].of]
<1> DEFINE so == seated(s, d)[s]
           at == so.at
           seat == columns(s, d)
           besides(p) == {q \in s : at[q].cluster = at[p].cluster}
           places(p) == {at[q].column : q \in besides(p)}
<1>1. Seating(s, so, d)
  BY AllAreSeated
<1>2. /\ at \in [s -> [cluster : Nat, column : Nat]]
      /\ \A p \in s : at[p].column <= Cardinality(s)
  BY <1>1 DEF Seating, SeatTypes, Few
<1>3. seat = [p \in s |-> [cluster |-> at[p].cluster, column |-> at[p].column,
                           of |-> Max(places(p))]]
  BY DEF columns
<1> HIDE DEF so, at, seat
<1>4. Max(places(o)) \in places(o) /\ \A c \in places(o) : c <= Max(places(o))
  <2>1. at[o].column \in places(o) /\ places(o) \in SUBSET Int
    BY <1>2
  <2>2. Cardinality(s) \in Int /\ \A c \in places(o) : c <= Cardinality(s)
    <3>1. Cardinality(s) \in Nat
      BY FS_CardinalityType DEF Pieces
    <3> QED
      BY <3>1, <1>2
  <2> HIDE DEF places
  <2> QED
    BY <2>1, <2>2, GreatestInteger
<1>5. PICK p \in besides(o) : at[p].column = Max(places(o))
  BY <1>4
<1>6. seat[o] = [cluster |-> at[o].cluster, column |-> at[o].column, of |-> Max(places(o))]
  BY <1>3
<1>7. \A q \in s : at[q].cluster = at[o].cluster => places(q) = places(o)
  OBVIOUS
<1>8. \A q \in s : at[q].cluster = at[o].cluster => seat[q].of = seat[o].of
  BY <1>3, <1>6, <1>7
<1>9. \A q \in s : at[q].cluster = at[o].cluster => at[q].column <= seat[o].of
  BY <1>4, <1>6
<1>10. seat[o].of \in Nat /\ at[p] = [cluster |-> at[o].cluster, column |-> seat[o].of] /\ p \in s
  BY <1>2, <1>5, <1>6
<1>11. seat[o].cluster = at[o].cluster /\ seat[o].column = at[o].column
  BY <1>6
<1>12. seat[o].of \in Nat /\ \E q \in s : at[q] = [cluster |-> at[o].cluster, column |-> seat[o].of]
  BY <1>10
<1> QED
  BY <1>8, <1>9, <1>11, <1>12, Zenon DEF at, so, seat

(* Two pieces are beside each other or one above the other, and each has a *)
(* height of its own.                                                      *)
LEMMA PiecesApart ==
  ASSUME NEW d \in Date, NEW s, Pieces(s, d), NEW occupied, NEW o \in s, NEW p \in s
  PROVE  LET seat == columns(s, d)
             top(x) == y_for(Top(x, d), occupied)
             bottom(x) == y_for(Bottom(x, d), occupied)
         IN  /\ top(o) < bottom(o)
             /\ \/ o = p \/ bottom(o) <= top(p) \/ bottom(p) <= top(o)
                \/ seat[o].column * seat[p].of <= (seat[p].column - 1) * seat[o].of
                \/ seat[p].column * seat[o].of <= (seat[o].column - 1) * seat[p].of
<1> DEFINE so == seated(s, d)[s]
           at == so.at
           seat == columns(s, d)
           top(x) == y_for(Top(x, d), occupied)
           bottom(x) == y_for(Bottom(x, d), occupied)
<1>1. Seating(s, so, d)
  BY AllAreSeated
<1>2. at \in [s -> [cluster : Nat, column : Nat]]
  BY <1>1 DEF Seating, SeatTypes
<1>3. \A x \in s : Top(x, d) \in Nat /\ Top(x, d) < DayLength /\ Bottom(x, d) \in Nat /\ Top(x, d) < Bottom(x, d)
  <2> SUFFICES ASSUME NEW x \in s
               PROVE  Top(x, d) \in Nat /\ Top(x, d) < DayLength /\ Bottom(x, d) \in Nat /\ Top(x, d) < Bottom(x, d)
    OBVIOUS
  <2>1. Top(x, d) \in 0 .. DayLength - 1 /\ Bottom(x, d) \in Nat /\ Top(x, d) < Bottom(x, d)
    BY PiecesHaveHeight DEF Pieces
  <2> QED
    BY <2>1, HourAssumption
<1>4. \A x, y \in s : Bottom(x, d) <= Top(y, d) => bottom(x) <= top(y)
  BY <1>3, FurtherDown
<1>5. top(o) < bottom(o)
  BY <1>3, FurtherDown
<1>6. ASSUME NEW x \in s, NEW y \in s
      PROVE  /\ at[x].cluster < at[y].cluster => Bottom(x, d) <= Top(y, d)
             /\ x # y /\ at[x] = at[y] => Bottom(x, d) <= Top(y, d) \/ Bottom(y, d) <= Top(x, d)
  BY <1>1 DEF Seating, SeatsApart
<1>7. ASSUME NEW x \in s, NEW y \in s, at[x].cluster = at[y].cluster, at[x].column < at[y].column
      PROVE  seat[x].column * seat[y].of <= (seat[y].column - 1) * seat[x].of
  <2> DEFINE w == seat[x].of
             i == at[x].column
             j == at[y].column
  <2>1. seat[x].column = i /\ seat[y].column = j /\ seat[y].of = w /\ w \in Nat
    <3>1. /\ seat[x].column = i /\ w \in Nat
          /\ \A q \in s : at[q].cluster = at[x].cluster => seat[q].of = w
      BY SeatsOfColumns, Zenon
    <3>2. seat[y].column = j
      BY SeatsOfColumns, Zenon
    <3> QED
      BY <3>1, <3>2, <1>7, Zenon
  <2>2. i \in Nat /\ j \in Nat /\ i < j
    BY <1>2, <1>7
  <2> HIDE DEF w, i, j
  <2>3. j - 1 - i \in Nat
    BY <2>2
  <2>4. (j - 1 - i) * w \in Nat /\ i * w \in Nat /\ (j - 1) * w = i * w + (j - 1 - i) * w
    BY <2>1, <2>2, <2>3
  <2>5. i * w <= (j - 1) * w
    BY <2>4
  <2> QED
    BY <2>1, <2>5 DEF w
<1> HIDE DEF so, at, seat, top, bottom
<1>8. at[o].cluster \in Nat /\ at[p].cluster \in Nat /\ at[o].column \in Nat /\ at[p].column \in Nat
  BY <1>2
<1>9. at[o].cluster = at[p].cluster /\ at[o].column = at[p].column => at[o] = at[p]
  BY <1>2
<1>10. \/ at[o].cluster < at[p].cluster \/ at[p].cluster < at[o].cluster
       \/ at[o] = at[p]
       \/ at[o].cluster = at[p].cluster /\ at[o].column < at[p].column
       \/ at[o].cluster = at[p].cluster /\ at[p].column < at[o].column
  BY <1>8, <1>9
<1>11. \/ o = p \/ bottom(o) <= top(p) \/ bottom(p) <= top(o)
       \/ seat[o].column * seat[p].of <= (seat[p].column - 1) * seat[o].of
       \/ seat[p].column * seat[o].of <= (seat[o].column - 1) * seat[p].of
  BY <1>4, <1>6, <1>7, <1>10
<1> QED
  BY <1>5, <1>11 DEF seat, top, bottom

(* A cluster has as many columns as pieces where the one in its last       *)
(* column begins.                                                          *)
LEMMA ColumnsNeeded ==
  ASSUME NEW d \in Date, NEW s, Pieces(s, d), NEW o \in s
  PROVE  LET seat == columns(s, d)
             At(t, c) == {p \in s : seat[p].cluster = c /\ Top(p, d) <= t /\ t < Bottom(p, d)}
         IN  \E p \in s : seat[o].of = Cardinality(At(Top(p, d), seat[o].cluster))
<1> DEFINE so == seated(s, d)[s]
           at == so.at
           seat == columns(s, d)
           w == seat[o].of
<1>1. Seating(s, so, d)
  BY AllAreSeated
<1>2. at \in [s -> [cluster : Nat, column : Nat]] /\ \A x \in s : at[x].column # 0
  BY <1>1 DEF Seating, SeatTypes
<1>3. \A x \in s : Top(x, d) \in Nat /\ Bottom(x, d) \in Nat /\ Top(x, d) < Bottom(x, d)
  BY PiecesHaveHeight DEF Pieces
<1>4. \A x \in s : seat[x].cluster = at[x].cluster
  BY SeatsOfColumns
<1>5. w \in Nat /\ \A x \in s : at[x].cluster = at[o].cluster => at[x].column <= w
  BY SeatsOfColumns
<1>6. PICK p \in s : at[p] = [cluster |-> at[o].cluster, column |-> w]
  BY SeatsOfColumns
<1> HIDE DEF so, at, seat, w
<1> DEFINE there == {x \in s : at[x].cluster = at[o].cluster
                               /\ Top(x, d) <= Top(p, d) /\ Top(p, d) < Bottom(x, d)}
           f == [x \in there |-> at[x].column]
<1>7. f \in [there -> 1 .. w]
  <2>1. \A x \in there : at[x].column \in 1 .. w
    BY <1>2, <1>5
  <2> QED
    BY <2>1
<1>8. \A x, y \in there : f[x] = f[y] => x = y
  <2> SUFFICES ASSUME NEW x \in there, NEW y \in there, at[x].column = at[y].column, x # y PROVE FALSE
    OBVIOUS
  <2>1. at[x] = at[y]
    BY <1>2
  <2>2. Bottom(x, d) <= Top(y, d) \/ Bottom(y, d) <= Top(x, d)
    BY <2>1, <1>1 DEF Seating, SeatsApart, at
  <2> QED
    BY <2>2, <1>3
<1>9. \A c \in 1 .. w : \E x \in there : f[x] = c
  <2> SUFFICES ASSUME NEW c \in 1 .. w PROVE \E x \in there : at[x].column = c
    OBVIOUS
  <2>1. at[p].column = w /\ at[p].cluster = at[o].cluster
    BY <1>6
  <2>2. CASE c = w
    <3>1. p \in there
      BY <2>1, <1>3
    <3> QED
      BY <2>1, <2>2, <3>1
  <2>3. CASE c # w
    <3>1. c \in 1 .. at[p].column - 1
      BY <2>1, <2>3, <1>5
    <3>2. PICK x \in s : /\ at[x] = [cluster |-> at[p].cluster, column |-> c]
                         /\ Top(x, d) <= Top(p, d) /\ Top(p, d) < Bottom(x, d)
      BY <3>1, <1>1 DEF Seating, SeatsNeeded, at
    <3>3. x \in there
      BY <3>2, <2>1
    <3> QED
      BY <3>2, <3>3
  <2> QED
    BY <2>2, <2>3
<1>10. Cardinality(there) = w
  <2>1. IsFiniteSet(there)
    BY FS_Subset DEF Pieces
  <2> HIDE DEF there, f
  <2>2. f \in Bijection(there, 1 .. w)
    BY <1>7, <1>8, <1>9, Fun_IsBij
  <2>3. Cardinality(1 .. w) = Cardinality(there)
    BY <2>1, <2>2, FS_Bijection DEF ExistsBijection
  <2>4. Cardinality(1 .. w) = IF 1 > w THEN 0 ELSE w - 1 + 1
    BY <1>5, FS_Interval
  <2> QED
    BY <2>3, <2>4, <1>5
<1>11. {x \in s : seat[x].cluster = seat[o].cluster /\ Top(x, d) <= Top(p, d) /\ Top(p, d) < Bottom(x, d)}
         = there
  BY <1>4
<1>12. seat[o].of = Cardinality({x \in s : seat[x].cluster = seat[o].cluster
                                          /\ Top(x, d) <= Top(p, d) /\ Top(p, d) < Bottom(x, d)})
  BY <1>10, <1>11 DEF w
<1> QED
  BY <1>12 DEF seat

(* The timed pieces of a date on the screen are such as those lemmas speak *)
(* of.                                                                     *)
LEMMA PiecesOnTheScreen ==
  ASSUME TypeOK, NEW n \in Nat, NEW first \in Screens(n), NEW d \in Shown(first, n)
  PROVE  d \in Date /\ Pieces(Timed(first, n, d), d)
<1>1. d \in Date
  <2>1. first \in Date /\ first + n - 1 \in Date /\ d \in first .. (first + n - 1)
    BY DEF Screens, Shown
  <2> QED
    BY <2>1, DateAssumption
<1>2. IsFiniteSet(Timed(first, n, d))
  BY FiniteAnswers, FS_Subset DEF Timed, Placed, items
<1>3. \A o \in Timed(first, n, d) : o \in Occurrences /\ HasPiece(o, d)
  BY Answers DEF Timed, Placed, items
<1> QED
  BY <1>1, <1>2, <1>3 DEF Pieces

(* On every screen the query, the segments, the columns and the heights of *)
(* the hours together put two events beside each other or one above the    *)
(* other, each at least as wide as the busiest moment of its cluster asks. *)
THEOREM NothingOnTopOfAnother == Spec => []WellPlaced
<1>1. ASSUME TypeOK, NEW n \in Spans, NEW first \in Screens(n), NEW d \in Shown(first, n)
      PROVE  d \in Date /\ Pieces(Timed(first, n, d), d)
  BY <1>1, SpansAssumption, PiecesOnTheScreen
<1>2. TypeOK => DrawnApart
  <2> SUFFICES ASSUME TypeOK, NEW n \in Spans, NEW first \in Screens(n), NEW d \in Shown(first, n),
                      NEW o \in Timed(first, n, d), NEW p \in Timed(first, n, d)
               PROVE  LET s        == Timed(first, n, d)
                          seat     == columns(s, d)
                          occupied == Occupied(first, n)
                          top      == [x \in s |-> y_for(Top(x, d), occupied)]
                          bottom   == [x \in s |-> y_for(Bottom(x, d), occupied)]
                          LeftOf(x, y) == seat[x].column * seat[y].of <= (seat[y].column - 1) * seat[x].of
                      IN  /\ top[o] < bottom[o]
                          /\ \/ o = p \/ bottom[o] <= top[p] \/ bottom[p] <= top[o]
                             \/ LeftOf(o, p) \/ LeftOf(p, o)
    BY DEF DrawnApart
  <2>1. d \in Date /\ Pieces(Timed(first, n, d), d)
    BY <1>1
  <2> QED
    BY <2>1, PiecesApart
<1>3. TypeOK => NoNarrowerThanNeeded
  <2> SUFFICES ASSUME TypeOK, NEW n \in Spans, NEW first \in Screens(n), NEW d \in Shown(first, n),
                      NEW o \in Timed(first, n, d)
               PROVE  LET s    == Timed(first, n, d)
                          seat == columns(s, d)
                          At(t, c) == {p \in s : seat[p].cluster = c /\ Top(p, d) <= t /\ t < Bottom(p, d)}
                      IN  \E p \in s : seat[o].of = Cardinality(At(Top(p, d), seat[o].cluster))
    BY Zenon DEF NoNarrowerThanNeeded
  <2>1. d \in Date /\ Pieces(Timed(first, n, d), d)
    BY <1>1
  <2> QED
    BY <2>1, ColumnsNeeded
<1> QED
  BY <1>2, <1>3, WindowTypeCorrect, PTL DEF WellPlaced
=============================================================================
