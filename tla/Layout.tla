------------------------------- MODULE Layout -------------------------------
(***************************************************************************)
(* Where an occurrence goes on the grid: segments and columns              *)
(* (ui/layout.rs), the vertical mapping (ui/vertical.rs) and what          *)
(* place_items (ui/week.rs) makes of them.                                 *)
(*                                                                         *)
(* Instants and minutes are integers of one unit.  A date begins at an     *)
(* instant of its own: daylight saving makes one date longer or shorter    *)
(* than the others, and in some zones takes a date's midnight away.        *)
(***************************************************************************)
EXTENDS Integers, Sequences, FiniteSetsExt

CONSTANTS
  Date,       \* the dates there are, one after another
  Begins,     \* Begins[d]: the instant at which date d begins
  Startless,  \* the dates whose midnight daylight saving has skipped
  Hour,       \* the length of an hour
  DayLength,  \* 24 hours
  MinHeight,  \* MIN_HEIGHT_MINUTES
  Core        \* the hours drawn at full height whatever they hold

ASSUME DateAssumption ==
  /\ Date \subseteq Int
  /\ \A d, e \in Date : d .. e \subseteq Date
  /\ Begins \in [Date -> Int]
  /\ \A d, e \in Date : d < e => Begins[d] < Begins[e]
  /\ Startless \subseteq Date
ASSUME HourAssumption ==
  /\ Hour \in Nat \ {0}
  /\ DayLength \in Nat \ {0}
  /\ DayLength % Hour = 0
  /\ MinHeight \in Nat \ {0}

Later(a, b)   == IF a < b THEN b ELSE a
Earlier(a, b) == IF a < b THEN a ELSE b

-----------------------------------------------------------------------------
(* segments: the piece of an occurrence o that the column of a date shows. *)

(* An end before the start counts as the start. *)
EndOf(o) == Later(o.start, o.end)

next_midnight(d) == Begins[d] + DayLength

PieceStart(o, d) == Later(o.start, Begins[d])
PieceEnd(o, d)   == Earlier(EndOf(o), next_midnight(d))

(* Does d show anything of o?  What ends at midnight is not shown on the   *)
(* next date, and what has no length is shown on its own.  The mutant      *)
(* shows what ends at midnight on the next date too.                       *)
HasPieceAfterMidnight(o, d) ==
  /\ d \notin Startless
  /\ PieceStart(o, d) <= PieceEnd(o, d)
HasPiece(o, d) ==
  /\ d \notin Startless
  /\ \/ PieceStart(o, d) < PieceEnd(o, d)
     \/ EndOf(o) = o.start /\ Begins[d] <= o.start /\ o.start < next_midnight(d)

(* In minutes from midnight. *)
Top(o, d)    == PieceStart(o, d) - Begins[d]
Bottom(o, d) == Top(o, d) + Later(PieceEnd(o, d) - PieceStart(o, d), MinHeight)

-----------------------------------------------------------------------------
(* columns: side by side what overlaps on one date. *)

(* Its pieces are taken by their tops. *)
TakenLast(s, d) == CHOOSE o \in s : \A p \in s : Top(p, d) <= Top(o, d)

(* Where a cluster ends, no piece it holds goes on and the next begins     *)
(* with columns of its own.  The mutant looks only at the piece taken      *)
(* last.                                                                   *)
ClusterEndOfLast(until, bottom) == bottom
ClusterEnd(until, bottom)       == Later(until, bottom)

(* The leftmost column whose last occupant has ended, or one more.         *)
FreeColumn(ends, top) ==
  Min({c \in 1 .. Len(ends) + 1 : c > Len(ends) \/ ends[c] <= top})

(* Give o its column, beside the pieces that `so` already holds; what      *)
(* begins when the cluster is over begins one of its own.                  *)
Seat(o, d, so) ==
  LET column == FreeColumn(so.ends, Top(o, d))
  IN  [cluster |-> so.cluster,
       until   |-> ClusterEnd(so.until, Bottom(o, d)),
       ends    |-> [c \in 1 .. Later(column, Len(so.ends)) |->
                      IF c = column THEN Bottom(o, d) ELSE so.ends[c]],
       at      |-> [p \in DOMAIN so.at \cup {o} |->
                      IF p = o THEN [cluster |-> so.cluster, column |-> column] ELSE so.at[p]]]
finish(so) == [cluster |-> so.cluster + 1, until |-> 0, ends |-> <<>>, at |-> so.at]
Take(o, d, so) == Seat(o, d, IF so.until <= Top(o, d) THEN finish(so) ELSE so)

(* What the loop has made of those of the pieces s it has come to.         *)
Nothing == [cluster |-> 0, until |-> 0, ends |-> <<>>, at |-> [o \in {} |-> o]]
seated(s, d) ==
  LET made[t \in SUBSET s] ==
        IF t = {} THEN Nothing
        ELSE Take(TakenLast(t, d), d, made[t \ {TakenLast(t, d)}])
  IN  made

(* columns(s, d)[o]: the cluster of o among the pieces s, its column, and  *)
(* the number of columns the cluster was split into.                       *)
columns(s, d) ==
  LET seats      == seated(s, d)[s].at
      besides(o) == {p \in s : seats[p].cluster = seats[o].cluster}
  IN  [o \in s |-> [cluster |-> seats[o].cluster,
                    column  |-> seats[o].column,
                    of      |-> Max({seats[p].column : p \in besides(o)})]]

-----------------------------------------------------------------------------
(* The vertical mapping, one for every date on screen. *)

HourOf(minutes) == Earlier(Later(minutes \div Hour, 0), DayLength \div Hour - 1)

(* The hours in which one of the pieces s of a date is drawn. *)
occupied_hours(s, d) ==
  UNION {HourOf(Top(o, d)) .. HourOf(Bottom(o, d) - 1) : o \in s}

(* Hours outside the core in which nothing happens are drawn half as high. *)
hour_height(hour, occupied) == IF hour \in Core \cup occupied THEN 2 ELSE 1

(* How far down the grid `minutes` past midnight is: as far as there are   *)
(* minutes above, those in tall hours counted twice.                       *)
y_for(minutes, occupied) ==
  LET above == 0 .. Earlier(Later(minutes, 0), DayLength) - 1
  IN  Cardinality(above)
        + Cardinality({minute \in above : hour_height(minute \div Hour, occupied) = 2})
=============================================================================
