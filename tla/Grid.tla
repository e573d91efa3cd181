-------------------------------- MODULE Grid --------------------------------
(***************************************************************************)
(* The time grid: what refresh_week (ui/mod.rs) asks the window query for  *)
(* (Window) and place_items (ui/week.rs) puts on the screen (Layout), for  *)
(* every first date and every span of days, while syncs move, delete and   *)
(* add events; and the month and the agenda over the same query.           *)
(***************************************************************************)
EXTENDS Window, Layout

CONSTANTS
  Spans,       \* how many dates a grid may show
  Cells,       \* dates of a month's grid, 42 in the code
  AgendaDays,  \* how far ahead the agenda looks, 30 days
  Rooms,       \* how many chips a cell may have room for
  AllDay       \* which of the single events are of all day

ASSUME SpansAssumption == Spans \cup {Cells, AgendaDays} \cup Rooms \subseteq Nat \ {0}
ASSUME AllDayAssumption == AllDay \subseteq Single
ASSUME FiniteAssumption == IsFiniteSet(Occurrence) /\ IsFiniteSet(Single)

(* The screens: n dates from first on.  Without a first midnight           *)
(* refresh_week returns before it draws, and the last screen stays.        *)
Screens(n) == {first \in Date \ Startless : first + n - 1 \in Date}
Shown(first, n) == first .. first + n - 1

(* refresh_week: the window runs as many times 24 hours from the first     *)
(* midnight as there are dates on the screen.                              *)
WindowEnd(first, n) == Begins[first] + n * DayLength
items(first, n)     == occurrences_in_window(Begins[first], WindowEnd(first, n))

(* place_items, one date at a time: what is of all day goes to the band    *)
(* above the hours, the rest into the column.                              *)
Placed(first, n, d) == {o \in items(first, n) : HasPiece(o, d)}
all_day(o) == o.of = -1 /\ [start |-> o.start, end |-> o.end] \in AllDay
Timed(first, n, d) == {o \in Placed(first, n, d) : ~ all_day(o)}

(* recompute_occupancy: over every date on the screen. *)
Occupied(first, n) ==
  UNION {occupied_hours(Timed(first, n, d), d) : d \in Shown(first, n)}

-----------------------------------------------------------------------------
(* The month: all a cell holds, of which as many chips are drawn as there  *)
(* is room for, the last place going to the count of the others.           *)
cells(first, d) == Placed(first, Cells, d)

visible_and_overflow(total, room) ==
  LET shown == IF total <= room THEN total ELSE room - 1
  IN  [shown |-> shown, hidden |-> total - shown]

(* What is of all day first, then in the order of their starts; what       *)
(* starts together by its name.                                            *)
Earliest(o, p) ==
  \/ all_day(o) /\ ~ all_day(p)
  \/ /\ all_day(o) <=> all_day(p)
     /\ \/ o.start < p.start
        \/ o.start = p.start /\ (o.of < p.of \/ (o.of = p.of /\ o.end < p.end))
replace_chips(first, d, room) ==
  LET fit == visible_and_overflow(Cardinality(cells(first, d)), room)
      Above(o) == {p \in cells(first, d) : Earliest(p, o)}
  IN  [chips |-> {o \in cells(first, d) : Cardinality(Above(o)) < fit.shown},
       more  |-> fit.hidden]

(* The agenda: each event under the date it begins on, whatever that is. *)
DateEnd(d) == IF d + 1 \in Date THEN Begins[d + 1] ELSE next_midnight(d)
ASSUME EveryInstantHasADate ==
  \A s \in Slot \cup Single \cup {RuleSlot(k) : k \in Occurrence} :
    \E d \in Date : Begins[d] <= s.start /\ s.start < DateEnd(d)
day_of(o)  == CHOOSE d \in Date : Begins[d] <= o.start /\ o.start < DateEnd(d)
group(first) ==
  LET listed == items(first, AgendaDays)
  IN  [d \in {day_of(o) : o \in listed} |-> {o \in listed : day_of(o) = d}]

-----------------------------------------------------------------------------
(* Properties. *)

(* The instants of o that fall on date d; an event of no length has one.   *)
Instants(o, d) ==
  {t \in o.start .. Later(o.start, o.end - 1) : Begins[d] <= t /\ t < DateEnd(d)}

(* A date that is as long as segments takes every date to be. *)
Ordinary(d) == d \notin Startless /\ DateEnd(d) = next_midnight(d)

(* A query excludes what ends as its window begins, and with it an event   *)
(* of no length at the midnight the screen begins with.                    *)
Asked(o, first) == o.end > Begins[first]

(* What the user has on date d of a screen. *)
OnDate(first, d) == {o \in Calendar : Asked(o, first) /\ Instants(o, d) # {}}

OnTheGrid ==
  \A n \in Spans : \A first \in Screens(n) : \A d \in Shown(first, n) :
    (\A x \in first .. d : Ordinary(x)) =>
      /\ Placed(first, n, d) \cap Calendar = OnDate(first, d)
      /\ \A o \in OnDate(first, d) : ~ all_day(o) =>
           /\ Begins[d] + Top(o, d) = Min(Instants(o, d))
           /\ Bottom(o, d) - Top(o, d) = Later(Cardinality(Instants(o, d)), MinHeight)

(* A cell that shows o may leave out p. *)
BeforeOrWith(o, p) ==
  \/ all_day(o) /\ ~ all_day(p)
  \/ (all_day(o) <=> all_day(p)) /\ o.start <= p.start

InTheMonth ==
  \A first \in Screens(Cells) : \A d \in Shown(first, Cells) :
    (\A x \in first .. d : Ordinary(x)) /\ cells(first, d) \subseteq Calendar =>
      \A room \in Rooms :
        LET drawn == replace_chips(first, d, room)
        IN  /\ drawn.chips \subseteq OnDate(first, d)
            /\ drawn.more = Cardinality(OnDate(first, d) \ drawn.chips)
            /\ \A o \in drawn.chips, p \in OnDate(first, d) \ drawn.chips : BeforeOrWith(o, p)

InTheAgenda ==
  \A first \in Date \ Startless :
    (\A x \in Shown(first, AgendaDays) : x \in Date /\ Ordinary(x)) =>
      LET under == group(first)
          upTo  == {d \in Date : d < first + AgendaDays}
      IN  \A o \in UNION {OnDate(first, d) : d \in Shown(first, AgendaDays)} :
            LET first_of_o == Min({d \in upTo : Instants(o, d) # {}})
            IN  {d \in DOMAIN under : o \in under[d]} = {first_of_o}

(***************************************************************************)
(* "A meeting an hour off, a night shift missing from the morning it runs  *)
(* into" (ui/layout.rs): up to the first date that daylight saving made    *)
(* longer or shorter, what is in the calendar is drawn on the dates it is  *)
(* on, from the minute it begins there to the minute it ends, and on no    *)
(* other date.  In the month it is a chip on each of those dates or in     *)
(* the count of those that did not fit, "never estimated" (ui/month.rs),   *)
(* and no later event is a chip instead, unless it is of all day.  In the  *)
(* agenda it is once, under its first date, which is before today for what *)
(* runs into today.                                                        *)
(***************************************************************************)
DrawnOnItsDay == OnTheGrid /\ InTheMonth /\ InTheAgenda

(***************************************************************************)
(* "Two overlapping events drawn on top of each other" (ui/layout.rs): on  *)
(* any date of any screen, in pixels, two events are beside each other or  *)
(* one is above the other, each with a height of its own, although the     *)
(* hours differ in height and short events are made taller.                *)
(***************************************************************************)
DrawnApart ==
  \A n \in Spans : \A first \in Screens(n) : \A d \in Shown(first, n) :
    LET s        == Timed(first, n, d)
        seat     == columns(s, d)
        occupied == Occupied(first, n)
        top      == [o \in s |-> y_for(Top(o, d), occupied)]
        bottom   == [o \in s |-> y_for(Bottom(o, d), occupied)]
        LeftOf(o, p) == seat[o].column * seat[p].of <= (seat[p].column - 1) * seat[o].of
    IN  \A o, p \in s :
          /\ top[o] < bottom[o]
          /\ o = p \/ bottom[o] <= top[p] \/ bottom[p] <= top[o] \/ LeftOf(o, p) \/ LeftOf(p, o)

(***************************************************************************)
(* And no narrower than that takes: an event gives way only to as many     *)
(* columns as its cluster has members at one moment.                       *)
(***************************************************************************)
NoNarrowerThanNeeded ==
  \A n \in Spans : \A first \in Screens(n) : \A d \in Shown(first, n) :
    LET s    == Timed(first, n, d)
        seat == columns(s, d)
        At(t, c) == {p \in s : seat[p].cluster = c /\ Top(p, d) <= t /\ t < Bottom(p, d)}
    IN  \A o \in s : \E p \in s :
          seat[o].of = Cardinality(At(Top(p, d), seat[o].cluster))

(* Everything is drawn beside or above everything else, and no narrower    *)
(* than that takes.                                                        *)
WellPlaced == DrawnApart /\ NoNarrowerThanNeeded
=============================================================================
