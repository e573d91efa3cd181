-------------------------------- MODULE Views --------------------------------
(***************************************************************************)
(* What is on the screen: the main window (ui/mod.rs, ui/week.rs) with its *)
(* grid, month and agenda, and the compact day the tray opens              *)
(* (ui/tray_day.rs).  Both hold a Week widget, which draws what it was     *)
(* last given: nothing reads the store but the handlers that end in        *)
(* refresh_week, or show_day for the popup.  Every handler runs on the     *)
(* main loop and is one action; a sync and a connect write to the store    *)
(* beside them, and are drawn only by the callbacks that follow.           *)
(*                                                                         *)
(* The contents of the store are whether they are still what was read.     *)
(* Date 0 is a Monday.                                                     *)
(***************************************************************************)
EXTENDS Integers, FiniteSetsExt

CONSTANTS
  Date,         \* the dates the user can get to, from 0
  MonthStarts,  \* those that are the first of a month
  Cells,        \* dates in the month's grid: six weeks
  Ahead,        \* dates in the agenda: 30
  Today,        \* those that the clock gets to
  PopupReach,   \* how far ahead of today the popup is turned
  MaxUntold,    \* connects that have written and not reported, at a time
  Setting,      \* what a Week is drawn with: display zone and core hours
  Midnightless  \* pairs <<setting, date>>: daylight saving skips that midnight

ASSUME DateAssumption ==
  /\ Date \subseteq Nat
  /\ MonthStarts \subseteq Date
  /\ Today \subseteq Date
ASSUME LengthAssumption ==
  /\ Cells \in Nat \ {0}
  /\ Ahead \in Nat \ {0}
  /\ PopupReach \in Nat
  /\ MaxUntold \in Nat
ASSUME MidnightlessAssumption == Midnightless \subseteq Setting \X Date

VARIABLES
  today,      \* the date of the system's clock
  view,       \* which view is on the main window's screen
  main,       \* the main window's Week, and what its view was given
  popup,      \* the day popup's Week
  exists,     \* the popup has been built
  visible,    \* it is open
  syncing,    \* a pass is under way
  counted,    \* it has written what its report counts
  untold,     \* connects that have written their account and not reported
  uncounted   \* the store was written and nobody was told

vars == <<today, view, main, popup, exists, visible, syncing, counted, untold, uncounted>>

-----------------------------------------------------------------------------
(* Spans of days (ui/span.rs). *)

Span == {"day", "three", "work", "week"}
View == {"grid", "month", "agenda"}

days(s) == [day |-> 1, three |-> 3, work |-> 5, week |-> 7][s]
step(s) == [day |-> 1, three |-> 3, work |-> 7, week |-> 7][s]

Weekday(date) == date % 7

monday_of(date) == date - Weekday(date)
start_for(s, focus) == IF s \in {"day", "three"} THEN focus ELSE monday_of(focus)

(* The month's grid: whole weeks from before the first of the month. *)
FirstOfMonth(date) == Max({m \in MonthStarts : m <= date})
grid_start(date) == monday_of(FirstOfMonth(date))

(* No date is before the first month and the first Monday.                 *)
ASSUME CalendarAssumption ==
  \A date \in Date :
    /\ monday_of(date) \in Date
    /\ \E m \in MonthStarts : m <= date /\ \A n \in MonthStarts : n <= date => n <= m

-----------------------------------------------------------------------------
(* The Week widget. *)

Dates(from, n) == [from |-> from, days |-> n]

(* What a view was given: the range asked of the store, the setting it was *)
(* asked with, and whether the store still holds that.                     *)
Given(range, setting) == [range |-> range, setting |-> setting, current |-> TRUE]
NothingGiven(setting) == [Given(Dates(0, 0), setting) EXCEPT !.current = FALSE]

start(w)   == start_for(w.span, w.focus)
Columns(w) == Dates(start(w), days(w.span))

(* place_items: every event on the grid, in the columns of now.  refresh:  *)
(* the dates above the columns.                                            *)
place_items(w) == [w EXCEPT !.placed = Columns(w)]
refresh(w)     == [w EXCEPT !.head = Columns(w)]

set_items(w, given) == place_items([w EXCEPT !.items = given])
set_span(w, s)      == refresh([w EXCEPT !.span = s])
shift(w, presses)   == refresh([w EXCEPT !.focus = @ + presses * step(w.span)])
go_to_today(w)      == refresh([w EXCEPT !.focus = today])

(* set_display_zone and set_core_hours. *)
set_setting(w, setting) == refresh(place_items([w EXCEPT !.setting = setting]))

(* A new widget, in the span it is given before anything else. *)
New(s, setting) ==
  LET columns == Dates(start_for(s, today), days(s))
  IN  [focus |-> today, span |-> s, setting |-> setting,
       head |-> columns, placed |-> columns, items |-> NothingGiven(setting)]

-----------------------------------------------------------------------------
(* refresh_week. *)

HasMidnight(setting, date) == <<setting, date>> \notin Midnightless

(* The dates that view v shows. *)
Frame(w, v) ==
  CASE v = "grid"   -> Columns(w)
    [] v = "month"  -> Dates(grid_start(start(w)), Cells)
    [] v = "agenda" -> Dates(today, Ahead)

(* Those it asks the store for. *)
Asked(w, v) == IF HasMidnight(w.setting, Frame(w, v).from) THEN Frame(w, v) ELSE Columns(w)

(* A screen that has no valid start is not drawn: what was there stays. *)
Refreshed(w, v) ==
  LET given == Given(Asked(w, v), w.setting)
  IN  IF ~ HasMidnight(w.setting, start(w)) THEN w
      ELSE IF v = "grid" THEN set_items(w, given)
      ELSE [w EXCEPT !.items = given]

(* The main window becomes w, in view v, refreshed. *)
refresh_week(w, v) ==
  /\ main' = Refreshed(w, v)
  /\ view' = v
  /\ uncounted' = (uncounted /\ ~ HasMidnight(w.setting, start(w)))

(* Another view comes up with what it was given long ago, if anything. *)
ComesUp(w, v) == IF v = view THEN w ELSE [w EXCEPT !.items = NothingGiven(w.setting)]

-----------------------------------------------------------------------------
(* The main window's handlers. *)

Elsewhere == <<today, exists, visible, syncing, counted, untold>>

(* The store is written: nobody's items are what it holds any more. *)
Outdated(w) == [w EXCEPT !.items.current = FALSE]

(* Previous and next.  The mutant does as the popup's buttons do. *)
TurnUnread(n) ==
  /\ main.focus + n * step(main.span) \in Date
  /\ main' = shift(main, n)
  /\ UNCHANGED <<view, popup, uncounted, Elsewhere>>
Turn(n) ==
  /\ main.focus + n * step(main.span) \in Date
  /\ refresh_week(shift(main, n), view)
  /\ UNCHANGED <<popup, Elsewhere>>

GoToToday ==
  /\ refresh_week(go_to_today(main), view)
  /\ UNCHANGED <<popup, Elsewhere>>

(* The switcher. *)
ChooseSpan(s) ==
  /\ refresh_week(set_span(ComesUp(main, "grid"), s), "grid")
  /\ UNCHANGED <<popup, Elsewhere>>
ChooseList(v) ==
  /\ refresh_week(ComesUp(main, v), v)
  /\ UNCHANGED <<popup, Elsewhere>>

(* apply_setting: a preference reaches the main window's grid. *)
ApplySetting(setting) ==
  /\ refresh_week(set_setting(main, setting), view)
  /\ UNCHANGED <<popup, Elsewhere>>

(* apply: a calendar is hidden or coloured, or an account removed.         *)
Apply ==
  /\ refresh_week(Outdated(main), view)
  /\ popup' = Outdated(popup)
  /\ UNCHANGED Elsewhere

(* One of an account's calendars cannot be hidden after others were. *)
ApplyFails ==
  /\ main' = Outdated(main)
  /\ popup' = Outdated(popup)
  /\ uncounted' = TRUE
  /\ UNCHANGED <<view, Elsewhere>>

-----------------------------------------------------------------------------
(* A connect, as the views see it. *)

(* It writes the account and its calendars, on the runtime, before it      *)
(* stores the tokens and fetches the avatar.                               *)
ConnectWrites ==
  /\ untold < MaxUntold
  /\ untold' = untold + 1
  /\ main' = Outdated(main)
  /\ popup' = Outdated(popup)
  /\ UNCHANGED <<today, view, exists, visible, syncing, counted, uncounted>>

(* start_connect's callback redraws and starts a pass, if none is on.      *)
ConnectTold ==
  /\ untold > 0
  /\ untold' = untold - 1
  /\ refresh_week(main, view)
  /\ syncing' = TRUE
  /\ UNCHANGED <<today, popup, exists, visible, counted>>

(* The tokens are not stored: what was written is taken back, if it can    *)
(* be, and the callback says that it failed and redraws nothing.           *)
ConnectFails ==
  /\ untold > 0
  /\ untold' = untold - 1
  /\ main' = Outdated(main)
  /\ popup' = Outdated(popup)
  /\ uncounted' = TRUE
  /\ UNCHANGED <<today, view, exists, visible, syncing, counted>>

-----------------------------------------------------------------------------
(* A pass, as the views see it. *)

BeginPass ==
  /\ ~ syncing
  /\ syncing' = TRUE
  /\ counted' = FALSE
  /\ UNCHANGED <<today, view, main, popup, exists, visible, untold, uncounted>>

(* It writes; not all of what it writes is in its report. *)
PassWrites(counts) ==
  /\ syncing
  /\ main' = Outdated(main)
  /\ popup' = Outdated(popup)
  /\ counted' = (counted \/ counts)
  /\ uncounted' = (uncounted \/ ~ counts)
  /\ UNCHANGED <<today, view, exists, visible, syncing, untold>>

(* Is there anything new on the screen?  The report counts something, or   *)
(* the accounts that need reconnecting are others than before.  The mutant *)
(* asks only the second.                                                   *)
OnlyAccounts(others) == others
HasNews(others)      == counted \/ others

(* start_syncing's callback. *)
EndPass(others) ==
  /\ syncing
  /\ syncing' = FALSE
  /\ counted' = FALSE
  /\ IF HasNews(others) THEN refresh_week(main, view)
     ELSE UNCHANGED <<main, view, uncounted>>
  /\ UNCHANGED <<today, popup, exists, visible, untold>>

-----------------------------------------------------------------------------
(* The popup. *)

(* show_day: built on first use with the settings of that moment, shown    *)
(* again after that; always on today, and read anew.  The mutant reads     *)
(* only when it is built.                                                  *)
ReadOnceOpened(w) ==
  IF HasMidnight(w.setting, today) /\ ~ exists
  THEN set_items(go_to_today(w), Given(Dates(today, 1), w.setting))
  ELSE go_to_today(w)
Opened(w) ==
  IF HasMidnight(w.setting, today)
  THEN set_items(go_to_today(w), Given(Dates(today, 1), w.setting))
  ELSE go_to_today(w)
ShowDay ==
  /\ ~ visible
  /\ visible' = TRUE
  /\ exists' = TRUE
  /\ popup' = Opened(IF exists THEN popup ELSE New("day", main.setting))
  /\ UNCHANGED <<today, view, main, syncing, counted, untold, uncounted>>

(* Its own previous, next and Today move the day and its heading. *)
PopupTurn(n) ==
  /\ visible
  /\ popup.focus + n \in today .. today + PopupReach
  /\ popup.focus + n \in Date
  /\ popup' = shift(popup, n)
  /\ UNCHANGED <<view, main, uncounted, Elsewhere>>

PopupToday ==
  /\ visible
  /\ popup' = go_to_today(popup)
  /\ UNCHANGED <<view, main, uncounted, Elsewhere>>

(* Escape, the loss of focus, its button. *)
HideDay ==
  /\ visible
  /\ visible' = FALSE
  /\ UNCHANGED <<today, view, main, popup, exists, syncing, counted, untold, uncounted>>

(* A Week that is resized places what it holds. *)
Resize ==
  /\ \/ view = "grid" /\ main' = place_items(main) /\ UNCHANGED popup
     \/ visible /\ popup' = place_items(popup) /\ UNCHANGED main
  /\ UNCHANGED <<view, uncounted, Elsewhere>>

DayTurns ==
  /\ today + 1 \in Today
  /\ today' = today + 1
  /\ UNCHANGED <<view, main, popup, exists, visible, syncing, counted, untold, uncounted>>

-----------------------------------------------------------------------------
(* startup: the view and span of last time, today. *)
Init ==
  /\ today \in Today
  /\ view \in View
  /\ \E s \in IF view = "grid" THEN Span ELSE {"week"} : \E setting \in Setting :
       /\ main = Refreshed(New(s, setting), view)
       /\ popup = New("day", setting)
  /\ exists = FALSE
  /\ visible = FALSE
  /\ syncing = TRUE
  /\ counted = FALSE
  /\ untold = 0
  /\ uncounted = FALSE

Next ==
  \/ \E n \in {-1, 1} : Turn(n) \/ PopupTurn(n)
  \/ GoToToday
  \/ \E s \in Span : ChooseSpan(s)
  \/ \E v \in View \ {"grid"} : ChooseList(v)
  \/ \E setting \in Setting : ApplySetting(setting)
  \/ Apply \/ ApplyFails
  \/ ConnectWrites \/ ConnectTold \/ ConnectFails
  \/ BeginPass
  \/ \E b \in BOOLEAN : PassWrites(b) \/ EndPass(b)
  \/ ShowDay \/ PopupToday \/ HideDay
  \/ Resize
  \/ DayTurns

Spec == Init /\ [][Next]_vars
-----------------------------------------------------------------------------
(* Properties. *)

Ranges == [from : Nat, days : Nat]
Week == [focus : Date, span : Span, setting : Setting, head : Ranges, placed : Ranges,
         items : [range : Ranges, setting : Setting, current : BOOLEAN]]

TypeOK ==
  /\ today \in Today
  /\ view \in View
  /\ main \in Week
  /\ popup \in Week /\ popup.span = "day"
  /\ exists \in BOOLEAN /\ visible \in BOOLEAN
  /\ visible => exists
  /\ syncing \in BOOLEAN /\ counted \in BOOLEAN /\ uncounted \in BOOLEAN
  /\ counted => syncing
  /\ untold \in Nat

(* The grid of w is what was read for the dates above its columns. *)
Truthful(w) ==
  /\ w.head = Columns(w)
  /\ w.placed = w.head
  /\ w.items.range = w.head
  /\ w.items.setting = w.setting

(* The agenda runs from a day that was today; from one that daylight       *)
(* saving left no midnight it has the dates of the grid instead.           *)
Since(w) ==
  \E t \in Today :
    /\ t <= today
    /\ w.items.range = IF HasMidnight(w.setting, t) THEN Dates(t, Ahead) ELSE Columns(w)

(***************************************************************************)
(* Whatever the user pressed and whatever was synced, what is under a date *)
(* is what was read for that date, in the zone the window is set to,       *)
(* unless the first date on the screen has no midnight in that zone; the   *)
(* month shows six weeks around the month it names; and the agenda begins  *)
(* with a day that was today.                                              *)
(***************************************************************************)
WindowTruthful ==
  HasMidnight(main.setting, start(main)) =>
    CASE view = "grid"   -> Truthful(main)
      [] view = "month"  -> main.items.range = Asked(main, "month") /\ main.items.setting = main.setting
      [] view = "agenda" -> Since(main) /\ main.items.setting = main.setting

(***************************************************************************)
(* "Redraw both surfaces that depend on it" (ui/mod.rs): the main window   *)
(* is behind the store only while a pass that wrote or a connect is under  *)
(* way, or after a write that was never counted or was followed by a       *)
(* failure.                                                                *)
(***************************************************************************)
WindowCurrent ==
  \/ main.items.current
  \/ syncing /\ counted
  \/ untold > 0
  \/ uncounted
  \/ ~ HasMidnight(main.setting, start(main))

(***************************************************************************)
(* "Show the popup, always on today" (ui/tray_day.rs): when it comes up it *)
(* shows what the store holds for today, wherever it had been left.        *)
(***************************************************************************)
OpensOnToday ==
  [][~ visible /\ visible' =>
       popup'.focus = today /\ (HasMidnight(popup'.setting, today) =>
                                   Truthful(popup') /\ popup'.items.current)]_vars
=============================================================================
