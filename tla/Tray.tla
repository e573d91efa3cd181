-------------------------------- MODULE Tray --------------------------------
(***************************************************************************)
(* The tray: the line that says what is on or comes next, the timers that  *)
(* refresh it, and what a click asks of the window and of the day popup.   *)
(* The line is drawn from the store, and drawn again by its own timers and *)
(* by a pass that brought news; a change made in the window, a pass that   *)
(* failed half way and a suspended machine tell nobody.  A timer counts    *)
(* only the time the machine is awake.                                     *)
(***************************************************************************)
EXTENDS Integers, Sequences, FiniteSets, Functions

CONSTANTS
  Meetings,     \* what may be in the store: records [start, end, all_day]
  Minute, Hour, \* 60 and 3600 in the code
  FarOff,       \* twelve hours: beyond, the line names a time of day
  LookAhead,      \* fourteen days: how far ahead the line looks
  MaxTime,      \* bound on the clock
  MaxNews,   \* bound on passes with news and silent changes together
  MaxClicks     \* bound on requests waiting

ASSUME TimesAssumption ==
  /\ {Minute, Hour, FarOff, LookAhead, MaxTime, MaxNews, MaxClicks} \subseteq Nat \ {0}
  /\ Minute <= Hour /\ Hour < LookAhead
ASSUME MeetingsAssumption ==
  \A m \in Meetings : m.start \in Nat /\ m.end \in Nat /\ m.all_day \in BOOLEAN

VARIABLES
  clock,       \* the clock
  store,     \* the meetings in the store
  host,      \* whether a tray was there to register with
  line,      \* the line, and when it was drawn
  timers,    \* per time left, the timers that have it
  news,      \* passes with news so far
  silent,    \* changes so far that the tray was not told of
  lag,       \* history: time awake since the line ceased to be told or to be read,
             \* None if it is
  requests,  \* what clicks have asked for and the window has not done
  window,    \* whether the main window is visible
  popup      \* the day popup: visible, active, had_focus and, as history,
             \* held: focused in this showing; closed: by key or button, ever

tray == <<clock, store, host, line, timers, news, silent, lag>>
desk == <<requests, window, popup>>
trayVars == <<tray, desk>>

None == -1
Least(S) == CHOOSE x \in S : \A y \in S : x <= y
Clamp(x, low, high) == IF x < low THEN low ELSE IF x > high THEN high ELSE x

-----------------------------------------------------------------------------
(* What the line says.                                                     *)

occurrences_in_window(meetings, from, to) == {m \in meetings : m.start < to /\ m.end > from}
Seen(t) == occurrences_in_window(store, t, t + LookAhead)

Timed(seen) == {m \in seen : ~m.all_day}
UnderWay(seen, t) == {m \in Timed(seen) : m.start <= t /\ m.end > t}
Coming(seen, t) == {m \in Timed(seen) : m.start > t}

(* Of what is under way, what ends first; else what starts first.          *)
next_event(seen, t) ==
  IF UnderWay(seen, t) # {}
  THEN [kind |-> "in progress", at |-> Least({m.end : m \in UnderWay(seen, t)})]
  ELSE IF Coming(seen, t) # {}
       THEN [kind |-> "upcoming", at |-> Least({m.start : m \in Coming(seen, t)})]
       ELSE [kind |-> "nothing", at |-> None]

(* The mutant looks at starts alone.                                       *)
NextStart(seen, t) ==
  LET instants == {x \in {m.start : m \in Timed(seen)} : x > t}
  IN  IF instants = {} THEN None ELSE Least(instants)
next_change(seen, t) ==
  LET instants == {x \in UNION {{m.start, m.end} : m \in Timed(seen)} : x > t}
  IN  IF instants = {} THEN None ELSE Least(instants)

(* Minutes are rounded up, hours down.                                     *)
humanise(seconds) ==
  LET minutes == (seconds + Minute - 1) \div Minute
      hour == Hour \div Minute
  IN  CASE minutes <= 0    -> <<"less than a minute">>
        [] minutes \in 1 .. hour - 1 -> <<"minutes", minutes>>
        [] minutes >= hour -> <<"hours", minutes \div hour>>

describe(next, t) ==
  CASE next.kind = "nothing"     -> <<"nothing scheduled">>
    [] next.kind = "in progress" -> <<"ends in", humanise(next.at - t)>>
    [] next.kind = "upcoming"    -> IF next.at - t > FarOff THEN <<"at", next.at>>
                                    ELSE <<"in", humanise(next.at - t)>>

tray_line(meetings, t) ==
  LET next == next_event(occurrences_in_window(meetings, t, t + LookAhead), t)
  IN  [next |-> next, words |-> describe(next, t), drawn |-> t]

wake_in(meetings, t) ==
  LET change == next_change(occurrences_in_window(meetings, t, t + LookAhead), t)
  IN  IF change = None THEN Hour ELSE Clamp(change - t, 1, Hour)

-----------------------------------------------------------------------------
NoTimers == [left \in 0 .. Hour |-> 0]
Armed(armed, left) == [armed EXCEPT ![left] = @ + 1]

(* What one query of the store comes to: one that fails finds nothing.     *)
Found(meetings) == {meetings, {}}

(* refresh_tray draws the line, if there is a tray, and arms one timer,    *)
(* whoever called it.  Each of the two is after a query of its own.        *)
(* The mutant returns where there is no tray.                              *)
RefreshIfThereIsATray(meetings, armed) ==
  /\ line' = IF host THEN tray_line(meetings, clock) ELSE line
  /\ timers' = IF host THEN Armed(armed, wake_in(meetings, clock)) ELSE armed
  /\ lag' = None
refresh_tray(meetings, armed) ==
  \E shown, awaited \in Found(meetings) :
    /\ line' = IF host THEN tray_line(shown, clock) ELSE line
    /\ timers' = Armed(armed, wake_in(awaited, clock))
    /\ lag' = IF shown = meetings /\ awaited = meetings THEN None ELSE 0

TrayInit ==
  /\ clock = 0
  /\ store \in SUBSET Meetings
  /\ host \in BOOLEAN
  /\ \E shown, awaited \in Found(store) :
       /\ line = tray_line(IF host THEN shown ELSE {}, 0)
       /\ timers = IF host THEN Armed(NoTimers, wake_in(awaited, 0)) ELSE NoTimers
       /\ lag = IF shown = store /\ awaited = store THEN None ELSE 0
  /\ news = 0 /\ silent = 0
  /\ requests = <<>>
  /\ window = TRUE
  /\ popup = [visible |-> FALSE, active |-> FALSE, had_focus |-> FALSE, held |-> FALSE, closed |-> FALSE]

(* A moment awake; a timer that is due runs before the clock moves on.     *)
Tick ==
  /\ clock < MaxTime /\ timers[0] = 0
  /\ clock' = clock + 1
  /\ timers' = [left \in 0 .. Hour |-> IF left = Hour THEN 0 ELSE timers[left + 1]]
  /\ lag' = IF lag = None THEN None ELSE lag + 1
  /\ UNCHANGED <<store, host, line, news, silent>> /\ UNCHANGED desk

(* The machine is suspended for a while.                                   *)
Suspend ==
  /\ clock < MaxTime
  /\ clock' \in clock + 1 .. MaxTime
  /\ lag' = IF lag = None THEN 0 ELSE lag
  /\ UNCHANGED <<store, host, line, timers, news, silent>> /\ UNCHANGED desk

Fire ==
  /\ timers[0] > 0
  /\ refresh_tray(store, [timers EXCEPT ![0] = @ - 1])
  /\ UNCHANGED <<clock, store, host, news, silent>> /\ UNCHANGED desk

(* A pass with news.                                                       *)
PassWithNews ==
  /\ news + silent < MaxNews /\ news' = news + 1
  /\ store' \in SUBSET Meetings
  /\ refresh_tray(store', timers)
  /\ UNCHANGED <<clock, host, silent>> /\ UNCHANGED desk

(* A change the tray is not told of.                                       *)
Silently ==
  /\ news + silent < MaxNews /\ silent' = silent + 1
  /\ store' \in SUBSET Meetings
  /\ lag' = IF lag = None THEN 0 ELSE lag
  /\ UNCHANGED <<clock, host, line, timers, news>> /\ UNCHANGED desk

-----------------------------------------------------------------------------
(* Clicks: the tray's thread posts them, the main loop does them in order. *)

Click ==
  /\ host
  /\ Len(requests) < MaxClicks
  /\ \E request \in {"ShowDay", "ToggleWindow"} : requests' = Append(requests, request)
  /\ UNCHANGED <<tray, window, popup>>

Present(p) ==
  IF p.visible THEN p ELSE [p EXCEPT !.visible = TRUE, !.held = FALSE]

(* All that wait are done at once.  One that shows the day again does      *)
(* nothing, and of those that toggle the window every second undoes one.   *)
Toggles == {i \in DOMAIN requests : requests[i] = "ToggleWindow"}
Pump ==
  /\ requests # <<>>
  /\ popup' = IF "ShowDay" \in Range(requests) THEN Present(popup) ELSE popup
  /\ window' = IF Cardinality(Toggles) % 2 = 1 THEN ~window ELSE window
  /\ requests' = <<>>
  /\ UNCHANGED tray

(* The popup gains the focus.                                              *)
Activated ==
  /\ popup.visible /\ ~popup.active
  /\ popup' = [popup EXCEPT !.active = TRUE, !.had_focus = TRUE, !.held = TRUE]
  /\ UNCHANGED <<tray, requests, window>>

(* It loses it, or is told on its way up that it has none: once it had     *)
(* focus, and is visible, it is dismissed.                                 *)
(* The mutant does not look whether it ever had.                           *)
DeactivatedAtOnce ==
  /\ popup.visible \/ popup.active
  /\ popup' = [popup EXCEPT !.active = FALSE, !.had_focus = FALSE, !.visible = FALSE]
  /\ UNCHANGED <<tray, requests, window>>
Deactivated ==
  /\ popup.visible \/ popup.active
  /\ popup' = IF popup.had_focus /\ popup.visible
              THEN [popup EXCEPT !.active = FALSE, !.had_focus = FALSE, !.visible = FALSE]
              ELSE [popup EXCEPT !.active = FALSE]
  /\ UNCHANGED <<tray, requests, window>>

(* Escape, closing it, and the button that opens the window only hide it.  *)
Dismiss(full) ==
  /\ popup.visible /\ popup.active
  /\ popup' = [popup EXCEPT !.visible = FALSE, !.closed = TRUE]
  /\ window' = IF full THEN ~window ELSE window
  /\ UNCHANGED <<tray, requests>>

TrayNext ==
  \/ Tick \/ Suspend \/ Fire \/ PassWithNews \/ Silently
  \/ Click \/ Pump \/ Activated \/ Deactivated
  \/ \E full \in BOOLEAN : Dismiss(full)

TraySpec == TrayInit /\ [][TrayNext]_trayVars

-----------------------------------------------------------------------------
Counts == [0 .. Hour -> Nat]

TrayTypeOK ==
  /\ clock \in 0 .. MaxTime
  /\ store \subseteq Meetings
  /\ host \in BOOLEAN
  /\ line.drawn \in 0 .. MaxTime
  /\ timers \in Counts
  /\ news \in Nat /\ silent \in Nat /\ news + silent <= MaxNews
  /\ lag \in Nat \union {None}
  /\ requests \in Seq({"ShowDay", "ToggleWindow"})
  /\ window \in BOOLEAN
  /\ popup \in [visible : BOOLEAN, active : BOOLEAN, had_focus : BOOLEAN,
                held : BOOLEAN, closed : BOOLEAN]

(* While nothing happened that the tray is not told of and the store could *)
(* be read, the line names what is on or comes next among what it saw when *)
(* it was drawn, in words at most an hour old: no start or end passes      *)
(* between two timers.  And what it was not told of or could not read, it  *)
(* looks for again within an hour awake.                                   *)
LineKeepsUp ==
  host => /\ lag = None /\ timers[0] = 0 =>
               /\ line.next = next_event(Seen(line.drawn), clock)
               /\ line.words = describe(line.next, line.drawn)
               /\ clock - line.drawn <= Hour
          /\ lag <= Hour

(* Every pass with news leaves one more chain of timers than there was, and*)
(* nothing ever ends one: each timer that runs is replaced by one.         *)
Chains == UNION {{left} \X (1 .. timers[left]) : left \in 0 .. Hour}
ChainsAreCounted ==
  Cardinality(Chains) = (IF host THEN 1 ELSE 0) + news

(* The popup is dismissed before it has held the focus only in a showing   *)
(* that follows one that was closed by a key or a button.                  *)
BlinksOnlyOnceClosed ==
  [][popup.visible /\ ~popup'.visible /\ ~popup.held => popup.closed]_trayVars
=============================================================================
