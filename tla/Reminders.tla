----------------------------- MODULE Reminders ------------------------------
(***************************************************************************)
(* Reminders: deliver_due_reminders and scheduled_reminders (ui/mod.rs) on *)
(* notify_at and due (notify/mod.rs).                                      *)
(*                                                                         *)
(* Every REMINDER_TICK the program asks what came due in (reminded_to,     *)
(* now] and moves reminded_to up to now.  The clock is the wall clock: it  *)
(* jumps across a suspend and may be set back.  Meanwhile syncs and the    *)
(* user change what is scheduled, and the program is quit and started.     *)
(*                                                                         *)
(* An event here is one occurrence.  Its lead is what the cascade of       *)
(* lead_minutes resolves for it; time is in units of no fixed length, and  *)
(* the days it is divided into have no daylight saving.                    *)
(***************************************************************************)
EXTENDS Integers

CONSTANTS
  Event,        \* occurrences
  AllDay,       \* those that are all-day
  Slot,         \* what an occurrence may be: its start, its end and its lead
  Day,          \* units in a day
  AllDayHour,   \* settings.all_day_hour, in units after midnight
  Horizon,      \* how far scheduled_reminders looks to either side
  StartupGrace, \* STARTUP_GRACE
  MaxNow,       \* bound: the last instant of the clock
  MaxChanges    \* bound: changes, restarts, clock corrections, failed reads

ASSUME EventAssumption == AllDay \subseteq Event
ASSUME SlotAssumption == Slot \subseteq [start : Int, end : Int, lead : Nat]
ASSUME TimeAssumption ==
  /\ Day \in Nat \ {0}
  /\ AllDayHour \in Nat
  /\ Horizon \in Nat
  /\ StartupGrace \in Nat
  /\ MaxNow \in Nat
  /\ MaxChanges \in Nat

VARIABLES
  now,         \* the wall clock
  running,     \* the program is
  reminded_to, \* ui.reminded_to
  shown,       \* occurrences in the store, neither hidden nor cancelled
  slot,        \* slot[e]: when e is, and its lead
  told,        \* history: reminders given of e as it is, by this process
  pending,     \* history: those still ahead when last looked, as they are
  setBack,     \* history: the clock was set back under this process
  changes

scheduleVars == <<shown, slot>>
vars == <<now, running, reminded_to, scheduleVars, told, pending, setBack, changes>>

TypeOK ==
  /\ now \in 0 .. MaxNow
  /\ running \in BOOLEAN
  /\ reminded_to \in - StartupGrace .. MaxNow
  /\ shown \in SUBSET Event
  /\ slot \in [Event -> Slot]
  /\ told \in [Event -> Nat]
  /\ pending \in SUBSET shown
  /\ setBack \in BOOLEAN
  /\ changes \in 0 .. MaxChanges

-----------------------------------------------------------------------------
(* notify/mod.rs. *)

(* A timed event counts back from its start; an all-day event's lead is    *)
(* whole days, from an hour of the morning.                                *)
notify_at(e) ==
  LET s == slot[e] IN
  IF e \in AllDay THEN s.start - (s.lead \div Day) * Day + AllDayHour
                  ELSE s.start - s.lead

(* What of S is to be given in (after, t]: nothing that is over. *)
due(S, after, t) ==
  {e \in S : notify_at(e) > after /\ notify_at(e) <= t /\ slot[e].end > t}

(* scheduled_reminders: the occurrences that overlap [from, to). *)
scheduled_reminders(from, to) ==
  {e \in shown : slot[e].start < to /\ slot[e].end > from}

Ahead(t) == {e \in shown : notify_at(e) > t}

-----------------------------------------------------------------------------

(* Started, with reminded_to backdated. *)
Init ==
  /\ now \in 0 .. MaxNow
  /\ running = TRUE
  /\ reminded_to = now - StartupGrace
  /\ shown \in SUBSET Event
  /\ slot \in [Event -> Slot]
  /\ told = [e \in Event |-> 0]
  /\ pending = Ahead(now - StartupGrace)
  /\ setBack = FALSE
  /\ changes = 0

(***************************************************************************)
(* deliver_due_reminders.  A clock that has not moved, or was set back:    *)
(* reminded_to follows it and nothing is given.  Mutants: reminded_to goes *)
(* to the end of what was looked at; it stays where it is; it does not     *)
(* follow a clock set back.                                                *)
(***************************************************************************)
Deliver(S) ==
  /\ running
  /\ told' = [e \in Event |-> IF e \in S THEN told[e] + 1 ELSE told[e]]
  /\ pending' = Ahead(now)
  /\ UNCHANGED <<now, running, scheduleVars, setBack>>
Due == IF now <= reminded_to THEN {}
       ELSE due(scheduled_reminders(reminded_to - Horizon, now + Horizon), reminded_to, now)
CheckUpToTheHorizon ==
  /\ Deliver(Due)
  /\ reminded_to' = now + Horizon
  /\ UNCHANGED changes
CheckFromThere ==
  /\ Deliver(Due)
  /\ reminded_to' = IF now <= reminded_to THEN now ELSE reminded_to
  /\ UNCHANGED changes
CheckForwardOnly ==
  /\ Deliver(Due)
  /\ reminded_to' = IF now <= reminded_to THEN reminded_to ELSE now
  /\ UNCHANGED changes
Check ==
  /\ Deliver(Due)
  /\ reminded_to' = now
  /\ UNCHANGED changes

(* The store cannot be read, or one event's recurrence cannot be expanded: *)
(* nothing is found, and reminded_to moves on all the same.                *)
CheckFails ==
  /\ changes < MaxChanges
  /\ reminded_to < now
  /\ Deliver({})
  /\ reminded_to' = now
  /\ changes' = changes + 1

-----------------------------------------------------------------------------
(* The clock. *)

(* Time passes, a tick or a suspend. *)
Pass ==
  /\ now' \in (now + 1) .. MaxNow
  /\ UNCHANGED <<running, reminded_to, scheduleVars, told, pending, setBack, changes>>

(* The clock is corrected.  Whatever is ahead of it now, the program has   *)
(* still to look for it.                                                   *)
SetBack ==
  /\ changes < MaxChanges
  /\ now' \in 0 .. (now - 1)
  /\ setBack' = TRUE
  /\ changes' = changes + 1
  /\ UNCHANGED <<running, reminded_to, scheduleVars, told, pending>>

-----------------------------------------------------------------------------
(* The user and the syncs. *)

(* An occurrence arrives, moves, or has its lead changed at any level. *)
Schedule(e, s) ==
  /\ changes < MaxChanges
  /\ shown' = shown \cup {e}
  /\ slot' = [slot EXCEPT ![e] = s]
  /\ told' = [told EXCEPT ![e] = IF notify_at(e)' = notify_at(e) THEN @ ELSE 0]
  /\ pending' = pending \ {e}
  /\ changes' = changes + 1
  /\ UNCHANGED <<now, running, reminded_to, setBack>>

(* It is deleted or cancelled, or its calendar hidden. *)
Drop(e) ==
  /\ changes < MaxChanges
  /\ e \in shown
  /\ shown' = shown \ {e}
  /\ pending' = pending \ {e}
  /\ changes' = changes + 1
  /\ UNCHANGED <<now, running, reminded_to, slot, told, setBack>>

Quit ==
  /\ changes < MaxChanges
  /\ running
  /\ running' = FALSE
  /\ changes' = changes + 1
  /\ UNCHANGED <<now, reminded_to, scheduleVars, told, pending, setBack>>

(* startup. *)
Start ==
  /\ ~ running
  /\ running' = TRUE
  /\ reminded_to' = now - StartupGrace
  /\ told' = [e \in Event |-> 0]
  /\ pending' = Ahead(now - StartupGrace)
  /\ setBack' = FALSE
  /\ UNCHANGED <<now, scheduleVars, changes>>

-----------------------------------------------------------------------------

Next ==
  \/ Check
  \/ CheckFails
  \/ Pass
  \/ SetBack
  \/ \E e \in Event : \/ \E s \in Slot : Schedule(e, s)
                      \/ Drop(e)
  \/ Quit
  \/ Start

Spec == Init /\ [][Next]_vars
-----------------------------------------------------------------------------
(* Properties. *)

(***************************************************************************)
(* A reminder that was ahead of the clock when the program last looked (or *)
(* at most the grace behind it when it started) and no longer is, is given *)
(* at the next look, across a suspend, a clock set back or whatever else   *)
(* happened in between, unless its event is over; provided its event was   *)
(* left alone and its lead is shorter than the horizon.                    *)
(***************************************************************************)
Timely ==
  [][Check =>
       \A e \in pending :
         /\ notify_at(e) <= now
         /\ slot[e].end > now
         /\ slot[e].lead < Horizon
         => told'[e] = told[e] + 1]_vars

(* A reminder is given once, if the clock is not set back. *)
Once == ~ setBack => \A e \in Event : told[e] <= 1
=============================================================================
