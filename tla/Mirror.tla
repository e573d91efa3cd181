------------------------------- MODULE Mirror -------------------------------
(***************************************************************************)
(* What syncing one calendar promises, whatever the protocol: a local copy *)
(* of the calendar and a cursor that never claims more than the copy       *)
(* holds.  `google` is the calendar as Google has it, `events` the rows of *)
(* the local table, `sync_token` the version up to which the copy is       *)
(* claimed to be complete, with NoToken claiming nothing.                  *)
(*                                                                         *)
(* CalendarSync refines this module.                                       *)
(***************************************************************************)
EXTENDS Naturals

CONSTANTS
  Event,      \* the ids an event of the calendar may have
  Instance    \* those that name one occurrence of a recurring series

ASSUME InstanceAssumption == Instance \subseteq Event

VARIABLES
  clock,      \* Google's version counter for the calendar
  google,     \* google[e]: the version of e that Google now has
  events,     \* events[e]: the version of e in the local table
  sync_token  \* the stored cursor

mirrorVars == <<clock, google, events, sync_token>>

(***************************************************************************)
(* A version of an event: when Google last touched it, and whether it is   *)
(* still there.  Never is an event Google has never had; as a row it is    *)
(* the absence of the row.                                                 *)
(***************************************************************************)
Version == [at : Nat, live : BOOLEAN]
Never   == [at |-> 0, live |-> FALSE]
NoToken == 0

MirrorTypeOK ==
  /\ clock \in Nat \ {NoToken}
  /\ google \in [Event -> Version]
  /\ events \in [Event -> Version]
  /\ sync_token \in Nat

(***************************************************************************)
(* A live event is kept.  So is a cancelled occurrence of a series: its    *)
(* row is what stops the series' rule from producing it again.  Any other  *)
(* deleted event has no row.                                               *)
(***************************************************************************)
Keeps(e, v) == v.live \/ e \in Instance

MirrorInit ==
  /\ clock = 1
  /\ google \in [Event -> {Never, [at |-> 1, live |-> TRUE]}]
  /\ events = [e \in Event |-> Never]
  /\ sync_token = NoToken

(* The rows s hold everything Google had settled by version t. *)
CompleteUpTo(t, s) ==
  \A e \in Event :
    google[e].at <= t /\ Keeps(e, google[e]) => s[e] = google[e]

(* The user edits the calendar in Google's own interface. *)
Edit(e, alive) ==
  /\ alive \/ google[e].live \/ e \in Instance
  /\ clock' = clock + 1
  /\ google' = [google EXCEPT ![e] = [at |-> clock + 1, live |-> alive]]
  /\ UNCHANGED <<events, sync_token>>

(***************************************************************************)
(* Rows change only forward, to a version Google has or had, or go away;   *)
(* and never so that the cursor's claim becomes false.                     *)
(***************************************************************************)
Write ==
  /\ events' \in [Event -> Version]
  /\ \A e \in Event :
       \/ events'[e] \in {events[e], Never}
       \/ events[e].at < events'[e].at /\ events'[e].at <= google[e].at
  /\ CompleteUpTo(sync_token, events')
  /\ UNCHANGED <<clock, google, sync_token>>

(* The cursor moves forward, to a version the rows are complete for. *)
Advance ==
  /\ sync_token' \in sync_token .. clock
  /\ CompleteUpTo(sync_token', events)
  /\ UNCHANGED <<clock, google, events>>

(* The cursor is given up: from here on the rows are not trusted. *)
Distrust ==
  /\ sync_token' = NoToken
  /\ UNCHANGED <<clock, google, events>>

MirrorNext ==
  \/ \E e \in Event, alive \in BOOLEAN : Edit(e, alive)
  \/ Write
  \/ Advance
  \/ Distrust

MirrorSpec == MirrorInit /\ [][MirrorNext]_mirrorVars

(* Nothing the cursor vouches for is missing from the table or out of date. *)
NothingMissing == CompleteUpTo(sync_token, events)
=============================================================================
