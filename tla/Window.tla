------------------------------- MODULE Window -------------------------------
(***************************************************************************)
(* The window query: occurrences_in_window (recur/window.rs) on            *)
(* events_for_window (store/mod.rs) and expand (recur/mod.rs).  Every view *)
(* asks it what is in a stretch of time: the grid, the month, the agenda,  *)
(* the tray and the reminders.                                             *)
(*                                                                         *)
(* The table holds a recurring series as one row, its rule, and a row for  *)
(* every occurrence the user has moved or deleted, as syncs bring them.    *)
(* The rule's arithmetic is the rrule crate's: here occurrence k starts at *)
(* FirstStart + k * Period.                                                *)
(***************************************************************************)
EXTENDS Integers

CONSTANTS
  Occurrence,  \* the numbers of the series' occurrences
  FirstStart,  \* when occurrence 0 starts: the master's own start_utc
  Period,      \* from one occurrence to the next
  Duration,    \* of an occurrence the user has not moved
  Slot,        \* where an occurrence may be moved to
  Single,      \* the times of events that do not recur
  Instant      \* where the windows asked for may begin and end

ASSUME OccurrenceAssumption == Occurrence \subseteq Nat
ASSUME SlotAssumption ==
  /\ Slot \subseteq [start : Int, end : Int]
  /\ Single \subseteq [start : Int, end : Int]
ASSUME RuleAssumption ==
  /\ FirstStart \in Int
  /\ Period \in Nat
  /\ Duration \in Nat
ASSUME InstantAssumption == Instant \subseteq Int

VARIABLES
  exceptions,  \* the occurrences that have a row of their own
  row,         \* row[k]: that row
  singles      \* rows with neither a rule nor a master

vars == <<exceptions, row, singles>>

(* When the rule would have occurrence k start. *)
RuleStart(k) == FirstStart + k * Period
RuleSlot(k)  == [start |-> RuleStart(k), end |-> RuleStart(k) + Duration]

Row == [start : Int, end : Int, original_start : Int, cancelled : BOOLEAN]

TypeOK ==
  /\ exceptions \in SUBSET Occurrence
  /\ row \in [Occurrence -> Row]
  /\ \A k \in exceptions : row[k].original_start = RuleStart(k)
  /\ singles \in SUBSET Single

(* What map_event makes of an occurrence that was moved, and of one that   *)
(* was deleted: a tombstone of no length.                                  *)
Moved(k, s) ==
  [start |-> s.start, end |-> s.end, original_start |-> RuleStart(k), cancelled |-> FALSE]
Tombstone(k) ==
  [start |-> RuleStart(k), end |-> RuleStart(k), original_start |-> RuleStart(k),
   cancelled |-> TRUE]

-----------------------------------------------------------------------------
(* The query. *)

Overlaps(s, from, to) == s.start < to /\ s.end > from

(***************************************************************************)
(* events_for_window, one operator for each kind of row it looks for.      *)
(* Mutants: the master is looked for by its own time; an exception only by *)
(* where it moved to.                                                      *)
(***************************************************************************)
MasterInRange(from, to) == Overlaps(RuleSlot(0), from, to)
MasterFetched(from, to) == FirstStart < to
ExceptionsThatMovedIn(from, to) == {k \in exceptions : Overlaps(row[k], from, to)}
ExceptionsFetched(from, to) ==
  {k \in exceptions :
     \/ from <= row[k].original_start /\ row[k].original_start < to
     \/ Overlaps(row[k], from, to)}
SinglesFetched(from, to) == {s \in singles : Overlaps(s, from, to)}

(* expand: the rule's occurrences that overlap the window. *)
expand(from, to) == {k \in Occurrence : Overlaps(RuleSlot(k), from, to)}

(* An occurrence as a view gets it: number k of the series, or k = -1 for  *)
(* an event that does not recur.                                           *)
Drawn(k, s) == [of |-> k, start |-> s.start, end |-> s.end]

(* The rule's occurrences but for those with an exception among the rows   *)
(* fetched; those exceptions that are in the window and not tombstones;    *)
(* and the rest.                                                           *)
occurrences_in_window(from, to) ==
  LET fetched == ExceptionsFetched(from, to)
      ruled   == IF MasterFetched(from, to) THEN expand(from, to) \ fetched ELSE {}
      moved   == {k \in fetched : ~ row[k].cancelled /\ Overlaps(row[k], from, to)}
  IN  {Drawn(k, RuleSlot(k)) : k \in ruled}
        \cup {Drawn(k, row[k]) : k \in moved}
        \cup {Drawn(-1, s) : s \in SinglesFetched(from, to)}

-----------------------------------------------------------------------------
(* Syncs. *)

Init ==
  /\ exceptions = {}
  /\ row = [k \in Occurrence |-> Tombstone(k)]
  /\ singles = {}

(* The user moves an occurrence, back again perhaps, or deletes it. *)
Move(k, s) ==
  /\ exceptions' = exceptions \cup {k}
  /\ row' = [row EXCEPT ![k] = Moved(k, s)]
  /\ UNCHANGED singles

Cancel(k) ==
  /\ exceptions' = exceptions \cup {k}
  /\ row' = [row EXCEPT ![k] = Tombstone(k)]
  /\ UNCHANGED singles

Add(s) ==
  /\ singles' = singles \cup {s}
  /\ UNCHANGED <<exceptions, row>>

Delete(s) ==
  /\ singles' = singles \ {s}
  /\ UNCHANGED <<exceptions, row>>

Next ==
  \/ \E k \in Occurrence : (\E s \in Slot : Move(k, s)) \/ Cancel(k)
  \/ \E s \in Single : Add(s) \/ Delete(s)

Spec == Init /\ [][Next]_vars
-----------------------------------------------------------------------------
(* Properties. *)

(* The calendar as the user made it: where each occurrence is, if anywhere. *)
Calendar ==
  {Drawn(k, RuleSlot(k)) : k \in Occurrence \ exceptions}
    \cup {Drawn(k, row[k]) : k \in {x \in exceptions : ~ row[x].cancelled}}
    \cup {Drawn(-1, s) : s \in singles}

(***************************************************************************)
(* Nothing in the window is lost, wherever an occurrence moved from: "a    *)
(* plain range query would miss two of them" (store/mod.rs).               *)
(***************************************************************************)
NothingLost ==
  \A from, to \in Instant :
    \A o \in Calendar : Overlaps(o, from, to) => o \in occurrences_in_window(from, to)

(***************************************************************************)
(* What is in the answer and not in the calendar is an occurrence that was *)
(* moved away or deleted, and only where the window begins in the middle   *)
(* of the time it had: no other is drawn twice or brought back.            *)
(***************************************************************************)
RevivedOnlyAtTheEdge ==
  \A from, to \in Instant :
    \A o \in occurrences_in_window(from, to) \ Calendar :
      o.of \in exceptions /\ RuleStart(o.of) < from /\ from < RuleStart(o.of) + Duration
=============================================================================
