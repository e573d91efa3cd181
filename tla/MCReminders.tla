---------------------------- MODULE MCReminders -----------------------------
(* Reminders of a meeting and of an all-day event, in days of four units.  *)
(* The meeting may have no length; leads are none, a day, and longer than  *)
(* the program looks ahead.                                                *)
EXTENDS Reminders

CONSTANTS meeting, holiday

MCEvent  == {meeting, holiday}
MCAllDay == {holiday}
MCSlot   == {[start |-> s, end |-> s + d, lead |-> l] :
               s \in {4, 8}, d \in {0, 3}, l \in {0, 4, 6}}
=============================================================================
