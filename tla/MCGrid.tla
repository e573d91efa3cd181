------------------------------- MODULE MCGrid -------------------------------
(* Grid with six dates of three hours, the third an hour longer, the fifth  *)
(* an hour shorter and without a midnight; a series of three occurrences,   *)
(* the last in the long date's last hour, moved to slots on and across      *)
(* dates; a long event, a short one that follows the first occurrence       *)
(* beside it, one of no length at a midnight, and one of all day.           *)
EXTENDS Grid

MCDate   == 0 .. 5
MCBegins == [d \in MCDate |-> <<0, 9, 18, 30, 39, 45>>[d + 1]]

MCOccurrence == 0 .. 2
MCSlot    == {[start |-> s, end |-> s + d] : s \in {4, 16, 19}, d \in {0, 7}}
MCAllDay  == {[start |-> 9, end |-> 18]}
MCSingle  == {[start |-> 1, end |-> 8], [start |-> 6, end |-> 7], [start |-> 9, end |-> 9]}
              \cup MCAllDay
MCInstant == {Begins[d] : d \in Date} \cup {4, 7, 16, 28}
=============================================================================
