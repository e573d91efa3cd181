------------------------------- MODULE MCTray -------------------------------
(* An hour of three minutes; two meetings that overlap, one beyond the     *)
(* horizon of the first minutes, and one that lasts all day.               *)
EXTENDS Tray

Meeting(from, to) == [start |-> from, end |-> to, all_day |-> FALSE]
MCMeetings ==
  {Meeting(1, 6), Meeting(2, 3), Meeting(7, 8), [start |-> 0, end |-> 5, all_day |-> TRUE]}
=============================================================================
