------------------------------ MODULE MCSidebar ------------------------------
(* An account with two calendars, one of which Google gives no colour, and  *)
(* one with a single calendar, and two colours, one of which the user       *)
(* picks.                                                                   *)
EXTENDS Sidebar

CONSTANTS ann, bob, own, team, other

MCPerson    == {ann, bob}
MCCalendars == [p \in MCPerson |-> IF p = ann THEN <<own, team>> ELSE <<other>>]
MCGoogle    == [c \in {own, team, other} |-> IF c = team THEN None ELSE "pink"]
MCPalette   == <<"blue", "orange">>
MCChosen    == {"orange"}
=============================================================================
