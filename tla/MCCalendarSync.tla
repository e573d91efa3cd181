--------------------------- MODULE MCCalendarSync ---------------------------
(* CalendarSync with a plain event, an occurrence of a series, and an event *)
(* that map_event cannot read.                                              *)
EXTENDS CalendarSync

CONSTANTS plain, occurrence, broken

MCEvent == {plain, occurrence, broken}
MCInstance == {occurrence}
MCUnreadable == {broken}
=============================================================================
