------------------------------- MODULE MCViews -------------------------------
(* Views over a week without its Tuesday and Wednesday and the Monday after, *)
(* with a month that begins on the first Monday and one on the Thursday, a   *)
(* clock that goes from Friday to Saturday, months of two weeks, and a zone  *)
(* in which that Saturday and the second Monday have no midnight.            *)
EXTENDS Views

CONSTANTS home, away  \* settings

MCDate         == {0} \union 3 .. 7
MCMonthStarts  == {0, 3}
MCToday        == 4 .. 5
MCMidnightless == {<<away, 5>>, <<away, 7>>}
=============================================================================
