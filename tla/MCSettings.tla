----------------------------- MODULE MCSettings -----------------------------
(* Days of three hours and two zones; a file the user left empty, one with *)
(* a comment, a key of the user's own, a key twice and an unknown zone, one*)
(* with a line that cannot be read, one whose band is none, and one that   *)
(* is not text.                                                            *)
EXTENDS Settings

Text(lines) == [readable |-> TRUE, lines |-> lines]
Comment == Line("#", 0)
Own == Line("own", 7)
MCHandWritten ==
  { Text(<<>>),
    Text(<<Line("core_hours_start", 0), Comment, Line("core_hours_start", 1), Own, Line("timezone", 9)>>),
    Text(<<Line("timezone", 1), Line("?", 0)>>),
    Text(<<Line("core_hours_start", 2), Line("core_hours_end", 2), Line("timezone", 0)>>),
    [readable |-> FALSE, lines |-> <<Comment, Line("timezone", 1)>>] }
=============================================================================
