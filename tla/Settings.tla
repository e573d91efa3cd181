------------------------------ MODULE Settings ------------------------------
(***************************************************************************)
(* The user's settings: the file settings.toml that the user writes by     *)
(* hand and the preferences dialog writes line by line, what the running   *)
(* program holds of it, and the rows of the dialog.  The program may be    *)
(* killed between any two writes, a write may fail before or after it has  *)
(* emptied the file, and the user may edit the file at any time.           *)
(* A line is an assignment or something else (a comment, a key of the      *)
(* user's own, a line that cannot be read).  The lines of a file stand at  *)
(* positions in increasing order; a line that goes leaves its position     *)
(* empty, so that a line has the same one for as long as it is there.  A   *)
(* zone is its row in the dropdown, and a name the dropdown does not have  *)
(* is a number beyond.                                                     *)
(***************************************************************************)
EXTENDS Integers, Sequences, FiniteSets, Functions

CONSTANTS
  LastHour,       \* hours of a day, 24 in the code
  DefaultStart,   \* core hours when the file names none
  DefaultEnd,
  ZoneCount,      \* zones the dropdown lists: 0 .. ZoneCount - 1
  HandWritten,    \* files the user may leave: records [readable, lines]
  MaxMishaps      \* bound on edits by hand and failed writes

ASSUME HoursAssumption ==
  /\ {LastHour, DefaultStart, DefaultEnd} \subseteq Nat
  /\ DefaultStart < DefaultEnd /\ DefaultEnd <= LastHour
ASSUME ZonesAssumption == ZoneCount \in Nat \ {0}
ASSUME MishapsAssumption == MaxMishaps \in Nat

Line(key, value) == [key |-> key, value |-> value]
IsText(lines) ==
  /\ lines = [i \in DOMAIN lines |-> Line(lines[i].key, lines[i].value)]
  /\ \A i \in DOMAIN lines : lines[i].value \in Int
  /\ DOMAIN lines \subseteq Nat /\ IsFiniteSet(DOMAIN lines)
IsFile(f) ==
  /\ f = [readable |-> f.readable, lines |-> f.lines]
  /\ f.readable \in BOOLEAN /\ IsText(f.lines)
ASSUME HandWrittenAssumption == \A f \in HandWritten : IsFile(f)

VARIABLES
  toml,      \* settings.toml: whether it is text, and its lines
  oauth,     \* oauth.toml: "absent", "unusable" or "usable"
  screen,    \* what the window shows, "none" while the program is not running
  mem,       \* Ui::settings
  rows,      \* the rows of the open dialog, or NoDialog
  todo,      \* calls of on_change the running handler has still to make
  mishaps,   \* edits by hand and failed writes so far
  trusted    \* history: started from a file that parses, no write failed since,
             \* and nobody else wrote it

settingsVars == <<toml, oauth, screen, mem, rows, todo, mishaps, trusted>>

Unset == -1
Zones == 0 .. ZoneCount - 1
Hours == 0 .. LastHour
Keys == {"timezone", "secondary_timezone", "core_hours_start", "core_hours_end"}
Least(S) == CHOOSE i \in S : \A j \in S : i <= j
Greatest(S) == CHOOSE i \in S : \A j \in S : j <= i
NoDialog == [open |-> FALSE]

-----------------------------------------------------------------------------
(* The file: parse, load and set_setting.                                  *)

(* The last assignment of a key is the one that counts.                    *)
ValueOf(lines, key) ==
  LET at == {i \in DOMAIN lines : lines[i].key = key}
  IN  IF at = {} THEN Unset ELSE lines[Greatest(at)].value

Hour(lines, key, default) ==
  IF ValueOf(lines, key) = Unset THEN default ELSE ValueOf(lines, key)

parse(lines) ==
  [timezone |-> ValueOf(lines, "timezone"),
   secondary_timezone |-> ValueOf(lines, "secondary_timezone"),
   core_hours_start |-> Hour(lines, "core_hours_start", DefaultStart),
   core_hours_end |-> Hour(lines, "core_hours_end", DefaultEnd)]

(* One line that is no assignment, or a band that is none, and the whole   *)
(* file is refused.                                                        *)
Parses(lines) ==
  /\ \A i \in DOMAIN lines : lines[i].key # "?"
  /\ parse(lines).core_hours_start \in Hours
  /\ parse(lines).core_hours_end \in Hours
  /\ parse(lines).core_hours_start < parse(lines).core_hours_end

Defaults == parse(<<>>)

load(f) == IF f.readable /\ Parses(f.lines) THEN parse(f.lines) ELSE Defaults

After(lines) == IF DOMAIN lines = {} THEN 1 ELSE Greatest(DOMAIN lines) + 1

(* The mutant writes the file from what it read of it.                     *)
WrittenFromTheMap(lines, key, value) ==
  LET rest == {i \in DOMAIN lines : lines[i].key \in Keys \ {key}}
  IN  IF value = Unset THEN Restrict(lines, rest)
      ELSE [i \in rest \union {After(lines)} |-> IF i \in rest THEN lines[i] ELSE Line(key, value)]

(* The key's first line is replaced where it stands and its other lines go;*)
(* a key without a line is appended; clearing a key drops all its lines.   *)
set_setting(lines, key, value) ==
  LET mine == {i \in DOMAIN lines : lines[i].key = key}
      rest == DOMAIN lines \ mine
      here == IF mine = {} THEN After(lines) ELSE Least(mine)
  IN  IF value = Unset THEN Restrict(lines, rest)
      ELSE [i \in rest \union {here} |-> IF i = here THEN Line(key, value) ELSE lines[i]]

(* What a write leaves: the new text; the old one, when the file could not *)
(* be opened; or nothing, when it was emptied and then not written.  A     *)
(* file that is not text reads as empty, and is replaced.                  *)
Written(f, key, value) ==
  [readable |-> TRUE, lines |-> set_setting(IF f.readable THEN f.lines ELSE <<>>, key, value)]
Emptied == [readable |-> TRUE, lines |-> <<>>]

-----------------------------------------------------------------------------
(* What the dialog shows as it opens: a zone it does not list is shown as  *)
(* its first row.                                                          *)
Current ==
  [open |-> TRUE,
   timezone |-> IF mem.timezone \in Zones THEN mem.timezone ELSE 0,
   secondary_timezone |-> IF mem.secondary_timezone \in Zones THEN mem.secondary_timezone ELSE Unset,
   core_hours_start |-> mem.core_hours_start,
   core_hours_end |-> mem.core_hours_end]

Idle == screen = "calendar" /\ todo = <<>>

SettingsInit ==
  /\ toml \in HandWritten
  /\ oauth \in {"absent", "unusable", "usable"}
  /\ screen = "none"
  /\ mem = Defaults
  /\ rows = NoDialog
  /\ todo = <<>>
  /\ mishaps = 0
  /\ trusted = FALSE

(* Activating a program that runs presents its window, whatever it shows:  *)
(* only a start reads the two files.                                       *)
Activate ==
  /\ screen = "none"
  /\ screen' = CASE oauth = "absent"   -> "onboarding"
                 [] oauth = "unusable" -> "error"
                 [] oauth = "usable"   -> "calendar"
  /\ mem' = IF oauth = "usable" THEN load(toml) ELSE Defaults
  /\ trusted' = (oauth = "usable" /\ toml.readable /\ Parses(toml.lines))
  /\ UNCHANGED <<toml, oauth, rows, todo, mishaps>>

(* The program is closed, or killed in the middle of a handler.            *)
Stop ==
  /\ screen # "none"
  /\ screen' = "none" /\ mem' = Defaults /\ rows' = NoDialog /\ todo' = <<>> /\ trusted' = FALSE
  /\ UNCHANGED <<toml, oauth, mishaps>>

EditByHand ==
  /\ mishaps < MaxMishaps
  /\ mishaps' = mishaps + 1
  /\ \/ toml' \in HandWritten /\ trusted' = FALSE /\ UNCHANGED oauth
     \/ oauth' \in {"unusable", "usable"} /\ UNCHANGED <<toml, trusted>>
  /\ UNCHANGED <<screen, mem, rows, todo>>

OpenDialog ==
  /\ Idle /\ ~rows.open
  /\ rows' = Current
  /\ UNCHANGED <<toml, oauth, screen, mem, todo, mishaps, trusted>>

CloseDialog ==
  /\ Idle /\ rows.open
  /\ rows' = NoDialog
  /\ UNCHANGED <<toml, oauth, screen, mem, todo, mishaps, trusted>>

(* Moving a row tells on_change; moving an hour to or past the other moves *)
(* the other first, and that row's own handler tells on_change before.     *)
Tell(moved, calls) ==
  /\ rows' = moved
  /\ todo' = calls
  /\ UNCHANGED <<toml, oauth, screen, mem, mishaps, trusted>>

(* The mutants tell of the row that was moved first; let the end be moved  *)
(* to the start.                                                           *)
MoveStartFirst(hour) ==
  /\ Idle /\ rows.open /\ hour # rows.core_hours_start
  /\ IF hour >= rows.core_hours_end
     THEN Tell([rows EXCEPT !.core_hours_start = hour, !.core_hours_end = hour + 1],
               <<Line("core_hours_start", hour), Line("core_hours_end", hour + 1)>>)
     ELSE Tell([rows EXCEPT !.core_hours_start = hour], <<Line("core_hours_start", hour)>>)
MoveEndAlone(hour) ==
  /\ Idle /\ rows.open /\ hour # rows.core_hours_end
  /\ Tell([rows EXCEPT !.core_hours_end = hour], <<Line("core_hours_end", hour)>>)

MoveStart(hour) ==
  /\ Idle /\ rows.open /\ hour # rows.core_hours_start
  /\ IF hour >= rows.core_hours_end
     THEN Tell([rows EXCEPT !.core_hours_start = hour, !.core_hours_end = hour + 1],
               <<Line("core_hours_end", hour + 1), Line("core_hours_start", hour)>>)
     ELSE Tell([rows EXCEPT !.core_hours_start = hour], <<Line("core_hours_start", hour)>>)

MoveEnd(hour) ==
  /\ Idle /\ rows.open /\ hour # rows.core_hours_end
  /\ IF hour <= rows.core_hours_start
     THEN Tell([rows EXCEPT !.core_hours_end = hour, !.core_hours_start = hour - 1],
               <<Line("core_hours_start", hour - 1), Line("core_hours_end", hour)>>)
     ELSE Tell([rows EXCEPT !.core_hours_end = hour], <<Line("core_hours_end", hour)>>)

ChooseZone(zone) ==
  /\ Idle /\ rows.open /\ zone # rows.timezone
  /\ Tell([rows EXCEPT !.timezone = zone], <<Line("timezone", zone)>>)

ChooseSecond(zone) ==
  /\ Idle /\ rows.open /\ zone # rows.secondary_timezone
  /\ Tell([rows EXCEPT !.secondary_timezone = zone], <<Line("secondary_timezone", zone)>>)

(* apply_setting: the write, however it ends, and then the setting itself. *)
apply_setting ==
  /\ todo # <<>>
  /\ LET call == Head(todo)
     IN  /\ \/ toml' = Written(toml, call.key, call.value) /\ UNCHANGED <<mishaps, trusted>>
            \/ /\ mishaps < MaxMishaps
               /\ toml' \in {toml, Emptied} /\ trusted' = FALSE /\ mishaps' = mishaps + 1
         /\ mem' = [mem EXCEPT ![call.key] = call.value]
  /\ todo' = Tail(todo)
  /\ UNCHANGED <<oauth, screen, rows>>

SettingsNext ==
  \/ Activate \/ Stop \/ EditByHand \/ OpenDialog \/ CloseDialog \/ apply_setting
  \/ \E hour \in 0 .. LastHour - 1 : MoveStart(hour)
  \/ \E hour \in 1 .. LastHour : MoveEnd(hour)
  \/ \E zone \in Zones : ChooseZone(zone)
  \/ \E zone \in Zones \union {Unset} : ChooseSecond(zone)

SettingsSpec == SettingsInit /\ [][SettingsNext]_settingsVars

-----------------------------------------------------------------------------
SettingsTypeOK ==
  /\ IsFile(toml)
  /\ oauth \in {"absent", "unusable", "usable"}
  /\ screen \in {"none", "onboarding", "error", "calendar"}
  /\ mem \in [timezone : Int, secondary_timezone : Int, core_hours_start : Int, core_hours_end : Int]
  /\ rows \in {NoDialog} \union
              [open : {TRUE}, timezone : Int, secondary_timezone : Int,
               core_hours_start : Int, core_hours_end : Int]
  /\ todo \in Seq([key : Keys, value : Int])
  /\ mishaps \in 0 .. MaxMishaps /\ trusted \in BOOLEAN

(* A file the program found readable and nobody else wrote stays readable  *)
(* through every change in the dialog, in the middle of a handler too, and *)
(* a restart finds in it exactly the settings that were in effect.         *)
RestartKeepsTheSettings ==
  trusted => /\ Parses(toml.lines)
             /\ todo = <<>> => load(toml) = mem

(* The dialog shows the settings in effect, and the two hours it shows     *)
(* bound a band.  A zone it does not list has no row to be shown at.       *)
RowsTellTheTruth ==
  Idle /\ rows.open =>
    /\ rows.core_hours_start < rows.core_hours_end
    /\ \A key \in Keys : mem[key] \in Zones \/ key \in {"core_hours_start", "core_hours_end"}
                           => rows[key] = mem[key]

(* The program changes one key of the file at a time: every other line,    *)
(* comments and the user's own keys included, stays as it was and where it *)
(* was, unless the file was not text or the write failed half way.         *)
Others(lines, key) == Restrict(lines, {i \in DOMAIN lines : lines[i].key # key})
TheRestIsTheUsers ==
  [][mishaps' = mishaps /\ toml' # toml /\ toml.readable
       => \E key \in Keys : Others(toml'.lines, key) = Others(toml.lines, key)]_settingsVars
=============================================================================
