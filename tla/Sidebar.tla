------------------------------ MODULE Sidebar ------------------------------
(***************************************************************************)
(* How accounts and calendars are styled, and where it shows: the columns  *)
(* of the store that are the user's, the sidebar with its cards, eyes and  *)
(* folded accounts, the colours of the events on the week, and the         *)
(* Accounts page of the preferences, which is never drawn again while it   *)
(* is open.  Each of the three is what the store was when it was drawn;    *)
(* only the handlers that end in refresh_sidebar and refresh_week draw the *)
(* first two.  An account is written by a connect on the runtime, and the  *)
(* main loop hears of it later.                                            *)
(***************************************************************************)
EXTENDS Naturals, Sequences, FiniteSets, Functions, SequencesExt

CONSTANTS
  Person,      \* the accounts there may be
  Calendars,   \* of each, in the order of the sidebar: its own comes first
  Google,      \* the colour Google gives a calendar, or None
  Palette,     \* colours of new accounts, in order
  Chosen,      \* colours the user picks
  Default,     \* DEFAULT_SWATCH
  None,        \* no colour
  MaxConnects, \* bound on connects
  MaxFaults    \* bound on statements and files that fail

ASSUME CalendarsAssumption ==
  /\ Calendars \in [Person -> Seq(DOMAIN Google) \ {<<>>}]
  /\ \A p, q \in Person : p # q => ToSet(Calendars[p]) \cap ToSet(Calendars[q]) = {}
ASSUME PaletteAssumption == Palette \in Seq(STRING) \ {<<>>} /\ IsInjective(Palette)
ASSUME BoundsAssumption == {MaxConnects, MaxFaults} \subseteq Nat

VARIABLES
  accounts,  \* the rows: colour of each account
  calendars, \* the rows: visible and user_color of each calendar
  folded,    \* accounts that the view-state file has as collapsed
  sidebar,   \* what refresh_sidebar drew, and the carets since
  week,      \* what refresh_week drew
  page,      \* the open Accounts page: its accounts and calendars, and those
             \* that can be reset; or Closed
  untold,    \* per account: connects that have written it and not told of it
  connects, faults,
  astray,    \* history: accounts the store lost or half wrote since the last
             \* drawing, with nothing drawn
  recolored  \* history: an account was removed or its colour chosen

vars == <<accounts, calendars, folded, sidebar, week, page, untold, connects, faults, astray, recolored>>

Closed == [open |-> FALSE, who |-> {}, of |-> {}, reset |-> {}]
Owner(c) == CHOOSE p \in Person : c \in ToSet(Calendars[p])
Of(p) == ToSet(Calendars[p])
Seed == [visible |-> TRUE, user_color |-> None]

-----------------------------------------------------------------------------
(* Colours. *)

(* The mutant takes the color of the account before.                       *)
ColorBefore(existing_accounts) ==
  Palette[((IF existing_accounts = 0 THEN 0 ELSE existing_accounts - 1) % Len(Palette)) + 1]
palette_color(existing_accounts) == Palette[(existing_accounts % Len(Palette)) + 1]

FirstOf(s) ==
  LET some == SelectSeq(s, LAMBDA c : c # None) IN IF some = <<>> THEN None ELSE Head(some)

(* Fill and marker of a calendar's events.  An account always has a colour *)
(* here, so that nothing falls through to a generated one.                 *)
resolve(account, calendar, c) ==
  [fill |-> FirstOf(<<calendar.user_color, Google[c], account>>), marker |-> account]

(* The sidebar's own: a calendar with no colour gets the default, not its  *)
(* account's.                                                              *)
Swatch(calendar, c) == FirstOf(<<calendar.user_color, Google[c], Default>>)

-----------------------------------------------------------------------------
(* Drawing. *)

(* read_groups, drawn: the colour of each card, the swatch, outline and eye*)
(* of each row, and the accounts that are collapsed.                       *)
Drawing(as, cs, fs) ==
  [card |-> as,
   row |-> [c \in DOMAIN cs |->
              [swatch |-> Swatch(cs[c], c),
               outlined |-> Swatch(cs[c], c) # as[Owner(c)],
               eye |-> cs[c].visible]],
   shut |-> fs \cap DOMAIN as]

(* collect_items: only the visible calendars' events are read.             *)
Painting(as, cs) ==
  [c \in {d \in DOMAIN cs : cs[d].visible} |-> resolve(as[Owner(c)], cs[c], c)]

refresh_sidebar == sidebar' = Drawing(accounts', calendars', folded')
refresh_week    == week' = Painting(accounts', calendars') /\ astray' = {}
Undrawn         == UNCHANGED <<sidebar, week>>

(* apply.  The change is made and both are drawn again; or it stops, with  *)
(* part of p's rows changed, and nothing is drawn: at a row that is gone,  *)
(* or at a statement that fails.                                           *)
(* The mutant draws the sidebar alone.                                     *)
AppliedToTheSidebar(as, cs) ==
  /\ accounts' = as /\ calendars' = cs
  /\ UNCHANGED <<folded, faults, week>> /\ astray' = {}
  /\ refresh_sidebar
Applied(as, cs) ==
  /\ accounts' = as /\ calendars' = cs
  /\ UNCHANGED <<folded, faults>>
  /\ refresh_sidebar /\ refresh_week

Stopped(p, cs) ==
  /\ calendars' = cs
  /\ astray' = IF cs = calendars THEN astray ELSE astray \union {p}
  /\ UNCHANGED <<accounts, folded, faults>> /\ Undrawn

Failed(p, cs) ==
  /\ faults < MaxFaults
  /\ faults' = faults + 1
  /\ calendars' = cs
  /\ astray' = IF cs = calendars THEN astray ELSE astray \union {p}
  /\ UNCHANGED <<accounts, folded>> /\ Undrawn

-----------------------------------------------------------------------------
(* The store's statements. *)

(* UPSERT_ACCOUNT and UPSERT_CALENDAR: what is the user's is written once. *)
(* The mutant writes them again.                                           *)
ConnectAfresh(p, listed) ==
  /\ accounts' = [q \in DOMAIN accounts \union {p} |->
                    IF q # p THEN accounts[q] ELSE palette_color(Cardinality(DOMAIN accounts))]
  /\ calendars' = [c \in DOMAIN calendars \union listed |->
                     IF c \in listed THEN Seed ELSE calendars[c]]
connect_account(p, listed) ==
  /\ accounts' = [q \in DOMAIN accounts \union {p} |->
                    IF q \in DOMAIN accounts THEN accounts[q]
                    ELSE palette_color(Cardinality(DOMAIN accounts))]
  /\ calendars' = [c \in DOMAIN calendars \union listed |->
                     IF c \in DOMAIN calendars THEN calendars[c] ELSE Seed]

Without(p) == <<Restrict(accounts, DOMAIN accounts \ {p}), Restrict(calendars, DOMAIN calendars \ Of(p))>>
Show(cs, on, visible) == [c \in DOMAIN cs |-> IF c \in on THEN [cs[c] EXCEPT !.visible = visible] ELSE cs[c]]

-----------------------------------------------------------------------------
Init ==
  /\ \E who \in {{}} \union {{p} : p \in Person} :
       /\ accounts = [p \in who |-> palette_color(0)]
       /\ calendars = [c \in UNION {Of(p) : p \in who} |-> Seed]
  /\ folded = {}
  /\ sidebar = Drawing(accounts, calendars, folded)
  /\ week = Painting(accounts, calendars)
  /\ page = Closed
  /\ untold = [p \in Person |-> 0] /\ astray = {} /\ recolored = FALSE
  /\ connects = 0 /\ faults = 0

(* connect, in one transaction: Google lists some of the calendars, and    *)
(* the account's own among them.  Connects of one account may overlap: the *)
(* dialog's buttons, Reconnect among them, stay enabled during one.        *)
ConnectWrites(p, listed) ==
  /\ connects < MaxConnects
  /\ Head(Calendars[p]) \in listed
  /\ connect_account(p, listed)
  /\ connects' = connects + 1
  /\ untold' = [untold EXCEPT ![p] = @ + 1]
  /\ UNCHANGED <<folded, page, faults, astray, recolored>> /\ Undrawn

(* start_connect's callback. *)
ConnectTold(p) ==
  /\ untold[p] > 0
  /\ untold' = [untold EXCEPT ![p] = @ - 1]
  /\ Applied(accounts, calendars)
  /\ UNCHANGED <<page, connects, recolored>>

(* The tokens cannot be kept: the row goes, whatever it was before, or     *)
(* stays when it cannot be removed either.  The callback only says so.     *)
ConnectTakenBack(p) ==
  /\ untold[p] > 0 /\ faults < MaxFaults
  /\ faults' = faults + 1
  /\ \/ accounts' = Without(p)[1] /\ calendars' = Without(p)[2] /\ recolored' = TRUE
     \/ UNCHANGED <<accounts, calendars, recolored>>
  /\ untold' = [untold EXCEPT ![p] = @ - 1]
  /\ astray' = astray \union {p}
  /\ UNCHANGED <<folded, page, connects>> /\ Undrawn

(* A pass that brought news. *)
PassTold ==
  /\ Applied(accounts, calendars)
  /\ UNCHANGED <<page, untold, connects, recolored>>

-----------------------------------------------------------------------------
(* The sidebar: what is pressed is what was drawn. *)

ClickEye(c) ==
  /\ c \in DOMAIN sidebar.row
  /\ \/ /\ c \in DOMAIN calendars
        /\ Applied(accounts, [calendars EXCEPT ![c].visible = ~sidebar.row[c].eye])
     \/ c \notin DOMAIN calendars /\ Stopped(Owner(c), calendars)
     \/ Failed(Owner(c), calendars)
  /\ UNCHANGED <<page, untold, connects, recolored>>

(* One statement for each row that was drawn, in that order; the first     *)
(* that fails is the last.                                                 *)
ClickAccountEye(p) ==
  /\ p \in DOMAIN sidebar.card
  /\ LET drawn(n) == {Calendars[p][i] : i \in 1 .. n} \cap DOMAIN sidebar.row
         all      == drawn(Len(Calendars[p]))
         visible  == \E c \in all : ~sidebar.row[c].eye
         after(n) == Show(calendars, drawn(n), visible)
     IN  \/ all \subseteq DOMAIN calendars /\ Applied(accounts, Show(calendars, all, visible))
         \/ \E n \in DOMAIN Calendars[p] :
              /\ Calendars[p][n] \in DOMAIN sidebar.row
              /\ drawn(n - 1) \subseteq DOMAIN calendars
              /\ IF Calendars[p][n] \in DOMAIN calendars THEN Failed(p, after(n - 1))
                 ELSE Stopped(p, after(n - 1))
  /\ UNCHANGED <<page, untold, connects, recolored>>

Remembered(shut, p, closing) == IF closing THEN shut \union {p} ELSE shut \ {p}

(* What one write makes of the view-state file: it is as it should be, as  *)
(* it was, or emptied by a write that got no further.                      *)
set_view_state(file, p, closing) ==
  {[file EXCEPT !.folded = Remembered(@, p, closing)]} \union
  IF file.faults < MaxFaults
  THEN {[folded |-> f, faults |-> file.faults + 1] : f \in {file.folded, {}}} ELSE {}
File == [folded |-> folded, faults |-> faults]

(* A caret turns whatever becomes of the file. *)
Caret(p) ==
  /\ p \in DOMAIN sidebar.card
  /\ LET closing == p \notin sidebar.shut
     IN  /\ sidebar' = [sidebar EXCEPT !.shut = Remembered(@, p, closing)]
         /\ \E file \in set_view_state(File, p, closing) : folded' = file.folded /\ faults' = file.faults
  /\ UNCHANGED <<accounts, calendars, week, page, untold, connects, astray, recolored>>

(* Of the accounts in the store and the file, not of those on the screen.  *)
(* The mutant asks whether none is.                                        *)
NoneOpen == \A p \in DOMAIN accounts : p \in folded
any_open == \E p \in DOMAIN accounts : p \notin folded

(* One write for each account, whatever became of the others.  Some are    *)
(* missed; where one of those emptied the file, what it holds is the       *)
(* accounts written after it.                                              *)
FoldAll ==
  /\ \E missed \in SUBSET DOMAIN accounts :
       LET kept == DOMAIN accounts \ missed
       IN  /\ faults' = faults + Cardinality(missed)
           /\ faults' <= MaxFaults
           /\ \/ folded' = IF any_open THEN folded \union kept ELSE folded \ kept
              \/ /\ missed # {}
                 /\ \E later \in SUBSET kept : folded' = IF any_open THEN later ELSE {}
  /\ UNCHANGED <<accounts, calendars, week, page, untold, connects, astray, recolored>>
  /\ refresh_sidebar

-----------------------------------------------------------------------------
(* The Accounts page. *)

OpenPage ==
  /\ ~page.open
  /\ page' = [open |-> TRUE, who |-> DOMAIN accounts, of |-> DOMAIN calendars,
              reset |-> {c \in DOMAIN calendars : calendars[c].user_color # None}]
  /\ UNCHANGED <<accounts, calendars, folded, sidebar, week, untold, connects, faults, astray, recolored>>

ClosePage ==
  /\ page.open
  /\ page' = Closed
  /\ UNCHANGED <<accounts, calendars, folded, sidebar, week, untold, connects, faults, astray, recolored>>

(* The setters fail on a row that is gone. *)
set_account_color(p, color) ==
  /\ p \in page.who
  /\ \/ p \in DOMAIN accounts /\ Applied([accounts EXCEPT ![p] = color], calendars)
     \/ p \notin DOMAIN accounts /\ Stopped(p, calendars)
     \/ Failed(p, calendars)
  /\ recolored' = TRUE
  /\ UNCHANGED <<page, untold, connects>>

set_calendar_user_color(c, color) ==
  /\ c \in page.of
  /\ color = None => c \in page.reset
  /\ \/ c \in DOMAIN calendars /\ Applied(accounts, [calendars EXCEPT ![c].user_color = color])
     \/ c \notin DOMAIN calendars /\ Stopped(Owner(c), calendars)
     \/ Failed(Owner(c), calendars)
  /\ UNCHANGED <<page, untold, connects, recolored>>

(* confirm_remove.  Removing what is not there is no error. *)
remove_account(p) ==
  /\ p \in page.who
  /\ Applied(Without(p)[1], Without(p)[2]) \/ Failed(p, calendars)
  /\ recolored' = TRUE
  /\ UNCHANGED <<page, untold, connects>>

-----------------------------------------------------------------------------
Listing(p) == {listed \in SUBSET Of(p) : Head(Calendars[p]) \in listed}

Next ==
  \/ \E p \in Person : \/ \E listed \in Listing(p) : ConnectWrites(p, listed)
                       \/ ConnectTold(p)
                       \/ ConnectTakenBack(p)
                       \/ ClickAccountEye(p)
                       \/ Caret(p)
                       \/ \E color \in Chosen : set_account_color(p, color)
                       \/ remove_account(p)
  \/ \E c \in DOMAIN Google : \/ ClickEye(c)
                             \/ \E color \in Chosen \union {None} : set_calendar_user_color(c, color)
  \/ PassTold \/ FoldAll \/ OpenPage \/ ClosePage

Spec == Init /\ [][Next]_vars

-----------------------------------------------------------------------------
Untold == {p \in Person : untold[p] > 0}

On(S, f) == Restrict(f, S \cap DOMAIN f)

(* "Redraw both surfaces that depend on it" (ui/mod.rs, apply): the cards, *)
(* eyes and swatches of an account, and the colours of its events, are     *)
(* what the store says, unless a connect has written it and not yet said   *)
(* so, or failed to keep it or a row of eyes stopped half way and nothing  *)
(* was drawn since.  So an eye tells whether the events are on the grid.   *)
SidebarTruthful ==
  LET now == Drawing(accounts, calendars, folded) IN
  \A p \in Person \ (Untold \union astray) :
    /\ On({p}, sidebar.card) = On({p}, now.card)
    /\ On(Of(p), sidebar.row) = On(Of(p), now.row)
    /\ On(Of(p), week) = On(Of(p), Painting(accounts, calendars))

(* "Sync never writes here" (store/mod.rs): however often an account is    *)
(* connected again, told of or given up, what the user chose for the rows  *)
(* that stay is as it was.                                                 *)
StylingIsTheUsers ==
  [][untold' # untold =>
       /\ \A p \in DOMAIN accounts \cap DOMAIN accounts' : accounts'[p] = accounts[p]
       /\ \A c \in DOMAIN calendars \cap DOMAIN calendars' : calendars'[c] = calendars[c]]_vars

(* "The criterion that matters is telling two accounts apart at a glance"  *)
(* (accounts/mod.rs): as long as there are colours, no two accounts have   *)
(* the same, until one is removed or taken back or the user picks one.     *)
MarkersDistinct ==
  ~recolored /\ Cardinality(DOMAIN accounts) <= Len(Palette) => IsInjective(accounts)

(* "Doing whichever leaves the sidebar different from now" (ui/mod.rs):    *)
(* pressing the button would change what is drawn, although it goes by the *)
(* store and the file, as long as no write to them has failed.             *)
FoldAllTurnsTheSidebar ==
  LET after == IF any_open THEN folded \union DOMAIN accounts ELSE folded \ DOMAIN accounts
  IN  faults = 0 /\ DOMAIN accounts # {} => sidebar # Drawing(accounts, calendars, after)
=============================================================================
