---------------------------- MODULE CalendarSync ----------------------------
(***************************************************************************)
(* sync::sync_calendar on one calendar (sync/mod.rs), against Google's     *)
(* paged events.list and a store that may lose the process at any moment.  *)
(*                                                                         *)
(* A sync reads the stored cursor, asks for the first page (of a delta if  *)
(* there is a cursor, of everything if not), writes each page as it        *)
(* arrives, and records the last page's cursor.  A cursor Google refuses   *)
(* (410) is dropped, the table is cleared and everything is fetched again. *)
(* No step is in a transaction with another: a failure or a crash leaves   *)
(* what was written so far.                                                *)
(*                                                                         *)
(* Google is external.  Its version counter stands for its tokens: the     *)
(* sync token t means "you have seen every change up to t".  Edits go on   *)
(* while pages are being fetched and while a page waits to be written.     *)
(***************************************************************************)
EXTENDS Mirror

CONSTANTS
  Unreadable, \* events whose wire form map_event cannot read
  MaxClock,   \* bound: the last version Google's calendar reaches
  MaxPages,   \* bound: the pages of one listing
  MaxFaults   \* bound: refusals, failures and crashes in a behaviour

ASSUME UnreadableAssumption == Unreadable \subseteq Event
ASSUME BoundsAssumption ==
  /\ MaxClock \in Nat
  /\ MaxPages \in Nat \ {0}
  /\ MaxFaults \in Nat

VARIABLES
  pc,           \* where the sync is
  sent,         \* the cursor this run was given (run's sync_token argument)
  page_token,   \* run's page_token; 0 is None, n the token of page n + 1
  asof,         \* Google: the version at which the listing being paged began
  todo,         \* Google: events of that listing not yet on a page
  page,         \* the page received and not yet written
  report_token, \* report.sync_token
  outcome,      \* what the last sync returned, "none" if it never did
  leftover,     \* history: a full fetch began over rows already in the table
  faults        \* refusals, failures and crashes so far

netVars == <<asof, todo, page>>
runVars == <<sent, page_token, report_token>>
vars == <<clock, google, events, sync_token, pc, netVars, runVars,
          outcome, leftover, faults>>

Page == [items : [Event -> Version], next_page_token : Nat, next_sync_token : Nat]

NoRows == [e \in Event |-> Never]
NoPage == [items |-> NoRows, next_page_token |-> 0, next_sync_token |-> NoToken]

TypeOK ==
  /\ MirrorTypeOK
  /\ pc \in {"idle", "request", "page", "commit", "refused", "clearing"}
  /\ sent \in Nat
  /\ page_token \in Nat
  /\ asof \in Nat
  /\ todo \in SUBSET Event
  /\ page \in Page
  /\ report_token \in Nat
  /\ outcome \in {"none", "ok", "failed"}
  /\ leftover \in BOOLEAN
  /\ faults \in Nat

Init ==
  /\ MirrorInit
  /\ pc = "idle"
  /\ sent = NoToken
  /\ page_token = 0
  /\ asof = 0
  /\ todo = {}
  /\ page = NoPage
  /\ report_token = NoToken
  /\ outcome = "none"
  /\ leftover = FALSE
  /\ faults = 0

(* The user's edits at Google, up to MaxClock. *)
Change(e, alive) ==
  /\ clock < MaxClock
  /\ Edit(e, alive)
  /\ UNCHANGED <<pc, netVars, runVars, outcome, leftover, faults>>

-----------------------------------------------------------------------------
(* Starting. *)

(***************************************************************************)
(* sync_calendar: with a cursor a delta, without one full_sync, which does *)
(* not clear what an earlier attempt left in the table.                    *)
(***************************************************************************)
Begin ==
  /\ pc = "idle"
  /\ pc' = "request"
  /\ sent' = sync_token
  /\ page_token' = 0
  /\ report_token' = NoToken
  /\ leftover' = (leftover \/ (sync_token = NoToken /\ events # NoRows))
  /\ UNCHANGED <<clock, google, events, sync_token, netVars, outcome, faults>>

-----------------------------------------------------------------------------
(* Google's answers. *)

(* The cursor rides on the first request only; a mutant sends it on all. *)
SentOnEveryPage == sent
RequestToken == IF page_token = 0 THEN sent ELSE NoToken

(***************************************************************************)
(* What a listing will mention: a delta, every event touched since the     *)
(* token; everything, every event that is there and every cancelled        *)
(* occurrence, and of the other deleted events whichever Google still      *)
(* remembers.                                                              *)
(***************************************************************************)
Listings ==
  IF RequestToken # NoToken
    THEN {{e \in Event : google[e].at > RequestToken}}
    ELSE LET had  == {e \in Event : google[e].at > 0}
             kept == {e \in had : Keeps(e, google[e])}
         IN  {kept \cup S : S \in SUBSET (had \ kept)}

(***************************************************************************)
(* events_page: one page.  The request that carries a page token continues *)
(* the listing that token belongs to, and is refused if it carries a sync  *)
(* token as well; the one that does not begins a listing.  `ids` go on     *)
(* this page; `last` says no page follows, and then the page carries the   *)
(* next sync token.                                                        *)
(***************************************************************************)
Answer(ids, last) ==
  /\ pc = "request"
  /\ page_token = 0 \/ RequestToken = NoToken
  /\ last \/ page_token < MaxPages - 1
  /\ asof' = IF page_token = 0 THEN clock ELSE asof
  /\ \E listing \in IF page_token = 0 THEN Listings ELSE {todo} :
       /\ ids \subseteq listing
       /\ last => ids = listing
       /\ todo' = listing \ ids
  /\ page' = [items |-> [e \in Event |-> IF e \in ids THEN google[e] ELSE Never],
              next_page_token |-> IF last THEN 0 ELSE page_token + 1,
              next_sync_token |-> IF last THEN asof' ELSE NoToken]
  /\ pc' = "page"
  /\ UNCHANGED <<clock, google, events, sync_token, runVars, outcome, leftover, faults>>

(***************************************************************************)
(* A page whose next page is itself.  Google does not do this; the code    *)
(* guards against it all the same.                                         *)
(***************************************************************************)
AnswerSelf ==
  /\ pc = "request"
  /\ page_token > 0
  /\ faults < MaxFaults
  /\ page' = [items |-> NoRows, next_page_token |-> page_token,
              next_sync_token |-> NoToken]
  /\ pc' = "page"
  /\ faults' = faults + 1
  /\ UNCHANGED <<clock, google, events, sync_token, asof, todo, runVars,
                 outcome, leftover>>

(***************************************************************************)
(* 410 GONE.  In a delta it sends sync_calendar to the refetch; in a full  *)
(* fetch there is no cursor to drop and it is a failure like any other.    *)
(***************************************************************************)
Refuse ==
  /\ pc = "request"
  /\ sent # NoToken
  /\ faults < MaxFaults
  /\ pc' = "refused"
  /\ faults' = faults + 1
  /\ UNCHANGED <<clock, google, events, sync_token, netVars, runVars, outcome, leftover>>

-----------------------------------------------------------------------------
(* The client's steps. *)

(***************************************************************************)
(* map_event, and what run does with its result: the row e is left with.   *)
(* Mutants: every cancelled event is kept; a row has no status.            *)
(***************************************************************************)
KeepsEveryCancellation(e, v) == v
StoresNoStatus(e, v) == IF Keeps(e, v) THEN [at |-> v.at] ELSE Never
Mapped(e, v) == IF Keeps(e, v) THEN v ELSE Never

(* map_event fails: an event that is to be stored and cannot be read. *)
Fails(e, v) == e \in Unreadable /\ Keeps(e, v)

(* The ids the page mentions. *)
Mentioned == {e \in Event : page.items[e] # Never}

(* The table once the items of P, in whatever order, have been written.    *)
(* Mutants: a cancelled item is skipped; a row already there is not        *)
(* updated.                                                                *)
SkipsCancellations(P) ==
  [e \in Event |-> IF e \in P /\ Keeps(e, page.items[e])
                     THEN page.items[e] ELSE events[e]]
InsertsOnly(P) ==
  [e \in Event |-> IF e \in P /\ (events[e] = Never \/ ~ Keeps(e, page.items[e]))
                     THEN Mapped(e, page.items[e]) ELSE events[e]]
Written(P) ==
  [e \in Event |-> IF e \in P THEN Mapped(e, page.items[e]) ELSE events[e]]

(***************************************************************************)
(* run's loop body once the page is in: write its items under the store's  *)
(* lock, take its cursor, and go on to the next page unless there is none  *)
(* or it is the page just read.  The mutant takes the first page of a full *)
(* fetch for the whole calendar.                                           *)
(***************************************************************************)
ApplyPageAsAWhole ==
  /\ pc = "page"
  /\ \A e \in Mentioned : ~ Fails(e, page.items[e])
  /\ events' = [e \in Event |-> IF sent = NoToken /\ page_token = 0 /\ e \notin Mentioned
                                THEN Never ELSE Written(Mentioned)[e]]
  /\ report_token' = page.next_sync_token
  /\ IF page.next_page_token \notin {0, page_token}
       THEN pc' = "request" /\ page_token' = page.next_page_token
       ELSE pc' = "commit" /\ UNCHANGED page_token
  /\ page' = NoPage
  /\ UNCHANGED <<clock, google, sync_token, sent, asof, todo, outcome, leftover, faults>>
ApplyPage ==
  /\ pc = "page"
  /\ \A e \in Mentioned : ~ Fails(e, page.items[e])
  /\ events' = Written(Mentioned)
  /\ report_token' = page.next_sync_token
  /\ IF page.next_page_token \notin {0, page_token}
       THEN pc' = "request" /\ page_token' = page.next_page_token
       ELSE pc' = "commit" /\ UNCHANGED page_token
  /\ page' = NoPage
  /\ UNCHANGED <<clock, google, sync_token, sent, asof, todo, outcome, leftover, faults>>

(* run's last statement: set_sync_token, with a cursor or with NULL. *)
Commit ==
  /\ pc = "commit"
  /\ sync_token' = report_token
  /\ pc' = "idle"
  /\ outcome' = "ok"
  /\ UNCHANGED <<clock, google, events, netVars, runVars, leftover, faults>>

(* A refused cursor, first statement: the cursor is dropped...  The mutant *)
(* leaves it in place.                                                     *)
KeepsTheCursor ==
  /\ pc = "refused"
  /\ pc' = "clearing"
  /\ UNCHANGED <<clock, google, events, sync_token, netVars, runVars, outcome,
                 leftover, faults>>
DropCursor ==
  /\ pc = "refused"
  /\ sync_token' = NoToken
  /\ pc' = "clearing"
  /\ UNCHANGED <<clock, google, events, netVars, runVars, outcome, leftover, faults>>

(* ... then the table is cleared, and full_sync begins. *)
ClearCalendar ==
  /\ pc = "clearing"
  /\ events' = NoRows
  /\ leftover' = FALSE
  /\ sent' = NoToken
  /\ page_token' = 0
  /\ report_token' = NoToken
  /\ pc' = "request"
  /\ UNCHANGED <<clock, google, sync_token, netVars, outcome, faults>>

-----------------------------------------------------------------------------
(* What goes wrong. *)

(* The run is abandoned: what it held in memory is gone. *)
Abandon(result) ==
  /\ pc' = "idle"
  /\ page' = NoPage
  /\ outcome' = result
  /\ UNCHANGED <<clock, google, sync_token, asof, todo, runVars, leftover>>

(* No answer, an error status, an unreadable body, a rejected refresh; a   *)
(* statement SQLite refuses.                                               *)
Fail ==
  /\ pc \in {"request", "commit", "refused", "clearing"}
  /\ faults < MaxFaults
  /\ faults' = faults + 1
  /\ Abandon("failed")
  /\ UNCHANGED events

(***************************************************************************)
(* An item of the page cannot be read: the items before it are already     *)
(* written and stay, the rest of the page and the run are given up.        *)
(***************************************************************************)
PageFails ==
  /\ pc = "page"
  /\ \E e \in Mentioned, P \in SUBSET Mentioned :
       /\ Fails(e, page.items[e])
       /\ \A p \in P : ~ Fails(p, page.items[p])
       /\ events' = Written(P)
  /\ Abandon("failed")
  /\ UNCHANGED faults

(* The process dies, in the middle of a page or anywhere else. *)
Crash ==
  /\ pc # "idle"
  /\ faults < MaxFaults
  /\ faults' = faults + 1
  /\ \E P \in SUBSET {e \in Mentioned : ~ Fails(e, page.items[e])} :
       events' = Written(P)
  /\ Abandon("none")

-----------------------------------------------------------------------------

Answers == \E ids \in SUBSET Event, last \in BOOLEAN : Answer(ids, last)

Next ==
  \/ \E e \in Event, alive \in BOOLEAN : Change(e, alive)
  \/ Begin
  \/ Answers
  \/ AnswerSelf
  \/ Refuse
  \/ ApplyPage
  \/ Commit
  \/ DropCursor
  \/ ClearCalendar
  \/ Fail
  \/ PageFails
  \/ Crash

Spec == Init /\ [][Next]_vars

(***************************************************************************)
(* The scheduler polls for as long as the program runs (SyncLoop), the     *)
(* runtime runs what is spawned on it, and Google answers.  Edits and      *)
(* faults are not fair: they may stop, and within the bounds they do.      *)
(***************************************************************************)
FairSpec ==
  /\ Spec
  /\ WF_vars(Begin)
  /\ WF_vars(Answers)
  /\ WF_vars(ApplyPage)
  /\ WF_vars(PageFails)
  /\ WF_vars(Commit)
  /\ WF_vars(DropCursor)
  /\ WF_vars(ClearCalendar)
-----------------------------------------------------------------------------
(* Properties. *)

(* Deleted at Google by version t, and still in the table. *)
Ghosts(t) ==
  {e \in Event : /\ google[e].at <= t
                 /\ ~ Keeps(e, google[e])
                 /\ events[e] # Never}

(***************************************************************************)
(* NothingMissing (Mirror) is the first safety property: an event, or a    *)
(* cancelled occurrence, that has not changed since the stored cursor is   *)
(* in the table exactly as Google has it.  A later delta would not mention *)
(* it again, so what is missing here would be missing for good.            *)
(***************************************************************************)

(***************************************************************************)
(* sync/mod.rs:699, "a resync must not leave a ghost behind": an event     *)
(* deleted at Google before the cursor has no row.  It would never be      *)
(* mentioned again.                                                        *)
(***************************************************************************)
NoGhost == Ghosts(sync_token) = {}

(***************************************************************************)
(* What the code does guarantee of ghosts: none, unless some full fetch    *)
(* began over rows that an abandoned one had left in the table.            *)
(***************************************************************************)
NoGhostButFromLeftovers == ~ leftover => NoGhost

(***************************************************************************)
(* A delta adds no ghost: as long as the calendar keeps a cursor, the      *)
(* cursor may move on and rows may change, but the set of deleted events   *)
(* still in the table never gains a member.                                *)
(***************************************************************************)
DeltasAddNoGhost ==
  [][sync_token # NoToken /\ sync_token' # NoToken
       => Ghosts(sync_token)' \subseteq Ghosts(sync_token)]_vars

(***************************************************************************)
(* Only the clear after a refused cursor takes away a row Google still     *)
(* has.  No page, late or half written, and no failure does.               *)
(***************************************************************************)
OnlyTheClearDrops ==
  [][pc # "clearing" =>
       \A e \in Event :
         events[e] # Never /\ events[e] = google[e] => events'[e] = events[e]]_vars

(* The cursor and the table keep what Mirror promises of them. *)
KeepsThePromise == MirrorSpec

(* Everything Google has is in the table. *)
Current == \A e \in Event : Keeps(e, google[e]) => events[e] = google[e]

(* map_event can read everything Google has. *)
Legible == \A e \in Event : ~ Fails(e, google[e])

(***************************************************************************)
(* Once edits and faults stop, the table catches up and stays caught up,   *)
(* whatever state they stopped in, provided map_event can read what is     *)
(* there: one event it cannot read stops the calendar for good.            *)
(***************************************************************************)
CatchesUp == <>[](Legible => Current)
=============================================================================
