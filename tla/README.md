# agenda, specified and checked

agenda is a read-only Google Calendar client for the desktop: it mirrors the user's
calendars into SQLite, polls Google for changes, and shows what it has in a grid, a month,
an agenda and a tray popup. This directory holds TLA+ models of the parts of it that are
hard to get right, the TLC configurations that check them on small instances, and proofs,
checked by TLAPS, of what holds for every size. Source paths below are relative to the
crate's `src/`.

- [The system](#the-system): its components, state, operations and hazards
- [The modules](#the-modules): what models what, and how closely
- [The runs](#the-runs): what is checked, with which bounds
- [Fairness and deadlock](#fairness-and-deadlock)
- [The proofs](#the-proofs)
- [Where the code and its documentation disagree](#where-the-code-and-its-documentation-disagree)
- [Not modelled](#not-modelled)
- [Plan](#plan)

To check: `tlc -config CalendarSync.cfg MCCalendarSync` and so on, as listed under
[The runs](#the-runs); `tlapm CalendarSync_proofs.tla` and so on.

## The system

Two threads matter. The **GTK thread** runs every user interface handler and every callback
to its end before the next. The **tokio runtime** runs what `runtime::spawn` gives it: a sync
pass, a connect, the keyring half of a removal. A finished task sends its result to a
callback on the GTK thread. Both reach the SQLite store through one mutex that nobody holds
across an await. So the interleavings are between GTK callbacks and the await points of
tasks, and every store call is atomic by itself while no two are atomic together.

| component | code | state | operations |
|---|---|---|---|
| sync of one calendar | `sync/mod.rs`, `google/wire.rs`, `google/client.rs` | the run's cursor and page tokens; `events` rows and `sync_token` in the store | begin, request a page, write its items, record the cursor; on a 410 drop the cursor, clear, refetch |
| polling loop | `ui/mod.rs` (`start_syncing`, `sync_now`), `sync/scheduler.rs`, `runtime.rs` | `syncing`, `pending_sync`, the interval, `needs_reconnect` | start a pass, sync each account, deliver the result, arm the timer, fire it; the refresh button; a connect's callback |
| accounts | `accounts/mod.rs`, `auth/keyring.rs`, `store/mod.rs`, `sync/scheduler.rs` | rows of `accounts` and `calendars`; keyring entries; tokens held by a Session | connect, remove, roll back, load and store tokens |
| HTTP session | `google/client.rs`, `auth/flow.rs` | access and refresh token | GET, refresh on 401, retry once; 410 and rejected refresh as typed errors |
| store | `store/mod.rs`, `store/schema.sql` | the tables, with cascading foreign keys | upsert, delete, clear, cursor, window query, visibility, leads, colours |
| recurrence and window query | `recur/` | none (pure, on rows) | `events_for_window`, `expand`, `occurrences_in_window` |
| reminders | `notify/mod.rs`, `ui/mod.rs` | `reminded_to` | look every tick for what came due; re-anchor when the clock goes back |
| time grid | `ui/layout.rs`, `ui/vertical.rs`, `ui/week.rs` | none (pure) | split occurrences into days, columns, heights |
| views | `ui/week.rs`, `ui/month.rs`, `ui/agenda.rs`, `ui/tray_day.rs`, `ui/mod.rs` | view, span, focus, items, zone of each Week widget; whether the popup is open | previous, next, Today, the switcher, preferences, redraws, the popup |
| tray | `tray/mod.rs`, `ui/mod.rs`, `ui/tray_day.rs` | the line, one armed timer or more, requests of clicks, the popup's focus | describe the next event; wake when the answer changes; toggle the window, show and dismiss the popup |
| settings | `config.rs`, `ui/preferences.rs` | `settings.toml`, `oauth.toml`, the view-state file; the rows of the dialog | parse and default, rewrite one key and keep the rest; rows that move each other |
| account styling and sidebar | `accounts/style.rs`, `accounts/mod.rs`, `ui/mod.rs` | colours and visibility in the store, and what the sidebar, the week and the preferences page drew of them | eyes, carets, fold all, colours, removal |
| sign-in | `auth/pkce.rs`, `auth/loopback.rs`, `auth/flow.rs`, `accounts/mod.rs` | a listener on a port, the page in the browser, tokens in hand | open the browser, wait for the redirect, exchange the code, list calendars, record, store tokens |

**How they interact.** The loop runs a pass; a pass loads each account's tokens, runs the
calendar sync on each of its calendars, and stores tokens that were refreshed. Its callback
redraws the window and the tray if the pass reports news. A connect writes rows, then
tokens, and its callback asks for a pass. A removal deletes rows on the GTK thread and then
tokens on the runtime. Grid, month, agenda, popup, tray and reminders each ask the window
query for their own stretch of time.

**What is hard, and what would make each part correct.**

- *Calendar sync*: the stored cursor must never vouch for what the table lacks, whatever
  page, statement or process fails, since Google will not mention it again; deleted events
  must not stay; and the table must catch up. (`NothingMissing`, `NoGhostButFromLeftovers`,
  `DeltasAddNoGhost`, `OnlyTheClearDrops`, `CatchesUp`, refinement of `Mirror`.)
- *Polling loop*: `start_syncing` does not look whether a pass or a timer exists. It must
  neither fork nor stop, never remove a timer that fired, and come to every account, also
  one connected in the middle of a pass. (`LoopIsWhole`, `NeverQuietLong`, `PollsForEver`,
  `EveryAccountIsFetched`, `ReconnectedSettles`.)
- *Accounts*: rows and tokens live in two stores that fail separately, and three tasks write
  them. (`Paired`, `CursorHonest`, `NoOrphans`, `PassKeepsTheGrant`.)
- *Sign-in*: attempts overlap, ports are used again while old pages are still open, and
  Google may refuse or repeat. An account must come from a consent on the attempt's own
  page, must not be left without tokens, and the user must hear of the end, unless Google
  names another page for ever.
  (`SeenMeansAuthenticated`, refinement of `Consent`, `Ends`.)
- *Window query*: exceptions that moved across a window's edge must be neither lost nor
  doubled. (`NothingLost`, `RevivedOnlyAtTheEdge`.)
- *Reminders*: a watermark on a wall clock that jumps, against a schedule that changes.
  (`Timely`, `Once`.)
- *Grid, month, agenda*: every event on its dates, at its times, beside and not over the
  others, or counted where there is no room, when dates differ in length.
  (`DrawnOnItsDay`, `WellPlaced`.)
- *Views*: heading, placed events and items of a Week change in separate calls; only a
  handler that ends in a read keeps them together. (`WindowTruthful`, `WindowCurrent`,
  `OpensOnToday`.)
- *Sidebar and colours*: the store, the sidebar and the week are three copies of the styling,
  and a connect writes a row the user has styled. (`SidebarTruthful`, `StylingIsTheUsers`,
  `MarkersDistinct`, `FoldAllTurnsTheSidebar`.)
- *Settings*: one row of the dialog moves another and each writes its own line of a file the
  user also edits. (`RestartKeepsTheSettings`, `RowsTellTheTruth`, `TheRestIsTheUsers`.)
- *Tray*: a line that is right for a moment, timers that arm themselves, and a popup that is
  told of its focus before it has any. (`LineKeepsUp`, `ChainsAreCounted`,
  `BlinksOnlyOnceClosed`.)

`PROJECT.json` lists every hazard at its line.

## The modules

| module | models | stands on |
|---|---|---|
| `Mirror` | what syncing a calendar promises, whatever the protocol: rows only move forward, a cursor never claims too much | |
| `CalendarSync` | `sync_calendar`, `full_sync`, `run` against Google's paged listing | extends `Mirror`, implements it |
| `SyncLoop` | `start_syncing`, `sync_now`, `sync_all`, `next_interval`, `runtime::spawn`, the connect's callback | |
| `Accounts` | `connect`, `confirm_remove`, `sync_one` on rows and keyring | |
| `Consent` | what connecting an account promises: asked, answered on the attempt's own page, connected, over | |
| `SignIn` | `start_connect`, `connect`, `bind`, `wait_for_redirect`, `parse_redirect`, `exchange_code`, `calendar_list`, `Session::get` | implements `Consent` |
| `Reminders` | `deliver_due_reminders`, `scheduled_reminders`, `notify_at`, `due` | |
| `Window` | `events_for_window`, `expand`, `occurrences_in_window` | |
| `Layout` | `segments`, `columns`, `occupied_hours`, `hour_height`, `y_for`, as operators | |
| `Grid` | `refresh_week` and `place_items`, the month's `cells` and `visible_and_overflow`, the agenda's `group`: what the query finds, laid out | extends `Window` and `Layout` |
| `Views` | the handlers of the main window and of the popup | |
| `Sidebar` | `resolve`, `palette_color`, the sidebar's handlers, the Accounts page, `apply` | |
| `Settings` | `parse`, `load`, `set_setting`, the rows of the dialog, `apply_setting` | |
| `Tray` | `next_event`, `next_change`, `humanise`, `refresh_tray`, the loop over the requests of clicks, and the popup's focus | |
| `MC...` | the constants of the runs | extend the above |
| `..._proofs` | theorems | extend the above |

**CalendarSync.** `pc` is the program point of one calendar's sync: *request* (waiting in
`events_page`), *page* (a page in hand), *commit* (before `set_sync_token`), *refused* and
*clearing* (after a 410). An event's content is its version at Google; Google's sync token
`t` stands for "everything up to version `t`". `Answer` chooses which events are on which
page; edits go on in between. `ApplyPage` writes one page under the lock, `PageFails` stops
in the middle of one as `?` does, `Fail` stands for every other error, `Crash` for the
process. `Keeps` is what `map_event` decides: a cancelled occurrence keeps its row, another
cancelled event loses it. What Google still mentions of deleted events in a full listing is
left open, as Google leaves it.

**SyncLoop.** A *link* is one `start_syncing`: its pass and then the timer its callback arms.
Two links would show a fork. One `SyncOne` is one account's turn, successful, rejected or failed
for another reason; one that brings news may still be rejected at a later calendar. Time is in
units of `MIN_INTERVAL`. `LosePass` is a task that panics or a request that never ends (no HTTP
client here has a timeout): the callback never runs and `syncing` stays set, which the liveness
properties have to allow for.

**Accounts.** Every store or keyring call is one step. `keyring[a]` and `held` are grants:
0 is none, a later consent has a higher number, and Google refuses those up to `dead[a]`.
`disturbed` is history: the accounts on which two of connect, removal and pass were at once,
or on which a fault fell between two writes. The safety properties are about the others,
so they say exactly how far the code goes without coordination; `NoOrphans` holds of all.

**Reminders.** One event is one occurrence with the lead the cascade resolves. `Pass` is any
jump forward of the clock, `SetBack` one backward. `told` and `pending` are history: how
often an occurrence was announced by this process, and what was ahead when last looked.

**Window.** Rows are one master, its exceptions (moved or tombstones) and single events. The
rule is evenly spaced; RRULE arithmetic is the `rrule` crate's. The properties quantify over
every window between the instants of a small set.

**Layout and Grid.** Time is an integer; `Begins[d]` is when date `d` begins, so a date may be
longer or shorter than `DayLength`, which is 24 hours, and a date in `Startless` has no
midnight, as zones that change at midnight have. `HasPiece`, `Top` and `Bottom` are `segments`;
`Take` is one turn of the loop of `columns`, `finish` and then `Seat`, and `seated` the loop, as
a recursive function on sets of pieces that takes the one with the greatest top last; pieces
with the same top come in some order, as the store gives them. `y_for` counts the minutes above,
those of a tall hour twice. `Grid` asks `Window` for what `refresh_week` asks and checks each
date of each screen against the calendar itself. The month and the agenda are drawn over the
same query: `replace_chips` is what a cell of a given room shows, those with fewer before them
than it has places for, those of all day before all others; `group` is the agenda under the date
an event begins on. Some of the single events are of all day (`AllDay`): `Timed` leaves them to
the band above the hours.

**Views.** `main` and `popup` are the two Week widgets: focus, span, the dates above the columns
(`head`), the dates the placed events were computed for (`placed`), the range, the setting and
the freshness of the items. `refresh_week` is in every handler that calls it and in no other. A
pass writes to the store in steps of its own; `counted` says whether its report will show it. A
connect writes in a step of its own too (`ConnectWrites`), and its callback redraws when the
tokens are stored and the picture is fetched (`ConnectTold`), or does not (`ConnectFails`);
`untold` counts the connects in between. The store is abstracted to "still what was read, or
not". Dates are numbers; date 0 is a Monday. `Midnightless` are the pairs of zone and date whose
midnight daylight saving skips. That `collect_items` cannot read the store at all, after which
the grid is drawn empty, is left out.

**SignIn.** `step[a]` is how far `accounts::connect` has come in attempt `a`; attempts overlap
because the buttons of the preferences stay enabled while one runs. `pages` are the consent
pages in the browser: each knows its attempt (the `state`), its port, and whether it was
answered, and may be reloaded, so an answered page sends its redirect to whoever listens on
its port. `parse_redirect` looks at the state before the answer. `get` is the loop of
`calendar_list` with the one refresh that `Session::get` allows each request: a page names any
token as the next, one that was there before or one that never ends the list, and the loop
compares it with the token it asked with and no other. `stranded` is
the keyring failing and then the rollback failing too. The people answering, the ports and
the page tokens are all the data there is. `Consent` knows nothing of ports, tokens or
requests; the mapping hides them.

**Sidebar.** `accounts` and `calendars` are the columns that are the user's; `sidebar`, `week`
and `page` are what was drawn of them and when. `Applied` is `apply` with its two redraws,
`Failed` and `Stopped` are the ways it ends early, after some of its statements: a
calendar's eye is one, an account's eye is one for each row drawn. A connect writes on the
runtime (`ConnectWrites`) and is told of later (`ConnectTold`), or taken back when the keyring
fails, unless the store fails at that too and the row stays, drawn nowhere
(`ConnectTakenBack`). Several connects of one account may be under way; `untold` counts them.
`set_view_state` may leave the file as it should be, as it was, or empty. `astray` and
`recolored` are history and say which accounts the properties leave out.

**Settings.** A file is whether it is text, and its lines at increasing positions; a line is a
key with a number, or something else. `set_setting` is the rewriting of lines as `config.rs`
does it: first line replaced where it stands, later lines of the key dropped, a new key
appended. A line that goes leaves its position empty, so that what a write does to the other
lines can be said, and proved, position by position. `todo` is the
rest of the calls of `on_change` a handler has still to make, so that the program can be killed
between two of them; a failed write leaves the old file or an empty one, since
`std::fs::write` truncates before it writes.

**Tray.** `clock` is counted in minutes. `timers` counts, for each time left, the timers that
have it: that is how several chains show. `Silently` is any change nobody tells the tray of (an
eye, a removal, a sync that was not counted). `refresh_tray` asks the store twice, for the line
and for the timer, and either query may fail and then finds nothing (`Found`). In a `Suspend`
the clock moves and the timers do not. Clicks are posted by the tray's thread; `Pump` does all
that wait, as the loop over `try_recv` (`ui/mod.rs:1298`) drains the channel: showing the day
twice is showing it once, and of the requests to toggle the window the odd one counts.

## The runs

All passing runs are complete searches. States and times are for two workers.

| run | module, config | states | time | bounds |
|---|---|---|---|---|
| `calendar_sync` | `MCCalendarSync`, `CalendarSync.cfg` | 391,593 | 30 s | 3 events, 2 edits, 2 pages, 2 faults |
| `sync_loop` | `MCSyncLoop`, `SyncLoop.cfg` | 200,364 | 25 s | 2 accounts, 2 links, intervals 1 to 5, 3 changes |
| `accounts` | `MCAccounts`, `Accounts.cfg` | 2,309,169 | 55 s | 2 accounts, 2 connects, 2 pages, 2 grants each, 1 fault |
| `reminders` | `MCReminders`, `Reminders.cfg` | 989,562 | 30 s | 2 events, 12 slots, 10 instants, 2 changes |
| `sign_in` | `MCSignIn`, `SignIn.cfg` | 188,489 | 24 s | 2 attempts, 2 people, 2 ports, 2 page tokens |
| `grid` | `MCGrid`, `Grid.cfg` | 8,192 | 26 s | 6 dates, 3 occurrences, 6 slots, 4 single events, one of all day, 3 spans, months of 5 dates, agendas of 2, room for 1 to 3 chips |
| `views` | `MCViews`, `Views.cfg` | 2,856,400 | 122 s | 6 dates, 2 todays, 2 settings, 2 midnights missing, 1 connect at a time |
| `sidebar` | `MCSidebar`, `Sidebar.cfg` | 1,267,325 | 139 s | 2 accounts with 2 and 1 calendars, 2 colours to give and 1 to choose, 2 connects, 1 fault |
| `settings` | `MCSettings`, `Settings.cfg` | 805,244 | 12 s | days of 3 hours, 2 zones, 5 hand-written files, 1 mishap |
| `tray` | `MCTray`, `Tray.cfg` | 3,920,641 | 140 s | 4 meetings, 6 minutes, hours of 3, 1 change, 2 clicks |

**`calendar_sync`** shows that whatever interleaving of edits, pages, 410s, unreadable
events, failures and crashes happens, the cursor does not vouch for a missing or outdated
row (`NothingMissing`); that a deleted event outlives its deletion only if a full fetch began
over rows an abandoned one had left (`NoGhostButFromLeftovers`), and no delta adds such a
ghost (`DeltasAddNoGhost`); that only the clear after a 410 takes good rows away
(`OnlyTheClearDrops`); that `CalendarSync` implements `Mirror` (`KeepsThePromise`); and that
once edits and faults stop, the table catches up (`CatchesUp`), provided `map_event` can
read what is there. The three events are the three kinds the code distinguishes (plain,
occurrence, unreadable); the clock starts at 1 and `MaxClock` 3 allows an edit before and
one during a listing; two pages are a first and a last; two faults allow one to set up what
the other spoils, as an abandoned full fetch and a 410.

**`sync_loop`** shows that there is always exactly one pass or one armed timer, and that
`pending_sync` names that timer and nothing else (`LoopIsWhole`: removing a source that fired
aborts), that the back-off keeps its ceiling (`NeverQuietLong`), that polling goes on
(`PollsForEver`), that every connected account gets its turn (`EveryAccountIsFetched`), and
that an account reconnected during a pass that then reports it rejected stops being shown as
such (`ReconnectedSettles`). The last three except a lost pass. Intervals 1, 2, 4, 5 show
doubling and the ceiling; three changes are a revocation, a consent and a removal. The real
ceiling is also five times the floor.

**`accounts`** shows that rows and tokens come and go together (`Paired`), a calendar's cursor
is backed by its events (`CursorHonest`), a removed account has neither (`NoOrphans`), and a
pass does not change which grant is stored (`PassKeepsTheGrant`), wherever nothing overlapped
on the account. Addresses and connects differ in name only and no property is a liveness
property, so the run uses symmetry in both. Two connects and two accounts allow every pair
of tasks on one account and an innocent other one; a third would meet only the same pairs.

**`sign_in`** shows that an account in the store has tokens in the keyring, or an attempt is
between its row and its tokens, or neither the tokens could be stored nor the row taken back
(`SeenMeansAuthenticated`), although two attempts may be connecting the same person; that
`SignIn` implements `Consent` (`ImplementsConsent`, safety and liveness): whatever other pages
send to an attempt's port, it takes up an answer given on its own page only; and that the user
hears of the end of every attempt that does not ask for another page again and again
(`Ends`), which rests on `Session::get` refreshing once per request and on `calendar_list`
stopping at a page that names itself. The exception is real: a list that goes round, or has a
new page every time, is followed for ever, and `Consent`'s own liveness is excused by it too.
Two attempts share two ports in turn, so one can listen where the other's page will redirect;
with two tokens A and B a list may end at any page, name itself at A or B, or go A, B, A.

**`reminders`** shows that what was ahead at one look and behind at the next is announced then
unless it is over (`Timely`), however far the clock jumped or was set back, and twice only
after the clock was set back (`Once`). The slots include an event of no length, leads of none,
a whole day, and one longer than the horizon. Seven days are 5 units here, a day 4, the
startup grace 2; the relations that matter are kept: the grace is shorter than the horizon,
an all-day lead rounds to days, the clock runs over two starts.

**`grid`** shows that the query loses nothing (`NothingLost`) and brings back only what ran
across the window's beginning (`RevivedOnlyAtTheEdge`); that up to the first date of unusual
length everything is drawn on the dates it is on, at its time, with its length, and nowhere
else, that in the month it is a chip or counted, the earlier before the later and those of all
day before both, and that the agenda has it once, under its first date (`DrawnOnItsDay`); and
that no two events overlap on the screen, nor is one narrower than its cluster needs
(`WellPlaced`). The third of the six dates is an hour long, the fifth an hour short and without
a midnight. The states are the sets of moved, deleted and added events; every screen of 1, 3 and
5 dates, every month and every agenda is checked in each. An event of no length at the very
midnight the screen begins with is excepted: the query leaves it out (`end > from`) although
`segments` would draw it.

**`views`** shows that, whatever was pressed, what is under a date was read for that date in
the zone set (`WindowTruthful`), except while the first date on the screen has no midnight in
that zone, since `refresh_week` then returns after the headings have changed; that the window
is behind the store only during a pass that will say so, while a connect has written and its
callback has not run, or after a write nobody was told of (`WindowCurrent`): a calendar that
failed after storing something, a connect that was taken back, or `apply` failing after some
of its writes; and that the popup opens on today's events (`OpensOnToday`). Six dates
are a week without its Tuesday and Wednesday, and the next Monday; months begin on a Monday and
on a Thursday; the clock
goes from a Friday to a Saturday; one of two zones lacks the midnight of that Saturday, with
which an agenda would begin, and of the second Monday. The month is two weeks rather than
six, and the agenda three days rather than thirty: only that they are longer than the grid,
or start elsewhere, matters.

**`sidebar`** shows that cards, eyes, swatches and the colours of events are what the store
says, unless a connect has not been told of yet, or was taken back or stranded, or a row of eyes
stopped half way, with nothing drawn since (`SidebarTruthful`); that no connect changes what the
user chose (`StylingIsTheUsers`); that new accounts get different colours as long as there are
any and none was removed or recoloured (`MarkersDistinct`); and that the button that folds or
unfolds all always changes the sidebar, although it does not go by it, as long as no write
failed (`FoldAllTurnsTheSidebar`). One account has two calendars, the least a row of eyes can
stop in; two connects may be one account's, one before the other is told of; one of them has no
colour from Google; the colour of the first account is also the sidebar's default.

**`settings`** shows that a file that could be read at the start, and that nobody else wrote,
can be read after every single write, and that a restart finds in it the settings in effect
(`RestartKeepsTheSettings`); that the dialog shows the settings in effect and a band
(`RowsTellTheTruth`); and that a write changes the lines of one key alone
(`TheRestIsTheUsers`). Three hours are enough for an hour to be moved up to the other, past it
and to the ends of the day. The five files are the kinds the code distinguishes: empty; one
with a comment, a foreign key, a key that stands twice and an unknown zone; one with a line
that cannot be read; one whose band is none; one that is not text.

**`tray`** shows that the line names what is on or next, in words at most an hour old, as long
as the tray was told of everything and its queries succeed, and that what it was not told of or
could not read it looks for again within an hour awake (`LineKeepsUp`); that there are as many
timer chains as there were passes with news, and one (`ChainsAreCounted`); and that the popup is
dismissed before it had the focus only in a showing after one that a key or a button closed
(`BlinksOnlyOnceClosed`). The meetings overlap, so that one ends inside another; one begins
beyond the horizon of the first minutes, one lasts all day; an hour of three minutes is longer
and shorter than meetings.

Two runs expect a violation, and are described
[below](#where-the-code-and-its-documentation-disagree): `ghost` and `forgotten`.

For every property of a passing run there is a mutant in the modules, a plausible bug in the
mapped code, under which TLC finds that property violated; `PROJECT.json` names them.

**Bounds in the guards**: `MaxClock`, `MaxPages`, `MaxFaults` (CalendarSync), `MaxChanges`
(SyncLoop, Reminders), `MaxGrants`, `MaxFaults` (Accounts), the two ports (SignIn), `MaxNow`
(Reminders), `Date`, `PopupReach` and `MaxUntold` (Views), `MaxConnects` and `MaxFaults`
(Sidebar), `MaxMishaps` (Settings), `MaxTime`, `MaxNews` and `MaxClicks` (Tray). All cut off
what the environment does, never what the program does in answer. `MaxPages` makes the last page
of a calendar's events come.

## Fairness and deadlock

`CalendarSync!FairSpec`: weak fairness of `Begin` (the loop polls as long as the program runs,
which is `SyncLoop`'s `PollsForEver`), of Google's answer, and of the client's own steps, which
nothing but a failure holds up once they can run. Edits, refusals, failures and crashes are
not fair.

`SyncLoop!FairSpec`: weak fairness of the runtime's steps (tokio runs what is spawned), of the
callbacks and timers of the main loop, and of time. `LosePass` is not fair and not excluded.
Consents, removals, revocations and the refresh button are the user's or Google's.

`SignIn!FairSpec`: weak fairness of each attempt's own work. The wait for the redirect has a
deadline (`auth/loopback.rs`), the main loop polls for the result, and every request is
answered or fails. The last is an assumption about the network: no client here has a timeout,
so a server that accepts a connection and says nothing would hold an attempt for ever, as
`LosePass` holds a pass. That a list of calendars ends is not assumed: `Ends` says of an attempt
that it ends or asks for another page infinitely often. Nothing is assumed of the user: pages
need not be answered.

The other modules have safety properties only.

`CHECK_DEADLOCK FALSE` is set for `SyncLoop` (after a lost pass, with no change left to make,
the loop really has stopped: one of its hazards), `SignIn` (all attempts are over and told),
`Tray` (the clock has reached `MaxTime`) and the run `forgotten`, which is about one property.

## The proofs

Proved with TLAPS, for all values of the constants that satisfy the named assumptions. Most
are the types of the constants; the others are: `Instance` and `Unreadable` are events;
`MinInterval <= MaxInterval`; every date of `Views` has a Monday and a month; calendars of
`Sidebar` have one owner and the palette repeats no colour; `Nobody` and the two non-answers
are not people; the files of `Settings` have finitely many lines, and its default hours are a
band; a minute of `Tray` is no longer than an hour and an hour shorter than the look ahead; the
dates of `Layout` follow each other without a gap and begin one after the other; there are
finitely many occurrences and single events, and each begins on some date.

| theorem | states |
|---|---|
| `CalendarSync_proofs!TypeCorrect`, `Inductive` | the type invariant, the inductive invariant |
| `CalendarSync_proofs!NothingIsMissing` | `[]NothingMissing` |
| `CalendarSync_proofs!GhostsOnlyFromLeftovers` | `[]NoGhostButFromLeftovers` |
| `CalendarSync_proofs!OnlyTheClearDropsRows` | `OnlyTheClearDrops` |
| `CalendarSync_proofs!DeltasAddNoGhosts` | `DeltasAddNoGhost` |
| `CalendarSync_proofs!ImplementsMirror` | `CalendarSync` implements `Mirror` |
| `SyncLoop_proofs!LoopTypeCorrect`, `StaysWhole`, `QuietIsBounded` | the three invariants of `sync_loop` |
| `Accounts_proofs!AccountsTypeCorrect`, `RowsAndTokensPaired`, `CursorStandsForAll`, `NothingWithoutARow`, `PassKeepsGrants` | the types of `Accounts` and the four properties of `accounts` |
| `SignIn_proofs!SignInTypeCorrect`, `SeenIsAuthenticated` | the types of `SignIn`, `[]SeenMeansAuthenticated` |
| `SignIn_proofs!StepsAreConsents`, `ConnectedMeansConsented` | every step of `SignIn` is one of `Consent` or none; nobody's account without their consent |
| `Clock_proofs!ReminderTypeCorrect`, `GivenOnce`, `GivenInTime` | the types and the two properties of `reminders` |
| `Clock_proofs!TrayTypeCorrect`, `LineIsKept`, `EveryPassLeavesAChain`, `PopupBlinksOnlyOnceClosed` | the types and the three properties of `tray` |
| `Grid_proofs!WindowTypeCorrect`, `NothingIsLost`, `OnlyTheEdgeRevives` | the types of `Window` and its two properties |
| `Grid_proofs!DrawnWhereItIs`, `NothingOnTopOfAnother` | the other two properties of `grid`: `[]DrawnOnItsDay` and `[]WellPlaced` |
| `Views_proofs!ViewsTypeCorrect`, `WhatIsReadIsShown`, `BehindOnlyByDesign`, `PopupOpensOnToday` | the types and the three properties of `views` |
| `Preferences_proofs!StyledAsStored`, `ConnectRestylesNothing`, `AccountsAreToldApart`, `FoldAllAlwaysTurns` | the four properties of `sidebar` |
| `Preferences_proofs!SettingsInductive`, `ARestartFindsTheSettings`, `TheDialogShowsTheSettings`, `OtherLinesStay` | the inductive invariant and the three properties of `settings` |

**CalendarSync.** `NothingMissing` is not inductive: it says nothing of a run in progress, and
the run's last step turns what it gathered into the cursor. The strengthening says what a
run guarantees at each point. An event settled before the listing began is in the table, on
the page in hand, or still to come (`todo`); a page's next sync token is the version its
listing began at, and only the last page has one; and when the run is about to commit, the
table is complete up to the token it will record, and holds no deleted event of that age
unless the fetch began over leftovers. A page is written item by item, so there is a lemma
that one item keeps this, and one that any part of a page does, which `PageFails` and `Crash`
also need. The refinement maps each step to `Edit`, `Write`, `Advance`, `Distrust` or
stuttering; the proof rests on the same invariant, because `Advance` must be justified and
`Write` must not undo what the old cursor claims.

**SyncLoop.** The invariant joins the three things the code keeps in step by hand: the one
link that is not off, `syncing` exactly if it is in flight, and `pending_sync` exactly if it is
a timer. `QuietIsBounded` adds that the quiet time and what is left on the timer make up its
interval, which is at most the ceiling.

**Accounts.** `Paired` says nothing of an account in the middle of something, so the invariant
says, for each stage of a connect (`FlowInv`), of the pass (`PassInv`) and of a removal, what
has been written of an undisturbed account; that two tasks on one account have disturbed it
(`CrowdInv`), which makes each of the others' steps harmless to it; and `NoOrphans`, which
holds without exception because every write of an event or cursor looks for the row. A
cursor is backed because a pass that writes it has written each page before it, and a removal
takes the events with the row.

**SignIn.** An attempt has one page, from its start on; where a code or tokens are in hand,
whose they are has answered on that page; whoever has a row has answered. With that, `Grant`
of `Consent` is justified at `Redirect`, where the state was compared, and `Connect` at the
store's write. `SeenMeansAuthenticated` is inductive, since an attempt that fails takes its
row along even where another relied on it.

**Reminders.** `Once` needs: what has been told in a process whose clock was not set back came
due at or before `reminded_to`, so it is not due again; `Timely`: everything pending came
due after `reminded_to`, and an event that comes due within one look overlaps the window of
`scheduled_reminders` if its lead is below the horizon.

**Window.** Its type invariant is inductive and enough: an exception keeps the start of the
occurrence it replaces.

**Grid.** Everything on the screen is computed from one state of `Window`, so the proofs are
lemmas on the operators, under that type invariant.

For `DrawnOnItsDay`: if every date from the first to `d` is 24 hours long, `d` begins as many
times 24 hours after the first as there are dates between (`DatesInARow`: a first date that
did not would have a predecessor that did not), so the window asked for reaches its end. The
instants of an occurrence on such a date are an interval, and it is the one `segments` cuts
out (`InstantsAreThePiece`). In the month, the chips are as many as asked for because the
number of events before an event is a bijection onto `0 .. n - 1` (`AsManyAsAskedFor`). In the
agenda, an event begins on one date only, since dates do not overlap.

For `WellPlaced`, the loop of `columns` needs an invariant, `Seating`. No cluster begins before
the earlier ones are over; the pieces of one column follow each other, and the column's end is
that of one of them; the cluster ends no earlier than any of its members; and every column to
the left of a piece was taken where the piece begins, which is why it was not put there. One
turn keeps it because pieces come by their tops (`OneMoreSeat`), and a smallest set of pieces
for which the loop had lost it would have a smaller one (`AllAreSeated`). From it, two pieces of
one cluster are in columns that follow each other, all of one width (`PiecesApart`); and
the piece in the last column stands where every column is taken, once each: a bijection between
those that are there and the columns (`ColumnsNeeded`). What is later is further down because
`y_for` counts a set of minutes that grows (`FurtherDown`), whatever the heights of the hours.

**Views.** The properties are inductive together with one more fact, that the dates above the
columns are always those of the span around the focus: whatever moves either calls `refresh`.
A lemma for each method of the widget says what it leaves alone, one for `refresh_week` that
it ends in a window that is truthful and current unless the midnight is missing, and the
handlers follow.

**Sidebar.** The properties compare what was drawn with what would be, account by account, so
the proof first turns equality of drawings into agreement on each account's own rows. A
handler that draws both surfaces needs nothing else; one that draws nothing touches one
account, and another account's rows have another owner. What is needed besides is the
foreign key: a calendar's account is there. Colours differ because a connect takes the
colour whose place in the palette is the number of accounts, and all others have earlier
ones. `FoldAllTurnsTheSidebar` rests on the carets drawn being those stored, of the accounts
drawn, until a write fails (`ShutInv`): every handler that changes one changes the other.

**Settings.** Between two writes of one handler the file, the settings in effect and the dialog
all differ. `SettingsInv` says by how much: the settings in effect, with what the calls still
waiting will put in effect, are what the dialog shows; a file that is trusted parses to the
settings in effect, at every moment; and in every order of calls that a handler makes, the
hours in between are a band too, which is what fails if the row that was moved speaks first.
What a write does is shown key by key: the value of the written key is the one written, since
its other lines are gone, and the value of another is read from the same position as before.

**Tray.** `LineKeepsUp` needs the timer that was armed with the line: as long as the tray was
told of everything, the line is what the store gives at the time it was drawn, and a timer runs
before anything the line saw begins or ends (`LineFresh`); otherwise, also after a query that
failed, a timer runs before an hour awake is over (`LineStale`). Between the line and that timer
nothing changes, because what is on or next changes only where something starts or ends, or
comes within sight, which is farther than an hour. Chains are counted by a set with one element
per timer, whose cardinality is that of what armed them. The popup: whatever remembers a focus,
or has it, has been held in this showing or was closed.

**Least elements instead of induction.** The provers cannot instantiate the library's induction
theorems. Where a proof needs one, it takes the least natural number at which the claim
fails, which exists because the order of the naturals is well-founded
(`NatLessThanWellFounded`, `WFMin`), and shows that it fails earlier; `LeastNumber`,
`DatesInARow` and `AllAreSeated` are of this kind, and so is `TheLoopTurns`, that the recursive
function `seated` exists and obeys its equation.

**Only model-checked.** The liveness properties: `CatchesUp`, `PollsForEver`,
`EveryAccountIsFetched`, `ReconnectedSettles`, `Ends`, and the fairness half of
`ImplementsConsent`. Fairness and ENABLED are out of the prover's reach. Every other property
that a passing run checks is a theorem.

## Where the code and its documentation disagree

Two have a run that shows them.

1. **A ghost after an interrupted first fetch** (`ghost`; `sync/mod.rs:76`). A calendar without
   a cursor is fetched in full without clearing what an abandoned fetch left. An event deleted
   in between need not be mentioned again; the row stays. The test at `sync/mod.rs:699` wants
   "a resync must not leave a ghost behind".
2. **A pass can bring back the tokens of a removed account** (`forgotten`;
   `sync/scheduler.rs:121`), which is why the removal deletes them.

The others were met while modelling. Most are in the models as what the code does, and the
properties say where they stop.

Syncing and accounts:

- A connect during a pass waits for the timer (`ui/mod.rs:1480`), which the comment on
  `sync_now` says it exists to prevent. `EveryAccountIsFetched` shows that it is fetched then.
- After a 410 the calendar is cleared before it is fetched again (`sync/mod.rs:93`): if the
  fetch fails, it stays empty until a later pass succeeds, where the test at `sync/mod.rs:859`
  says "a failed sync must never empty the grid". `OnlyTheClearDrops` shows that nothing else
  does this.
- What a calendar stored before it failed is not in the pass's report (`sync/scheduler.rs:72`),
  so the grid is not redrawn for it (`uncounted` in `Views`).
- The toast about a disconnected account is "said once, when it becomes true"
  (`ui/mod.rs:1506`), but `needs_reconnect` is rebuilt by each pass, and a pass in which the
  account fails for another reason leaves it out: the next rejection is announced again.
- SPEC.md:84 and the comment on `sync_account` say "every visible calendar"; it syncs all.
- No HTTP client has a timeout: a request that is never answered holds its pass or attempt.
- A reconnect whose tokens the keyring does not take removes the row, also of an account that
  was fine before, and with it the colours and hidden calendars the user chose. A rollback
  that fails too strands the row, which then looks connected and never syncs.
- A removal whose store half failed still deletes the tokens (`ui/mod.rs:1811`).
- "The button is disabled meanwhile, so a second click cannot open a second consent screen"
  (`ui/mod.rs:500`): that button is never put on screen, the two in the preferences stay enabled,
  and attempts overlap.
- "An infinite request loop is not a failure mode worth risking" (`google/client.rs:179`), but
  `calendar_list` compares the next page's token with the current one only: a list that goes
  A, B, A, or names a new page every time, is followed for ever, and the attempt does not end.
- A redirect with another attempt's state ends the wait it reaches (`auth/loopback.rs`): an old
  page that is reloaded costs the new attempt its turn, though never its answer.
- A program started without `oauth.toml` keeps its onboarding page until it is restarted, also
  once the file is there.

Time, windows and reminders:

- A deleted or moved occurrence reappears in a window that begins in the middle of it
  (`store/mod.rs:496`). The tray asks from now on, so it is exposed.
- An event of no length at the first midnight of a window is not found (`store/mod.rs:501`).
- The last hour of a 25-hour day is drawn nowhere (`ui/layout.rs:54`), and the first hour after a
  23-hour day twice: a date ends 24 hours after its midnight.
- A recurrence that cannot be parsed empties every window it could be in (`recur/window.rs:54`).
- "Re-anchor rather than replaying every reminder in between" (`ui/mod.rs:1257`): re-anchoring
  is what replays them, once the clock gets there the second time. `Once` excepts that case.

What is on the screen:

- The popup's previous, next and Today change its date but not its events
  (`ui/tray_day.rs:115`); an open popup hears of no sync, hidden calendar or preference, its zone
  and core hours being those of the moment it was first opened.
- The popup's button "Open agenda" calls `toggle_window` (`ui/mod.rs:1330`), which hides a main
  window that is visible (SPEC-tray-day.md criterion 5: it opens it).
- In the month, previous and next move the Week by its span (`ui/mod.rs:273`), not by a month
  as SPEC-views-month.md criterion 7 has it, and the month shown is that of the first date of
  the grid's span. With room for one chip and several events a cell shows none, only the
  count.
- The agenda has what began before today under an earlier heading; on a day that has no
  midnight it lists the dates of the grid instead of thirty days (`ui/mod.rs:1572`).
- Nothing redraws at midnight; Today and the current-time line go by the system's zone, the
  grid by the configured one; `apply` does not refresh the tray.
- A row of eyes that fails half way leaves the sidebar undrawn (`ui/mod.rs:845`), and a connect
  that is taken back leaves it with a card nobody has.
- The sidebar's swatch of a calendar without a colour is `DEFAULT_SWATCH`, its events have
  the account's. A new account's colour is picked by the number of accounts, so after a
  removal it may be one in use.
- The button that folds all goes by the store, and so may draw the sidebar with an account
  the week does not show yet.
- The Accounts page is not drawn again while it is open: a colour set there can be reset only
  after it was reopened, and after Reset its button still shows the old colour.
- `refresh_tray` arms a timer on every call (`ui/mod.rs:1467`): each pass with news starts one
  more chain that arms itself for ever. Their timers stand still while the machine is
  suspended, and a countdown may be an hour old.
- `had_focus` stays set when Escape or a button hides the popup (`ui/tray_day.rs:150`), so the
  next showing may be dismissed as it comes up.

Settings:

- One line that cannot be read, or core hours that are no band, and the whole file is refused:
  the defaults apply, and what is chosen later in the dialog is lost at each restart, since
  the line stays.
- A file that is not text reads as empty and is replaced whole by the next setting.
- When one of the two writes of an hour that moves the other fails, the file may be left
  without a band, and is refused at the next start.
- The zone row shows the first zone when none is set or the one that is set is not listed.

## Not modelled

- Entry point, data files, fixture scripts: start-up's effects are Init of `SyncLoop`,
  `Reminders` and `Tray`, and `Activate` of `Settings`.
- GTK: construction of widgets, drawing, scrolling, the account menu (`ui/mod.rs:1115`). That
  handlers run one at a time is taken from GTK.
- Labels, initials, avatars and their cache, profile names: no control depends on them.
- The lead controls of the preferences (`ui/mod.rs:1067`) and the cascade of leads, of which
  `Reminders` has the result; daylight saving in `resolve_local`; the notification itself.
- The StatusNotifierItem host (D-Bus), the tray's icon and its Quit.
- The reminder band and the second zone's labels of the grid, and where a popup is placed.
- TOML's own grammar: which text is a line of which kind. OAuth's hashing, the URL, and the
  bytes on the socket; noise on the port, which changes nothing.
- RRULE arithmetic, and daylight saving in recurrences; several series at once, and the cap on
  occurrences of one series.
- Migrations of the store, and the columns that are only carried (titles, places, profiles).
- In `Accounts`: a rollback whose own removal fails (it is in `SignIn`), two pending keyring
  deletions of the same account (they are one), and more than one calendar per account.

## Plan

Done, in this order: `Mirror` and `CalendarSync` with their proofs; `SyncLoop` with its
proofs; `Accounts`; `Reminders` and `Window` with their proofs; `Layout`, `Grid`, `Views`; the
month and the agenda in `Grid`; `Settings`; `Consent`, `SignIn` and the safety half of the
refinement; `Tray`; `Sidebar`; the proofs of `Accounts`, `Views` and `Sidebar`; those of `Tray`,
`Settings`, `Layout` and `Grid`.

Worth doing next:

1. **Composition** of `SyncLoop` and `CalendarSync` over two calendars, one of which fails: an
   abstract specification of a pass that both implement.
2. **Cascade of leads** and all-day reminders across a change of daylight saving, as operators
   for `Reminders`.
3. To prove: the safety part of `ReconnectedSettles` and of `PollsForEver`, as action properties
   that say what may not undo the progress made; how far the drawing goes wrong beyond the
   first date of unequal length, which `DrawnOnItsDay` leaves out.
