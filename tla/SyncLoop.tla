------------------------------ MODULE SyncLoop ------------------------------
(***************************************************************************)
(* The polling loop: start_syncing and sync_now on the GTK thread          *)
(* (ui/mod.rs), scheduler::sync_all on the tokio runtime, and              *)
(* runtime::spawn between them.                                            *)
(*                                                                         *)
(* A pass over the accounts runs off the main thread.  Its result comes    *)
(* back as a callback on it, which arms a one-shot timer for the next      *)
(* pass.  The refresh button and a finished connect run a pass at once     *)
(* instead, unless one is under way.  Nothing but this discipline keeps    *)
(* the program to one pass at a time: start_syncing itself does not look.  *)
(*                                                                         *)
(* A link is one start_syncing: its pass, and then the timer that pass     *)
(* arms.  Time is counted in units of MIN_INTERVAL.  What a pass does to   *)
(* an account is one step here; CalendarSync has the detail.               *)
(***************************************************************************)
EXTENDS Naturals, FiniteSets

CONSTANTS
  Account,      \* accounts the user may have
  Link,         \* identities of links; a few suffice, they are reused
  MinInterval,  \* scheduler::MIN_INTERVAL
  MaxInterval,  \* scheduler::MAX_INTERVAL
  MaxChanges    \* bound: connects, removals, revocations and store failures

ASSUME IntervalAssumption ==
  /\ MinInterval \in Nat \ {0}
  /\ MaxInterval \in Nat
  /\ MinInterval <= MaxInterval
ASSUME ChangesAssumption == MaxChanges \in Nat

VARIABLES
  syncing,         \* ui.syncing
  pending_sync,    \* ui.pending_sync: the link whose timer it names, or None
  phase,           \* phase[l]: where link l is
  interval,        \* interval[l]: its argument; once the timer is armed, `next`
  left,            \* left[l]: time until its timer fires
  todo,            \* todo[l]: accounts its pass has still to sync
  rejected,        \* rejected[l]: pass.needs_reconnect
  changed,         \* changed[l]: pass.changed()
  needs_reconnect, \* ui.needs_reconnect
  connected,       \* rows of the accounts table
  revoked,         \* accounts whose tokens Google refuses, or that have none
  consented,       \* connects done in the store whose callback has not run
  unfetched,       \* history: connected by this process, and not synced since
  quiet,           \* history: time since a pass was under way
  changes          \* connects, removals, revocations and store failures so far

loopVars    == <<syncing, pending_sync, phase, interval, left>>
passVars    == <<todo, rejected, changed>>
accountVars == <<connected, revoked, consented, unfetched, changes>>
vars == <<loopVars, passVars, accountVars, needs_reconnect, quiet>>

None == "none"
ASSUME LinkAssumption == None \notin Link

Phase == {"off", "started", "pass", "done", "timer", "lost"}
InFlight == {"started", "pass", "done", "lost"}

TypeOK ==
  /\ syncing \in BOOLEAN
  /\ pending_sync \in Link \cup {None}
  /\ phase \in [Link -> Phase]
  /\ interval \in [Link -> MinInterval .. MaxInterval]
  /\ left \in [Link -> 0 .. MaxInterval]
  /\ todo \in [Link -> SUBSET Account]
  /\ rejected \in [Link -> SUBSET Account]
  /\ changed \in [Link -> BOOLEAN]
  /\ needs_reconnect \in SUBSET Account
  /\ connected \in SUBSET Account
  /\ revoked \in SUBSET Account
  /\ consented \in SUBSET Account
  /\ unfetched \in SUBSET Account
  /\ quiet \in Nat
  /\ changes \in Nat

(* Startup: whatever accounts there are, a pass starts at once. *)
Init ==
  /\ syncing = TRUE
  /\ pending_sync = None
  /\ \E l \in Link : phase = [k \in Link |-> IF k = l THEN "started" ELSE "off"]
  /\ interval = [l \in Link |-> MinInterval]
  /\ left = [l \in Link |-> 0]
  /\ todo = [l \in Link |-> {}]
  /\ rejected = [l \in Link |-> {}]
  /\ changed = [l \in Link |-> FALSE]
  /\ needs_reconnect = {}
  /\ connected \in SUBSET Account
  /\ revoked \in SUBSET connected
  /\ consented = {}
  /\ unfetched = {}
  /\ quiet = 0
  /\ changes = 0

-----------------------------------------------------------------------------
(* Starting a pass. *)

(***************************************************************************)
(* start_syncing, on link l; `others` is what its caller has made of the   *)
(* other links, and `pending` of the handle.                               *)
(***************************************************************************)
StartSyncing(l, length, others, pending) ==
  /\ syncing' = TRUE
  /\ pending_sync' = pending
  /\ phase' = [others EXCEPT ![l] = "started"]
  /\ interval' = [k \in Link |-> IF k = l THEN length
                                ELSE IF others[k] = "off" THEN MinInterval
                                ELSE interval[k]]
  /\ left' = [k \in Link |-> IF others[k] = "timer" /\ k # l THEN left[k] ELSE 0]
  /\ quiet' = 0

(***************************************************************************)
(* sync_now: nothing while a pass is under way; otherwise the scheduled    *)
(* pass is cancelled and one starts.  The mutant does not look whether one *)
(* is under way.                                                           *)
(***************************************************************************)
SyncNowAnyway ==
  LET cancelled == [l \in Link |-> IF l = pending_sync THEN "off" ELSE phase[l]]
  IN  \E l \in Link : /\ cancelled[l] = "off"
                      /\ StartSyncing(l, MinInterval, cancelled, None)
SyncNow ==
  IF syncing
    THEN UNCHANGED <<loopVars, quiet>>
    ELSE LET cancelled == [l \in Link |-> IF l = pending_sync THEN "off" ELSE phase[l]]
         IN  \E l \in Link : /\ cancelled[l] = "off"
                             /\ StartSyncing(l, MinInterval, cancelled, None)

(* The refresh button, which is insensitive while a pass is under way. *)
Refresh ==
  /\ ~ syncing
  /\ SyncNow
  /\ UNCHANGED <<passVars, accountVars, needs_reconnect>>

(* A timer fires: it takes its own handle away and starts a pass. *)
Fire(l) ==
  /\ phase[l] = "timer"
  /\ left[l] = 0
  /\ StartSyncing(l, interval[l], phase, None)
  /\ UNCHANGED <<passVars, accountVars, needs_reconnect>>

-----------------------------------------------------------------------------
(* scheduler::sync_all, on the runtime. *)

(* The accounts are read once, at the start. *)
ReadAccounts(l) ==
  /\ phase[l] = "started"
  /\ phase' = [phase EXCEPT ![l] = "pass"]
  /\ todo' = [todo EXCEPT ![l] = connected]
  /\ UNCHANGED <<syncing, pending_sync, interval, left, rejected, changed, accountVars, needs_reconnect, quiet>>

(* The table cannot be read: the pass is over, and looks like a quiet one. *)
ReadFails(l) ==
  /\ phase[l] = "started"
  /\ changes < MaxChanges
  /\ phase' = [phase EXCEPT ![l] = "done"]
  /\ changes' = changes + 1
  /\ UNCHANGED <<syncing, pending_sync, interval, left, passVars, connected, revoked, consented,
                 unfetched, needs_reconnect, quiet>>

(***************************************************************************)
(* One account of the pass.  A dead refresh token, or none in the keyring, *)
(* puts it in needs_reconnect, if Google was asked to refresh; that may be *)
(* after earlier calendars of the account have brought news.  Anything     *)
(* else that goes wrong is a transient failure and leaves no trace but the *)
(* log.  The mutant lets a dead token end the pass.                        *)
(***************************************************************************)
SyncOneOrGiveUp(l, a) ==
  /\ phase[l] = "pass"
  /\ a \in todo[l]
  /\ todo' = [todo EXCEPT ![l] = IF a \in revoked THEN {} ELSE @ \ {a}]
  /\ rejected' = [rejected EXCEPT ![l] = IF a \in revoked THEN @ \cup {a} ELSE @]
  /\ UNCHANGED changed
  /\ unfetched' = unfetched \ {a}
  /\ UNCHANGED <<loopVars, connected, revoked, consented, changes, needs_reconnect, quiet>>
SyncOne(l, a) ==
  /\ phase[l] = "pass"
  /\ a \in todo[l]
  /\ todo' = [todo EXCEPT ![l] = @ \ {a}]
  /\ \E news \in BOOLEAN : changed' = [changed EXCEPT ![l] = @ \/ news]
  /\ \/ a \in revoked /\ rejected' = [rejected EXCEPT ![l] = @ \cup {a}]
     \/ UNCHANGED rejected
  /\ unfetched' = unfetched \ {a}
  /\ UNCHANGED <<loopVars, connected, revoked, consented, changes, needs_reconnect, quiet>>

(* The pass is over and its result sent. *)
Finish(l) ==
  /\ phase[l] = "pass"
  /\ todo[l] = {}
  /\ phase' = [phase EXCEPT ![l] = "done"]
  /\ UNCHANGED <<syncing, pending_sync, interval, left, passVars, accountVars,
                 needs_reconnect, quiet>>

(***************************************************************************)
(* The task panics, or a request is never answered: no client here has a   *)
(* timeout.  The callback does not run.                                    *)
(***************************************************************************)
LosePass(l) ==
  /\ phase[l] \in {"started", "pass"}
  /\ phase' = [phase EXCEPT ![l] = "lost"]
  /\ UNCHANGED <<syncing, pending_sync, interval, left, passVars, accountVars,
                 needs_reconnect, quiet>>

-----------------------------------------------------------------------------
(* Back on the GTK thread. *)

Smaller(m, n) == IF m < n THEN m ELSE n
Larger(m, n)  == IF m < n THEN n ELSE m

(* next_interval.  The mutant forgets the ceiling. *)
DoublesForEver(current, any) ==
  IF any THEN MinInterval ELSE Larger(current * 2, MinInterval)
next_interval(current, any) ==
  IF any THEN MinInterval ELSE Larger(Smaller(current * 2, MaxInterval), MinInterval)

(* start_syncing's callback: the result is taken and the next pass armed.  *)
(* Mutants: it adds to needs_reconnect instead of replacing it; it arms no *)
(* timer after a pass that changed nothing.                                *)
DeliverAdding(l) ==
  /\ phase[l] = "done"
  /\ syncing' = FALSE
  /\ needs_reconnect' = needs_reconnect \cup rejected[l]
  /\ LET next == next_interval(interval[l], changed[l])
     IN  /\ interval' = [interval EXCEPT ![l] = next]
         /\ left' = [left EXCEPT ![l] = next]
  /\ phase' = [phase EXCEPT ![l] = "timer"]
  /\ pending_sync' = l
  /\ rejected' = [rejected EXCEPT ![l] = {}]
  /\ changed' = [changed EXCEPT ![l] = FALSE]
  /\ UNCHANGED <<todo, accountVars, quiet>>
DeliverOnlyNews(l) ==
  /\ phase[l] = "done"
  /\ syncing' = FALSE
  /\ needs_reconnect' = rejected[l]
  /\ LET next == next_interval(interval[l], changed[l])
     IN  /\ interval' = [interval EXCEPT ![l] = next]
         /\ left' = [left EXCEPT ![l] = IF changed[l] THEN next ELSE 0]
  /\ phase' = [phase EXCEPT ![l] = IF changed[l] THEN "timer" ELSE "off"]
  /\ pending_sync' = IF changed[l] THEN l ELSE None
  /\ rejected' = [rejected EXCEPT ![l] = {}]
  /\ changed' = [changed EXCEPT ![l] = FALSE]
  /\ UNCHANGED <<todo, accountVars, quiet>>
Deliver(l) ==
  /\ phase[l] = "done"
  /\ syncing' = FALSE
  /\ needs_reconnect' = rejected[l]
  /\ LET next == next_interval(interval[l], changed[l])
     IN  /\ interval' = [interval EXCEPT ![l] = next]
         /\ left' = [left EXCEPT ![l] = next]
  /\ phase' = [phase EXCEPT ![l] = "timer"]
  /\ pending_sync' = l
  /\ rejected' = [rejected EXCEPT ![l] = {}]
  /\ changed' = [changed EXCEPT ![l] = FALSE]
  /\ UNCHANGED <<todo, accountVars, quiet>>

(***************************************************************************)
(* accounts::connect has written the account and its tokens.  Several      *)
(* connects may be under way: no button on screen is disabled during one.  *)
(***************************************************************************)
Consent(a) ==
  /\ changes < MaxChanges
  /\ connected' = connected \cup {a}
  /\ revoked' = revoked \ {a}
  /\ consented' = consented \cup {a}
  /\ unfetched' = unfetched \cup {a}
  /\ changes' = changes + 1
  /\ UNCHANGED <<loopVars, passVars, needs_reconnect, quiet>>

(* start_connect's callback. *)
Connected(a) ==
  /\ a \in consented
  /\ consented' = consented \ {a}
  /\ needs_reconnect' = needs_reconnect \ {a}
  /\ SyncNow
  /\ UNCHANGED <<passVars, connected, revoked, unfetched, changes>>

(* confirm_remove: the row goes at once, the tokens later; a pass that has *)
(* still to sync the account may or may not find them.                     *)
Remove(a) ==
  /\ changes < MaxChanges
  /\ a \in connected
  /\ connected' = connected \ {a}
  /\ revoked' \in {revoked, revoked \cup {a}}
  /\ unfetched' = unfetched \ {a}
  /\ changes' = changes + 1
  /\ UNCHANGED <<loopVars, passVars, consented, needs_reconnect, quiet>>

(* Google stops accepting an account's tokens. *)
Revoke(a) ==
  /\ changes < MaxChanges
  /\ a \in connected
  /\ revoked' = revoked \cup {a}
  /\ changes' = changes + 1
  /\ UNCHANGED <<loopVars, passVars, connected, consented, unfetched, needs_reconnect, quiet>>

(***************************************************************************)
(* Time passes.  A timer that is due fires first: the main loop is idle    *)
(* but for these callbacks.                                                *)
(***************************************************************************)
Armed == {l \in Link : phase[l] = "timer"}
Tick ==
  /\ Armed # {}
  /\ \A l \in Armed : left[l] > 0
  /\ left' = [l \in Link |-> IF l \in Armed THEN left[l] - 1 ELSE left[l]]
  /\ quiet' = quiet + 1
  /\ UNCHANGED <<syncing, pending_sync, phase, interval, passVars, accountVars, needs_reconnect>>

-----------------------------------------------------------------------------

SyncAny == \E l \in Link, a \in Account : SyncOne(l, a)

Next ==
  \/ Refresh
  \/ \E l \in Link : \/ Fire(l)
                      \/ ReadAccounts(l)
                      \/ ReadFails(l)
                      \/ Finish(l)
                      \/ LosePass(l)
                      \/ Deliver(l)
  \/ SyncAny
  \/ \E a \in Account : Consent(a) \/ Connected(a) \/ Remove(a) \/ Revoke(a)
  \/ Tick

Spec == Init /\ [][Next]_vars

(***************************************************************************)
(* The runtime runs the task, Google answers (or the pass is lost), the    *)
(* main loop delivers results and fires timers, and time passes.           *)
(***************************************************************************)
FairSpec ==
  /\ Spec
  /\ WF_vars(Tick)
  /\ WF_vars(SyncAny)
  /\ \A l \in Link : /\ WF_vars(Fire(l))
                     /\ WF_vars(ReadAccounts(l))
                     /\ WF_vars(Finish(l))
                     /\ WF_vars(Deliver(l))
  /\ \A a \in Account : WF_vars(Connected(a))
-----------------------------------------------------------------------------
(* Properties. *)

(***************************************************************************)
(* There is one pass or one timer, and never neither: connects that finish *)
(* during a pass, refreshes and timers in any order neither fork the loop  *)
(* nor break it.                                                           *)
(***************************************************************************)
OneLink == \E l \in Link : \A k \in Link : phase[k] # "off" <=> k = l

(***************************************************************************)
(* The handle names the armed timer, and no timer is armed that it does    *)
(* not name.  SourceId::remove panics on a source that has fired.          *)
(***************************************************************************)
HandleIsLive == \A l \in Link : phase[l] = "timer" <=> pending_sync = l

(* One loop, and a handle on it. *)
LoopIsWhole == OneLink /\ HandleIsLive

(***************************************************************************)
(* MAX_INTERVAL is a ceiling: no more than that goes by with no pass under *)
(* way, however the back-off and the refreshes fall.                       *)
(***************************************************************************)
NeverQuietLong == quiet <= MaxInterval

Lost == \E l \in Link : phase[l] = "lost"

(* Unless a pass is lost, there is always another one. *)
PollsForEver == []<>(Lost \/ \E l \in Link : phase[l] = "started")

(***************************************************************************)
(* An account that is connected is synced, whatever pass was under way     *)
(* and whatever that pass made of its old tokens.                          *)
(***************************************************************************)
EveryAccountIsFetched ==
  \A a \in Account : a \in unfetched ~> (Lost \/ a \notin unfetched)

(***************************************************************************)
(* Once an account stays good, it stops being shown as one that needs      *)
(* reconnecting, even if a pass that began before the user's consent says  *)
(* so afterwards.                                                          *)
(***************************************************************************)
ReconnectedSettles ==
  \A a \in Account :
    <>[](a \notin revoked) => <>[](Lost \/ a \notin needs_reconnect)
=============================================================================
