------------------------------ MODULE Accounts ------------------------------
(***************************************************************************)
(* Connecting, removing and syncing accounts: accounts::connect, the       *)
(* dialog of confirm_remove (ui/mod.rs) and scheduler::sync_one, on the    *)
(* rows of the store and the entries of the keyring.                       *)
(*                                                                         *)
(* The three run concurrently: connects and the pass on the runtime, the   *)
(* removal on the GTK thread with its keyring half on the runtime.  They   *)
(* share the store's lock, which none holds across an await, and nothing   *)
(* else.  A pass visits the accounts one after another; there is at most   *)
(* one pass (SyncLoop), and any number of connects.                        *)
(*                                                                         *)
(* An account has one calendar here, whose events come on the pages        *)
(* 1 .. Pages and do not change; CalendarSync has the rest.                *)
(***************************************************************************)
EXTENDS Naturals

CONSTANTS
  Account,    \* addresses the user may consent with
  Flow,       \* connects that may be under way at once
  Pages,      \* pages of a calendar
  MaxGrants,  \* bound: consents per account
  MaxFaults   \* bound: store and keyring failures, revocations and crashes

ASSUME PagesAssumption == Pages \in Nat \ {0}
ASSUME BoundsAssumption == MaxGrants \in Nat /\ MaxFaults \in Nat

VARIABLES
  accounts,   \* the rows of the accounts table
  events,     \* events[a]: pages of its calendar in the events table
  cursor,     \* cursor[a]: its calendar has a sync_token
  keyring,    \* keyring[a]: the grant whose tokens are stored, or NoGrant
  issued,     \* Google: issued[a], the latest grant
  dead,       \* Google: grants up to dead[a] are refused
  flow,       \* flow[f]: a connect, its account and its grant
  deleting,   \* removals whose keyring::delete has still to run
  at, who,    \* the pass, and the account it is on
  todo,       \* accounts the pass has still to visit
  held,       \* the grant in its Session
  refreshed,  \* the Session's access token is no longer the one loaded
  delta,      \* it found a cursor
  page,       \* pages of the calendar written
  disturbed,  \* history: accounts two of these were on at once, or a fault hit
  faults

rowVars   == <<accounts, events, cursor>>
googleVars == <<issued, dead>>
passVars  == <<at, who, todo, held, refreshed, delta, page>>
vars == <<rowVars, keyring, googleVars, flow, deleting, passVars, disturbed, faults>>

NoGrant == 0
NoOne   == "no one"
Idle    == [stage |-> "idle", account |-> NoOne, grant |-> NoGrant]

Stage == {"idle", "granted", "written"}
Working == {"loaded", "paging", "recording", "storing"}

TypeOK ==
  /\ accounts \subseteq Account
  /\ events \in [Account -> SUBSET (1 .. Pages)]
  /\ cursor \in [Account -> BOOLEAN]
  /\ keyring \in [Account -> Nat]
  /\ issued \in [Account -> Nat]
  /\ dead \in [Account -> Nat]
  /\ flow \in [Flow -> [stage : Stage, account : Account \cup {NoOne}, grant : Nat]]
  /\ deleting \in SUBSET Account
  /\ at \in {"idle", "next"} \cup Working
  /\ who \in Account \cup {NoOne}
  /\ todo \in SUBSET Account
  /\ held \in Nat
  /\ refreshed \in BOOLEAN
  /\ delta \in BOOLEAN
  /\ page \in 0 .. Pages
  /\ disturbed \in SUBSET Account
  /\ faults \in Nat

Init ==
  /\ accounts = {}
  /\ events = [a \in Account |-> {}]
  /\ cursor = [a \in Account |-> FALSE]
  /\ keyring = [a \in Account |-> NoGrant]
  /\ issued = [a \in Account |-> NoGrant]
  /\ dead = [a \in Account |-> NoGrant]
  /\ flow = [f \in Flow |-> Idle]
  /\ deleting = {}
  /\ at = "idle"
  /\ who = NoOne
  /\ todo = {}
  /\ held = NoGrant
  /\ refreshed = FALSE
  /\ delta = FALSE
  /\ page = 0
  /\ disturbed = {}
  /\ faults = 0

-----------------------------------------------------------------------------
(* Who is on an account. *)

PassOn(a)    == at \in Working /\ who = a
Writers(a)   == {f \in Flow : flow[f].stage = "written" /\ flow[f].account = a}
Removing(a)  == a \in deleting

Crowded(a) ==
  \/ \E f, g \in Writers(a) : f # g
  \/ Writers(a) # {} /\ (PassOn(a) \/ Removing(a))
  \/ PassOn(a) /\ Removing(a)

(* The history after a step that does harm of its own to S. *)
Disturb(S) == disturbed' = disturbed \cup S \cup {a \in Account : Crowded(a)'}

Fault == faults < MaxFaults /\ faults' = faults + 1

-----------------------------------------------------------------------------
(* accounts::connect. *)

(***************************************************************************)
(* The user consents, as whichever account; the code is exchanged and the  *)
(* calendars fetched.  Nothing is written yet.                             *)
(***************************************************************************)
Granted(f, a) ==
  /\ flow[f] = Idle
  /\ issued[a] < MaxGrants
  /\ issued' = [issued EXCEPT ![a] = @ + 1]
  /\ flow' = [flow EXCEPT ![f] = [stage |-> "granted", account |-> a, grant |-> issued'[a]]]
  /\ UNCHANGED <<rowVars, keyring, dead, deleting, passVars, faults>>
  /\ Disturb({})

(* The profile aside, what is left may fail: connect_account's transaction. *)
GivesUp(f) ==
  /\ flow[f].stage = "granted"
  /\ flow' = [flow EXCEPT ![f] = Idle]
  /\ UNCHANGED <<rowVars, keyring, googleVars, deleting, passVars, faults>>
  /\ Disturb({})

(***************************************************************************)
(* connect_account, one transaction: an account that is there keeps its    *)
(* calendar, its cursor and its events.                                   *)
(***************************************************************************)
WriteRows(f) ==
  LET a == flow[f].account IN
  /\ flow[f].stage = "granted"
  /\ accounts' = accounts \cup {a}
  /\ flow' = [flow EXCEPT ![f].stage = "written"]
  /\ UNCHANGED <<events, cursor, keyring, googleVars, deleting, passVars, faults>>
  /\ Disturb({})

(* keyring::store, and the connect is done. *)
StoreGrant(f) ==
  LET a == flow[f].account IN
  /\ flow[f].stage = "written"
  /\ keyring' = [keyring EXCEPT ![a] = flow[f].grant]
  /\ flow' = [flow EXCEPT ![f] = Idle]
  /\ UNCHANGED <<rowVars, googleVars, deleting, passVars, faults>>
  /\ Disturb({})

(* remove_account, which cascades to the calendar and its events. *)
RemoveRows(a) ==
  /\ accounts' = accounts \ {a}
  /\ events' = [events EXCEPT ![a] = {}]
  /\ cursor' = [cursor EXCEPT ![a] = FALSE]

(***************************************************************************)
(* keyring::store fails: the account's row is removed, whether this        *)
(* connect made it or found it.  The mutant does not roll back.            *)
(***************************************************************************)
StoreFailsSilently(f) ==
  LET a == flow[f].account IN
  /\ flow[f].stage = "written"
  /\ Fault
  /\ flow' = [flow EXCEPT ![f] = Idle]
  /\ UNCHANGED <<rowVars, keyring, googleVars, deleting, passVars>>
  /\ Disturb({b \in {a} : keyring[b] # NoGrant})

StoreFails(f) ==
  LET a == flow[f].account IN
  /\ flow[f].stage = "written"
  /\ Fault
  /\ RemoveRows(a)
  /\ flow' = [flow EXCEPT ![f] = Idle]
  /\ UNCHANGED <<keyring, googleVars, deleting, passVars>>
  /\ Disturb({b \in {a} : keyring[b] # NoGrant})

-----------------------------------------------------------------------------
(* The user. *)

(* confirm_remove: the rows now, the tokens on the runtime.  Two removals  *)
(* of one account that both await their tokens' deletion count as one.     *)
Remove(a) ==
  /\ a \in accounts
  /\ RemoveRows(a)
  /\ deleting' = deleting \cup {a}
  /\ UNCHANGED <<keyring, googleVars, flow, passVars, faults>>
  /\ Disturb({})

(* The store refuses; the tokens go all the same. *)
RemoveFails(a) ==
  /\ a \in accounts
  /\ Fault
  /\ deleting' = deleting \cup {a}
  /\ UNCHANGED <<rowVars, keyring, googleVars, flow, passVars>>
  /\ Disturb({a})

(* keyring::delete. *)
Delete(a) ==
  /\ a \in deleting
  /\ keyring' = [keyring EXCEPT ![a] = NoGrant]
  /\ deleting' = deleting \ {a}
  /\ UNCHANGED <<rowVars, googleVars, flow, passVars, faults>>
  /\ Disturb({})

(* keyring::delete fails, and a warning is logged. *)
DeleteFails(a) ==
  /\ a \in deleting
  /\ Fault
  /\ deleting' = deleting \ {a}
  /\ UNCHANGED <<rowVars, keyring, googleVars, flow, passVars>>
  /\ Disturb({a})

(* Google stops accepting the account's grants. *)
Revoke(a) ==
  /\ dead[a] < issued[a]
  /\ Fault
  /\ dead' = [dead EXCEPT ![a] = issued[a]]
  /\ UNCHANGED <<rowVars, keyring, issued, flow, deleting, passVars>>
  /\ Disturb({})

-----------------------------------------------------------------------------
(* The pass. *)

BeginPass ==
  /\ at = "idle"
  /\ at' = "next"
  /\ todo' = accounts
  /\ UNCHANGED <<rowVars, keyring, googleVars, flow, deleting, who, held, refreshed,
                 delta, page, faults>>
  /\ Disturb({})

EndPass ==
  /\ at = "next"
  /\ todo = {}
  /\ at' = "idle"
  /\ who' = NoOne
  /\ UNCHANGED <<rowVars, keyring, googleVars, flow, deleting, todo, held, refreshed,
                 delta, page, faults>>
  /\ Disturb({})

(* sync_one: keyring::load finds the account's tokens. *)
Load(a) ==
  /\ at = "next"
  /\ a \in todo
  /\ keyring[a] # NoGrant
  /\ todo' = todo \ {a}
  /\ at' = "loaded"
  /\ who' = a
  /\ held' = keyring[a]
  /\ UNCHANGED <<rowVars, keyring, googleVars, flow, deleting, refreshed, delta, page, faults>>
  /\ Disturb({})

(***************************************************************************)
(* It finds none, and the account needs reconnecting; or the keyring fails *)
(* to answer.  The pass goes on to the next account.                       *)
(***************************************************************************)
PassOver(a) ==
  /\ at = "next"
  /\ a \in todo
  /\ todo' = todo \ {a}
  /\ UNCHANGED <<rowVars, keyring, googleVars, flow, deleting, at, who, held, refreshed,
                 delta, page, faults>>
  /\ Disturb({})

(* sync_account: store.calendars.  There may be none left. *)
ReadCalendars ==
  /\ at = "loaded"
  /\ at' = IF who \notin accounts THEN "storing" ELSE "paging"
  /\ delta' = cursor[who]
  /\ UNCHANGED <<rowVars, keyring, googleVars, flow, deleting, who, todo, held, refreshed,
                 page, faults>>
  /\ Disturb({})

(***************************************************************************)
(* Session::get answers a 401 by trading the refresh token for a new       *)
(* access token, and asks again.                                           *)
(***************************************************************************)
Refresh ==
  /\ at = "paging"
  /\ ~ refreshed
  /\ held > dead[who]
  /\ refreshed' = TRUE
  /\ UNCHANGED <<rowVars, keyring, googleVars, flow, deleting, at, who, todo, held, delta,
                 page, faults>>
  /\ Disturb({})

(* RefreshRejected, or any other error: the calendar fails. *)
CalendarFails ==
  /\ at = "paging"
  /\ at' = "storing"
  /\ UNCHANGED <<rowVars, keyring, googleVars, flow, deleting, who, todo, held, refreshed,
                 delta, page, faults>>
  /\ Disturb({})

(* A delta is one empty page: nothing changes at Google here. *)
EmptyDelta ==
  /\ at = "paging"
  /\ delta
  /\ at' = "recording"
  /\ UNCHANGED <<rowVars, keyring, googleVars, flow, deleting, who, todo, held, refreshed,
                 delta, page, faults>>
  /\ Disturb({})

(***************************************************************************)
(* A page of a full fetch is written, wherever the calendar's row now      *)
(* comes from; without one the foreign key refuses its events, and the     *)
(* calendar fails.  Mutants: foreign keys are off; the cursor is recorded  *)
(* with the first page.                                                    *)
(***************************************************************************)
WriteUnchecked ==
  /\ at = "paging"
  /\ ~ delta
  /\ events' = [events EXCEPT ![who] = @ \cup {page + 1}]
  /\ page' = page + 1
  /\ at' = IF page' = Pages THEN "recording" ELSE "paging"
  /\ UNCHANGED <<accounts, cursor, keyring, googleVars, flow, deleting, who, todo, held,
                 refreshed, delta, faults>>
  /\ Disturb({})

WriteAndRecord ==
  /\ at = "paging"
  /\ ~ delta
  /\ who \in accounts
  /\ events' = [events EXCEPT ![who] = @ \cup {page + 1}]
  /\ cursor' = [cursor EXCEPT ![who] = TRUE]
  /\ page' = page + 1
  /\ at' = IF page' = Pages THEN "recording" ELSE "paging"
  /\ UNCHANGED <<accounts, keyring, googleVars, flow, deleting, who, todo, held, refreshed,
                 delta, faults>>
  /\ Disturb({})

WritePage ==
  /\ at = "paging"
  /\ ~ delta
  /\ who \in accounts
  /\ events' = [events EXCEPT ![who] = @ \cup {page + 1}]
  /\ page' = page + 1
  /\ at' = IF page' = Pages THEN "recording" ELSE "paging"
  /\ UNCHANGED <<accounts, cursor, keyring, googleVars, flow, deleting, who, todo, held,
                 refreshed, delta, faults>>
  /\ Disturb({})

(* set_sync_token: an UPDATE, of no row if the calendar has gone. *)
Record ==
  /\ at = "recording"
  /\ cursor' = [cursor EXCEPT ![who] = (who \in accounts)]
  /\ at' = "storing"
  /\ UNCHANGED <<accounts, events, keyring, googleVars, flow, deleting, who, todo, held,
                 refreshed, delta, page, faults>>
  /\ Disturb({})

(* The Session and its report are dropped. *)
NextAccount ==
  /\ at' = "next"
  /\ who' = NoOne
  /\ held' = NoGrant
  /\ refreshed' = FALSE
  /\ delta' = FALSE
  /\ page' = 0
  /\ UNCHANGED todo

(***************************************************************************)
(* sync_one's last step: a refreshed token is stored, with its grant.  The *)
(* mutant also throws away tokens that Google has refused.                 *)
(***************************************************************************)
StoreTokensOrForget ==
  /\ at = "storing"
  /\ keyring' = [keyring EXCEPT ![who] = IF refreshed THEN held
                                        ELSE IF held <= dead[who] THEN NoGrant ELSE @]
  /\ NextAccount
  /\ UNCHANGED <<rowVars, googleVars, flow, deleting, faults>>
  /\ Disturb({})
StoreTokens ==
  /\ at = "storing"
  /\ keyring' = [keyring EXCEPT ![who] = IF refreshed THEN held ELSE @]
  /\ NextAccount
  /\ UNCHANGED <<rowVars, googleVars, flow, deleting, faults>>
  /\ Disturb({})

StoreTokensFails ==
  /\ at = "storing"
  /\ refreshed
  /\ Fault
  /\ NextAccount
  /\ UNCHANGED <<rowVars, keyring, googleVars, flow, deleting>>
  /\ Disturb({})

(***************************************************************************)
(* The process ends: connects, removals and the pass with it.  Half done,  *)
(* a connect leaves a row with no tokens, a removal tokens with no row.    *)
(***************************************************************************)
Crash ==
  /\ at # "idle" \/ deleting # {} \/ \E f \in Flow : flow[f] # Idle
  /\ Fault
  /\ flow' = [f \in Flow |-> Idle]
  /\ deleting' = {}
  /\ at' = "idle" /\ who' = NoOne /\ todo' = {} /\ held' = NoGrant
  /\ refreshed' = FALSE /\ delta' = FALSE /\ page' = 0
  /\ UNCHANGED <<rowVars, keyring, googleVars>>
  /\ Disturb({a \in Account : Writers(a) # {} \/ Removing(a)})

-----------------------------------------------------------------------------

Next ==
  \/ \E f \in Flow : \/ \E a \in Account : Granted(f, a)
                     \/ GivesUp(f)
                     \/ WriteRows(f)
                     \/ StoreGrant(f)
                     \/ StoreFails(f)
  \/ \E a \in Account : \/ Remove(a)
                        \/ RemoveFails(a)
                        \/ Delete(a)
                        \/ DeleteFails(a)
                        \/ Revoke(a)
                        \/ Load(a)
                        \/ PassOver(a)
  \/ BeginPass
  \/ ReadCalendars
  \/ Refresh
  \/ CalendarFails
  \/ EmptyDelta
  \/ WritePage
  \/ Record
  \/ StoreTokens
  \/ StoreTokensFails
  \/ EndPass
  \/ Crash

Spec == Init /\ [][Next]_vars
-----------------------------------------------------------------------------
(* Properties. *)

(* Nothing is half done on the account. *)
AtRest(a) == Writers(a) = {} /\ ~ Removing(a) /\ ~ PassOn(a)

(***************************************************************************)
(* A row has tokens and tokens have a row, once what was done to the       *)
(* account is done: a failed connect leaves neither, a removal neither.    *)
(* It takes a fault, or two of connect, removal and pass on the account at *)
(* once, to make it false.                                                 *)
(***************************************************************************)
Paired ==
  \A a \in Account :
    a \notin disturbed /\ AtRest(a) => (a \in accounts <=> keyring[a] # NoGrant)

(***************************************************************************)
(* A calendar with a cursor has all its events: removing an account and    *)
(* connecting it again does not leave it a cursor from before.  It takes a *)
(* pass that was on the account meanwhile to make it false.                *)
(***************************************************************************)
CursorHonest ==
  \A a \in Account : a \notin disturbed /\ cursor[a] => events[a] = 1 .. Pages

(***************************************************************************)
(* What a pass writes after its account was removed goes nowhere: no       *)
(* events and no cursor without a row, even while disturbed.               *)
(***************************************************************************)
NoOrphans == \A a \in Account : a \notin accounts => events[a] = {} /\ ~ cursor[a]

(***************************************************************************)
(* A pass leaves an account the grant it found there, whatever Google made *)
(* of it: a refused grant is not thrown away, and a refreshed token does   *)
(* not put an older grant in the place of a newer one, or of none, unless  *)
(* a connect or a removal overtook the pass.                               *)
(***************************************************************************)
PassKeepsTheGrant ==
  [][\A a \in Account :
       PassOn(a) /\ ~ PassOn(a)' /\ a \notin disturbed => keyring'[a] = keyring[a]]_vars

(***************************************************************************)
(* ui/mod.rs:1808-1809, "The tokens outlive the row otherwise, and the     *)
(* next connect would silently reuse a grant the user believes they        *)
(* revoked": an account that was removed with its tokens gets none again,  *)
(* unless the user is connecting it.                                       *)
(***************************************************************************)
RemovedMeansForgotten ==
  [][\A a \in Account :
       a \notin accounts /\ keyring[a] = NoGrant /\ Writers(a) = {}
         => keyring'[a] = NoGrant]_vars
=============================================================================
