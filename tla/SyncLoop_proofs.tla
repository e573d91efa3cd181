-------------------------- MODULE SyncLoop_proofs --------------------------
(***************************************************************************)
(* Proofs about SyncLoop, for every set of accounts, every pair of         *)
(* intervals and every number of changes.                                  *)
(***************************************************************************)
EXTENDS SyncLoop, TLAPS

(* syncing is set exactly while the link is not waiting for its timer. *)
SyncingInv == \A l \in Link : phase[l] # "off" => (syncing <=> phase[l] # "timer")

(* What has gone by and what is left of a wait is the interval. *)
QuietInv ==
  \A l \in Link :
    /\ phase[l] = "timer" => quiet + left[l] = interval[l]
    /\ phase[l] \in InFlight => quiet = 0

IInv == TypeOK /\ OneLink /\ HandleIsLive /\ SyncingInv /\ QuietInv

-----------------------------------------------------------------------------
(* Lemmas. *)

(* The back-off stays between the floor and the ceiling. *)
LEMMA NextIntervalBounds ==
  ASSUME NEW n \in MinInterval .. MaxInterval, NEW any \in BOOLEAN
  PROVE  next_interval(n, any) \in MinInterval .. MaxInterval
  BY IntervalAssumption DEF next_interval, Smaller, Larger

(* A step that leaves the links and the wait alone. *)
LEMMA LoopUnchanged ==
  ASSUME IInv, TypeOK', UNCHANGED <<loopVars, quiet>>
  PROVE  IInv'
  BY DEF IInv, OneLink, HandleIsLive, SyncingInv, QuietInv, loopVars

(* A step of the pass: it stays under way. *)
LEMMA PassMoves ==
  ASSUME IInv, TypeOK', NEW l \in Link, NEW p \in InFlight,
         phase[l] \in InFlight, phase' = [phase EXCEPT ![l] = p],
         UNCHANGED <<syncing, pending_sync, interval, left, quiet>>
  PROVE  IInv'
  <1>1. \A k \in Link : phase'[k] = IF k = l THEN p ELSE phase[k]
    BY DEF IInv, TypeOK
  <1>2. OneLink'
    BY <1>1 DEF IInv, OneLink, InFlight
  <1>3. HandleIsLive' /\ SyncingInv' /\ QuietInv'
    BY <1>1 DEF IInv, HandleIsLive, SyncingInv, QuietInv, InFlight
  <1>. QED
    BY <1>2, <1>3 DEF IInv

(* A link starts a pass, when every other is off. *)
LEMMA StartInv ==
  ASSUME IInv, TypeOK', NEW l \in Link, NEW length, NEW others,
         others \in [Link -> Phase],
         \A k \in Link : k # l => others[k] = "off",
         StartSyncing(l, length, others, None)
  PROVE  IInv'
  <1>1. /\ \A k \in Link : phase'[k] = IF k = l THEN "started" ELSE "off"
        /\ syncing' = TRUE /\ pending_sync' = None /\ quiet' = 0
    BY DEF StartSyncing
  <1>2. OneLink'
    BY <1>1 DEF OneLink
  <1>3. HandleIsLive' /\ SyncingInv' /\ QuietInv'
    BY <1>1, LinkAssumption DEF HandleIsLive, SyncingInv, QuietInv
  <1>. QED
    BY <1>2, <1>3 DEF IInv

(***************************************************************************)
(* sync_now, in whatever state: at most it replaces the one link by        *)
(* another, and the rest of TypeOK is its caller's.                        *)
(***************************************************************************)
LEMMA SyncNowInv ==
  ASSUME IInv, SyncNow, UNCHANGED <<passVars, changes>>,
         needs_reconnect' \subseteq Account, connected' \subseteq Account,
         revoked' \subseteq Account, consented' \subseteq Account, unfetched' \subseteq Account
  PROVE  IInv'
  <1>1. CASE syncing
    <2>1. UNCHANGED <<loopVars, quiet>>
      BY <1>1 DEF SyncNow
    <2>2. TypeOK'
      BY <2>1 DEF IInv, TypeOK, loopVars, passVars
    <2>. QED
      BY <2>1, <2>2, LoopUnchanged
  <1>2. CASE ~ syncing
    <2>. DEFINE cancelled == [k \in Link |-> IF k = pending_sync THEN "off" ELSE phase[k]]
    <2>1. PICK l \in Link : /\ cancelled[l] = "off"
                            /\ StartSyncing(l, MinInterval, cancelled, None)
      BY <1>2 DEF SyncNow
    <2>2. cancelled \in [Link -> Phase] /\ \A k \in Link : cancelled[k] = "off"
      BY <1>2 DEF IInv, TypeOK, Phase, SyncingInv, HandleIsLive
    <2>3. /\ phase' \in [Link -> Phase]
          /\ interval' \in [Link -> MinInterval .. MaxInterval]
          /\ left' \in [Link -> 0 .. MaxInterval]
          /\ syncing' = TRUE /\ pending_sync' = None /\ quiet' = 0
      <3>. HIDE DEF cancelled
      <3>1. "started" \in Phase
        BY DEF Phase
      <3>. QED
        BY <2>1, <2>2, <3>1, IntervalAssumption DEF StartSyncing, IInv, TypeOK
    <2>4. TypeOK'
      BY <2>3 DEF IInv, TypeOK, passVars
    <2>. HIDE DEF cancelled
    <2>. QED
      BY <2>1, <2>2, <2>4, StartInv
  <1>. QED
    BY <1>1, <1>2

-----------------------------------------------------------------------------
(* Every step preserves the invariant. *)

LEMMA InitInv == Init => IInv
  <1>. SUFFICES ASSUME Init PROVE IInv
    OBVIOUS
  <1>1. PICK l \in Link : phase = [k \in Link |-> IF k = l THEN "started" ELSE "off"]
    BY DEF Init
  <1>2. TypeOK
    <2>1. phase \in [Link -> Phase]
      BY <1>1 DEF Phase
    <2>. QED
      BY <2>1, IntervalAssumption DEF Init, TypeOK
  <1>3. OneLink
    BY <1>1 DEF OneLink
  <1>4. HandleIsLive /\ SyncingInv /\ QuietInv
    BY <1>1, LinkAssumption DEF Init, HandleIsLive, SyncingInv, QuietInv
  <1>. QED
    BY <1>2, <1>3, <1>4 DEF IInv

LEMMA FireInv ==
  ASSUME IInv, NEW l \in Link, Fire(l)
  PROVE  IInv'
  <1>1. /\ phase[l] = "timer"
        /\ StartSyncing(l, interval[l], phase, None)
        /\ UNCHANGED <<passVars, accountVars, needs_reconnect>>
    BY DEF Fire
  <1>2. phase \in [Link -> Phase] /\ \A k \in Link : k # l => phase[k] = "off"
    BY <1>1 DEF IInv, TypeOK, OneLink
  <1>3. TypeOK'
    <2>1. "started" \in Phase
      BY DEF Phase
    <2>2. /\ phase' \in [Link -> Phase]
          /\ interval' \in [Link -> MinInterval .. MaxInterval]
          /\ left' \in [Link -> 0 .. MaxInterval]
          /\ syncing' = TRUE /\ pending_sync' = None /\ quiet' = 0
      BY <1>1, <2>1, IntervalAssumption DEF StartSyncing, IInv, TypeOK
    <2>. QED
      BY <1>1, <2>2 DEF IInv, TypeOK, passVars, accountVars
  <1>. QED
    BY <1>1, <1>2, <1>3, StartInv

LEMMA ReadAccountsInv ==
  ASSUME IInv, NEW l \in Link, ReadAccounts(l)
  PROVE  IInv'
  <1>1. TypeOK'
    BY DEF IInv, TypeOK, Phase, ReadAccounts, accountVars
  <1>. QED
    BY <1>1, PassMoves DEF ReadAccounts, InFlight

LEMMA ReadFailsInv ==
  ASSUME IInv, NEW l \in Link, ReadFails(l)
  PROVE  IInv'
  <1>1. TypeOK'
    BY DEF IInv, TypeOK, Phase, ReadFails, passVars
  <1>. QED
    BY <1>1, PassMoves DEF ReadFails, InFlight

LEMMA SyncOneInv ==
  ASSUME IInv, NEW l \in Link, NEW a \in Account, SyncOne(l, a)
  PROVE  IInv'
  <1>1. TypeOK'
    <2>1. /\ todo' \in [Link -> SUBSET Account]
          /\ rejected' \in [Link -> SUBSET Account]
      BY DEF IInv, TypeOK, SyncOne
    <2>2. changed' \in [Link -> BOOLEAN]
      BY DEF IInv, TypeOK, SyncOne
    <2>. QED
      BY <2>1, <2>2 DEF IInv, TypeOK, SyncOne, loopVars
  <1>. QED
    BY <1>1, LoopUnchanged DEF SyncOne

LEMMA FinishInv ==
  ASSUME IInv, NEW l \in Link, Finish(l)
  PROVE  IInv'
  <1>1. TypeOK'
    BY DEF IInv, TypeOK, Phase, Finish, passVars, accountVars
  <1>. QED
    BY <1>1, PassMoves DEF Finish, InFlight

LEMMA LosePassInv ==
  ASSUME IInv, NEW l \in Link, LosePass(l)
  PROVE  IInv'
  <1>1. TypeOK'
    BY DEF IInv, TypeOK, Phase, LosePass, passVars, accountVars
  <1>. QED
    BY <1>1, PassMoves DEF LosePass, InFlight

LEMMA DeliverInv ==
  ASSUME IInv, NEW l \in Link, Deliver(l)
  PROVE  IInv'
  <1>. DEFINE next == next_interval(interval[l], changed[l])
  <1>1. next \in MinInterval .. MaxInterval
    BY NextIntervalBounds DEF IInv, TypeOK
  <1>. HIDE DEF next
  <1>2. /\ phase[l] = "done"
        /\ syncing' = FALSE /\ pending_sync' = l
        /\ needs_reconnect' = rejected[l]
        /\ interval' = [interval EXCEPT ![l] = next]
        /\ left' = [left EXCEPT ![l] = next]
        /\ phase' = [phase EXCEPT ![l] = "timer"]
        /\ rejected' = [rejected EXCEPT ![l] = {}]
        /\ changed' = [changed EXCEPT ![l] = FALSE]
        /\ UNCHANGED <<todo, accountVars, quiet>>
    BY DEF Deliver, next
  <1>3. \A k \in Link : phase'[k] = IF k = l THEN "timer" ELSE phase[k]
    BY <1>2 DEF IInv, TypeOK
  <1>4. \A k \in Link : k # l => phase[k] = "off"
    BY <1>2 DEF IInv, OneLink
  <1>5. TypeOK'
    <2>1. /\ interval' \in [Link -> MinInterval .. MaxInterval]
          /\ left' \in [Link -> 0 .. MaxInterval]
      BY <1>1, <1>2, IntervalAssumption DEF IInv, TypeOK
    <2>2. phase' \in [Link -> Phase]
      BY <1>2 DEF IInv, TypeOK, Phase
    <2>3. rejected' \in [Link -> SUBSET Account] /\ changed' \in [Link -> BOOLEAN]
      BY <1>2 DEF IInv, TypeOK
    <2>. QED
      BY <1>2, <2>1, <2>2, <2>3 DEF IInv, TypeOK, accountVars
  <1>6. OneLink' /\ HandleIsLive' /\ SyncingInv'
    BY <1>2, <1>3, <1>4 DEF OneLink, HandleIsLive, SyncingInv
  <1>7. QuietInv'
    <2>1. quiet = 0 /\ quiet' = 0
      BY <1>2 DEF IInv, QuietInv, InFlight
    <2>2. left'[l] = next /\ interval'[l] = next
      BY <1>2 DEF IInv, TypeOK
    <2>. QED
      BY <1>1, <1>3, <1>4, <2>1, <2>2, IntervalAssumption DEF QuietInv, InFlight
  <1>. QED
    BY <1>5, <1>6, <1>7 DEF IInv

LEMMA TickInv ==
  ASSUME IInv, Tick
  PROVE  IInv'
  <1>1. /\ \A l \in Armed : left[l] > 0
        /\ left' = [l \in Link |-> IF l \in Armed THEN left[l] - 1 ELSE left[l]]
        /\ quiet' = quiet + 1
        /\ UNCHANGED <<syncing, pending_sync, phase, interval, passVars, accountVars,
                       needs_reconnect>>
    BY DEF Tick
  <1>2. TypeOK'
    <2>1. left' \in [Link -> 0 .. MaxInterval]
      BY <1>1, IntervalAssumption DEF IInv, TypeOK
    <2>. QED
      BY <1>1, <2>1 DEF IInv, TypeOK, passVars, accountVars
  <1>3. OneLink' /\ HandleIsLive' /\ SyncingInv'
    BY <1>1 DEF IInv, OneLink, HandleIsLive, SyncingInv
  <1>4. QuietInv'
    <2>1. PICK l \in Link : phase[l] = "timer"
      BY DEF Tick, Armed
    <2>2. \A k \in Link : k # l => phase[k] = "off"
      BY <2>1 DEF IInv, OneLink
    <2>3. /\ quiet + left[l] = interval[l]
          /\ left'[l] = left[l] - 1
      BY <1>1, <2>1 DEF IInv, QuietInv, Armed
    <2>4. quiet \in Nat /\ left[l] \in Nat /\ interval[l] \in Nat
      BY IntervalAssumption DEF IInv, TypeOK
    <2>5. quiet' + left'[l] = interval'[l]
      BY <1>1, <2>3, <2>4
    <2>. QED
      BY <1>1, <2>1, <2>2, <2>5 DEF QuietInv, InFlight
  <1>. QED
    BY <1>2, <1>3, <1>4 DEF IInv

(* IInv is inductive. *)
LEMMA NextInv == IInv /\ [Next]_vars => IInv'
  <1>. SUFFICES ASSUME IInv, [Next]_vars PROVE IInv'
    OBVIOUS
  <1>1. CASE Refresh
    BY <1>1, SyncNowInv DEF Refresh, IInv, TypeOK, accountVars
  <1>2. ASSUME NEW l \in Link, Fire(l) PROVE IInv'
    BY <1>2, FireInv
  <1>3. ASSUME NEW l \in Link, ReadAccounts(l) \/ ReadFails(l) PROVE IInv'
    BY <1>3, ReadAccountsInv, ReadFailsInv
  <1>4. ASSUME NEW l \in Link, Finish(l) \/ LosePass(l) PROVE IInv'
    BY <1>4, FinishInv, LosePassInv
  <1>5. ASSUME NEW l \in Link, Deliver(l) PROVE IInv'
    BY <1>5, DeliverInv
  <1>6. CASE SyncAny
    BY <1>6, SyncOneInv DEF SyncAny
  <1>7. ASSUME NEW a \in Account, Connected(a) PROVE IInv'
    BY <1>7, SyncNowInv DEF Connected, IInv, TypeOK
  <1>8. ASSUME NEW a \in Account, Consent(a) \/ Remove(a) \/ Revoke(a) PROVE IInv'
    <2>1. TypeOK'
      BY <1>8 DEF IInv, TypeOK, Consent, Remove, Revoke, loopVars, passVars
    <2>. QED
      BY <1>8, <2>1, LoopUnchanged DEF Consent, Remove, Revoke
  <1>9. CASE Tick
    BY <1>9, TickInv
  <1>10. CASE UNCHANGED vars
    <2>1. TypeOK'
      BY <1>10 DEF IInv, TypeOK, vars, loopVars, passVars, accountVars
    <2>. QED
      BY <1>10, <2>1, LoopUnchanged DEF vars
  <1>. QED
    BY <1>1, <1>2, <1>3, <1>4, <1>5, <1>6, <1>7, <1>8, <1>9, <1>10 DEF Next

THEOREM Inductive == Spec => []IInv
  BY InitInv, NextInv, PTL DEF Spec

-----------------------------------------------------------------------------

(* Every variable of the loop has its type. *)
THEOREM LoopTypeCorrect == Spec => []TypeOK
  <1>1. IInv => TypeOK
    BY DEF IInv
  <1>. QED
    BY <1>1, Inductive, PTL

(***************************************************************************)
(* The loop is neither forked nor broken: at every moment there is one     *)
(* pass, or one timer that will start one, and sync_now never removes a    *)
(* timer that has fired, nor misses an armed one.                          *)
(***************************************************************************)
THEOREM StaysWhole == Spec => []LoopIsWhole
  <1>1. IInv => LoopIsWhole
    BY DEF IInv, LoopIsWhole
  <1>. QED
    BY <1>1, Inductive, PTL

(* The wait between two passes never exceeds MAX_INTERVAL. *)
THEOREM QuietIsBounded == Spec => []NeverQuietLong
  <1>1. ASSUME IInv PROVE NeverQuietLong
    <2>1. PICK l \in Link : phase[l] # "off"
      BY <1>1 DEF IInv, OneLink
    <2>2. CASE phase[l] = "timer"
      <3>1. /\ quiet + left[l] = interval[l]
            /\ interval[l] \in MinInterval .. MaxInterval
            /\ left[l] \in 0 .. MaxInterval
            /\ quiet \in Nat
        BY <1>1, <2>2 DEF IInv, QuietInv, TypeOK
      <3>. QED
        BY <3>1, IntervalAssumption DEF NeverQuietLong
    <2>3. CASE phase[l] \in InFlight
      BY <1>1, <2>3, IntervalAssumption DEF IInv, QuietInv, NeverQuietLong
    <2>. QED
      BY <1>1, <2>1, <2>2, <2>3 DEF IInv, TypeOK, Phase, InFlight
  <1>. QED
    BY <1>1, Inductive, PTL
=============================================================================
