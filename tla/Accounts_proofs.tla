--------------------------- MODULE Accounts_proofs ---------------------------
(***************************************************************************)
(* Theorems about Accounts, for any accounts, connects, pages and faults:  *)
(* its types, and that rows, tokens, events and cursors agree on every     *)
(* account that no two of connect, removal and pass were on at once and no *)
(* fault has hit.                                                          *)
(***************************************************************************)
EXTENDS Accounts, TLAPS

-----------------------------------------------------------------------------
(* The inductive invariant. *)

(* A connect that has its grant has it of an account.                      *)
FlowInv ==
  \A f \in Flow : flow[f].stage # "idle" => flow[f].account \in Account /\ flow[f].grant # NoGrant

(* A pass that works is on an account, and has a page left to ask for.     *)
PassInv ==
  /\ at \in Working => who \in Account
  /\ at \in {"idle", "next", "loaded"} => page = 0
  /\ at = "paging" => page < Pages

(* The history misses nobody. *)
CrowdInv == \A a \in Account : Crowded(a) => a \in disturbed

(* What is half done on an account that nothing disturbed: a connect has   *)
(* written its row, a removal has taken it, and the pass found the tokens  *)
(* that are still there.                                                   *)
HalfDone(a) ==
  /\ Writers(a) # {} => a \in accounts
  /\ Removing(a) => a \notin accounts
  /\ PassOn(a) => a \in accounts /\ keyring[a] = held /\ held # NoGrant
  /\ AtRest(a) => (a \in accounts <=> keyring[a] # NoGrant)

(* And its cursor: it stands for all the pages, and so will the one that   *)
(* the pass is about to record.                                            *)
CursorInv(a) ==
  /\ cursor[a] => events[a] = 1 .. Pages
  /\ PassOn(a) /\ at \in {"paging", "recording"} =>
       /\ delta => cursor[a]
       /\ 1 .. page \subseteq events[a]
       /\ at = "recording" /\ ~ delta => page = Pages

Undisturbed == \A a \in Account \ disturbed : HalfDone(a) /\ CursorInv(a)

IInv ==
  /\ TypeOK
  /\ FlowInv
  /\ PassInv
  /\ CrowdInv
  /\ NoOrphans
  /\ Undisturbed

-----------------------------------------------------------------------------
LEMMA InitInv == Init => IInv
  <1> SUFFICES ASSUME Init
               PROVE  IInv
    OBVIOUS
  <1>1. TypeOK
    <2>1. flow \in [Flow -> [stage : Stage, account : Account \cup {NoOne}, grant : Nat]]
      BY DEF Init, Idle, Stage, NoGrant
    <2>2. cursor \in [Account -> BOOLEAN] /\ events \in [Account -> SUBSET (1 .. Pages)]
      BY DEF Init
    <2>3. keyring \in [Account -> Nat] /\ issued \in [Account -> Nat] /\ dead \in [Account -> Nat]
      BY DEF Init, NoGrant
    <2>4. page \in 0 .. Pages /\ held \in Nat /\ faults \in Nat
      BY PagesAssumption DEF Init, NoGrant
    <2> QED BY <2>1, <2>2, <2>3, <2>4 DEF Init, TypeOK
  <1>4. FlowInv /\ PassInv /\ NoOrphans
    BY DEF Init, Idle, FlowInv, PassInv, Working, NoOrphans
  <1>2. \A a \in Account : Writers(a) = {} /\ ~ Removing(a) /\ ~ PassOn(a)
    BY DEF Init, Writers, Removing, PassOn, Idle, Working
  <1>3. CrowdInv /\ Undisturbed
    BY <1>2 DEF Init, CrowdInv, Crowded, Undisturbed, HalfDone, CursorInv
  <1> QED BY <1>1, <1>3, <1>4 DEF IInv

(* Whatever a step does, the history is kept.                              *)
LEMMA Disturbed ==
  ASSUME TypeOK, NEW S \in SUBSET Account, Disturb(S)
  PROVE  /\ disturbed' \in SUBSET Account
         /\ disturbed \subseteq disturbed'
         /\ S \subseteq disturbed'
         /\ CrowdInv'
  BY DEF TypeOK, Disturb, CrowdInv

-----------------------------------------------------------------------------
(* Connects. *)

LEMMA GrantedInv ==
  ASSUME IInv, NEW f \in Flow, NEW a \in Account, Granted(f, a)
  PROVE  IInv'
  <1> USE DEF IInv
  <1>1. Disturb({})
    BY DEF Granted
  <1>2. TypeOK'
    <2>1. issued' \in [Account -> Nat] /\ issued'[a] \in Nat
      BY DEF Granted, TypeOK
    <2>2. flow' \in [Flow -> [stage : Stage, account : Account \cup {NoOne}, grant : Nat]]
      BY <2>1 DEF Granted, TypeOK, Stage
    <2> QED BY <1>1, <2>1, <2>2, Disturbed DEF Granted, TypeOK, rowVars, passVars
  <1>3. FlowInv'
    BY DEF Granted, FlowInv, TypeOK, NoGrant
  <1>4. PassInv' /\ NoOrphans'
    BY DEF Granted, PassInv, NoOrphans, rowVars, passVars
  <1>5. \A b \in Account : Writers(b)' = Writers(b)
    BY DEF Granted, Writers, TypeOK, Idle
  <1>6. Undisturbed'
    BY <1>1, <1>5, Disturbed DEF Granted, Undisturbed, HalfDone, CursorInv, Removing, PassOn, AtRest, rowVars, passVars
  <1> QED BY <1>1, <1>2, <1>3, <1>4, <1>6, Disturbed

LEMMA GivesUpInv ==
  ASSUME IInv, NEW f \in Flow, GivesUp(f)
  PROVE  IInv'
  <1> USE DEF IInv
  <1>1. Disturb({})
    BY DEF GivesUp
  <1>2. TypeOK'
    <2>1. flow' \in [Flow -> [stage : Stage, account : Account \cup {NoOne}, grant : Nat]]
      BY DEF GivesUp, TypeOK, Stage, Idle, NoGrant
    <2> QED BY <1>1, <2>1, Disturbed DEF GivesUp, TypeOK, rowVars, passVars, googleVars
  <1>3. FlowInv'
    BY DEF GivesUp, FlowInv, TypeOK, Idle
  <1>4. PassInv' /\ NoOrphans'
    BY DEF GivesUp, PassInv, NoOrphans, rowVars, passVars
  <1>5. \A b \in Account : Writers(b)' = Writers(b)
    BY DEF GivesUp, Writers, TypeOK, Idle
  <1>6. Undisturbed'
    BY <1>1, <1>5, Disturbed
       DEF GivesUp, Undisturbed, HalfDone, CursorInv, Removing, PassOn, AtRest, rowVars, passVars
  <1> QED BY <1>1, <1>2, <1>3, <1>4, <1>6, Disturbed

LEMMA WriteRowsInv ==
  ASSUME IInv, NEW f \in Flow, WriteRows(f)
  PROVE  IInv'
  <1> USE DEF IInv
  <1>0. PICK a \in Account : a = flow[f].account
    BY DEF WriteRows, FlowInv
  <1>1. Disturb({})
    BY DEF WriteRows
  <1>2. TypeOK'
    <2>1. flow' \in [Flow -> [stage : Stage, account : Account \cup {NoOne}, grant : Nat]]
      BY <1>0 DEF WriteRows, TypeOK, Stage
    <2> QED BY <1>0, <1>1, <2>1, Disturbed DEF WriteRows, TypeOK, rowVars, passVars, googleVars
  <1>3. FlowInv'
    BY DEF WriteRows, FlowInv, TypeOK
  <1>4. PassInv' /\ NoOrphans'
    BY <1>0 DEF WriteRows, PassInv, NoOrphans, passVars
  <1>5. \A b \in Account \ {a} : Writers(b)' = Writers(b)
    BY <1>0 DEF WriteRows, Writers, TypeOK
  <1>6. f \in Writers(a)'
    BY <1>0 DEF WriteRows, Writers, TypeOK
  <1>7. ASSUME NEW b \in Account \ disturbed'
        PROVE  HalfDone(b)' /\ CursorInv(b)'
    <2>1. CASE b # a
      BY <1>0, <1>1, <1>5, <2>1, Disturbed
         DEF WriteRows, Undisturbed, HalfDone, CursorInv, Removing, PassOn, AtRest, passVars
    <2>2. CASE b = a
      <3>1. ~ PassOn(a)' /\ ~ Removing(a)'
        BY <1>1, <1>6, <1>7, <2>2, Disturbed DEF CrowdInv, Crowded
      <3>2. a \in accounts' /\ UNCHANGED <<events, cursor>>
        BY <1>0 DEF WriteRows
      <3> QED BY <1>1, <1>6, <2>2, <3>1, <3>2, Disturbed DEF HalfDone, CursorInv, Undisturbed, AtRest
    <2> QED BY <2>1, <2>2
  <1> QED BY <1>1, <1>2, <1>3, <1>4, <1>7, Disturbed DEF Undisturbed

LEMMA StoreGrantInv ==
  ASSUME IInv, NEW f \in Flow, StoreGrant(f)
  PROVE  IInv'
  <1> USE DEF IInv
  <1>0. PICK a \in Account : a = flow[f].account
    BY DEF StoreGrant, FlowInv
  <1>1. Disturb({}) /\ f \in Writers(a) /\ flow[f].grant \in Nat \ {NoGrant}
    BY <1>0 DEF StoreGrant, FlowInv, Writers, TypeOK
  <1>2. TypeOK'
    <2>1. flow' \in [Flow -> [stage : Stage, account : Account \cup {NoOne}, grant : Nat]]
      BY DEF StoreGrant, TypeOK, Stage, Idle, NoGrant
    <2>2. keyring' \in [Account -> Nat]
      BY <1>0, <1>1 DEF StoreGrant, TypeOK
    <2> QED BY <1>1, <2>1, <2>2, Disturbed DEF StoreGrant, TypeOK, rowVars, passVars, googleVars
  <1>3. FlowInv'
    BY DEF StoreGrant, FlowInv, TypeOK, Idle
  <1>4. PassInv' /\ NoOrphans'
    BY DEF StoreGrant, PassInv, NoOrphans, passVars, rowVars
  <1>5. \A b \in Account \ {a} : Writers(b)' = Writers(b) /\ keyring'[b] = keyring[b]
    BY <1>0 DEF StoreGrant, Writers, TypeOK, Idle
  <1>6. keyring'[a] # NoGrant
    BY <1>0, <1>1 DEF StoreGrant, TypeOK
  <1>7. ASSUME NEW b \in Account \ disturbed'
        PROVE  HalfDone(b)' /\ CursorInv(b)'
    <2>1. CASE b # a
      BY <1>1, <1>5, <2>1, Disturbed
         DEF StoreGrant, Undisturbed, HalfDone, CursorInv, Removing, PassOn, AtRest, passVars, rowVars
    <2>2. CASE b = a
      <3>1. a \notin disturbed /\ a \in accounts
        BY <1>1, <2>2, Disturbed DEF Undisturbed, HalfDone
      <3>2. ~ PassOn(a)' /\ ~ Removing(a)'
        BY <1>1, <3>1 DEF CrowdInv, Crowded, StoreGrant, PassOn, Removing, passVars
      <3>3. UNCHANGED <<events, cursor, accounts>>
        BY DEF StoreGrant, rowVars
      <3> QED BY <1>6, <2>2, <3>1, <3>2, <3>3 DEF HalfDone, CursorInv, Undisturbed
    <2> QED BY <2>1, <2>2
  <1> QED BY <1>1, <1>2, <1>3, <1>4, <1>7, Disturbed DEF Undisturbed

LEMMA StoreFailsInv ==
  ASSUME IInv, NEW f \in Flow, StoreFails(f)
  PROVE  IInv'
  <1> USE DEF IInv
  <1>0. PICK a \in Account : a = flow[f].account
    BY DEF StoreFails, FlowInv
  <1> DEFINE S == {b \in {a} : keyring[b] # NoGrant}
  <1>1. f \in Writers(a)
    BY <1>0 DEF StoreFails, Writers
  <1>2. Disturb(S) /\ S \in SUBSET Account
    BY <1>0 DEF StoreFails
  <1> HIDE DEF S
  <1>3. TypeOK'
    <2>1. flow' \in [Flow -> [stage : Stage, account : Account \cup {NoOne}, grant : Nat]]
      BY DEF StoreFails, TypeOK, Stage, Idle, NoGrant
    <2>2. /\ accounts' \subseteq Account
          /\ events' \in [Account -> SUBSET (1 .. Pages)]
          /\ cursor' \in [Account -> BOOLEAN]
      BY <1>0 DEF StoreFails, RemoveRows, TypeOK
    <2> QED BY <1>2, <2>1, <2>2, Disturbed DEF StoreFails, TypeOK, Fault, passVars, googleVars
  <1>4. FlowInv'
    BY DEF StoreFails, FlowInv, TypeOK, Idle
  <1>5. PassInv' /\ NoOrphans'
    BY <1>0 DEF StoreFails, RemoveRows, PassInv, NoOrphans, passVars, TypeOK
  <1>6. \A b \in Account \ {a} :
          /\ Writers(b)' = Writers(b)
          /\ b \in accounts' <=> b \in accounts
          /\ events'[b] = events[b] /\ cursor'[b] = cursor[b]
    <2>1. \A b \in Account \ {a} : Writers(b)' = Writers(b)
      BY <1>0 DEF StoreFails, Writers, TypeOK, Idle
    <2>2. \A b \in Account \ {a} : /\ b \in accounts' <=> b \in accounts
                                   /\ events'[b] = events[b] /\ cursor'[b] = cursor[b]
      BY <1>0 DEF StoreFails, RemoveRows, TypeOK
    <2> QED BY <2>1, <2>2
  <1>7. ASSUME NEW b \in Account \ disturbed'
        PROVE  HalfDone(b)' /\ CursorInv(b)'
    <2>1. CASE b # a
      BY <1>2, <1>6, <2>1, Disturbed
         DEF StoreFails, Undisturbed, HalfDone, CursorInv, Removing, PassOn, AtRest, passVars
    <2>2. CASE b = a
      <3>1. a \notin disturbed /\ keyring[a] = NoGrant
        BY <1>2, <2>2, Disturbed DEF S
      <3>2. ~ PassOn(a)' /\ Writers(a)' = {}
        <4>1. ~ PassOn(a)
          BY <1>1, <3>1 DEF CrowdInv, Crowded
        <4>2. Writers(a) = {f}
          BY <1>1, <3>1 DEF CrowdInv, Crowded
        <4> QED BY <1>0, <4>1, <4>2 DEF StoreFails, PassOn, passVars, Writers, TypeOK, Idle
      <3>3. a \notin accounts' /\ ~ cursor'[a] /\ keyring' = keyring
        BY <1>0 DEF StoreFails, RemoveRows, TypeOK
      <3> QED BY <2>2, <3>1, <3>2, <3>3 DEF HalfDone, CursorInv
    <2> QED BY <2>1, <2>2
  <1> QED BY <1>2, <1>3, <1>4, <1>5, <1>7, Disturbed DEF Undisturbed

-----------------------------------------------------------------------------
(* Removals, and Google's side.  None of them moves a connect or the pass. *)

LEMMA RemoveInv ==
  ASSUME IInv, NEW a \in Account, Remove(a)
  PROVE  IInv'
  <1> USE DEF IInv
  <1>1. Disturb({})
    BY DEF Remove
  <1>2. TypeOK'
    <2>1. /\ accounts' \subseteq Account
          /\ events' \in [Account -> SUBSET (1 .. Pages)]
          /\ cursor' \in [Account -> BOOLEAN]
      BY DEF Remove, RemoveRows, TypeOK
    <2> QED BY <1>1, <2>1, Disturbed DEF Remove, TypeOK, passVars, googleVars
  <1>3. FlowInv' /\ PassInv' /\ NoOrphans'
    BY DEF Remove, RemoveRows, FlowInv, PassInv, NoOrphans, TypeOK, passVars
  <1>4. \A b \in Account : /\ Writers(b)' = Writers(b)
                           /\ PassOn(b)' <=> PassOn(b)
    BY DEF Remove, Writers, PassOn, passVars
  <1>5. ASSUME NEW b \in Account \ disturbed'
        PROVE  HalfDone(b)' /\ CursorInv(b)'
    <2>1. CASE b # a
      <3>1. /\ b \in accounts' <=> b \in accounts
            /\ events'[b] = events[b] /\ cursor'[b] = cursor[b]
            /\ Removing(b)' <=> Removing(b)
        BY <2>1 DEF Remove, RemoveRows, Removing, TypeOK
      <3> QED BY <1>1, <1>4, <3>1, Disturbed
              DEF Remove, Undisturbed, HalfDone, CursorInv, AtRest, passVars
    <2>2. CASE b = a
      <3>1. Removing(a)' /\ a \notin accounts' /\ ~ cursor'[a]
        BY DEF Remove, RemoveRows, Removing, TypeOK
      <3>2. Writers(a)' = {} /\ ~ PassOn(a)'
        BY <1>1, <1>5, <2>2, <3>1, Disturbed DEF CrowdInv, Crowded
      <3> QED BY <2>2, <3>1, <3>2 DEF HalfDone, CursorInv, AtRest
    <2> QED BY <2>1, <2>2
  <1> QED BY <1>1, <1>2, <1>3, <1>5, Disturbed DEF Undisturbed

(* A removal of which one half fails disturbs its account.                 *)
LEMMA RemovalFailsInv ==
  ASSUME IInv, NEW a \in Account, RemoveFails(a) \/ DeleteFails(a)
  PROVE  IInv'
  <1> USE DEF IInv, RemoveFails, DeleteFails
  <1>1. Disturb({a})
    OBVIOUS
  <1>2. TypeOK'
    BY <1>1, Disturbed DEF TypeOK, Fault, rowVars, passVars, googleVars
  <1>3. FlowInv' /\ PassInv' /\ NoOrphans'
    BY DEF FlowInv, PassInv, NoOrphans, passVars, rowVars
  <1>4. \A b \in Account \ {a} : Removing(b)' <=> Removing(b)
    BY DEF Removing
  <1>5. \A b \in Account : Writers(b)' = Writers(b) /\ (PassOn(b)' <=> PassOn(b))
    BY DEF Writers, PassOn, passVars
  <1>6. a \in disturbed'
    BY <1>1, Disturbed
  <1>7. Undisturbed'
    BY <1>1, <1>4, <1>5, <1>6, Disturbed
       DEF Undisturbed, HalfDone, CursorInv, AtRest, rowVars, passVars
  <1> QED BY <1>1, <1>2, <1>3, <1>7, Disturbed

LEMMA DeleteInv ==
  ASSUME IInv, NEW a \in Account, Delete(a)
  PROVE  IInv'
  <1> USE DEF IInv
  <1>1. Disturb({})
    BY DEF Delete
  <1>2. TypeOK'
    <2>1. keyring' \in [Account -> Nat]
      BY DEF Delete, TypeOK, NoGrant
    <2> QED BY <1>1, <2>1, Disturbed DEF Delete, TypeOK, rowVars, passVars, googleVars
  <1>3. FlowInv' /\ PassInv' /\ NoOrphans'
    BY DEF Delete, FlowInv, PassInv, NoOrphans, passVars, rowVars
  <1>4. \A b \in Account : Writers(b)' = Writers(b) /\ (PassOn(b)' <=> PassOn(b))
    BY DEF Delete, Writers, PassOn, passVars
  <1>5. ASSUME NEW b \in Account \ disturbed'
        PROVE  HalfDone(b)' /\ CursorInv(b)'
    <2>0. b \notin disturbed
      BY <1>1, <1>5, Disturbed
    <2>1. CASE b # a
      <3>1. keyring'[b] = keyring[b] /\ (Removing(b)' <=> Removing(b))
        BY <2>1 DEF Delete, Removing, TypeOK
      <3> QED BY <1>4, <2>0, <3>1
              DEF Delete, Undisturbed, HalfDone, CursorInv, AtRest, rowVars, passVars
    <2>2. CASE b = a
      <3>1. Removing(a) /\ a \notin accounts
        BY <2>0, <2>2 DEF Delete, Removing, Undisturbed, HalfDone
      <3>2. Writers(a)' = {} /\ ~ PassOn(a)'
        BY <1>4, <2>0, <2>2, <3>1 DEF CrowdInv, Crowded
      <3>3. keyring'[a] = NoGrant /\ ~ Removing(a)' /\ a \notin accounts' /\ ~ cursor'[a]
        BY <3>1 DEF Delete, Removing, TypeOK, rowVars, NoOrphans
      <3> QED BY <2>2, <3>2, <3>3 DEF HalfDone, CursorInv, AtRest
    <2> QED BY <2>1, <2>2
  <1> QED BY <1>1, <1>2, <1>3, <1>5, Disturbed DEF Undisturbed

LEMMA RevokeInv ==
  ASSUME IInv, NEW a \in Account, Revoke(a)
  PROVE  IInv'
  <1> USE DEF IInv
  <1>1. Disturb({})
    BY DEF Revoke
  <1>2. TypeOK'
    <2>1. dead' \in [Account -> Nat]
      BY DEF Revoke, TypeOK
    <2> QED BY <1>1, <2>1, Disturbed DEF Revoke, TypeOK, Fault, rowVars, passVars
  <1>3. FlowInv' /\ PassInv' /\ NoOrphans'
    BY DEF Revoke, FlowInv, PassInv, NoOrphans, passVars, rowVars
  <1>4. Undisturbed'
    BY <1>1, Disturbed
       DEF Revoke, Undisturbed, HalfDone, CursorInv, AtRest, Writers, Removing, PassOn,
           rowVars, passVars
  <1> QED BY <1>1, <1>2, <1>3, <1>4, Disturbed

-----------------------------------------------------------------------------
(* The pass: no step of it moves a connect or a removal, and only the      *)
(* account it is on is any different for it.                               *)

(* Where nothing is written, what is half done elsewhere stays as it is.   *)
LEMMA Elsewhere ==
  ASSUME IInv, NEW b \in Account \ disturbed,
         UNCHANGED <<flow, deleting>>,
         b \in accounts' <=> b \in accounts,
         keyring'[b] = keyring[b], events'[b] = events[b], cursor'[b] = cursor[b],
         ~ PassOn(b), ~ PassOn(b)'
  PROVE  HalfDone(b)' /\ CursorInv(b)'
  BY DEF IInv, Undisturbed, HalfDone, CursorInv, AtRest, Writers, Removing

LEMMA BetweenAccountsInv ==
  ASSUME IInv, BeginPass \/ EndPass \/ \E a \in Account : PassOver(a)
  PROVE  IInv'
  <1> USE DEF IInv, BeginPass, EndPass, PassOver
  <1>1. Disturb({})
    OBVIOUS
  <1>2. TypeOK'
    BY <1>1, Disturbed DEF TypeOK, rowVars, googleVars
  <1>3. FlowInv' /\ PassInv' /\ NoOrphans'
    BY DEF FlowInv, PassInv, NoOrphans, rowVars, Working
  <1>4. ASSUME NEW b \in Account \ disturbed'
        PROVE  HalfDone(b)' /\ CursorInv(b)'
    <2>1. ~ PassOn(b) /\ ~ PassOn(b)'
      BY DEF PassOn, Working
    <2>2. UNCHANGED <<flow, deleting, accounts, events, cursor, keyring>>
      BY DEF rowVars
    <2> QED BY <1>1, <2>1, <2>2, Elsewhere, Disturbed
  <1> QED BY <1>1, <1>2, <1>3, <1>4, Disturbed DEF Undisturbed

LEMMA LoadInv ==
  ASSUME IInv, NEW a \in Account, Load(a)
  PROVE  IInv'
  <1> USE DEF IInv
  <1>1. Disturb({})
    BY DEF Load
  <1>2. TypeOK'
    BY <1>1, Disturbed DEF Load, TypeOK, Working, rowVars, googleVars
  <1>3. FlowInv' /\ PassInv' /\ NoOrphans'
    BY DEF Load, FlowInv, PassInv, NoOrphans, rowVars, Working
  <1>4. UNCHANGED <<flow, deleting, accounts, events, cursor, keyring>>
    BY DEF Load, rowVars
  <1>5. \A b \in Account : ~ PassOn(b) /\ (PassOn(b)' <=> b = a)
    BY DEF Load, PassOn, Working
  <1>6. ASSUME NEW b \in Account \ disturbed'
        PROVE  HalfDone(b)' /\ CursorInv(b)'
    <2>1. CASE b # a
      BY <1>1, <1>4, <1>5, <2>1, Elsewhere, Disturbed
    <2>2. CASE b = a
      <3>1. Writers(a)' = {} /\ ~ Removing(a)'
        BY <1>1, <1>5, <1>6, <2>2, Disturbed DEF CrowdInv, Crowded
      <3>2. AtRest(a)
        BY <1>4, <1>5, <3>1 DEF AtRest, Writers, Removing
      <3>3. a \in accounts /\ keyring[a] # NoGrant /\ (cursor[a] => events[a] = 1 .. Pages)
        BY <1>1, <2>2, <3>2, Disturbed DEF Load, Undisturbed, HalfDone, CursorInv
      <3>4. at' = "loaded" /\ held' = keyring[a]
        BY DEF Load
      <3> QED BY <1>4, <1>5, <2>2, <3>1, <3>3, <3>4 DEF HalfDone, CursorInv, AtRest
    <2> QED BY <2>1, <2>2
  <1> QED BY <1>1, <1>2, <1>3, <1>6, Disturbed DEF Undisturbed

(* On an account: its calendar read, its token refreshed, its fetch ended. *)
LEMMA OnAccountInv ==
  ASSUME IInv, ReadCalendars \/ Refresh \/ CalendarFails \/ EmptyDelta
  PROVE  IInv'
  <1> USE DEF IInv, ReadCalendars, Refresh, CalendarFails, EmptyDelta
  <1>1. Disturb({}) /\ who \in Account
    BY DEF PassInv, Working
  <1>2. TypeOK'
    <2>1. delta' \in BOOLEAN /\ refreshed' \in BOOLEAN
      BY <1>1 DEF TypeOK
    <2>2. at' \in Working
      BY DEF Working
    <2> QED BY <1>1, <2>1, <2>2, Disturbed DEF TypeOK, rowVars, googleVars
  <1>3. FlowInv' /\ NoOrphans'
    BY DEF FlowInv, NoOrphans, rowVars
  <1>4. PassInv'
    BY <1>1, PagesAssumption DEF PassInv, Working
  <1>5. UNCHANGED <<flow, deleting, accounts, events, cursor, keyring, who, held, page>>
    BY DEF rowVars
  <1>6. \A b \in Account : (PassOn(b) <=> b = who) /\ (PassOn(b)' <=> b = who)
    BY <1>5 DEF PassOn, Working
  <1>7. ASSUME NEW b \in Account \ disturbed'
        PROVE  HalfDone(b)' /\ CursorInv(b)'
    <2>1. CASE b # who
      BY <1>1, <1>5, <1>6, <2>1, Elsewhere, Disturbed
    <2>2. CASE b = who
      <3>1. HalfDone(b) /\ CursorInv(b)
        BY <1>1, <1>7, Disturbed DEF Undisturbed
      <3>2. HalfDone(b)'
        BY <1>5, <1>6, <3>1 DEF HalfDone, AtRest, Writers, Removing
      <3>3. at = "loaded" => page = 0
        BY DEF PassInv
      <3>4. CursorInv(b)'
        BY <1>5, <1>6, <2>2, <3>1, <3>3 DEF CursorInv
      <3> QED BY <3>2, <3>4
    <2> QED BY <2>1, <2>2
  <1> QED BY <1>1, <1>2, <1>3, <1>4, <1>7, Disturbed DEF Undisturbed

LEMMA WritePageInv ==
  ASSUME IInv, WritePage
  PROVE  IInv'
  <1> USE DEF IInv
  <1>1. Disturb({}) /\ who \in Account /\ page \in Nat /\ page < Pages
    BY PagesAssumption DEF WritePage, PassInv, Working, TypeOK
  <1>2. page + 1 \in 1 .. Pages /\ page' = page + 1
    BY <1>1, PagesAssumption DEF WritePage
  <1>3. TypeOK'
    <2>1. events' \in [Account -> SUBSET (1 .. Pages)]
      BY <1>1, <1>2 DEF WritePage, TypeOK
    <2>2. page' \in 0 .. Pages /\ at' \in Working
      BY <1>2 DEF WritePage, Working
    <2> QED BY <1>1, <2>1, <2>2, Disturbed DEF WritePage, TypeOK, googleVars
  <1>4. FlowInv' /\ NoOrphans'
    BY <1>1 DEF WritePage, FlowInv, NoOrphans, TypeOK
  <1>5. PassInv'
    BY <1>1, <1>2, PagesAssumption DEF WritePage, PassInv, Working
  <1>6. /\ UNCHANGED <<flow, deleting, accounts, cursor, keyring, who, held, delta>>
        /\ \A b \in Account : (PassOn(b) <=> b = who) /\ (PassOn(b)' <=> b = who)
    BY DEF WritePage, PassOn, Working
  <1>7. ASSUME NEW b \in Account \ disturbed'
        PROVE  HalfDone(b)' /\ CursorInv(b)'
    <2>1. CASE b # who
      <3>1. events'[b] = events[b]
        BY <1>1, <2>1 DEF WritePage, TypeOK
      <3> QED BY <1>1, <1>6, <2>1, <3>1, Elsewhere, Disturbed
    <2>2. CASE b = who
      <3>1. HalfDone(b) /\ CursorInv(b)
        BY <1>1, <1>7, Disturbed DEF Undisturbed
      <3>2. HalfDone(b)'
        BY <1>6, <3>1 DEF HalfDone, AtRest, Writers, Removing
      <3>3. events'[b] = events[b] \cup {page + 1} /\ events[b] \subseteq 1 .. Pages
        BY <1>1, <2>2 DEF WritePage, TypeOK
      <3>4. 1 .. page' \subseteq events'[b]
        <4>1. 1 .. page \subseteq events[b]
          BY <1>6, <2>2, <3>1 DEF WritePage, CursorInv
        <4>2. 1 .. (page + 1) = (1 .. page) \cup {page + 1}
          BY <1>1
        <4> QED BY <1>2, <3>3, <4>1, <4>2
      <3>5. cursor'[b] => events'[b] = 1 .. Pages
        BY <1>2, <1>6, <3>1, <3>3 DEF CursorInv
      <3>6. ~ delta' /\ (at' = "recording" => page' = Pages)
        BY <1>6 DEF WritePage
      <3> QED BY <3>2, <3>4, <3>5, <3>6 DEF CursorInv
    <2> QED BY <2>1, <2>2
  <1> QED BY <1>1, <1>3, <1>4, <1>5, <1>7, Disturbed DEF Undisturbed

LEMMA RecordInv ==
  ASSUME IInv, Record
  PROVE  IInv'
  <1> USE DEF IInv
  <1>1. Disturb({}) /\ who \in Account
    BY DEF Record, PassInv, Working
  <1>2. TypeOK'
    <2>1. cursor' \in [Account -> BOOLEAN]
      <3>1. (who \in accounts) \in BOOLEAN
        OBVIOUS
      <3>2. cursor \in [Account -> BOOLEAN] /\ cursor' = [cursor EXCEPT ![who] = (who \in accounts)]
        BY DEF Record, TypeOK
      <3> HIDE DEF IInv
      <3> QED BY <3>1, <3>2, Zenon
    <2> QED BY <1>1, <2>1, Disturbed DEF Record, TypeOK, Working, googleVars
  <1>3. FlowInv' /\ PassInv' /\ NoOrphans'
    BY <1>1 DEF Record, FlowInv, PassInv, Working, NoOrphans, TypeOK
  <1>4. /\ UNCHANGED <<flow, deleting, accounts, events, keyring, who, held>>
        /\ \A b \in Account : (PassOn(b) <=> b = who) /\ (PassOn(b)' <=> b = who)
    BY DEF Record, PassOn, Working
  <1>5. ASSUME NEW b \in Account \ disturbed'
        PROVE  HalfDone(b)' /\ CursorInv(b)'
    <2>1. CASE b # who
      <3>1. cursor'[b] = cursor[b]
        BY <1>1, <2>1 DEF Record, TypeOK
      <3> QED BY <1>1, <1>4, <2>1, <3>1, Elsewhere, Disturbed
    <2>2. CASE b = who
      <3>1. HalfDone(b) /\ CursorInv(b)
        BY <1>1, <1>5, Disturbed DEF Undisturbed
      <3>2. HalfDone(b)'
        BY <1>4, <3>1 DEF HalfDone, AtRest, Writers, Removing
      <3>3. events[b] = 1 .. Pages
        <4>1. events[b] \subseteq 1 .. Pages
          BY DEF TypeOK
        <4>2. CASE delta
          BY <1>4, <2>2, <3>1, <4>2 DEF Record, CursorInv
        <4>3. CASE ~ delta
          BY <1>4, <2>2, <3>1, <4>1, <4>3 DEF Record, CursorInv
        <4> QED BY <4>2, <4>3
      <3>4. at' = "storing"
        BY DEF Record
      <3> QED BY <1>4, <3>2, <3>3, <3>4 DEF CursorInv
    <2> QED BY <2>1, <2>2
  <1> QED BY <1>1, <1>2, <1>3, <1>5, Disturbed DEF Undisturbed

(* Whether or not the keyring takes the refreshed token: an undisturbed    *)
(* account has the grant it belongs to already.                            *)
LEMMA StoreTokensInv ==
  ASSUME IInv, StoreTokens \/ StoreTokensFails
  PROVE  IInv'
  <1> USE DEF IInv, StoreTokens, StoreTokensFails, NextAccount
  <1>1. Disturb({}) /\ who \in Account
    BY DEF PassInv, Working
  <1>2. TypeOK'
    <2>1. keyring' \in [Account -> Nat]
      BY DEF TypeOK
    <2>2. held' \in Nat /\ page' \in 0 .. Pages /\ faults' \in Nat
      BY PagesAssumption DEF NoGrant, TypeOK, Fault
    <2> QED BY <1>1, <2>1, <2>2, Disturbed DEF TypeOK, rowVars, googleVars
  <1>3. FlowInv' /\ PassInv' /\ NoOrphans'
    BY DEF FlowInv, PassInv, Working, NoOrphans, rowVars
  <1>4. /\ UNCHANGED <<flow, deleting, accounts, events, cursor>>
        /\ \A b \in Account : (PassOn(b) <=> b = who) /\ ~ PassOn(b)'
    BY DEF rowVars, PassOn, Working
  <1>5. ASSUME NEW b \in Account \ disturbed'
        PROVE  HalfDone(b)' /\ CursorInv(b)'
    <2>1. CASE b # who
      <3>1. keyring'[b] = keyring[b]
        BY <1>1, <2>1 DEF TypeOK
      <3> QED BY <1>1, <1>4, <2>1, <3>1, Elsewhere, Disturbed
    <2>2. CASE b = who
      <3>1. HalfDone(b) /\ CursorInv(b)
        BY <1>1, <1>5, Disturbed DEF Undisturbed
      <3>2. b \in accounts /\ keyring[b] = held /\ held # NoGrant
        BY <1>4, <2>2, <3>1 DEF HalfDone
      <3>3. keyring'[b] = held
        BY <2>2, <3>2 DEF TypeOK
      <3>4. Writers(b)' = Writers(b) /\ (Removing(b)' <=> Removing(b))
        BY <1>4 DEF Writers, Removing
      <3> QED BY <1>4, <3>1, <3>2, <3>3, <3>4 DEF HalfDone, CursorInv
    <2> QED BY <2>1, <2>2
  <1> QED BY <1>1, <1>2, <1>3, <1>5, Disturbed DEF Undisturbed

-----------------------------------------------------------------------------
(* Whoever was half done when the process ended is disturbed; the rest is  *)
(* at rest.                                                                *)
LEMMA CrashInv ==
  ASSUME IInv, Crash
  PROVE  IInv'
  <1> USE DEF IInv
  <1> DEFINE S == {a \in Account : Writers(a) # {} \/ Removing(a)}
  <1>1. Disturb(S) /\ S \in SUBSET Account
    BY DEF Crash
  <1>2. S \subseteq disturbed'
    BY <1>1, Disturbed
  <1>3. TypeOK'
    <2>1. flow' \in [Flow -> [stage : Stage, account : Account \cup {NoOne}, grant : Nat]]
      BY DEF Crash, Idle, Stage, NoGrant
    <2>2. held' \in Nat /\ page' \in 0 .. Pages /\ faults' \in Nat
      BY PagesAssumption DEF Crash, NoGrant, TypeOK, Fault
    <2> QED BY <1>1, <2>1, <2>2, Disturbed DEF Crash, TypeOK, rowVars, googleVars
  <1>4. FlowInv' /\ PassInv' /\ NoOrphans'
    BY DEF Crash, FlowInv, PassInv, Working, NoOrphans, rowVars, Idle
  <1>5. UNCHANGED <<accounts, events, cursor, keyring>>
    BY DEF Crash, rowVars
  <1>6. \A b \in Account : Writers(b)' = {} /\ ~ Removing(b)' /\ ~ PassOn(b)'
    BY DEF Crash, Writers, Removing, PassOn, Working, Idle
  <1>7. ASSUME NEW b \in Account \ disturbed'
        PROVE  HalfDone(b)' /\ CursorInv(b)'
    <2>1. Writers(b) = {} /\ ~ Removing(b)
      BY <1>2, <1>7
    <2>2. HalfDone(b) /\ CursorInv(b)
      BY <1>1, <1>7, Disturbed DEF Undisturbed
    <2>3. b \in accounts <=> keyring[b] # NoGrant
      BY <2>1, <2>2 DEF HalfDone, AtRest
    <2> QED BY <1>5, <1>6, <2>2, <2>3 DEF HalfDone, CursorInv
  <1> QED BY <1>1, <1>3, <1>4, <1>7, Disturbed DEF Undisturbed

LEMMA NextInv ==
  ASSUME IInv, [Next]_vars
  PROVE  IInv'
  <1>1. CASE \E f \in Flow : \/ \E a \in Account : Granted(f, a)
                             \/ GivesUp(f)
                             \/ WriteRows(f)
                             \/ StoreGrant(f)
                             \/ StoreFails(f)
    BY <1>1, GrantedInv, GivesUpInv, WriteRowsInv, StoreGrantInv, StoreFailsInv
  <1>2. CASE \E a \in Account : \/ Remove(a)
                                \/ RemoveFails(a)
                                \/ Delete(a)
                                \/ DeleteFails(a)
                                \/ Revoke(a)
    BY <1>2, RemoveInv, RemovalFailsInv, DeleteInv, RevokeInv
  <1>3. CASE \/ \E a \in Account : Load(a) \/ PassOver(a)
             \/ BeginPass
             \/ EndPass
    BY <1>3, LoadInv, BetweenAccountsInv
  <1>4. CASE ReadCalendars \/ Refresh \/ CalendarFails \/ EmptyDelta
    BY <1>4, OnAccountInv
  <1>5. CASE WritePage \/ Record \/ StoreTokens \/ StoreTokensFails \/ Crash
    BY <1>5, WritePageInv, RecordInv, StoreTokensInv, CrashInv
  <1>6. CASE UNCHANGED vars
    BY <1>6 DEF vars, rowVars, googleVars, passVars, IInv, TypeOK, FlowInv, PassInv, CrowdInv,
                Crowded, NoOrphans, Undisturbed, HalfDone, CursorInv, AtRest, Writers,
                Removing, PassOn
  <1> QED BY <1>1, <1>2, <1>3, <1>4, <1>5, <1>6 DEF Next

-----------------------------------------------------------------------------
(* The inductive invariant holds. *)
THEOREM Inductive == Spec => []IInv
  <1>1. Init => IInv
    BY InitInv
  <1>2. IInv /\ [Next]_vars => IInv'
    BY NextInv
  <1> QED BY <1>1, <1>2, PTL DEF Spec

(* The variables keep their types, whatever connects, removals, the pass,  *)
(* Google and the faults do.                                               *)
THEOREM AccountsTypeCorrect == Spec => []TypeOK
  <1>1. IInv => TypeOK
    BY DEF IInv
  <1> QED BY <1>1, Inductive, PTL

(* What a pass writes after its account was removed goes nowhere: the      *)
(* foreign key and the cascade leave no event and no cursor without a row, *)
(* on a disturbed account too.                                             *)
THEOREM NothingWithoutARow == Spec => []NoOrphans
  <1>1. IInv => NoOrphans
    BY DEF IInv
  <1> QED BY <1>1, Inductive, PTL

(* An account at rest that nothing disturbed has a row and tokens, or      *)
(* neither: connect's rollback and both halves of the removal see to it.   *)
THEOREM RowsAndTokensPaired == Spec => []Paired
  <1>1. IInv => Paired
    BY DEF IInv, Undisturbed, HalfDone, Paired
  <1> QED BY <1>1, Inductive, PTL

(* A cursor stands for every page of its calendar, so a delta from it      *)
(* leaves nothing out, unless a removal overtook the pass that wrote it.   *)
THEOREM CursorStandsForAll == Spec => []CursorHonest
  <1>1. IInv => CursorHonest
    BY DEF IInv, Undisturbed, CursorInv, CursorHonest
  <1> QED BY <1>1, Inductive, PTL

(* The pass that leaves an undisturbed account leaves it the grant it      *)
(* found: only StoreTokens and a crash end a pass on an account, and what  *)
(* StoreTokens writes is what is there.                                    *)
THEOREM PassKeepsGrants == Spec => PassKeepsTheGrant
  <1> DEFINE Keeps == \A a \in Account :
                        PassOn(a) /\ ~ PassOn(a)' /\ a \notin disturbed => keyring'[a] = keyring[a]
  <1>1. ASSUME IInv, [Next]_vars
        PROVE  [Keeps]_vars
    <2> SUFFICES ASSUME NEW a \in Account, Next,
                        PassOn(a), ~ PassOn(a)', a \notin disturbed
                 PROVE  keyring'[a] = keyring[a]
      BY <1>1
    <2>1. keyring[a] = held /\ a = who /\ at # "idle" /\ at # "next"
      BY <1>1 DEF IInv, Undisturbed, HalfDone, PassOn, Working
    <2>2. CASE StoreTokens
      BY <1>1, <2>1, <2>2 DEF StoreTokens, IInv, TypeOK
    <2>3. CASE Crash \/ StoreTokensFails
      BY <2>3 DEF Crash, StoreTokensFails
    <2>4. CASE UNCHANGED passVars
      BY <2>4 DEF PassOn, passVars
    <2>5. CASE UNCHANGED keyring
      BY <2>5
    <2>6. CASE \/ \E f \in Flow : \/ \E b \in Account : Granted(f, b)
                                  \/ GivesUp(f)
                                  \/ WriteRows(f)
                                  \/ StoreGrant(f)
                                  \/ StoreFails(f)
               \/ \E b \in Account : Remove(b) \/ RemoveFails(b) \/ Delete(b) \/ DeleteFails(b)
                                       \/ Revoke(b)
      BY <2>4, <2>6 DEF Granted, GivesUp, WriteRows, StoreGrant, StoreFails, Remove, RemoveFails,
                        Delete, DeleteFails, Revoke
    <2>7. CASE \/ \E b \in Account : Load(b) \/ PassOver(b)
               \/ BeginPass \/ EndPass \/ ReadCalendars \/ Refresh \/ CalendarFails
               \/ EmptyDelta \/ WritePage \/ Record
      BY <2>5, <2>7 DEF Load, PassOver, BeginPass, EndPass, ReadCalendars, Refresh,
                        CalendarFails, EmptyDelta, WritePage, Record
    <2> QED BY <2>2, <2>3, <2>6, <2>7 DEF Next
  <1> QED BY <1>1, Inductive, PTL DEF Spec, PassKeepsTheGrant
=============================================================================
