------------------------- MODULE CalendarSync_proofs -------------------------
(***************************************************************************)
(* Proofs about CalendarSync, for every set of events, every bound and     *)
(* every number of faults.                                                 *)
(***************************************************************************)
EXTENDS CalendarSync, TLAPS

-----------------------------------------------------------------------------
(* The inductive invariant. *)

(* The table is never ahead of Google, where it is level with Google on an *)
(* event it agrees with it, and it has no row map_event would not store.   *)
VersionsInv ==
  \A e \in Event :
    /\ google[e].at <= clock
    /\ google[e].at = 0 => google[e] = Never
    /\ events[e].at <= google[e].at
    /\ events[e].at = google[e].at => events[e] = google[e]
    /\ events[e] # Never => Keeps(e, events[e])

CursorInv ==
  /\ sync_token <= clock
  /\ NothingMissing
  /\ NoGhostButFromLeftovers

(* A run was given the cursor that is still stored. *)
RunInv ==
  /\ pc \in {"request", "page", "commit", "refused"} => sent = sync_token
  /\ pc = "clearing" => sync_token = NoToken
  /\ pc = "request" /\ page_token = 0 /\ sent = NoToken /\ ~ leftover
       => events = NoRows

Listing == pc = "page" \/ (pc = "request" /\ page_token > 0)

(* A page in hand is no older than the rows, and is up to date on every    *)
(* event Google has not touched since the listing began.                   *)
PageInv ==
  /\ pc # "page" => page = NoPage
  /\ \A e \in Mentioned :
       LET v == page.items[e] IN
       /\ v.at > 0
       /\ events[e].at <= v.at
       /\ events[e].at = v.at => events[e] = v
       /\ v.at <= google[e].at
       /\ v.at = google[e].at => v = google[e]
       /\ google[e].at <= asof => v = google[e]
  /\ pc = "page" =>
       IF page.next_page_token = 0
         THEN todo = {} /\ page.next_sync_token = asof
         ELSE page.next_sync_token = NoToken

(* The events on which a run owes the table more than that nothing is      *)
(* missing: it must also have removed them if they are deleted.            *)
Watched(e) == ~ leftover \/ (sent # NoToken /\ google[e].at > sent)

Done(e) == events[e] = Mapped(e, google[e])

(* What the listing began with is in the table, on the page in hand or     *)
(* still to come.                                                          *)
Covered ==
  /\ asof <= clock
  /\ sent <= asof
  /\ \A e \in Event :
       google[e].at <= asof /\ (Keeps(e, google[e]) \/ Watched(e))
         => Done(e) \/ e \in todo \/ page.items[e] = google[e]

ListingInv == Listing => Covered

CommitInv ==
  pc = "commit" =>
    /\ report_token <= clock
    /\ report_token # NoToken => sent <= report_token
    /\ \A e \in Event :
         google[e].at <= report_token /\ (Keeps(e, google[e]) \/ Watched(e))
           => Done(e)

IInv ==
  /\ TypeOK
  /\ VersionsInv
  /\ CursorInv
  /\ RunInv
  /\ PageInv
  /\ ListingInv
  /\ CommitInv

-----------------------------------------------------------------------------
(* Lemmas. *)

LEMMA MappedType == \A e \in Event : \A v \in Version : Mapped(e, v) \in Version
  BY DEF Mapped, Version, Never

LEMMA ItemsType ==
  ASSUME TypeOK
  PROVE  /\ page.items \in [Event -> Version]
         /\ page.next_page_token \in Nat
         /\ page.next_sync_token \in Nat
  BY DEF TypeOK, Page

(***************************************************************************)
(* Writing any part of the page in hand moves each row forward or removes  *)
(* it, and leaves a row that is current current.                           *)
(***************************************************************************)
LEMMA WriteOne ==
  ASSUME IInv, NEW P \in SUBSET Mentioned, events' = Written(P),
         NEW e \in Event
  PROVE  /\ events'[e] \in Version
         /\ \/ events'[e] \in {events[e], Never}
            \/ events[e].at < events'[e].at /\ events'[e].at <= google[e].at
         /\ events'[e].at <= google[e].at
         /\ events'[e].at = google[e].at => events'[e] = google[e]
         /\ events'[e] # Never => Keeps(e, events'[e])
         /\ Done(e) /\ google[e].at <= asof => events'[e] = events[e]
         /\ Keeps(e, google[e]) /\ events[e] = google[e] => events'[e] = google[e]
         /\ e \in P /\ page.items[e] = google[e] => events'[e] = Mapped(e, google[e])
  <1>1. /\ google[e] \in Version
        /\ events[e] \in Version
        /\ page.items[e] \in Version
        /\ Mapped(e, page.items[e]) \in Version
    BY MappedType, ItemsType DEF IInv, TypeOK, MirrorTypeOK
  <1>2. CASE e \notin P
    BY <1>1, <1>2 DEF IInv, Written, VersionsInv, Version
  <1>3. CASE e \in P
    <2>1. e \in Mentioned
      BY <1>3
    <2>2. events'[e] = Mapped(e, page.items[e])
      BY <1>3 DEF Written
    <2>3. /\ page.items[e].at > 0
          /\ events[e].at <= page.items[e].at
          /\ events[e].at = page.items[e].at => events[e] = page.items[e]
          /\ page.items[e].at <= google[e].at
          /\ page.items[e].at = google[e].at => page.items[e] = google[e]
          /\ google[e].at <= asof => page.items[e] = google[e]
      BY <2>1 DEF IInv, PageInv
    <2>4. /\ google[e].at = 0 => google[e] = Never
          /\ events[e].at = google[e].at => events[e] = google[e]
          /\ events[e] # Never => Keeps(e, events[e])
      BY DEF IInv, VersionsInv
    <2>. QED
      BY <1>1, <1>3, <2>2, <2>3, <2>4 DEF Mapped, Keeps, Version, Never, Done
  <1>. QED
    BY <1>2, <1>3

(* Writing any part of the page in hand brings back no deleted event.      *)
LEMMA WriteAddsNoGhost ==
  ASSUME IInv, NEW P \in SUBSET Mentioned, events' = Written(P),
         NEW e \in Event, google[e].at <= sync_token, ~ Keeps(e, google[e]),
         events[e] = Never
  PROVE  events'[e] = Never
  <1>1. SUFFICES ASSUME events'[e] # Never PROVE FALSE
    OBVIOUS
  <1>2. e \in P /\ page.items[e] \in Version /\ Mapped(e, page.items[e]) # Never
    BY <1>1, ItemsType DEF IInv, Written
  <1>3. pc = "page" /\ page.items[e].at <= google[e].at
    BY <1>2 DEF IInv, PageInv, Mentioned, NoPage, NoRows
  <1>4. google[e].at <= asof
    BY <1>3 DEF IInv, TypeOK, MirrorTypeOK, RunInv, ListingInv, Covered, Listing, Version
  <1>5. page.items[e] = google[e]
    BY <1>2, <1>4 DEF IInv, PageInv
  <1>. QED
    BY <1>2, <1>5 DEF Mapped

LEMMA WriteMany ==
  ASSUME IInv, NEW P \in SUBSET Mentioned, events' = Written(P),
         UNCHANGED <<clock, google, sync_token, leftover>>
  PROVE  /\ events' \in [Event -> Version]
         /\ VersionsInv'
         /\ CursorInv'
  <1>1. events' \in [Event -> Version]
    <2>1. \A e \in Event : events'[e] \in Version
      BY WriteOne
    <2>. QED
      BY <2>1 DEF Written
  <1>2. VersionsInv'
    BY WriteOne DEF IInv, VersionsInv
  <1>3. CursorInv'
    <2>1. NothingMissing'
      BY WriteOne DEF IInv, CursorInv, NothingMissing, CompleteUpTo, Keeps
    <2>2. NoGhostButFromLeftovers'
      BY WriteAddsNoGhost DEF IInv, CursorInv, NoGhostButFromLeftovers, NoGhost, Ghosts, Keeps
    <2>. QED
      BY <2>1, <2>2 DEF IInv, CursorInv
  <1>. QED
    BY <1>1, <1>2, <1>3

-----------------------------------------------------------------------------
(* Every step preserves the invariant, one lemma per action. *)

LEMMA InitInv == Init => IInv
  <1>. SUFFICES ASSUME Init PROVE IInv
    OBVIOUS
  <1>1. /\ pc = "idle"
        /\ page = NoPage
        /\ sync_token = 0
        /\ clock = 1
        /\ google \in [Event -> {Never, [at |-> 1, live |-> TRUE]}]
        /\ events = [e \in Event |-> Never]
    BY DEF Init, MirrorInit, NoToken
  <1>. DEFINE first == [at |-> 1, live |-> TRUE]
  <1>2. /\ first \in Version /\ Never \in Version
        /\ first.at = 1 /\ Never.at = 0
    BY DEF Never, Version
  <1>3. \A e \in Event : /\ (google[e] = Never \/ google[e] = first)
                          /\ events[e] = Never
    BY <1>1
  <1>. HIDE DEF first
  <1>4. TypeOK
    <2>1. google \in [Event -> Version] /\ events \in [Event -> Version]
      BY <1>1, <1>2 DEF first
    <2>2. MirrorTypeOK
      BY <1>1, <2>1 DEF MirrorTypeOK, NoToken
    <2>3. page \in Page
      BY <1>1, <1>2 DEF Page, NoPage, NoRows, NoToken
    <2>. QED
      BY <2>2, <2>3 DEF Init, TypeOK, NoToken
  <1>5. VersionsInv
    <2>1. SUFFICES ASSUME NEW e \in Event
                   PROVE  /\ google[e].at <= 1
                          /\ google[e].at = 0 => google[e] = Never
                          /\ events[e].at <= google[e].at
                          /\ events[e].at = google[e].at => events[e] = google[e]
      BY <1>1, <1>3 DEF VersionsInv
    <2>2. CASE google[e] = Never
      BY <1>2, <1>3, <2>2
    <2>3. CASE google[e] = first
      BY <1>2, <1>3, <2>3
    <2>. QED
      BY <1>3, <2>2, <2>3
  <1>6. CursorInv
    <2>1. \A e \in Event : google[e].at <= 0 => google[e] = events[e]
      BY <1>2, <1>3
    <2>. QED
      BY <1>1, <1>3, <2>1 DEF CursorInv, NothingMissing, CompleteUpTo,
         NoGhostButFromLeftovers, NoGhost, Ghosts
  <1>7. Mentioned = {}
    BY <1>1 DEF Mentioned, NoPage, NoRows
  <1>. QED
    BY <1>1, <1>4, <1>5, <1>6, <1>7 DEF IInv, RunInv, PageInv, ListingInv, Listing, CommitInv

LEMMA ChangeInv ==
  ASSUME IInv, NEW e \in Event, NEW alive \in BOOLEAN, Change(e, alive)
  PROVE  IInv'
  <1>. DEFINE new == [at |-> clock + 1, live |-> alive]
  <1>1. /\ clock' = clock + 1
        /\ google' = [google EXCEPT ![e] = new]
        /\ UNCHANGED <<events, sync_token, pc, netVars, runVars, outcome, leftover, faults>>
    BY DEF Change, Edit
  <1>2. /\ clock \in Nat \ {0}
        /\ \A f \in Event : google[f] \in Version /\ events[f] \in Version
        /\ google' = [f \in Event |-> IF f = e THEN new ELSE google[f]]
        /\ asof \in Nat /\ sync_token \in Nat /\ report_token \in Nat /\ sent \in Nat
    BY <1>1 DEF IInv, TypeOK, MirrorTypeOK, NoToken
  <1>3. TypeOK'
    BY <1>1, <1>2 DEF IInv, TypeOK, MirrorTypeOK, Version, NoToken, netVars, runVars
  <1>4. VersionsInv'
    BY <1>1, <1>2 DEF IInv, VersionsInv, Version
  <1>5. CursorInv'
    BY <1>1, <1>2 DEF IInv, CursorInv, NothingMissing, CompleteUpTo, Version, Keeps,
       NoGhostButFromLeftovers, NoGhost, Ghosts
  <1>6. RunInv'
    BY <1>1 DEF IInv, RunInv, runVars
  <1>7. PageInv'
    <2>1. asof <= clock \/ pc # "page"
      BY DEF IInv, ListingInv, Listing, Covered
    <2>2. UNCHANGED <<Mentioned, pc, page, todo, asof, events>>
      BY <1>1 DEF Mentioned, netVars
    <2>3. pc # "page" => Mentioned = {}
      BY DEF IInv, PageInv, Mentioned, NoPage, NoRows
    <2>. QED
      BY <1>1, <1>2, <2>1, <2>2, <2>3, ItemsType
         DEF IInv, PageInv, VersionsInv, Version, Mentioned
  <1>8. ListingInv'
    <2>1. SUFFICES ASSUME Listing PROVE Covered'
      BY <1>1 DEF ListingInv, Listing, runVars
    <2>2. asof <= clock /\ sent <= asof
      BY <2>1 DEF IInv, ListingInv, Covered
    <2>. QED
      BY <1>1, <1>2, <2>1, <2>2
         DEF IInv, ListingInv, Covered, Watched, Done, Mapped, Keeps, Version, netVars, runVars
  <1>9. CommitInv'
    BY <1>1, <1>2 DEF IInv, CommitInv, Watched, Done, Mapped, Keeps, Version, runVars
  <1>. QED
    BY <1>3, <1>4, <1>5, <1>6, <1>7, <1>8, <1>9 DEF IInv

LEMMA BeginInv ==
  ASSUME IInv, Begin
  PROVE  IInv'
  <1>1. TypeOK'
    BY DEF IInv, TypeOK, MirrorTypeOK, Begin, netVars, NoToken
  <1>2. VersionsInv'
    BY DEF IInv, VersionsInv, Begin
  <1>3. CursorInv'
    BY DEF IInv, CursorInv, NothingMissing, CompleteUpTo, NoGhostButFromLeftovers, NoGhost,
       Ghosts, Begin
  <1>4. RunInv'
    BY DEF IInv, RunInv, Begin
  <1>5. PageInv'
    BY DEF IInv, PageInv, Begin, netVars, Mentioned
  <1>6. ListingInv'
    BY DEF ListingInv, Listing, Begin
  <1>7. CommitInv'
    BY DEF CommitInv, Begin
  <1>. QED
    BY <1>1, <1>2, <1>3, <1>4, <1>5, <1>6, <1>7 DEF IInv

LEMMA AnswerInv ==
  ASSUME IInv, NEW ids \in SUBSET Event, NEW last \in BOOLEAN, Answer(ids, last)
  PROVE  IInv'
  <1>. DEFINE items == [e \in Event |-> IF e \in ids THEN google[e] ELSE Never]
  <1>1. PICK listing \in IF page_token = 0 THEN Listings ELSE {todo} :
          /\ ids \subseteq listing
          /\ last => ids = listing
          /\ todo' = listing \ ids
    BY DEF Answer
  <1>2. /\ pc = "request" /\ pc' = "page"
        /\ asof' = IF page_token = 0 THEN clock ELSE asof
        /\ page' = [items |-> items,
                    next_page_token |-> IF last THEN 0 ELSE page_token + 1,
                    next_sync_token |-> IF last THEN asof' ELSE NoToken]
        /\ UNCHANGED <<clock, google, events, sync_token, runVars, outcome, leftover, faults>>
    BY DEF Answer
  <1>3. /\ \A e \in Event : google[e] \in Version /\ events[e] \in Version
        /\ asof \in Nat /\ clock \in Nat /\ sync_token \in Nat /\ sent \in Nat
        /\ page_token \in Nat
        /\ Never \in Version
        /\ todo \subseteq Event
    BY DEF IInv, TypeOK, MirrorTypeOK, Version, Never
  <1>4. asof' \in Nat
    BY <1>2, <1>3
  <1>5. TypeOK'
    <2>1. items \in [Event -> Version]
      BY <1>3
    <2>2. page' \in Page
      BY <1>2, <1>3, <1>4, <2>1 DEF Page, NoToken
    <2>3. todo' \subseteq Event
      BY <1>1, <1>3 DEF Listings
    <2>. QED
      BY <1>2, <1>4, <2>2, <2>3 DEF IInv, TypeOK, MirrorTypeOK, runVars
  <1>6. VersionsInv'
    BY <1>2 DEF IInv, VersionsInv
  <1>7. CursorInv'
    BY <1>2 DEF IInv, CursorInv, NothingMissing, CompleteUpTo, NoGhostButFromLeftovers,
       NoGhost, Ghosts
  <1>8. RunInv'
    BY <1>2 DEF IInv, RunInv, runVars
  <1>9. PageInv'
    <2>1. \A e \in Mentioned' : e \in Event /\ page'.items[e] = google[e] /\ google[e] # Never
      BY <1>2 DEF Mentioned
    <2>2. \A e \in Mentioned' : google[e].at > 0
      BY <1>3, <2>1 DEF IInv, VersionsInv, Version
    <2>3. IF page'.next_page_token = 0
            THEN todo' = {} /\ page'.next_sync_token = asof'
            ELSE page'.next_sync_token = NoToken
      <3>1. CASE last
        <4>1. todo' = {}
          BY <1>1, <3>1
        <4>. QED
          BY <1>2, <3>1, <4>1
      <3>2. CASE ~ last
        <4>1. page'.next_page_token = page_token + 1 /\ page'.next_sync_token = NoToken
          BY <1>2, <3>2
        <4>. QED
          BY <1>3, <4>1
      <3>. QED
        BY <3>1, <3>2
    <2>4. ASSUME NEW e \in Mentioned'
          PROVE  /\ page'.items[e].at > 0
                 /\ events[e].at <= page'.items[e].at
                 /\ events[e].at = page'.items[e].at => events[e] = page'.items[e]
                 /\ page'.items[e].at <= google[e].at
                 /\ page'.items[e] = google[e]
      BY <1>3, <2>1, <2>2 DEF IInv, VersionsInv, Version
    <2>. QED
      BY <1>2, <2>3, <2>4 DEF PageInv
  <1>10. ListingInv'
    <2>1. asof' <= clock /\ sent <= asof'
      <3>1. CASE page_token = 0
        BY <1>2, <1>3, <3>1 DEF IInv, RunInv, CursorInv
      <3>2. CASE page_token # 0
        BY <1>2, <1>3, <3>2 DEF IInv, ListingInv, Listing, Covered
      <3>. QED
        BY <3>1, <3>2
    <2>2. SUFFICES ASSUME NEW e \in Event, google[e].at <= asof',
                          Keeps(e, google[e]) \/ Watched(e),
                          ~ Done(e), e \notin todo'
                   PROVE  items[e] = google[e]
      BY <1>2, <2>1 DEF ListingInv, Covered, Watched, Done, runVars
    <2>3. e \in listing \/ google[e] = Never
      <3>1. CASE page_token # 0
        <4>1. page.items[e] = Never
          BY <1>2 DEF IInv, PageInv, NoPage, NoRows
        <4>2. Covered /\ google[e].at <= asof
          BY <1>2, <1>3, <2>2, <3>1 DEF IInv, ListingInv, Listing
        <4>. QED
          BY <1>1, <2>2, <3>1, <4>1, <4>2 DEF Covered
      <3>2. CASE page_token = 0 /\ sent # NoToken
        <4>1. listing = {f \in Event : google[f].at > sent}
          BY <1>1, <3>2 DEF Listings, RequestToken
        <4>2. google[e].at > sent
          <5>1. SUFFICES ASSUME google[e].at <= sent PROVE FALSE
            BY <1>3 DEF Version
          <5>2. sent = sync_token
            BY <1>2 DEF IInv, RunInv
          <5>3. CASE Keeps(e, google[e])
            BY <2>2, <5>1, <5>2, <5>3
               DEF IInv, CursorInv, NothingMissing, CompleteUpTo, Done, Mapped
          <5>4. CASE ~ Keeps(e, google[e])
            <6>1. ~ leftover
              BY <1>3, <2>2, <5>1, <5>4 DEF Watched, Version
            <6>. QED
              BY <2>2, <5>1, <5>2, <5>4, <6>1
                 DEF IInv, CursorInv, NoGhostButFromLeftovers, NoGhost, Ghosts, Done, Mapped
          <5>. QED
            BY <5>3, <5>4
        <4>. QED
          BY <4>1, <4>2
      <3>3. CASE page_token = 0 /\ sent = NoToken
        <4>1. Keeps(e, google[e])
          BY <1>2, <2>2, <3>3 DEF IInv, RunInv, Watched, NoRows, Done, Mapped
        <4>2. {f \in {g \in Event : google[g].at > 0} : Keeps(f, google[f])} \subseteq listing
          BY <1>1, <3>3 DEF Listings, RequestToken
        <4>3. google[e].at > 0 \/ google[e] = Never
          BY <1>3 DEF IInv, VersionsInv, Version
        <4>. QED
          BY <4>1, <4>2, <4>3
      <3>. QED
        BY <3>1, <3>2, <3>3
    <2>. QED
      BY <1>1, <2>2, <2>3
  <1>11. CommitInv'
    BY <1>2 DEF CommitInv
  <1>. QED
    BY <1>5, <1>6, <1>7, <1>8, <1>9, <1>10, <1>11 DEF IInv

LEMMA AnswerSelfInv ==
  ASSUME IInv, AnswerSelf
  PROVE  IInv'
  <1>1. /\ pc = "request" /\ pc' = "page" /\ page_token > 0
        /\ page' = [items |-> NoRows, next_page_token |-> page_token,
                    next_sync_token |-> NoToken]
        /\ faults' = faults + 1
        /\ UNCHANGED <<clock, google, events, sync_token, asof, todo, sent, page_token,
                       report_token, outcome, leftover>>
    BY DEF AnswerSelf, runVars
  <1>2. TypeOK'
    <2>1. page' \in Page
      BY <1>1 DEF IInv, TypeOK, Page, NoRows, Never, Version, NoToken
    <2>. QED
      BY <1>1, <2>1 DEF IInv, TypeOK, MirrorTypeOK
  <1>3. VersionsInv'
    BY <1>1 DEF IInv, VersionsInv
  <1>4. CursorInv'
    BY <1>1 DEF IInv, CursorInv, NothingMissing, CompleteUpTo, NoGhostButFromLeftovers,
       NoGhost, Ghosts
  <1>5. RunInv'
    BY <1>1 DEF IInv, RunInv
  <1>6. PageInv'
    <2>1. Mentioned' = {}
      BY <1>1 DEF Mentioned, NoRows
    <2>. QED
      BY <1>1, <2>1 DEF IInv, TypeOK, PageInv
  <1>7. ListingInv'
    <2>1. Covered
      BY <1>1 DEF IInv, ListingInv, Listing
    <2>2. page'.items = page.items
      BY <1>1 DEF IInv, PageInv, NoPage
    <2>. QED
      BY <1>1, <2>1, <2>2 DEF ListingInv, Covered, Watched, Done
  <1>8. CommitInv'
    BY <1>1 DEF CommitInv
  <1>. QED
    BY <1>2, <1>3, <1>4, <1>5, <1>6, <1>7, <1>8 DEF IInv

LEMMA RefuseInv ==
  ASSUME IInv, Refuse
  PROVE  IInv'
  <1>1. /\ pc = "request" /\ pc' = "refused"
        /\ faults' = faults + 1
        /\ UNCHANGED <<clock, google, events, sync_token, asof, todo, page, sent, page_token,
                       report_token, outcome, leftover>>
    BY DEF Refuse, runVars, netVars
  <1>2. TypeOK'
    BY <1>1 DEF IInv, TypeOK, MirrorTypeOK
  <1>3. VersionsInv' /\ CursorInv'
    BY <1>1 DEF IInv, VersionsInv, CursorInv, NothingMissing, CompleteUpTo,
       NoGhostButFromLeftovers, NoGhost, Ghosts
  <1>4. PageInv'
    BY <1>1 DEF IInv, PageInv, Mentioned
  <1>5. RunInv' /\ ListingInv' /\ CommitInv'
    BY <1>1 DEF IInv, RunInv, ListingInv, Listing, CommitInv
  <1>. QED
    BY <1>2, <1>3, <1>4, <1>5 DEF IInv

LEMMA ApplyPageInv ==
  ASSUME IInv, ApplyPage
  PROVE  IInv'
  <1>1. /\ pc = "page"
        /\ events' = Written(Mentioned)
        /\ report_token' = page.next_sync_token
        /\ IF page.next_page_token \notin {0, page_token}
             THEN pc' = "request" /\ page_token' = page.next_page_token
             ELSE pc' = "commit" /\ page_token' = page_token
        /\ page' = NoPage
        /\ UNCHANGED <<clock, google, sync_token, sent, asof, todo, outcome, leftover, faults>>
    BY DEF ApplyPage
  <1>2. /\ events' \in [Event -> Version]
        /\ VersionsInv'
        /\ CursorInv'
    BY <1>1, WriteMany
  <1>3. page.next_page_token \in Nat /\ page.next_sync_token \in Nat
    BY ItemsType DEF IInv
  <1>4. NoPage \in Page
    BY DEF Page, NoPage, NoRows, Never, Version, NoToken
  <1>5. TypeOK'
    BY <1>1, <1>2, <1>3, <1>4 DEF IInv, TypeOK, MirrorTypeOK
  <1>6. RunInv'
    BY <1>1, <1>3 DEF IInv, TypeOK, RunInv
  <1>7. PageInv'
    BY <1>1 DEF PageInv, Mentioned, NoPage, NoRows
  <1>8. /\ Covered
        /\ asof \in Nat
        /\ \A e \in Event : google[e] \in Version
    BY <1>1 DEF IInv, TypeOK, MirrorTypeOK, ListingInv, Listing
  <1>9. ASSUME NEW e \in Event, google[e].at <= asof,
               Keeps(e, google[e]) \/ Watched(e), e \notin todo
        PROVE  events'[e] = Mapped(e, google[e])
    <2>1. CASE Done(e)
      BY <1>1, <1>9, <2>1, WriteOne DEF Done
    <2>2. CASE page.items[e] = google[e] /\ e \in Mentioned
      BY <1>1, <2>2, WriteOne
    <2>3. CASE page.items[e] = google[e] /\ e \notin Mentioned
      <3>1. google[e] = Never
        BY <2>3 DEF Mentioned
      <3>2. events[e] = Never
        BY <3>1 DEF IInv, TypeOK, MirrorTypeOK, VersionsInv, Version, Never
      <3>. QED
        BY <1>1, <2>3, <3>1, <3>2 DEF Written, Mapped
    <2>. QED
      BY <1>8, <1>9, <2>1, <2>2, <2>3 DEF Covered
  <1>10. ListingInv'
    <2>1. \A e \in Event :
            google[e].at <= asof /\ (Keeps(e, google[e]) \/ Watched(e))
              => events'[e] = Mapped(e, google[e]) \/ e \in todo
      BY <1>9
    <2>. QED
      BY <1>1, <1>8, <2>1 DEF ListingInv, Covered, Watched, Done, Mapped, Keeps
  <1>11. CommitInv'
    <2>1. SUFFICES ASSUME pc' = "commit" PROVE CommitInv'
      BY DEF CommitInv
    <2>2. CASE page.next_page_token = 0
      <3>1. todo = {} /\ report_token' = asof
        BY <1>1, <2>2 DEF IInv, PageInv
      <3>2. \A e \in Event :
              google[e].at <= asof /\ (Keeps(e, google[e]) \/ Watched(e))
                => events'[e] = Mapped(e, google[e])
        BY <1>9, <3>1
      <3>. QED
        BY <1>1, <1>8, <3>1, <3>2 DEF CommitInv, Covered, Watched, Done, Mapped, Keeps
    <2>3. CASE page.next_page_token # 0
      <3>1. report_token' = NoToken
        BY <1>1, <2>3 DEF IInv, PageInv
      <3>2. ASSUME NEW e \in Event, google[e].at <= NoToken
            PROVE  events'[e] = Mapped(e, google[e])
        <4>1. google[e] = Never /\ events'[e] = Never
          BY <1>1, <1>2, <1>8, <3>2
             DEF IInv, VersionsInv, Version, NoToken, Never
        <4>. QED
          BY <4>1 DEF Mapped
      <3>. QED
        BY <1>1, <3>1, <3>2
           DEF IInv, TypeOK, MirrorTypeOK, CommitInv, Done, Mapped, Keeps, NoToken
    <2>. QED
      BY <2>2, <2>3
  <1>. QED
    BY <1>2, <1>5, <1>6, <1>7, <1>10, <1>11 DEF IInv

LEMMA CommitStepInv ==
  ASSUME IInv, Commit
  PROVE  IInv'
  <1>1. /\ pc = "commit" /\ pc' = "idle"
        /\ sync_token' = report_token
        /\ outcome' = "ok"
        /\ UNCHANGED <<clock, google, events, asof, todo, page, sent, page_token,
                       report_token, leftover, faults>>
    BY DEF Commit, runVars, netVars
  <1>2. TypeOK'
    BY <1>1 DEF IInv, TypeOK, MirrorTypeOK
  <1>3. VersionsInv'
    BY <1>1 DEF IInv, VersionsInv
  <1>4. CursorInv'
    <2>1. \A e \in Event :
            google[e].at <= report_token /\ (Keeps(e, google[e]) \/ ~ leftover)
              => events[e] = Mapped(e, google[e])
      BY <1>1 DEF IInv, CommitInv, Watched, Done
    <2>2. NothingMissing'
      BY <1>1, <2>1 DEF NothingMissing, CompleteUpTo, Mapped, Keeps
    <2>3. NoGhostButFromLeftovers'
      BY <1>1, <2>1 DEF NoGhostButFromLeftovers, NoGhost, Ghosts, Mapped, Keeps
    <2>. QED
      BY <1>1, <2>2, <2>3 DEF IInv, CommitInv, CursorInv
  <1>5. PageInv'
    BY <1>1 DEF IInv, PageInv, Mentioned
  <1>6. RunInv' /\ ListingInv' /\ CommitInv'
    BY <1>1 DEF RunInv, ListingInv, Listing, CommitInv
  <1>. QED
    BY <1>2, <1>3, <1>4, <1>5, <1>6 DEF IInv

LEMMA NoTokenClaimsNothing ==
  ASSUME IInv, NEW e \in Event, google[e].at <= NoToken
  PROVE  google[e] = Never /\ events[e] = Never
  BY DEF IInv, TypeOK, MirrorTypeOK, VersionsInv, Version, NoToken, Never

LEMMA DropCursorInv ==
  ASSUME IInv, DropCursor
  PROVE  IInv'
  <1>1. /\ pc = "refused" /\ pc' = "clearing"
        /\ sync_token' = NoToken
        /\ UNCHANGED <<clock, google, events, asof, todo, page, sent, page_token,
                       report_token, outcome, leftover, faults>>
    BY DEF DropCursor, runVars, netVars
  <1>2. TypeOK'
    BY <1>1 DEF IInv, TypeOK, MirrorTypeOK, NoToken
  <1>3. VersionsInv'
    BY <1>1 DEF IInv, VersionsInv
  <1>4. CursorInv'
    <2>1. \A e \in Event : google[e].at <= NoToken => google[e] = events[e] /\ events[e] = Never
      BY NoTokenClaimsNothing
    <2>2. NothingMissing'
      BY <1>1, <2>1 DEF NothingMissing, CompleteUpTo
    <2>3. NoGhostButFromLeftovers'
      BY <1>1, <2>1 DEF NoGhostButFromLeftovers, NoGhost, Ghosts
    <2>4. NoToken <= clock
      BY DEF IInv, TypeOK, MirrorTypeOK, NoToken
    <2>. QED
      BY <1>1, <2>2, <2>3, <2>4 DEF CursorInv
  <1>5. PageInv'
    BY <1>1 DEF IInv, PageInv, Mentioned
  <1>6. RunInv' /\ ListingInv' /\ CommitInv'
    BY <1>1 DEF RunInv, ListingInv, Listing, CommitInv
  <1>. QED
    BY <1>2, <1>3, <1>4, <1>5, <1>6 DEF IInv

LEMMA ClearCalendarInv ==
  ASSUME IInv, ClearCalendar
  PROVE  IInv'
  <1>1. /\ pc = "clearing" /\ pc' = "request"
        /\ events' = NoRows
        /\ leftover' = FALSE /\ sent' = NoToken /\ page_token' = 0 /\ report_token' = NoToken
        /\ UNCHANGED <<clock, google, sync_token, asof, todo, page, outcome, faults>>
    BY DEF ClearCalendar, netVars
  <1>2. sync_token = NoToken
    BY <1>1 DEF IInv, RunInv
  <1>3. \A e \in Event : events'[e] = Never /\ google[e] \in Version
    BY <1>1 DEF NoRows, IInv, TypeOK, MirrorTypeOK
  <1>4. TypeOK'
    BY <1>1 DEF IInv, TypeOK, MirrorTypeOK, NoRows, Never, Version, NoToken
  <1>5. VersionsInv'
    <2>1. Never.at = 0
      BY DEF Never
    <2>. QED
      BY <1>1, <1>3, <2>1 DEF IInv, VersionsInv, Version
  <1>6. CursorInv'
    <2>1. \A e \in Event : google[e].at <= NoToken => google[e] = Never
      BY NoTokenClaimsNothing
    <2>2. NothingMissing'
      BY <1>1, <1>2, <1>3, <2>1 DEF NothingMissing, CompleteUpTo
    <2>3. NoGhostButFromLeftovers'
      BY <1>1, <1>3 DEF NoGhostButFromLeftovers, NoGhost, Ghosts
    <2>. QED
      BY <1>1, <2>2, <2>3 DEF IInv, CursorInv
  <1>7. PageInv'
    <2>1. page = NoPage
      BY <1>1 DEF IInv, PageInv
    <2>. QED
      BY <1>1, <2>1 DEF PageInv, Mentioned, NoPage, NoRows
  <1>8. RunInv' /\ ListingInv' /\ CommitInv'
    BY <1>1, <1>2 DEF RunInv, ListingInv, Listing, CommitInv
  <1>. QED
    BY <1>4, <1>5, <1>6, <1>7, <1>8 DEF IInv

(***************************************************************************)
(* A run given up at any point, with any part of the page in hand written. *)
(***************************************************************************)
LEMMA AbandonInv ==
  ASSUME IInv, NEW P \in SUBSET Mentioned, events' = Written(P),
         NEW result \in {"none", "ok", "failed"}, Abandon(result), faults' \in Nat
  PROVE  IInv'
  <1>1. /\ pc' = "idle" /\ page' = NoPage /\ outcome' = result
        /\ UNCHANGED <<clock, google, sync_token, asof, todo, sent, page_token,
                       report_token, leftover>>
    BY DEF Abandon, runVars
  <1>2. /\ events' \in [Event -> Version]
        /\ VersionsInv'
        /\ CursorInv'
    BY <1>1, WriteMany
  <1>3. TypeOK'
    <2>1. NoPage \in Page
      BY DEF Page, NoPage, NoRows, Never, Version, NoToken
    <2>. QED
      BY <1>1, <1>2, <2>1 DEF IInv, TypeOK, MirrorTypeOK
  <1>4. PageInv'
    BY <1>1 DEF PageInv, Mentioned, NoPage, NoRows
  <1>5. RunInv' /\ ListingInv' /\ CommitInv'
    BY <1>1 DEF RunInv, ListingInv, Listing, CommitInv
  <1>. QED
    BY <1>2, <1>3, <1>4, <1>5 DEF IInv

LEMMA FailInv ==
  ASSUME IInv, Fail
  PROVE  IInv'
  <1>1. events' = Written({})
    BY DEF Fail, Written, IInv, TypeOK, MirrorTypeOK
  <1>2. Abandon("failed") /\ faults' \in Nat
    BY DEF Fail, IInv, TypeOK
  <1>. QED
    BY <1>1, <1>2, AbandonInv

LEMMA PageFailsInv ==
  ASSUME IInv, PageFails
  PROVE  IInv'
  <1>1. PICK P \in SUBSET Mentioned : events' = Written(P)
    BY DEF PageFails
  <1>2. Abandon("failed") /\ faults' \in Nat
    BY DEF PageFails, IInv, TypeOK
  <1>. QED
    BY <1>1, <1>2, AbandonInv

LEMMA CrashInv ==
  ASSUME IInv, Crash
  PROVE  IInv'
  <1>1. PICK P \in SUBSET Mentioned : events' = Written(P)
    BY DEF Crash
  <1>2. Abandon("none") /\ faults' \in Nat
    BY DEF Crash, IInv, TypeOK
  <1>. QED
    BY <1>1, <1>2, AbandonInv

(* IInv is inductive. *)
LEMMA NextInv == IInv /\ [Next]_vars => IInv'
  <1>. SUFFICES ASSUME IInv, [Next]_vars PROVE IInv'
    OBVIOUS
  <1>1. ASSUME NEW e \in Event, NEW alive \in BOOLEAN, Change(e, alive) PROVE IInv'
    BY <1>1, ChangeInv
  <1>2. CASE Begin
    BY <1>2, BeginInv
  <1>3. CASE Answers
    BY <1>3, AnswerInv DEF Answers
  <1>4. CASE AnswerSelf
    BY <1>4, AnswerSelfInv
  <1>5. CASE Refuse
    BY <1>5, RefuseInv
  <1>6. CASE ApplyPage
    BY <1>6, ApplyPageInv
  <1>7. CASE Commit
    BY <1>7, CommitStepInv
  <1>8. CASE DropCursor
    BY <1>8, DropCursorInv
  <1>9. CASE ClearCalendar
    BY <1>9, ClearCalendarInv
  <1>10. CASE Fail
    BY <1>10, FailInv
  <1>11. CASE PageFails
    BY <1>11, PageFailsInv
  <1>12. CASE Crash
    BY <1>12, CrashInv
  <1>13. CASE UNCHANGED vars
    <2>1. UNCHANGED <<TypeOK, VersionsInv, CursorInv>>
      BY <1>13 DEF vars, netVars, runVars, TypeOK, MirrorTypeOK, VersionsInv, CursorInv,
         NothingMissing, CompleteUpTo, NoGhostButFromLeftovers, NoGhost, Ghosts
    <2>2. UNCHANGED <<RunInv, PageInv, ListingInv, CommitInv>>
      BY <1>13 DEF vars, netVars, runVars, RunInv, PageInv, Mentioned, ListingInv, Listing,
         Covered, CommitInv, Watched, Done
    <2>. QED
      BY <2>1, <2>2 DEF IInv
  <1>. QED
    BY <1>1, <1>2, <1>3, <1>4, <1>5, <1>6, <1>7, <1>8, <1>9, <1>10, <1>11, <1>12, <1>13
       DEF Next

THEOREM Inductive == Spec => []IInv
  BY InitInv, NextInv, PTL DEF Spec

-----------------------------------------------------------------------------
(* Invariants of CalendarSync. *)

(***************************************************************************)
(* Every variable has its type, whatever sync_calendar does.               *)
(***************************************************************************)
THEOREM TypeCorrect == Spec => []TypeOK
  <1>1. IInv => TypeOK
    BY DEF IInv
  <1>. QED
    BY <1>1, Inductive, PTL

(***************************************************************************)
(* The stored cursor never vouches for a row that is missing or out of     *)
(* date: an event no later delta will mention is in the table.             *)
(***************************************************************************)
THEOREM NothingIsMissing == Spec => []NothingMissing
  <1>1. IInv => NothingMissing
    BY DEF IInv, CursorInv
  <1>. QED
    BY <1>1, Inductive, PTL

(***************************************************************************)
(* A deleted event stays in the table behind the cursor only if some full  *)
(* fetch began over rows an abandoned one had left.                        *)
(***************************************************************************)
THEOREM GhostsOnlyFromLeftovers == Spec => []NoGhostButFromLeftovers
  <1>1. IInv => NoGhostButFromLeftovers
    BY DEF IInv, CursorInv
  <1>. QED
    BY <1>1, Inductive, PTL

-----------------------------------------------------------------------------
(* The steps of CalendarSync. *)

(* What each of the steps does to the four variables of Mirror. *)
Writes   == /\ \E P \in SUBSET Mentioned : events' = Written(P)
            /\ UNCHANGED <<clock, google, sync_token>>
Clears   == /\ pc = "clearing" /\ events' = NoRows
            /\ UNCHANGED <<clock, google, sync_token>>
Records  == /\ pc = "commit" /\ sync_token' = report_token
            /\ UNCHANGED <<clock, google, events>>

LEMMA StepKinds ==
  ASSUME [Next]_vars
  PROVE  \/ \E e \in Event, alive \in BOOLEAN : Edit(e, alive)
         \/ Writes
         \/ Clears
         \/ Records
         \/ Distrust
         \/ UNCHANGED mirrorVars
  <1>1. ASSUME NEW e \in Event, NEW alive \in BOOLEAN, Change(e, alive)
        PROVE  Edit(e, alive)
    BY <1>1 DEF Change
  <1>2. CASE Begin \/ Answers \/ AnswerSelf \/ Refuse
    BY <1>2 DEF Begin, Answers, Answer, AnswerSelf, Refuse, mirrorVars
  <1>3. CASE ApplyPage
    BY <1>3 DEF ApplyPage, Writes
  <1>4. CASE Commit
    BY <1>4 DEF Commit, Records
  <1>5. CASE DropCursor
    BY <1>5 DEF DropCursor, Distrust
  <1>6. CASE ClearCalendar
    BY <1>6 DEF ClearCalendar, Clears
  <1>7. CASE Fail
    BY <1>7 DEF Fail, Abandon, mirrorVars
  <1>8. CASE PageFails
    BY <1>8 DEF PageFails, Abandon, Writes
  <1>9. CASE Crash
    BY <1>9 DEF Crash, Abandon, Writes
  <1>10. CASE UNCHANGED vars
    BY <1>10 DEF vars, mirrorVars
  <1>. QED
    BY <1>1, <1>2, <1>3, <1>4, <1>5, <1>6, <1>7, <1>8, <1>9, <1>10 DEF Next

(***************************************************************************)
(* No page, whole or in part, late or repeated, and no failure takes away  *)
(* a row that Google still has; only the clear after a refused cursor does.*)
(***************************************************************************)
THEOREM OnlyTheClearDropsRows == Spec => OnlyTheClearDrops
  <1>1. ASSUME IInv, [Next]_vars, pc # "clearing", NEW e \in Event,
               events[e] # Never, events[e] = google[e]
        PROVE  events'[e] = events[e]
    <2>1. CASE Writes
      <3>1. PICK P \in SUBSET Mentioned : events' = Written(P)
        BY <2>1 DEF Writes
      <3>2. Keeps(e, google[e])
        BY <1>1 DEF IInv, VersionsInv
      <3>. QED
        BY <1>1, <3>1, <3>2, WriteOne
    <2>2. CASE ~ Writes
      BY <1>1, <2>2, StepKinds DEF Edit, Clears, Records, Distrust, mirrorVars
    <2>. QED
      BY <2>1, <2>2
  <1>2. IInv /\ [Next]_vars
          => [pc # "clearing" =>
                \A e \in Event :
                  events[e] # Never /\ events[e] = google[e] => events'[e] = events[e]]_vars
    BY <1>1
  <1>. QED
    BY <1>2, Inductive, PTL DEF Spec, OnlyTheClearDrops

(***************************************************************************)
(* As long as a calendar keeps a cursor, no step of a sync, and no edit,   *)
(* adds to the deleted events that are still in the table.                 *)
(***************************************************************************)
THEOREM DeltasAddNoGhosts == Spec => DeltasAddNoGhost
  <1>1. ASSUME IInv, [Next]_vars, sync_token # NoToken, sync_token' # NoToken
        PROVE  Ghosts(sync_token)' \subseteq Ghosts(sync_token)
    <2>1. SUFFICES ASSUME NEW e \in Event, google'[e].at <= sync_token',
                          ~ Keeps(e, google'[e]), events'[e] # Never
                   PROVE  /\ google[e].at <= sync_token
                          /\ ~ Keeps(e, google[e])
                          /\ events[e] # Never
      BY DEF Ghosts, Keeps
    <2>2. ASSUME NEW f \in Event, NEW alive \in BOOLEAN, Edit(f, alive)
          PROVE  google'[e] = google[e] /\ UNCHANGED <<events, sync_token>>
      <3>1. /\ google' = [google EXCEPT ![f] = [at |-> clock + 1, live |-> alive]]
            /\ UNCHANGED <<events, sync_token>>
        BY <2>2 DEF Edit
      <3>2. clock \in Nat /\ sync_token \in Nat /\ sync_token <= clock
        BY <1>1 DEF IInv, TypeOK, MirrorTypeOK, CursorInv
      <3>3. e # f
        BY <1>1, <2>1, <3>1, <3>2 DEF IInv, TypeOK, MirrorTypeOK
      <3>. QED
        BY <1>1, <3>1, <3>3 DEF IInv, TypeOK, MirrorTypeOK
    <2>3. CASE Writes
      <3>1. PICK P \in SUBSET Mentioned : events' = Written(P)
        BY <2>3 DEF Writes
      <3>. QED
        BY <1>1, <2>1, <2>3, <3>1, WriteAddsNoGhost DEF Writes
    <2>4. CASE Clears
      BY <2>1, <2>4 DEF Clears, NoRows
    <2>5. CASE Records
      <3>1. /\ sync_token' = report_token
            /\ UNCHANGED <<clock, google, events>>
            /\ sent = sync_token
            /\ google[e] \in Version /\ sync_token \in Nat
        BY <1>1, <2>5 DEF Records, IInv, RunInv, TypeOK, MirrorTypeOK
      <3>2. ~ Watched(e)
        BY <1>1, <2>1, <2>5, <3>1 DEF Records, IInv, CommitInv, Done, Mapped
      <3>. QED
        BY <1>1, <2>1, <3>1, <3>2 DEF Watched, Version
    <2>6. CASE Distrust
      BY <1>1, <2>6 DEF Distrust
    <2>7. CASE UNCHANGED mirrorVars
      BY <2>1, <2>7 DEF mirrorVars
    <2>. QED
      BY <1>1, <2>1, <2>2, <2>3, <2>4, <2>5, <2>6, <2>7, StepKinds
  <1>2. IInv /\ [Next]_vars
          => [sync_token # NoToken /\ sync_token' # NoToken
                => Ghosts(sync_token)' \subseteq Ghosts(sync_token)]_vars
    BY <1>1
  <1>. QED
    BY <1>2, Inductive, PTL DEF Spec, DeltasAddNoGhost

-----------------------------------------------------------------------------
(***************************************************************************)
(* CalendarSync implements Mirror: rows only move forward or go, and the   *)
(* cursor moves only to a version the table is complete for.               *)
(***************************************************************************)
THEOREM ImplementsMirror == Spec => KeepsThePromise
  <1>1. Init => MirrorInit
    BY DEF Init
  <1>2. ASSUME IInv, IInv', [Next]_vars PROVE [MirrorNext]_mirrorVars
    <2>1. CASE \E e \in Event, alive \in BOOLEAN : Edit(e, alive)
      BY <2>1 DEF MirrorNext
    <2>2. CASE Writes
      <3>1. PICK P \in SUBSET Mentioned : events' = Written(P)
        BY <2>2 DEF Writes
      <3>2. \A e \in Event :
              \/ events'[e] \in {events[e], Never}
              \/ events[e].at < events'[e].at /\ events'[e].at <= google[e].at
        BY <1>2, <3>1, WriteOne
      <3>3. events' \in [Event -> Version] /\ CompleteUpTo(sync_token, events')
        BY <1>2, <2>2 DEF Writes, IInv, TypeOK, MirrorTypeOK, CursorInv, NothingMissing,
           CompleteUpTo
      <3>. QED
        BY <2>2, <3>2, <3>3 DEF Writes, Write, MirrorNext
    <2>3. CASE Clears
      <3>1. events' \in [Event -> Version] /\ CompleteUpTo(sync_token, events')
        BY <1>2, <2>3 DEF Clears, IInv, TypeOK, MirrorTypeOK, CursorInv, NothingMissing,
           CompleteUpTo
      <3>2. \A e \in Event : events'[e] = Never
        BY <2>3 DEF Clears, NoRows
      <3>. QED
        BY <2>3, <3>1, <3>2 DEF Clears, Write, MirrorNext
    <2>4. CASE Records
      <3>1. sync_token' \in Nat /\ sync_token' <= clock /\ CompleteUpTo(sync_token', events)
        BY <1>2, <2>4 DEF Records, IInv, TypeOK, MirrorTypeOK, CursorInv, NothingMissing,
           CompleteUpTo
      <3>2. CASE sync_token' = NoToken
        BY <2>4, <3>2 DEF Records, Distrust, MirrorNext
      <3>3. CASE sync_token' # NoToken
        <4>1. sync_token <= sync_token'
          BY <1>2, <2>4, <3>3 DEF Records, IInv, RunInv, CommitInv
        <4>2. sync_token' \in sync_token .. clock
          BY <1>2, <3>1, <4>1 DEF IInv, TypeOK, MirrorTypeOK
        <4>. QED
          BY <2>4, <3>1, <4>2 DEF Records, Advance, MirrorNext
      <3>. QED
        BY <3>2, <3>3
    <2>5. CASE Distrust
      BY <2>5 DEF MirrorNext
    <2>6. CASE UNCHANGED mirrorVars
      BY <2>6
    <2>. QED
      BY <1>2, <2>1, <2>2, <2>3, <2>4, <2>5, <2>6, StepKinds
  <1>. QED
    BY <1>1, <1>2, Inductive, PTL DEF Spec, KeepsThePromise, MirrorSpec
=============================================================================
