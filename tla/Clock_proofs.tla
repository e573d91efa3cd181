---------------------------- MODULE Clock_proofs ----------------------------
(***************************************************************************)
(* Proofs about the two parts that go by the clock: Reminders, for every   *)
(* set of occurrences, every length of the day, the grace and the horizon, *)
(* and every bound; and Tray, for any meetings, any lengths of a minute    *)
(* and an hour, and every bound.                                           *)
(***************************************************************************)
EXTENDS Reminders, Tray, FiniteSetTheorems, WellFoundedInduction, TLAPS

-----------------------------------------------------------------------------
(* The inductive invariant. *)

(* What is still pending is ahead of the watermark, wherever the clock is. *)
PendingInv == \A e \in pending : notify_at(e) > reminded_to

(* A watermark no clock overtook backwards is behind the clock, and what   *)
(* was given is behind the watermark.                                      *)
ToldInv ==
  ~ setBack =>
    /\ reminded_to <= now
    /\ \A e \in Event : told[e] = 0 \/ (told[e] = 1 /\ notify_at(e) <= reminded_to)

IInv == TypeOK /\ PendingInv /\ ToldInv

-----------------------------------------------------------------------------
(* Facts about notify_at. *)

(* Whole days fit in the lead they are taken from. *)
LEMMA WholeDays == \A l \in Nat : (l \div Day) \in Nat /\ (l \div Day) * Day <= l
  BY TimeAssumption, Z3

LEMMA NotifyAtInt == TypeOK => \A e \in Event : notify_at(e) \in Int
  <1>. SUFFICES ASSUME TypeOK, NEW e \in Event PROVE notify_at(e) \in Int
    OBVIOUS
  <1>1. slot[e].start \in Int /\ slot[e].lead \in Nat
    BY SlotAssumption DEF TypeOK
  <1>2. (slot[e].lead \div Day) * Day \in Int
    BY <1>1, WholeDays, TimeAssumption
  <1>. QED
    BY <1>1, <1>2, TimeAssumption DEF notify_at

(* An occurrence starts no later than its lead after its reminder. *)
LEMMA StartsWithinLead ==
  TypeOK => \A e \in Event : slot[e].start <= notify_at(e) + slot[e].lead
  <1>. SUFFICES ASSUME TypeOK, NEW e \in Event
                PROVE  slot[e].start <= notify_at(e) + slot[e].lead
    OBVIOUS
  <1>1. slot[e].start \in Int /\ slot[e].lead \in Nat
    BY SlotAssumption DEF TypeOK
  <1>2. /\ (slot[e].lead \div Day) * Day \in Int
        /\ (slot[e].lead \div Day) * Day <= slot[e].lead
    BY <1>1, WholeDays, TimeAssumption
  <1>. QED
    BY <1>1, <1>2, TimeAssumption DEF notify_at

-----------------------------------------------------------------------------
(* One lemma per action. *)

LEMMA InitInv == Init => IInv
  <1>. SUFFICES ASSUME Init PROVE IInv
    OBVIOUS
  <1>1. TypeOK
    <2>1. reminded_to \in - StartupGrace .. MaxNow
      BY TimeAssumption DEF Init
    <2>2. pending \in SUBSET shown /\ told \in [Event -> Nat]
      BY DEF Init, Ahead
    <2>3. now \in 0 .. MaxNow /\ changes \in 0 .. MaxChanges
      BY TimeAssumption DEF Init
    <2>4. running \in BOOLEAN /\ setBack \in BOOLEAN
      BY DEF Init
    <2>. QED
      BY <2>1, <2>2, <2>3, <2>4 DEF Init, TypeOK
  <1>2. PendingInv
    BY DEF Init, PendingInv, Ahead
  <1>3. ToldInv
    BY <1>1, TimeAssumption DEF Init, ToldInv, TypeOK
  <1>. QED
    BY <1>1, <1>2, <1>3 DEF IInv

(* Only what is ahead of the watermark and not ahead of the clock is due.  *)
LEMMA DueBetween ==
  ASSUME TypeOK, NEW e \in Due
  PROVE  /\ e \in shown
         /\ reminded_to < now
         /\ reminded_to < notify_at(e)
         /\ notify_at(e) <= now
  <1>1. now \in Int /\ reminded_to \in Int
    BY TimeAssumption DEF TypeOK
  <1>2. ~ (now <= reminded_to)
    BY DEF Due
  <1>3. e \in due(scheduled_reminders(reminded_to - Horizon, now + Horizon), reminded_to, now)
    BY <1>2 DEF Due
  <1>. QED
    BY <1>1, <1>2, <1>3 DEF due, scheduled_reminders

(* deliver_due_reminders, with whatever is given a subset of what is due.  *)
LEMMA DeliverInv ==
  ASSUME NEW S \in SUBSET Due, IInv, Deliver(S), reminded_to' = now,
         changes' \in 0 .. MaxChanges
  PROVE  IInv'
  <1>. USE DEF IInv, Deliver
  <1>1. \A e \in Event : notify_at(e)' = notify_at(e)
    BY DEF notify_at, scheduleVars
  <1>2. S \subseteq Event
    BY DueBetween DEF TypeOK
  <1>3. TypeOK'
    <2>1. told' \in [Event -> Nat]
      BY <1>2 DEF TypeOK
    <2>2. pending' \in SUBSET shown'
      BY DEF Ahead, scheduleVars
    <2>3. reminded_to' \in - StartupGrace .. MaxNow
      BY TimeAssumption DEF TypeOK
    <2>. QED
      BY <2>1, <2>2, <2>3 DEF TypeOK, scheduleVars
  <1>4. PendingInv'
    BY <1>1, <1>3 DEF PendingInv, Ahead, TypeOK
  <1>5. ToldInv'
    <2>. SUFFICES ASSUME ~ setBack PROVE ToldInv'
      BY DEF ToldInv
    <2>1. reminded_to <= now
      BY DEF ToldInv
    <2>2. ASSUME NEW e \in Event
          PROVE  told'[e] = 0 \/ (told'[e] = 1 /\ notify_at(e)' <= reminded_to')
      <3>1. CASE e \in S
        <4>1. reminded_to < notify_at(e) /\ notify_at(e) <= now
          BY <3>1, DueBetween
        <4>2. told[e] = 0
          BY <4>1, NotifyAtInt DEF ToldInv, TypeOK
        <4>. QED
          BY <3>1, <4>1, <4>2, <1>1 DEF TypeOK
      <3>2. CASE e \notin S
        <4>1. told'[e] = told[e]
          BY <3>2
        <4>. QED
          BY <4>1, <2>1, <1>1, NotifyAtInt DEF ToldInv, TypeOK
      <3>. QED
        BY <3>1, <3>2
    <2>. QED
      BY <2>2, <1>3 DEF ToldInv, TypeOK
  <1>. QED
    BY <1>3, <1>4, <1>5

LEMMA CheckInv == IInv /\ (Check \/ CheckFails) => IInv'
  <1>. SUFFICES ASSUME IInv, Check \/ CheckFails PROVE IInv'
    OBVIOUS
  <1>1. CASE Check
    BY <1>1, DeliverInv DEF Check, IInv, TypeOK
  <1>2. CASE CheckFails
    <2>1. changes' \in 0 .. MaxChanges
      BY <1>2, TimeAssumption DEF CheckFails, IInv, TypeOK
    <2>. QED
      BY <1>2, <2>1, DeliverInv DEF CheckFails
  <1>. QED
    BY <1>1, <1>2

LEMMA ClockInv == IInv /\ (Pass \/ SetBack) => IInv'
  <1>. SUFFICES ASSUME IInv, Pass \/ SetBack PROVE IInv'
    OBVIOUS
  <1>. USE DEF IInv
  <1>1. \A e \in Event : notify_at(e)' = notify_at(e)
    BY DEF notify_at, scheduleVars, Pass, SetBack
  <1>2. TypeOK'
    <2>1. now' \in 0 .. MaxNow /\ changes' \in 0 .. MaxChanges
      BY TimeAssumption DEF TypeOK, Pass, SetBack
    <2>2. setBack' \in BOOLEAN
      BY DEF TypeOK, Pass, SetBack
    <2>3. UNCHANGED <<running, reminded_to, shown, slot, told, pending>>
      BY DEF Pass, SetBack, scheduleVars
    <2>. QED
      BY <2>1, <2>2, <2>3 DEF TypeOK
  <1>3. PendingInv'
    BY <1>1 DEF PendingInv, TypeOK, Pass, SetBack
  <1>4. ToldInv'
    <2>1. CASE Pass
      BY <2>1, <1>1 DEF ToldInv, TypeOK, Pass
    <2>2. CASE SetBack
      BY <2>2 DEF ToldInv, SetBack
    <2>. QED
      BY <2>1, <2>2
  <1>. QED
    BY <1>2, <1>3, <1>4

LEMMA ScheduleInv ==
  ASSUME NEW e \in Event, NEW s \in Slot, IInv, Schedule(e, s)
  PROVE  IInv'
  <1>. USE DEF IInv, Schedule
  <1>1. \A k \in Event \ {e} : /\ notify_at(k)' = notify_at(k)
                              /\ told'[k] = told[k]
    BY DEF notify_at, TypeOK
  <1>2. told'[e] = 0 \/ (told'[e] = told[e] /\ notify_at(e)' = notify_at(e))
    BY DEF TypeOK
  <1>3. TypeOK'
    <2>1. told' \in [Event -> Nat]
      BY DEF TypeOK
    <2>2. slot' \in [Event -> Slot] /\ shown' \in SUBSET Event /\ pending' \in SUBSET shown'
      BY DEF TypeOK
    <2>. QED
      BY <2>1, <2>2, TimeAssumption DEF TypeOK
  <1>4. PendingInv'
    BY <1>1 DEF PendingInv, TypeOK
  <1>5. ToldInv'
    BY <1>1, <1>2 DEF ToldInv
  <1>. QED
    BY <1>3, <1>4, <1>5

LEMMA DropInv ==
  ASSUME NEW e \in Event, IInv, Drop(e)
  PROVE  IInv'
  <1>. USE DEF IInv, Drop
  <1>1. \A k \in Event : notify_at(k)' = notify_at(k)
    BY DEF notify_at
  <1>2. TypeOK'
    BY TimeAssumption DEF TypeOK
  <1>3. PendingInv' /\ ToldInv'
    BY <1>1 DEF PendingInv, ToldInv, TypeOK
  <1>. QED
    BY <1>2, <1>3

LEMMA QuitInv == IInv /\ Quit => IInv'
  <1>. SUFFICES ASSUME IInv, Quit PROVE IInv'
    OBVIOUS
  <1>. USE DEF IInv, Quit
  <1>1. \A k \in Event : notify_at(k)' = notify_at(k)
    BY DEF notify_at, scheduleVars
  <1>2. TypeOK'
    <2>1. changes' \in 0 .. MaxChanges
      BY TimeAssumption DEF TypeOK
    <2>2. running' \in BOOLEAN
      OBVIOUS
    <2>3. UNCHANGED <<now, reminded_to, shown, slot, told, pending, setBack>>
      BY DEF scheduleVars
    <2>. QED
      BY <2>1, <2>2, <2>3 DEF TypeOK
  <1>3. PendingInv' /\ ToldInv'
    BY <1>1 DEF PendingInv, ToldInv, TypeOK
  <1>. QED
    BY <1>2, <1>3

LEMMA RestartInv == IInv /\ Start => IInv'
  <1>. SUFFICES ASSUME IInv, Start PROVE IInv'
    OBVIOUS
  <1>. USE DEF IInv, Start
  <1>1. \A k \in Event : notify_at(k)' = notify_at(k)
    BY DEF notify_at, scheduleVars
  <1>2. TypeOK'
    <2>1. /\ reminded_to' \in - StartupGrace .. MaxNow
          /\ now' \in 0 .. MaxNow
      BY TimeAssumption DEF TypeOK
    <2>2. pending' \in SUBSET shown' /\ told' \in [Event -> Nat]
      BY DEF Ahead, scheduleVars
    <2>3. UNCHANGED <<shown, slot, changes>> /\ running' \in BOOLEAN /\ setBack' \in BOOLEAN
      BY DEF scheduleVars
    <2>. QED
      BY <2>1, <2>2, <2>3 DEF TypeOK
  <1>3. PendingInv'
    BY <1>1 DEF PendingInv, Ahead, TypeOK
  <1>4. ToldInv'
    BY TimeAssumption DEF ToldInv, TypeOK
  <1>. QED
    BY <1>2, <1>3, <1>4

LEMMA NextInv == IInv /\ [Next]_vars => IInv'
  <1>. SUFFICES ASSUME IInv, [Next]_vars PROVE IInv'
    OBVIOUS
  <1>1. CASE Check \/ CheckFails
    BY <1>1, CheckInv
  <1>2. CASE Pass \/ SetBack
    BY <1>2, ClockInv
  <1>3. CASE \E e \in Event : (\E s \in Slot : Schedule(e, s)) \/ Drop(e)
    BY <1>3, ScheduleInv, DropInv
  <1>4. CASE Quit
    BY <1>4, QuitInv
  <1>5. CASE Start
    BY <1>5, RestartInv
  <1>6. CASE UNCHANGED vars
    <2>1. \A k \in Event : notify_at(k)' = notify_at(k)
      BY <1>6 DEF notify_at, vars, scheduleVars
    <2>. QED
      BY <1>6, <2>1 DEF IInv, TypeOK, PendingInv, ToldInv, vars, scheduleVars
  <1>. QED
    BY <1>1, <1>2, <1>3, <1>4, <1>5, <1>6 DEF Next

-----------------------------------------------------------------------------
(* The theorems. *)

(* The invariant behind the others is inductive. *)
THEOREM Inductive == Spec => []IInv
  BY InitInv, NextInv, PTL DEF Spec

(* TypeOK, for every set of occurrences and every length of time. *)
THEOREM ReminderTypeCorrect == Spec => []TypeOK
  <1>1. IInv => TypeOK
    BY DEF IInv
  <1>. QED
    BY <1>1, Inductive, PTL

(* Once: a process whose clock is not set back never gives one reminder    *)
(* twice.                                                                  *)
THEOREM GivenOnce == Spec => []Once
  <1>1. ASSUME IInv, ~ setBack, NEW e \in Event PROVE told[e] <= 1
    <2>1. told[e] = 0 \/ told[e] = 1
      BY <1>1 DEF IInv, ToldInv
    <2>. QED
      BY <2>1
  <1>2. IInv => Once
    BY <1>1 DEF Once
  <1>. QED
    BY <1>2, Inductive, PTL

(***************************************************************************)
(* Timely: what was pending and has come due is in the window the program  *)
(* looks at, after its watermark, and is given.                            *)
(***************************************************************************)
THEOREM GivenInTime == Spec => Timely
  <1>1. ASSUME IInv, Check, NEW e \in pending,
               notify_at(e) <= now, slot[e].end > now, slot[e].lead < Horizon
        PROVE  told'[e] = told[e] + 1
    <2>. USE <1>1 DEF IInv
    <2>1. e \in shown /\ e \in Event
      BY DEF TypeOK
    <2>2. /\ slot[e].start \in Int
          /\ slot[e].end \in Int
          /\ slot[e].lead \in Nat
      BY <2>1, SlotAssumption DEF TypeOK
    <2>3. notify_at(e) \in Int /\ now \in Int /\ reminded_to \in Int
      BY <2>1, NotifyAtInt, TimeAssumption DEF TypeOK
    <2>4. reminded_to < notify_at(e)
      BY <2>3 DEF PendingInv
    <2>5. slot[e].start < now + Horizon
      BY <2>1, <2>2, <2>3, <1>1, StartsWithinLead, TimeAssumption
    <2>6. slot[e].end > reminded_to - Horizon
      BY <2>2, <2>3, <2>4, <1>1, TimeAssumption
    <2>7. e \in Due
      BY <2>1, <2>3, <2>4, <2>5, <2>6, <1>1, TimeAssumption
         DEF Due, due, scheduled_reminders
    <2>. QED
      BY <2>1, <2>7, <1>1 DEF Check, Deliver, TypeOK
  <1>2. IInv /\ [Next]_vars =>
          [Check =>
             \A e \in pending :
               /\ notify_at(e) <= now
               /\ slot[e].end > now
               /\ slot[e].lead < Horizon
               => told'[e] = told[e] + 1]_vars
    BY <1>1
  <1>. QED
    BY <1>2, Inductive, PTL DEF Spec, Timely

-----------------------------------------------------------------------------
(* The tray: the inductive invariants. *)

(* A line told of everything, and read, is what the store gave at the time *)
(* it was drawn, and the timer armed with it is still to come.             *)
LineFresh ==
  lag = None =>
    /\ line = tray_line(store, line.drawn)
    /\ line.drawn <= clock
    /\ \E left \in 0 .. Hour :
         left = line.drawn + wake_in(store, line.drawn) - clock /\ timers[left] > 0

(* A line that was not has a timer that goes off before it is an hour old. *)
LineStale ==
  lag # None => \E left \in 0 .. Hour : timers[left] > 0 /\ lag + left <= Hour

TrayInv == TrayTypeOK /\ (host => LineFresh /\ LineStale)

ChainInv == IsFiniteSet(Chains) /\ ChainsAreCounted

(* What remembers a focus, or has it, is held on the screen or was closed. *)
PopupInv ==
  popup.had_focus \/ popup.active => popup.closed \/ (popup.visible /\ popup.held)

-----------------------------------------------------------------------------
(* Facts about the line. *)

(* A set of naturals has a least one. *)
LEMMA LeastOf ==
  ASSUME NEW S \in SUBSET Nat, S # {}
  PROVE  Least(S) \in S /\ \A y \in S : Least(S) <= y
<1> DEFINE R == {ss \in Nat \X Nat : ss[1] < ss[2]}
<1>1. IsWellFoundedOn(R, Nat)
  BY NatLessThanWellFounded, Zenon DEF OpToRel
<1> HIDE DEF R
<1>2. PICK x \in S : \A y \in S : <<y, x>> \notin R
  BY <1>1, WFMin
<1>3. \A y \in S : ~ (y < x)
  BY <1>2 DEF R
<1>4. \A y \in S : x <= y
  BY <1>3
<1> QED
  BY <1>4 DEF Least

(* The timer armed with a line runs within the hour, and no later than the *)
(* first start or end the line saw ahead of it.                            *)
LEMMA WakesInTime ==
  ASSUME NEW meetings \in SUBSET Meetings, NEW t \in Nat
  PROVE  /\ wake_in(meetings, t) \in 1 .. Hour
         /\ \A m \in Timed(occurrences_in_window(meetings, t, t + LookAhead)) :
              \A x \in {m.start, m.end} : x > t => t + wake_in(meetings, t) <= x
<1> DEFINE seen == occurrences_in_window(meetings, t, t + LookAhead)
           instants == {x \in UNION {{m.start, m.end} : m \in Timed(seen)} : x > t}
<1>1. Timed(seen) \subseteq Meetings
  BY DEF Timed, occurrences_in_window
<1>2. instants \in SUBSET Nat
  BY <1>1, MeetingsAssumption
<1>3. Hour \in Nat \ {0}
  BY TimesAssumption
<1>4. next_change(seen, t) = IF instants = {} THEN None ELSE Least(instants)
  BY DEF next_change
<1>5. wake_in(meetings, t) = IF next_change(seen, t) = None THEN Hour
                             ELSE Clamp(next_change(seen, t) - t, 1, Hour)
  BY DEF wake_in
<1>6. \A m \in Timed(seen) : \A x \in {m.start, m.end} : x > t => x \in instants
  OBVIOUS
<1> HIDE DEF seen, instants
<1>7. CASE instants = {}
  <2>1. wake_in(meetings, t) = Hour
    BY <1>4, <1>5, <1>7
  <2>2. \A m \in Timed(seen) : \A x \in {m.start, m.end} : ~ (x > t)
    BY <1>6, <1>7
  <2> QED
    BY <2>1, <2>2, <1>3 DEF seen
<1>8. CASE instants # {}
  <2> DEFINE change == Least(instants)
  <2>1. change \in instants /\ \A y \in instants : change <= y
    BY <1>2, <1>8, LeastOf
  <2>2. change \in Nat /\ change > t
    BY <2>1, <1>2 DEF instants
  <2>3. next_change(seen, t) = change /\ change # None
    BY <1>4, <1>8, <2>2 DEF None
  <2>4. wake_in(meetings, t) = Clamp(change - t, 1, Hour)
    BY <1>5, <2>3
  <2> HIDE DEF change
  <2>5. /\ wake_in(meetings, t) \in 1 .. Hour
        /\ t + wake_in(meetings, t) <= change
    BY <2>2, <2>4, <1>3 DEF Clamp
  <2>6. \A m \in Timed(seen) : \A x \in {m.start, m.end} : x > t => t + wake_in(meetings, t) <= x
    <3> SUFFICES ASSUME NEW m \in Timed(seen), NEW x \in {m.start, m.end}, x > t
                 PROVE  t + wake_in(meetings, t) <= x
      OBVIOUS
    <3>1. x \in instants
      BY <1>6
    <3>2. x \in Nat /\ change <= x
      BY <3>1, <1>2, <2>1
    <3> QED
      BY <3>2, <2>2, <2>5
  <2> QED
    BY <2>5, <2>6 DEF seen
<1> QED
  BY <1>7, <1>8

(* Where nothing starts or ends, the same is on or comes next. *)
LEMMA NothingPasses ==
  ASSUME NEW seen, Timed(seen) \subseteq Meetings, NEW t \in Nat, NEW u \in Nat, t <= u,
         \A m \in Timed(seen) : \A x \in {m.start, m.end} : x > t => x > u
  PROVE  next_event(seen, u) = next_event(seen, t)
<1>1. \A m \in Timed(seen) : m.start \in Nat /\ m.end \in Nat
  BY MeetingsAssumption
<1>2. UnderWay(seen, u) = UnderWay(seen, t)
  BY <1>1 DEF UnderWay
<1>3. Coming(seen, u) = Coming(seen, t)
  BY <1>1 DEF Coming
<1> QED
  BY <1>2, <1>3 DEF next_event

-----------------------------------------------------------------------------
(* The line and its timers: one lemma per action that touches them. *)

(* refresh_tray: a line drawn now, and a timer for it. *)
LEMMA RefreshKeepsUp ==
  ASSUME TrayTypeOK, NEW armed \in Counts, UNCHANGED <<clock, host>>,
         store' \subseteq Meetings, refresh_tray(store', armed)
  PROVE  /\ timers' \in Counts
         /\ line'.drawn \in 0 .. MaxTime
         /\ lag' \in Nat \union {None}
         /\ host' => LineFresh' /\ LineStale'
<1>1. clock \in Nat /\ clock <= MaxTime /\ MaxTime \in Nat /\ Hour \in Nat \ {0}
  BY TimesAssumption DEF TrayTypeOK
<1>2. PICK listed \in Found(store'), awaited \in Found(store') :
        /\ line' = IF host THEN tray_line(listed, clock) ELSE line
        /\ timers' = Armed(armed, wake_in(awaited, clock))
        /\ lag' = IF listed = store' /\ awaited = store' THEN None ELSE 0
  BY DEF refresh_tray
<1>3. listed \in SUBSET Meetings /\ awaited \in SUBSET Meetings
  BY DEF Found
<1> DEFINE left == wake_in(awaited, clock)
<1>4. left \in 1 .. Hour /\ left \in 0 .. Hour
  BY <1>1, <1>3, WakesInTime
<1>5. timers' = [armed EXCEPT ![left] = @ + 1]
  BY <1>2 DEF Armed
<1> HIDE DEF left
<1>6. timers' \in Counts /\ timers'[left] > 0
  BY <1>1, <1>4, <1>5 DEF Counts
<1>7. host => line'.drawn = clock /\ line' = tray_line(listed, line'.drawn)
  BY <1>2 DEF tray_line
<1>8. line'.drawn \in 0 .. MaxTime
  BY <1>1, <1>2, <1>7 DEF TrayTypeOK
<1>9. host' => LineFresh'
  <2> SUFFICES ASSUME host, lag' = None PROVE LineFresh'
    BY DEF LineFresh
  <2>1. listed = store' /\ awaited = store'
    BY <1>2 DEF None
  <2>2. line' = tray_line(store', line'.drawn) /\ line'.drawn <= clock'
    BY <1>1, <1>7, <2>1
  <2>3. left = line'.drawn + wake_in(store', line'.drawn) - clock'
    BY <1>1, <1>4, <1>7, <2>1 DEF left
  <2> QED
    BY <1>4, <1>6, <2>2, <2>3 DEF LineFresh
<1>10. lag' \in {None, 0}
  BY <1>2
<1>11. host' => LineStale'
  BY <1>1, <1>4, <1>6, <1>10 DEF LineStale
<1> QED
  BY <1>6, <1>8, <1>9, <1>10, <1>11

LEMMA TrayInitInv == TrayInit => TrayInv /\ PopupInv
<1> SUFFICES ASSUME TrayInit PROVE TrayInv /\ PopupInv
  OBVIOUS
<1>1. MaxTime \in Nat /\ Hour \in Nat \ {0} /\ MaxNews \in Nat
  BY TimesAssumption
<1>2. NoTimers \in Counts
  BY <1>1 DEF NoTimers, Counts
<1>3. PICK listed \in Found(store), awaited \in Found(store) :
        /\ line = tray_line(IF host THEN listed ELSE {}, 0)
        /\ timers = IF host THEN Armed(NoTimers, wake_in(awaited, 0)) ELSE NoTimers
        /\ lag = IF listed = store /\ awaited = store THEN None ELSE 0
  BY DEF TrayInit
<1>4. store \subseteq Meetings /\ clock = 0 /\ line.drawn = 0 /\ lag \in {None, 0}
  BY <1>3 DEF TrayInit, tray_line
<1> DEFINE left == wake_in(awaited, 0)
<1>5. left \in 1 .. Hour /\ left \in 0 .. Hour
  <2>1. awaited \in SUBSET Meetings
    BY <1>4 DEF Found
  <2> QED BY <1>1, <2>1, WakesInTime
<1>6. timers = IF host THEN [NoTimers EXCEPT ![left] = @ + 1] ELSE NoTimers
  BY <1>3 DEF Armed
<1> HIDE DEF left
<1>7. timers \in Counts /\ (host => timers[left] > 0)
  BY <1>1, <1>2, <1>5, <1>6 DEF Counts
<1>8. TrayTypeOK
  <2>1. /\ host \in BOOLEAN /\ news = 0 /\ silent = 0 /\ requests = <<>> /\ window = TRUE
        /\ popup = [visible |-> FALSE, active |-> FALSE, had_focus |-> FALSE,
                    held |-> FALSE, closed |-> FALSE]
    BY DEF TrayInit
  <2> QED
    BY <1>1, <1>4, <1>7, <2>1 DEF TrayTypeOK
<1>9. host => LineFresh
  <2> SUFFICES ASSUME host, lag = None PROVE LineFresh
    BY DEF LineFresh
  <2>1. listed = store /\ awaited = store
    BY <1>3 DEF None
  <2>2. line = tray_line(store, line.drawn)
    BY <1>3, <1>4, <2>1
  <2>3. left = line.drawn + wake_in(store, line.drawn) - clock
    BY <1>1, <1>4, <1>5, <2>1 DEF left
  <2> QED
    BY <1>4, <1>5, <1>7, <2>2, <2>3 DEF LineFresh
<1>10. host => LineStale
  BY <1>1, <1>4, <1>5, <1>7 DEF LineStale
<1>11. PopupInv
  BY DEF PopupInv, TrayInit
<1> QED
  BY <1>8, <1>9, <1>10, <1>11 DEF TrayInv

(* A moment awake: every timer comes nearer, and the line grows older. *)
LEMMA TickInv == TrayInv /\ Tick => TrayInv'
<1> SUFFICES ASSUME TrayInv, Tick PROVE TrayInv'
  OBVIOUS
<1>1. Hour \in Nat \ {0} /\ MaxTime \in Nat
  BY TimesAssumption
<1>2. /\ timers[0] = 0 /\ clock' = clock + 1 /\ clock < MaxTime
      /\ timers' = [left \in 0 .. Hour |-> IF left = Hour THEN 0 ELSE timers[left + 1]]
      /\ lag' = IF lag = None THEN None ELSE lag + 1
      /\ UNCHANGED <<store, host, line, news, silent, requests, window, popup>>
  BY DEF Tick, desk
<1>3. /\ clock \in Nat /\ timers \in Counts /\ line.drawn \in Nat
      /\ lag \in Nat \union {None}
  BY <1>1 DEF TrayInv, TrayTypeOK
<1>4. timers' \in Counts
  BY <1>1, <1>2, <1>3 DEF Counts
<1>5. lag' \in Nat \union {None} /\ (lag' = None <=> lag = None)
  BY <1>2, <1>3 DEF None
<1>6. TrayTypeOK'
  BY <1>1, <1>2, <1>3, <1>4, <1>5 DEF TrayInv, TrayTypeOK
<1>7. \A left \in 0 .. Hour : timers[left] > 0 =>
        left - 1 \in 0 .. Hour /\ timers'[left - 1] > 0
  BY <1>1, <1>2
<1>8. ASSUME host PROVE LineFresh'
  <2> SUFFICES ASSUME lag' = None
               PROVE  /\ line' = tray_line(store', line'.drawn)
                      /\ line'.drawn <= clock'
                      /\ \E left \in 0 .. Hour :
                           left = line'.drawn + wake_in(store', line'.drawn) - clock'
                           /\ timers'[left] > 0
    BY DEF LineFresh
  <2>1. /\ line = tray_line(store, line.drawn) /\ line.drawn <= clock
        /\ \E left \in 0 .. Hour :
             left = line.drawn + wake_in(store, line.drawn) - clock /\ timers[left] > 0
    BY <1>5, <1>8 DEF TrayInv, LineFresh
  <2>2. PICK left \in 0 .. Hour :
               left = line.drawn + wake_in(store, line.drawn) - clock /\ timers[left] > 0
    BY <2>1
  <2>3. wake_in(store, line.drawn) \in Nat
    <3>1. store \in SUBSET Meetings
      BY DEF TrayInv, TrayTypeOK
    <3>2. wake_in(store, line.drawn) \in 1 .. Hour
      BY <1>3, <3>1, WakesInTime
    <3> QED
      BY <1>1, <3>2
  <2>4. left - 1 = line'.drawn + wake_in(store', line'.drawn) - clock'
    BY <1>2, <1>3, <2>2, <2>3
  <2>5. left - 1 \in 0 .. Hour /\ timers'[left - 1] > 0
    BY <1>7, <2>2
  <2> QED
    BY <1>2, <1>3, <2>1, <2>4, <2>5
<1>9. ASSUME host PROVE LineStale'
  <2> SUFFICES ASSUME lag' # None
               PROVE  \E left \in 0 .. Hour : timers'[left] > 0 /\ lag' + left <= Hour
    BY DEF LineStale
  <2>1. PICK left \in 0 .. Hour : timers[left] > 0 /\ lag + left <= Hour
    BY <1>5, <1>9 DEF TrayInv, LineStale
  <2>2. lag' = lag + 1 /\ lag \in Nat
    BY <1>2, <1>3, <1>5
  <2>3. left - 1 \in 0 .. Hour /\ timers'[left - 1] > 0
    BY <1>7, <2>1
  <2> QED
    BY <2>1, <2>2, <2>3, <1>1
<1> QED
  BY <1>2, <1>6, <1>8, <1>9 DEF TrayInv

(* From the moment a line is no longer told, the timer it was drawn with   *)
(* bounds how long that lasts. *)
LEMMA BeginsToLag ==
  ASSUME TrayInv, timers' = timers, host' = host,
         lag' = IF lag = None THEN 0 ELSE lag
  PROVE  lag' \in Nat /\ (host' => LineFresh' /\ LineStale')
<1>1. Hour \in Nat \ {0}
  BY TimesAssumption
<1>2. lag' \in Nat /\ lag' # None
  BY DEF TrayInv, TrayTypeOK, None
<1>3. ASSUME host PROVE \E left \in 0 .. Hour : timers[left] > 0 /\ lag' + left <= Hour
  <2>1. CASE lag = None
    <3>1. PICK left \in 0 .. Hour : timers[left] > 0
      BY <1>3, <2>1 DEF TrayInv, LineFresh
    <3> QED
      BY <1>1, <2>1, <3>1
  <2>2. CASE lag # None
    BY <1>3, <2>2 DEF TrayInv, LineStale
  <2> QED
    BY <2>1, <2>2
<1> QED
  BY <1>2, <1>3 DEF LineFresh, LineStale

LEMMA SuspendInv == TrayInv /\ Suspend => TrayInv'
<1> SUFFICES ASSUME TrayInv, Suspend PROVE TrayInv'
  OBVIOUS
<1>1. /\ clock' \in clock + 1 .. MaxTime /\ lag' = IF lag = None THEN 0 ELSE lag
      /\ UNCHANGED <<store, host, line, timers, news, silent, requests, window, popup>>
  BY DEF Suspend, desk
<1>2. clock \in Nat /\ MaxTime \in Nat
  BY TimesAssumption DEF TrayInv, TrayTypeOK
<1>3. lag' \in Nat /\ (host' => LineFresh' /\ LineStale')
  BY <1>1, BeginsToLag
<1>4. TrayTypeOK'
  BY <1>1, <1>2, <1>3 DEF TrayInv, TrayTypeOK
<1> QED
  BY <1>3, <1>4 DEF TrayInv

LEMMA SilentlyInv == TrayInv /\ Silently => TrayInv'
<1> SUFFICES ASSUME TrayInv, Silently PROVE TrayInv'
  OBVIOUS
<1>1. /\ news + silent < MaxNews /\ silent' = silent + 1 /\ store' \subseteq Meetings
      /\ lag' = IF lag = None THEN 0 ELSE lag
      /\ UNCHANGED <<clock, host, line, timers, news, requests, window, popup>>
  BY DEF Silently, desk
<1>2. news \in Nat /\ silent \in Nat /\ MaxNews \in Nat
  BY TimesAssumption DEF TrayInv, TrayTypeOK
<1>3. lag' \in Nat /\ (host' => LineFresh' /\ LineStale')
  BY <1>1, BeginsToLag
<1>4. silent' \in Nat /\ news' + silent' <= MaxNews
  BY <1>1, <1>2
<1>5. TrayTypeOK'
  BY <1>1, <1>3, <1>4 DEF TrayInv, TrayTypeOK
<1> QED
  BY <1>3, <1>5 DEF TrayInv

LEMMA FireInv == TrayInv /\ Fire => TrayInv'
<1> SUFFICES ASSUME TrayInv, Fire PROVE TrayInv'
  OBVIOUS
<1> DEFINE armed == [timers EXCEPT ![0] = @ - 1]
<1>1. /\ timers[0] > 0 /\ refresh_tray(store, armed)
      /\ UNCHANGED <<clock, store, host, news, silent, requests, window, popup>>
  BY DEF Fire, desk
<1>2. TrayTypeOK /\ timers \in Counts /\ Hour \in Nat /\ store \subseteq Meetings
  BY TimesAssumption DEF TrayInv, TrayTypeOK
<1>3. armed \in Counts
  BY <1>1, <1>2 DEF Counts
<1> HIDE DEF armed
<1>4. store' \subseteq Meetings /\ refresh_tray(store', armed)
  BY <1>1, <1>2
<1>5. /\ timers' \in Counts /\ line'.drawn \in 0 .. MaxTime /\ lag' \in Nat \union {None}
      /\ host' => LineFresh' /\ LineStale'
  BY <1>1, <1>2, <1>3, <1>4, RefreshKeepsUp
<1>6. TrayTypeOK'
  BY <1>1, <1>2, <1>5 DEF TrayTypeOK
<1> QED
  BY <1>5, <1>6 DEF TrayInv

LEMMA PassInv == TrayInv /\ PassWithNews => TrayInv'
<1> SUFFICES ASSUME TrayInv, PassWithNews PROVE TrayInv'
  OBVIOUS
<1>1. /\ news + silent < MaxNews /\ news' = news + 1 /\ store' \subseteq Meetings
      /\ refresh_tray(store', timers)
      /\ UNCHANGED <<clock, host, silent, requests, window, popup>>
  BY DEF PassWithNews, desk
<1>2. TrayTypeOK /\ timers \in Counts /\ news \in Nat /\ silent \in Nat /\ MaxNews \in Nat
  BY TimesAssumption DEF TrayInv, TrayTypeOK
<1>3. /\ timers' \in Counts /\ line'.drawn \in 0 .. MaxTime /\ lag' \in Nat \union {None}
      /\ host' => LineFresh' /\ LineStale'
  BY <1>1, <1>2, RefreshKeepsUp
<1>4. news' \in Nat /\ news' + silent' <= MaxNews
  BY <1>1, <1>2
<1>5. TrayTypeOK'
  BY <1>1, <1>2, <1>3, <1>4 DEF TrayTypeOK
<1> QED
  BY <1>3, <1>5 DEF TrayInv

(* What the clicks and the popup do leaves the line alone. *)
DeskStep ==
  \/ Click \/ Pump \/ Activated \/ Deactivated \/ \E full \in BOOLEAN : Dismiss(full)

LEMMA DeskInv == TrayInv /\ (DeskStep \/ UNCHANGED trayVars) => TrayInv'
<1> SUFFICES ASSUME TrayInv, DeskStep \/ UNCHANGED trayVars PROVE TrayInv'
  OBVIOUS
<1>1. UNCHANGED <<clock, store, host, line, timers, news, silent, lag>>
  BY DEF DeskStep, Click, Pump, Activated, Deactivated, Dismiss, trayVars, tray
<1>2. TrayTypeOK /\ (host => LineFresh /\ LineStale)
  BY DEF TrayInv
<1>3. /\ requests' \in Seq({"ShowDay", "ToggleWindow"}) /\ window' \in BOOLEAN
      /\ popup' \in [visible : BOOLEAN, active : BOOLEAN, had_focus : BOOLEAN,
                     held : BOOLEAN, closed : BOOLEAN]
  <2>0. /\ requests \in Seq({"ShowDay", "ToggleWindow"}) /\ window \in BOOLEAN
        /\ popup \in [visible : BOOLEAN, active : BOOLEAN, had_focus : BOOLEAN,
                      held : BOOLEAN, closed : BOOLEAN]
    BY <1>2 DEF TrayTypeOK
  <2>1. CASE Click
    BY <2>0, <2>1 DEF Click
  <2>2. CASE Pump
    <3>1. requests' = <<>> /\ window' \in {window, ~window} /\ popup' \in {popup, Present(popup)}
      BY <2>2 DEF Pump
    <3>2. Present(popup) \in [visible : BOOLEAN, active : BOOLEAN, had_focus : BOOLEAN,
                              held : BOOLEAN, closed : BOOLEAN]
      BY <2>0 DEF Present
    <3>3. requests' \in Seq({"ShowDay", "ToggleWindow"})
      BY <3>1
    <3> QED
      BY <2>0, <3>1, <3>2, <3>3
  <2>3. CASE Activated
    BY <2>0, <2>3 DEF Activated
  <2>4. CASE Deactivated
    BY <2>0, <2>4 DEF Deactivated
  <2>5. CASE \E full \in BOOLEAN : Dismiss(full)
    BY <2>0, <2>5 DEF Dismiss
  <2>6. CASE UNCHANGED trayVars
    BY <2>0, <2>6 DEF trayVars, desk
  <2> QED
    BY <2>1, <2>2, <2>3, <2>4, <2>5, <2>6 DEF DeskStep
<1>4. TrayTypeOK'
  BY <1>1, <1>2, <1>3 DEF TrayTypeOK
<1>5. LineFresh' = LineFresh /\ LineStale' = LineStale
  BY <1>1 DEF LineFresh, LineStale
<1> QED
  BY <1>1, <1>2, <1>4, <1>5 DEF TrayInv

-----------------------------------------------------------------------------
(* What is on the popup. *)

LEMMA PopupStep == TrayTypeOK /\ PopupInv /\ [TrayNext]_trayVars => PopupInv'
<1> SUFFICES ASSUME TrayTypeOK, PopupInv, [TrayNext]_trayVars PROVE PopupInv'
  OBVIOUS
<1>0. popup \in [visible : BOOLEAN, active : BOOLEAN, had_focus : BOOLEAN,
                 held : BOOLEAN, closed : BOOLEAN]
  BY DEF TrayTypeOK
<1>1. CASE UNCHANGED popup
  BY <1>1 DEF PopupInv
<1>2. CASE Pump
  <2>1. popup' \in {popup, Present(popup)}
    BY <1>2 DEF Pump
  <2>2. CASE popup' = popup
    BY <2>2 DEF PopupInv
  <2>3. CASE popup' = Present(popup) /\ ~ popup.visible
    BY <1>0, <2>3 DEF Present, PopupInv
  <2>4. CASE popup' = Present(popup) /\ popup.visible
    BY <2>4 DEF Present, PopupInv
  <2> QED
    BY <2>1, <2>2, <2>3, <2>4
<1>3. CASE Activated
  BY <1>0, <1>3 DEF Activated, PopupInv
<1>4. CASE Deactivated
  BY <1>0, <1>4 DEF Deactivated, PopupInv
<1>5. CASE \E full \in BOOLEAN : Dismiss(full)
  BY <1>0, <1>5 DEF Dismiss, PopupInv
<1> QED
  BY <1>1, <1>2, <1>3, <1>4, <1>5
  DEF TrayNext, trayVars, desk, Tick, Suspend, Fire, PassWithNews, Silently, Click

LEMMA BlinkStep == TrayTypeOK /\ PopupInv /\ [TrayNext]_trayVars =>
                     (popup.visible /\ ~popup'.visible /\ ~popup.held => popup.closed)
<1> SUFFICES ASSUME TrayTypeOK, PopupInv, [TrayNext]_trayVars,
                    popup.visible, ~popup'.visible, ~popup.held
             PROVE  popup.closed
  OBVIOUS
<1>0. popup \in [visible : BOOLEAN, active : BOOLEAN, had_focus : BOOLEAN,
                 held : BOOLEAN, closed : BOOLEAN]
  BY DEF TrayTypeOK
<1>1. CASE UNCHANGED popup
  BY <1>1
<1>2. CASE Pump
  BY <1>2 DEF Pump, Present
<1>3. CASE Activated
  BY <1>0, <1>3 DEF Activated
<1>4. CASE Deactivated
  <2>1. popup.had_focus
    BY <1>0, <1>4 DEF Deactivated
  <2> QED
    BY <2>1 DEF PopupInv
<1>5. CASE \E full \in BOOLEAN : Dismiss(full)
  BY <1>5 DEF Dismiss, PopupInv
<1> QED
  BY <1>1, <1>2, <1>3, <1>4, <1>5
  DEF TrayNext, trayVars, desk, Tick, Suspend, Fire, PassWithNews, Silently, Click

-----------------------------------------------------------------------------
(* Chains of timers, counted: arming one adds a chain, running one takes   *)
(* one away, and a moment that passes only brings them nearer. *)

ChainsOf(armed) == UNION {{left} \X (1 .. armed[left]) : left \in 0 .. Hour}

LEMMA ChainsHas ==
  ASSUME NEW armed
  PROVE  /\ \A left \in 0 .. Hour : \A k \in 1 .. armed[left] : <<left, k>> \in ChainsOf(armed)
         /\ \A c \in ChainsOf(armed) :
              \E left \in 0 .. Hour : \E k \in 1 .. armed[left] : c = <<left, k>>
BY DEF ChainsOf

LEMMA ArmingAddsOne ==
  ASSUME NEW armed \in Counts, NEW left \in 0 .. Hour, IsFiniteSet(ChainsOf(armed))
  PROVE  /\ IsFiniteSet(ChainsOf(Armed(armed, left)))
         /\ Cardinality(ChainsOf(Armed(armed, left))) = Cardinality(ChainsOf(armed)) + 1
<1> DEFINE after == Armed(armed, left)
           new == <<left, armed[left] + 1>>
<1>1. /\ \A l \in 0 .. Hour : after[l] = IF l = left THEN armed[l] + 1 ELSE armed[l]
      /\ \A l \in 0 .. Hour : armed[l] \in Nat
  BY DEF Armed, Counts
<1> HIDE DEF after
<1>2. ChainsOf(after) \subseteq ChainsOf(armed) \union {new}
  <2> SUFFICES ASSUME NEW l \in 0 .. Hour, NEW k \in 1 .. after[l]
               PROVE  <<l, k>> \in ChainsOf(armed) \union {new}
    BY ChainsHas
  <2>1. CASE k \in 1 .. armed[l]
    BY <2>1, ChainsHas
  <2>2. CASE k \notin 1 .. armed[l]
    BY <1>1, <2>2
  <2> QED
    BY <2>1, <2>2
<1>3. ChainsOf(armed) \subseteq ChainsOf(after)
  <2> SUFFICES ASSUME NEW l \in 0 .. Hour, NEW k \in 1 .. armed[l]
               PROVE  <<l, k>> \in ChainsOf(after)
    BY ChainsHas
  <2>1. k \in 1 .. after[l]
    BY <1>1
  <2> QED
    BY <2>1, ChainsHas
<1>4. new \in ChainsOf(after)
  <2>1. armed[left] + 1 \in 1 .. after[left]
    BY <1>1
  <2> QED
    BY <2>1, ChainsHas
<1>5. new \notin ChainsOf(armed)
  <2> SUFFICES ASSUME NEW l \in 0 .. Hour, NEW k \in 1 .. armed[l], new = <<l, k>>
               PROVE  FALSE
    BY ChainsHas
  <2>1. l = left /\ k = armed[left] + 1
    OBVIOUS
  <2> QED
    BY <1>1, <2>1
<1>6. ChainsOf(after) = ChainsOf(armed) \union {new}
  BY <1>2, <1>3, <1>4
<1> QED
  BY <1>5, <1>6, FS_AddElement DEF after

LEMMA RunningTakesOne ==
  ASSUME NEW armed \in Counts, armed[0] > 0, IsFiniteSet(ChainsOf(armed)), Hour \in Nat
  PROVE  LET after == [armed EXCEPT ![0] = @ - 1]
         IN  /\ after \in Counts
             /\ IsFiniteSet(ChainsOf(after))
             /\ Cardinality(ChainsOf(after)) = Cardinality(ChainsOf(armed)) - 1
<1> DEFINE after == [armed EXCEPT ![0] = @ - 1]
           old == <<0, armed[0]>>
<1>0. after \in Counts
  BY DEF Counts
<1>1. /\ \A l \in 0 .. Hour : after[l] = IF l = 0 THEN armed[l] - 1 ELSE armed[l]
      /\ \A l \in 0 .. Hour : armed[l] \in Nat
  BY DEF Counts
<1> HIDE DEF after
<1>2. ChainsOf(after) \subseteq ChainsOf(armed) \ {old}
  <2> SUFFICES ASSUME NEW l \in 0 .. Hour, NEW k \in 1 .. after[l]
               PROVE  <<l, k>> \in ChainsOf(armed) /\ <<l, k>> # old
    BY ChainsHas
  <2>1. k \in 1 .. armed[l] /\ (l = 0 => k # armed[0])
    BY <1>1
  <2> QED
    BY <2>1, ChainsHas
<1>3. ChainsOf(armed) \ {old} \subseteq ChainsOf(after)
  <2> SUFFICES ASSUME NEW l \in 0 .. Hour, NEW k \in 1 .. armed[l], <<l, k>> # old
               PROVE  <<l, k>> \in ChainsOf(after)
    BY ChainsHas
  <2>1. k \in 1 .. after[l]
    BY <1>1
  <2> QED
    BY <2>1, ChainsHas
<1>4. old \in ChainsOf(armed)
  <2>1. armed[0] \in 1 .. armed[0] /\ 0 \in 0 .. Hour
    BY <1>1
  <2> QED
    BY <2>1, ChainsHas
<1>5. ChainsOf(after) = ChainsOf(armed) \ {old}
  BY <1>2, <1>3
<1>6. IsFiniteSet(ChainsOf(after)) /\ Cardinality(ChainsOf(after)) = Cardinality(ChainsOf(armed)) - 1
  BY <1>4, <1>5, FS_RemoveElement
<1> QED
  BY <1>0, <1>6 DEF after

LEMMA TimeKeepsThem ==
  ASSUME NEW armed \in Counts, armed[0] = 0, IsFiniteSet(ChainsOf(armed)),
         Hour \in Nat \ {0},
         NEW after, after = [left \in 0 .. Hour |-> IF left = Hour THEN 0 ELSE armed[left + 1]]
  PROVE  /\ IsFiniteSet(ChainsOf(after))
         /\ Cardinality(ChainsOf(after)) = Cardinality(ChainsOf(armed))
<1> DEFINE nearer == [c \in ChainsOf(armed) |-> <<c[1] - 1, c[2]>>]
<1>1. /\ \A l \in 0 .. Hour : armed[l] \in Nat
      /\ \A l \in 0 .. Hour : after[l] = IF l = Hour THEN 0 ELSE armed[l + 1]
  BY DEF Counts
<1>2. ASSUME NEW c \in ChainsOf(armed)
      PROVE  nearer[c] \in ChainsOf(after)
  <2>1. PICK l \in 0 .. Hour : \E k \in 1 .. armed[l] : c = <<l, k>>
    BY ChainsHas
  <2>2. PICK k \in 1 .. armed[l] : c = <<l, k>>
    BY <2>1
  <2>3. l # 0
    BY <1>1, <2>2
  <2>4. l - 1 \in 0 .. Hour /\ k \in 1 .. after[l - 1]
    BY <1>1, <2>3
  <2>5. nearer[c] = <<l - 1, k>>
    BY <2>2
  <2> QED
    BY <2>4, <2>5, ChainsHas
<1>3. ASSUME NEW c \in ChainsOf(armed), NEW d \in ChainsOf(armed), nearer[c] = nearer[d]
      PROVE  c = d
  <2>1. PICK l \in 0 .. Hour : \E k \in 1 .. armed[l] : c = <<l, k>>
    BY ChainsHas
  <2>2. PICK k \in 1 .. armed[l] : c = <<l, k>>
    BY <2>1
  <2>3. PICK m \in 0 .. Hour : \E j \in 1 .. armed[m] : d = <<m, j>>
    BY ChainsHas
  <2>4. PICK j \in 1 .. armed[m] : d = <<m, j>>
    BY <2>3
  <2>5. nearer[c] = <<l - 1, k>> /\ nearer[d] = <<m - 1, j>>
    BY <2>2, <2>4
  <2>6. l = m /\ k = j
    BY <1>3, <2>5
  <2> QED
    BY <2>2, <2>4, <2>6
<1>4. ASSUME NEW d \in ChainsOf(after)
      PROVE  \E c \in ChainsOf(armed) : nearer[c] = d
  <2>1. PICK l \in 0 .. Hour : \E k \in 1 .. after[l] : d = <<l, k>>
    BY ChainsHas
  <2>2. PICK k \in 1 .. after[l] : d = <<l, k>>
    BY <2>1
  <2>3. l # Hour
    BY <1>1, <2>2
  <2>4. l + 1 \in 0 .. Hour /\ k \in 1 .. armed[l + 1]
    BY <1>1, <2>3
  <2>5. <<l + 1, k>> \in ChainsOf(armed)
    BY <2>4, ChainsHas
  <2>6. nearer[<<l + 1, k>>] = <<l, k>>
    BY <2>5
  <2> QED
    BY <2>2, <2>5, <2>6
<1>5. nearer \in Bijection(ChainsOf(armed), ChainsOf(after))
  <2> HIDE DEF nearer
  <2>1. nearer \in [ChainsOf(armed) -> ChainsOf(after)]
    BY <1>2 DEF nearer
  <2> QED
    BY <2>1, <1>3, <1>4 DEF Bijection, Injection, Surjection, IsInjective
<1> QED
  BY <1>5, FS_Bijection DEF ExistsBijection

LEMMA RefreshAddsOne ==
  ASSUME TrayTypeOK, NEW armed \in Counts, NEW meetings \in SUBSET Meetings,
         refresh_tray(meetings, armed), IsFiniteSet(ChainsOf(armed))
  PROVE  IsFiniteSet(ChainsOf(timers')) /\ Cardinality(ChainsOf(timers')) = Cardinality(ChainsOf(armed)) + 1
<1>1. clock \in Nat /\ Hour \in Nat
  BY TimesAssumption DEF TrayTypeOK
<1>2. PICK awaited \in Found(meetings) : timers' = Armed(armed, wake_in(awaited, clock))
  BY DEF refresh_tray
<1>3. awaited \in SUBSET Meetings
  BY DEF Found
<1>4. wake_in(awaited, clock) \in 1 .. Hour
  BY <1>1, <1>3, WakesInTime
<1>5. wake_in(awaited, clock) \in 0 .. Hour
  BY <1>1, <1>4
<1> QED
  BY <1>2, <1>5, ArmingAddsOne

LEMMA ChainsInit == TrayInit => ChainInv
<1> SUFFICES ASSUME TrayInit PROVE ChainInv
  OBVIOUS
<1>1. Hour \in Nat \ {0}
  BY TimesAssumption
<1>2. NoTimers \in Counts /\ store \in SUBSET Meetings /\ news = 0 /\ host \in BOOLEAN
  BY DEF TrayInit, NoTimers, Counts
<1>3. ChainsOf(NoTimers) = {}
  BY <1>1 DEF ChainsOf, NoTimers
<1>4. IsFiniteSet(ChainsOf(NoTimers)) /\ Cardinality(ChainsOf(NoTimers)) = 0
  BY <1>3, FS_EmptySet
<1>5. Chains = ChainsOf(timers)
  BY DEF Chains, ChainsOf
<1>6. CASE ~ host
  BY <1>2, <1>4, <1>5, <1>6 DEF TrayInit, ChainInv, ChainsAreCounted
<1>7. CASE host
  <2>1. PICK awaited \in Found(store) : timers = Armed(NoTimers, wake_in(awaited, 0))
    BY <1>7 DEF TrayInit
  <2>2. wake_in(awaited, 0) \in 0 .. Hour
    BY <1>1, <1>2, WakesInTime DEF Found
  <2>3. IsFiniteSet(ChainsOf(timers)) /\ Cardinality(ChainsOf(timers)) = 0 + 1
    BY <1>2, <1>4, <2>1, <2>2, ArmingAddsOne
  <2> QED
    BY <1>2, <1>5, <1>7, <2>3 DEF ChainInv, ChainsAreCounted
<1> QED
  BY <1>2, <1>6, <1>7

LEMMA ChainsStep == TrayTypeOK /\ ChainInv /\ [TrayNext]_trayVars => ChainInv'
<1> SUFFICES ASSUME TrayTypeOK, ChainInv, [TrayNext]_trayVars PROVE ChainInv'
  OBVIOUS
<1>1. Hour \in Nat \ {0} /\ timers \in Counts /\ news \in Nat /\ store \in SUBSET Meetings
  BY TimesAssumption DEF TrayTypeOK
<1>2. Chains = ChainsOf(timers) /\ Chains' = ChainsOf(timers')
  BY DEF Chains, ChainsOf
<1>3. /\ IsFiniteSet(ChainsOf(timers))
      /\ Cardinality(ChainsOf(timers)) = (IF host THEN 1 ELSE 0) + news
  BY <1>2 DEF ChainInv, ChainsAreCounted
<1> SUFFICES /\ IsFiniteSet(ChainsOf(timers'))
             /\ Cardinality(ChainsOf(timers')) = (IF host' THEN 1 ELSE 0) + news'
  BY <1>2 DEF ChainInv, ChainsAreCounted
<1>4. CASE UNCHANGED <<timers, host, news>>
  BY <1>3, <1>4
<1>5. CASE Tick
  <2>1. /\ timers[0] = 0 /\ UNCHANGED <<host, news>>
        /\ timers' = [left \in 0 .. Hour |-> IF left = Hour THEN 0 ELSE timers[left + 1]]
    BY <1>5 DEF Tick
  <2> QED
    BY <1>1, <1>3, <2>1, TimeKeepsThem
<1>6. CASE Fire
  <2> DEFINE armed == [timers EXCEPT ![0] = @ - 1]
  <2>1. timers[0] > 0 /\ refresh_tray(store, armed) /\ UNCHANGED <<host, news>>
    BY <1>6 DEF Fire
  <2>2. /\ armed \in Counts /\ IsFiniteSet(ChainsOf(armed))
        /\ Cardinality(ChainsOf(armed)) = Cardinality(ChainsOf(timers)) - 1
    BY <1>1, <1>3, <2>1, RunningTakesOne
  <2> HIDE DEF armed
  <2>3. /\ IsFiniteSet(ChainsOf(timers'))
        /\ Cardinality(ChainsOf(timers')) = Cardinality(ChainsOf(armed)) + 1
    BY <1>1, <2>1, <2>2, RefreshAddsOne
  <2> QED
    BY <1>1, <1>3, <2>1, <2>2, <2>3
<1>7. CASE PassWithNews
  <2>1. /\ refresh_tray(store', timers) /\ store' \in SUBSET Meetings
        /\ news' = news + 1 /\ host' = host
    BY <1>7 DEF PassWithNews
  <2>2. /\ IsFiniteSet(ChainsOf(timers'))
        /\ Cardinality(ChainsOf(timers')) = Cardinality(ChainsOf(timers)) + 1
    BY <1>1, <1>3, <2>1, RefreshAddsOne
  <2> QED
    BY <1>1, <1>3, <2>1, <2>2
<1> QED
  BY <1>4, <1>5, <1>6, <1>7
  DEF TrayNext, trayVars, tray, Suspend, Silently, Click, Pump, Activated, Deactivated, Dismiss

-----------------------------------------------------------------------------
(* The theorems. *)

LEMMA TrayInductive == TraySpec => [](TrayInv /\ PopupInv)
<1>1. TrayInv /\ PopupInv /\ [TrayNext]_trayVars => (TrayInv /\ PopupInv)'
  <2> SUFFICES ASSUME TrayInv, PopupInv, [TrayNext]_trayVars PROVE TrayInv' /\ PopupInv'
    OBVIOUS
  <2>1. PopupInv'
    BY PopupStep DEF TrayInv
  <2>2. TrayInv'
    BY TickInv, SuspendInv, FireInv, PassInv, SilentlyInv, DeskInv DEF TrayNext, DeskStep
  <2> QED
    BY <2>1, <2>2
<1> QED
  BY <1>1, TrayInitInv, PTL DEF TraySpec

(* Every variable of the tray keeps its type. *)
THEOREM TrayTypeCorrect == TraySpec => []TrayTypeOK
<1>1. TrayInv => TrayTypeOK
  BY DEF TrayInv
<1> QED
  BY <1>1, TrayInductive, PTL

(* The line is never behind what it was told of and could read, whatever   *)
(* meetings there are and however the clock runs; and it never goes more   *)
(* than an hour awake without another look (refresh_tray, next_change).    *)
THEOREM LineIsKept == TraySpec => []LineKeepsUp
<1>1. TrayInv => LineKeepsUp
  <2> SUFFICES ASSUME TrayInv, host PROVE
                 /\ lag = None /\ timers[0] = 0 =>
                      /\ line.next = next_event(Seen(line.drawn), clock)
                      /\ line.words = describe(line.next, line.drawn)
                      /\ clock - line.drawn <= Hour
                 /\ lag <= Hour
    BY DEF LineKeepsUp
  <2>1. /\ TrayTypeOK /\ LineFresh /\ LineStale
        /\ Hour \in Nat \ {0} /\ MaxTime \in Nat
    BY TimesAssumption DEF TrayInv
  <2>2. /\ store \in SUBSET Meetings /\ clock \in Nat /\ line.drawn \in Nat
        /\ lag \in Nat \union {None}
    BY <2>1 DEF TrayTypeOK
  <2>3. lag <= Hour
    <3>1. CASE lag = None
      BY <2>1, <3>1 DEF None
    <3>2. CASE lag # None
      <4>1. PICK left \in 0 .. Hour : lag + left <= Hour
        BY <2>1, <3>2 DEF LineStale
      <4> QED
        BY <2>1, <2>2, <3>2, <4>1
    <3> QED
      BY <3>1, <3>2
  <2>4. ASSUME lag = None, timers[0] = 0
        PROVE  /\ line.next = next_event(Seen(line.drawn), clock)
               /\ line.words = describe(line.next, line.drawn)
               /\ clock - line.drawn <= Hour
    <3> DEFINE seen == Seen(line.drawn)
    <3>1. line = tray_line(store, line.drawn) /\ line.drawn <= clock
      BY <2>1, <2>4 DEF LineFresh
    <3>2. PICK left \in 0 .. Hour :
                 left = line.drawn + wake_in(store, line.drawn) - clock /\ timers[left] > 0
      BY <2>1, <2>4 DEF LineFresh
    <3>3. left # 0
      BY <2>4, <3>2
    <3>4. wake_in(store, line.drawn) \in 1 .. Hour
      BY <2>2, WakesInTime
    <3>5. \A m \in Timed(seen) : \A x \in {m.start, m.end} :
            x > line.drawn => line.drawn + wake_in(store, line.drawn) <= x
      BY <2>2, WakesInTime DEF Seen
    <3>6. clock < line.drawn + wake_in(store, line.drawn) /\ clock - line.drawn <= Hour
      BY <2>1, <2>2, <3>2, <3>3, <3>4
    <3>7. Timed(seen) \subseteq Meetings
      BY <2>2 DEF Timed, Seen, occurrences_in_window
    <3>8. \A m \in Timed(seen) : \A x \in {m.start, m.end} : x > line.drawn => x > clock
      <4> SUFFICES ASSUME NEW m \in Timed(seen), NEW x \in {m.start, m.end}, x > line.drawn
                   PROVE  x > clock
        OBVIOUS
      <4>1. x \in Nat
        BY <3>7, MeetingsAssumption
      <4>2. line.drawn + wake_in(store, line.drawn) <= x
        BY <3>5
      <4> QED
        BY <2>2, <3>4, <3>6, <4>1, <4>2
    <3> HIDE DEF seen
    <3>9. next_event(seen, clock) = next_event(seen, line.drawn)
      BY <2>2, <3>1, <3>7, <3>8, NothingPasses
    <3>10. /\ line.next = next_event(seen, line.drawn)
           /\ line.words = describe(line.next, line.drawn)
      BY <3>1 DEF tray_line, seen, Seen
    <3> QED
      BY <3>6, <3>9, <3>10 DEF seen
  <2> QED
    BY <2>3, <2>4
<1> QED
  BY <1>1, TrayInductive, PTL

(* One chain of timers for the start, if there was a tray, and one more    *)
(* for every pass with news: none ends (refresh_tray).                     *)
THEOREM EveryPassLeavesAChain == TraySpec => []ChainsAreCounted
<1>1. ChainInv => ChainsAreCounted
  BY DEF ChainInv
<1> QED
  BY <1>1, TrayTypeCorrect, ChainsInit, ChainsStep, PTL DEF TraySpec

(* The popup never vanishes before it was focused, but after a key or a    *)
(* button closed an earlier one (tray_day.rs, had_focus is not reset).     *)
THEOREM PopupBlinksOnlyOnceClosed == TraySpec => BlinksOnlyOnceClosed
<1>1. TrayInv => TrayTypeOK
  BY DEF TrayInv
<1> QED
  BY <1>1, TrayInductive, BlinkStep, PTL DEF TraySpec, BlinksOnlyOnceClosed
=============================================================================
