---------------------------- MODULE Views_proofs ----------------------------
(***************************************************************************)
(* Theorems about Views, for any dates, months, settings and days without  *)
(* a midnight: its types, that what is on the main window is what was read *)
(* for the dates it shows, that it falls behind the store only where the   *)
(* code says so, and that the popup comes up on today.                     *)
(***************************************************************************)
EXTENDS Views, TLAPS

(* The dates above the columns are those of the span around the focus:     *)
(* whatever moves the one or the other calls refresh.                      *)
Headed == main.head = Columns(main) /\ popup.head = Columns(popup)

IInv ==
  /\ TypeOK
  /\ Headed
  /\ WindowTruthful
  /\ WindowCurrent

-----------------------------------------------------------------------------
(* Dates. *)

LEMMA FirstOfMonthType ==
  ASSUME NEW date \in Date
  PROVE  FirstOfMonth(date) \in MonthStarts
  <1> DEFINE begun == {m \in MonthStarts : m <= date}
  <1>1. MonthStarts \subseteq Nat
    BY DateAssumption
  <1>2. PICK m \in begun : \A n \in begun : m >= n
    BY <1>1, DateAssumption, CalendarAssumption
  <1>3. Max(begun) \in begun
    BY <1>2 DEF Max
  <1> QED BY <1>3 DEF FirstOfMonth

LEMMA StartType ==
  ASSUME NEW w \in Week
  PROVE  /\ start(w) \in Date
         /\ Columns(w) \in Ranges
  <1>1. start(w) \in Date
    BY CalendarAssumption DEF start, start_for, Week
  <1>2. days(w.span) \in Nat
    BY DEF days, Week, Span
  <1> QED BY <1>1, <1>2, DateAssumption DEF Columns, Dates, Ranges

LEMMA AskedType ==
  ASSUME NEW w \in Week, NEW v \in View, today \in Today
  PROVE  Asked(w, v) \in Ranges
  <1>1. grid_start(start(w)) \in Date
    BY StartType, FirstOfMonthType, DateAssumption, CalendarAssumption DEF grid_start
  <1>2. Frame(w, v) \in Ranges
    BY <1>1, StartType, DateAssumption, LengthAssumption DEF Frame, View, Dates, Ranges
  <1> QED BY <1>2, StartType DEF Asked

-----------------------------------------------------------------------------
(* What the widget's methods make of it. *)

LEMMA Drawn ==
  ASSUME NEW w \in Week, NEW date \in Date, NEW s \in Span, NEW setting \in Setting,
         NEW g \in [range : Ranges, setting : Setting, current : BOOLEAN]
  PROVE  /\ [w EXCEPT !.focus = date] \in Week
         /\ [w EXCEPT !.span = s] \in Week
         /\ [w EXCEPT !.setting = setting] \in Week
         /\ [w EXCEPT !.items = g] \in Week
         /\ [w EXCEPT !.head = Columns(w)] \in Week
         /\ [w EXCEPT !.placed = Columns(w)] \in Week
  BY StartType DEF Week

LEMMA RefreshFacts ==
  ASSUME NEW w \in Week
  PROVE  /\ refresh(w) \in Week
         /\ refresh(w).head = Columns(refresh(w))
         /\ refresh(w).focus = w.focus /\ refresh(w).span = w.span
         /\ refresh(w).setting = w.setting /\ refresh(w).items = w.items
         /\ refresh(w).placed = w.placed
  <1>1. [w EXCEPT !.head = Columns(w)] \in Week
    BY StartType DEF Week
  <1> QED BY <1>1 DEF refresh, Week, Columns, start

LEMMA PlacedFacts ==
  ASSUME NEW w \in Week
  PROVE  /\ place_items(w) \in Week
         /\ place_items(w).placed = Columns(place_items(w))
         /\ place_items(w).focus = w.focus /\ place_items(w).span = w.span
         /\ place_items(w).setting = w.setting /\ place_items(w).items = w.items
         /\ place_items(w).head = w.head
  <1>1. [w EXCEPT !.placed = Columns(w)] \in Week
    BY StartType DEF Week
  <1> QED BY <1>1 DEF place_items, Week, Columns, start

LEMMA ItemsFacts ==
  ASSUME NEW w \in Week, NEW range \in Ranges, NEW setting \in Setting,
         NEW u, u = [w EXCEPT !.items = Given(range, setting)]
  PROVE  /\ u \in Week
         /\ u.items = Given(range, setting)
         /\ u.focus = w.focus /\ u.span = w.span /\ u.setting = w.setting
         /\ u.head = w.head /\ u.placed = w.placed
  <1>1. Given(range, setting) \in [range : Ranges, setting : Setting, current : BOOLEAN]
    BY DEF Given
  <1> QED BY <1>1 DEF Week

LEMMA RefreshedFacts ==
  ASSUME NEW w \in Week, NEW v \in View, today \in Today,
         w.head = Columns(w),
         NEW u, u = Refreshed(w, v)
  PROVE  /\ u \in Week
         /\ u.focus = w.focus /\ u.span = w.span /\ u.setting = w.setting
         /\ u.head = Columns(u)
         /\ Columns(u) = Columns(w) /\ start(u) = start(w)
         /\ HasMidnight(w.setting, start(w)) =>
              /\ u.items = Given(Asked(w, v), w.setting)
              /\ v = "grid" => u.placed = Columns(u)
  <1> DEFINE given == Given(Asked(w, v), w.setting)
             filled == [w EXCEPT !.items = given]
  <1>1. /\ filled \in Week /\ filled.items = given
        /\ filled.focus = w.focus /\ filled.span = w.span /\ filled.setting = w.setting
        /\ filled.head = w.head
    BY AskedType, ItemsFacts DEF Week
  <1>2. u = IF ~ HasMidnight(w.setting, start(w)) THEN w
            ELSE IF v = "grid" THEN place_items(filled) ELSE filled
    BY DEF Refreshed, set_items
  <1> HIDE DEF filled, given
  <1>3. CASE ~ HasMidnight(w.setting, start(w))
    BY <1>2, <1>3
  <1>4. CASE HasMidnight(w.setting, start(w)) /\ v = "grid"
    <2>1. u = place_items(filled)
      BY <1>2, <1>4
    <2>2. /\ u \in Week /\ u.items = given
          /\ u.focus = w.focus /\ u.span = w.span /\ u.setting = w.setting
          /\ u.head = w.head /\ u.placed = Columns(u)
      BY <1>1, <2>1, PlacedFacts
    <2>3. Columns(u) = Columns(w) /\ start(u) = start(w)
      BY <2>2 DEF Columns, start
    <2> QED BY <2>2, <2>3 DEF given
  <1>5. CASE HasMidnight(w.setting, start(w)) /\ v # "grid"
    <2>1. u = filled
      BY <1>2, <1>5
    <2>2. Columns(u) = Columns(w) /\ start(u) = start(w)
      BY <1>1, <2>1 DEF Columns, start
    <2> QED BY <1>1, <1>5, <2>1, <2>2 DEF given
  <1> QED BY <1>3, <1>4, <1>5

(* Whichever handler ends in refresh_week, the window is truthful after it.*)
LEMMA RefreshWeek ==
  ASSUME NEW w \in Week, NEW v \in View, today \in Today, today' = today,
         w.head = Columns(w),
         main' = Refreshed(w, v), view' = v
  PROVE  /\ main' \in Week
         /\ main'.head = Columns(main')
         /\ WindowTruthful'
         /\ WindowCurrent'
  <1>2. /\ main' \in Week
        /\ main'.focus = w.focus /\ main'.span = w.span /\ main'.setting = w.setting
        /\ main'.head = Columns(main')
        /\ Columns(main') = Columns(w) /\ start(main') = start(w)
        /\ HasMidnight(w.setting, start(w)) =>
             /\ main'.items = Given(Asked(w, v), w.setting)
             /\ v = "grid" => main'.placed = Columns(main')
    BY RefreshedFacts
  <1>3. WindowCurrent'
    BY <1>2 DEF WindowCurrent, Given
  <1>4. ASSUME HasMidnight(main'.setting, start(main'))
        PROVE  /\ v = "grid" => Truthful(main')
               /\ v = "month" => main'.items.range = Asked(main', "month") /\ main'.items.setting = main'.setting
               /\ v = "agenda" => Since(main)' /\ main'.items.setting = main'.setting
    <2>1. main'.items.range = Asked(w, v) /\ main'.items.setting = main'.setting
      BY <1>2, <1>4 DEF Given
    <2>2. CASE v = "grid"
      <3>1. Asked(w, v) = Columns(main')
        BY <1>2, <2>2 DEF Asked, Frame
      <3> QED BY <1>2, <1>4, <2>1, <2>2, <3>1 DEF Truthful
    <2>3. CASE v = "month"
      <3>1. Asked(w, v) = Asked(main', "month")
        BY <1>2, <2>3 DEF Asked, Frame
      <3> QED BY <2>1, <2>3, <3>1
    <2>4. CASE v = "agenda"
      <3>1. Asked(w, v) = IF HasMidnight(main'.setting, today) THEN Dates(today, Ahead)
                          ELSE Columns(main')
        BY <1>2, <2>4 DEF Asked, Frame, Dates
      <3>2. today \in Today' /\ today <= today'
        BY DateAssumption
      <3> QED BY <2>1, <2>4, <3>1, <3>2 DEF Since
    <2> QED BY <2>2, <2>3, <2>4 DEF View
  <1>5. WindowTruthful'
    <2>1. HasMidnight(main.setting, start(main))' <=> HasMidnight(main'.setting, start(main'))
      BY DEF HasMidnight, start
    <2>2. Truthful(main)' <=> Truthful(main')
      BY DEF Truthful, Columns, start
    <2>3. Asked(main, "month")' = Asked(main', "month")
      BY DEF Asked, Frame, HasMidnight, Columns, start
    <2> QED BY <1>4, <2>1, <2>2, <2>3 DEF WindowTruthful, View
  <1> QED BY <1>2, <1>3, <1>5

LEMMA OutdatedFacts ==
  ASSUME NEW w \in Week
  PROVE  /\ Outdated(w) \in Week
         /\ Outdated(w).focus = w.focus /\ Outdated(w).span = w.span
         /\ Outdated(w).setting = w.setting
         /\ Outdated(w).head = w.head /\ Outdated(w).placed = w.placed
         /\ Outdated(w).items.range = w.items.range
         /\ Outdated(w).items.setting = w.items.setting
         /\ Columns(Outdated(w)) = Columns(w) /\ start(Outdated(w)) = start(w)
  <1>1. [w EXCEPT !.items.current = FALSE] \in Week
    BY DEF Week
  <1> QED BY <1>1 DEF Outdated, Week, Columns, start

LEMMA TurnedFacts ==
  ASSUME NEW w \in Week, NEW date \in Date
  PROVE  /\ refresh([w EXCEPT !.focus = date]) \in Week
         /\ refresh([w EXCEPT !.focus = date]).head = Columns(refresh([w EXCEPT !.focus = date]))
         /\ refresh([w EXCEPT !.focus = date]).focus = date
         /\ refresh([w EXCEPT !.focus = date]).span = w.span
         /\ refresh([w EXCEPT !.focus = date]).setting = w.setting
  <1> DEFINE u == [w EXCEPT !.focus = date]
  <1>1. u \in Week /\ u.focus = date /\ u.span = w.span /\ u.setting = w.setting
    BY DEF Week
  <1> HIDE DEF u
  <1>2. /\ refresh(u) \in Week /\ refresh(u).head = Columns(refresh(u))
        /\ refresh(u).focus = date /\ refresh(u).span = w.span /\ refresh(u).setting = w.setting
    BY <1>1, RefreshFacts
  <1> QED BY <1>2 DEF u

LEMMA NewFacts ==
  ASSUME NEW s \in Span, NEW setting \in Setting, today \in Today
  PROVE  New(s, setting) \in Week /\ New(s, setting).head = Columns(New(s, setting))
         /\ New(s, setting).span = s /\ New(s, setting).setting = setting
  <1> DEFINE columns == Dates(start_for(s, today), days(s))
  <1>1. today \in Date /\ 0 \in Nat
    BY DateAssumption
  <1>2. start_for(s, today) \in Nat /\ days(s) \in Nat
    <2>1. today \in Nat /\ monday_of(today) \in Nat
      BY <1>1, DateAssumption, CalendarAssumption
    <2>2. start_for(s, today) \in Nat
      BY <2>1 DEF start_for
    <2>3. days(s) \in Nat
      BY DEF days, Span
    <2> QED BY <2>2, <2>3
  <1>3. columns \in Ranges
    BY <1>2 DEF Dates, Ranges
  <1>4. NothingGiven(setting) \in [range : Ranges, setting : Setting, current : BOOLEAN]
    BY DEF NothingGiven, Given, Dates, Ranges
  <1>5. New(s, setting) = [focus |-> today, span |-> s, setting |-> setting,
                           head |-> columns, placed |-> columns, items |-> NothingGiven(setting)]
    BY DEF New
  <1> HIDE DEF columns
  <1>6. New(s, setting) \in Week
    BY <1>1, <1>3, <1>4, <1>5 DEF Week
  <1>7. Columns(New(s, setting)) = columns
    BY <1>5 DEF Columns, start, columns
  <1> QED BY <1>5, <1>6, <1>7

-----------------------------------------------------------------------------
(* The main loop's handlers: those that end in refresh_week, and those that*)
(* leave the main window what it is.                                       *)

LEMMA Redrawn ==
  ASSUME IInv, NEW w \in Week, NEW v \in View, w.head = Columns(w),
         main' = Refreshed(w, v), view' = v,
         uncounted' \in BOOLEAN,
         UNCHANGED <<today, exists, visible>>, popup' \in {popup, Outdated(popup)},
         syncing' \in BOOLEAN, counted' \in BOOLEAN, counted' => syncing', untold' \in Nat
  PROVE  IInv'
  <1>1. today \in Today /\ popup \in Week /\ popup.span = "day"
        /\ popup.head = Columns(popup)
    BY DEF IInv, TypeOK, Headed
  <1>2. /\ main' \in Week
        /\ main'.head = Columns(main') /\ WindowTruthful' /\ WindowCurrent'
    BY <1>1, RefreshWeek
  <1>3. popup' \in Week /\ popup'.span = "day" /\ popup'.head = Columns(popup')
    BY <1>1, OutdatedFacts
  <1>4. TypeOK'
    BY <1>2, <1>3 DEF IInv, TypeOK
  <1>5. Headed'
    BY <1>2, <1>3 DEF Headed, Columns, start
  <1> QED BY <1>2, <1>4, <1>5 DEF IInv

LEMMA LeftAlone ==
  ASSUME IInv, UNCHANGED <<main, view>>, today' \in Today, today <= today',
         popup' \in Week, popup'.span = "day", popup'.head = Columns(popup'),
         exists' \in BOOLEAN, visible' \in BOOLEAN, visible' => exists',
         syncing' \in BOOLEAN, counted' \in BOOLEAN, counted' => syncing',
         uncounted' = uncounted, untold' = untold,
         syncing /\ counted => syncing' /\ counted'
  PROVE  IInv'
  <1>1. TypeOK' /\ Headed' /\ WindowCurrent'
    BY DEF IInv, TypeOK, Headed, WindowCurrent, Columns, start, HasMidnight
  <1>2. Since(main) => Since(main)'
    BY DateAssumption DEF Since, Columns, start, HasMidnight, IInv, TypeOK
  <1>3. Asked(main, "month")' = Asked(main, "month")
    BY DEF Asked, Frame, Columns, start, HasMidnight
  <1>4. Truthful(main) => Truthful(main)'
    BY DEF Truthful, Columns, start
  <1>5. WindowTruthful'
    BY <1>2, <1>3, <1>4 DEF IInv, TypeOK, View, WindowTruthful, HasMidnight, start
  <1> QED BY <1>1, <1>5 DEF IInv

LEMMA TurnInv ==
  ASSUME IInv, NEW n \in {-1, 1}, Turn(n)
  PROVE  IInv'
  <1>1. main \in Week /\ view \in View /\ (counted => syncing) /\ {syncing, counted} \subseteq BOOLEAN
        /\ untold \in Nat
    BY DEF IInv, TypeOK
  <1>2. shift(main, n) \in Week /\ shift(main, n).head = Columns(shift(main, n))
    BY <1>1, TurnedFacts DEF Turn, shift
  <1>3. /\ main' = Refreshed(shift(main, n), view) /\ view' = view /\ uncounted' \in BOOLEAN
        /\ UNCHANGED <<today, exists, visible, syncing, counted, untold, popup>>
    BY DEF Turn, refresh_week, Elsewhere
  <1> QED BY <1>1, <1>2, <1>3, Redrawn

LEMMA GoToTodayInv ==
  ASSUME IInv, GoToToday
  PROVE  IInv'
  <1>1. /\ main \in Week /\ view \in View /\ (counted => syncing) /\ {syncing, counted} \subseteq BOOLEAN
        /\ untold \in Nat
        /\ today \in Date
    BY DateAssumption DEF IInv, TypeOK
  <1>2. go_to_today(main) \in Week /\ go_to_today(main).head = Columns(go_to_today(main))
    BY <1>1, TurnedFacts DEF go_to_today
  <1>3. /\ main' = Refreshed(go_to_today(main), view) /\ view' = view /\ uncounted' \in BOOLEAN
        /\ UNCHANGED <<today, exists, visible, syncing, counted, untold, popup>>
    BY DEF GoToToday, refresh_week, Elsewhere
  <1> QED BY <1>1, <1>2, <1>3, Redrawn

LEMMA ComesUpFacts ==
  ASSUME IInv, NEW v \in View
  PROVE  ComesUp(main, v) \in Week /\ ComesUp(main, v).head = Columns(ComesUp(main, v))
  <1>1. main \in Week /\ main.head = Columns(main)
    BY DEF IInv, TypeOK, Headed
  <1>2. NothingGiven(main.setting) \in [range : Ranges, setting : Setting, current : BOOLEAN]
    BY <1>1 DEF NothingGiven, Given, Dates, Ranges, Week
  <1>3. [main EXCEPT !.items = NothingGiven(main.setting)] \in Week
    BY <1>1, <1>2 DEF Week
  <1> QED BY <1>1, <1>3 DEF ComesUp, Week, Columns, start

LEMMA ChooseSpanInv ==
  ASSUME IInv, NEW s \in Span, ChooseSpan(s)
  PROVE  IInv'
  <1> DEFINE w == set_span(ComesUp(main, "grid"), s)
  <1>1. "grid" \in View /\ (counted => syncing) /\ {syncing, counted} \subseteq BOOLEAN
        /\ untold \in Nat
    BY DEF IInv, TypeOK, View
  <1>2. [ComesUp(main, "grid") EXCEPT !.span = s] \in Week
    BY <1>1, ComesUpFacts DEF Week
  <1>3. w \in Week /\ w.head = Columns(w)
    BY <1>2, RefreshFacts DEF set_span
  <1>4. /\ main' = Refreshed(w, "grid") /\ view' = "grid" /\ uncounted' \in BOOLEAN
        /\ UNCHANGED <<today, exists, visible, syncing, counted, untold, popup>>
    BY DEF ChooseSpan, refresh_week, Elsewhere
  <1> HIDE DEF w
  <1> QED BY <1>1, <1>3, <1>4, Redrawn

LEMMA ChooseListInv ==
  ASSUME IInv, NEW v \in View, ChooseList(v)
  PROVE  IInv'
  <1>1. (counted => syncing) /\ {syncing, counted} \subseteq BOOLEAN
        /\ untold \in Nat
    BY DEF IInv, TypeOK
  <1>2. /\ main' = Refreshed(ComesUp(main, v), v) /\ view' = v /\ uncounted' \in BOOLEAN
        /\ UNCHANGED <<today, exists, visible, syncing, counted, untold, popup>>
    BY DEF ChooseList, refresh_week, Elsewhere
  <1> QED BY <1>1, <1>2, ComesUpFacts, Redrawn

LEMMA ApplySettingInv ==
  ASSUME IInv, NEW setting \in Setting, ApplySetting(setting)
  PROVE  IInv'
  <1> DEFINE w == set_setting(main, setting)
  <1>1. main \in Week /\ view \in View /\ (counted => syncing) /\ {syncing, counted} \subseteq BOOLEAN
        /\ untold \in Nat
    BY DEF IInv, TypeOK
  <1>2. [main EXCEPT !.setting = setting] \in Week
    BY <1>1 DEF Week
  <1>3. w \in Week /\ w.head = Columns(w)
    BY <1>2, PlacedFacts, RefreshFacts DEF set_setting
  <1>4. /\ main' = Refreshed(w, view) /\ view' = view /\ uncounted' \in BOOLEAN
        /\ UNCHANGED <<today, exists, visible, syncing, counted, untold, popup>>
    BY DEF ApplySetting, refresh_week, Elsewhere
  <1> HIDE DEF w
  <1> QED BY <1>1, <1>3, <1>4, Redrawn

LEMMA ApplyInv ==
  ASSUME IInv, Apply
  PROVE  IInv'
  <1>1. /\ main \in Week /\ view \in View /\ (counted => syncing) /\ {syncing, counted} \subseteq BOOLEAN
        /\ untold \in Nat
        /\ main.head = Columns(main)
    BY DEF IInv, TypeOK, Headed
  <1>2. Outdated(main) \in Week /\ Outdated(main).head = Columns(Outdated(main))
    BY <1>1, OutdatedFacts
  <1>3. /\ main' = Refreshed(Outdated(main), view) /\ view' = view /\ uncounted' \in BOOLEAN
        /\ UNCHANGED <<today, exists, visible, syncing, counted, untold>>
        /\ popup' = Outdated(popup)
    BY DEF Apply, refresh_week, Elsewhere
  <1> QED BY <1>1, <1>2, <1>3, Redrawn

(* A write to the store that draws nothing: the range and the setting of   *)
(* what was read stay.                                                     *)
LEMMA WrittenInv ==
  ASSUME IInv, \/ ApplyFails \/ ConnectWrites \/ ConnectFails
               \/ \E counts \in BOOLEAN : PassWrites(counts)
  PROVE  IInv'
  <1>1. /\ main' = Outdated(main) /\ popup' = Outdated(popup)
        /\ UNCHANGED <<view, today, exists, visible, syncing>>
        /\ uncounted' \in BOOLEAN /\ counted' \in BOOLEAN
        /\ counted' => syncing'
        /\ untold' \in Nat
        /\ uncounted' \/ (syncing' /\ counted') \/ untold' > 0
    <2>1. {syncing, counted, uncounted} \subseteq BOOLEAN /\ (counted => syncing) /\ untold \in Nat
      BY DEF IInv, TypeOK
    <2>2. CASE ApplyFails
      BY <2>1, <2>2 DEF ApplyFails, Elsewhere
    <2>3. ASSUME NEW counts \in BOOLEAN, PassWrites(counts)
          PROVE  /\ main' = Outdated(main) /\ popup' = Outdated(popup)
                 /\ UNCHANGED <<view, today, exists, visible, syncing>>
                 /\ uncounted' \in BOOLEAN /\ counted' \in BOOLEAN
                 /\ counted' => syncing'
                 /\ untold' \in Nat
                 /\ uncounted' \/ (syncing' /\ counted') \/ untold' > 0
      <3>1. /\ main' = Outdated(main) /\ popup' = Outdated(popup)
            /\ UNCHANGED <<view, today, exists, visible, syncing, untold>>
            /\ syncing
        BY <2>3 DEF PassWrites
      <3>2. counted' = (counted \/ counts) /\ uncounted' = (uncounted \/ ~ counts)
        BY <2>3 DEF PassWrites
      <3>3. counted' \in BOOLEAN /\ uncounted' \in BOOLEAN /\ (uncounted' \/ counted')
        BY <2>1, <3>2
      <3> QED BY <2>1, <3>1, <3>3
    <2>4. CASE ConnectWrites
      BY <2>1, <2>4 DEF ConnectWrites
    <2>5. CASE ConnectFails
      BY <2>1, <2>5 DEF ConnectFails
    <2> QED BY <2>2, <2>3, <2>4, <2>5
  <1>2. /\ main \in Week /\ popup \in Week
        /\ main.head = Columns(main) /\ popup.head = Columns(popup)
    BY DEF IInv, TypeOK, Headed
  <1>3. /\ main' \in Week /\ main'.focus = main.focus /\ main'.span = main.span
        /\ main'.setting = main.setting /\ main'.head = main.head /\ main'.placed = main.placed
        /\ main'.items.range = main.items.range /\ main'.items.setting = main.items.setting
        /\ Columns(main') = Columns(main) /\ start(main') = start(main)
    BY <1>1, <1>2, OutdatedFacts
  <1>4. popup' \in Week /\ popup'.span = popup.span /\ popup'.head = Columns(popup')
    BY <1>1, <1>2, OutdatedFacts
  <1>5. TypeOK' /\ Headed' /\ WindowCurrent'
    BY <1>1, <1>2, <1>3, <1>4 DEF IInv, TypeOK, Headed, WindowCurrent, Columns, start
  <1>6. /\ HasMidnight(main.setting, start(main))' <=> HasMidnight(main.setting, start(main))
        /\ Truthful(main) => Truthful(main)'
        /\ Since(main) => Since(main)'
    BY <1>1, <1>3 DEF HasMidnight, Truthful, Since, Columns, start
  <1>7. Asked(main, "month")' = Asked(main, "month")
    BY <1>3 DEF Asked, Frame, HasMidnight, Columns, start
  <1>8. WindowTruthful'
    BY <1>1, <1>3, <1>6, <1>7 DEF IInv, TypeOK, View, WindowTruthful
  <1> QED BY <1>5, <1>8 DEF IInv

(* The callback of a connect, which starts a pass after it has redrawn.    *)
LEMMA ConnectToldInv ==
  ASSUME IInv, ConnectTold
  PROVE  IInv'
  <1>1. /\ main \in Week /\ view \in View /\ main.head = Columns(main)
        /\ counted \in BOOLEAN /\ untold \in Nat
    BY DEF IInv, TypeOK, Headed
  <1>2. /\ main' = Refreshed(main, view) /\ view' = view /\ uncounted' \in BOOLEAN
        /\ UNCHANGED <<today, popup, exists, visible, counted>>
        /\ syncing' = TRUE
    BY DEF ConnectTold, refresh_week
  <1>3. untold' \in Nat
    BY <1>1 DEF ConnectTold
  <1> QED BY <1>1, <1>2, <1>3, Redrawn

LEMMA PassInv ==
  ASSUME IInv, BeginPass \/ \E others \in BOOLEAN : EndPass(others)
  PROVE  IInv'
  <1>1. /\ main \in Week /\ view \in View /\ today \in Today /\ popup \in Week
        /\ popup.span = "day" /\ main.head = Columns(main) /\ popup.head = Columns(popup)
        /\ today <= today /\ {exists, visible} \subseteq BOOLEAN /\ (visible => exists)
        /\ untold \in Nat
    BY DateAssumption DEF IInv, TypeOK, Headed
  <1>2. CASE BeginPass
    BY <1>1, <1>2, LeftAlone DEF BeginPass
  <1>3. ASSUME NEW others \in BOOLEAN, EndPass(others)
        PROVE  IInv'
    <2>1. /\ UNCHANGED <<today, popup, exists, visible, untold>>
          /\ syncing' = FALSE /\ counted' = FALSE
      BY <1>3 DEF EndPass
    <2>2. CASE HasNews(others)
      <3>1. main' = Refreshed(main, view) /\ view' = view /\ uncounted' \in BOOLEAN
        BY <1>3, <2>2 DEF EndPass, refresh_week
      <3> QED BY <1>1, <2>1, <3>1, Redrawn
    <2>3. CASE ~ HasNews(others)
      <3>1. UNCHANGED <<main, view, uncounted>> /\ ~ counted
        BY <1>3, <2>3 DEF EndPass, HasNews
      <3> QED BY <1>1, <2>1, <3>1, LeftAlone
    <2> QED BY <2>2, <2>3
  <1> QED BY <1>2, <1>3

-----------------------------------------------------------------------------
(* The popup. *)

LEMMA PopupOpens ==
  ASSUME IInv, ShowDay
  PROVE  /\ popup' \in Week /\ popup'.span = "day" /\ popup'.head = Columns(popup')
         /\ popup'.focus = today
         /\ HasMidnight(popup'.setting, today) => Truthful(popup') /\ popup'.items.current
  <1>1. popup \in Week /\ popup.span = "day" /\ main \in Week /\ today \in Today /\ today \in Date
    BY DateAssumption DEF IInv, TypeOK
  <1>2. PICK w \in Week : w.span = "day" /\ popup' = Opened(w)
    BY <1>1, NewFacts DEF ShowDay, Week, Span
  <1>3. PICK u \in Week : /\ u = go_to_today(w) /\ u.focus = today /\ u.span = "day"
                          /\ u.setting = w.setting /\ u.head = Columns(u)
    BY <1>1, <1>2, TurnedFacts DEF go_to_today
  <1>4. CASE ~ HasMidnight(w.setting, today)
    BY <1>2, <1>3, <1>4 DEF Opened
  <1>5. CASE HasMidnight(w.setting, today)
    <2>1. Dates(today, 1) \in Ranges /\ Dates(today, 1) = Columns(u)
      BY <1>1, <1>3, DateAssumption DEF Dates, Ranges, Columns, start, start_for, days
    <2>0. w.setting \in Setting
      BY DEF Week
    <2> DEFINE f == [u EXCEPT !.items = Given(Dates(today, 1), w.setting)]
    <2>2. /\ f \in Week /\ f.items = Given(Dates(today, 1), w.setting)
          /\ f.focus = u.focus /\ f.span = u.span /\ f.setting = u.setting
          /\ f.head = u.head
      BY <2>0, <2>1, ItemsFacts
    <2>3. popup' = place_items(f)
      BY <1>2, <1>3, <1>5 DEF Opened, set_items
    <2> HIDE DEF f
    <2>4. /\ popup' \in Week /\ popup'.items = f.items /\ popup'.focus = f.focus
          /\ popup'.span = f.span /\ popup'.setting = f.setting /\ popup'.head = f.head
          /\ popup'.placed = Columns(popup')
      <3>1. PICK g \in Week : /\ g = place_items(f) /\ g.placed = Columns(g)
                              /\ g.items = f.items /\ g.focus = f.focus /\ g.span = f.span
                              /\ g.setting = f.setting /\ g.head = f.head
        BY <2>2, PlacedFacts
      <3> QED BY <2>3, <3>1
    <2>5. Columns(popup') = Columns(u)
      BY <2>2, <2>4 DEF Columns, start
    <2> QED BY <1>3, <2>1, <2>2, <2>4, <2>5 DEF Truthful, Given
  <1> QED BY <1>4, <1>5

LEMMA PopupInv ==
  ASSUME IInv, \/ ShowDay \/ PopupToday \/ HideDay
               \/ \E n \in {-1, 1} : PopupTurn(n)
  PROVE  IInv'
  <1>1. /\ popup \in Week /\ popup.span = "day" /\ popup.head = Columns(popup)
        /\ today \in Today /\ today \in Date /\ today <= today
        /\ {exists, visible, syncing, counted} \subseteq BOOLEAN
        /\ visible => exists
        /\ counted => syncing
    BY DateAssumption DEF IInv, TypeOK, Headed
  <1>2. CASE ShowDay
    BY <1>1, <1>2, PopupOpens, LeftAlone DEF ShowDay
  <1>3. CASE PopupToday
    <2>1. popup' \in Week /\ popup'.span = "day" /\ popup'.head = Columns(popup')
      BY <1>1, <1>3, TurnedFacts DEF PopupToday, go_to_today
    <2> QED BY <1>1, <1>3, <2>1, LeftAlone DEF PopupToday, Elsewhere
  <1>4. CASE HideDay
    BY <1>1, <1>4, LeftAlone DEF HideDay
  <1>5. ASSUME NEW n \in {-1, 1}, PopupTurn(n)
        PROVE  IInv'
    <2>1. popup.focus + n * step(popup.span) \in Date
      BY <1>1, <1>5 DEF PopupTurn, step
    <2>2. popup' \in Week /\ popup'.span = "day" /\ popup'.head = Columns(popup')
      BY <1>1, <1>5, <2>1, TurnedFacts DEF PopupTurn, shift
    <2> QED BY <1>1, <1>5, <2>2, LeftAlone DEF PopupTurn, Elsewhere
  <1> QED BY <1>2, <1>3, <1>4, <1>5

(* A resized Week places what it holds where it was.                       *)
LEMMA ResizeInv ==
  ASSUME IInv, Resize
  PROVE  IInv'
  <1>1. /\ main \in Week /\ popup \in Week /\ main.head = Columns(main)
        /\ popup.head = Columns(popup)
    BY DEF IInv, TypeOK, Headed
  <1>2. ASSUME NEW w \in Week
        PROVE  /\ place_items(w) \in Week /\ Columns(place_items(w)) = Columns(w)
               /\ start(place_items(w)) = start(w)
               /\ place_items(w).placed = Columns(w)
    BY PlacedFacts DEF Columns, start
  <1>3. UNCHANGED <<view, uncounted, today, exists, visible, syncing, counted, untold>>
    BY DEF Resize, Elsewhere
  <1>4. /\ main' \in Week /\ main'.focus = main.focus /\ main'.span = main.span
        /\ main'.setting = main.setting /\ main'.head = main.head /\ main'.items = main.items
        /\ main'.placed = main.placed \/ main'.placed = Columns(main)
        /\ Columns(main') = Columns(main) /\ start(main') = start(main)
    BY <1>1, <1>2, PlacedFacts DEF Resize
  <1>5. popup' \in Week /\ popup'.span = popup.span /\ popup'.head = Columns(popup')
    BY <1>1, <1>2, PlacedFacts DEF Resize
  <1>6. TypeOK' /\ Headed' /\ WindowCurrent'
    BY <1>1, <1>3, <1>4, <1>5 DEF IInv, TypeOK, Headed, WindowCurrent, Columns, start, HasMidnight
  <1>7. /\ HasMidnight(main.setting, start(main))' <=> HasMidnight(main.setting, start(main))
        /\ Truthful(main) => Truthful(main)'
        /\ Since(main) => Since(main)'
    BY <1>3, <1>4 DEF HasMidnight, Truthful, Since, Columns, start
  <1>8. Asked(main, "month")' = Asked(main, "month")
    BY <1>4 DEF Asked, Frame, HasMidnight, Columns, start
  <1>9. WindowTruthful'
    BY <1>3, <1>4, <1>7, <1>8 DEF IInv, TypeOK, View, WindowTruthful
  <1> QED BY <1>6, <1>9 DEF IInv

LEMMA DayTurnsInv ==
  ASSUME IInv, DayTurns
  PROVE  IInv'
  <1>1. today' \in Today /\ today <= today'
    BY DateAssumption DEF DayTurns, IInv, TypeOK
  <1> QED BY <1>1, LeftAlone DEF DayTurns, IInv, TypeOK, Headed

-----------------------------------------------------------------------------
LEMMA InitInv == Init => IInv
  <1> SUFFICES ASSUME Init
               PROVE  IInv
    OBVIOUS
  <1>1. PICK s \in Span, setting \in Setting :
          main = Refreshed(New(s, setting), view) /\ popup = New("day", setting)
    BY DEF Init, Span
  <1>2. today \in Today /\ view \in View /\ "day" \in Span
    BY DEF Init, Span
  <1>3. PICK w \in Week : w = New(s, setting) /\ w.head = Columns(w)
    BY <1>2, NewFacts
  <1>4. /\ main \in Week /\ main.head = Columns(main)
        /\ Columns(main) = Columns(w) /\ start(main) = start(w) /\ main.setting = w.setting
        /\ HasMidnight(w.setting, start(w)) =>
             /\ main.items = Given(Asked(w, view), w.setting)
             /\ view = "grid" => main.placed = Columns(main)
    BY <1>1, <1>2, <1>3, RefreshedFacts
  <1>5. popup \in Week /\ popup.span = "day" /\ popup.head = Columns(popup)
    BY <1>1, <1>2, NewFacts
  <1>6. TypeOK /\ Headed
    BY <1>2, <1>4, <1>5 DEF Init, TypeOK, Headed
  <1>7. WindowCurrent
    BY <1>4 DEF WindowCurrent, Given
  <1>8. ASSUME HasMidnight(main.setting, start(main))
        PROVE  /\ view = "grid" => Truthful(main)
               /\ view = "month" => main.items.range = Asked(main, "month")
               /\ view = "agenda" => Since(main)
               /\ main.items.setting = main.setting
    <2>1. main.items.range = Asked(w, view) /\ main.items.setting = main.setting
      BY <1>4, <1>8 DEF Given
    <2>2. CASE view = "grid"
      BY <1>4, <1>8, <2>1, <2>2 DEF Asked, Frame, Truthful
    <2>3. CASE view = "month"
      BY <1>4, <2>1, <2>3 DEF Asked, Frame
    <2>4. CASE view = "agenda"
      <3>1. Asked(w, view) = IF HasMidnight(main.setting, today) THEN Dates(today, Ahead)
                             ELSE Columns(main)
        BY <1>4, <2>4 DEF Asked, Frame, Dates
      <3>2. today <= today
        BY <1>2, DateAssumption
      <3> QED BY <1>2, <2>1, <2>4, <3>1, <3>2 DEF Since
    <2> QED BY <1>2, <2>1, <2>2, <2>3, <2>4 DEF View
  <1>9. WindowTruthful
    BY <1>2, <1>8 DEF WindowTruthful, View
  <1> QED BY <1>6, <1>7, <1>9 DEF IInv

LEMMA NextInv ==
  ASSUME IInv, [Next]_vars
  PROVE  IInv'
  <1>1. CASE UNCHANGED vars
    <2>1. UNCHANGED <<main, view, today, popup, exists, visible, syncing, counted, untold, uncounted>>
      BY <1>1 DEF vars
    <2> QED BY <2>1, LeftAlone, DateAssumption DEF IInv, TypeOK, Headed
  <1>2. CASE \E n \in {-1, 1} : Turn(n) \/ PopupTurn(n)
    BY <1>2, TurnInv, PopupInv
  <1>3. CASE GoToToday \/ \E s \in Span : ChooseSpan(s)
    BY <1>3, GoToTodayInv, ChooseSpanInv
  <1>4. CASE \/ \E v \in View \ {"grid"} : ChooseList(v)
             \/ \E setting \in Setting : ApplySetting(setting)
    BY <1>4, ChooseListInv, ApplySettingInv
  <1>5. CASE Apply \/ ApplyFails \/ BeginPass \/ ConnectWrites \/ ConnectTold \/ ConnectFails
    BY <1>5, ApplyInv, WrittenInv, ConnectToldInv, PassInv
  <1>6. CASE \E b \in BOOLEAN : PassWrites(b) \/ EndPass(b)
    BY <1>6, WrittenInv, PassInv
  <1>7. CASE ShowDay \/ PopupToday \/ HideDay \/ Resize \/ DayTurns
    BY <1>7, PopupInv, ResizeInv, DayTurnsInv
  <1> QED BY <1>1, <1>2, <1>3, <1>4, <1>5, <1>6, <1>7 DEF Next

-----------------------------------------------------------------------------
(* The inductive invariant holds. *)
THEOREM Inductive == Spec => []IInv
  BY InitInv, NextInv, PTL DEF Spec

(* The widgets keep their types: every focus stays on a date, the popup is *)
(* a single day, and there is no popup to see before it is built.          *)
THEOREM ViewsTypeCorrect == Spec => []TypeOK
  <1>1. IInv => TypeOK
    BY DEF IInv
  <1> QED BY <1>1, Inductive, PTL

(* What the main window has under its dates was read for those dates, in   *)
(* the zone it is set to, in whatever order of keys, settings and passes.  *)
THEOREM WhatIsReadIsShown == Spec => []WindowTruthful
  <1>1. IInv => WindowTruthful
    BY DEF IInv
  <1> QED BY <1>1, Inductive, PTL

(* It is behind the store only during a pass that wrote or a connect,      *)
(* after a write no report counts, or where the first date has no          *)
(* midnight.                                                               *)
THEOREM BehindOnlyByDesign == Spec => []WindowCurrent
  <1>1. IInv => WindowCurrent
    BY DEF IInv
  <1> QED BY <1>1, Inductive, PTL

(* The popup always comes up on today, with what the store holds for it.   *)
THEOREM PopupOpensOnToday == Spec => OpensOnToday
  <1> DEFINE Opens == ~ visible /\ visible' =>
                        popup'.focus = today /\ (HasMidnight(popup'.setting, today) =>
                                                    Truthful(popup') /\ popup'.items.current)
  <1>1. ASSUME IInv, [Next]_vars
        PROVE  [Opens]_vars
    <2> SUFFICES ASSUME Next, ~ visible, visible'
                 PROVE  ShowDay
      BY <1>1, PopupOpens
    <2> QED BY DEF Next, Turn, PopupTurn, GoToToday, ChooseSpan, ChooseList, ApplySetting,
                   Apply, ApplyFails, ConnectWrites, ConnectTold, ConnectFails, BeginPass, PassWrites, EndPass, PopupToday, HideDay,
                   Resize, DayTurns, Elsewhere
  <1> QED BY <1>1, Inductive, PTL DEF Spec, OpensOnToday
=============================================================================
