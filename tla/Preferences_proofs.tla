------------------------- MODULE Preferences_proofs -------------------------
(***************************************************************************)
(* Theorems about what the user prefers.  Of Sidebar, for any accounts,    *)
(* calendars, colours, connects and faults: the sidebar and the colours on *)
(* the week say what the store does, accounts can be told apart, a connect *)
(* restyles nothing, and the fold-all button always turns something.  Of   *)
(* Settings, for any file, hours, zones and mishaps: a restart finds what  *)
(* was in effect, the dialog shows it, and a write leaves the rest alone.  *)
(***************************************************************************)
EXTENDS Settings, Sidebar, FiniteSetTheorems, WellFoundedInduction, TLAPS

(* What the tables and the widget are made of.  The foreign key: a         *)
(* calendar's account is there.                                            *)
Shape ==
  /\ accounts = [p \in DOMAIN accounts |-> accounts[p]]
  /\ DOMAIN accounts \subseteq Person
  /\ calendars = [c \in DOMAIN calendars |-> calendars[c]]
  /\ \A c \in DOMAIN calendars : \E p \in DOMAIN accounts : c \in Of(p)
  /\ sidebar = [card |-> sidebar.card, row |-> sidebar.row, shut |-> sidebar.shut]

IInv == Shape /\ SidebarTruthful

(* So many connects have written an account and not told of it.            *)
Counted == untold \in [Person -> Nat]

-----------------------------------------------------------------------------
(* A calendar has one owner. *)
LEMMA OwnerOf ==
  ASSUME NEW p \in Person, NEW c \in Of(p)
  PROVE  Owner(c) = p
  <1>1. \A q \in Person : c \in ToSet(Calendars[q]) => q = p
    BY CalendarsAssumption DEF Of
  <1> QED BY <1>1 DEF Owner, Of

(* Two functions are the same on S. *)
Agree(S, f, g) ==
  /\ S \cap DOMAIN f = S \cap DOMAIN g
  /\ \A x \in S \cap DOMAIN f : f[x] = g[x]

LEMMA OnAgree ==
  ASSUME NEW S, NEW f, NEW g
  PROVE  On(S, f) = On(S, g) <=> Agree(S, f, g)
  <1>1. ASSUME On(S, f) = On(S, g)
        PROVE  Agree(S, f, g)
    <2>1. DOMAIN On(S, f) = S \cap DOMAIN f /\ DOMAIN On(S, g) = S \cap DOMAIN g
      BY DEF On, Restrict
    <2>2. /\ \A x \in S \cap DOMAIN f : On(S, f)[x] = f[x]
          /\ \A x \in S \cap DOMAIN g : On(S, g)[x] = g[x]
      BY DEF On, Restrict
    <2> QED BY <1>1, <2>1, <2>2 DEF Agree
  <1>2. ASSUME Agree(S, f, g)
        PROVE  On(S, f) = On(S, g)
    BY <1>2 DEF Agree, On, Restrict
  <1> QED BY <1>1, <1>2

(* What was drawn of p is what would be. *)
Told(p) ==
  LET now == Drawing(accounts, calendars, folded) IN
  /\ Agree({p}, sidebar.card, now.card)
  /\ Agree(Of(p), sidebar.row, now.row)
  /\ Agree(Of(p), week, Painting(accounts, calendars))

AllTold == \A p \in Person \ (Untold \union astray) : Told(p)

LEMMA TruthfulIsTold == SidebarTruthful <=> AllTold
  BY OnAgree DEF SidebarTruthful, Told, AllTold

(* A step that draws nothing and leaves q's rows alone leaves q as told.   *)
LEMMA Kept ==
  ASSUME Shape, Shape', NEW q \in Person, Told(q),
         Agree({q}, accounts', accounts), Agree(Of(q), calendars', calendars),
         week' = week, sidebar'.card = sidebar.card, sidebar'.row = sidebar.row
  PROVE  Told(q)'
  <1>1. Agree({q}, sidebar.card, accounts)'
    BY DEF Told, Drawing, Agree
  <1>2. \A c \in Of(q) \cap DOMAIN calendars :
          /\ c \in DOMAIN calendars' /\ calendars'[c] = calendars[c]
          /\ Owner(c) = q /\ accounts'[q] = accounts[q]
    <2>1. ASSUME NEW c \in Of(q) \cap DOMAIN calendars
          PROVE  q \in DOMAIN accounts
      <3>1. PICK p \in DOMAIN accounts : c \in Of(p)
        BY DEF Shape
      <3> QED BY <3>1, OwnerOf DEF Shape
    <2> QED BY <2>1, OwnerOf DEF Agree
  <1>3. Of(q) \cap DOMAIN calendars' = Of(q) \cap DOMAIN calendars
    BY DEF Agree
  <1> DEFINE now == Drawing(accounts, calendars, folded)
             then == Drawing(accounts', calendars', folded')
  <1>4. Agree(Of(q), now.row, then.row)
    BY <1>2, <1>3 DEF Agree, Drawing
  <1>5. Agree(Of(q), Painting(accounts, calendars), Painting(accounts', calendars'))
    BY <1>2, <1>3 DEF Agree, Painting
  <1>6. Agree(Of(q), sidebar.row, then.row) /\ Agree(Of(q), week, Painting(accounts', calendars'))
    BY <1>4, <1>5 DEF Told, Agree
  <1>7. then.card = accounts'
    BY DEF Drawing
  <1> HIDE DEF then, now
  <1>8. then = Drawing(accounts, calendars, folded)'
    BY DEF then
  <1> QED BY <1>1, <1>6, <1>7 DEF Told, then, Agree, Of

(* A handler that draws both surfaces leaves nothing to be desired.        *)
LEMMA DrawnInv ==
  ASSUME refresh_sidebar, refresh_week
  PROVE  /\ SidebarTruthful'
         /\ sidebar' = [card |-> sidebar'.card, row |-> sidebar'.row, shut |-> sidebar'.shut]
  <1>1. sidebar' = Drawing(accounts', calendars', folded') /\ week' = Painting(accounts', calendars')
    BY DEF refresh_sidebar, refresh_week
  <1>2. SidebarTruthful'
    BY <1>1 DEF SidebarTruthful
  <1> QED BY <1>1, <1>2 DEF Drawing

(* What is left of the rows when an account goes.                          *)
LEMMA WithoutFacts ==
  ASSUME Shape, NEW p \in Person
  PROVE  /\ Without(p)[1] = [q \in DOMAIN accounts \ {p} |-> accounts[q]]
         /\ Without(p)[2] = [c \in DOMAIN calendars \ Of(p) |-> calendars[c]]
  BY DEF Without, Restrict

-----------------------------------------------------------------------------
(* The handlers. *)

(* Those that draw both, with rows changed but none added or gone.         *)
LEMMA RestyledInv ==
  ASSUME IInv, NEW as, NEW cs, Applied(as, cs),
         as = [p \in DOMAIN accounts |-> as[p]], cs = [c \in DOMAIN calendars |-> cs[c]]
  PROVE  IInv'
  <1>1. /\ Shape /\ refresh_sidebar /\ refresh_week /\ accounts' = as /\ calendars' = cs
        /\ DOMAIN as = DOMAIN accounts /\ DOMAIN cs = DOMAIN calendars
    BY DEF IInv, Applied
  <1>2. Shape'
    BY <1>1, DrawnInv DEF Shape, Of
  <1> QED BY <1>1, <1>2, DrawnInv DEF IInv

(* A handler that stops after some of p's calendars and draws nothing.     *)
LEMMA HalfWayInv ==
  ASSUME IInv, NEW p \in Person, NEW cs, Stopped(p, cs) \/ Failed(p, cs), untold' = untold,
         cs = [c \in DOMAIN calendars |-> cs[c]],
         \A c \in DOMAIN calendars \ Of(p) : cs[c] = calendars[c]
  PROVE  IInv'
  <1>1. /\ UNCHANGED <<accounts, folded, sidebar, week>> /\ calendars' = cs
        /\ astray' = IF cs = calendars THEN astray ELSE astray \union {p}
    BY DEF Stopped, Failed, Undrawn
  <1>2. Shape /\ Shape'
    BY <1>1 DEF IInv, Shape, Of
  <1>3. ASSUME NEW q \in Person \ (Untold' \union astray')
        PROVE  Told(q)'
    <2>1. q \notin Untold /\ q \notin astray /\ Told(q)
      BY <1>1, <1>3, TruthfulIsTold DEF IInv, AllTold, Untold
    <2>2. Agree(Of(q), cs, calendars)
      <3>1. CASE cs = calendars
        BY <3>1 DEF Agree
      <3>2. CASE cs # calendars
        <4>1. q # p
          BY <1>1, <1>3, <3>2
        <4>2. Of(q) \cap Of(p) = {}
          BY <4>1, CalendarsAssumption DEF Of
        <4> QED BY <4>2 DEF Agree
      <3> QED BY <3>1, <3>2
    <2>3. Agree({q}, accounts', accounts)
      BY <1>1 DEF Agree
    <2> QED BY <1>1, <1>2, <2>1, <2>2, <2>3, Kept
  <1>4. AllTold'
    BY <1>3 DEF AllTold
  <1>5. SidebarTruthful'
    BY <1>4, TruthfulIsTold, PTL
  <1> QED BY <1>2, <1>5 DEF IInv

(* A step that draws nothing and leaves alone the rows of all but p, which *)
(* is untold or astray after it.                                           *)
LEMMA OthersKept ==
  ASSUME IInv, Shape', NEW p \in Person,
         Untold \ {p} \subseteq Untold', astray \subseteq astray', p \in Untold' \union astray',
         \A q \in Person \ {p} : Agree({q}, accounts', accounts) /\ Agree(Of(q), calendars', calendars),
         UNCHANGED <<sidebar, week>>
  PROVE  IInv'
  <1>1. ASSUME NEW q \in Person \ (Untold' \union astray')
        PROVE  Told(q)'
    <2>1. q # p /\ q \notin Untold /\ q \notin astray
      BY <1>1
    <2>2. Told(q)
      BY <2>1, TruthfulIsTold DEF IInv, AllTold
    <2> QED BY <2>1, <2>2, Kept DEF IInv
  <1>2. AllTold'
    BY <1>1 DEF AllTold
  <1>3. SidebarTruthful'
    BY <1>2, TruthfulIsTold, PTL
  <1> QED BY <1>3 DEF IInv

(* A step that changes neither rows nor drawings but for the carets.       *)
LEMMA StillInv ==
  ASSUME IInv, UNCHANGED <<accounts, calendars, week, astray, untold>>,
         sidebar'.card = sidebar.card, sidebar'.row = sidebar.row,
         sidebar' = [card |-> sidebar'.card, row |-> sidebar'.row, shut |-> sidebar'.shut]
  PROVE  IInv'
  <1>1. Shape /\ Shape'
    BY DEF IInv, Shape, Of
  <1>2. \A q \in Person : Agree({q}, accounts', accounts) /\ Agree(Of(q), calendars', calendars)
    BY DEF Agree
  <1>3. AllTold'
    BY <1>1, <1>2, TruthfulIsTold, Kept DEF AllTold, IInv, Untold
  <1>4. SidebarTruthful'
    BY <1>3, TruthfulIsTold, PTL
  <1> QED BY <1>1, <1>4 DEF IInv

LEMMA ConnectInv ==
  ASSUME IInv, Counted, NEW p \in Person, NEW listed \in Listing(p), ConnectWrites(p, listed)
  PROVE  IInv'
  <1>1. /\ accounts' = [q \in DOMAIN accounts \union {p} |->
                          IF q \in DOMAIN accounts THEN accounts[q]
                          ELSE palette_color(Cardinality(DOMAIN accounts))]
        /\ calendars' = [c \in DOMAIN calendars \union listed |->
                           IF c \in DOMAIN calendars THEN calendars[c] ELSE Seed]
        /\ untold' = [untold EXCEPT ![p] = @ + 1] /\ astray' = astray
        /\ UNCHANGED <<sidebar, week>>
    BY DEF ConnectWrites, connect_account, Undrawn
  <1>2. listed \subseteq Of(p)
    BY DEF Listing
  <1>3. Shape'
    BY <1>1, <1>2 DEF IInv, Shape, Of
  <1>4. ASSUME NEW q \in Person \ {p}
        PROVE  Agree({q}, accounts', accounts) /\ Agree(Of(q), calendars', calendars)
    <2>1. Of(q) \cap listed = {}
      BY <1>2, CalendarsAssumption DEF Of
    <2> QED BY <1>1, <2>1 DEF Agree
  <1>5. Untold \ {p} \subseteq Untold' /\ p \in Untold'
    BY <1>1 DEF Untold, Counted
  <1> QED BY <1>1, <1>3, <1>4, <1>5, OthersKept

LEMMA TakenBackInv ==
  ASSUME IInv, Counted, NEW p \in Person, ConnectTakenBack(p)
  PROVE  IInv'
  <1>1. /\ untold' = [untold EXCEPT ![p] = @ - 1] /\ astray' = astray \union {p}
        /\ UNCHANGED <<sidebar, week>>
    BY DEF ConnectTakenBack, Undrawn
  <1>2. Untold \ {p} \subseteq Untold'
    BY <1>1 DEF Untold, Counted
  <1>3. CASE /\ accounts' = [q \in DOMAIN accounts \ {p} |-> accounts[q]]
             /\ calendars' = [c \in DOMAIN calendars \ Of(p) |-> calendars[c]]
    <2>1. Shape'
      BY <1>1, <1>3 DEF IInv, Shape, Of
    <2>2. ASSUME NEW q \in Person \ {p}
          PROVE  Agree({q}, accounts', accounts) /\ Agree(Of(q), calendars', calendars)
      <3>1. Of(q) \cap Of(p) = {}
        BY CalendarsAssumption DEF Of
      <3> QED BY <1>3, <3>1 DEF Agree
    <2> QED BY <1>1, <1>2, <2>1, <2>2, OthersKept
  <1>4. CASE UNCHANGED <<accounts, calendars>>
    <2>1. Shape'
      BY <1>1, <1>4 DEF IInv, Shape, Of
    <2>2. \A q \in Person : Agree({q}, accounts', accounts) /\ Agree(Of(q), calendars', calendars)
      BY <1>4 DEF Agree
    <2> QED BY <1>1, <1>2, <2>1, <2>2, OthersKept
  <1> QED BY <1>3, <1>4, WithoutFacts DEF ConnectTakenBack, IInv

LEMMA RemoveInv ==
  ASSUME IInv, NEW p \in Person, remove_account(p)
  PROVE  IInv'
  <1>1. CASE Applied(Without(p)[1], Without(p)[2])
    <2>1. /\ refresh_sidebar /\ refresh_week
          /\ accounts' = [q \in DOMAIN accounts \ {p} |-> accounts[q]]
          /\ calendars' = [c \in DOMAIN calendars \ Of(p) |-> calendars[c]]
      BY <1>1, WithoutFacts DEF Applied, IInv
    <2>2. Shape'
      BY <2>1, DrawnInv DEF IInv, Shape, Of
    <2> QED BY <2>1, <2>2, DrawnInv DEF IInv
  <1>2. CASE Failed(p, calendars)
    BY <1>2, HalfWayInv DEF remove_account, IInv, Shape
  <1> QED BY <1>1, <1>2 DEF remove_account

LEMMA ToldOfInv ==
  ASSUME IInv, PassTold \/ \E p \in Person : ConnectTold(p)
  PROVE  IInv'
  BY RestyledInv DEF PassTold, ConnectTold, IInv, Shape

LEMMA EyeInv ==
  ASSUME IInv, NEW c \in DOMAIN Google, ClickEye(c)
  PROVE  IInv'
  <1>1. CASE c \in DOMAIN calendars /\ Applied(accounts, [calendars EXCEPT ![c].visible = ~sidebar.row[c].eye])
    <2> DEFINE cs == [calendars EXCEPT ![c].visible = ~sidebar.row[c].eye]
    <2>1. cs = [d \in DOMAIN calendars |-> cs[d]]
      BY DEF IInv, Shape
    <2> HIDE DEF cs
    <2> QED BY <1>1, <2>1, RestyledInv DEF IInv, Shape, cs
  <1>2. CASE Stopped(Owner(c), calendars) \/ Failed(Owner(c), calendars)
    <2>1. UNCHANGED <<accounts, calendars, sidebar, week, astray, untold>>
      BY <1>2 DEF Stopped, Failed, Undrawn, ClickEye
    <2> QED BY <2>1, StillInv DEF IInv, Shape
  <1> QED BY <1>1, <1>2 DEF ClickEye

LEMMA AccountEyeInv ==
  ASSUME IInv, NEW p \in Person, ClickAccountEye(p)
  PROVE  IInv'
  <1> DEFINE drawn(n) == {Calendars[p][i] : i \in 1 .. n} \cap DOMAIN sidebar.row
             all      == drawn(Len(Calendars[p]))
             visible  == \E c \in all : ~sidebar.row[c].eye
             after(n) == Show(calendars, drawn(n), visible)
  <1>1. \/ Applied(accounts, Show(calendars, all, visible))
        \/ \E n \in DOMAIN Calendars[p] : Failed(p, after(n - 1)) \/ Stopped(p, after(n - 1))
    BY DEF ClickAccountEye
  <1>2. untold' = untold /\ Shape
    BY DEF ClickAccountEye, IInv
  <1>3. \A on : \A v : LET cs == Show(calendars, on, v) IN
          /\ cs = [c \in DOMAIN calendars |-> cs[c]]
          /\ \A c \in DOMAIN calendars \ on : cs[c] = calendars[c]
    BY DEF Show
  <1>4. Calendars[p] \in Seq(DOMAIN Google)
    BY CalendarsAssumption
  <1>5. \A n \in DOMAIN Calendars[p] : drawn(n - 1) \subseteq Of(p)
    BY <1>4 DEF Of, ToSet
  <1> HIDE DEF drawn, all, visible
  <1>6. CASE Applied(accounts, Show(calendars, all, visible))
    <2> DEFINE cs == Show(calendars, all, visible)
    <2>1. cs = [c \in DOMAIN calendars |-> cs[c]] /\ Applied(accounts, cs)
      BY <1>3, <1>6
    <2> HIDE DEF cs
    <2> QED BY <1>2, <2>1, RestyledInv DEF Shape
  <1>7. ASSUME NEW n \in DOMAIN Calendars[p], Failed(p, after(n - 1)) \/ Stopped(p, after(n - 1))
        PROVE  IInv'
    <2> DEFINE cs == after(n - 1)
    <2>1. cs = [c \in DOMAIN calendars |-> cs[c]] /\ \A c \in DOMAIN calendars \ Of(p) : cs[c] = calendars[c]
      BY <1>3, <1>5, <1>7
    <2>2. Stopped(p, cs) \/ Failed(p, cs)
      BY <1>7
    <2> HIDE DEF cs, after
    <2> QED BY <1>2, <2>1, <2>2, HalfWayInv
  <1> QED BY <1>1, <1>6, <1>7

LEMMA CaretInv ==
  ASSUME IInv, NEW p \in Person, Caret(p)
  PROVE  IInv'
  <1>1. /\ UNCHANGED <<accounts, calendars, week, astray, untold>>
        /\ sidebar' = [sidebar EXCEPT !.shut = Remembered(@, p, p \notin sidebar.shut)]
    BY DEF Caret
  <1>2. /\ sidebar'.card = sidebar.card /\ sidebar'.row = sidebar.row
        /\ sidebar' = [card |-> sidebar'.card, row |-> sidebar'.row, shut |-> sidebar'.shut]
    BY <1>1 DEF IInv, Shape
  <1> QED BY <1>1, <1>2, StillInv

(* The week was not drawn again, and its accounts and calendars are the    *)
(* same.                                                                   *)
LEMMA FoldAllInv ==
  ASSUME IInv, FoldAll
  PROVE  IInv'
  <1>1. /\ UNCHANGED <<accounts, calendars, week, astray, untold>>
        /\ sidebar' = Drawing(accounts', calendars', folded')
    BY DEF FoldAll, refresh_sidebar
  <1>2. Shape'
    BY <1>1 DEF IInv, Shape, Of, Drawing
  <1>3. SidebarTruthful'
    BY <1>1 DEF IInv, SidebarTruthful, Untold
  <1> QED BY <1>2, <1>3 DEF IInv

LEMMA PageInv ==
  ASSUME IInv, OpenPage \/ ClosePage
  PROVE  IInv'
  BY StillInv DEF OpenPage, ClosePage, IInv, Shape

LEMMA AccountColorInv ==
  ASSUME IInv, NEW p \in Person, NEW color, set_account_color(p, color)
  PROVE  IInv'
  <1>1. CASE Applied([accounts EXCEPT ![p] = color], calendars)
    <2> DEFINE as == [accounts EXCEPT ![p] = color]
    <2>1. as = [q \in DOMAIN accounts |-> as[q]]
      BY DEF IInv, Shape
    <2> HIDE DEF as
    <2> QED BY <1>1, <2>1, RestyledInv DEF IInv, Shape, as
  <1>2. CASE Stopped(p, calendars) \/ Failed(p, calendars)
    <2>1. UNCHANGED <<accounts, calendars, sidebar, week, astray, untold>>
      BY <1>2 DEF Stopped, Failed, Undrawn, set_account_color
    <2> QED BY <2>1, StillInv DEF IInv, Shape
  <1> QED BY <1>1, <1>2 DEF set_account_color

LEMMA CalendarColorInv ==
  ASSUME IInv, NEW c \in DOMAIN Google, NEW color, set_calendar_user_color(c, color)
  PROVE  IInv'
  <1>1. CASE Applied(accounts, [calendars EXCEPT ![c].user_color = color])
    <2> DEFINE cs == [calendars EXCEPT ![c].user_color = color]
    <2>1. cs = [d \in DOMAIN calendars |-> cs[d]]
      BY DEF IInv, Shape
    <2> HIDE DEF cs
    <2> QED BY <1>1, <2>1, RestyledInv DEF IInv, Shape, cs
  <1>2. CASE Stopped(Owner(c), calendars) \/ Failed(Owner(c), calendars)
    <2>1. UNCHANGED <<accounts, calendars, sidebar, week, astray, untold>>
      BY <1>2 DEF Stopped, Failed, Undrawn, set_calendar_user_color
    <2> QED BY <2>1, StillInv DEF IInv, Shape
  <1> QED BY <1>1, <1>2 DEF set_calendar_user_color

-----------------------------------------------------------------------------
LEMMA InitInv ==
  ASSUME Init
  PROVE  IInv
  <1>1. PICK who \in {{}} \union {{p} : p \in Person} :
          /\ accounts = [p \in who |-> palette_color(0)]
          /\ calendars = [c \in UNION {Of(p) : p \in who} |-> Seed]
    BY DEF Init
  <1>2. sidebar = Drawing(accounts, calendars, folded) /\ week = Painting(accounts, calendars)
    BY DEF Init
  <1>3. Shape
    BY <1>1, <1>2 DEF Shape, Drawing
  <1>4. SidebarTruthful
    BY <1>2 DEF SidebarTruthful
  <1> QED BY <1>3, <1>4 DEF IInv

LEMMA NextInv ==
  ASSUME IInv, Counted, [Next]_vars
  PROVE  IInv'
  <1>1. ASSUME NEW p \in Person, NEW listed \in Listing(p), ConnectWrites(p, listed)
        PROVE  IInv'
    BY <1>1, ConnectInv
  <1>2. ASSUME NEW p \in Person,
               \/ ConnectTold(p) \/ ConnectTakenBack(p) \/ ClickAccountEye(p) \/ Caret(p)
               \/ \E color \in Chosen : set_account_color(p, color)
               \/ remove_account(p)
        PROVE  IInv'
    BY <1>2, ToldOfInv, TakenBackInv, AccountEyeInv, CaretInv, AccountColorInv, RemoveInv
  <1>3. ASSUME NEW c \in DOMAIN Google,
               \/ ClickEye(c)
               \/ \E color \in Chosen \union {None} : set_calendar_user_color(c, color)
        PROVE  IInv'
    BY <1>3, EyeInv, CalendarColorInv
  <1>4. CASE PassTold \/ FoldAll \/ OpenPage \/ ClosePage
    BY <1>4, ToldOfInv, FoldAllInv, PageInv
  <1>5. CASE UNCHANGED vars
    BY <1>5, StillInv DEF vars, IInv, Shape
  <1> QED BY <1>1, <1>2, <1>3, <1>4, <1>5 DEF Next

-----------------------------------------------------------------------------
LEMMA CountedNext ==
  ASSUME Counted, [Next]_vars
  PROVE  Counted'
  <1>1. ASSUME NEW p \in Person, NEW listed, ConnectWrites(p, listed)
        PROVE  Counted'
    BY <1>1 DEF ConnectWrites, Counted
  <1>2. ASSUME NEW p \in Person, ConnectTold(p) \/ ConnectTakenBack(p)
        PROVE  Counted'
    BY <1>2 DEF ConnectTold, ConnectTakenBack, Counted
  <1>3. CASE UNCHANGED untold
    BY <1>3 DEF Counted
  <1> QED BY <1>1, <1>2, <1>3 DEF Next, ClickAccountEye, Caret, set_account_color, remove_account,
             ClickEye, set_calendar_user_color, PassTold, FoldAll, OpenPage, ClosePage, vars

(* The rows, the sidebar and the week are always in step. *)
THEOREM Inductive == Spec => []IInv
  <1>1. Init => IInv
    BY InitInv
  <1>2. IInv /\ Counted /\ [Next]_vars => IInv'
    BY NextInv
  <1>3. Init => Counted
    BY DEF Init, Counted
  <1>4. Counted /\ [Next]_vars => Counted'
    BY CountedNext
  <1> QED BY <1>1, <1>2, <1>3, <1>4, PTL DEF Spec

(* "Redraw both surfaces that depend on it" (ui/mod.rs): whatever changed  *)
(* colours and eyes, cards, rows and events are drawn as the store has     *)
(* them, but for accounts in the middle of a connect or of a failure.      *)
THEOREM StyledAsStored == Spec => []SidebarTruthful
  <1>1. IInv => SidebarTruthful
    BY DEF IInv
  <1> QED BY <1>1, Inductive, PTL

(* "Sync never writes here" (store/mod.rs): whatever becomes of a connect, *)
(* the rows that stay are styled as the user left them.                    *)
THEOREM ConnectRestylesNothing == Spec => StylingIsTheUsers
  <1> DEFINE Same == /\ \A p \in DOMAIN accounts \cap DOMAIN accounts' : accounts'[p] = accounts[p]
                     /\ \A c \in DOMAIN calendars \cap DOMAIN calendars' : calendars'[c] = calendars[c]
  <1>1. ASSUME IInv, Next, untold' # untold
        PROVE  Same
    <2>1. \/ \E p \in Person : \E listed \in Listing(p) : ConnectWrites(p, listed)
          \/ \E p \in Person : ConnectTold(p) \/ ConnectTakenBack(p)
      BY <1>1 DEF Next, ClickAccountEye, Caret, set_account_color, remove_account, ClickEye,
                  set_calendar_user_color, PassTold, FoldAll, OpenPage, ClosePage
    <2>2. ASSUME NEW p \in Person, NEW listed \in Listing(p), ConnectWrites(p, listed)
          PROVE  Same
      BY <2>2 DEF ConnectWrites, connect_account
    <2>3. ASSUME NEW p \in Person, ConnectTold(p)
          PROVE  Same
      BY <2>3 DEF ConnectTold, Applied
    <2>4. ASSUME NEW p \in Person, ConnectTakenBack(p)
          PROVE  Same
      <3>1. \/ /\ accounts' = [q \in DOMAIN accounts \ {p} |-> accounts[q]]
               /\ calendars' = [c \in DOMAIN calendars \ Of(p) |-> calendars[c]]
            \/ UNCHANGED <<accounts, calendars>>
        BY <1>1, <2>4, WithoutFacts DEF ConnectTakenBack, IInv
      <3> QED BY <3>1
    <2> QED BY <2>1, <2>2, <2>3, <2>4
  <1>2. IInv /\ [Next]_vars => [untold' # untold => Same]_vars
    BY <1>1
  <1> QED BY <1>2, Inductive, PTL DEF Spec, StylingIsTheUsers

-----------------------------------------------------------------------------
(* Accounts take the first colours of the palette.                         *)
Distinct ==
  /\ IsFiniteSet(DOMAIN accounts)
  /\ ~recolored /\ Cardinality(DOMAIN accounts) <= Len(Palette) =>
       /\ \A p \in DOMAIN accounts :
            \E i \in 1 .. Len(Palette) : i <= Cardinality(DOMAIN accounts) /\ accounts[p] = Palette[i]
       /\ IsInjective(accounts)

LEMMA DistinctInit ==
  ASSUME Init
  PROVE  Distinct
  <1>1. PICK who \in {{}} \union {{p} : p \in Person} : accounts = [p \in who |-> palette_color(0)]
    BY DEF Init
  <1>2. CASE who = {}
    BY <1>1, <1>2, FS_EmptySet DEF Distinct, IsInjective
  <1>3. ASSUME NEW p \in Person, who = {p}
        PROVE  Distinct
    <2>1. IsFiniteSet({p}) /\ Cardinality({p}) = 1
      BY FS_Singleton
    <2>2. Len(Palette) \in Nat /\ Len(Palette) >= 1
      BY PaletteAssumption
    <2>3. palette_color(0) = Palette[1]
      BY <2>2 DEF palette_color
    <2>4. DOMAIN accounts = {p} /\ accounts[p] = Palette[1]
      BY <1>1, <1>3, <2>3
    <2>5. 1 \in 1 .. Len(Palette) /\ 1 <= Cardinality(DOMAIN accounts) /\ IsFiniteSet(DOMAIN accounts)
      BY <2>1, <2>2, <2>4
    <2>6. IsInjective(accounts)
      BY <2>4 DEF IsInjective
    <2> QED BY <2>4, <2>5, <2>6 DEF Distinct
  <1> QED BY <1>1, <1>2, <1>3

LEMMA DistinctConnect ==
  ASSUME Distinct, NEW p \in Person, NEW listed, ConnectWrites(p, listed)
  PROVE  Distinct'
  <1> DEFINE n == Cardinality(DOMAIN accounts)
             who == DOMAIN accounts \union {p}
             color == palette_color(n)
  <1>1. /\ accounts' = [q \in who |-> IF q \in DOMAIN accounts THEN accounts[q] ELSE color]
        /\ recolored' = recolored
    BY DEF ConnectWrites, connect_account
  <1>2. CASE p \in DOMAIN accounts
    <2>1. DOMAIN accounts' = DOMAIN accounts /\ \A q \in DOMAIN accounts : accounts'[q] = accounts[q]
      BY <1>1, <1>2
    <2> QED BY <1>1, <2>1 DEF Distinct, IsInjective
  <1>3. CASE p \notin DOMAIN accounts
    <2>1. IsFiniteSet(who) /\ Cardinality(who) = n + 1 /\ n \in Nat
      BY <1>3, FS_AddElement, FS_CardinalityType DEF Distinct
    <2>2. ASSUME ~recolored, n + 1 <= Len(Palette)
          PROVE  /\ \A q \in who : \E i \in 1 .. Len(Palette) : i <= n + 1 /\ accounts'[q] = Palette[i]
                 /\ IsInjective(accounts')
      <3>1. color = Palette[n + 1] /\ n + 1 \in 1 .. Len(Palette)
        BY <2>1, <2>2, PaletteAssumption DEF palette_color
      <3>2. /\ \A q \in DOMAIN accounts :
                 \E i \in 1 .. Len(Palette) : i <= n /\ accounts[q] = Palette[i]
            /\ IsInjective(accounts)
        BY <2>1, <2>2, PaletteAssumption DEF Distinct
      <3>3. /\ accounts'[p] = Palette[n + 1]
            /\ \A q \in DOMAIN accounts : accounts'[q] = accounts[q]
        BY <1>1, <1>3, <3>1
      <3>4. \A q \in DOMAIN accounts : accounts[q] # Palette[n + 1]
        BY <2>1, <3>1, <3>2, PaletteAssumption DEF IsInjective
      <3>5. IsInjective(accounts')
        BY <1>1, <3>2, <3>3, <3>4 DEF IsInjective
      <3>6. \A q \in who : \E i \in 1 .. Len(Palette) : i <= n + 1 /\ accounts'[q] = Palette[i]
        BY <2>1, <3>1, <3>2, <3>3
      <3> QED BY <3>5, <3>6
    <2>3. DOMAIN accounts' = who
      BY <1>1
    <2> HIDE DEF n, who, color
    <2> QED BY <1>1, <2>1, <2>2, <2>3 DEF Distinct
  <1> QED BY <1>2, <1>3

(* All other steps leave the accounts alone, or say that they recolored.   *)
LEMMA DistinctRest ==
  ASSUME IInv, Distinct, [Next]_vars
  PROVE  \/ UNCHANGED <<accounts, recolored>>
         \/ recolored' /\ DOMAIN accounts' \subseteq DOMAIN accounts
         \/ \E p \in Person : \E listed \in Listing(p) : ConnectWrites(p, listed)
  <1>1. ASSUME NEW p \in Person, ConnectTakenBack(p) \/ remove_account(p)
        PROVE  \/ UNCHANGED <<accounts, recolored>>
               \/ recolored' /\ DOMAIN accounts' \subseteq DOMAIN accounts
    BY <1>1, WithoutFacts DEF ConnectTakenBack, remove_account, Applied, Failed, IInv
  <1>2. ASSUME NEW p \in Person, NEW color, set_account_color(p, color)
        PROVE  recolored' /\ DOMAIN accounts' \subseteq DOMAIN accounts
    BY <1>2 DEF set_account_color, Applied, Failed, Stopped
  <1>3. ASSUME NEW p \in Person, ConnectTold(p) \/ ClickAccountEye(p) \/ Caret(p)
        PROVE  UNCHANGED <<accounts, recolored>>
    BY <1>3 DEF ConnectTold, ClickAccountEye, Caret, Applied, Failed, Stopped
  <1>4. ASSUME NEW c, ClickEye(c) \/ \E color : set_calendar_user_color(c, color)
        PROVE  UNCHANGED <<accounts, recolored>>
    BY <1>4 DEF ClickEye, set_calendar_user_color, Applied, Failed, Stopped
  <1>5. CASE PassTold \/ FoldAll \/ OpenPage \/ ClosePage \/ UNCHANGED vars
    BY <1>5 DEF PassTold, FoldAll, OpenPage, ClosePage, Applied, vars
  <1> QED BY <1>1, <1>2, <1>3, <1>4, <1>5 DEF Next

LEMMA DistinctNext ==
  ASSUME IInv, Distinct, [Next]_vars
  PROVE  Distinct'
  <1>1. CASE UNCHANGED <<accounts, recolored>>
    BY <1>1 DEF Distinct
  <1>2. CASE recolored' /\ DOMAIN accounts' \subseteq DOMAIN accounts
    BY <1>2, FS_Subset DEF Distinct
  <1>3. ASSUME NEW p \in Person, NEW listed \in Listing(p), ConnectWrites(p, listed)
        PROVE  Distinct'
    BY <1>3, DistinctConnect
  <1> QED BY <1>1, <1>2, <1>3, DistinctRest

(* "Telling two accounts apart at a glance" (accounts/mod.rs): the count   *)
(* of accounts picks a colour that is still free, until one was removed or *)
(* the user chose, and as long as there are colours.                       *)
THEOREM AccountsAreToldApart == Spec => []MarkersDistinct
  <1>1. Init => Distinct
    BY DistinctInit
  <1>2. IInv /\ Distinct /\ [Next]_vars => Distinct'
    BY DistinctNext
  <1>3. Distinct => MarkersDistinct
    BY DEF Distinct, MarkersDistinct
  <1> QED BY <1>1, <1>2, <1>3, Inductive, PTL DEF Spec

-----------------------------------------------------------------------------
(* As long as no write has failed, the carets on the screen are those of   *)
(* the file, of the accounts that have a card. *)
ShutInv == faults \in Nat /\ (faults = 0 => sidebar.shut = folded \cap DOMAIN sidebar.card)

(* Drawing the sidebar reads the file; leaving both alone changes nothing. *)
LEMMA ShutDrawn ==
  ASSUME refresh_sidebar, faults' \in Nat
  PROVE  ShutInv'
  <1>1. sidebar' = Drawing(accounts', calendars', folded')
    BY DEF refresh_sidebar
  <1>2. sidebar'.shut = folded' \cap DOMAIN accounts' /\ sidebar'.card = accounts'
    BY <1>1 DEF Drawing
  <1> QED BY <1>2 DEF ShutInv

LEMMA ShutUndrawn ==
  ASSUME ShutInv, UNCHANGED <<sidebar, folded>>, faults' \in {faults, faults + 1}
  PROVE  ShutInv'
  BY DEF ShutInv

LEMMA ShutRestyled ==
  ASSUME ShutInv,
         \/ \E as, cs : Applied(as, cs)
         \/ \E p, cs : Stopped(p, cs) \/ Failed(p, cs)
  PROVE  ShutInv'
  <1>1. ASSUME NEW as, NEW cs, Applied(as, cs)
        PROVE  ShutInv'
    BY <1>1, ShutDrawn DEF Applied, ShutInv
  <1>2. ASSUME NEW p, NEW cs, Stopped(p, cs) \/ Failed(p, cs)
        PROVE  ShutInv'
    BY <1>2, ShutUndrawn DEF Stopped, Failed, Undrawn
  <1> QED BY <1>1, <1>2

LEMMA ShutCaret ==
  ASSUME ShutInv, Shape, NEW p \in Person, Caret(p)
  PROVE  ShutInv'
  <1> DEFINE closing == p \notin sidebar.shut
  <1>1. /\ p \in DOMAIN sidebar.card
        /\ sidebar' = [sidebar EXCEPT !.shut = Remembered(@, p, closing)]
    BY DEF Caret
  <1>2. PICK f \in set_view_state(File, p, closing) : folded' = f.folded /\ faults' = f.faults
    BY DEF Caret
  <1>3. /\ sidebar'.card = sidebar.card
        /\ sidebar'.shut = Remembered(sidebar.shut, p, closing)
    BY <1>1 DEF Shape
  <1>4. CASE f = [File EXCEPT !.folded = Remembered(@, p, closing)]
    <2>1. folded' = Remembered(folded, p, closing) /\ faults' = faults
      BY <1>2, <1>4 DEF File
    <2> QED BY <1>1, <1>3, <2>1 DEF ShutInv, Remembered
  <1>5. CASE f.faults = File.faults + 1
    <2>1. faults' = faults + 1
      BY <1>2, <1>5 DEF File
    <2> QED BY <2>1 DEF ShutInv
  <1> QED BY <1>2, <1>4, <1>5 DEF set_view_state

LEMMA ShutFoldAll ==
  ASSUME ShutInv, Distinct, FoldAll
  PROVE  ShutInv'
  <1>1. PICK missed \in SUBSET DOMAIN accounts : faults' = faults + Cardinality(missed)
    BY DEF FoldAll
  <1>2. Cardinality(missed) \in Nat
    BY <1>1, FS_Subset, FS_CardinalityType DEF Distinct
  <1>3. faults' \in Nat
    BY <1>1, <1>2 DEF ShutInv
  <1> QED BY <1>3, ShutDrawn DEF FoldAll

LEMMA ShutNext ==
  ASSUME IInv, Distinct, ShutInv, [Next]_vars
  PROVE  ShutInv'
  <1>1. ASSUME NEW p \in Person, NEW listed, ConnectWrites(p, listed)
        PROVE  ShutInv'
    BY <1>1, ShutUndrawn DEF ConnectWrites, Undrawn
  <1>2. ASSUME NEW p \in Person, ConnectTakenBack(p)
        PROVE  ShutInv'
    BY <1>2, ShutUndrawn DEF ConnectTakenBack, Undrawn
  <1>3. ASSUME NEW p \in Person, ConnectTold(p) \/ remove_account(p)
        PROVE  ShutInv'
    BY <1>3, ShutRestyled DEF ConnectTold, remove_account
  <1>4. ASSUME NEW p \in Person, ClickAccountEye(p)
        PROVE  ShutInv'
    BY <1>4, ShutRestyled DEF ClickAccountEye
  <1>5. ASSUME NEW p \in Person, NEW color, set_account_color(p, color)
        PROVE  ShutInv'
    BY <1>5, ShutRestyled DEF set_account_color
  <1>6. ASSUME NEW c, ClickEye(c) \/ \E color : set_calendar_user_color(c, color)
        PROVE  ShutInv'
    BY <1>6, ShutRestyled DEF ClickEye, set_calendar_user_color
  <1>7. CASE PassTold
    BY <1>7, ShutRestyled DEF PassTold
  <1>8. CASE OpenPage \/ ClosePage \/ UNCHANGED vars
    BY <1>8, ShutUndrawn DEF OpenPage, ClosePage, vars
  <1>9. ASSUME NEW p \in Person, Caret(p)
        PROVE  ShutInv'
    BY <1>9, ShutCaret DEF IInv
  <1> QED BY <1>1, <1>2, <1>3, <1>4, <1>5, <1>6, <1>7, <1>8, <1>9, ShutFoldAll DEF Next

(* "Doing whichever leaves the sidebar different from now" (ui/mod.rs):    *)
(* whatever cards are drawn, pressing the fold-all button turns at least   *)
(* one caret, until a write has failed.                                    *)
THEOREM FoldAllAlwaysTurns == Spec => []FoldAllTurnsTheSidebar
  <1>1. Init => Distinct /\ ShutInv
    <2>1. Init => ShutInv
      BY DEF Init, ShutInv, Drawing
    <2> QED BY <2>1, DistinctInit
  <1>2. IInv /\ Distinct /\ ShutInv /\ [Next]_vars => (Distinct /\ ShutInv)'
    BY DistinctNext, ShutNext
  <1>3. ShutInv => FoldAllTurnsTheSidebar
    <2> SUFFICES ASSUME ShutInv, faults = 0, DOMAIN accounts # {}, NEW after,
                        after = IF any_open THEN folded \union DOMAIN accounts
                                ELSE folded \ DOMAIN accounts,
                        sidebar = Drawing(accounts, calendars, after)
                 PROVE  FALSE
      BY DEF FoldAllTurnsTheSidebar
    <2>1. sidebar.card = accounts /\ sidebar.shut = after \cap DOMAIN accounts
      BY DEF Drawing
    <2>2. after \cap DOMAIN accounts = folded \cap DOMAIN accounts
      BY <2>1 DEF ShutInv
    <2>3. CASE any_open
      BY <2>2, <2>3 DEF any_open
    <2>4. CASE ~ any_open
      BY <2>2, <2>4 DEF any_open
    <2> QED BY <2>3, <2>4
  <1> QED BY <1>1, <1>2, <1>3, Inductive, PTL DEF Spec

-----------------------------------------------------------------------------
(* Settings: the lines of the file. *)

(* A set of naturals has a least one, and a greatest if it is finite: the  *)
(* one that the fewest are above. *)
LEMMA LeastOf ==
  ASSUME NEW S \in SUBSET Nat, S # {}
  PROVE  Least(S) \in S /\ \A y \in S : Least(S) <= y
<1> DEFINE R == {ss \in Nat \X Nat : ss[1] < ss[2]}
<1>1. IsWellFoundedOn(R, Nat)
  BY NatLessThanWellFounded, Zenon DEF OpToRel
<1> HIDE DEF R
<1>2. PICK x \in S : \A y \in S : <<y, x>> \notin R
  BY <1>1, WFMin
<1>3. \A y \in S : ~ (y < x)
  BY <1>2 DEF R
<1>4. \A y \in S : x <= y
  BY <1>3
<1> QED
  BY <1>4 DEF Least

LEMMA GreatestOf ==
  ASSUME NEW S \in SUBSET Nat, S # {}, IsFiniteSet(S)
  PROVE  Greatest(S) \in S /\ \A y \in S : y <= Greatest(S)
<1> DEFINE Above(x) == {y \in S : y > x}
           Counts == {Cardinality(Above(x)) : x \in S}
<1>1. \A x \in S : Above(x) \in SUBSET S /\ IsFiniteSet(Above(x)) /\ Cardinality(Above(x)) \in Nat
  BY FS_Subset, FS_CardinalityType
<1>2. Counts \in SUBSET Nat /\ Counts # {}
  BY <1>1
<1>3. Least(Counts) \in Counts /\ \A n \in Counts : Least(Counts) <= n
  BY <1>2, LeastOf
<1>4. PICK x \in S : \A z \in S : Cardinality(Above(x)) <= Cardinality(Above(z))
  BY <1>3
<1>5. ASSUME NEW z \in S, z > x
      PROVE  FALSE
  <2>1. Above(z) \in SUBSET Above(x) /\ z \in Above(x) /\ z \notin Above(z)
    <3>1. x \in Nat /\ z \in Nat /\ \A y \in S : y \in Nat
      OBVIOUS
    <3>2. \A y \in S : y > z => y > x
      BY <1>5, <3>1
    <3>3. ~ (z > z)
      BY <3>1
    <3> QED
      BY <1>5, <3>2, <3>3
  <2>2. Cardinality(Above(z)) <= Cardinality(Above(x)) /\ Cardinality(Above(x)) # Cardinality(Above(z))
    BY <1>1, <2>1, FS_Subset
  <2>3. Cardinality(Above(x)) <= Cardinality(Above(z))
    BY <1>4, <1>5
  <2>4. Cardinality(Above(x)) \in Nat /\ Cardinality(Above(z)) \in Nat
    BY <1>1, <1>5
  <2> QED
    BY <2>2, <2>3, <2>4
<1>6. \A y \in S : y <= x
  BY <1>5
<1> QED
  BY <1>6 DEF Greatest

LinesOf(lines, key) == {i \in DOMAIN lines : lines[i].key = key}

LEMMA AfterAll ==
  ASSUME NEW lines, IsText(lines)
  PROVE  After(lines) \in Nat /\ \A i \in DOMAIN lines : i < After(lines)
<1>1. CASE DOMAIN lines = {}
  BY <1>1 DEF After
<1>2. CASE DOMAIN lines # {}
  <2>1. /\ Greatest(DOMAIN lines) \in DOMAIN lines
        /\ \A i \in DOMAIN lines : i <= Greatest(DOMAIN lines)
    BY <1>2, GreatestOf DEF IsText
  <2>2. DOMAIN lines \subseteq Nat
    BY DEF IsText
  <2>3. After(lines) = Greatest(DOMAIN lines) + 1
    BY <1>2 DEF After
  <2> QED
    BY <2>1, <2>2, <2>3
<1> QED
  BY <1>1, <1>2

(* What a write does to the lines: those of the key go, but for one where  *)
(* a value is given; the others stay as they are and where they are. *)
LEMMA SetLines ==
  ASSUME NEW lines, IsText(lines), NEW key \in Keys, NEW value \in Int,
         NEW new, new = set_setting(lines, key, value)
  PROVE  /\ IsText(new)
         /\ \A i \in DOMAIN lines : lines[i].key # key => i \in DOMAIN new /\ new[i] = lines[i]
         /\ \A i \in DOMAIN new : new[i].key # key => i \in DOMAIN lines /\ new[i] = lines[i]
         /\ value = Unset => LinesOf(new, key) = {}
         /\ value # Unset => \E i \in DOMAIN new : LinesOf(new, key) = {i} /\ new[i].value = value
<1> DEFINE mine == LinesOf(lines, key)
           rest == DOMAIN lines \ mine
           here == IF mine = {} THEN After(lines) ELSE Least(mine)
<1>1. /\ lines = [i \in DOMAIN lines |-> Line(lines[i].key, lines[i].value)]
      /\ \A i \in DOMAIN lines : lines[i].value \in Int
      /\ DOMAIN lines \subseteq Nat /\ IsFiniteSet(DOMAIN lines)
  BY DEF IsText
<1>2. rest \subseteq DOMAIN lines /\ mine \subseteq DOMAIN lines /\ IsFiniteSet(rest)
  BY <1>1, FS_Subset DEF LinesOf
<1>3. here \in Nat /\ here \notin rest
  <2>1. CASE mine = {}
    <3>1. After(lines) \in Nat /\ \A i \in DOMAIN lines : i < After(lines)
      BY AfterAll
    <3> QED
      BY <1>1, <1>2, <2>1, <3>1
  <2>2. CASE mine # {}
    BY <1>1, <1>2, <2>2, LeastOf
  <2> QED
    BY <2>1, <2>2
<1>4. new = IF value = Unset THEN [i \in rest |-> lines[i]]
            ELSE [i \in rest \union {here} |-> IF i = here THEN Line(key, value) ELSE lines[i]]
  BY DEF set_setting, LinesOf, Restrict
<1>5. \A i \in DOMAIN lines : i \in rest <=> lines[i].key # key
  BY DEF LinesOf
<1>6. Line(key, value).key = key /\ Line(key, value).value = value
  BY DEF Line
<1> HIDE DEF mine, rest, here
<1>7. CASE value = Unset
  <2>1. new = [i \in rest |-> lines[i]]
    BY <1>4, <1>7
  <2>2. IsText(new)
    BY <1>1, <1>2, <2>1 DEF IsText
  <2>3. LinesOf(new, key) = {}
    BY <1>2, <1>5, <2>1 DEF LinesOf
  <2> QED
    BY <1>2, <1>5, <1>7, <2>1, <2>2, <2>3
<1>8. CASE value # Unset
  <2>1. new = [i \in rest \union {here} |-> IF i = here THEN Line(key, value) ELSE lines[i]]
    BY <1>4, <1>8
  <2>2. IsFiniteSet(rest \union {here})
    BY <1>2, FS_AddElement
  <2>3. \A i \in rest \union {here} :
          /\ new[i] = Line(new[i].key, new[i].value)
          /\ new[i].value \in Int /\ i \in Nat
    BY <1>1, <1>2, <1>3, <1>6, <2>1
  <2>4. IsText(new)
    BY <2>1, <2>2, <2>3 DEF IsText
  <2>5. DOMAIN new = rest \union {here} /\ new[here] = Line(key, value)
        /\ \A i \in rest : new[i] = lines[i]
    BY <1>3, <2>1
  <2>6. LinesOf(new, key) = {here}
    BY <1>2, <1>5, <1>6, <2>5 DEF LinesOf
  <2> QED
    BY <1>2, <1>5, <1>6, <1>8, <2>4, <2>5, <2>6
<1> QED
  BY <1>7, <1>8

(* So it changes the value of that key, and of no other. *)
LEMMA SetValues ==
  ASSUME NEW lines, IsText(lines), NEW key \in Keys, NEW value \in Int
  PROVE  \A k \in Keys : ValueOf(set_setting(lines, key, value), k)
                           = IF k = key THEN value ELSE ValueOf(lines, k)
<1> DEFINE new == set_setting(lines, key, value)
<1>1. /\ IsText(new)
      /\ \A i \in DOMAIN lines : lines[i].key # key => i \in DOMAIN new /\ new[i] = lines[i]
      /\ \A i \in DOMAIN new : new[i].key # key => i \in DOMAIN lines /\ new[i] = lines[i]
      /\ value = Unset => LinesOf(new, key) = {}
      /\ value # Unset => \E i \in DOMAIN new : LinesOf(new, key) = {i} /\ new[i].value = value
  BY SetLines
<1> HIDE DEF new
<1>2. \A l, k : ValueOf(l, k) = IF LinesOf(l, k) = {} THEN Unset ELSE l[Greatest(LinesOf(l, k))].value
  BY DEF ValueOf, LinesOf
<1>3. ValueOf(new, key) = value
  <2>1. CASE value = Unset
    BY <1>1, <1>2, <2>1
  <2>2. CASE value # Unset
    <3>1. PICK i \in DOMAIN new : LinesOf(new, key) = {i} /\ new[i].value = value
      BY <1>1, <2>2
    <3>2. {i} \in SUBSET Nat /\ IsFiniteSet({i})
      BY <1>1, FS_Singleton DEF IsText
    <3>3. Greatest({i}) = i
      BY <3>2, GreatestOf
    <3> QED
      BY <1>2, <3>1, <3>3
  <2> QED
    BY <2>1, <2>2
<1>4. ASSUME NEW k \in Keys, k # key
      PROVE  ValueOf(new, k) = ValueOf(lines, k)
  <2>1. LinesOf(new, k) = LinesOf(lines, k) /\ \A i \in LinesOf(lines, k) : new[i] = lines[i]
    BY <1>1, <1>4 DEF LinesOf
  <2>2. CASE LinesOf(lines, k) = {}
    BY <1>2, <2>1, <2>2
  <2>3. CASE LinesOf(lines, k) # {}
    <3>1. LinesOf(lines, k) \in SUBSET DOMAIN lines
      BY DEF LinesOf
    <3>2. LinesOf(lines, k) \in SUBSET Nat /\ IsFiniteSet(LinesOf(lines, k))
      BY <3>1, FS_Subset DEF IsText
    <3>3. Greatest(LinesOf(lines, k)) \in LinesOf(lines, k)
      BY <2>3, <3>2, GreatestOf
    <3> QED
      BY <1>2, <2>1, <2>3, <3>3
  <2> QED
    BY <2>2, <2>3
<1> QED
  BY <1>3, <1>4 DEF new

-----------------------------------------------------------------------------
(* What a write makes of what is read. *)

Call == [key : Keys, value : Int]
Settled == [timezone : Int, secondary_timezone : Int, core_hours_start : Int, core_hours_end : Int]
HourKeys == {"core_hours_start", "core_hours_end"}

(* A call sets one setting; an hour is never cleared. *)
With(m, call) == [m EXCEPT ![call.key] = call.value]
Clears(call) == call.key \in HourKeys /\ call.value = Unset

LEMMA WithFields ==
  ASSUME NEW m \in Settled, NEW call \in Call
  PROVE  /\ With(m, call) \in Settled
         /\ With(m, call).timezone =
              IF call.key = "timezone" THEN call.value ELSE m.timezone
         /\ With(m, call).secondary_timezone =
              IF call.key = "secondary_timezone" THEN call.value ELSE m.secondary_timezone
         /\ With(m, call).core_hours_start =
              IF call.key = "core_hours_start" THEN call.value ELSE m.core_hours_start
         /\ With(m, call).core_hours_end =
              IF call.key = "core_hours_end" THEN call.value ELSE m.core_hours_end
BY DEF With, Call, Settled, Keys

LEMMA ParseType ==
  ASSUME NEW lines, IsText(lines)
  PROVE  parse(lines) \in Settled
<1>1. \A k : ValueOf(lines, k) \in Int
  <2> SUFFICES ASSUME NEW k PROVE ValueOf(lines, k) \in Int
    OBVIOUS
  <2>1. CASE LinesOf(lines, k) = {}
    BY <2>1 DEF ValueOf, LinesOf, Unset
  <2>2. CASE LinesOf(lines, k) # {}
    <3>1. LinesOf(lines, k) \in SUBSET DOMAIN lines
      BY DEF LinesOf
    <3>2. LinesOf(lines, k) \in SUBSET Nat /\ IsFiniteSet(LinesOf(lines, k))
      BY <3>1, FS_Subset DEF IsText
    <3>3. Greatest(LinesOf(lines, k)) \in LinesOf(lines, k)
      BY <2>2, <3>2, GreatestOf
    <3>4. ValueOf(lines, k) = lines[Greatest(LinesOf(lines, k))].value
      BY <2>2 DEF ValueOf, LinesOf
    <3> QED
      BY <3>1, <3>3, <3>4 DEF IsText
  <2> QED
    BY <2>1, <2>2
<1>2. DefaultStart \in Int /\ DefaultEnd \in Int
  BY HoursAssumption
<1> QED
  BY <1>1, <1>2 DEF parse, Hour, Settled

(* set_setting and Settings::parse agree. *)
LEMMA ParseOfSet ==
  ASSUME NEW lines, IsText(lines), NEW call \in Call, ~ Clears(call)
  PROVE  parse(set_setting(lines, call.key, call.value)) = With(parse(lines), call)
<1> DEFINE new == set_setting(lines, call.key, call.value)
<1>1. call.key \in Keys /\ call.value \in Int
  BY DEF Call
<1>2. IsText(new)
  BY <1>1, SetLines
<1>3. \A k \in Keys : ValueOf(new, k) = IF k = call.key THEN call.value ELSE ValueOf(lines, k)
  BY <1>1, SetValues
<1> HIDE DEF new
<1>4. parse(new) \in Settled /\ parse(lines) \in Settled
  BY <1>2, ParseType
<1>5. parse(new).timezone = With(parse(lines), call).timezone
  BY <1>3, <1>4, WithFields DEF parse, Keys
<1>6. parse(new).secondary_timezone = With(parse(lines), call).secondary_timezone
  BY <1>3, <1>4, WithFields DEF parse, Keys
<1>7. parse(new).core_hours_start = With(parse(lines), call).core_hours_start
  BY <1>3, <1>4, WithFields DEF parse, Hour, Keys, Clears, HourKeys
<1>8. parse(new).core_hours_end = With(parse(lines), call).core_hours_end
  BY <1>3, <1>4, WithFields DEF parse, Hour, Keys, Clears, HourKeys
<1>9. With(parse(lines), call) \in Settled
  BY <1>4, WithFields
<1>10. parse(new) = With(parse(lines), call)
  BY <1>4, <1>5, <1>6, <1>7, <1>8, <1>9 DEF Settled
<1> QED
  BY <1>10 DEF new

-----------------------------------------------------------------------------
(* The inductive invariant. *)

Band(m) ==
  /\ m.core_hours_start \in Hours /\ m.core_hours_end \in Hours
  /\ m.core_hours_start < m.core_hours_end

(* The open dialog shows the settings m, where it has a row for them. *)
Shows(m) ==
  rows.open =>
    /\ rows.core_hours_start = m.core_hours_start /\ rows.core_hours_end = m.core_hours_end
    /\ m.timezone \in Zones => rows.timezone = m.timezone
    /\ m.secondary_timezone \in Zones => rows.secondary_timezone = m.secondary_timezone

(* What is in effect is a band, now and after each call still to be made,  *)
(* and after the last it is what the dialog shows. *)
InStep ==
  /\ Band(mem)
  /\ todo = <<>> => Shows(mem)
  /\ todo # <<>> =>
       \/ \E c \in Call : todo = <<c>> /\ ~ Clears(c) /\ Band(With(mem, c)) /\ Shows(With(mem, c))
       \/ \E c, d \in Call :
            /\ todo = <<c, d>> /\ ~ Clears(c) /\ ~ Clears(d)
            /\ Band(With(mem, c)) /\ Band(With(With(mem, c), d)) /\ Shows(With(With(mem, c), d))

(* A file that is trusted says what is in effect. *)
FileInStep == trusted => toml.readable /\ Parses(toml.lines) /\ parse(toml.lines) = mem

SettingsInv ==
  /\ SettingsTypeOK
  /\ screen = "none" => rows = NoDialog /\ todo = <<>>
  /\ InStep /\ FileInStep

LEMMA ParsesBand == \A lines : Parses(lines) => Band(parse(lines))
BY DEF Parses, Band

LEMMA DefaultsAreABand == Defaults \in Settled /\ Band(Defaults)
<1>1. /\ DefaultStart \in Nat /\ DefaultEnd \in Nat /\ LastHour \in Nat
      /\ DefaultStart < DefaultEnd /\ DefaultEnd <= LastHour
  BY HoursAssumption
<1>2. \A k : ValueOf(<<>>, k) = Unset
  BY DEF ValueOf
<1>3. Defaults = [timezone |-> Unset, secondary_timezone |-> Unset,
                  core_hours_start |-> DefaultStart, core_hours_end |-> DefaultEnd]
  BY <1>2 DEF Defaults, parse, Hour
<1> QED
  BY <1>1, <1>3 DEF Settled, Band, Hours, Unset

LEMMA SettingsInitInv == SettingsInit => SettingsInv
<1> SUFFICES ASSUME SettingsInit PROVE SettingsInv
  OBVIOUS
<1>1. IsFile(toml)
  BY HandWrittenAssumption DEF SettingsInit
<1>2. mem \in Settled /\ Band(mem)
  BY DefaultsAreABand DEF SettingsInit
<1>3. rows.open = FALSE /\ rows = NoDialog /\ todo = <<>> /\ trusted = FALSE
  BY DEF SettingsInit, NoDialog
<1>4. SettingsTypeOK
  <2>1. /\ oauth \in {"absent", "unusable", "usable"} /\ screen = "none" /\ mishaps = 0
        /\ MaxMishaps \in Nat
    BY MishapsAssumption DEF SettingsInit
  <2>2. todo \in Seq([key : Keys, value : Int])
    BY <1>3
  <2>3. rows \in {NoDialog} \union
                 [open : {TRUE}, timezone : Int, secondary_timezone : Int,
                  core_hours_start : Int, core_hours_end : Int]
    BY <1>3
  <2>4. trusted \in BOOLEAN
    BY <1>3, Zenon
  <2>5. mem \in Settled /\ mishaps \in 0 .. MaxMishaps
    BY <1>2, <2>1
  <2> QED
    BY <1>1, <2>1, <2>2, <2>3, <2>4, <2>5 DEF SettingsTypeOK, Settled
<1> QED
  BY <1>2, <1>3, <1>4 DEF SettingsInv, InStep, FileInStep, Shows

-----------------------------------------------------------------------------
(* One lemma per action. *)

ShownRows == [open : {TRUE}, timezone : Int, secondary_timezone : Int,
              core_hours_start : Int, core_hours_end : Int]

LEMMA ActivateInv == SettingsInv /\ Activate => SettingsInv'
<1> SUFFICES ASSUME SettingsInv, Activate PROVE SettingsInv'
  OBVIOUS
<1>1. /\ screen = "none"
      /\ screen' = CASE oauth = "absent"   -> "onboarding"
                     [] oauth = "unusable" -> "error"
                     [] oauth = "usable"   -> "calendar"
      /\ mem' = IF oauth = "usable" THEN load(toml) ELSE Defaults
      /\ trusted' = (oauth = "usable" /\ toml.readable /\ Parses(toml.lines))
      /\ UNCHANGED <<toml, oauth, rows, todo, mishaps>>
  BY DEF Activate
<1>2. /\ rows = NoDialog /\ todo = <<>> /\ IsFile(toml) /\ IsText(toml.lines)
      /\ oauth \in {"absent", "unusable", "usable"}
  BY <1>1 DEF SettingsInv, SettingsTypeOK, IsFile
<1>3. screen' \in {"onboarding", "error", "calendar"}
  <2>1. CASE oauth = "absent"
    BY <1>1, <2>1
  <2>2. CASE oauth = "unusable"
    BY <1>1, <2>2
  <2>3. CASE oauth = "usable"
    BY <1>1, <2>3
  <2> QED
    BY <1>2, <2>1, <2>2, <2>3
<1>4. mem' \in Settled /\ Band(mem')
  <2>1. load(toml) \in {parse(toml.lines), Defaults}
    BY DEF load
  <2>2. CASE load(toml) = parse(toml.lines) /\ Parses(toml.lines)
    BY <1>1, <1>2, <2>2, ParseType, ParsesBand, DefaultsAreABand
  <2>3. CASE load(toml) = Defaults
    BY <1>1, <2>3, DefaultsAreABand
  <2> QED
    BY <2>2, <2>3 DEF load
<1>5. trusted' \in BOOLEAN
  BY <1>1, Zenon
<1>6. SettingsTypeOK'
  <2>1. mem' \in [timezone : Int, secondary_timezone : Int, core_hours_start : Int, core_hours_end : Int]
    BY <1>4 DEF Settled
  <2> QED
    BY <1>1, <1>3, <1>5, <2>1 DEF SettingsInv, SettingsTypeOK
<1>7. InStep'
  BY <1>1, <1>2, <1>4 DEF InStep, Shows, NoDialog
<1>8. FileInStep'
  BY <1>1 DEF FileInStep, load
<1> QED
  BY <1>3, <1>6, <1>7, <1>8 DEF SettingsInv

LEMMA StopInv == SettingsInv /\ Stop => SettingsInv'
<1> SUFFICES ASSUME SettingsInv, Stop PROVE SettingsInv'
  OBVIOUS
<1>1. /\ screen' = "none" /\ mem' = Defaults /\ rows' = NoDialog /\ todo' = <<>>
      /\ trusted' = FALSE /\ UNCHANGED <<toml, oauth, mishaps>>
  BY DEF Stop
<1>2. mem' \in Settled /\ Band(mem')
  BY <1>1, DefaultsAreABand
<1>3. SettingsTypeOK'
  <2>1. todo' \in Seq([key : Keys, value : Int])
    BY <1>1
  <2>2. trusted' \in BOOLEAN
    BY <1>1, Zenon
  <2>3. rows' \in {NoDialog} \union
                  [open : {TRUE}, timezone : Int, secondary_timezone : Int,
                   core_hours_start : Int, core_hours_end : Int]
    BY <1>1
  <2> QED
    BY <1>1, <1>2, <2>1, <2>2, <2>3 DEF SettingsInv, SettingsTypeOK, Settled
<1> QED
  BY <1>1, <1>2, <1>3 DEF SettingsInv, InStep, Shows, FileInStep, NoDialog

LEMMA EditInv == SettingsInv /\ EditByHand => SettingsInv'
<1> SUFFICES ASSUME SettingsInv, EditByHand PROVE SettingsInv'
  OBVIOUS
<1>1. /\ mishaps < MaxMishaps /\ mishaps' = mishaps + 1
      /\ UNCHANGED <<screen, mem, rows, todo>>
      /\ \/ toml' \in HandWritten /\ trusted' = FALSE /\ UNCHANGED oauth
         \/ oauth' \in {"unusable", "usable"} /\ UNCHANGED <<toml, trusted>>
  BY DEF EditByHand
<1>2. IsFile(toml') /\ oauth' \in {"absent", "unusable", "usable"}
  BY <1>1, HandWrittenAssumption DEF SettingsInv, SettingsTypeOK
<1>3. trusted' \in BOOLEAN
  <2>1. trusted \in BOOLEAN
    BY DEF SettingsInv, SettingsTypeOK
  <2> QED
    BY <1>1, <2>1, Zenon
<1>4. mishaps' \in 0 .. MaxMishaps
  BY <1>1, MishapsAssumption DEF SettingsInv, SettingsTypeOK
<1>5. SettingsTypeOK'
  BY <1>1, <1>2, <1>3, <1>4 DEF SettingsInv, SettingsTypeOK
<1>6. InStep'
  BY <1>1 DEF SettingsInv, InStep, Shows
<1>7. FileInStep'
  BY <1>1 DEF SettingsInv, FileInStep
<1> QED
  BY <1>1, <1>5, <1>6, <1>7 DEF SettingsInv

LEMMA DialogInv == SettingsInv /\ (OpenDialog \/ CloseDialog) => SettingsInv'
<1> SUFFICES ASSUME SettingsInv, OpenDialog \/ CloseDialog PROVE SettingsInv'
  OBVIOUS
<1>1. /\ screen = "calendar" /\ todo = <<>>
      /\ rows' \in {Current, NoDialog}
      /\ UNCHANGED <<toml, oauth, screen, mem, todo, mishaps, trusted>>
  BY DEF OpenDialog, CloseDialog, Idle
<1>2. mem \in Settled
  BY DEF SettingsInv, SettingsTypeOK, Settled
<1>3. Current \in ShownRows
  <2>1. Unset \in Int /\ 0 \in Int
    BY DEF Unset
  <2> QED
    BY <1>2, <2>1 DEF Current, ShownRows, Settled
<1>4. SettingsTypeOK'
  BY <1>1, <1>3 DEF SettingsInv, SettingsTypeOK, ShownRows
<1>5. Shows(mem)'
  BY <1>1 DEF Shows, Current, NoDialog
<1>6. InStep'
  BY <1>1, <1>5 DEF SettingsInv, InStep
<1>7. FileInStep'
  BY <1>1 DEF SettingsInv, FileInStep
<1> QED
  BY <1>1, <1>4, <1>6, <1>7 DEF SettingsInv

(* A row that moves: what the calls will have made of the settings is what *)
(* the rows show, one after the other a band. *)
LEMMA TellInv ==
  ASSUME SettingsInv, Idle, NEW moved \in ShownRows, NEW calls, Tell(moved, calls),
         \/ \E c \in Call :
              /\ calls = <<c>> /\ ~ Clears(c) /\ Band(With(mem, c))
              /\ Shows(With(mem, c))'
         \/ \E c, d \in Call :
              /\ calls = <<c, d>> /\ ~ Clears(c) /\ ~ Clears(d)
              /\ Band(With(mem, c)) /\ Band(With(With(mem, c), d))
              /\ Shows(With(With(mem, c), d))'
  PROVE  SettingsInv'
<1>1. /\ screen = "calendar" /\ rows' = moved /\ todo' = calls
      /\ UNCHANGED <<toml, oauth, screen, mem, mishaps, trusted>>
  BY DEF Tell, Idle
<1>2. calls \in Seq([key : Keys, value : Int]) /\ calls # <<>>
  <2>1. CASE \E c \in Call : calls = <<c>>
    BY <2>1 DEF Call
  <2>2. CASE \E c, d \in Call : calls = <<c, d>>
    BY <2>2 DEF Call
  <2> QED
    BY <2>1, <2>2
<1>3. SettingsTypeOK'
  BY <1>1, <1>2 DEF SettingsInv, SettingsTypeOK, ShownRows
<1>4. mem' = mem
  BY <1>1
<1>5. InStep'
  <2>1. Band(mem')
    BY <1>4 DEF SettingsInv, InStep
  <2>2. CASE \E c \in Call :
              /\ calls = <<c>> /\ ~ Clears(c) /\ Band(With(mem, c))
              /\ Shows(With(mem, c))'
    BY <1>1, <1>2, <2>1, <2>2 DEF InStep
  <2>3. CASE \E c, d \in Call :
              /\ calls = <<c, d>> /\ ~ Clears(c) /\ ~ Clears(d)
              /\ Band(With(mem, c)) /\ Band(With(With(mem, c), d))
              /\ Shows(With(With(mem, c), d))'
    BY <1>1, <1>2, <2>1, <2>3 DEF InStep
  <2> QED
    BY <2>2, <2>3
<1>6. FileInStep'
  BY <1>1 DEF SettingsInv, FileInStep
<1> QED
  BY <1>1, <1>3, <1>5, <1>6 DEF SettingsInv

(* A row can move while the dialog is open and no call waits. *)
LEMMA Movable ==
  ASSUME SettingsInv, Idle, rows.open
  PROVE  rows \in ShownRows /\ mem \in Settled /\ Band(mem) /\ Shows(mem)
<1>1. rows # NoDialog
  BY DEF NoDialog
<1>2. rows \in ShownRows /\ mem \in Settled
  BY <1>1 DEF SettingsInv, SettingsTypeOK, ShownRows, Settled
<1>3. todo = <<>>
  BY DEF Idle
<1>4. Band(mem) /\ Shows(mem)
  BY <1>3 DEF SettingsInv, InStep
<1> QED
  BY <1>2, <1>4

LEMMA MoveStartInv ==
  ASSUME SettingsInv, NEW hour \in 0 .. LastHour - 1, MoveStart(hour)
  PROVE  SettingsInv'
<1> DEFINE c == Line("core_hours_end", hour + 1)
           d == Line("core_hours_start", hour)
<1>1. /\ Idle /\ rows.open /\ rows \in ShownRows /\ mem \in Settled
      /\ Band(mem) /\ Shows(mem) /\ LastHour \in Nat
  BY Movable, HoursAssumption DEF MoveStart
<1>2. c \in Call /\ d \in Call /\ ~ Clears(c) /\ ~ Clears(d)
  BY <1>1 DEF Call, Line, Keys, Clears, HourKeys, Unset
<1>3. CASE hour >= rows.core_hours_end
  <2> DEFINE moved == [rows EXCEPT !.core_hours_start = hour, !.core_hours_end = hour + 1]
  <2>1. Tell(moved, <<c, d>>) /\ moved \in ShownRows
    <3>1. Tell(moved, <<c, d>>)
      BY <1>3 DEF MoveStart
    <3>2. hour \in Int /\ hour + 1 \in Int
      BY <1>1
    <3>3. moved \in ShownRows
      BY <1>1, <3>2 DEF ShownRows
    <3> QED
      BY <3>1, <3>3
  <2>2. /\ With(mem, c) \in Settled /\ With(With(mem, c), d) \in Settled
        /\ With(mem, c).core_hours_start = mem.core_hours_start
        /\ With(mem, c).core_hours_end = hour + 1
        /\ With(With(mem, c), d).core_hours_start = hour
        /\ With(With(mem, c), d).core_hours_end = hour + 1
        /\ With(With(mem, c), d).timezone = mem.timezone
        /\ With(With(mem, c), d).secondary_timezone = mem.secondary_timezone
    BY <1>1, <1>2, WithFields DEF Line
  <2> HIDE DEF c, d
  <2>3. Band(With(mem, c)) /\ Band(With(With(mem, c), d))
    BY <1>1, <1>3, <2>2 DEF Band, Shows, Hours
  <2>4. Shows(With(With(mem, c), d))'
    <3>1. rows' = moved /\ mem' = mem
      BY <2>1 DEF Tell
    <3> QED
      BY <1>1, <2>2, <3>1 DEF Shows, ShownRows, c, d
  <2> HIDE DEF moved
  <2> QED
    BY <1>1, <1>2, <2>1, <2>3, <2>4, TellInv
<1>4. CASE ~ (hour >= rows.core_hours_end)
  <2> DEFINE moved == [rows EXCEPT !.core_hours_start = hour]
  <2>1. Tell(moved, <<d>>) /\ moved \in ShownRows
    <3>1. Tell(moved, <<d>>)
      BY <1>4 DEF MoveStart
    <3>2. hour \in Int
      BY <1>1
    <3>3. moved \in ShownRows
      BY <1>1, <3>2 DEF ShownRows
    <3> QED
      BY <3>1, <3>3
  <2>2. /\ With(mem, d).core_hours_start = hour
        /\ With(mem, d).core_hours_end = mem.core_hours_end
        /\ With(mem, d).timezone = mem.timezone
        /\ With(mem, d).secondary_timezone = mem.secondary_timezone
    BY <1>1, <1>2, WithFields DEF Line
  <2> HIDE DEF c, d
  <2>3. Band(With(mem, d))
    BY <1>1, <1>4, <2>2 DEF Band, Shows, Hours
  <2>4. Shows(With(mem, d))'
    <3>1. rows' = moved /\ mem' = mem
      BY <2>1 DEF Tell
    <3> QED
      BY <1>1, <2>2, <3>1 DEF Shows, ShownRows, d
  <2> HIDE DEF moved
  <2> QED
    BY <1>1, <1>2, <2>1, <2>3, <2>4, TellInv
<1> QED
  BY <1>3, <1>4

LEMMA MoveEndInv ==
  ASSUME SettingsInv, NEW hour \in 1 .. LastHour, MoveEnd(hour)
  PROVE  SettingsInv'
<1> DEFINE c == Line("core_hours_start", hour - 1)
           d == Line("core_hours_end", hour)
<1>1. /\ Idle /\ rows.open /\ rows \in ShownRows /\ mem \in Settled
      /\ Band(mem) /\ Shows(mem) /\ LastHour \in Nat
  BY Movable, HoursAssumption DEF MoveEnd
<1>2. c \in Call /\ d \in Call /\ ~ Clears(c) /\ ~ Clears(d)
  BY <1>1 DEF Call, Line, Keys, Clears, HourKeys, Unset
<1>3. CASE hour <= rows.core_hours_start
  <2> DEFINE moved == [rows EXCEPT !.core_hours_end = hour, !.core_hours_start = hour - 1]
  <2>1. Tell(moved, <<c, d>>) /\ moved \in ShownRows
    <3>1. Tell(moved, <<c, d>>)
      BY <1>3 DEF MoveEnd
    <3>2. hour \in Int /\ hour - 1 \in Int
      BY <1>1
    <3>3. moved \in ShownRows
      BY <1>1, <3>2 DEF ShownRows
    <3> QED
      BY <3>1, <3>3
  <2>2. /\ With(mem, c) \in Settled /\ With(With(mem, c), d) \in Settled
        /\ With(mem, c).core_hours_start = hour - 1
        /\ With(mem, c).core_hours_end = mem.core_hours_end
        /\ With(With(mem, c), d).core_hours_start = hour - 1
        /\ With(With(mem, c), d).core_hours_end = hour
        /\ With(With(mem, c), d).timezone = mem.timezone
        /\ With(With(mem, c), d).secondary_timezone = mem.secondary_timezone
    BY <1>1, <1>2, WithFields DEF Line
  <2> HIDE DEF c, d
  <2>3. Band(With(mem, c)) /\ Band(With(With(mem, c), d))
    BY <1>1, <1>3, <2>2 DEF Band, Shows, Hours
  <2>4. Shows(With(With(mem, c), d))'
    <3>1. rows' = moved /\ mem' = mem
      BY <2>1 DEF Tell
    <3> QED
      BY <1>1, <2>2, <3>1 DEF Shows, ShownRows, c, d
  <2> HIDE DEF moved
  <2> QED
    BY <1>1, <1>2, <2>1, <2>3, <2>4, TellInv
<1>4. CASE ~ (hour <= rows.core_hours_start)
  <2> DEFINE moved == [rows EXCEPT !.core_hours_end = hour]
  <2>1. Tell(moved, <<d>>) /\ moved \in ShownRows
    <3>1. Tell(moved, <<d>>)
      BY <1>4 DEF MoveEnd
    <3>2. hour \in Int
      BY <1>1
    <3>3. moved \in ShownRows
      BY <1>1, <3>2 DEF ShownRows
    <3> QED
      BY <3>1, <3>3
  <2>2. /\ With(mem, d).core_hours_start = mem.core_hours_start
        /\ With(mem, d).core_hours_end = hour
        /\ With(mem, d).timezone = mem.timezone
        /\ With(mem, d).secondary_timezone = mem.secondary_timezone
    BY <1>1, <1>2, WithFields DEF Line
  <2> HIDE DEF c, d
  <2>3. Band(With(mem, d))
    BY <1>1, <1>4, <2>2 DEF Band, Shows, Hours
  <2>4. Shows(With(mem, d))'
    <3>1. rows' = moved /\ mem' = mem
      BY <2>1 DEF Tell
    <3> QED
      BY <1>1, <2>2, <3>1 DEF Shows, ShownRows, d
  <2> HIDE DEF moved
  <2> QED
    BY <1>1, <1>2, <2>1, <2>3, <2>4, TellInv
<1> QED
  BY <1>3, <1>4

LEMMA ChooseZoneInv ==
  ASSUME SettingsInv, NEW zone \in Zones, ChooseZone(zone)
  PROVE  SettingsInv'
<1> DEFINE c == Line("timezone", zone)
           moved == [rows EXCEPT !.timezone = zone]
<1>1. /\ Idle /\ rows.open /\ rows \in ShownRows /\ mem \in Settled
      /\ Band(mem) /\ Shows(mem) /\ zone \in Int
  BY Movable, ZonesAssumption DEF ChooseZone, Zones
<1>2. c \in Call /\ ~ Clears(c)
  BY <1>1 DEF Call, Line, Keys, Clears, HourKeys
<1>3. Tell(moved, <<c>>)
  BY DEF ChooseZone
<1>4. moved \in ShownRows
  BY <1>1 DEF ShownRows
<1>5. /\ With(mem, c).core_hours_start = mem.core_hours_start
      /\ With(mem, c).core_hours_end = mem.core_hours_end
      /\ With(mem, c).timezone = zone
      /\ With(mem, c).secondary_timezone = mem.secondary_timezone
  BY <1>1, <1>2, WithFields DEF Line
<1> HIDE DEF c
<1>6. Band(With(mem, c))
  BY <1>1, <1>5 DEF Band
<1>7. Shows(With(mem, c))'
  <2>1. rows' = moved /\ mem' = mem
    BY <1>3 DEF Tell
  <2> QED
    BY <1>1, <1>5, <2>1 DEF Shows, ShownRows, c
<1> HIDE DEF moved
<1> QED
  BY <1>1, <1>2, <1>3, <1>4, <1>6, <1>7, TellInv

LEMMA ChooseSecondInv ==
  ASSUME SettingsInv, NEW zone \in Zones \union {Unset}, ChooseSecond(zone)
  PROVE  SettingsInv'
<1> DEFINE c == Line("secondary_timezone", zone)
           moved == [rows EXCEPT !.secondary_timezone = zone]
<1>1. /\ Idle /\ rows.open /\ rows \in ShownRows /\ mem \in Settled
      /\ Band(mem) /\ Shows(mem) /\ zone \in Int
  BY Movable, ZonesAssumption DEF ChooseSecond, Zones, Unset
<1>2. c \in Call /\ ~ Clears(c)
  BY <1>1 DEF Call, Line, Keys, Clears, HourKeys
<1>3. Tell(moved, <<c>>)
  BY DEF ChooseSecond
<1>4. moved \in ShownRows
  BY <1>1 DEF ShownRows
<1>5. /\ With(mem, c).core_hours_start = mem.core_hours_start
      /\ With(mem, c).core_hours_end = mem.core_hours_end
      /\ With(mem, c).timezone = mem.timezone
      /\ With(mem, c).secondary_timezone = zone
  BY <1>1, <1>2, WithFields DEF Line
<1> HIDE DEF c
<1>6. Band(With(mem, c))
  BY <1>1, <1>5 DEF Band
<1>7. Shows(With(mem, c))'
  <2>1. rows' = moved /\ mem' = mem
    BY <1>3 DEF Tell
  <2> QED
    BY <1>1, <1>5, <2>1 DEF Shows, ShownRows, c
<1> HIDE DEF moved
<1> QED
  BY <1>1, <1>2, <1>3, <1>4, <1>6, <1>7, TellInv

(* The first call that waits: what it writes is what it puts in effect. *)
LEMMA WrittenFacts ==
  ASSUME SettingsInv, todo # <<>>, NEW call, call = Head(todo)
  PROVE  /\ call \in Call /\ ~ Clears(call) /\ Band(With(mem, call))
         /\ IsFile(Written(toml, call.key, call.value))
         /\ toml.readable => Written(toml, call.key, call.value).lines
                               = set_setting(toml.lines, call.key, call.value)
         /\ trusted => /\ Parses(Written(toml, call.key, call.value).lines)
                       /\ parse(Written(toml, call.key, call.value).lines) = With(mem, call)
<1>1. call \in Call /\ ~ Clears(call) /\ Band(With(mem, call))
  <2>1. CASE \E c \in Call : todo = <<c>> /\ ~ Clears(c) /\ Band(With(mem, c))
    BY <2>1
  <2>2. CASE \E c, d \in Call : todo = <<c, d>> /\ ~ Clears(c) /\ Band(With(mem, c))
    BY <2>2
  <2> QED
    BY <2>1, <2>2 DEF SettingsInv, InStep
<1> DEFINE old == IF toml.readable THEN toml.lines ELSE <<>>
           new == set_setting(old, call.key, call.value)
<1>2. IsText(old)
  <2>1. IsText(toml.lines)
    BY DEF SettingsInv, SettingsTypeOK, IsFile
  <2>2. IsText(<<>>)
    BY FS_EmptySet DEF IsText
  <2> QED
    BY <2>1, <2>2
<1>3. call.key \in Keys /\ call.value \in Int
  BY <1>1 DEF Call
<1>4. /\ IsText(new)
      /\ \A i \in DOMAIN new : new[i].key # call.key => i \in DOMAIN old /\ new[i] = old[i]
  BY <1>2, <1>3, SetLines
<1>5. Written(toml, call.key, call.value) = [readable |-> TRUE, lines |-> new]
  BY DEF Written
<1>6. parse(new) = With(parse(old), call)
  BY <1>1, <1>2, ParseOfSet
<1> HIDE DEF new
<1>7. IsFile(Written(toml, call.key, call.value))
  <2> DEFINE f == [readable |-> TRUE, lines |-> new]
  <2>1. f.readable = TRUE /\ f.lines = new /\ f = [readable |-> f.readable, lines |-> f.lines]
    OBVIOUS
  <2>2. f.readable \in BOOLEAN
    BY <2>1, Zenon
  <2> HIDE DEF f
  <2>3. IsFile(f)
    BY <1>4, <2>1, <2>2 DEF IsFile
  <2> QED
    BY <1>5, <2>3 DEF f
<1>8. ASSUME trusted PROVE Parses(new) /\ parse(new) = With(mem, call)
  <2>1. toml.readable /\ Parses(toml.lines) /\ parse(toml.lines) = mem
    BY <1>8 DEF SettingsInv, FileInStep
  <2>2. parse(new) = With(mem, call)
    BY <1>6, <2>1
  <2>3. \A i \in DOMAIN new : new[i].key # "?"
    BY <1>3, <1>4, <2>1 DEF Parses, Keys
  <2>4. Band(parse(new))
    BY <1>1, <2>2
  <2> QED
    BY <2>2, <2>3, <2>4 DEF Parses, Band
<1>9. toml.readable => new = set_setting(toml.lines, call.key, call.value)
  BY DEF new
<1> QED
  BY <1>1, <1>5, <1>7, <1>8, <1>9

LEMMA ApplyInv == SettingsInv /\ apply_setting => SettingsInv'
<1> SUFFICES ASSUME SettingsInv, apply_setting PROVE SettingsInv'
  OBVIOUS
<1> DEFINE call == Head(todo)
<1>1. /\ todo # <<>> /\ mem' = With(mem, call) /\ todo' = Tail(todo)
      /\ UNCHANGED <<oauth, screen, rows>>
      /\ \/ toml' = Written(toml, call.key, call.value) /\ UNCHANGED <<mishaps, trusted>>
         \/ /\ mishaps < MaxMishaps
            /\ toml' \in {toml, Emptied} /\ trusted' = FALSE /\ mishaps' = mishaps + 1
  BY DEF apply_setting, With
<1>2. /\ call \in Call /\ ~ Clears(call) /\ Band(With(mem, call))
      /\ IsFile(Written(toml, call.key, call.value))
      /\ trusted => /\ Parses(Written(toml, call.key, call.value).lines)
                    /\ parse(Written(toml, call.key, call.value).lines) = With(mem, call)
  BY <1>1, WrittenFacts
<1>3. mem \in Settled /\ mem' \in Settled
  BY <1>1, <1>2, WithFields DEF SettingsInv, SettingsTypeOK, Settled
<1>4. IsFile(toml')
  <2>1. IsFile(toml)
    BY DEF SettingsInv, SettingsTypeOK
  <2>2. IsFile(Emptied)
    BY FS_EmptySet DEF IsFile, IsText, Emptied
  <2> QED
    BY <1>1, <1>2, <2>1, <2>2
<1>5. trusted' \in BOOLEAN /\ mishaps' \in 0 .. MaxMishaps
  <2>1. trusted \in BOOLEAN /\ mishaps \in 0 .. MaxMishaps
    BY DEF SettingsInv, SettingsTypeOK
  <2>2. trusted' \in BOOLEAN
    BY <1>1, <2>1, Zenon
  <2>3. mishaps' \in 0 .. MaxMishaps
    BY <1>1, <2>1, MishapsAssumption
  <2> QED
    BY <2>2, <2>3
<1>6. todo' \in Seq([key : Keys, value : Int])
  <2>1. todo \in Seq([key : Keys, value : Int])
    BY DEF SettingsInv, SettingsTypeOK
  <2> QED
    BY <1>1, <2>1
<1>7. SettingsTypeOK'
  BY <1>1, <1>3, <1>4, <1>5, <1>6 DEF SettingsInv, SettingsTypeOK, Settled
<1>8. screen' # "none"
  BY <1>1 DEF SettingsInv
<1>9. InStep'
  <2>1. Band(mem')
    BY <1>1, <1>2
  <2>2. CASE \E c \in Call : todo = <<c>> /\ Shows(With(mem, c))
    <3>1. todo' = <<>> /\ Shows(mem')
      BY <1>1, <2>2
    <3>2. Shows(mem)'
      BY <1>1, <3>1 DEF Shows
    <3> QED
      BY <2>1, <3>1, <3>2 DEF InStep
  <2>3. CASE \E c, d \in Call :
              /\ todo = <<c, d>> /\ ~ Clears(c) /\ ~ Clears(d)
              /\ Band(With(mem, c)) /\ Band(With(With(mem, c), d)) /\ Shows(With(With(mem, c), d))
    <3>1. PICK c \in Call, d \in Call :
            /\ todo = <<c, d>> /\ ~ Clears(d)
            /\ Band(With(With(mem, c), d)) /\ Shows(With(With(mem, c), d))
      BY <2>3
    <3>2. todo' = <<d>> /\ mem' = With(mem, c)
      BY <1>1, <3>1
    <3>3. Shows(With(mem, d))'
      BY <1>1, <3>1, <3>2 DEF Shows
    <3>4. Band(With(mem, d))'
      BY <3>1, <3>2
    <3>5. todo' # <<>>
      BY <3>2
    <3> QED
      BY <2>1, <3>1, <3>2, <3>3, <3>4, <3>5 DEF InStep
  <2> QED
    BY <1>1, <2>2, <2>3 DEF SettingsInv, InStep
<1>10. FileInStep'
  <2> SUFFICES ASSUME trusted'
               PROVE  toml'.readable /\ Parses(toml'.lines) /\ parse(toml'.lines) = mem'
    BY DEF FileInStep
  <2>1. toml' = Written(toml, call.key, call.value) /\ trusted
    BY <1>1
  <2>2. toml'.readable
    BY <2>1 DEF Written
  <2> QED
    BY <1>1, <1>2, <2>1, <2>2
<1> QED
  BY <1>7, <1>8, <1>9, <1>10 DEF SettingsInv

LEMMA SettingsNextInv == SettingsInv /\ [SettingsNext]_settingsVars => SettingsInv'
<1> SUFFICES ASSUME SettingsInv, [SettingsNext]_settingsVars PROVE SettingsInv'
  OBVIOUS
<1>1. CASE UNCHANGED settingsVars
  <2>1. UNCHANGED <<toml, oauth, screen, mem, rows, todo, mishaps, trusted>>
    BY <1>1 DEF settingsVars
  <2>2. SettingsTypeOK'
    BY <2>1 DEF SettingsInv, SettingsTypeOK
  <2>3. InStep' /\ FileInStep'
    BY <2>1 DEF SettingsInv, InStep, Shows, FileInStep
  <2> QED
    BY <2>1, <2>2, <2>3 DEF SettingsInv
<1>2. CASE Activate \/ Stop \/ EditByHand \/ OpenDialog \/ CloseDialog \/ apply_setting
  BY <1>2, ActivateInv, StopInv, EditInv, DialogInv, ApplyInv
<1>3. ASSUME NEW hour \in 0 .. LastHour - 1, MoveStart(hour) PROVE SettingsInv'
  BY <1>3, MoveStartInv
<1>4. ASSUME NEW hour \in 1 .. LastHour, MoveEnd(hour) PROVE SettingsInv'
  BY <1>4, MoveEndInv
<1>5. ASSUME NEW zone \in Zones, ChooseZone(zone) PROVE SettingsInv'
  BY <1>5, ChooseZoneInv
<1>6. ASSUME NEW zone \in Zones \union {Unset}, ChooseSecond(zone) PROVE SettingsInv'
  BY <1>6, ChooseSecondInv
<1> QED
  BY <1>1, <1>2, <1>3, <1>4, <1>5, <1>6 DEF SettingsNext

-----------------------------------------------------------------------------
(* The theorems. *)

(* The file, the settings in effect, the dialog and the calls that wait    *)
(* are always in step. *)
THEOREM SettingsInductive == SettingsSpec => []SettingsInv
  BY SettingsInitInv, SettingsNextInv, PTL DEF SettingsSpec

(* Whatever the user's file looked like, as long as it could be read and   *)
(* nobody else wrote it: killed at any point, the program finds on its     *)
(* next start the settings it ran with (set_setting, parse, apply_setting).*)
THEOREM ARestartFindsTheSettings == SettingsSpec => []RestartKeepsTheSettings
<1>1. SettingsInv => RestartKeepsTheSettings
  BY DEF SettingsInv, FileInStep, RestartKeepsTheSettings, load
<1> QED
  BY <1>1, SettingsInductive, PTL

(* The dialog shows what is in effect, and a band of hours, whenever no    *)
(* row of it is being moved (preferences.rs).                              *)
THEOREM TheDialogShowsTheSettings == SettingsSpec => []RowsTellTheTruth
<1>1. SettingsInv => RowsTellTheTruth
  <2> SUFFICES ASSUME SettingsInv, Idle, rows.open
               PROVE  /\ rows.core_hours_start < rows.core_hours_end
                      /\ \A key \in Keys : mem[key] \in Zones \/ key \in {"core_hours_start", "core_hours_end"}
                                             => rows[key] = mem[key]
    BY DEF RowsTellTheTruth
  <2>1. rows \in ShownRows /\ mem \in Settled /\ Band(mem) /\ Shows(mem)
    BY Movable
  <2>2. rows.core_hours_start < rows.core_hours_end
    BY <2>1 DEF Band, Shows
  <2>3. ASSUME NEW key \in Keys, mem[key] \in Zones \/ key \in {"core_hours_start", "core_hours_end"}
        PROVE  rows[key] = mem[key]
    <3>1. CASE key = "timezone"
      BY <2>1, <2>3, <3>1 DEF Shows
    <3>2. CASE key = "secondary_timezone"
      BY <2>1, <2>3, <3>2 DEF Shows
    <3>3. CASE key = "core_hours_start"
      BY <2>1, <3>3 DEF Shows
    <3>4. CASE key = "core_hours_end"
      BY <2>1, <3>4 DEF Shows
    <3> QED
      BY <3>1, <3>2, <3>3, <3>4 DEF Keys
  <2> QED
    BY <2>2, <2>3
<1> QED
  BY <1>1, SettingsInductive, PTL

(* "Leaving everything else exactly as the user left it" (config.rs): a    *)
(* write by the program touches the lines of one key, whatever the file.   *)
THEOREM OtherLinesStay == SettingsSpec => TheRestIsTheUsers
<1> DEFINE A == mishaps' = mishaps /\ toml' # toml /\ toml.readable
                  => \E key \in Keys : Others(toml'.lines, key) = Others(toml.lines, key)
<1>1. ASSUME SettingsInv, SettingsNext PROVE A
  <2> SUFFICES ASSUME mishaps' = mishaps, toml' # toml, toml.readable
               PROVE  \E key \in Keys : Others(toml'.lines, key) = Others(toml.lines, key)
    OBVIOUS
  <2>1. mishaps \in Nat
    <3>1. mishaps \in 0 .. MaxMishaps
      BY <1>1 DEF SettingsInv, SettingsTypeOK
    <3> QED
      BY <3>1, MishapsAssumption
  <2>2. apply_setting
    <3>1. ~ (Activate \/ Stop \/ OpenDialog \/ CloseDialog)
      BY DEF Activate, Stop, OpenDialog, CloseDialog
    <3>2. mishaps + 1 # mishaps
      BY <2>1
    <3>3. ~ EditByHand
      BY <3>2 DEF EditByHand
    <3>4. \A moved, calls : ~ Tell(moved, calls)
      BY DEF Tell
    <3>5. \A hour : ~ MoveStart(hour) /\ ~ MoveEnd(hour)
      BY <3>4 DEF MoveStart, MoveEnd
    <3>6. \A zone : ~ ChooseZone(zone) /\ ~ ChooseSecond(zone)
      BY <3>4 DEF ChooseZone, ChooseSecond
    <3> QED
      BY <1>1, <3>1, <3>3, <3>5, <3>6 DEF SettingsNext
  <2> DEFINE call == Head(todo)
  <2>3. todo # <<>> /\ toml' = Written(toml, call.key, call.value)
    BY <2>1, <2>2 DEF apply_setting
  <2>4. call \in Call /\ toml'.lines = set_setting(toml.lines, call.key, call.value)
    BY <1>1, <2>3, WrittenFacts
  <2>5. call.key \in Keys /\ call.value \in Int /\ IsText(toml.lines)
    BY <1>1, <2>4 DEF Call, SettingsInv, SettingsTypeOK, IsFile
  <2>6. /\ IsText(toml'.lines)
        /\ \A i \in DOMAIN toml.lines : toml.lines[i].key # call.key
             => i \in DOMAIN toml'.lines /\ toml'.lines[i] = toml.lines[i]
        /\ \A i \in DOMAIN toml'.lines : toml'.lines[i].key # call.key
             => i \in DOMAIN toml.lines /\ toml'.lines[i] = toml.lines[i]
    BY <2>4, <2>5, SetLines
  <2>7. Others(toml'.lines, call.key) = Others(toml.lines, call.key)
    BY <2>6 DEF Others, Restrict
  <2> QED
    BY <2>5, <2>7
<1>2. SettingsInv /\ [SettingsNext]_settingsVars => [A]_settingsVars
  BY <1>1
<1> QED
  BY <1>2, SettingsInductive, PTL DEF SettingsSpec, TheRestIsTheUsers
=============================================================================
