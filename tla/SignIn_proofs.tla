---------------------------- MODULE SignIn_proofs ----------------------------
(***************************************************************************)
(* Theorems about SignIn, for any attempts, people, ports and page tokens: *)
(* its types, that an account in the store has tokens or somebody about to *)
(* store them, and that every step is one of Consent's.  When an attempt   *)
(* ends is left to TLC.                                                    *)
(***************************************************************************)
EXTENDS SignIn, TLAPS

-----------------------------------------------------------------------------
(* The inductive invariant. *)

(* An attempt has one page, from when it began on.                         *)
OnePage ==
  /\ \A page \in pages : step[page.of] # "idle"
  /\ \A page, other \in pages : page.of = other.of => page = other

(* Where code or tokens are in hand, they are of somebody who answered on  *)
(* the attempt's own page.                                                 *)
InHand == {"exchanging", "listing", "refreshing", "profile", "recording", "keeping"}
Consented ==
  \A a \in Attempt : step[a] \in InHand =>
    \E page \in pages : page.of = a /\ page.answer \in Person /\ page.answer = tokens[a].of

(* Whoever has a row has answered. *)
RowsConsented == \A p \in rows : \E page \in pages : page.answer = p

(* Only what is over has been told. *)
ToldWhenOver == \A a \in Attempt : told[a] => step[a] \in Ended

IInv ==
  /\ TypeOK
  /\ OnePage
  /\ Consented
  /\ RowsConsented
  /\ ToldWhenOver
  /\ SeenMeansAuthenticated

LEMMA InitInv == Init => IInv
  BY SignInAssumption
     DEF Init, IInv, TypeOK, Steps, Ended, NoTokens, FirstPage, OnePage, InHand, Consented,
         RowsConsented, ToldWhenOver, SeenMeansAuthenticated

-----------------------------------------------------------------------------
(* Types. *)

LEMMA GetTyped ==
  ASSUME TypeOK, NEW a \in Attempt, Listed(a)
  PROVE  get' \in [Attempt -> [page : PageToken \union {NoToken}, refreshed : BOOLEAN]]
  <1>1. CASE UNCHANGED get
    BY <1>1 DEF TypeOK
  <1>2. ASSUME NEW next \in PageToken \union {NoToken},
               get' = [get EXCEPT ![a] = [page |-> next, refreshed |-> FALSE]]
        PROVE  get' \in [Attempt -> [page : PageToken \union {NoToken}, refreshed : BOOLEAN]]
    BY <1>2 DEF TypeOK
  <1> QED BY <1>1, <1>2 DEF Listed

LEMMA RefreshedTyped ==
  ASSUME TypeOK, NEW a \in Attempt, refresh_access_token(a)
  PROVE  tokens' \in [Attempt -> [of : Person \union {Nobody}, refresh : BOOLEAN]]
  <1>1. CASE UNCHANGED tokens
    BY <1>1 DEF TypeOK
  <1>2. ASSUME NEW reissued \in BOOLEAN,
               tokens' = [tokens EXCEPT ![a].refresh = tokens_from_response(reissued, @)]
        PROVE  tokens' \in [Attempt -> [of : Person \union {Nobody}, refresh : BOOLEAN]]
    <2>1. tokens_from_response(reissued, tokens[a].refresh) \in BOOLEAN
      BY DEF tokens_from_response
    <2> QED BY <1>2, <2>1 DEF TypeOK
  <1> QED BY <1>1, <1>2 DEF refresh_access_token

LEMMA ExchangedTyped ==
  ASSUME TypeOK, NEW a \in Attempt, exchange_code(a)
  PROVE  tokens' \in [Attempt -> [of : Person \union {Nobody}, refresh : BOOLEAN]]
  <1>1. CASE UNCHANGED tokens
    BY <1>1 DEF TypeOK
  <1>2. ASSUME NEW reissued \in BOOLEAN,
               tokens' = [tokens EXCEPT ![a].refresh = tokens_from_response(reissued, FALSE)]
        PROVE  tokens' \in [Attempt -> [of : Person \union {Nobody}, refresh : BOOLEAN]]
    <2>1. tokens_from_response(reissued, FALSE) \in BOOLEAN
      BY DEF tokens_from_response
    <2> QED BY <1>2, <2>1 DEF TypeOK
  <1> QED BY <1>1, <1>2 DEF exchange_code

(* What an answered page says to an attempt, and what becomes of it. *)
LEMMA Redirected ==
  ASSUME TypeOK, NEW page \in pages, NEW a \in Attempt, Redirect(page, a)
  PROVE  \/ (Goes(a, "failed") \/ Goes(a, "declined")) /\ UNCHANGED tokens
         \/ /\ page.of = a /\ page.answer \in Person
            /\ Goes(a, "exchanging")
            /\ tokens' = [tokens EXCEPT ![a].of = page.answer]
  <1>1. page.answer \in Person \union {Refused}
    BY DEF Redirect, TypeOK, Page
  <1>2. CASE page.of # a
    <2>1. parse_redirect(page, a) = "mismatch"
      BY <1>2 DEF parse_redirect
    <2> QED BY <2>1 DEF Redirect
  <1>3. CASE page.of = a /\ page.answer = Refused
    <2>1. parse_redirect(page, a) = "denied"
      BY <1>3, SignInAssumption DEF parse_redirect
    <2> QED BY <2>1 DEF Redirect
  <1>4. CASE page.of = a /\ page.answer \in Person
    <2>1. parse_redirect(page, a) = "code"
      BY <1>4, SignInAssumption DEF parse_redirect
    <2> QED BY <1>4, <2>1 DEF Redirect
  <1> QED BY <1>1, <1>2, <1>3, <1>4

LEMMA WorkTyped ==
  ASSUME TypeOK, Consented, NEW a \in Attempt, Work(a)
  PROVE  TypeOK'
  <1>1. CASE GiveUp(a)
    BY <1>1 DEF GiveUp, Goes, TypeOK, Steps, Ended
  <1>2. CASE exchange_code(a)
    <2>1. step' \in [Attempt -> Steps]
      BY <1>2 DEF exchange_code, Goes, TypeOK, Steps, Ended
    <2>2. tokens' \in [Attempt -> [of : Person \union {Nobody}, refresh : BOOLEAN]]
      BY <1>2, ExchangedTyped
    <2> QED BY <1>2, <2>1, <2>2 DEF exchange_code, TypeOK
  <1>3. CASE calendar_list(a)
    <2>1. step' \in [Attempt -> Steps]
      BY <1>3 DEF calendar_list, Listed, Unauthorized, Goes, TypeOK, Steps, Ended
    <2>2. get' \in [Attempt -> [page : PageToken \union {NoToken}, refreshed : BOOLEAN]]
      BY <1>3, GetTyped DEF calendar_list, Unauthorized, TypeOK
    <2> QED BY <1>3, <2>1, <2>2 DEF calendar_list, TypeOK
  <1>4. CASE refresh_access_token(a)
    <2>1. step' \in [Attempt -> Steps]
      BY <1>4 DEF refresh_access_token, Goes, TypeOK, Steps, Ended
    <2>2. get' \in [Attempt -> [page : PageToken \union {NoToken}, refreshed : BOOLEAN]]
      <3>1. get' = [get EXCEPT ![a].refreshed = TRUE] \/ get' = get
        BY <1>4 DEF refresh_access_token
      <3>2. get \in [Attempt -> [page : PageToken \union {NoToken}, refreshed : BOOLEAN]]
        BY DEF TypeOK
      <3>3. CASE get' = get
        BY <3>2, <3>3
      <3>4. CASE get' = [get EXCEPT ![a].refreshed = TRUE]
        BY <3>2, <3>4
      <3> QED BY <3>1, <3>3, <3>4
    <2>3. tokens' \in [Attempt -> [of : Person \union {Nobody}, refresh : BOOLEAN]]
      BY <1>4, RefreshedTyped DEF refresh_access_token
    <2> QED BY <1>4, <2>1, <2>2, <2>3 DEF refresh_access_token, TypeOK
  <1>5. CASE userinfo(a)
    BY <1>5 DEF userinfo, Goes, TypeOK, Steps, Ended
  <1>6. CASE connect_account(a)
    <2>1. tokens[a].of \in Person
      BY <1>6 DEF connect_account, Consented, InHand
    <2> QED BY <1>6, <2>1 DEF connect_account, Goes, TypeOK, Steps, Ended
  <1>7. CASE keyring_store(a)
    <2>1. tokens[a].of \in Person
      BY <1>7 DEF keyring_store, Consented, InHand
    <2> QED BY <1>7, <2>1 DEF keyring_store, Goes, TypeOK, Steps, Ended
  <1>8. CASE Report(a)
    BY <1>8 DEF Report, TypeOK
  <1> QED BY <1>1, <1>2, <1>3, <1>4, <1>5, <1>6, <1>7, <1>8 DEF Work

LEMMA StartTyped ==
  ASSUME TypeOK, NEW a \in Attempt, Start(a)
  PROVE  TypeOK'
  <1>1. step' \in [Attempt -> Steps]
    BY DEF Start, Goes, TypeOK, Steps, Ended
  <1>2. port' \in [Attempt -> Port \union {NoPort}] /\ pages' \subseteq Page
    <2>1. CASE UNCHANGED <<port, pages>>
      BY <2>1 DEF TypeOK
    <2>2. ASSUME NEW p \in Port,
                 port' = [port EXCEPT ![a] = p],
                 pages' = pages \union {[of |-> a, port |-> p, answer |-> Unanswered]}
          PROVE  port' \in [Attempt -> Port \union {NoPort}] /\ pages' \subseteq Page
      BY <2>2 DEF TypeOK, Page
    <2> QED BY <2>1, <2>2 DEF Start
  <1> QED BY <1>1, <1>2 DEF Start, TypeOK

LEMMA AnswerTyped ==
  ASSUME TypeOK, NEW page \in pages, NEW answer \in Person \union {Refused}, Answer(page, answer)
  PROVE  TypeOK'
  BY DEF Answer, TypeOK, Page

LEMMA RedirectTyped ==
  ASSUME TypeOK, NEW page \in pages, NEW a \in Attempt, Redirect(page, a)
  PROVE  TypeOK'
  <1>1. step' \in [Attempt -> Steps]
    BY Redirected DEF Goes, TypeOK, Steps, Ended
  <1>2. tokens' \in [Attempt -> [of : Person \union {Nobody}, refresh : BOOLEAN]]
    BY Redirected DEF TypeOK
  <1> QED BY <1>1, <1>2 DEF Redirect, TypeOK

-----------------------------------------------------------------------------
(* What the program's own steps do to an attempt, and to no other.         *)

Kept == {"keeping", "stranded"}

LEMMA WorkMoves ==
  ASSUME TypeOK, Consented, ToldWhenOver, NEW a \in Attempt, Work(a)
  PROVE  /\ UNCHANGED pages
         /\ \A b \in Attempt \ {a} :
              step'[b] = step[b] /\ tokens'[b] = tokens[b] /\ told'[b] = told[b]
         /\ step[a] # "idle" /\ step'[a] # "idle"
         /\ tokens'[a].of = tokens[a].of
         /\ step'[a] \in InHand => step[a] \in InHand
         /\ told'[a] => step'[a] \in Ended
  <1> DEFINE Moves ==
        /\ UNCHANGED pages
        /\ \A b \in Attempt \ {a} :
             step'[b] = step[b] /\ tokens'[b] = tokens[b] /\ told'[b] = told[b]
        /\ step[a] # "idle" /\ step'[a] # "idle"
        /\ tokens'[a].of = tokens[a].of
        /\ step'[a] \in InHand => step[a] \in InHand
        /\ told'[a] => step'[a] \in Ended
  <1> SUFFICES Moves
    OBVIOUS
  <1>1. CASE GiveUp(a)
    BY <1>1 DEF GiveUp, Goes, TypeOK, ToldWhenOver, InHand, Ended
  <1>2. CASE exchange_code(a)
    <2>1. \A b \in Attempt \ {a} : tokens'[b] = tokens[b]
      BY <1>2 DEF exchange_code, TypeOK
    <2>2. tokens'[a].of = tokens[a].of
      BY <1>2 DEF exchange_code, TypeOK
    <2> QED BY <1>2, <2>1, <2>2 DEF exchange_code, Goes, TypeOK, ToldWhenOver, InHand, Ended
  <1>3. CASE calendar_list(a)
    BY <1>3 DEF calendar_list, Listed, Unauthorized, Goes, TypeOK, ToldWhenOver, InHand, Ended
  <1>4. CASE refresh_access_token(a)
    <2>1. \A b \in Attempt \ {a} : tokens'[b] = tokens[b]
      BY <1>4 DEF refresh_access_token, TypeOK
    <2>2. tokens'[a].of = tokens[a].of
      BY <1>4 DEF refresh_access_token, TypeOK
    <2> QED
      BY <1>4, <2>1, <2>2 DEF refresh_access_token, Goes, TypeOK, ToldWhenOver, InHand, Ended
  <1>5. CASE userinfo(a)
    BY <1>5 DEF userinfo, Goes, TypeOK, ToldWhenOver, InHand, Ended
  <1>6. CASE connect_account(a)
    BY <1>6 DEF connect_account, Goes, TypeOK, ToldWhenOver, InHand, Ended
  <1>7. CASE keyring_store(a)
    BY <1>7 DEF keyring_store, Goes, TypeOK, ToldWhenOver, InHand, Ended
  <1>8. CASE Report(a)
    BY <1>8 DEF Report, TypeOK, InHand, Ended
  <1> QED BY <1>1, <1>2, <1>3, <1>4, <1>5, <1>6, <1>7, <1>8 DEF Work

LEMMA WorkKeeps ==
  ASSUME IInv, NEW a \in Attempt, Work(a)
  PROVE  OnePage' /\ Consented' /\ RowsConsented' /\ ToldWhenOver'
  <1> USE DEF IInv
  <1>1. OnePage'
    BY WorkMoves DEF OnePage, TypeOK, Page
  <1>2. Consented'
    BY WorkMoves DEF Consented
  <1>3. ToldWhenOver'
    BY WorkMoves DEF ToldWhenOver
  <1>4. RowsConsented'
    <2>1. CASE connect_account(a)
      BY <2>1, WorkMoves DEF connect_account, Consented, InHand, RowsConsented
    <2>2. CASE ~connect_account(a)
      <3>1. rows' \subseteq rows
        BY <2>2 DEF Work, GiveUp, exchange_code, calendar_list, refresh_access_token,
                    userinfo, keyring_store, Report
      <3> QED BY <3>1, WorkMoves DEF RowsConsented
    <2> QED BY <2>1, <2>2
  <1> QED BY <1>1, <1>2, <1>3, <1>4

(* Where the account may be seen without tokens, one more look at each of  *)
(* the two steps that write.                                               *)
LEMMA WorkSeen ==
  ASSUME IInv, NEW a \in Attempt, Work(a)
  PROVE  SeenMeansAuthenticated'
  <1> USE DEF IInv
  <1>1. CASE connect_account(a)
    <2> SUFFICES ASSUME NEW p \in rows'
                 PROVE  p \in keyring' \/ \E b \in Attempt : step'[b] \in Kept /\ tokens'[b].of = p
      BY DEF SeenMeansAuthenticated, Kept
    <2>1. CASE p \in rows
      <3>1. step[a] \notin Kept
        BY <1>1 DEF connect_account, Kept
      <3> QED BY <1>1, <2>1, <3>1, WorkMoves
              DEF SeenMeansAuthenticated, connect_account, Kept
    <2>2. CASE p \notin rows
      <3>1. p = tokens[a].of /\ step'[a] = "keeping" /\ UNCHANGED tokens
        BY <1>1, <2>2 DEF connect_account, Goes, TypeOK
      <3> QED BY <3>1 DEF Kept
    <2> QED BY <2>1, <2>2
  <1>2. CASE keyring_store(a)
    <2> SUFFICES ASSUME NEW p \in rows'
                 PROVE  p \in keyring' \/ \E b \in Attempt : step'[b] \in Kept /\ tokens'[b].of = p
      BY DEF SeenMeansAuthenticated, Kept
    <2>1. p \in rows /\ keyring \subseteq keyring' /\ UNCHANGED tokens
      BY <1>2 DEF keyring_store
    <2>2. CASE p \in keyring
      BY <2>1, <2>2
    <2>3. CASE p # tokens[a].of /\ p \notin keyring
      <3>1. PICK b \in Attempt : step[b] \in Kept /\ tokens[b].of = p
        BY <2>1, <2>3 DEF SeenMeansAuthenticated, Kept
      <3> QED BY <2>1, <2>3, <3>1, WorkMoves
    <2>4. CASE p = tokens[a].of
      <3>1. CASE keyring' = keyring \union {tokens[a].of}
        BY <2>4, <3>1
      <3>2. CASE rows' = rows \ {tokens[a].of}
        BY <2>4, <3>2
      <3>3. CASE Goes(a, "stranded")
        <4>1. step'[a] \in Kept
          BY <3>3 DEF Goes, TypeOK, Kept
        <4> QED BY <2>1, <2>4, <4>1
      <3> QED BY <1>2, <3>1, <3>2, <3>3 DEF keyring_store
    <2> QED BY <2>2, <2>3, <2>4
  <1>3. CASE ~connect_account(a) /\ ~keyring_store(a)
    <2>1. UNCHANGED <<rows, keyring>>
      BY <1>3 DEF Work, GiveUp, exchange_code, calendar_list, refresh_access_token, userinfo, Report
    <2>2. step[a] \in Kept => step'[a] = step[a]
      BY <1>3 DEF Work, GiveUp, exchange_code, calendar_list, refresh_access_token, userinfo,
                  Report, Kept
    <2> QED BY <2>1, <2>2, WorkMoves DEF SeenMeansAuthenticated, Kept
  <1> QED BY <1>1, <1>2, <1>3

-----------------------------------------------------------------------------
(* The user's steps, and the redirect's.                                   *)

LEMMA StartKeeps ==
  ASSUME IInv, NEW a \in Attempt, Start(a)
  PROVE  /\ OnePage' /\ Consented' /\ RowsConsented' /\ ToldWhenOver'
         /\ SeenMeansAuthenticated'
  <1> USE DEF IInv
  <1>1. /\ step[a] = "idle" /\ step'[a] \in {"waiting", "failed"}
        /\ \A b \in Attempt \ {a} : step'[b] = step[b]
        /\ UNCHANGED <<tokens, rows, keyring, told>>
    BY DEF Start, Goes, TypeOK
  <1>2. \A page \in pages : page.of # a
    BY <1>1 DEF OnePage
  <1>3. \/ UNCHANGED pages
        \/ \E p \in Port : pages' = pages \union {[of |-> a, port |-> p, answer |-> Unanswered]}
    BY DEF Start
  <1>4. OnePage'
    <2>1. CASE UNCHANGED pages
      BY <1>1, <2>1 DEF OnePage, TypeOK, Page
    <2>2. ASSUME NEW p \in Port,
                 pages' = pages \union {[of |-> a, port |-> p, answer |-> Unanswered]}
          PROVE  OnePage'
      BY <1>1, <1>2, <2>2 DEF OnePage, TypeOK, Page
    <2> QED BY <1>3, <2>1, <2>2
  <1>5. Consented'
    BY <1>1, <1>3 DEF Consented, InHand
  <1>6. ToldWhenOver'
    BY <1>1 DEF ToldWhenOver, Ended
  <1>7. SeenMeansAuthenticated'
    BY <1>1 DEF SeenMeansAuthenticated
  <1>8. RowsConsented'
    BY <1>1, <1>3 DEF RowsConsented
  <1> QED BY <1>4, <1>5, <1>6, <1>7, <1>8

LEMMA AnswerKeeps ==
  ASSUME IInv, NEW page \in pages, NEW answer \in Person \union {Refused}, Answer(page, answer)
  PROVE  /\ OnePage' /\ Consented' /\ RowsConsented' /\ ToldWhenOver'
         /\ SeenMeansAuthenticated'
  <1> USE DEF IInv
  <1> DEFINE answered == [page EXCEPT !.answer = answer]
  <1>1. /\ UNCHANGED <<step, tokens, rows, keyring, told>>
        /\ pages' = (pages \ {page}) \union {answered}
        /\ page.answer = Unanswered
    BY DEF Answer
  <1>2. page \in Page /\ answered.of = page.of
    BY DEF TypeOK, Page
  <1>3. OnePage'
    BY <1>1, <1>2 DEF OnePage
  <1>4. Consented'
    BY <1>1, SignInAssumption DEF Consented
  <1>5. ToldWhenOver' /\ SeenMeansAuthenticated'
    BY <1>1 DEF ToldWhenOver, SeenMeansAuthenticated
  <1>6. RowsConsented'
    BY <1>1, SignInAssumption DEF RowsConsented, TypeOK
  <1> QED BY <1>3, <1>4, <1>5, <1>6

LEMMA RedirectKeeps ==
  ASSUME IInv, NEW page \in pages, NEW a \in Attempt, Redirect(page, a)
  PROVE  /\ OnePage' /\ Consented' /\ RowsConsented' /\ ToldWhenOver'
         /\ SeenMeansAuthenticated'
  <1> USE DEF IInv
  <1>1. /\ step[a] = "waiting" /\ step'[a] \in {"failed", "declined", "exchanging"}
        /\ \A b \in Attempt \ {a} : step'[b] = step[b] /\ tokens'[b].of = tokens[b].of
        /\ UNCHANGED <<pages, rows, keyring, told>>
    <2>1. step[a] = "waiting" /\ UNCHANGED <<pages, rows, keyring, told>>
      BY DEF Redirect
    <2>2. /\ step'[a] \in {"failed", "declined", "exchanging"}
          /\ \A b \in Attempt \ {a} : step'[b] = step[b] /\ tokens'[b].of = tokens[b].of
      BY Redirected DEF Goes, TypeOK
    <2> QED BY <2>1, <2>2
  <1>2. OnePage'
    BY <1>1 DEF OnePage, TypeOK, Page
  <1>3. Consented'
    <2>1. step'[a] \in InHand =>
            page.of = a /\ page.answer \in Person /\ page.answer = tokens'[a].of
      BY Redirected DEF Goes, TypeOK, InHand
    <2> QED BY <1>1, <2>1 DEF Consented
  <1>4. ToldWhenOver'
    BY <1>1 DEF ToldWhenOver, Ended
  <1>5. SeenMeansAuthenticated'
    BY <1>1 DEF SeenMeansAuthenticated
  <1>6. RowsConsented'
    BY <1>1 DEF RowsConsented
  <1> QED BY <1>2, <1>3, <1>4, <1>5, <1>6

-----------------------------------------------------------------------------
LEMMA NextInv ==
  ASSUME IInv, [Next]_vars
  PROVE  IInv'
  <1> USE DEF IInv
  <1>1. ASSUME NEW a \in Attempt, Work(a)
        PROVE  IInv'
    BY <1>1, WorkTyped, WorkKeeps, WorkSeen
  <1>2. ASSUME NEW a \in Attempt, Start(a)
        PROVE  IInv'
    BY <1>2, StartTyped, StartKeeps
  <1>3. ASSUME NEW page \in pages, NEW answer \in Person \union {Refused}, Answer(page, answer)
        PROVE  IInv'
    BY <1>3, AnswerTyped, AnswerKeeps
  <1>4. ASSUME NEW page \in pages, NEW a \in Attempt, Redirect(page, a)
        PROVE  IInv'
    BY <1>4, RedirectTyped, RedirectKeeps
  <1>5. CASE UNCHANGED vars
    BY <1>5 DEF vars, TypeOK, OnePage, Consented, RowsConsented, ToldWhenOver,
                SeenMeansAuthenticated
  <1> QED BY <1>1, <1>2, <1>3, <1>4, <1>5 DEF Next

THEOREM Inductive == Spec => []IInv
  BY InitInv, NextInv, PTL DEF Spec

(* Every variable of SignIn keeps its type, for any number of attempts,    *)
(* answers, pages and failures.                                            *)
THEOREM SignInTypeCorrect == Spec => []TypeOK
  <1>1. IInv => TypeOK
    BY DEF IInv
  <1> QED BY <1>1, Inductive, PTL

(* An account in the store can be synced, or an attempt is about to make   *)
(* it so, or has failed twice: at storing its tokens and at taking its row *)
(* back.  However many attempts for one account overlap.                   *)
THEOREM SeenIsAuthenticated == Spec => []SeenMeansAuthenticated
  <1>1. IInv => SeenMeansAuthenticated
    BY DEF IInv
  <1> QED BY <1>1, Inductive, PTL

-----------------------------------------------------------------------------
(* Consent's variables, as Abstract maps them.                             *)

status   == [a \in Attempt |-> StatusOf(step[a])]
holder   == [a \in Attempt |-> tokens[a].of]
consents == {<<page.of, page.answer>> : page \in {q \in pages : q.answer \in Person}}

(* What a step does to one attempt, seen from Consent.                     *)
LEMMA OneStatus ==
  ASSUME NEW a \in Attempt, \A b \in Attempt \ {a} : step'[b] = step[b]
  PROVE  status' = [status EXCEPT ![a] = StatusOf(step'[a])]
  BY DEF status

LEMMA SameStatus ==
  ASSUME NEW a \in Attempt, \A b \in Attempt \ {a} : step'[b] = step[b],
         StatusOf(step'[a]) = StatusOf(step[a])
  PROVE  status' = status
  BY DEF status

LEMMA StatusCases ==
  ASSUME NEW s
  PROVE  /\ s = "idle" => StatusOf(s) = "idle"
         /\ s = "waiting" => StatusOf(s) = "asked"
         /\ s \in InHand => StatusOf(s) = "granted"
         /\ s \in Ended => StatusOf(s) = "over"
  BY DEF StatusOf, InHand, Ended

(* Where an attempt may go by itself. *)
LEMMA WorkStatus ==
  ASSUME IInv, NEW a \in Attempt, Work(a)
  PROVE  /\ status' = status \/ (status[a] # "over" /\ status' = [status EXCEPT ![a] = "over"])
         /\ connect_account(a) => status[a] = "granted"
         /\ keyring_store(a) => status[a] # "over" /\ status' = [status EXCEPT ![a] = "over"]
  <1>1. step \in [Attempt -> Steps] /\ step' \in [Attempt -> Steps]
    BY WorkTyped DEF IInv, TypeOK
  <1>2. \A b \in Attempt \ {a} : step'[b] = step[b]
    BY WorkMoves DEF IInv
  <1>3. step[a] \in InHand /\ step'[a] \in InHand => status' = status
    BY <1>2, SameStatus, StatusCases
  <1>4. step[a] \notin Ended /\ step[a] # "idle" => status[a] # "over"
    BY <1>1, StatusCases DEF status, Steps, Ended, InHand
  <1>5. step'[a] \in Ended => status' = [status EXCEPT ![a] = "over"]
    BY <1>2, OneStatus, StatusCases
  <1>6. step'[a] \in InHand \union Ended
    BY <1>1, WorkMoves DEF IInv, Steps, InHand, Ended, Work, GiveUp, exchange_code, calendar_list,
       Listed, Unauthorized, refresh_access_token, userinfo, connect_account, keyring_store,
       Report, Goes
  <1>7. step[a] \in Ended => step'[a] = step[a]
    BY DEF Ended, Work, GiveUp, exchange_code, calendar_list, refresh_access_token, userinfo,
       connect_account, keyring_store, Report
  <1>8. status' = status \/ (status[a] # "over" /\ status' = [status EXCEPT ![a] = "over"])
    <2>1. CASE step[a] \in Ended
      BY <1>2, <1>7, <2>1, SameStatus
    <2>2. CASE step[a] \notin Ended /\ step'[a] \in Ended
      BY <1>4, <1>5, <2>2, WorkMoves DEF IInv
    <2>3. CASE step'[a] \in InHand
      BY <1>3, <2>3, WorkMoves DEF IInv
    <2> QED BY <1>6, <2>1, <2>2, <2>3
  <1>9. connect_account(a) => status[a] = "granted"
    BY StatusCases DEF connect_account, status, InHand
  <1>10. keyring_store(a) => status[a] # "over" /\ status' = [status EXCEPT ![a] = "over"]
    <2> SUFFICES ASSUME keyring_store(a)
                 PROVE  status[a] # "over" /\ status' = [status EXCEPT ![a] = "over"]
      OBVIOUS
    <2>1. step[a] = "keeping" /\ step'[a] \in Ended
      BY <1>1 DEF keyring_store, Goes, Ended
    <2> QED BY <1>4, <1>5, <2>1 DEF Ended
  <1> QED BY <1>8, <1>9, <1>10

LEMMA WorkIsConsents ==
  ASSUME IInv, NEW a \in Attempt, Work(a)
  PROVE  [Abstract!Next]_(Abstract!vars)
  <1>1. holder' = holder
    BY WorkMoves DEF holder, IInv
  <1>2. consents' = consents
    BY WorkMoves DEF consents, IInv
  <1>3. CASE connect_account(a) /\ rows' # rows
    <2>1. status[a] = "granted" /\ rows' = rows \union {holder[a]}
      BY <1>3, WorkStatus DEF connect_account, holder
    <2>2. status' = status
      <3>1. step[a] = "recording" /\ step'[a] = "keeping"
        BY <1>3 DEF connect_account, Goes, IInv, TypeOK
      <3>2. \A b \in Attempt \ {a} : step'[b] = step[b]
        BY WorkMoves DEF IInv
      <3> QED BY <3>1, <3>2, SameStatus, StatusCases DEF InHand
    <2>3. Abstract!Connect(a)
      BY <1>1, <1>2, <2>1, <2>2 DEF Abstract!Connect, status, holder, consents
    <2> QED BY <2>3 DEF Abstract!Next
  <1>4. CASE keyring_store(a)
    <2>1. rows' \in {rows, rows \ {holder[a]}}
      BY <1>4 DEF keyring_store, holder
    <2>2. Abstract!End(a)
      BY <1>1, <1>2, <1>4, <2>1, WorkStatus DEF Abstract!End, status, holder, consents
    <2> QED BY <2>2 DEF Abstract!Next
  <1>5. CASE UNCHANGED rows
    <2>1. CASE status' = status
      BY <1>1, <1>2, <1>5, <2>1 DEF Abstract!vars, status, holder, consents
    <2>2. CASE status[a] # "over" /\ status' = [status EXCEPT ![a] = "over"]
      <3>1. Abstract!End(a)
        BY <1>1, <1>2, <1>5, <2>2 DEF Abstract!End, status, holder, consents
      <3> QED BY <3>1 DEF Abstract!Next
    <2> QED BY <2>1, <2>2, WorkStatus
  <1>6. connect_account(a) \/ keyring_store(a) \/ UNCHANGED rows
    BY DEF Work, GiveUp, exchange_code, calendar_list, refresh_access_token, userinfo, Report
  <1> QED BY <1>3, <1>4, <1>5, <1>6

LEMMA StartIsConsents ==
  ASSUME IInv, NEW a \in Attempt, Start(a)
  PROVE  [Abstract!Next]_(Abstract!vars)
  <1>1. /\ step[a] = "idle" /\ step'[a] \in {"waiting", "failed"}
        /\ \A b \in Attempt \ {a} : step'[b] = step[b]
        /\ UNCHANGED <<tokens, rows>>
    BY DEF Start, Goes, IInv, TypeOK
  <1>2. holder' = holder
    BY <1>1 DEF holder
  <1>3. consents' = consents
    BY SignInAssumption DEF Start, consents
  <1>4. status[a] = "idle"
    BY <1>1, StatusCases DEF status
  <1>5. CASE step'[a] = "waiting"
    <2>1. status' = [status EXCEPT ![a] = "asked"]
      BY <1>1, <1>5, OneStatus, StatusCases
    <2>2. Abstract!Ask(a)
      BY <1>1, <1>2, <1>3, <1>4, <2>1 DEF Abstract!Ask, status, holder, consents
    <2> QED BY <2>2 DEF Abstract!Next
  <1>6. CASE step'[a] = "failed"
    <2>1. status' = [status EXCEPT ![a] = "over"]
      BY <1>1, <1>6, OneStatus, StatusCases DEF Ended
    <2>2. Abstract!End(a)
      BY <1>1, <1>2, <1>3, <1>4, <2>1 DEF Abstract!End, status, holder, consents
    <2> QED BY <2>2 DEF Abstract!Next
  <1> QED BY <1>1, <1>5, <1>6

LEMMA AnswerIsConsents ==
  ASSUME IInv, NEW page \in pages, NEW answer \in Person \union {Refused}, Answer(page, answer)
  PROVE  [Abstract!Next]_(Abstract!vars)
  <1> DEFINE answered == [page EXCEPT !.answer = answer]
  <1>1. /\ UNCHANGED <<step, tokens, rows>>
        /\ pages' = (pages \ {page}) \union {answered}
        /\ page.answer = Unanswered
    BY DEF Answer
  <1>2. page \in Page /\ answered.of = page.of /\ answered.answer = answer
    BY DEF IInv, TypeOK, Page
  <1>3. status' = status /\ holder' = holder
    BY <1>1 DEF status, holder
  <1>4. CASE answer = Refused
    <2>1. consents' = consents
      BY <1>1, <1>2, <1>4, SignInAssumption DEF consents
    <2> QED BY <1>1, <1>3, <2>1 DEF Abstract!vars, status, holder, consents
  <1>5. CASE answer \in Person
    <2>1. consents' = consents \union {<<page.of, answer>>}
      BY <1>1, <1>2, <1>5, SignInAssumption DEF consents
    <2>2. \A q \in Person : <<page.of, q>> \notin consents
      BY <1>1, SignInAssumption DEF consents, IInv, OnePage
    <2>3. page.of \in Attempt /\ status[page.of] # "idle"
      <3>1. page.of \in Attempt /\ step[page.of] \in Steps \ {"idle"}
        BY <1>2 DEF IInv, OnePage, TypeOK, Page
      <3> QED BY <3>1, StatusCases DEF status, Steps, Ended, InHand
    <2>4. Abstract!Say(page.of, answer)
      BY <1>1, <1>3, <2>1, <2>2, <2>3 DEF Abstract!Say, status, holder, consents
    <2> QED BY <1>5, <2>3, <2>4 DEF Abstract!Next
  <1> QED BY <1>4, <1>5

LEMMA RedirectIsConsents ==
  ASSUME IInv, NEW page \in pages, NEW a \in Attempt, Redirect(page, a)
  PROVE  [Abstract!Next]_(Abstract!vars)
  <1>1. step[a] = "waiting" /\ UNCHANGED <<pages, rows>>
    BY DEF Redirect
  <1>2. \A b \in Attempt \ {a} : step'[b] = step[b]
    BY Redirected DEF Goes, IInv, TypeOK
  <1>3. status[a] = "asked" /\ consents' = consents
    BY <1>1, StatusCases DEF status, consents
  <1>4. CASE (Goes(a, "failed") \/ Goes(a, "declined")) /\ UNCHANGED tokens
    <2>1. step'[a] \in Ended
      BY <1>4 DEF Goes, IInv, TypeOK, Ended
    <2>2. status' = [status EXCEPT ![a] = "over"]
      BY <1>2, <2>1, OneStatus, StatusCases
    <2>3. holder' = holder
      BY <1>4 DEF holder
    <2>4. Abstract!End(a)
      BY <1>1, <1>3, <2>2, <2>3 DEF Abstract!End, status, holder, consents
    <2> QED BY <2>4 DEF Abstract!Next
  <1>5. CASE /\ page.of = a /\ page.answer \in Person
             /\ Goes(a, "exchanging")
             /\ tokens' = [tokens EXCEPT ![a].of = page.answer]
    <2>1. step'[a] \in InHand
      BY <1>5 DEF Goes, IInv, TypeOK, InHand
    <2>2. status' = [status EXCEPT ![a] = "granted"]
      BY <1>2, <2>1, OneStatus, StatusCases
    <2>3. holder' = [holder EXCEPT ![a] = page.answer]
      BY <1>5 DEF holder, IInv, TypeOK
    <2>4. <<a, page.answer>> \in consents
      BY <1>5 DEF consents
    <2>5. Abstract!Grant(a, page.answer)
      BY <1>1, <1>3, <2>2, <2>3, <2>4 DEF Abstract!Grant, status, holder, consents
    <2> QED BY <1>5, <2>5 DEF Abstract!Next
  <1> QED BY <1>4, <1>5, Redirected DEF IInv

(* Every step of SignIn is a step of Consent or one that Consent does not  *)
(* see: whatever pages are open and whichever ports are used again, no     *)
(* attempt takes up an answer that was not given on its own page.  (That   *)
(* attempts end as ImplementsConsent says is TLC's.)                       *)
THEOREM StepsAreConsents == Spec => Abstract!Moves
  <1>1. Init => Abstract!Init
    <2> SUFFICES ASSUME Init
                 PROVE  Abstract!Init
      OBVIOUS
    <2>1. status = [a \in Attempt |-> "idle"]
      BY StatusCases DEF Init, status
    <2>2. holder = [a \in Attempt |-> Nobody]
      BY DEF Init, holder, NoTokens
    <2>3. consents = {} /\ rows = {}
      BY DEF Init, consents
    <2> QED BY <2>1, <2>2, <2>3 DEF Abstract!Init, status, holder, consents
  <1>2. ASSUME IInv, [Next]_vars
        PROVE  [Abstract!Next]_(Abstract!vars)
    <2>1. CASE UNCHANGED vars
      BY <2>1 DEF vars, Abstract!vars
    <2> QED
      BY <1>2, <2>1, WorkIsConsents, StartIsConsents, AnswerIsConsents, RedirectIsConsents DEF Next
  <1> QED BY <1>1, <1>2, Inductive, PTL DEF Spec, Abstract!Moves

(* Whoever's account is in the store has consented to it on a page that    *)
(* one of the attempts opened.                                             *)
THEOREM ConnectedMeansConsented == Spec => []Abstract!OnlyWithConsent
  <1>1. ASSUME IInv
        PROVE  Abstract!OnlyWithConsent
    <2> SUFFICES ASSUME NEW p \in rows
                 PROVE  \E a \in Attempt : <<a, p>> \in consents
      BY DEF Abstract!OnlyWithConsent, consents
    <2>1. PICK page \in pages : page.answer = p
      BY <1>1 DEF IInv, RowsConsented
    <2>2. p \in Person /\ page.of \in Attempt
      BY <1>1 DEF IInv, TypeOK, Page
    <2> QED BY <2>1, <2>2 DEF consents
  <1> QED BY <1>1, Inductive, PTL
=============================================================================
