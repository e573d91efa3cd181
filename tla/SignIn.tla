------------------------------- MODULE SignIn -------------------------------
(***************************************************************************)
(* Connecting an account: the consent page in the browser, the listener on *)
(* a loopback port that waits for its redirect, the exchange of the code,  *)
(* the session that lists the calendars page by page and refreshes its     *)
(* access token when Google refuses it, and the two writes at the end.     *)
(* Attempts overlap: what starts one are the preferences dialog's buttons, *)
(* which stay enabled while one runs.  (The button that is disabled, ui's  *)
(* connect_button, is not put on screen.)  A page stays open in the        *)
(* browser after its attempt, and a port that was freed is used again.     *)
(***************************************************************************)
CONSTANTS
  Attempt, Person, Nobody,
  Port, NoPort,
  PageToken, NoToken   \* nextPageToken of a calendar list's page, if it has one

Unanswered == "unanswered"
Refused == "refused"

ASSUME SignInAssumption ==
  /\ {Nobody, Unanswered, Refused} \intersect Person = {}
  /\ NoPort \notin Port
  /\ NoToken \notin PageToken

VARIABLES
  step,       \* per attempt: how far connect has come
  port,       \* per attempt: the port its listener holds
  pages,      \* consent pages in the browser: whose attempt, its port, the answer
  tokens,     \* per attempt: whose they are, and whether one to refresh with is among them
  get,        \* per attempt: the token of the page asked for, and whether this get has refreshed
  rows,       \* accounts in the store
  keyring,    \* accounts with tokens in the keyring
  told        \* per attempt: whether its end was shown to the user

vars == <<step, port, pages, tokens, get, rows, keyring, told>>

Ended == {"connected", "declined", "failed", "stranded"}
Steps == {"idle", "waiting", "exchanging", "listing", "refreshing", "profile",
          "recording", "keeping"} \union Ended
Page == [of : Attempt, port : Port, answer : Person \union {Unanswered, Refused}]
NoTokens == [of |-> Nobody, refresh |-> FALSE]
FirstPage == [page |-> NoToken, refreshed |-> FALSE]

Init ==
  /\ step = [a \in Attempt |-> "idle"]
  /\ port = [a \in Attempt |-> NoPort]
  /\ pages = {}
  /\ tokens = [a \in Attempt |-> NoTokens]
  /\ get = [a \in Attempt |-> FirstPage]
  /\ rows = {} /\ keyring = {}
  /\ told = [a \in Attempt |-> FALSE]

Goes(a, s) == step' = [step EXCEPT ![a] = s]

-----------------------------------------------------------------------------
(* start_connect, then begin, bind and the browser: a port nobody listens  *)
(* on, and a page that will redirect to it.                                *)
Start(a) ==
  /\ step[a] = "idle"
  /\ \/ \E p \in Port \ {port[b] : b \in Attempt} :
          /\ Goes(a, "waiting")
          /\ port' = [port EXCEPT ![a] = p]
          /\ pages' = pages \union {[of |-> a, port |-> p, answer |-> Unanswered]}
     \/ Goes(a, "failed") /\ UNCHANGED <<port, pages>>
  /\ UNCHANGED <<tokens, get, rows, keyring, told>>

(* The user, on a page, whenever it suits.                                 *)
Answer(page, answer) ==
  /\ page \in pages /\ page.answer = Unanswered
  /\ pages' = (pages \ {page}) \union {[page EXCEPT !.answer = answer]}
  /\ UNCHANGED <<step, port, tokens, get, rows, keyring, told>>

(* What a redirect says to an attempt: the state of another attempt is     *)
(* found out before the answer is looked at.                               *)
(* The mutant does not look at the state.                                  *)
AnyAnswer(page, a) == IF page.answer = Refused THEN "denied" ELSE "code"
parse_redirect(page, a) ==
  IF page.of # a THEN "mismatch" ELSE IF page.answer = Refused THEN "denied" ELSE "code"

(* An answered page sends its redirect, and again whenever it is reloaded, *)
(* to whoever listens on its port.  The first that is not noise ends the   *)
(* wait, and the listener goes with it.                                    *)
Redirect(page, a) ==
  /\ page \in pages /\ page.answer # Unanswered
  /\ step[a] = "waiting" /\ port[a] = page.port
  /\ port' = [port EXCEPT ![a] = NoPort]
  /\ CASE parse_redirect(page, a) = "mismatch" -> Goes(a, "failed") /\ UNCHANGED tokens
       [] parse_redirect(page, a) = "denied"   -> Goes(a, "declined") /\ UNCHANGED tokens
       [] parse_redirect(page, a) = "code"     ->
            Goes(a, "exchanging") /\ tokens' = [tokens EXCEPT ![a].of = page.answer]
  /\ UNCHANGED <<pages, get, rows, keyring, told>>

GiveUp(a) ==
  /\ step[a] = "waiting"
  /\ Goes(a, "failed")
  /\ port' = [port EXCEPT ![a] = NoPort]
  /\ UNCHANGED <<pages, tokens, get, rows, keyring, told>>

-----------------------------------------------------------------------------
(* Tokens out of an answer of the token endpoint: one to refresh with is   *)
(* kept when none comes.                                                   *)
tokens_from_response(reissued, previous) == reissued \/ previous

exchange_code(a) ==
  /\ step[a] = "exchanging"
  /\ \/ \E reissued \in BOOLEAN :
          /\ tokens' = [tokens EXCEPT ![a].refresh = tokens_from_response(reissued, FALSE)]
          /\ Goes(a, "listing")
     \/ Goes(a, "failed") /\ UNCHANGED tokens
  /\ UNCHANGED <<port, pages, get, rows, keyring, told>>

(* Another page follows if its token is not the one just asked for: a list *)
(* may well name a page it named before.  The first page has no token.     *)
AnotherPage(a, next) == next # NoToken /\ next # get[a].page

(* One answer of Google to Session::get in the loop of calendar_list.  The *)
(* last page carries on to account_email, which needs a primary calendar.  *)
Listed(a) ==
  \E next \in PageToken \union {NoToken} :
    IF AnotherPage(a, next)
    THEN get' = [get EXCEPT ![a] = [page |-> next, refreshed |-> FALSE]] /\ UNCHANGED step
    ELSE Goes(a, "profile") /\ UNCHANGED get

(* Refused once: refresh and ask again; refused twice: give up.            *)
(* The mutant refreshes as often as it is refused.                         *)
AlwaysRefresh(a) ==
  /\ Goes(a, "refreshing")
  /\ UNCHANGED get
Unauthorized(a) ==
  /\ ~get[a].refreshed
  /\ Goes(a, "refreshing")
  /\ UNCHANGED get

calendar_list(a) ==
  /\ step[a] = "listing"
  /\ \/ Listed(a)
     \/ Unauthorized(a)
     \/ Goes(a, "failed") /\ UNCHANGED get
  /\ UNCHANGED <<port, pages, tokens, rows, keyring, told>>

refresh_access_token(a) ==
  /\ step[a] = "refreshing"
  /\ \/ /\ tokens[a].refresh
        /\ \E reissued \in BOOLEAN :
             tokens' = [tokens EXCEPT ![a].refresh = tokens_from_response(reissued, @)]
        /\ get' = [get EXCEPT ![a].refreshed = TRUE]
        /\ Goes(a, "listing")
     \/ Goes(a, "failed") /\ UNCHANGED <<tokens, get>>
  /\ UNCHANGED <<port, pages, rows, keyring, told>>

(* The profile is read or it is not; either way the account is recorded.   *)
userinfo(a) ==
  /\ step[a] = "profile"
  /\ Goes(a, "recording")
  /\ UNCHANGED <<port, pages, tokens, get, rows, keyring, told>>

connect_account(a) ==
  /\ step[a] = "recording"
  /\ \/ rows' = rows \union {tokens[a].of} /\ Goes(a, "keeping")
     \/ Goes(a, "failed") /\ UNCHANGED rows
  /\ UNCHANGED <<port, pages, tokens, get, keyring, told>>

(* The keyring takes the tokens, or the row is taken back; if the store    *)
(* fails at that too, the attempt ends with its row stranded.  The mutant  *)
(* leaves the row.                                                         *)
KeyringOrNot(a) ==
  /\ step[a] = "keeping"
  /\ \/ keyring' = keyring \union {tokens[a].of} /\ Goes(a, "connected")
     \/ Goes(a, "failed") /\ UNCHANGED keyring
  /\ UNCHANGED <<port, pages, tokens, get, rows, told>>
keyring_store(a) ==
  /\ step[a] = "keeping"
  /\ \/ keyring' = keyring \union {tokens[a].of} /\ Goes(a, "connected") /\ UNCHANGED rows
     \/ rows' = rows \ {tokens[a].of} /\ Goes(a, "failed") /\ UNCHANGED keyring
     \/ Goes(a, "stranded") /\ UNCHANGED <<rows, keyring>>
  /\ UNCHANGED <<port, pages, tokens, get, told>>

(* The callback of start_connect.                                          *)
Report(a) ==
  /\ step[a] \in Ended /\ ~told[a]
  /\ told' = [told EXCEPT ![a] = TRUE]
  /\ UNCHANGED <<step, port, pages, tokens, get, rows, keyring>>

-----------------------------------------------------------------------------
Work(a) ==
  \/ GiveUp(a) \/ exchange_code(a) \/ calendar_list(a) \/ refresh_access_token(a)
  \/ userinfo(a) \/ connect_account(a) \/ keyring_store(a) \/ Report(a)

Next ==
  \/ \E a \in Attempt : Start(a) \/ Work(a)
  \/ \E page \in pages, answer \in Person \union {Refused} : Answer(page, answer)
  \/ \E page \in pages, a \in Attempt : Redirect(page, a)

Spec == Init /\ [][Next]_vars

(* The wait has a deadline, every request is answered or fails, and the    *)
(* main loop polls for the result.  Nothing is assumed of the user.        *)
Fairness == \A a \in Attempt : WF_vars(Work(a))
FairSpec == Spec /\ Fairness

-----------------------------------------------------------------------------
TypeOK ==
  /\ step \in [Attempt -> Steps]
  /\ port \in [Attempt -> Port \union {NoPort}]
  /\ pages \subseteq Page
  /\ tokens \in [Attempt -> [of : Person \union {Nobody}, refresh : BOOLEAN]]
  /\ get \in [Attempt -> [page : PageToken \union {NoToken}, refreshed : BOOLEAN]]
  /\ rows \subseteq Person /\ keyring \subseteq Person
  /\ told \in [Attempt -> BOOLEAN]

(* Every account in the store has its tokens, or an attempt that is about  *)
(* to store them or could neither store them nor take the row back: no     *)
(* other failure leaves one that looks "connected and never sync[s]"       *)
(* (accounts/mod.rs), although another attempt may be taking back the      *)
(* account's row meanwhile.                                                *)
SeenMeansAuthenticated ==
  \A p \in rows :
    p \in keyring \/ \E a \in Attempt : step[a] \in {"keeping", "stranded"} /\ tokens[a].of = p

(* How far an attempt is, as the user sees it.                             *)
StatusOf(s) ==
  CASE s = "idle"    -> "idle"
    [] s = "waiting" -> "asked"
    [] s \in Ended   -> "over"
    [] OTHER         -> "granted"

(* Another page of a's list is asked for.                                  *)
AsksOn(a) == step[a] = "listing" /\ get'[a].page # get[a].page

(* An attempt takes up no answer but one given on its own page, whatever   *)
(* other pages send to its port; and it ends, unless its list goes on.     *)
Abstract ==
  INSTANCE Consent WITH
    status <- [a \in Attempt |-> StatusOf(step[a])],
    holder <- [a \in Attempt |-> tokens[a].of],
    consents <- {<<page.of, page.answer>> : page \in {q \in pages : q.answer \in Person}},
    accounts <- rows
ImplementsConsent ==
  /\ Abstract!Moves
  /\ \A a \in Attempt : Abstract!Ending(a) \/ []<><<AsksOn(a)>>_vars

(* The user hears of the end of every attempt, however often Google        *)
(* refuses the token and although a page may name itself.  Only a list     *)
(* that names another page for ever is followed for ever, be it that it    *)
(* goes round (A, B, A) or that it always has a new one: calendar_list     *)
(* compares a page's token with the one before it alone.                   *)
Ends == \A a \in Attempt : (step[a] # "idle" ~> told[a]) \/ []<><<AsksOn(a)>>_vars
=============================================================================
