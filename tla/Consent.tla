------------------------------- MODULE Consent -------------------------------
(***************************************************************************)
(* What connecting an account promises: whoever is asked may answer at any *)
(* time, an attempt takes up only an answer given on its own page, and the *)
(* calendars shown are those of people who consented in that way.  An      *)
(* attempt that has begun ends.  SignIn implements this, but for the       *)
(* attempts whose list of calendars never does.                            *)
(***************************************************************************)
CONSTANTS
  Attempt,    \* attempts to connect
  Person,     \* Google accounts the user may answer as
  Nobody

VARIABLES
  status,     \* per attempt: "idle", "asked", "granted" or "over"
  holder,     \* per attempt: who consented, once granted
  consents,   \* answers given: <<attempt, person>>
  accounts    \* people whose account is connected

vars == <<status, holder, consents, accounts>>

Init ==
  /\ status = [a \in Attempt |-> "idle"]
  /\ holder = [a \in Attempt |-> Nobody]
  /\ consents = {}
  /\ accounts = {}

Ask(a) ==
  /\ status[a] = "idle"
  /\ status' = [status EXCEPT ![a] = "asked"]
  /\ UNCHANGED <<holder, consents, accounts>>

(* An answer on the attempt's page; the page outlives the attempt.         *)
Say(a, p) ==
  /\ status[a] # "idle"
  /\ \A q \in Person : <<a, q>> \notin consents
  /\ consents' = consents \union {<<a, p>>}
  /\ UNCHANGED <<status, holder, accounts>>

Grant(a, p) ==
  /\ status[a] = "asked"
  /\ <<a, p>> \in consents
  /\ status' = [status EXCEPT ![a] = "granted"]
  /\ holder' = [holder EXCEPT ![a] = p]
  /\ UNCHANGED <<consents, accounts>>

Connect(a) ==
  /\ status[a] = "granted"
  /\ accounts' = accounts \union {holder[a]}
  /\ UNCHANGED <<status, holder, consents>>

(* The end of an attempt: declined, failed, or with its account connected, *)
(* which a failure at the very end takes back.                             *)
End(a) ==
  /\ status[a] # "over"
  /\ status' = [status EXCEPT ![a] = "over"]
  /\ accounts' \in {accounts, accounts \ {holder[a]}}
  /\ UNCHANGED <<holder, consents>>

Next ==
  \E a \in Attempt :
    \/ Ask(a) \/ Connect(a) \/ End(a)
    \/ \E p \in Person : Say(a, p) \/ Grant(a, p)

Moves == Init /\ [][Next]_vars

Ending(a) == WF_vars(status[a] # "idle" /\ End(a))

Spec == Moves /\ \A a \in Attempt : Ending(a)

(* Nobody's calendars are shown without a consent on a page that was this  *)
(* program's own.                                                          *)
OnlyWithConsent == \A p \in accounts : \E a \in Attempt : <<a, p>> \in consents
=============================================================================
