-------------------------------- MODULE SignIn --------------------------------
(***************************************************************************)
(* The redirect sign-in (packages/auth-session/src/authorize.ts and        *)
(* callback.ts): a state is minted and remembered in a cookie, the browser *)
(* goes to the provider and comes back with a code, the callback checks    *)
(* the state, exchanges the code, provisions the organization and answers  *)
(* with a session.  Tabs of one browser share its cookies; a callback may  *)
(* be requested more than once, from another browser, or lose its answer.  *)
(***************************************************************************)
CONSTANTS Handlers, Users, Workspaces, Team, Invited, NoOrg, Nobody, Policy, Faults,
          Browsers, Nowhere,
          Attempts,     \* sign-ins started, each with a state of its own
          NoAttempt,    \* of a cookie: holds no state
          BrowserOf,    \* the browser each attempt is started in
          AccountsOf,   \* the accounts a browser's person may choose from
          Mishaps       \* which of AllMishaps happen to requests and answers

AllMishaps == {"deny", "again", "elsewhere", "expire", "drop"}

ASSUME BrowsersAssumption ==
  /\ NoAttempt \notin Attempts /\ Nowhere \notin Browsers
  /\ BrowserOf \in [Attempts -> Browsers]
  /\ AccountsOf \in [Browsers -> SUBSET Users]
  /\ Mishaps \subseteq AllMishaps

VARIABLES founder, holder, members, step, answer, user, org, target, alive,
          stateCookie,    \* browser: the state its cookie remembers
          sessionCookie,  \* browser: whose session it holds
          attempt,        \* how far each attempt has come
          chosen,         \* the account chosen at the provider
          spent,          \* provider: attempts whose code was exchanged
          phase,          \* per callback request, how far it has come
          of, from,       \* per callback request, its attempt and browser
          clears,         \* per callback request: its answer clears the state
          disturbed       \* an answer, a cookie or an exchange was lost (history)
P == INSTANCE Provisioning

ASSUME ProvisioningAssumption == P!OrganizationsAssumption

provisioning == <<founder, holder, members, step, answer, user, org, target, alive>>
browsers == <<stateCookie, sessionCookie>>
attempts == <<attempt, chosen, spent>>
vars == <<provisioning, browsers, attempts, phase, of, from, clears, disturbed>>

SignedOut == [user |-> Nobody, org |-> NoOrg]

TypeOK ==
  /\ P!TypeOK
  /\ stateCookie \in [Browsers -> Attempts \union {NoAttempt}]
  /\ sessionCookie \in [Browsers -> [user : Users \union {Nobody},
                                     org : P!Orgs \union {NoOrg}]]
  /\ attempt \in [Attempts -> {"new", "away", "code", "denied"}]
  /\ chosen \in [Attempts -> Users \union {Nobody}]
  /\ spent \subseteq Attempts
  /\ phase \in [Handlers -> {"unsent", "exchanging", "provisioning", "answered", "over"}]
  /\ of \in [Handlers -> Attempts \union {NoAttempt}]
  /\ from \in [Handlers -> Browsers \union {Nowhere}]
  /\ clears \in [Handlers -> BOOLEAN]
  /\ disturbed \in BOOLEAN

Init ==
  /\ P!Init
  /\ stateCookie = [b \in Browsers |-> NoAttempt]
  /\ sessionCookie = [b \in Browsers |-> SignedOut]
  /\ attempt = [a \in Attempts |-> "new"]
  /\ chosen = [a \in Attempts |-> Nobody]
  /\ spent = {}
  /\ phase = [h \in Handlers |-> "unsent"]
  /\ of = [h \in Handlers |-> NoAttempt]
  /\ from = [h \in Handlers |-> Nowhere]
  /\ clears = [h \in Handlers |-> FALSE]
  /\ disturbed = FALSE

-----------------------------------------------------------------------------
(* The browser and the provider's screens.                                 *)

\* startAuthorization: its one response sets the cookie and sends the browser
\* away. The last one to arrive is the one the cookie remembers.
Start(a) ==
  /\ attempt[a] = "new"
  /\ attempt' = [attempt EXCEPT ![a] = "away"]
  /\ stateCookie' = [stateCookie EXCEPT ![BrowserOf[a]] = a]
  /\ UNCHANGED <<provisioning, sessionCookie, chosen, spent, phase, of, from, clears, disturbed>>

Return(a) ==
  /\ attempt[a] = "away"
  /\ \/ /\ attempt' = [attempt EXCEPT ![a] = "code"]
        /\ \E u \in AccountsOf[BrowserOf[a]] : chosen' = [chosen EXCEPT ![a] = u]
     \/ /\ "deny" \in Mishaps
        /\ attempt' = [attempt EXCEPT ![a] = "denied"]
        /\ UNCHANGED chosen
  /\ UNCHANGED <<provisioning, browsers, spent, phase, of, from, clears, disturbed>>

\* The state cookie reaches STATE_MAX_AGE_SECONDS.
Expire(b) ==
  /\ "expire" \in Mishaps
  /\ stateCookie[b] # NoAttempt
  /\ stateCookie' = [stateCookie EXCEPT ![b] = NoAttempt]
  /\ disturbed' = TRUE
  /\ UNCHANGED <<provisioning, sessionCookie, attempts, phase, of, from, clears>>

-----------------------------------------------------------------------------
(* handleCallback.                                                         *)

\* Wrong on purpose: any state will do as long as the browser has one.
StateMatchesAny(cookie, a) == cookie # NoAttempt
StateMatches(cookie, a) == cookie = a

\* Wrong on purpose: the state is cleared before it is compared.
ClearsAlways(b, a) == TRUE
\* The state is cleared once it has matched, whatever happens next.
Clears(b, a) == StateMatches(stateCookie[b], a)

\* A browser requests the callback of attempt a, carrying its cookies. The
\* handler checks the state, then the code, before its first await.
Callback(h, a, b) ==
  /\ phase[h] = "unsent"
  /\ attempt[a] \in {"code", "denied"}
  /\ b = BrowserOf[a] \/ "elsewhere" \in Mishaps
  /\ (\A g \in Handlers : of[g] # a) \/ "again" \in Mishaps
  /\ of' = [of EXCEPT ![h] = a]
  /\ from' = [from EXCEPT ![h] = b]
  /\ clears' = [clears EXCEPT ![h] = Clears(b, a)]
  /\ phase' = [phase EXCEPT ![h] =
       IF StateMatches(stateCookie[b], a) /\ attempt[a] = "code"
       THEN "exchanging" ELSE "answered"]
  /\ UNCHANGED <<provisioning, browsers, attempts, disturbed>>

\* authenticateWithCode: the provider takes a code once.
Exchange(h) ==
  /\ phase[h] = "exchanging"
  /\ of[h] \notin spent
  /\ spent' = spent \union {of[h]}
  /\ P!Authenticate(h, chosen[of[h]])
  /\ phase' = [phase EXCEPT ![h] = "provisioning"]
  /\ UNCHANGED <<browsers, attempt, chosen, of, from, clears, disturbed>>

ExchangeRefused(h) ==
  /\ phase[h] = "exchanging"
  /\ of[h] \in spent \/ "refuse" \in Faults
  /\ phase' = [phase EXCEPT ![h] = "answered"]
  /\ disturbed' = (disturbed \/ of[h] \notin spent)
  /\ UNCHANGED <<provisioning, browsers, attempts, of, from, clears>>

\* The process ends during the exchange, which may take effect all the same.
ExchangeAbandoned(h) ==
  /\ "kill" \in Faults
  /\ phase[h] = "exchanging"
  /\ spent' \in {spent, spent \union {of[h]}}
  /\ phase' = [phase EXCEPT ![h] = "over"]
  /\ disturbed' = TRUE
  /\ UNCHANGED <<provisioning, browsers, attempt, chosen, of, from, clears>>

\* ensureOrganization.
Provision(h) ==
  /\ phase[h] = "provisioning"
  /\ P!Provision(h)
  /\ UNCHANGED <<browsers, attempts, phase, of, from, clears, disturbed>>

\* establishSession, or the page of the failure that was caught.
Answered(h) ==
  \/ phase[h] = "answered"
  \/ phase[h] = "provisioning" /\ alive[h] /\ step[h] \in {"established", "failed"}

Carries(h) == IF step[h] = "established" THEN [user |-> user[h], org |-> org[h]]
              ELSE sessionCookie[from[h]]

\* The browser applies the cookies of the answer.
Deliver(h) ==
  /\ Answered(h)
  /\ sessionCookie' = [sessionCookie EXCEPT ![from[h]] = Carries(h)]
  /\ stateCookie' = IF clears[h] THEN [stateCookie EXCEPT ![from[h]] = NoAttempt]
                    ELSE stateCookie
  /\ phase' = [phase EXCEPT ![h] = "over"]
  /\ UNCHANGED <<provisioning, attempts, of, from, clears, disturbed>>

Drop(h) ==
  /\ "drop" \in Mishaps
  /\ Answered(h)
  /\ phase' = [phase EXCEPT ![h] = "over"]
  /\ disturbed' = TRUE
  /\ UNCHANGED <<provisioning, browsers, attempts, of, from, clears>>

Next ==
  \/ \E a \in Attempts : Start(a) \/ Return(a)
  \/ \E b \in Browsers : Expire(b)
  \/ \E h \in Handlers :
       \/ \E a \in Attempts, b \in Browsers : Callback(h, a, b)
       \/ Exchange(h) \/ ExchangeRefused(h) \/ ExchangeAbandoned(h)
       \/ Provision(h) \/ Deliver(h) \/ Drop(h)

Spec == Init /\ [][Next]_vars

-----------------------------------------------------------------------------
(* Properties.                                                             *)

\* A browser is only ever signed in as somebody who completed, at the
\* provider, an attempt this very browser started: whatever callback it is
\* made to request, and whichever answers arrive last.
SessionIsOwnSignIn ==
  \A b \in Browsers : sessionCookie[b] # SignedOut =>
    \E a \in spent : BrowserOf[a] = b /\ chosen[a] = sessionCookie[b].user

\* Tabs that overwrite each other's state do not shut the person out: when
\* every attempt a browser started has come back with a code, its callback was
\* requested there and answered, and nothing was lost or failed on the way,
\* that browser is signed in.
SomeTabGetsIn ==
  \A b \in Browsers :
    LET started == {a \in Attempts : BrowserOf[a] = b /\ attempt[a] # "new"}
        asked == {h \in Handlers : of[h] \in started}
    IN  /\ started # {} /\ ~disturbed
        /\ \A a \in started : \E h \in asked : of[h] = a /\ from[h] = b
        /\ \A h \in asked : phase[h] = "over" /\ step[h] # "failed"
        /\ \A a \in started : attempt[a] = "code"
        => sessionCookie[b] # SignedOut

\* A callback delivered twice, or two tabs finishing at once, cannot leave one
\* person holding two organizations.
OneWorkspaceEach == P!OneWorkspaceEach

\* Signing up keeps its promise across repetition, loss and process ends.
SignupImplemented == P!SignupImplemented
==============================================================================
