------------------------------ MODULE EmailSignIn ------------------------------
(***************************************************************************)
(* The email-code sign-in (packages/auth-session/src/email.ts over         *)
(* throttle.ts): one request sends a code and remembers the address in a   *)
(* cookie, another checks the code somebody typed.  Both ask the throttle  *)
(* about the client, then about the address.  The throttle is a Limiter    *)
(* with room for every key, and the organization a success leads to is     *)
(* module Provisioning's.                                                  *)
(***************************************************************************)
EXTENDS Naturals, FiniteSets

CONSTANTS Requests,    \* requests under way at once
          Browsers,    \* each of them one client to the throttle
          Users,       \* and the address each of them reads
          None,
          Limits,      \* step and kind of key: attempts in one window
          Window,      \* how long a budget lasts
          Lifetime,    \* how long a code does
          MostCodes,   \* bound: codes sent to one address
          MaxTime,     \* bound: the clock
          Mishaps      \* which of AllMishaps happen

AllMishaps == {"refuse", "lose", "expire", "drop"}
EmailSteps == {"email-start", "email-verify"}
Keys == [step : EmailSteps, who : Browsers \union Users]
Attempts == [k \in Keys |-> Limits[k.step][IF k.who \in Browsers THEN "client" ELSE "address"]]

ASSUME EmailAssumption ==
  /\ Browsers \cap Users = {} /\ None \notin Users
  /\ Limits \in [EmailSteps -> [{"client", "address"} -> Nat \ {0}]]
  /\ Window \in Nat /\ Lifetime \in Nat /\ MostCodes \in Nat /\ MaxTime \in Nat
  /\ Lifetime <= Window     \* "Ten minutes is the provider's code lifetime"
  /\ IsFiniteSet(Requests) /\ IsFiniteSet(Browsers) /\ IsFiniteSet(Users)
  /\ Mishaps \subseteq AllMishaps

VARIABLES at, spent, resetsAt,   \* the clock and the throttle
          issued,         \* provider: how many codes were sent to each address
          live,           \* provider: the one that works, 0 when none does
          sentAt,         \* provider: when the last was sent
          emailCookie,    \* browser: the address its cookie names
          session,        \* browser: whose session it holds
          begun,          \* browser: whose code entry page it was sent to (history)
          lapsed,         \* browsers whose cookie expired since then (history)
          guesses,        \* address: codes tried against the live one (history)
          early,          \* address: tries on their way when that was sent (history)
          request
throttle == <<at, spent, resetsAt>>
provider == <<issued, live, sentAt>>
browser == <<emailCookie, session>>
entries == <<begun, lapsed>>
history == <<guesses, early>>
vars == <<throttle, provider, browser, entries, history, request>>

L == INSTANCE Limiter WITH Capacity <- Cardinality(Keys),
                           said <- [key |-> None, allowed |-> TRUE]

NoCode == [user |-> None, number |-> 0]
Codes == [user : Users, number : 1..MostCodes]
Sent == {c \in Codes : c.number <= issued[c.user]}
Idle == [phase |-> "idle", step |-> "email-start", from |-> None,
         address |-> None, typed |-> NoCode, reply |-> "none"]

TypeOK ==
  /\ at \in 0..MaxTime
  /\ \A k \in Keys : spent[k] \in 0..Attempts[k]
  /\ resetsAt \in [Keys -> 0..(MaxTime + Window)]
  /\ issued \in [Users -> 0..MostCodes]
  /\ live \in [Users -> 0..MostCodes]
  /\ \A u \in Users : live[u] \in {0, issued[u]}
  /\ sentAt \in [Users -> 0..MaxTime]
  /\ emailCookie \in [Browsers -> Users \union {None}]
  /\ session \in [Browsers -> Users \union {None}]
  /\ begun \in [Browsers -> SUBSET Users]
  /\ lapsed \subseteq Browsers
  /\ guesses \in [Users -> Nat] /\ early \in [Users -> Nat]
  /\ request \in [Requests ->
       [phase : {"idle", "client", "address", "provider", "provisioning", "answered"},
        step : EmailSteps, from : Browsers \union {None}, address : Users \union {None},
        typed : Codes \union {NoCode},
        reply : {"none", "entry", "retry", "failed", "expired", "session", "limited"}]]

Init ==
  /\ at = 0
  /\ spent = [k \in Keys |-> 0]
  /\ resetsAt = [k \in Keys |-> 0]
  /\ issued = [u \in Users |-> 0]
  /\ live = [u \in Users |-> 0]
  /\ sentAt = [u \in Users |-> 0]
  /\ emailCookie = [b \in Browsers |-> None]
  /\ session = [b \in Browsers |-> None]
  /\ begun = [b \in Browsers |-> {}]
  /\ lapsed = {}
  /\ guesses = [u \in Users |-> 0]
  /\ early = [u \in Users |-> 0]
  /\ request = [r \in Requests |-> Idle]

Answer(r, how) == request' = [request EXCEPT ![r].phase = "answered", ![r].reply = how]

-----------------------------------------------------------------------------
(* A request arrives.                                                      *)

\* startEmailSignIn, up to the throttle.
Start(r, b, u) ==
  /\ request[r].phase = "idle"
  /\ request' = [request EXCEPT ![r] = [Idle EXCEPT !.phase = "client", !.from = b,
                                                    !.address = u]]
  /\ UNCHANGED <<throttle, provider, browser, entries, history>>

\* Wrong on purpose: the address comes with the code that was typed.
AddressTyped(b, code) == IF code = NoCode THEN emailCookie[b] ELSE code.user
\* The address a code is checked against is the cookie's.
AddressOf(b, code) == emailCookie[b]

\* completeEmailSignIn, up to the throttle: a code that was sent to somebody is
\* typed, or a wrong one.
Verify(r, b, code) ==
  /\ request[r].phase = "idle"
  /\ LET address == AddressOf(b, code)
         asked == [Idle EXCEPT !.step = "email-verify", !.from = b, !.address = address,
                               !.typed = code]
     IN  request' = [request EXCEPT ![r] =
           IF address = None
           THEN [asked EXCEPT !.phase = "answered", !.reply = "expired"]
           ELSE [asked EXCEPT !.phase = "client"]]
  /\ UNCHANGED <<throttle, provider, browser, entries, history>>

-----------------------------------------------------------------------------
(* throttled: the client's budget first, then the address's.               *)

Key(r) ==
  [step |-> request[r].step,
   who |-> IF request[r].phase = "client" THEN request[r].from ELSE request[r].address]

\* Wrong on purpose: only the client's budget counts.
NextAfterClientOnly(r) == "provider"
NextAfter(r) == IF request[r].phase = "client" THEN "address" ELSE "provider"

AskThrottle(r) ==
  /\ request[r].phase \in {"client", "address"}
  /\ L!Draw(Key(r))
  /\ request' = [request EXCEPT ![r] =
       IF L!Allows(Key(r)) THEN [@ EXCEPT !.phase = NextAfter(r)]
       ELSE [@ EXCEPT !.phase = "answered", !.reply = "limited"]]
  /\ UNCHANGED <<at, provider, browser, entries, history>>

-----------------------------------------------------------------------------
(* The provider.                                                           *)

AtProvider(r, step) == request[r].phase = "provider" /\ request[r].step = step

\* The tries of an address's code that the throttle allowed and that have not
\* reached the provider. Nothing bounds how long they take.
Allowed(u) == {r \in Requests : AtProvider(r, "email-verify") /\ request[r].address = u}

\* createMagicAuth: a new code replaces the one before it.
Send(u) ==
  /\ issued[u] < MostCodes
  /\ issued' = [issued EXCEPT ![u] = @ + 1]
  /\ live' = [live EXCEPT ![u] = issued[u] + 1]
  /\ sentAt' = [sentAt EXCEPT ![u] = at]
  /\ guesses' = [guesses EXCEPT ![u] = 0]
  /\ early' = [early EXCEPT ![u] = Cardinality(Allowed(u))]

Matches(r) ==
  LET u == request[r].address
  IN  /\ request[r].typed = [user |-> u, number |-> live[u]]
      /\ at < sentAt[u] + Lifetime

SendMagicAuthCode(r) ==
  /\ AtProvider(r, "email-start")
  /\ Send(request[r].address)
  /\ \/ Answer(r, "entry")
     \/ "lose" \in Mishaps /\ Answer(r, "failed")
  /\ UNCHANGED <<throttle, browser, entries>>

\* A guess is of the code that is live as it arrives, whenever it was allowed.
VerifyMagicAuthCode(r) ==
  /\ AtProvider(r, "email-verify")
  /\ LET u == request[r].address
     IN  /\ guesses' = IF live[u] # 0 /\ at < sentAt[u] + Lifetime
                       THEN [guesses EXCEPT ![u] = @ + 1] ELSE guesses
         /\ live' = IF Matches(r) THEN [live EXCEPT ![u] = 0] ELSE live
         /\ \/ request' = [request EXCEPT ![r].phase =
                             IF Matches(r) THEN "provisioning" ELSE "answered",
                                          ![r].reply = IF Matches(r) THEN "none" ELSE "retry"]
            \/ "lose" \in Mishaps /\ Answer(r, "failed")
  /\ UNCHANGED <<throttle, issued, sentAt, browser, entries, early>>

\* The provider refuses or cannot be reached; nothing happened there.
Refused(r) ==
  /\ "refuse" \in Mishaps
  /\ request[r].phase \in {"provider", "provisioning"}
  /\ Answer(r, "failed")
  /\ UNCHANGED <<throttle, provider, browser, entries, history>>

\* ensureOrganization succeeds, and the session is sealed.
Provision(r) ==
  /\ request[r].phase = "provisioning"
  /\ Answer(r, "session")
  /\ UNCHANGED <<throttle, provider, browser, entries, history>>

-----------------------------------------------------------------------------
(* The browser.                                                            *)

\* Wrong on purpose: the cookie is written whatever the provider said; it is
\* cleared whatever the provider said.
CookieAlwaysWritten(r) ==
  IF request[r].step = "email-start" THEN request[r].address
  ELSE IF request[r].reply = "session" THEN None ELSE emailCookie[request[r].from]
CookieAlwaysCleared(r) ==
  IF request[r].reply = "entry" THEN request[r].address
  ELSE IF request[r].step = "email-verify" THEN None ELSE emailCookie[request[r].from]
\* What the answer does to the address cookie.
Cookie(r) ==
  CASE request[r].reply = "entry" -> request[r].address
    [] request[r].reply = "session" -> None
    [] OTHER -> emailCookie[request[r].from]

Deliver(r) ==
  /\ request[r].phase = "answered"
  /\ emailCookie' = [emailCookie EXCEPT ![request[r].from] = Cookie(r)]
  /\ session' = IF request[r].reply # "session" THEN session
                ELSE [session EXCEPT ![request[r].from] = request[r].address]
  /\ begun' = IF request[r].reply # "entry" THEN begun
              ELSE [begun EXCEPT ![request[r].from] = @ \union {request[r].address}]
  /\ lapsed' = IF request[r].reply = "entry" THEN lapsed \ {request[r].from} ELSE lapsed
  /\ request' = [request EXCEPT ![r] = Idle]
  /\ UNCHANGED <<throttle, provider, history>>

\* The answer never arrives.
Drop(r) ==
  /\ "drop" \in Mishaps
  /\ request[r].phase = "answered"
  /\ request' = [request EXCEPT ![r] = Idle]
  /\ UNCHANGED <<throttle, provider, browser, entries, history>>

\* The cookie reaches EMAIL_MAX_AGE_SECONDS.
Expire(b) ==
  /\ "expire" \in Mishaps
  /\ emailCookie[b] # None
  /\ emailCookie' = [emailCookie EXCEPT ![b] = None]
  /\ lapsed' = lapsed \union {b}
  /\ UNCHANGED <<throttle, provider, session, begun, history, request>>

Tick ==
  /\ L!Tick
  /\ UNCHANGED <<provider, browser, entries, history, request>>

Next ==
  \/ \E r \in Requests :
       \/ \E b \in Browsers : \/ \E u \in Users : Start(r, b, u)
                              \/ \E c \in Sent \union {NoCode} : Verify(r, b, c)
       \/ AskThrottle(r) \/ SendMagicAuthCode(r) \/ VerifyMagicAuthCode(r)
       \/ Refused(r) \/ Provision(r) \/ Deliver(r) \/ Drop(r)
  \/ \E b \in Browsers : Expire(b)
  \/ Tick

Spec == Init /\ [][Next]_vars

-----------------------------------------------------------------------------
(* Properties.                                                             *)

\* "The cookie always names an email a code was really sent to."
CookieNamesAddressee ==
  \A b \in Browsers : emailCookie[b] # None => issued[emailCookie[b]] > 0

\* A browser is only ever signed in as somebody whose code that very browser
\* asked for: "a code pasted into someone else's browser has no address to
\* verify against".
SessionBegunHere ==
  \A b \in Browsers : session[b] \in begun[b] \union {None}

\* In whatever order requests are allowed and reach the provider, one code is
\* tried less often than two windows of its address allow, besides the tries
\* that were on their way when it was sent: of two windows that meet its
\* lifetime, the first was opened by an earlier ask.
GuessesBounded ==
  \A u \in Users : guesses[u] < 2 * Limits["email-verify"]["address"] + early[u]

\* "A typo must not cost the person the address": unless its cookie expired, a
\* browser that was sent to the code entry page still has an address to verify,
\* or is signed in, whatever was refused or lost meanwhile.
AddressKeptUntilSignedIn ==
  \A b \in Browsers \ lapsed : begun[b] # {} /\ emailCookie[b] = None => session[b] # None
==============================================================================
