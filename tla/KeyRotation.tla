------------------------------ MODULE KeyRotation ------------------------------
(***************************************************************************)
(* Replacing the password that seals session cookies, instance by instance *)
(* under traffic: what instances seal and open with (packages/auth-session *)
(* config.ts, session.ts), the browsers' cookies and the responses on      *)
(* their way, and an operator who follows the package's procedure, makes   *)
(* the mistake config.ts refuses, and rolls back.                          *)
(***************************************************************************)
EXTENDS Integers, FiniteSets

CONSTANTS Instances, Browsers,
          SessionLength,  \* the provider's bound on a session, from sign-in
          TokenLength,    \* how long an access token verifies, tolerance included
          MaxAge,         \* how long the browser keeps a cookie
          NoCookie, Never,
          MaxNow,         \* bound: the clock
          MaxKeys,        \* bound: passwords there ever are
          MaxFlight       \* bound: responses on their way

ASSUME RotationAssumption ==
  /\ SessionLength \in Nat /\ TokenLength \in Nat /\ MaxAge \in Nat
  /\ MaxNow \in Nat /\ MaxKeys \in Nat \ {0} /\ MaxFlight \in Nat
  /\ Never \notin Int

Keys == 1..MaxKeys
Config == [current : Keys, previous : SUBSET Keys]
Cookie == [key : Keys, session : Int, token : Int]
Stored == [key : Keys, session : Int, token : Int, discard : Int]

VARIABLES now,
          conf,     \* what each instance was started with
          target,   \* what the operator deploys
          stage,    \* "steady", "staged" or "promoted"
          rotating, \* the password the operator brings in
          retired,  \* of a password: when the last cookie sealed with it was delivered
          cookie,   \* what each browser holds
          flight    \* session cookies in responses on their way
operator == <<target, stage, rotating, retired>>
vars == <<now, conf, operator, cookie, flight>>

-----------------------------------------------------------------------------
(* What the code does with the keys.                                       *)

\* previousCookieKeysFrom: such an instance does not start.
Loads(c) == c.current \notin c.previous

\* Wrong on purpose: a cookie goes on being sealed with the key that opened
\* the last one.
SealsWithPrevious(c) == IF c.previous = {} THEN c.current ELSE CHOOSE k \in c.previous : TRUE
Seals(c) == c.current

Opens(c) == {c.current} \union c.previous

-----------------------------------------------------------------------------
TypeOK ==
  /\ now \in Nat
  /\ conf \in [Instances -> Config]
  /\ \A i \in Instances : conf[i].current \notin conf[i].previous
  /\ target \in Config
  /\ stage \in {"steady", "staged", "promoted"}
  /\ rotating \in Keys
  /\ retired \in [Keys -> Nat \union {Never}]
  /\ cookie \in [Browsers -> Stored \union {NoCookie}]
  /\ flight \subseteq [browser : Browsers, sealed : Cookie]

Init ==
  /\ now = 0
  /\ target = [current |-> 1, previous |-> {}]
  /\ conf = [i \in Instances |-> target]
  /\ stage = "steady" /\ rotating = 1
  /\ retired = [k \in Keys |-> Never]
  /\ cookie = [b \in Browsers |-> NoCookie]
  /\ flight = {}

Tick == /\ now < MaxNow /\ now' = now + 1
        /\ UNCHANGED <<conf, operator, cookie, flight>>

-----------------------------------------------------------------------------
(* Traffic.                                                                *)

\* The browser still presents the cookie, and there is something in it: a
\* session to renew, or a token that verifies.
Live(c) ==
  /\ c # NoCookie /\ now < c.discard
  /\ now < c.session \/ now < c.token

Sends(b, i, session) ==
  /\ Cardinality(flight) < MaxFlight
  /\ flight' = flight \union
       {[browser |-> b,
         sealed |-> [key |-> Seals(conf[i]), session |-> session, token |-> now + TokenLength]]}
  /\ UNCHANGED <<now, conf, operator, cookie>>

SignIn(b, i) == Sends(b, i, now + SessionLength)

\* Only a renewed pair is written again; a cookie that opens with an old key
\* and still verifies stays as it is.
Renew(b, i) ==
  /\ Live(cookie[b]) /\ cookie[b].key \in Opens(conf[i])
  /\ now < cookie[b].session
  /\ Sends(b, i, cookie[b].session)

\* Responses arrive in any order.
Deliver(r) ==
  /\ r \in flight
  /\ flight' = flight \ {r}
  /\ cookie' = [cookie EXCEPT ![r.browser] =
                  [key |-> r.sealed.key, session |-> r.sealed.session,
                   token |-> r.sealed.token, discard |-> now + MaxAge]]
  /\ UNCHANGED <<now, conf, operator>>

-----------------------------------------------------------------------------
(* The rollout, and the operator.                                          *)

\* An instance is replaced by one of the new configuration, if that one starts.
Roll(i) ==
  /\ conf[i] # target /\ Loads(target)
  /\ conf' = [conf EXCEPT ![i] = target]
  /\ UNCHANGED <<now, operator, cookie, flight>>

RolledOut == \A i \in Instances : conf[i] = target

\* Step 2: the new password opens before any instance seals with it.
Stage ==
  /\ stage = "steady" /\ RolledOut /\ rotating < MaxKeys
  /\ rotating' = rotating + 1
  /\ target' = [target EXCEPT !.previous = @ \union {rotating + 1}]
  /\ stage' = "staged"
  /\ UNCHANGED <<now, conf, retired, cookie, flight>>

\* Step 3. Half done, the new password is still listed as previous.
Promote ==
  /\ stage = "staged" /\ RolledOut
  /\ \E left \in {{}, {rotating}} :
       target' = [current |-> rotating,
                  previous |-> ((target.previous \ {rotating}) \union {target.current}) \union left]
  /\ stage' = "promoted"
  /\ UNCHANGED <<now, conf, rotating, retired, cookie, flight>>

Correct ==
  /\ stage = "promoted" /\ target.current \in target.previous
  /\ target' = [target EXCEPT !.previous = @ \ {target.current}]
  /\ UNCHANGED <<now, conf, stage, rotating, retired, cookie, flight>>

\* Back to the old password, before or after every instance has the new one.
RollBack ==
  /\ \/ stage = "promoted"
     \/ stage = "steady" /\ RolledOut
  /\ rotating > 1 /\ rotating - 1 \in target.previous
  /\ target' = [current |-> rotating - 1,
                previous |-> (target.previous \ {rotating - 1}) \union {rotating}]
  /\ stage' = "staged"
  /\ retired' = [retired EXCEPT ![rotating - 1] = Never]
  /\ UNCHANGED <<now, conf, rotating, cookie, flight>>

\* The last instance that seals with the old password is gone, and what it
\* sealed is delivered.
Retire ==
  /\ stage = "promoted" /\ RolledOut
  /\ \A r \in flight : r.sealed.key # rotating - 1
  /\ stage' = "steady"
  /\ retired' = [retired EXCEPT ![rotating - 1] = now]
  /\ UNCHANGED <<now, conf, target, rotating, cookie, flight>>

\* How long a cookie is of use after it was delivered.
Wait ==
  LET life == IF SessionLength > TokenLength THEN SessionLength ELSE TokenLength
  IN  IF MaxAge < life THEN MaxAge ELSE life

\* Steps 4 and 5, for each password whose wait is over.
Remove(k) ==
  /\ stage = "steady" /\ RolledOut
  /\ k \in target.previous /\ retired[k] # Never /\ now >= retired[k] + Wait
  /\ target' = [target EXCEPT !.previous = @ \ {k}]
  /\ UNCHANGED <<now, conf, stage, rotating, retired, cookie, flight>>

Next ==
  \/ Tick
  \/ \E b \in Browsers, i \in Instances : SignIn(b, i) \/ Renew(b, i)
  \/ \E r \in flight : Deliver(r)
  \/ \E i \in Instances : Roll(i)
  \/ Stage \/ Promote \/ Correct \/ RollBack \/ Retire
  \/ \E k \in Keys : Remove(k)

Spec == Init /\ [][Next]_vars

-----------------------------------------------------------------------------
(* Properties.                                                             *)

\* packages/auth-session/README.md, "nobody is signed out": whichever instance
\* a request reaches, old or new, before, during and after a rollout, it opens
\* a cookie that still has something in it.
NobodySignedOut ==
  \A b \in Browsers, i \in Instances : Live(cookie[b]) => cookie[b].key \in Opens(conf[i])
================================================================================
