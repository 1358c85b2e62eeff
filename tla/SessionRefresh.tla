--------------------------- MODULE SessionRefresh ---------------------------
(***************************************************************************)
(* One browser session of the web application: the sealed cookie, the      *)
(* parallel requests that carry it, the server instances that verify it    *)
(* and share a refresh per process, and the provider that rotates the      *)
(* refresh token on every use (packages/auth-session/src/access.ts).       *)
(*                                                                         *)
(* Token pairs are numbered in the order the provider issues them; pair 0  *)
(* stands for "no cookie".  Sealing, JWT decoding and the digest that keys *)
(* the in-flight map are injective here, so a pair's number is its cookie, *)
(* its access token, its refresh token and its map key.                    *)
(***************************************************************************)
EXTENDS Integers, Sequences

CONSTANTS
    Requests,        \* requests one browser can have outstanding at a time
    Instances,       \* server processes; they share nothing
    Nowhere,         \* not an instance: where an idle request is
    TTL,             \* lifetime of an access token
    Margin,          \* REFRESH_MARGIN_SECONDS
    Tolerance,       \* the verifier's clock tolerance
    ReuseWindow,     \* provider: how long a spent refresh token still answers
    KeysMaxAge,      \* jose: how long a fetched key set is used
    KeysCooldown,    \* jose: how long after a fetch an unknown key starts no other
    KeysTimeout,     \* jose: how long a fetch may take
    Ahead,           \* provider: how many next keys it may show ahead of their use
    Lifetime,        \* environment: longest time a request may take
    MaxTime,         \* bound of the clock
    MaxRetired,      \* bound of the keys given up
    VerifyFaults,    \* reasons a verification may fail with at any time
    ProviderFaults,  \* reasons a provider call may fail with at any time
    Events           \* what else may happen, of the six events below

Never == -1          \* of a time: has not happened
Keep  == -1          \* of a response: leaves the cookie as it is
NoPair == 0          \* of a cookie: none, or one no key opens

FaultReasons ==
    {"unavailable", "rate-limited", "configuration", "provider", "claims"}
Reasons == FaultReasons \cup {"expired", "signature", "unauthorized"}
Statuses == {"anonymous", "signed-in", "ended", "broken", "unavailable"}

AllEvents == {"revoke", "retire-key", "sign-out",
              "answer-lost", "response-lost", "crash"}

ASSUME InstantsAssumption ==
    /\ TTL \in Nat /\ Margin \in Nat /\ Tolerance \in Nat
    /\ ReuseWindow \in Nat /\ Lifetime \in Nat /\ MaxTime \in Nat
    /\ KeysMaxAge \in Nat \ {0} /\ KeysCooldown \in Nat /\ KeysTimeout \in Nat
    /\ Ahead \subseteq Nat /\ MaxRetired \in Nat
ASSUME FaultsAssumption ==
    /\ VerifyFaults \subseteq FaultReasons
    /\ ProviderFaults \subseteq FaultReasons
    /\ Events \subseteq AllEvents
ASSUME NowhereAssumption == Nowhere \notin Instances

VARIABLES
    now,       \* the clock the instances and the provider share
    pairs,     \* provider: pairs issued, [exp, usedAt, key] each
    revokedAt, \* provider: when the session was revoked, or Never
    retired,   \* provider: when each signing key it gave up was withdrawn
    cookie,    \* browser: the pair its session cookie holds
    keys,      \* per instance: the key set it verifies with, and since when
    inFlight,  \* per instance: owners of the calls in the `inFlight` map
    phase,     \* per request: how far its handling has come
    server,    \* per request: the instance handling it
    jar,       \* per request: the pair it carried when it was sent
    since,     \* per request: when it was sent
    proven,    \* per request: whether `current` was given to `refreshed`
    waitsOn,   \* per request: owner of the shared call it awaits
    call,      \* per request: the provider call it started, if any
    got,       \* per request: what the shared call settled with
    reply      \* per request: the access decided and the cookie written

provider == <<pairs, revokedAt, retired>>
requests == <<phase, server, jar, since, proven, waitsOn, call, got, reply>>
vars == <<now, provider, keys, cookie, inFlight, requests>>

Phases == {"idle", "verifying", "waiting", "resumed", "answered"}
CallStates == {"none", "queued", "sent", "rotated", "failed"}

Call(state, pair, reason) == [state |-> state, pair |-> pair, reason |-> reason]
NoCall == Call("none", NoPair, "none")
Nothing == [pair |-> NoPair, reason |-> "none"]
Reply(status, sets, served) == [status |-> status, sets |-> sets, served |-> served]
NoReply == Reply("none", Keep, NoPair)
KeySet(held, at) == [held |-> held, at |-> at]
NoKeys == KeySet({}, Never)

TypeOK ==
    /\ now \in Nat
    /\ pairs \in Seq([exp : Nat, usedAt : Nat \cup {Never}, key : Nat \ {0}])
    /\ Len(pairs) >= 1
    /\ revokedAt \in Nat \cup {Never}
    /\ retired \in Seq(Nat)
    /\ keys \in [Instances -> [held : SUBSET Nat, at : Nat \cup {Never}]]
    /\ cookie \in 0..Len(pairs)
    /\ inFlight \in [Instances -> SUBSET Requests]
    /\ phase \in [Requests -> Phases]
    /\ server \in [Requests -> Instances \cup {Nowhere}]
    /\ jar \in [Requests -> 0..Len(pairs)]
    /\ since \in [Requests -> Nat]
    /\ proven \in [Requests -> BOOLEAN]
    /\ waitsOn \in [Requests -> Requests]
    /\ call \in [Requests -> [state : CallStates, pair : 0..Len(pairs),
                              reason : Reasons \cup {"none"}]]
    /\ got \in [Requests -> [pair : 0..Len(pairs), reason : Reasons \cup {"none"}]]
    /\ reply \in [Requests -> [status : Statuses \cup {"none"},
                               sets : {Keep} \cup 0..Len(pairs),
                               served : 0..Len(pairs)]]

(* The browser holds the first pair, issued at time 0 by the sign-in, and   *)
(* every instance has just verified someone's token.                       *)
Init ==
    /\ now = 0
    /\ pairs = <<[exp |-> TTL, usedAt |-> Never, key |-> 1]>>
    /\ revokedAt = Never
    /\ retired = <<>>
    /\ keys = [i \in Instances |-> KeySet({1}, 0)]
    /\ cookie = 1
    /\ inFlight = [i \in Instances |-> {}]
    /\ phase = [r \in Requests |-> "idle"]
    /\ server = [r \in Requests |-> Nowhere]
    /\ jar = [r \in Requests |-> NoPair]
    /\ since = [r \in Requests |-> 0]
    /\ proven = [r \in Requests |-> FALSE]
    /\ waitsOn = [r \in Requests |-> r]
    /\ call = [r \in Requests |-> NoCall]
    /\ got = [r \in Requests |-> Nothing]
    /\ reply = [r \in Requests |-> NoReply]

-----------------------------------------------------------------------------
(* The environment: time, the provider's own actions, another tab's        *)
(* sign-out.                                                               *)

(* A set past its age is not used again: it goes as the clock passes it.   *)
AgedNever(set, t) == set                                       \* wrong variant
Aged(set, t) == IF t < set.at + KeysMaxAge THEN set ELSE NoKeys

(* No request outlives Lifetime: time waits for a request that is due.     *)
Tick ==
    /\ now < MaxTime
    /\ \A r \in Requests : phase[r] # "idle" => now < since[r] + Lifetime
    /\ now' = now + 1
    /\ keys' = [i \in Instances |-> Aged(keys[i], now + 1)]
    /\ UNCHANGED <<provider, cookie, inFlight, requests>>

Revoke ==
    /\ "revoke" \in Events
    /\ revokedAt = Never
    /\ revokedAt' = now
    /\ UNCHANGED <<now, pairs, retired, keys, cookie, inFlight, requests>>

(* Keys are numbered in the order they sign.                               *)
SigningKey == Len(retired) + 1
Withdrawn(k) == k <= Len(retired)

(* The provider signs with its next key and takes the last one out of the  *)
(* set it publishes.  No instance hears of it.                             *)
RetireKey ==
    /\ "retire-key" \in Events
    /\ Len(retired) < MaxRetired
    /\ retired' = Append(retired, now)
    /\ UNCHANGED <<now, pairs, revokedAt, keys, cookie, inFlight, requests>>

(* signOut: the response clears the cookie whatever it held.               *)
SignOut ==
    /\ "sign-out" \in Events
    /\ cookie' = NoPair
    /\ UNCHANGED <<now, provider, keys, inFlight, requests>>

-----------------------------------------------------------------------------
(* Verification (createVerifier, failureOf).                               *)

Expired(p) == pairs[p].exp + Tolerance <= now

(* jose, createRemoteJWKSet: the keys at hand settle a token's matter if    *)
(* they are fresh and its key is among them, or they came too recently to  *)
(* ask again; otherwise the verification waits for new ones.               *)
Fresh(i) == keys[i] # NoKeys
CoolingDown(i) == now < keys[i].at + KeysCooldown
Holds(i, p) == pairs[p].key \in keys[i].held
Usable(i, p) == Fresh(i) /\ (Holds(i, p) \/ CoolingDown(i))

(* Wrong variant: the token is trusted because our own cookie held it.     *)
VerdictsTrusting(i, p) == VerifyFaults \cup {"ok"}

(* What a verification of pair p on instance i finishing now may report.   *)
(* VerifyFaults holds what a failed fetch of the keys is reported as.      *)
Verdicts(i, p) ==
    VerifyFaults \cup IF ~ Usable(i, p) THEN {}
                      ELSE IF ~ Holds(i, p) THEN {"signature"}
                      ELSE IF Expired(p) THEN {"expired"} ELSE {"ok"}

(* A verification under way on i that waits for the keys.                  *)
Verifying(r) == IF phase[r] = "verifying" THEN jar[r]
                ELSE IF phase[r] = "resumed" THEN got[r].pair ELSE NoPair
AwaitsKeys(i) == \E r \in Requests : /\ server[r] = i /\ Verifying(r) # NoPair
                                     /\ ~ Usable(i, Verifying(r))

(* A fetch brings what the provider published when it answered, up to       *)
(* KeysTimeout ago: the key it signed with then and perhaps the next ones. *)
(* One that fails brings nothing: who waits for it fails by VerifyFaults.  *)
FetchKeys(i) ==
    /\ AwaitsKeys(i)
    /\ \E k \in 1..SigningKey :
          /\ Withdrawn(k) => now <= retired[k] + KeysTimeout
          /\ \E n \in Ahead :
                keys' = [keys EXCEPT ![i] = KeySet(k..(k + n), now)]
    /\ UNCHANGED <<now, provider, cookie, inFlight, requests>>

FailureStatus(reason) ==
    IF reason \in {"unavailable", "rate-limited"} THEN "unavailable"
    ELSE IF reason \in {"claims", "configuration", "provider"} THEN "broken"
    ELSE "ended"

(* A failed verification or refresh ends the session's cookie or keeps it. *)
Failed(reason) ==
    Reply(FailureStatus(reason),
          IF FailureStatus(reason) = "ended" THEN NoPair ELSE Keep, NoPair)

(* The handler returns: its reply stays, its locals go out of scope.       *)
Answer(r, rep) ==
    /\ phase' = [phase EXCEPT ![r] = "answered"]
    /\ reply' = [reply EXCEPT ![r] = rep]
    /\ jar' = [jar EXCEPT ![r] = NoPair]
    /\ proven' = [proven EXCEPT ![r] = FALSE]
    /\ waitsOn' = [waitsOn EXCEPT ![r] = r]
    /\ got' = [got EXCEPT ![r] = Nothing]
    /\ UNCHANGED <<now, provider, keys, cookie, inFlight, server, since, call>>

-----------------------------------------------------------------------------
(* One request, from the cookie it carries to the answer it is given.      *)

Send(r, i) ==
    /\ phase[r] = "idle"
    /\ phase' = [phase EXCEPT ![r] = "verifying"]
    /\ server' = [server EXCEPT ![r] = i]
    /\ jar' = [jar EXCEPT ![r] = cookie]
    /\ since' = [since EXCEPT ![r] = now]
    /\ UNCHANGED <<now, provider, keys, cookie, inFlight, proven, waitsOn, call, got, reply>>

Anonymous(r) ==
    /\ phase[r] = "verifying"
    /\ jar[r] = NoPair
    /\ Answer(r, Reply("anonymous", Keep, NoPair))

VerifyFails(r) ==
    /\ phase[r] = "verifying"
    /\ jar[r] # NoPair
    /\ \E reason \in Verdicts(server[r], jar[r]) \ {"ok", "expired"} :
           Answer(r, Failed(reason))

(* Close enough to its expiry to be refreshed early.                       *)
NearTooWide(p) == pairs[p].exp - now <= Margin + 1             \* wrong variant
Near(p) == pairs[p].exp - now <= Margin

(* A token that verifies is served and the cookie is not written again.    *)
ServeRewriting(r) == Reply("signed-in", jar[r], jar[r])        \* wrong variant
Serve(r) == Reply("signed-in", Keep, jar[r])

VerifyServes(r) ==
    /\ phase[r] = "verifying"
    /\ jar[r] # NoPair
    /\ "ok" \in Verdicts(server[r], jar[r])
    /\ ~ Near(jar[r])
    /\ Answer(r, Serve(r))

(* The calls in flight on instance i for pair p: at most one, as in a Map. *)
PendingUnshared(i, p) == {}                                    \* wrong variant
Pending(i, p) == {o \in inFlight[i] : jar[o] = p}

(* sharedRefresh: join the call in flight for this token, or start one.    *)
SharedRefresh(r) ==
    LET pending == Pending(server[r], jar[r])
    IN \/ /\ \E o \in pending : waitsOn' = [waitsOn EXCEPT ![r] = o]
          /\ UNCHANGED <<inFlight, call>>
       \/ /\ pending = {}
          /\ waitsOn' = [waitsOn EXCEPT ![r] = r]
          /\ call' = [call EXCEPT ![r] = Call("queued", NoPair, "none")]
          /\ inFlight' = [inFlight EXCEPT ![server[r]] = @ \cup {r}]

(* refreshed, called by verified for an expired token (no `current`) or    *)
(* for one that verifies within Margin of its expiry (`current` is given). *)
StartRefresh(r) ==
    /\ phase[r] = "verifying"
    /\ jar[r] # NoPair
    /\ \/ /\ "expired" \in Verdicts(server[r], jar[r])
          /\ proven' = [proven EXCEPT ![r] = FALSE]
       \/ /\ "ok" \in Verdicts(server[r], jar[r])
          /\ Near(jar[r])
          /\ proven' = [proven EXCEPT ![r] = TRUE]
    /\ SharedRefresh(r)
    /\ phase' = [phase EXCEPT ![r] = "waiting"]
    /\ UNCHANGED <<now, provider, keys, cookie, server, jar, since, got, reply>>

(* refreshOnce: the owner yields once, then calls the provider.            *)
CallProvider(r) ==
    /\ call[r].state = "queued"
    /\ call' = [call EXCEPT ![r] = Call("sent", NoPair, "none")]
    /\ UNCHANGED <<now, provider, keys, cookie, inFlight, phase, server, jar, since,
                   proven, waitsOn, got, reply>>

(* The provider rotates a current token, repeats the rotation of a spent   *)
(* one inside its reuse window, and refuses any other.                     *)
Rotates(p) == revokedAt = Never /\ p = Len(pairs)
Replays(p) == /\ revokedAt = Never /\ p < Len(pairs)
              /\ pairs[p].usedAt # Never
              /\ now <= pairs[p].usedAt + ReuseWindow

ProviderRotates(r) ==
    /\ call[r].state = "sent"
    /\ Rotates(jar[r])
    /\ pairs' = Append([pairs EXCEPT ![jar[r]].usedAt = now],
                       [exp |-> now + TTL, usedAt |-> Never, key |-> SigningKey])
    /\ call' = [call EXCEPT ![r] = Call("rotated", jar[r] + 1, "none")]
    /\ UNCHANGED <<now, revokedAt, retired, keys, cookie, inFlight, phase, server, jar,
                   since, proven, waitsOn, got, reply>>

ProviderReplays(r) ==
    /\ call[r].state = "sent"
    /\ Replays(jar[r])
    /\ call' = [call EXCEPT ![r] = Call("rotated", jar[r] + 1, "none")]
    /\ UNCHANGED <<now, provider, keys, cookie, inFlight, phase, server, jar,
                   since, proven, waitsOn, got, reply>>

ProviderRefuses(r) ==
    /\ call[r].state = "sent"
    /\ ~ Rotates(jar[r]) /\ ~ Replays(jar[r])
    /\ call' = [call EXCEPT ![r] = Call("failed", NoPair, "unauthorized")]
    /\ UNCHANGED <<now, provider, keys, cookie, inFlight, phase, server, jar,
                   since, proven, waitsOn, got, reply>>

ProviderFails(r) ==
    /\ call[r].state = "sent"
    /\ \E reason \in ProviderFaults :
           call' = [call EXCEPT ![r] = Call("failed", NoPair, reason)]
    /\ UNCHANGED <<now, provider, keys, cookie, inFlight, phase, server, jar,
                   since, proven, waitsOn, got, reply>>

(* The provider rotated, and its answer never reached the instance.        *)
AnswerLost(r) ==
    /\ "answer-lost" \in Events
    /\ call[r].state = "rotated"
    /\ call' = [call EXCEPT ![r] = Call("failed", NoPair, "unavailable")]
    /\ UNCHANGED <<now, provider, keys, cookie, inFlight, phase, server, jar,
                   since, proven, waitsOn, got, reply>>

(* `inFlight.delete`, in the `finally` of refreshOnce.                     *)
DeleteForgotten(i, p) == inFlight[i]                              \* wrong variant
Delete(i, p) == inFlight[i] \ Pending(i, p)

(* refreshOnce settles: `finally` deletes the key, then every caller that  *)
(* awaits the promise is resumed with the same outcome.                    *)
Waiters(o) == {r \in Requests : phase[r] = "waiting" /\ waitsOn[r] = o}

Settle(o) ==
    /\ call[o].state \in {"rotated", "failed"}
    /\ inFlight' = [inFlight EXCEPT ![server[o]] = Delete(server[o], jar[o])]
    /\ phase' = [r \in Requests |-> IF r \in Waiters(o) THEN "resumed" ELSE phase[r]]
    /\ got' = [r \in Requests |->
                  IF r \in Waiters(o)
                  THEN [pair |-> call[o].pair, reason |-> call[o].reason]
                  ELSE got[r]]
    /\ call' = [call EXCEPT ![o] = NoCall]
    /\ UNCHANGED <<now, provider, keys, cookie, server, jar, since, proven,
                   waitsOn, reply>>

(* Wrong variants: the rotated pair is dropped; `current` is not needed.   *)
RefreshFailedDropping(r, renewed, reason) ==
    IF proven[r] THEN Reply("signed-in", Keep, jar[r]) ELSE Failed(reason)
RefreshFailedLenient(r, renewed, reason) == Reply("signed-in", Keep, jar[r])

(* The catch block of `refreshed`: what a failure for `reason` answers     *)
(* when `renewed` is the pair the refresh obtained, if it did.             *)
RefreshFailed(r, renewed, reason) ==
    LET kept == IF renewed # NoPair /\ FailureStatus(reason) = "unavailable"
                THEN renewed ELSE Keep
    IN IF proven[r] THEN Reply("signed-in", kept, jar[r])
       ELSE IF kept # Keep THEN Reply("unavailable", kept, NoPair)
       ELSE Failed(reason)

RefreshRefused(r) ==
    /\ phase[r] = "resumed"
    /\ got[r].pair = NoPair
    /\ Answer(r, RefreshFailed(r, NoPair, got[r].reason))

RenewedFails(r) ==
    /\ phase[r] = "resumed"
    /\ got[r].pair # NoPair
    /\ \E reason \in Verdicts(server[r], got[r].pair) \ {"ok"} :
           Answer(r, RefreshFailed(r, got[r].pair, reason))

RenewedServes(r) ==
    /\ phase[r] = "resumed"
    /\ got[r].pair # NoPair
    /\ "ok" \in Verdicts(server[r], got[r].pair)
    /\ Answer(r, Reply("signed-in", got[r].pair, got[r].pair))

-----------------------------------------------------------------------------
(* The way back to the browser, and what can be lost on it.                *)

(* A request that is over leaves nothing behind.                           *)
Forget(R) ==
    /\ phase' = [r \in Requests |-> IF r \in R THEN "idle" ELSE phase[r]]
    /\ jar' = [r \in Requests |-> IF r \in R THEN NoPair ELSE jar[r]]
    /\ since' = [r \in Requests |-> IF r \in R THEN 0 ELSE since[r]]
    /\ proven' = [r \in Requests |-> IF r \in R THEN FALSE ELSE proven[r]]
    /\ waitsOn' = [r \in Requests |-> IF r \in R THEN r ELSE waitsOn[r]]
    /\ call' = [r \in Requests |-> IF r \in R THEN NoCall ELSE call[r]]
    /\ got' = [r \in Requests |-> IF r \in R THEN Nothing ELSE got[r]]
    /\ reply' = [r \in Requests |-> IF r \in R THEN NoReply ELSE reply[r]]
    /\ server' = [r \in Requests |-> IF r \in R THEN Nowhere ELSE server[r]]

(* Responses may be delivered in any order.                                *)
Deliver(r) ==
    /\ phase[r] = "answered"
    /\ cookie' = IF reply[r].sets = Keep THEN cookie ELSE reply[r].sets
    /\ Forget({r})
    /\ UNCHANGED <<now, provider, keys, inFlight>>

Drop(r) ==
    /\ "response-lost" \in Events
    /\ phase[r] = "answered"
    /\ Forget({r})
    /\ UNCHANGED <<now, provider, keys, cookie, inFlight>>

(* A process that dies takes its map, its keys and its requests with it.   *)
Crash(i) ==
    /\ "crash" \in Events
    /\ inFlight' = [inFlight EXCEPT ![i] = {}]
    /\ keys' = [keys EXCEPT ![i] = NoKeys]
    /\ Forget({r \in Requests : server[r] = i})
    /\ UNCHANGED <<now, provider, cookie>>

-----------------------------------------------------------------------------
Handle(r) ==
    \/ Anonymous(r) \/ VerifyFails(r) \/ VerifyServes(r) \/ StartRefresh(r)
    \/ RefreshRefused(r) \/ RenewedFails(r) \/ RenewedServes(r)

Refresh(r) ==
    \/ CallProvider(r) \/ ProviderRotates(r) \/ ProviderReplays(r)
    \/ ProviderRefuses(r) \/ ProviderFails(r) \/ AnswerLost(r) \/ Settle(r)

Environment == Tick \/ Revoke \/ RetireKey \/ SignOut

Next ==
    \/ Environment
    \/ \E r \in Requests :
          \/ \E i \in Instances : Send(r, i)
          \/ Handle(r) \/ Refresh(r) \/ Deliver(r) \/ Drop(r)
    \/ \E i \in Instances : FetchKeys(i) \/ Crash(i)

Spec == Init /\ [][Next]_vars

-----------------------------------------------------------------------------
(* Properties.                                                             *)

(* No entry of the in-flight map outlives its call: each is owned by a     *)
(* request of that process whose call has not settled, and every request   *)
(* waiting for a refresh waits on such an entry for the token it carries,  *)
(* so no caller can hang on a promise nobody will settle.                  *)
EntriesAreLive ==
    /\ \A i \in Instances : \A o \in inFlight[i] :
          /\ server[o] = i /\ phase[o] = "waiting" /\ waitsOn[o] = o
          /\ call[o].state # "none"
    /\ \A r \in Requests : phase[r] = "waiting" =>
          /\ waitsOn[r] \in inFlight[server[r]]
          /\ jar[waitsOn[r]] = jar[r]

(* One process never spends a refresh token twice at the same time.        *)
OneCallPerToken ==
    \A o1, o2 \in Requests :
        /\ o1 # o2 /\ server[o1] = server[o2]
        /\ call[o1].state # "none" /\ call[o2].state # "none"
        => jar[o1] # jar[o2]

(* What a process shares of its refreshes is exactly what is under way: no *)
(* request joins a call that has ended, and none starts a second one.      *)
RefreshesAreShared == EntriesAreLive /\ OneCallPerToken

(* Whoever is served is served a token that had not expired when the       *)
(* request was sent, and whose key was published then or had not been      *)
(* withdrawn for longer than a fetched set is used and its fetch takes:    *)
(* nothing is trusted because the cookie held it, because the provider     *)
(* just returned it or because it verified before the wait for a refresh,  *)
(* whatever keys each instance fetched when.                               *)
ServedWasValidWhenSent ==
    \A r \in Requests : reply[r].served # NoPair =>
        LET p == pairs[reply[r].served]
        IN  /\ p.exp + Tolerance > since[r]
            /\ Withdrawn(p.key) => since[r] < retired[p.key] + KeysMaxAge + KeysTimeout

(* A revoked session ends no later than its last access token: nobody is   *)
(* served for a request sent after that token stopped verifying.           *)
RevocationBites ==
    revokedAt # Never =>
        \A r \in Requests : reply[r].served # NoPair =>
            since[r] < revokedAt + TTL + Tolerance

(* While the provider keeps the session and its key, no interleaving of    *)
(* parallel requests, instances and outages ends it: no request is told    *)
(* "ended" and no response clears the cookie another one just wrote.       *)
LiveSessionNeverEnds ==
    \A r \in Requests : (reply[r].status = "ended" \/ reply[r].sets = NoPair) =>
        revokedAt # Never \/ retired # <<>>

(* The browser is never left holding a spent refresh token: once nothing   *)
(* is outstanding, the cookie of a live session holds the newest pair. No  *)
(* response puts an older one back, no answer is dropped, and the margin   *)
(* of an early refresh (REFRESH_MARGIN_SECONDS) is within the reuse window *)
(* of its token's first use.                                               *)
BrowserNeverStranded ==
    (\A r \in Requests : phase[r] = "idle") =>
        cookie = NoPair \/ cookie = Len(pairs) \/ revokedAt # Never \/ retired # <<>>

=============================================================================
