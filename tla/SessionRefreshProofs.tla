------------------------ MODULE SessionRefreshProofs ------------------------
(***************************************************************************)
(* Proofs about SessionRefresh, for every number of requests and instances *)
(* and every choice of the time constants, the faults and the events.      *)
(***************************************************************************)
EXTENDS SessionRefresh, TLAPS

USE DEF NoPair, Keep, Never

-----------------------------------------------------------------------------
(* Type correctness.                                                       *)

KeySets == [held : SUBSET Nat, at : Nat \cup {Never}]

LEMMA InitTypeOK == Init => TypeOK
<1> SUFFICES ASSUME Init PROVE TypeOK
  OBVIOUS
<1>1. keys \in [Instances -> KeySets] /\ retired \in Seq(Nat)
  BY DEF Init, KeySet, KeySets
<1> QED BY <1>1, InstantsAssumption
        DEF Init, TypeOK, KeySets, Phases, CallStates, Statuses, NoCall, Call, Nothing,
            NoReply, Reply

(* The keys an instance has are a key set, whatever time or a fetch makes  *)
(* of them.                                                                *)
LEMMA KeysType ==
    ASSUME TypeOK, NEW i \in Instances
    PROVE  /\ NoKeys \in KeySets /\ keys[i] \in KeySets
           /\ \A t : Aged(keys[i], t) \in KeySets
           /\ \A k \in Nat, n \in Nat : KeySet(k..(k + n), now) \in KeySets
<1>1. NoKeys \in KeySets /\ keys[i] \in KeySets
  BY DEF TypeOK, NoKeys, KeySet, KeySets
<1>2. \A t : Aged(keys[i], t) \in KeySets
  BY <1>1 DEF Aged
<1>3. \A k \in Nat, n \in Nat : KeySet(k..(k + n), now) \in KeySets
  BY DEF TypeOK, KeySet, KeySets
<1> QED BY <1>1, <1>2, <1>3

(* Every reply the handler can build is well formed.                       *)
LEMMA ReplyType ==
    ASSUME TypeOK, NEW status \in Statuses \cup {"none"},
           NEW sets \in {Keep} \cup 0..Len(pairs), NEW served \in 0..Len(pairs)
    PROVE  Reply(status, sets, served) \in
               [status : Statuses \cup {"none"}, sets : {Keep} \cup 0..Len(pairs),
                served : 0..Len(pairs)]
BY DEF Reply

Replies == [status : Statuses \cup {"none"}, sets : {Keep} \cup 0..Len(pairs),
            served : 0..Len(pairs)]

LEMMA FailedType ==
    ASSUME TypeOK, NEW reason
    PROVE  Failed(reason) \in Replies
<1>1. 0 \in 0..Len(pairs)
  BY DEF TypeOK
<1> QED BY <1>1 DEF Failed, Replies, Reply, FailureStatus, Statuses

LEMMA RefreshFailedType ==
    ASSUME TypeOK, NEW r \in Requests, NEW reason, NEW p \in 0..Len(pairs)
    PROVE  RefreshFailed(r, p, reason) \in Replies
<1>1. jar[r] \in 0..Len(pairs) /\ 0 \in 0..Len(pairs)
  BY DEF TypeOK
<1>2. Failed(reason) \in Replies
  BY FailedType
<1> QED BY <1>1, <1>2 DEF RefreshFailed, Replies, Reply, Statuses

LEMMA AnswerType ==
    ASSUME TypeOK, NEW r \in Requests, NEW rep \in Replies, Answer(r, rep)
    PROVE  TypeOK'
<1>1. 0 \in 0..Len(pairs) /\ pairs' = pairs
  BY DEF TypeOK, Answer, provider
<1>2. /\ phase' \in [Requests -> Phases]
      /\ jar' \in [Requests -> 0..Len(pairs)]
      /\ proven' \in [Requests -> BOOLEAN]
      /\ waitsOn' \in [Requests -> Requests]
  BY <1>1 DEF TypeOK, Answer, Phases
<1>3. got' \in [Requests -> [pair : 0..Len(pairs), reason : Reasons \cup {"none"}]]
  BY <1>1 DEF TypeOK, Answer, Nothing
<1>4. reply' \in [Requests -> Replies]
  BY DEF TypeOK, Answer, Replies
<1> QED BY <1>1, <1>2, <1>3, <1>4, SMTT(60) DEF TypeOK, Answer, Replies, provider

LEMMA ForgetType ==
    ASSUME TypeOK, NEW R \in SUBSET Requests, Forget(R), UNCHANGED <<now, provider>>,
           cookie' \in 0..Len(pairs), inFlight' \in [Instances -> SUBSET Requests],
           keys' \in [Instances -> KeySets]
    PROVE  TypeOK'
<1>1. 0 \in 0..Len(pairs) /\ 0 \in Nat /\ pairs' = pairs
  BY DEF TypeOK, provider
<1>2. phase' \in [Requests -> Phases] /\ server' \in [Requests -> Instances \cup {Nowhere}]
  BY DEF TypeOK, Forget, Phases
<1>3. /\ jar' \in [Requests -> 0..Len(pairs)] /\ since' \in [Requests -> Nat]
      /\ proven' \in [Requests -> BOOLEAN]
      /\ waitsOn' \in [Requests -> Requests]
  BY <1>1 DEF TypeOK, Forget
<1>4. call' \in [Requests -> [state : CallStates, pair : 0..Len(pairs),
                              reason : Reasons \cup {"none"}]]
  BY <1>1 DEF TypeOK, Forget, CallStates, NoCall, Call
<1>5. got' \in [Requests -> [pair : 0..Len(pairs), reason : Reasons \cup {"none"}]]
  BY <1>1 DEF TypeOK, Forget, Nothing
<1>6. reply' \in [Requests -> Replies]
  BY <1>1 DEF TypeOK, Forget, NoReply, Reply, Replies
<1> QED BY <1>1, <1>2, <1>3, <1>4, <1>5, <1>6, SMTT(60) DEF TypeOK, KeySets, Replies, provider

(* A request being handled is at an instance; without this the types are   *)
(* not inductive, since only an instance has a map of calls to join.       *)
Placed == \A r \in Requests : phase[r] # "idle" => server[r] \in Instances
TypeInv == TypeOK /\ Placed

Calls == [state : CallStates, pair : 0..Len(pairs), reason : Reasons \cup {"none"}]

LEMMA StartRefreshType ==
    ASSUME TypeInv, NEW r \in Requests, StartRefresh(r) PROVE TypeOK'
<1>1. 0 \in 0..Len(pairs) /\ pairs' = pairs /\ server[r] \in Instances
  BY DEF TypeInv, TypeOK, Placed, StartRefresh, provider
<1>2. inFlight' \in [Instances -> SUBSET Requests]
  <2>1. inFlight \in [Instances -> SUBSET Requests]
    BY DEF TypeInv, TypeOK
  <2> QED BY <1>1, <2>1 DEF StartRefresh, SharedRefresh
<1>3. phase' \in [Requests -> Phases] /\ proven' \in [Requests -> BOOLEAN]
  BY DEF StartRefresh, TypeInv, TypeOK, Phases
<1>4. waitsOn' \in [Requests -> Requests]
  <2>1. Pending(server[r], jar[r]) \subseteq Requests
    BY <1>1 DEF TypeInv, TypeOK, Pending
  <2>2. waitsOn \in [Requests -> Requests]
    BY DEF TypeInv, TypeOK
  <2> QED BY <2>1, <2>2 DEF StartRefresh, SharedRefresh
<1>5. call' \in [Requests -> Calls]
  <2>1. Call("queued", NoPair, "none") \in Calls
    BY <1>1 DEF Call, Calls, CallStates
  <2>2. call \in [Requests -> Calls]
    BY DEF TypeInv, TypeOK, Calls
  <2> QED BY <2>1, <2>2 DEF StartRefresh, SharedRefresh
<1> QED BY <1>1, <1>2, <1>3, <1>4, <1>5, SMTT(60)
        DEF StartRefresh, TypeInv, TypeOK, Calls, provider

(* A step of the call owned by r that leaves the pairs alone.              *)
LEMMA CallStepType ==
    ASSUME TypeOK, NEW r \in Requests, NEW c \in Calls,
           call' = [call EXCEPT ![r] = c],
           UNCHANGED <<now, provider, keys, cookie, inFlight, phase, server, jar, since,
                       proven, waitsOn, got, reply>>
    PROVE  TypeOK'
<1>1. call \in [Requests -> Calls] /\ pairs' = pairs
  BY DEF TypeOK, Calls, provider
<1>2. call' \in [Requests -> Calls]
  BY <1>1
<1> QED BY <1>1, <1>2, SMTT(60) DEF TypeOK, Calls, provider

LEMMA ProviderRotatesType ==
    ASSUME TypeOK, NEW r \in Requests, ProviderRotates(r) PROVE TypeOK'
<1> DEFINE Pairs == [exp : Nat, usedAt : Nat \cup {Never}, key : Nat \ {0}]
<1>1. /\ jar[r] \in 1..Len(pairs) /\ jar[r] = Len(pairs)
      /\ pairs \in Seq(Pairs) /\ now + TTL \in Nat
      /\ SigningKey \in Nat \ {0}
  BY InstantsAssumption DEF TypeOK, ProviderRotates, Rotates, SigningKey
<1>2. [pairs EXCEPT ![jar[r]].usedAt = now] \in Seq(Pairs)
  <2>1. pairs[jar[r]] \in Pairs
    <3> HIDE DEF Pairs
    <3> QED BY <1>1
  <2>2. [pairs[jar[r]] EXCEPT !.usedAt = now] \in Pairs
    BY <2>1 DEF TypeOK
  <2>3. [pairs EXCEPT ![jar[r]] = [pairs[jar[r]] EXCEPT !.usedAt = now]] \in Seq(Pairs)
    BY <1>1, <2>2
  <2> QED BY <2>3
<1>3. Len([pairs EXCEPT ![jar[r]].usedAt = now]) = Len(pairs)
  BY <1>1
<1>4. [exp |-> now + TTL, usedAt |-> Never, key |-> SigningKey] \in Pairs
  BY <1>1
<1>5. pairs' \in Seq(Pairs) /\ Len(pairs') = Len(pairs) + 1
  BY <1>2, <1>3, <1>4 DEF ProviderRotates
<1>6. call' \in [Requests -> Calls']
  <2>1. Call("rotated", jar[r] + 1, "none") \in Calls'
    BY <1>1, <1>5 DEF Call, Calls, CallStates
  <2>2. call \in [Requests -> Calls']
    BY <1>1, <1>5, SMTT(30) DEF TypeOK, Calls
  <2> QED BY <2>1, <2>2 DEF ProviderRotates
<1> DEFINE n == Len(pairs)
           m == Len(pairs')
<1>a. n \in Nat /\ m = n + 1 /\ 0..n \subseteq 0..m
  <2>1. n \in Nat
    BY <1>1
  <2>2. m = n + 1
    BY <1>5
  <2> QED BY <2>1, <2>2
<1> HIDE DEF m
<1>7. got \in [Requests -> [pair : 0..m, reason : Reasons \cup {"none"}]]
  <2>1. got \in [Requests -> [pair : 0..n, reason : Reasons \cup {"none"}]]
    BY DEF TypeOK
  <2> HIDE DEF n
  <2> QED BY <1>a, <2>1
<1>8. reply \in [Requests -> [status : Statuses \cup {"none"}, sets : {Keep} \cup 0..m,
                              served : 0..m]]
  <2>1. reply \in [Requests -> [status : Statuses \cup {"none"}, sets : {Keep} \cup 0..n,
                                served : 0..n]]
    BY DEF TypeOK
  <2> HIDE DEF n
  <2> QED BY <1>a, <2>1
<1>9. jar \in [Requests -> 0..m]
  <2>1. jar \in [Requests -> 0..n]
    BY DEF TypeOK
  <2> HIDE DEF n
  <2> QED BY <1>a, <2>1
<1>10. cookie \in 0..m
  <2>1. cookie \in 0..n
    BY DEF TypeOK
  <2> HIDE DEF n
  <2> QED BY <1>a, <2>1
<1> USE DEF m
<1> QED BY <1>1, <1>5, <1>6, <1>7, <1>8, <1>9, <1>10, SMTT(60)
        DEF ProviderRotates, TypeOK, Calls, Replies

LEMMA RefreshType ==
    ASSUME TypeOK, NEW r \in Requests, Refresh(r) PROVE TypeOK'
<1>1. 0 \in 0..Len(pairs) /\ jar[r] \in 0..Len(pairs) /\ Len(pairs) \in Nat
  BY DEF TypeOK
<1>2. CASE CallProvider(r)
  <2>1. Call("sent", NoPair, "none") \in Calls
    BY <1>1 DEF Call, Calls, CallStates
  <2> QED BY <1>2, <2>1, CallStepType DEF CallProvider
<1>3. CASE ProviderRotates(r)
  BY <1>3, ProviderRotatesType
<1>4. CASE ProviderReplays(r)
  <2>1. Call("rotated", jar[r] + 1, "none") \in Calls
    BY <1>1, <1>4 DEF ProviderReplays, Replays, Call, Calls, CallStates
  <2> QED BY <1>4, <2>1, CallStepType DEF ProviderReplays
<1>5. CASE ProviderRefuses(r)
  <2>1. Call("failed", NoPair, "unauthorized") \in Calls
    BY <1>1 DEF Call, Calls, CallStates, Reasons
  <2> QED BY <1>5, <2>1, CallStepType DEF ProviderRefuses
<1>6. CASE ProviderFails(r)
  <2>1. \A reason \in ProviderFaults : Call("failed", NoPair, reason) \in Calls
    BY <1>1, FaultsAssumption DEF Call, Calls, CallStates, Reasons
  <2> QED BY <1>6, <2>1, CallStepType DEF ProviderFails
<1>7. CASE AnswerLost(r)
  <2>1. Call("failed", NoPair, "unavailable") \in Calls
    BY <1>1 DEF Call, Calls, CallStates, Reasons, FaultReasons
  <2> QED BY <1>7, <2>1, CallStepType DEF AnswerLost
<1>8. CASE Settle(r)
  <2>1. inFlight' \in [Instances -> SUBSET Requests]
    BY <1>8 DEF Settle, Delete, TypeOK
  <2>2. phase' \in [Requests -> Phases]
    BY <1>8 DEF Settle, TypeOK, Phases
  <2>3. call \in [Requests -> Calls] /\ pairs' = pairs
    BY <1>8 DEF Settle, TypeOK, Calls, provider
  <2>4. call' \in [Requests -> Calls]
    <3>1. NoCall \in Calls
      BY <1>1 DEF NoCall, Call, Calls, CallStates
    <3> QED BY <1>8, <2>3, <3>1 DEF Settle
  <2>5. got' \in [Requests -> [pair : 0..Len(pairs), reason : Reasons \cup {"none"}]]
    <3>1. call[r].pair \in 0..Len(pairs) /\ call[r].reason \in Reasons \cup {"none"}
      BY <2>3 DEF Calls
    <3> QED BY <1>8, <3>1 DEF Settle, TypeOK
  <2> QED BY <1>8, <2>1, <2>2, <2>3, <2>4, <2>5, SMTT(60) DEF Settle, TypeOK, Calls, provider
<1> QED BY <1>2, <1>3, <1>4, <1>5, <1>6, <1>7, <1>8 DEF Refresh

LEMMA HandleType ==
    ASSUME TypeInv, NEW r \in Requests, Handle(r) PROVE TypeOK'
<1>1. /\ TypeOK /\ jar[r] \in 0..Len(pairs)
      /\ got[r].pair \in 0..Len(pairs) /\ 0 \in 0..Len(pairs)
  BY SMTT(30) DEF TypeInv, TypeOK
<1>2. CASE Anonymous(r)
  BY <1>1, <1>2, AnswerType DEF Anonymous, Reply, Replies, Statuses
<1>3. CASE VerifyFails(r)
  BY <1>1, <1>3, FailedType, AnswerType DEF VerifyFails
<1>4. CASE VerifyServes(r)
  BY <1>1, <1>4, AnswerType DEF VerifyServes, Serve, Reply, Replies, Statuses
<1>5. CASE StartRefresh(r)
  BY <1>5, StartRefreshType
<1>6. CASE RefreshRefused(r)
  BY <1>1, <1>6, RefreshFailedType, AnswerType DEF RefreshRefused
<1>7. CASE RenewedFails(r)
  BY <1>1, <1>7, RefreshFailedType, AnswerType DEF RenewedFails
<1>8. CASE RenewedServes(r)
  BY <1>1, <1>8, AnswerType DEF RenewedServes, Reply, Replies, Statuses
<1> QED BY <1>2, <1>3, <1>4, <1>5, <1>6, <1>7, <1>8 DEF Handle

LEMMA NextTypeOK == TypeInv /\ [Next]_vars => TypeOK'
<1> SUFFICES ASSUME TypeInv, [Next]_vars PROVE TypeOK'
  OBVIOUS
<1> USE DEF TypeInv
<1>1. CASE Environment
  <2>1. CASE Tick
    <3>1. keys' \in [Instances -> KeySets]
      BY <2>1, KeysType DEF Tick
    <3> QED BY <2>1, <3>1, SMTT(30) DEF Tick, KeySets, TypeOK, provider, requests
  <2>2. CASE RetireKey
    <3>1. retired' \in Seq(Nat)
      BY <2>2 DEF RetireKey, TypeOK
    <3> QED BY <2>2, <3>1, SMTT(30) DEF RetireKey, TypeOK, requests
  <2>3. CASE Revoke \/ SignOut
    BY <2>3, SMTT(30) DEF Revoke, SignOut, TypeOK, provider, requests
  <2> QED BY <1>1, <2>1, <2>2, <2>3 DEF Environment
<1>8. ASSUME NEW i \in Instances, FetchKeys(i) PROVE TypeOK'
  <2>1. \A k \in 1..SigningKey : k \in Nat
    BY DEF SigningKey, TypeOK
  <2>2. keys' \in [Instances -> KeySets]
    <3>1. PICK k \in 1..SigningKey, n \in Ahead :
              keys' = [keys EXCEPT ![i] = KeySet(k..(k + n), now)]
      BY <1>8 DEF FetchKeys
    <3>2. KeySet(k..(k + n), now) \in KeySets /\ keys \in [Instances -> KeySets]
      BY <2>1, InstantsAssumption, KeysType DEF TypeOK, KeySets
    <3> QED BY <3>1, <3>2
  <2> QED BY <1>8, <2>2 DEF FetchKeys, KeySets, TypeOK, provider, requests
<1>2. ASSUME NEW r \in Requests, NEW i \in Instances, Send(r, i) PROVE TypeOK'
  BY <1>2 DEF Send, TypeOK, Phases, provider
<1>3. ASSUME NEW r \in Requests, Handle(r) PROVE TypeOK'
  BY <1>3, HandleType
<1>4. ASSUME NEW r \in Requests, Refresh(r) PROVE TypeOK'
  BY <1>4, RefreshType
<1>5. ASSUME NEW r \in Requests, Deliver(r) \/ Drop(r) PROVE TypeOK'
  <2>1. {r} \in SUBSET Requests
    OBVIOUS
  <2>2. CASE Deliver(r)
    <3>1. cookie' \in 0..Len(pairs) /\ inFlight' = inFlight
      BY <2>2 DEF Deliver, TypeOK
    <3> QED BY <2>1, <2>2, <3>1, ForgetType DEF Deliver, TypeOK, KeySets
  <2>3. CASE Drop(r)
    BY <2>1, <2>3, ForgetType DEF Drop, TypeOK, KeySets
  <2> QED BY <1>5, <2>2, <2>3
<1>6. ASSUME NEW i \in Instances, Crash(i) PROVE TypeOK'
  <2>1. keys' \in [Instances -> KeySets]
    BY <1>6, KeysType DEF Crash, TypeOK, KeySets
  <2> QED BY <1>6, <2>1, ForgetType DEF Crash, TypeOK
<1>7. CASE UNCHANGED vars
  BY <1>7 DEF vars, TypeOK, provider, requests
<1> QED BY <1>1, <1>2, <1>3, <1>4, <1>5, <1>6, <1>7, <1>8 DEF Next

LEMMA NextPlaced == TypeInv /\ [Next]_vars => Placed'
<1> SUFFICES ASSUME TypeOK, Placed, [Next]_vars PROVE Placed'
  BY DEF TypeInv
<1>1. CASE Environment
  BY <1>1 DEF Environment, Tick, Revoke, RetireKey, SignOut, Placed, requests
<1>2. ASSUME NEW r \in Requests, NEW i \in Instances, Send(r, i) PROVE Placed'
  BY <1>2 DEF Send, Placed, TypeOK
<1>3. ASSUME NEW r \in Requests, Handle(r) PROVE Placed'
  BY <1>3 DEF Handle, Anonymous, VerifyFails, VerifyServes, StartRefresh, RefreshRefused,
              RenewedFails, RenewedServes, Answer, Placed, TypeOK
<1>4. ASSUME NEW r \in Requests, Refresh(r) PROVE Placed'
  BY <1>4 DEF Refresh, CallProvider, ProviderRotates, ProviderReplays, ProviderRefuses,
              ProviderFails, AnswerLost, Settle, Waiters, Placed, TypeOK
<1>5. ASSUME NEW R \in SUBSET Requests, Forget(R) PROVE Placed'
  BY <1>5 DEF Forget, Placed
<1>6. CASE UNCHANGED vars \/ \E i \in Instances : FetchKeys(i)
  BY <1>6 DEF vars, FetchKeys, Placed, requests
<1> QED BY <1>1, <1>2, <1>3, <1>4, <1>5, <1>6 DEF Next, Deliver, Drop, Crash

LEMMA InitTypeInv == Init => TypeInv
BY InitTypeOK DEF Init, TypeInv, Placed

LEMMA TypeInvariant == Spec => []TypeInv
<1>1. TypeInv /\ [Next]_vars => TypeInv'
  BY NextTypeOK, NextPlaced DEF TypeInv
<1> QED BY <1>1, InitTypeInv, PTL DEF Spec

(* The state stays within its types on every behaviour.                    *)
THEOREM TypeCorrect == Spec => []TypeOK
<1>1. TypeInv => TypeOK
  BY DEF TypeInv
<1> QED BY <1>1, TypeInvariant, PTL

-----------------------------------------------------------------------------
(* The in-flight map.  EntriesAreLive alone is not inductive: deleting an   *)
(* entry by its key deletes one call only because keys are unique, and a   *)
(* call can be joined only because it is in the map.                       *)

CallsAreEntries ==
    \A o \in Requests : call[o].state # "none" =>
        phase[o] = "waiting" /\ o \in inFlight[server[o]]
KeysAreUnique ==
    \A i \in Instances : \A o1, o2 \in inFlight[i] : jar[o1] = jar[o2] => o1 = o2
CallsInv == EntriesAreLive /\ CallsAreEntries /\ KeysAreUnique

SameRequest(q) ==
    /\ phase'[q] = phase[q] /\ server'[q] = server[q] /\ jar'[q] = jar[q]
    /\ waitsOn'[q] = waitsOn[q] /\ call'[q] = call[q]

(* A request that is not waiting may change freely and disturb nobody.     *)
LEMMA BystanderStep ==
    ASSUME TypeInv, CallsInv, NEW r \in Requests,
           phase[r] # "waiting", phase'[r] # "waiting", call'[r].state = "none",
           inFlight' = inFlight, \A q \in Requests \ {r} : SameRequest(q)
    PROVE  CallsInv'
<1>1. inFlight \in [Instances -> SUBSET Requests] /\ waitsOn \in [Requests -> Requests]
  BY DEF TypeInv, TypeOK
<1>2. \A i \in Instances : r \notin inFlight[i]
  BY DEF CallsInv, EntriesAreLive
<1>3. EntriesAreLive'
  <2>1. ASSUME NEW i \in Instances, NEW o \in inFlight[i]
        PROVE  /\ server'[o] = i /\ phase'[o] = "waiting" /\ waitsOn'[o] = o
               /\ call'[o].state # "none"
    BY <1>1, <1>2 DEF CallsInv, EntriesAreLive, SameRequest
  <2>2. ASSUME NEW q \in Requests, phase'[q] = "waiting"
        PROVE  waitsOn'[q] \in inFlight[server'[q]] /\ jar'[waitsOn'[q]] = jar'[q]
    <3>1. q # r /\ SameRequest(q)
      BY <2>2
    <3>2. waitsOn[q] \in inFlight[server[q]] /\ jar[waitsOn[q]] = jar[q]
      BY <2>2, <3>1 DEF SameRequest, CallsInv, EntriesAreLive
    <3>3. server[q] \in Instances
      BY <2>2, <3>1 DEF SameRequest, TypeInv, Placed
    <3>4. waitsOn[q] \in Requests \ {r}
      BY <1>1, <1>2, <3>2, <3>3
    <3> QED BY <3>1, <3>2, <3>4 DEF SameRequest
  <2> QED BY <2>1, <2>2 DEF EntriesAreLive
<1>4. CallsAreEntries'
  BY DEF CallsInv, CallsAreEntries, SameRequest
<1>5. KeysAreUnique'
  BY <1>1, <1>2 DEF CallsInv, KeysAreUnique, SameRequest
<1> QED BY <1>3, <1>4, <1>5 DEF CallsInv

(* A step of a call that is still unsettled afterwards.                    *)
LEMMA CallStep ==
    ASSUME TypeInv, CallsInv, NEW r \in Requests, NEW c,
           call[r].state # "none", c.state # "none", call' = [call EXCEPT ![r] = c],
           UNCHANGED <<inFlight, phase, server, jar, waitsOn>>
    PROVE  CallsInv'
<1>1. \A o \in Requests : call'[o].state # "none" <=> call[o].state # "none"
  BY DEF TypeInv, TypeOK
<1>2. inFlight \in [Instances -> SUBSET Requests]
  BY DEF TypeInv, TypeOK
<1> QED BY <1>1, <1>2 DEF CallsInv, EntriesAreLive, CallsAreEntries, KeysAreUnique

LEMMA StartRefreshCalls ==
    ASSUME TypeInv, CallsInv, NEW r \in Requests, StartRefresh(r)
    PROVE  CallsInv'
<1>1. /\ phase[r] = "verifying" /\ phase' = [phase EXCEPT ![r] = "waiting"]
      /\ server' = server /\ jar' = jar /\ server[r] \in Instances
  BY DEF StartRefresh, TypeInv, Placed
<1>2. /\ inFlight \in [Instances -> SUBSET Requests] /\ waitsOn \in [Requests -> Requests]
      /\ phase \in [Requests -> Phases] /\ DOMAIN call = Requests
  BY DEF TypeInv, TypeOK
<1>3. \A i \in Instances : r \notin inFlight[i]
  BY <1>1 DEF CallsInv, EntriesAreLive
<1>4. CASE /\ \E o \in Pending(server[r], jar[r]) : waitsOn' = [waitsOn EXCEPT ![r] = o]
           /\ UNCHANGED <<inFlight, call>>
  <2>1. PICK o \in inFlight[server[r]] :
            jar[o] = jar[r] /\ waitsOn' = [waitsOn EXCEPT ![r] = o]
    BY <1>4 DEF Pending
  <2>2. EntriesAreLive'
    <3>1. ASSUME NEW i \in Instances, NEW q \in inFlight[i]
          PROVE  /\ server[q] = i /\ phase'[q] = "waiting" /\ waitsOn'[q] = q
                 /\ call[q].state # "none"
      <4>1. q \in Requests \ {r}
        BY <1>2, <1>3
      <4> QED BY <1>1, <1>2, <2>1, <4>1 DEF CallsInv, EntriesAreLive
    <3>2. ASSUME NEW q \in Requests, phase'[q] = "waiting"
          PROVE  waitsOn'[q] \in inFlight[server[q]] /\ jar[waitsOn'[q]] = jar[q]
      BY <1>1, <1>2, <2>1, <3>2 DEF CallsInv, EntriesAreLive
    <3> QED BY <1>1, <1>4, <3>1, <3>2 DEF EntriesAreLive
  <2>3. CallsAreEntries' /\ KeysAreUnique'
    BY <1>1, <1>2, <1>4 DEF CallsInv, CallsAreEntries, KeysAreUnique
  <2> QED BY <2>2, <2>3 DEF CallsInv
<1>5. CASE /\ Pending(server[r], jar[r]) = {}
           /\ waitsOn' = [waitsOn EXCEPT ![r] = r]
           /\ call' = [call EXCEPT ![r] = Call("queued", NoPair, "none")]
           /\ inFlight' = [inFlight EXCEPT ![server[r]] = @ \cup {r}]
  <2>1. \A i \in Instances : \A q \in inFlight'[i] :
            \/ q \in inFlight[i] /\ q \in Requests \ {r}
            \/ q = r /\ i = server[r]
    BY <1>2, <1>3, <1>5
  <2>2. call'[r].state # "none" /\ \A q \in Requests \ {r} : call'[q] = call[q]
    BY <1>2, <1>5 DEF Call
  <2>3. EntriesAreLive'
    <3>1. ASSUME NEW i \in Instances, NEW q \in inFlight'[i]
          PROVE  /\ server[q] = i /\ phase'[q] = "waiting" /\ waitsOn'[q] = q
                 /\ call'[q].state # "none"
      BY <1>1, <1>2, <1>5, <2>1, <2>2 DEF CallsInv, EntriesAreLive
    <3>2. ASSUME NEW q \in Requests, phase'[q] = "waiting"
          PROVE  waitsOn'[q] \in inFlight'[server[q]] /\ jar[waitsOn'[q]] = jar[q]
      <4>1. CASE q = r
        BY <1>1, <1>2, <1>5, <4>1
      <4>2. CASE q # r
        <5>1. phase[q] = "waiting" /\ waitsOn'[q] = waitsOn[q] /\ server[q] \in Instances
          BY <1>1, <1>2, <1>5, <3>2, <4>2 DEF TypeInv, Placed
        <5> QED BY <1>2, <1>5, <5>1 DEF CallsInv, EntriesAreLive
      <4> QED BY <4>1, <4>2
    <3> QED BY <1>1, <3>1, <3>2 DEF EntriesAreLive
  <2>4. CallsAreEntries'
    <3>1. ASSUME NEW q \in Requests, call'[q].state # "none"
          PROVE  phase'[q] = "waiting" /\ q \in inFlight'[server[q]]
      <4>1. CASE q = r
        BY <1>1, <1>2, <1>5, <4>1
      <4>2. CASE q # r
        <5>1. phase[q] = "waiting" /\ q \in inFlight[server[q]] /\ server[q] \in Instances
          BY <2>2, <3>1, <4>2 DEF CallsInv, CallsAreEntries, TypeInv, Placed
        <5> QED BY <1>1, <1>2, <1>5, <4>2, <5>1
      <4> QED BY <4>1, <4>2
    <3> QED BY <1>1, <3>1 DEF CallsAreEntries
  <2>5. KeysAreUnique'
    <3>1. \A q \in inFlight[server[r]] : jar[q] # jar[r]
      BY <1>5 DEF Pending
    <3> QED BY <1>1, <2>1, <3>1 DEF CallsInv, KeysAreUnique
  <2> QED BY <2>3, <2>4, <2>5 DEF CallsInv
<1> QED BY <1>4, <1>5 DEF StartRefresh, SharedRefresh

(* Settling o deletes exactly o from the map, and resumes exactly those    *)
(* who would otherwise be left waiting on it.                              *)
LEMMA SettleCalls ==
    ASSUME TypeInv, CallsInv, NEW o \in Requests, Settle(o)
    PROVE  CallsInv'
<1>1. /\ inFlight \in [Instances -> SUBSET Requests] /\ waitsOn \in [Requests -> Requests]
      /\ DOMAIN call = Requests
  BY DEF TypeInv, TypeOK
<1>2. /\ phase[o] = "waiting" /\ o \in inFlight[server[o]] /\ server[o] \in Instances
      /\ call[o].state # "none"
  BY DEF Settle, CallsInv, CallsAreEntries, TypeInv, Placed
<1>3. Pending(server[o], jar[o]) = {o}
  BY <1>2 DEF Pending, CallsInv, KeysAreUnique
<1>4. /\ inFlight' = [inFlight EXCEPT ![server[o]] = @ \ {o}]
      /\ server' = server /\ jar' = jar /\ waitsOn' = waitsOn
  BY <1>3 DEF Settle, Delete
<1>5. \A i \in Instances : inFlight'[i] = inFlight[i] \ {o}
  BY <1>1, <1>2, <1>4 DEF CallsInv, EntriesAreLive
<1>6. \A q \in Requests : phase'[q] = "waiting" <=> phase[q] = "waiting" /\ waitsOn[q] # o
  BY DEF Settle, Waiters
<1>7. call'[o].state = "none" /\ \A q \in Requests \ {o} : call'[q] = call[q]
  BY <1>1 DEF Settle, NoCall, Call
<1>8. EntriesAreLive'
  <2>1. ASSUME NEW i \in Instances, NEW q \in inFlight'[i]
        PROVE  /\ server[q] = i /\ phase'[q] = "waiting" /\ waitsOn[q] = q
               /\ call'[q].state # "none"
    BY <1>1, <1>5, <1>6, <1>7 DEF CallsInv, EntriesAreLive
  <2>2. ASSUME NEW q \in Requests, phase'[q] = "waiting"
        PROVE  waitsOn[q] \in inFlight'[server[q]] /\ jar[waitsOn[q]] = jar[q]
    BY <1>5, <1>6, <2>2 DEF CallsInv, EntriesAreLive, TypeInv, Placed
  <2> QED BY <1>4, <2>1, <2>2 DEF EntriesAreLive
<1>9. CallsAreEntries'
  <2>1. ASSUME NEW q \in Requests, call'[q].state # "none"
        PROVE  phase'[q] = "waiting" /\ q \in inFlight'[server[q]]
    <3>1. /\ q # o /\ phase[q] = "waiting" /\ q \in inFlight[server[q]]
          /\ server[q] \in Instances
      BY <1>7, <2>1 DEF CallsInv, CallsAreEntries, TypeInv, Placed
    <3>2. waitsOn[q] = q
      BY <3>1 DEF CallsInv, EntriesAreLive
    <3> QED BY <1>5, <1>6, <3>1, <3>2
  <2> QED BY <1>4, <2>1 DEF CallsAreEntries
<1>10. KeysAreUnique'
  BY <1>4, <1>5 DEF CallsInv, KeysAreUnique
<1> QED BY <1>8, <1>9, <1>10 DEF CallsInv

LEMMA CrashCalls ==
    ASSUME TypeInv, CallsInv, NEW i \in Instances, Crash(i)
    PROVE  CallsInv'
<1> DEFINE Lost == {r \in Requests : server[r] = i}
<1>1. /\ inFlight \in [Instances -> SUBSET Requests] /\ waitsOn \in [Requests -> Requests]
  BY DEF TypeInv, TypeOK
<1>2. \A r \in Lost : phase'[r] = "idle" /\ call'[r].state = "none"
  BY DEF Crash, Forget, NoCall, Call
<1>3. \A r \in Requests \ Lost : SameRequest(r)
  BY DEF Crash, Forget, SameRequest
<1>4. inFlight'[i] = {} /\ \A j \in Instances \ {i} : inFlight'[j] = inFlight[j]
  BY <1>1 DEF Crash
<1>5. \A j \in Instances \ {i} : \A o \in inFlight[j] : o \in Requests \ Lost
  BY <1>1 DEF CallsInv, EntriesAreLive
<1>6. EntriesAreLive'
  <2>1. ASSUME NEW j \in Instances, NEW o \in inFlight'[j]
        PROVE  /\ server'[o] = j /\ phase'[o] = "waiting" /\ waitsOn'[o] = o
               /\ call'[o].state # "none"
    BY <1>3, <1>4, <1>5 DEF CallsInv, EntriesAreLive, SameRequest
  <2>2. ASSUME NEW q \in Requests, phase'[q] = "waiting"
        PROVE  waitsOn'[q] \in inFlight'[server'[q]] /\ jar'[waitsOn'[q]] = jar'[q]
    <3>1. q \notin Lost /\ SameRequest(q)
      BY <1>2, <1>3, <2>2
    <3>2. server[q] \in Instances \ {i}
      BY <2>2, <3>1 DEF SameRequest, TypeInv, Placed
    <3>3. waitsOn[q] \in inFlight[server[q]] /\ jar[waitsOn[q]] = jar[q]
      BY <2>2, <3>1 DEF SameRequest, CallsInv, EntriesAreLive
    <3>4. SameRequest(waitsOn[q])
      BY <1>3, <1>5, <3>2, <3>3
    <3> QED BY <1>4, <3>1, <3>2, <3>3, <3>4 DEF SameRequest
  <2> QED BY <2>1, <2>2 DEF EntriesAreLive
<1>7. CallsAreEntries'
  <2>1. ASSUME NEW q \in Requests, call'[q].state # "none"
        PROVE  phase'[q] = "waiting" /\ q \in inFlight'[server'[q]]
    <3>1. q \notin Lost /\ SameRequest(q)
      BY <1>2, <1>3, <2>1
    <3>2. phase[q] = "waiting" /\ q \in inFlight[server[q]]
      BY <2>1, <3>1 DEF SameRequest, CallsInv, CallsAreEntries
    <3>3. server[q] \in Instances \ {i}
      BY <3>1, <3>2 DEF TypeInv, Placed
    <3> QED BY <1>4, <3>1, <3>2, <3>3 DEF SameRequest
  <2> QED BY <2>1 DEF CallsAreEntries
<1>8. KeysAreUnique'
  BY <1>3, <1>4, <1>5 DEF CallsInv, KeysAreUnique, SameRequest
<1> QED BY <1>6, <1>7, <1>8 DEF CallsInv

LEMMA InitCalls == Init => CallsInv
BY DEF Init, NoCall, Call, CallsInv, EntriesAreLive, CallsAreEntries, KeysAreUnique

LEMMA NextCalls == TypeInv /\ CallsInv /\ [Next]_vars => CallsInv'
<1> SUFFICES ASSUME TypeInv, CallsInv, [Next]_vars PROVE CallsInv'
  OBVIOUS
<1>1. CASE Environment \/ UNCHANGED vars \/ \E i \in Instances : FetchKeys(i)
  <2>1. UNCHANGED <<inFlight, phase, server, jar, waitsOn, call>>
    BY <1>1 DEF Environment, Tick, Revoke, RetireKey, SignOut, FetchKeys, vars, requests
  <2> QED BY <2>1 DEF CallsInv, EntriesAreLive, CallsAreEntries, KeysAreUnique
<1>2. ASSUME NEW r \in Requests, phase[r] # "waiting" PROVE call[r].state = "none"
  BY <1>2 DEF CallsInv, CallsAreEntries
<1>3. ASSUME NEW r \in Requests, NEW i \in Instances, Send(r, i) PROVE CallsInv'
  <2>1. \A q \in Requests \ {r} : SameRequest(q)
    BY <1>3 DEF Send, SameRequest, TypeInv, TypeOK
  <2>2. phase[r] = "idle" /\ phase'[r] = "verifying" /\ call' = call /\ inFlight' = inFlight
    BY <1>3 DEF Send, TypeInv, TypeOK
  <2> QED BY <1>2, <2>1, <2>2, BystanderStep
<1>4. ASSUME NEW r \in Requests, NEW rep, phase[r] # "waiting", Answer(r, rep)
      PROVE  CallsInv'
  <2>1. \A q \in Requests \ {r} : SameRequest(q)
    BY <1>4 DEF Answer, SameRequest, TypeInv, TypeOK
  <2>2. phase'[r] = "answered" /\ call' = call /\ inFlight' = inFlight
    BY <1>4 DEF Answer, TypeInv, TypeOK
  <2> QED BY <1>2, <1>4, <2>1, <2>2, BystanderStep
<1>5. ASSUME NEW r \in Requests, Handle(r) PROVE CallsInv'
  <2>1. CASE StartRefresh(r)
    BY <2>1, StartRefreshCalls
  <2>2. CASE Anonymous(r) \/ VerifyServes(r) \/ RefreshRefused(r) \/ RenewedServes(r)
    BY <1>4, <2>2 DEF Anonymous, VerifyServes, RefreshRefused, RenewedServes
  <2>3. CASE VerifyFails(r) \/ RenewedFails(r)
    BY <1>4, <2>3 DEF VerifyFails, RenewedFails
  <2> QED BY <1>5, <2>1, <2>2, <2>3 DEF Handle
<1>6. ASSUME NEW r \in Requests, Refresh(r) PROVE CallsInv'
  <2>1. CASE Settle(r)
    BY <2>1, SettleCalls
  <2>2. CASE ~ Settle(r)
    <3>1. PICK c : /\ call[r].state # "none" /\ c.state # "none"
                   /\ call' = [call EXCEPT ![r] = c]
                   /\ UNCHANGED <<inFlight, phase, server, jar, waitsOn>>
      BY <1>6, <2>2 DEF Refresh, CallProvider, ProviderRotates, ProviderReplays,
                        ProviderRefuses, ProviderFails, AnswerLost, Call
    <3> QED BY <3>1, CallStep
  <2> QED BY <2>1, <2>2
<1>7. ASSUME NEW r \in Requests, phase[r] = "answered", Forget({r}), inFlight' = inFlight
      PROVE  CallsInv'
  <2>1. \A q \in Requests \ {r} : SameRequest(q)
    BY <1>7 DEF Forget, SameRequest
  <2>2. phase'[r] = "idle" /\ call'[r].state = "none"
    BY <1>7 DEF Forget, NoCall, Call
  <2> QED BY <1>7, <2>1, <2>2, BystanderStep
<1>8. ASSUME NEW i \in Instances, Crash(i) PROVE CallsInv'
  BY <1>8, CrashCalls
<1> QED BY <1>1, <1>3, <1>5, <1>6, <1>7, <1>8 DEF Next, Deliver, Drop

LEMMA CallsInvariant == Spec => []CallsInv
BY TypeInvariant, InitCalls, NextCalls, PTL DEF Spec

(* No in-flight entry outlives its call, nobody waits on a settled one, and *)
(* a process never has two provider calls out for one refresh token.        *)
THEOREM RefreshesAreSharedAlways == Spec => []RefreshesAreShared
<1>1. TypeInv /\ CallsInv => OneCallPerToken
  BY DEF TypeInv, Placed, CallsInv, CallsAreEntries, KeysAreUnique, OneCallPerToken
<1>2. TypeInv /\ CallsInv => RefreshesAreShared
  BY <1>1 DEF CallsInv, RefreshesAreShared
<1> QED BY <1>2, TypeInvariant, CallsInvariant, PTL

-----------------------------------------------------------------------------
(* What is served.  The invariant carries the evidence of validity from    *)
(* the verification to the answer: `proven` vouches for the carried token  *)
(* while a refresh is awaited.                                             *)

ValidWhenSent(r, p) ==
    /\ pairs[p].exp + Tolerance > since[r]
    /\ Withdrawn(pairs[p].key) =>
           since[r] < retired[pairs[p].key] + KeysMaxAge + KeysTimeout

PastIsPast == /\ \A r \in Requests : since[r] <= now
              /\ \A k \in 1..Len(retired) : retired[k] <= now
              /\ \A j, k \in 1..Len(retired) : j <= k => retired[j] <= retired[k]
(* A set of keys that is used has not reached its age, and lacks what was  *)
(* withdrawn more than a fetch before it came.                             *)
KeysInv ==
    \A i \in Instances : Fresh(i) =>
        /\ keys[i].at <= now /\ now < keys[i].at + KeysMaxAge
        /\ \A k \in keys[i].held :
              k >= 1 /\ (Withdrawn(k) => keys[i].at <= retired[k] + KeysTimeout)
ProvenIsValid ==
    \A r \in Requests : proven[r] =>
        /\ phase[r] \in {"waiting", "resumed"} /\ jar[r] # NoPair
        /\ ValidWhenSent(r, jar[r])
ServedIsValid ==
    \A r \in Requests : reply[r].served # NoPair =>
        phase[r] = "answered" /\ ValidWhenSent(r, reply[r].served)
(* No pair outlives a lifetime from now, or from the revocation.           *)
ExpiriesAreBounded ==
    \A p \in 1..Len(pairs) :
        /\ pairs[p].exp <= now + TTL
        /\ revokedAt # Never => pairs[p].exp <= revokedAt + TTL
ServedInv == PastIsPast /\ KeysInv /\ ProvenIsValid /\ ServedIsValid /\ ExpiriesAreBounded

LEMMA InitServed == Init => ServedInv
BY InstantsAssumption
   DEF Init, NoReply, Reply, ServedInv, PastIsPast, ProvenIsValid, ServedIsValid,
       ExpiriesAreBounded, KeysInv, KeySet, Fresh, NoKeys, Withdrawn

LEMMA PairTypes ==
    ASSUME TypeInv, NEW p \in 1..Len(pairs)
    PROVE  pairs[p].exp \in Nat /\ pairs[p].key \in Nat \ {0}
<1> DEFINE Pair == [exp : Nat, usedAt : Nat \cup {Never}, key : Nat \ {0}]
<1>1. pairs \in Seq(Pair)
  BY DEF TypeInv, TypeOK
<1>2. pairs[p] \in Pair
  <2> HIDE DEF Pair
  <2> QED BY <1>1
<1> QED BY <1>2

(* A pair that verifies now verified when the request was sent.            *)
LEMMA OkIsValid ==
    ASSUME TypeInv, PastIsPast, KeysInv, NEW r \in Requests, NEW i \in Instances,
           NEW p \in 1..Len(pairs), "ok" \in Verdicts(i, p)
    PROVE  ValidWhenSent(r, p)
<1>1. "ok" \notin VerifyFaults
  BY FaultsAssumption DEF FaultReasons
<1>2. ~ Expired(p) /\ Fresh(i) /\ pairs[p].key \in keys[i].held
  BY <1>1 DEF Verdicts, Usable, Holds
<1>3. pairs[p].exp \in Nat /\ pairs[p].key \in Nat \ {0}
  BY PairTypes
<1>4. since[r] \in Nat /\ now \in Nat /\ since[r] <= now
  BY DEF TypeInv, TypeOK, PastIsPast
<1>5. pairs[p].exp + Tolerance > since[r]
  BY <1>2, <1>3, <1>4, InstantsAssumption DEF Expired
<1>6. ASSUME Withdrawn(pairs[p].key)
      PROVE  since[r] < retired[pairs[p].key] + KeysMaxAge + KeysTimeout
  <2>1. retired[pairs[p].key] \in Nat
    <3>1. retired \in Seq(Nat)
      BY DEF TypeInv, TypeOK
    <3>2. pairs[p].key \in 1..Len(retired)
      BY <1>3, <1>6, <3>1 DEF Withdrawn
    <3> QED BY <3>1, <3>2
  <2>2. keys[i].at \in Int
    BY KeysType DEF TypeInv, KeySets
  <2>3. now < keys[i].at + KeysMaxAge /\ keys[i].at <= retired[pairs[p].key] + KeysTimeout
    BY <1>2, <1>6 DEF KeysInv
  <2> QED BY <1>4, <2>1, <2>2, <2>3, InstantsAssumption
<1> QED BY <1>5, <1>6 DEF ValidWhenSent

(* The answer is valid if the pair it serves is.                           *)
LEMMA AnswerServed ==
    ASSUME TypeInv, ServedInv, NEW r \in Requests, NEW rep, Answer(r, rep),
           rep.served # NoPair => ValidWhenSent(r, rep.served)
    PROVE  ServedInv'
<1>1. UNCHANGED <<now, pairs, revokedAt, retired, keys, since>>
  BY DEF Answer, provider
<1>2. PastIsPast' /\ KeysInv' /\ ExpiriesAreBounded'
  BY <1>1 DEF ServedInv, PastIsPast, KeysInv, Fresh, Withdrawn, ExpiriesAreBounded
<1>3. ProvenIsValid'
  BY <1>1 DEF Answer, TypeInv, TypeOK, ServedInv, ProvenIsValid, ValidWhenSent, Withdrawn
<1>4. ServedIsValid'
  BY <1>1 DEF Answer, TypeInv, TypeOK, ServedInv, ServedIsValid, ValidWhenSent, Withdrawn
<1> QED BY <1>2, <1>3, <1>4 DEF ServedInv

LEMMA RefreshFailedServes ==
    ASSUME TypeInv, ServedInv, NEW r \in Requests, NEW p, NEW reason
    PROVE  LET rep == RefreshFailed(r, p, reason)
           IN  rep.served # NoPair => ValidWhenSent(r, rep.served)
BY DEF RefreshFailed, Failed, Reply, ServedInv, ProvenIsValid

LEMMA HandleServed ==
    ASSUME TypeInv, ServedInv, NEW r \in Requests, Handle(r) PROVE ServedInv'
<1>1. /\ PastIsPast /\ KeysInv /\ jar[r] \in 0..Len(pairs) /\ got[r].pair \in 0..Len(pairs)
      /\ Len(pairs) \in Nat
  BY DEF TypeInv, TypeOK, ServedInv
<1>a. phase[r] # "idle" => server[r] \in Instances
  BY DEF TypeInv, Placed
<1>2. CASE Anonymous(r)
  BY <1>2, AnswerServed DEF Anonymous, Reply
<1>3. CASE VerifyFails(r)
  BY <1>3, AnswerServed DEF VerifyFails, Failed, Reply
<1>4. CASE VerifyServes(r)
  <2>1. ValidWhenSent(r, jar[r])
    BY <1>1, <1>a, <1>4, OkIsValid DEF VerifyServes
  <2> QED BY <1>4, <2>1, AnswerServed DEF VerifyServes, Serve, Reply
<1>5. CASE StartRefresh(r)
  <2>1. UNCHANGED <<now, pairs, revokedAt, retired, keys, since, jar, reply>>
    BY <1>5 DEF StartRefresh, provider
  <2>2. proven'[r] => jar[r] # NoPair /\ ValidWhenSent(r, jar[r])
    <3>1. proven \in [Requests -> BOOLEAN]
      BY DEF TypeInv, TypeOK
    <3>2. jar[r] # NoPair /\ phase[r] = "verifying" /\ (proven'[r] => "ok" \in Verdicts(server[r], jar[r]))
      BY <1>5, <3>1 DEF StartRefresh
    <3> QED BY <1>1, <1>a, <3>2, OkIsValid
  <2>3. /\ phase'[r] = "waiting" /\ phase[r] = "verifying"
        /\ \A q \in Requests \ {r} : phase'[q] = phase[q] /\ proven'[q] = proven[q]
    BY <1>5 DEF StartRefresh, TypeInv, TypeOK
  <2>4. ProvenIsValid'
    BY <2>1, <2>2, <2>3 DEF ServedInv, ProvenIsValid, ValidWhenSent, Withdrawn
  <2> QED BY <2>1, <2>3, <2>4
          DEF ServedInv, PastIsPast, KeysInv, Fresh, Withdrawn, ServedIsValid,
              ExpiriesAreBounded, ValidWhenSent
<1>6. CASE RefreshRefused(r)
  BY <1>6, AnswerServed, RefreshFailedServes DEF RefreshRefused
<1>7. CASE RenewedFails(r)
  BY <1>7, AnswerServed, RefreshFailedServes DEF RenewedFails
<1>8. CASE RenewedServes(r)
  <2>1. ValidWhenSent(r, got[r].pair)
    BY <1>1, <1>a, <1>8, OkIsValid DEF RenewedServes
  <2> QED BY <1>8, <2>1, AnswerServed DEF RenewedServes, Reply
<1> QED BY <1>2, <1>3, <1>4, <1>5, <1>6, <1>7, <1>8 DEF Handle

LEMMA ForgetServed ==
    ASSUME TypeInv, ServedInv, NEW R \in SUBSET Requests, Forget(R),
           UNCHANGED <<now, pairs, revokedAt, retired>>,
           \A i \in Instances : keys'[i] = keys[i] \/ keys'[i] = NoKeys
    PROVE  ServedInv'
<1>1. now \in Nat
  BY DEF TypeInv, TypeOK
<1>2. PastIsPast'
  BY <1>1 DEF Forget, ServedInv, PastIsPast
<1>3. ProvenIsValid'
  BY DEF Forget, ServedInv, ProvenIsValid, ValidWhenSent, Withdrawn
<1>4. ServedIsValid'
  BY DEF Forget, NoReply, Reply, ServedInv, ServedIsValid, ValidWhenSent, Withdrawn
<1>5. ExpiriesAreBounded'
  BY DEF ServedInv, ExpiriesAreBounded
<1>6. KeysInv'
  BY DEF ServedInv, KeysInv, Fresh, Withdrawn
<1> QED BY <1>2, <1>3, <1>4, <1>5, <1>6 DEF ServedInv

(* Rotation adds a pair and leaves the expiry and key of the others alone. *)
LEMMA RotatedKeys ==
    ASSUME TypeInv, NEW r \in Requests, ProviderRotates(r)
    PROVE  /\ Len(pairs') = Len(pairs) + 1
           /\ pairs'[Len(pairs) + 1].exp = now + TTL
           /\ pairs'[Len(pairs) + 1].key = SigningKey
           /\ \A p \in 1..Len(pairs) :
                  pairs'[p].exp = pairs[p].exp /\ pairs'[p].key = pairs[p].key
<1> DEFINE Pair == [exp : Nat, usedAt : Nat \cup {Never}, key : Nat \ {0}]
           spent == [pairs EXCEPT ![jar[r]].usedAt = now]
           fresh == [exp |-> now + TTL, usedAt |-> Never, key |-> SigningKey]
<1>1. /\ pairs \in Seq(Pair) /\ jar[r] \in 1..Len(pairs) /\ now \in Nat
      /\ Len(pairs) \in Nat
  BY DEF TypeInv, TypeOK, ProviderRotates, Rotates
<1>2. /\ Len(spent) = Len(pairs)
      /\ \A p \in 1..Len(pairs) : spent[p].exp = pairs[p].exp /\ spent[p].key = pairs[p].key
  BY <1>1
<1>3. pairs' = Append(spent, fresh) /\ fresh.exp = now + TTL /\ fresh.key = SigningKey
  BY DEF ProviderRotates
<1>4. spent \in Seq(Pair)
  <2>1. pairs[jar[r]] \in Pair
    <3> HIDE DEF Pair
    <3> QED BY <1>1
  <2>2. [pairs[jar[r]] EXCEPT !.usedAt = now] \in Pair
    BY <1>1, <2>1
  <2>3. [pairs EXCEPT ![jar[r]] = [pairs[jar[r]] EXCEPT !.usedAt = now]] \in Seq(Pair)
    <3> HIDE DEF Pair
    <3> QED BY <1>1, <2>2
  <2> QED BY <2>3
<1> HIDE DEF spent, fresh, Pair
<1>5. fresh \in Pair
  <2>1. SigningKey \in Nat \ {0}
    BY DEF SigningKey, TypeInv, TypeOK
  <2> QED BY <1>1, <2>1, InstantsAssumption DEF fresh, Pair
<1>6. /\ Len(Append(spent, fresh)) = Len(spent) + 1
      /\ Append(spent, fresh)[Len(spent) + 1] = fresh
      /\ \A p \in 1..Len(spent) : Append(spent, fresh)[p] = spent[p]
  BY <1>4, <1>5
<1> QED BY <1>2, <1>3, <1>6

LEMMA RotationServed ==
    ASSUME TypeInv, ServedInv, NEW r \in Requests, ProviderRotates(r) PROVE ServedInv'
<1>1. Len(pairs) \in Nat /\ now \in Nat /\ revokedAt = Never
  BY DEF TypeInv, TypeOK, ProviderRotates, Rotates
<1>5. /\ Len(pairs') = Len(pairs) + 1 /\ pairs'[Len(pairs) + 1].exp = now + TTL
      /\ \A p \in 1..Len(pairs) :
             pairs'[p].exp = pairs[p].exp /\ pairs'[p].key = pairs[p].key
  BY RotatedKeys
<1>6. UNCHANGED <<now, revokedAt, retired, keys, phase, jar, since, proven, reply>>
  BY DEF ProviderRotates
<1>7. ProvenIsValid'
  <2>1. jar \in [Requests -> 0..Len(pairs)]
    BY DEF TypeInv, TypeOK
  <2>2. \A q \in Requests : proven[q] => jar[q] \in 1..Len(pairs)
    BY <1>1, <2>1 DEF ServedInv, ProvenIsValid
  <2> QED BY <1>5, <1>6, <2>2 DEF ServedInv, ProvenIsValid, ValidWhenSent, Withdrawn
<1>8. ServedIsValid'
  <2>1. \A q \in Requests : reply[q].served \in 0..Len(pairs)
    BY DEF TypeInv, TypeOK
  <2>2. \A q \in Requests : reply[q].served # NoPair => reply[q].served \in 1..Len(pairs)
    BY <1>1, <2>1
  <2> QED BY <1>5, <1>6, <2>2 DEF ServedInv, ServedIsValid, ValidWhenSent, Withdrawn
<1>9. ExpiriesAreBounded'
  <2>1. ASSUME NEW p \in 1..(Len(pairs) + 1) PROVE pairs'[p].exp <= now + TTL
    <3>1. CASE p = Len(pairs) + 1
      BY <1>1, <1>5, <3>1, InstantsAssumption
    <3>2. CASE p \in 1..Len(pairs)
      BY <1>5, <3>2 DEF ServedInv, ExpiriesAreBounded
    <3> QED BY <1>1, <3>1, <3>2
  <2> QED BY <1>1, <1>5, <1>6, <2>1 DEF ExpiriesAreBounded
<1> QED BY <1>6, <1>7, <1>8, <1>9 DEF ServedInv, PastIsPast, KeysInv, Fresh, Withdrawn

(* Time passes: sets of keys past their age are gone.                      *)
LEMMA TickServed == TypeInv /\ ServedInv /\ Tick => ServedInv'
<1> SUFFICES ASSUME TypeInv, ServedInv, Tick PROVE ServedInv'
  OBVIOUS
<1>1. /\ now \in Nat /\ now' = now + 1 /\ retired \in Seq(Nat)
      /\ UNCHANGED <<pairs, revokedAt, retired, phase, jar, since, proven, reply>>
      /\ keys' = [i \in Instances |-> Aged(keys[i], now + 1)]
  BY DEF Tick, TypeInv, TypeOK, provider, requests
<1>2. ProvenIsValid' /\ ServedIsValid'
  BY <1>1 DEF ServedInv, ProvenIsValid, ServedIsValid, ValidWhenSent, Withdrawn
<1>3. PastIsPast'
  <2>1. \A r \in Requests : since[r] \in Nat
    BY DEF TypeInv, TypeOK
  <2>2. \A k \in 1..Len(retired) : retired[k] \in Nat
    BY <1>1
  <2> QED BY <1>1, <2>1, <2>2 DEF ServedInv, PastIsPast
<1>4. ExpiriesAreBounded'
  <2>1. \A p \in 1..Len(pairs) : pairs[p].exp \in Nat
    BY PairTypes
  <2> QED BY <1>1, <2>1, InstantsAssumption DEF ServedInv, ExpiriesAreBounded
<1>5. KeysInv'
  <2> SUFFICES ASSUME NEW i \in Instances, Fresh(i)'
               PROVE  /\ keys'[i].at <= now' /\ now' < keys'[i].at + KeysMaxAge
                      /\ \A k \in keys'[i].held :
                            k >= 1 /\ (Withdrawn(k)' => keys'[i].at <= retired'[k] + KeysTimeout)
    BY DEF KeysInv
  <2>1. keys'[i] = keys[i] /\ now + 1 < keys[i].at + KeysMaxAge /\ Fresh(i)
    BY <1>1 DEF Fresh, Aged
  <2>2. keys[i].at \in Int
    BY KeysType DEF TypeInv, KeySets
  <2> QED BY <1>1, <2>1, <2>2 DEF ServedInv, KeysInv, Withdrawn
<1> QED BY <1>2, <1>3, <1>4, <1>5 DEF ServedInv

(* A key is withdrawn: whatever it signed verified until now.              *)
LEMMA RetireKeyServed == TypeInv /\ ServedInv /\ RetireKey => ServedInv'
<1> SUFFICES ASSUME TypeInv, ServedInv, RetireKey PROVE ServedInv'
  OBVIOUS
<1>1. /\ now \in Nat /\ retired' = Append(retired, now) /\ retired \in Seq(Nat)
      /\ UNCHANGED <<now, pairs, revokedAt, keys, phase, jar, since, proven, reply>>
      /\ \A r \in Requests : since[r] \in Nat
  BY DEF RetireKey, TypeInv, TypeOK, requests
<1>2. /\ Len(retired) \in Nat /\ Len(retired') = Len(retired) + 1
      /\ retired'[Len(retired) + 1] = now
      /\ \A k \in 1..Len(retired) : retired'[k] = retired[k]
  BY <1>1
<1>3. ASSUME NEW k \in Nat \ {0}, Withdrawn(k)'
      PROVE  (Withdrawn(k) /\ retired'[k] = retired[k]) \/ retired'[k] = now
  BY <1>2, <1>3 DEF Withdrawn
<1>4. ASSUME NEW r \in Requests, NEW p \in 1..Len(pairs), ValidWhenSent(r, p)
      PROVE  ValidWhenSent(r, p)'
  <2>1. pairs[p].key \in Nat \ {0} /\ since[r] <= now /\ since[r] \in Nat
    BY <1>1, PairTypes DEF ServedInv, PastIsPast
  <2>2. now + KeysMaxAge + KeysTimeout > since[r]
    BY <1>1, <2>1, InstantsAssumption
  <2>3. Withdrawn(pairs[p].key)' =>
            since[r] < retired'[pairs[p].key] + KeysMaxAge + KeysTimeout
    <3> DEFINE key == pairs[p].key
    <3>1. Withdrawn(key)' => (Withdrawn(key) /\ retired'[key] = retired[key]) \/ retired'[key] = now
      BY <1>1, <1>3, <2>1 DEF Withdrawn
    <3>2. Withdrawn(key) => since[r] < retired[key] + KeysMaxAge + KeysTimeout
      BY <1>4 DEF ValidWhenSent
    <3> QED BY <2>2, <3>1, <3>2
  <2>4. pairs' = pairs /\ since' = since
    BY <1>1
  <2> QED BY <1>4, <2>3, <2>4 DEF ValidWhenSent, Withdrawn
<1>5. ProvenIsValid' /\ ServedIsValid'
  <2>1. \A r \in Requests : jar[r] \in 0..Len(pairs) /\ reply[r].served \in 0..Len(pairs)
    BY DEF TypeInv, TypeOK
  <2> QED BY <1>1, <1>4, <2>1 DEF ServedInv, ProvenIsValid, ServedIsValid
<1>6. PastIsPast' /\ ExpiriesAreBounded'
  BY <1>1, <1>2 DEF ServedInv, PastIsPast, ExpiriesAreBounded
<1>7. KeysInv'
  <2> SUFFICES ASSUME NEW i \in Instances, Fresh(i)
               PROVE  /\ keys[i].at <= now /\ now < keys[i].at + KeysMaxAge
                      /\ \A k \in keys[i].held :
                            k >= 1 /\ (Withdrawn(k)' => keys[i].at <= retired'[k] + KeysTimeout)
    BY <1>1 DEF KeysInv, Fresh
  <2>1. keys[i].at \in Int /\ keys[i].held \subseteq Nat
    BY KeysType DEF TypeInv, KeySets
  <2>2. /\ keys[i].at <= now /\ now < keys[i].at + KeysMaxAge
        /\ \A k \in keys[i].held :
              k >= 1 /\ (Withdrawn(k) => keys[i].at <= retired[k] + KeysTimeout)
    BY DEF ServedInv, KeysInv
  <2>3. ASSUME NEW k \in keys[i].held, Withdrawn(k)'
        PROVE  keys[i].at <= retired'[k] + KeysTimeout
    <3>1. k \in Nat \ {0}
      BY <2>1, <2>2
    <3>2. (Withdrawn(k) /\ retired'[k] = retired[k]) \/ retired'[k] = now
      BY <1>3, <2>3, <3>1
    <3>3. keys[i].at <= now + KeysTimeout
      BY <1>1, <2>1, <2>2, InstantsAssumption
    <3> QED BY <2>2, <3>2, <3>3
  <2> QED BY <2>2, <2>3
<1> QED BY <1>5, <1>6, <1>7 DEF ServedInv

(* A set of keys that comes was published at most a fetch ago.             *)
LEMMA FetchKeysServed ==
    ASSUME TypeInv, ServedInv, NEW i \in Instances, FetchKeys(i) PROVE ServedInv'
<1>1. PICK k \in 1..SigningKey, n \in Ahead :
          /\ Withdrawn(k) => now <= retired[k] + KeysTimeout
          /\ keys' = [keys EXCEPT ![i] = KeySet(k..(k + n), now)]
  BY DEF FetchKeys
<1>2. /\ now \in Nat /\ n \in Nat /\ retired \in Seq(Nat) /\ DOMAIN keys = Instances
      /\ UNCHANGED <<now, pairs, revokedAt, retired, phase, jar, since, proven, reply>>
  BY InstantsAssumption DEF FetchKeys, TypeInv, TypeOK, provider, requests
<1>3. /\ PastIsPast' /\ ProvenIsValid' /\ ServedIsValid' /\ ExpiriesAreBounded'
  BY <1>2 DEF ServedInv, PastIsPast, ProvenIsValid, ServedIsValid, ExpiriesAreBounded,
              ValidWhenSent, Withdrawn
<1>4. KeysInv'
  <2> SUFFICES ASSUME NEW j \in Instances, Fresh(j)'
               PROVE  /\ keys'[j].at <= now /\ now < keys'[j].at + KeysMaxAge
                      /\ \A m \in keys'[j].held :
                            m >= 1 /\ (Withdrawn(m) => keys'[j].at <= retired[m] + KeysTimeout)
    BY <1>2 DEF KeysInv, Withdrawn
  <2>1. CASE j # i
    BY <1>1, <1>2, <2>1 DEF ServedInv, KeysInv, Fresh
  <2>2. CASE j = i
    <3>1. keys'[j].at = now /\ keys'[j].held = k..(k + n)
      BY <1>1, <1>2, <2>2 DEF KeySet
    <3>2. ASSUME NEW m \in k..(k + n)
          PROVE  m >= 1 /\ (Withdrawn(m) => now <= retired[m] + KeysTimeout)
      <4>1. k \in Nat \ {0} /\ m \in Nat \ {0} /\ (m = k \/ m > k)
        BY <1>2 DEF SigningKey
      <4>2. ASSUME Withdrawn(m) PROVE now <= retired[m] + KeysTimeout
        <5>1. k \in 1..Len(retired) /\ m \in 1..Len(retired) /\ k <= m
          BY <1>2, <4>1, <4>2 DEF Withdrawn
        <5>2. retired[k] \in Nat /\ retired[m] \in Nat
          BY <1>2, <5>1
        <5>3. retired[k] <= retired[m] /\ now <= retired[k] + KeysTimeout
          BY <1>1, <5>1 DEF ServedInv, PastIsPast, Withdrawn
        <5> QED BY <1>2, <5>2, <5>3, InstantsAssumption
      <4> QED BY <4>1, <4>2
    <3> QED BY <1>2, <3>1, <3>2, InstantsAssumption
  <2> QED BY <2>1, <2>2
<1> QED BY <1>3, <1>4 DEF ServedInv

LEMMA NextServed == TypeInv /\ ServedInv /\ [Next]_vars => ServedInv'
<1> SUFFICES ASSUME TypeInv, ServedInv, [Next]_vars PROVE ServedInv'
  OBVIOUS
<1>1. now \in Nat /\ Len(pairs) \in Nat
  BY DEF TypeInv, TypeOK
<1>2. \A p \in 1..Len(pairs) : pairs[p].exp \in Nat
  BY PairTypes
<1>3. ASSUME UNCHANGED <<now, pairs, retired, keys, jar, since, proven, reply, phase>>,
             revokedAt' = revokedAt \/ revokedAt' = now
      PROVE  ServedInv'
  <2>1. ProvenIsValid' /\ ServedIsValid'
    BY <1>3 DEF ServedInv, ProvenIsValid, ServedIsValid, ValidWhenSent, Withdrawn
  <2>2. PastIsPast' /\ KeysInv'
    BY <1>3 DEF ServedInv, PastIsPast, KeysInv, Fresh, Withdrawn
  <2>3. ExpiriesAreBounded'
    BY <1>1, <1>2, <1>3, InstantsAssumption DEF ServedInv, ExpiriesAreBounded
  <2> QED BY <2>1, <2>2, <2>3 DEF ServedInv
<1>4. CASE Environment \/ UNCHANGED vars
  <2>1. CASE Revoke \/ SignOut \/ UNCHANGED vars
    BY <1>3, <2>1 DEF Revoke, SignOut, vars, requests, provider
  <2> QED BY <1>4, <2>1, TickServed, RetireKeyServed DEF Environment
<1>b. ASSUME NEW i \in Instances, FetchKeys(i) PROVE ServedInv'
  BY <1>b, FetchKeysServed
<1>5. ASSUME NEW r \in Requests, NEW i \in Instances, Send(r, i) PROVE ServedInv'
  <2>1. /\ UNCHANGED <<now, pairs, revokedAt, retired, keys, proven, reply>>
        /\ phase[r] = "idle" /\ since'[r] = now
        /\ \A q \in Requests \ {r} : /\ phase'[q] = phase[q] /\ jar'[q] = jar[q]
                                     /\ since'[q] = since[q]
    BY <1>5 DEF Send, TypeInv, TypeOK, provider
  <2>2. ProvenIsValid' /\ ServedIsValid'
    BY <2>1 DEF ServedInv, ProvenIsValid, ServedIsValid, ValidWhenSent, Withdrawn
  <2>3. PastIsPast'
    BY <1>1, <2>1 DEF ServedInv, PastIsPast
  <2> QED BY <2>1, <2>2, <2>3 DEF ServedInv, KeysInv, Fresh, Withdrawn, ExpiriesAreBounded
<1>6. ASSUME NEW r \in Requests, Handle(r) PROVE ServedInv'
  BY <1>6, HandleServed
<1>7. ASSUME NEW r \in Requests, Refresh(r) PROVE ServedInv'
  <2>1. CASE ProviderRotates(r)
    BY <2>1, RotationServed
  <2>2. CASE Settle(r)
    <3>1. UNCHANGED <<now, pairs, revokedAt, retired, keys, jar, since, proven, reply>>
      BY <2>2 DEF Settle, provider
    <3>2. \A q \in Requests : \/ phase'[q] = phase[q]
                              \/ phase[q] = "waiting" /\ phase'[q] = "resumed"
      <4> SUFFICES ASSUME NEW q \in Requests
                   PROVE  \/ phase'[q] = phase[q]
                          \/ phase[q] = "waiting" /\ phase'[q] = "resumed"
        OBVIOUS
      <4>1. CASE q \in Waiters(r)
        BY <2>2, <4>1 DEF Settle, Waiters
      <4>2. CASE q \notin Waiters(r)
        BY <2>2, <4>2 DEF Settle
      <4> QED BY <4>1, <4>2
    <3> QED BY <3>1, <3>2 DEF ServedInv, PastIsPast, KeysInv, Fresh, Withdrawn, ProvenIsValid,
                              ServedIsValid, ExpiriesAreBounded, ValidWhenSent
  <2>3. CASE ~ ProviderRotates(r) /\ ~ Settle(r)
    <3>1. UNCHANGED <<now, pairs, revokedAt, retired, keys, jar, since, proven, reply, phase>>
      BY <1>7, <2>3 DEF Refresh, CallProvider, ProviderReplays, ProviderRefuses,
                        ProviderFails, AnswerLost, provider
    <3> QED BY <1>3, <3>1
  <2> QED BY <2>1, <2>2, <2>3
<1>8. ASSUME NEW r \in Requests, Deliver(r) \/ Drop(r) PROVE ServedInv'
  BY <1>8, ForgetServed, {r} \in SUBSET Requests DEF Deliver, Drop, provider
<1>9. ASSUME NEW i \in Instances, Crash(i) PROVE ServedInv'
  <2>1. \A j \in Instances : keys'[j] = keys[j] \/ keys'[j] = NoKeys
    BY <1>9 DEF Crash, TypeInv, TypeOK
  <2> QED BY <1>9, <2>1, ForgetServed DEF Crash, provider
<1> QED BY <1>4, <1>b, <1>5, <1>6, <1>7, <1>8, <1>9 DEF Next

LEMMA ServedInvariant == Spec => []ServedInv
BY TypeInvariant, InitServed, NextServed, PTL DEF Spec

(* Only a token that had not expired when the request was sent is ever     *)
(* served, under a key the provider published then or withdrew no longer   *)
(* ago than a cached key set (createRemoteJWKSet) may lag.                 *)
THEOREM ServedWasValidWhenSentAlways == Spec => []ServedWasValidWhenSent
<1>1. ServedInv => ServedWasValidWhenSent
  BY DEF ServedInv, ServedIsValid, ServedWasValidWhenSent, ValidWhenSent
<1> QED BY <1>1, ServedInvariant, PTL

(* A revoked session is served for at most a token's lifetime plus the     *)
(* verifier's tolerance, however refreshes and responses interleave.       *)
THEOREM RevocationBitesAlways == Spec => []RevocationBites
<1>1. TypeInv /\ ServedInv => RevocationBites
  <2> SUFFICES ASSUME TypeInv, ServedInv, revokedAt # Never,
                      NEW r \in Requests, reply[r].served # NoPair
               PROVE  since[r] < revokedAt + TTL + Tolerance
    BY DEF RevocationBites
  <2>1. reply[r].served \in 1..Len(pairs)
    BY DEF TypeInv, TypeOK
  <2>2. /\ pairs[reply[r].served].exp \in Nat
        /\ pairs[reply[r].served].exp <= revokedAt + TTL
        /\ pairs[reply[r].served].exp + Tolerance > since[r]
    BY <2>1, PairTypes DEF ServedInv, ExpiriesAreBounded, ServedIsValid, ValidWhenSent
  <2>3. since[r] \in Nat /\ revokedAt \in Nat
    BY DEF TypeInv, TypeOK
  <2> QED BY <2>2, <2>3, InstantsAssumption
<1> QED BY <1>1, TypeInvariant, ServedInvariant, PTL

-----------------------------------------------------------------------------
(* A live session.  What the environment must grant: no answer, response   *)
(* or process is lost, a verification fails by being unavailable only, and *)
(* two requests in a row fit both into the window in which a spent token   *)
(* still answers and into the time a new token is not due for a refresh.   *)

NothingLost ==
    /\ Events \cap {"answer-lost", "response-lost", "crash"} = {}
    /\ VerifyFaults \subseteq {"unavailable", "rate-limited"}
PromptRequests == 2 * Lifetime <= ReuseWindow /\ 2 * Lifetime + Margin < TTL

Live == revokedAt = Never /\ retired = <<>>
Newest == Len(pairs)
Issued == pairs[Newest].exp - TTL

(* Every request carries, awaits and writes the newest pair or, if it was   *)
(* sent within a Lifetime of the newest pair's issue, the one before.      *)
Current(r) ==
    /\ phase[r] # "idle" => now <= since[r] + Lifetime
    /\ jar[r] # NoPair => phase[r] \in {"verifying", "waiting", "resumed"}
    /\ phase[r] \in {"waiting", "resumed"} => jar[r] # NoPair
    /\ jar[r] \in {NoPair, Newest - 1, Newest}
    /\ jar[r] # NoPair /\ jar[r] = Newest - 1 => since[r] <= Issued + Lifetime
    /\ jar[r] = Newest /\ phase[r] \in {"waiting", "resumed"} => Near(Newest)
    /\ call[r].state = "rotated" => jar[r] = Newest - 1 /\ call[r].pair = Newest
    /\ call[r].state # "rotated" => call[r].pair = NoPair
    /\ call[r].state = "failed" => call[r].reason \in FaultReasons
    /\ got[r].pair # NoPair =>
          /\ phase[r] = "resumed" /\ jar[r] = Newest - 1 /\ got[r].pair = Newest
    /\ phase[r] = "resumed" /\ got[r].pair = NoPair => got[r].reason \in FaultReasons
    /\ reply[r].sets # Keep =>
          /\ reply[r].sets = Newest /\ phase[r] = "answered"
          /\ since[r] <= Issued + Lifetime
    /\ reply[r].status # "ended"

(* The request whose response will put the newest pair into the cookie.    *)
Brings(r) ==
    /\ since[r] <= Issued
    /\ \/ call[r].state = "rotated"
       \/ phase[r] = "resumed" /\ got[r].pair = Newest
       \/ reply[r].sets = Newest

CookieInv ==
    /\ cookie \in {NoPair, Newest - 1, Newest}
    /\ cookie # NoPair /\ cookie = Newest - 1 => \E r \in Requests : Brings(r)
PairInv ==
    /\ 0 <= Issued /\ Issued <= now
    /\ Newest > 1 => pairs[Newest - 1].usedAt = Issued
LiveParts == PairInv /\ (\A r \in Requests : Current(r)) /\ CookieInv
LiveInv == Live => LiveParts

(* While the provider keeps its key, that key signed every pair and is in  *)
(* every set an instance verifies with.                                    *)
KeyIsKnown ==
    retired = <<>> =>
        /\ \A p \in 1..Len(pairs) : pairs[p].key = 1
        /\ \A i \in Instances : Fresh(i) => 1 \in keys[i].held

Known == TypeInv /\ CallsInv /\ PastIsPast /\ KeyIsKnown

LEMMA InitKeyIsKnown == Init => KeyIsKnown
BY DEF Init, KeyIsKnown, KeySet

LEMMA RetiredGrows == TypeInv /\ RetireKey => retired' # <<>>
<1> SUFFICES ASSUME TypeInv, RetireKey PROVE retired' # <<>>
  OBVIOUS
<1>1. retired \in Seq(Nat) /\ now \in Nat /\ retired' = Append(retired, now)
  BY DEF RetireKey, TypeInv, TypeOK
<1>2. Len(retired') = Len(retired) + 1 /\ Len(retired) \in Nat
  BY <1>1
<1> QED BY <1>2

LEMMA NextKeyIsKnown == TypeInv /\ KeyIsKnown /\ [Next]_vars => KeyIsKnown'
<1> SUFFICES ASSUME TypeInv, KeyIsKnown, [Next]_vars, retired' = <<>>
             PROVE  KeyIsKnown'
  BY DEF KeyIsKnown
<1>1. ASSUME retired = <<>>, UNCHANGED pairs,
             \A i \in Instances : \/ keys'[i] = keys[i] \/ keys'[i] = NoKeys
                                 \/ 1 \in keys'[i].held
      PROVE  KeyIsKnown'
  BY <1>1 DEF KeyIsKnown, Fresh
<1>2. ~ RetireKey
  BY RetiredGrows
<1>3. CASE Tick
  <2>1. \A i \in Instances : keys'[i] = keys[i] \/ keys'[i] = NoKeys
    BY <1>3 DEF Tick, Aged
  <2> QED BY <1>1, <1>3, <2>1 DEF Tick, provider
<1>4. ASSUME NEW i \in Instances, FetchKeys(i) PROVE KeyIsKnown'
  <2>1. retired = <<>> /\ UNCHANGED pairs /\ keys \in [Instances -> KeySets]
    BY <1>4 DEF FetchKeys, provider, TypeInv, TypeOK, KeySets
  <2>2. PICK k \in 1..SigningKey, n \in Ahead :
            keys' = [keys EXCEPT ![i] = KeySet(k..(k + n), now)]
    BY <1>4 DEF FetchKeys
  <2>3. k = 1 /\ n \in Nat
    BY <2>1, InstantsAssumption DEF SigningKey
  <2>4. 1 \in keys'[i].held /\ \A j \in Instances \ {i} : keys'[j] = keys[j]
    BY <2>1, <2>2, <2>3 DEF KeySet
  <2> QED BY <1>1, <2>1, <2>4
<1>5. ASSUME NEW i \in Instances, Crash(i) PROVE KeyIsKnown'
  <2>1. \A j \in Instances : keys'[j] = keys[j] \/ keys'[j] = NoKeys
    BY <1>5 DEF Crash, TypeInv, TypeOK
  <2> QED BY <1>1, <1>5, <2>1 DEF Crash, provider
<1>6. ASSUME NEW r \in Requests, ProviderRotates(r) PROVE KeyIsKnown'
  <2>1. retired = <<>> /\ keys' = keys /\ SigningKey = 1
    BY <1>6 DEF ProviderRotates, SigningKey
  <2>2. \A p \in 1..Len(pairs') : pairs'[p].key = 1
    BY <1>6, <2>1, RotatedKeys DEF KeyIsKnown
  <2> QED BY <2>1, <2>2 DEF KeyIsKnown, Fresh
<1>7. CASE Revoke \/ SignOut \/ UNCHANGED vars
  BY <1>1, <1>7 DEF Revoke, SignOut, vars, provider, requests
<1>8. ASSUME NEW r \in Requests, ~ ProviderRotates(r),
             (\E i \in Instances : Send(r, i)) \/ Handle(r) \/ Refresh(r) \/ Deliver(r) \/ Drop(r)
      PROVE  KeyIsKnown'
  <2>1. UNCHANGED <<pairs, retired, keys>>
    BY <1>8 DEF Send, Handle, Anonymous, VerifyFails, VerifyServes, StartRefresh, RefreshRefused,
                RenewedFails, RenewedServes, Answer, Refresh, CallProvider, ProviderReplays,
                ProviderRefuses, ProviderFails, AnswerLost, Settle, Deliver, Drop, provider
  <2> QED BY <1>1, <2>1
<1> QED BY <1>2, <1>3, <1>4, <1>5, <1>6, <1>7, <1>8 DEF Next, Environment

LEMMA Numbers ==
    ASSUME TypeInv
    PROVE  /\ Newest \in Nat /\ Newest >= 1 /\ now \in Nat
           /\ pairs[Newest].exp \in Nat /\ Issued \in Int
           /\ \A r \in Requests : since[r] \in Nat /\ jar[r] \in 0..Newest
<1>1. Newest \in Nat /\ Newest >= 1
  BY DEF TypeInv, TypeOK, Newest
<1>2. pairs[Newest].exp \in Nat
  BY <1>1, PairTypes DEF Newest
<1> QED BY <1>1, <1>2, InstantsAssumption DEF TypeInv, TypeOK, Issued, Newest

LEMMA InitLive == Init => LiveInv
BY InstantsAssumption
   DEF Init, LiveInv, LiveParts, PairInv, CookieInv, Current, Issued, Newest, NoCall, Call,
       Nothing, NoReply, Reply

SameState(q) ==
    /\ phase'[q] = phase[q] /\ jar'[q] = jar[q] /\ since'[q] = since[q]
    /\ call'[q] = call[q] /\ got'[q] = got[q] /\ reply'[q] = reply[q]

LEMMA SameCurrent ==
    ASSUME UNCHANGED <<now, pairs>>, NEW q, SameState(q)
    PROVE  (Current(q) => Current(q)') /\ (Brings(q) => Brings(q)')
BY DEF SameState, Current, Brings, Newest, Issued, Near

(* A step of one request that leaves the clock, the pairs and the cookie.  *)
LEMMA OneRequest ==
    ASSUME LiveParts, NEW r \in Requests, UNCHANGED <<now, pairs, cookie>>,
           \A q \in Requests \ {r} : SameState(q), Current(r)', Brings(r) => Brings(r)'
    PROVE  LiveParts'
<1>1. \A q \in Requests : Current(q)' /\ (Brings(q) => Brings(q)')
  BY SameCurrent DEF LiveParts
<1>2. PairInv'
  BY DEF LiveParts, PairInv, Newest, Issued
<1>3. CookieInv'
  BY <1>1 DEF LiveParts, CookieInv, Newest
<1> QED BY <1>1, <1>2, <1>3 DEF LiveParts

LEMMA EnvironmentLive ==
    ASSUME Known, LiveInv, Environment
    PROVE  LiveInv'
<1> SUFFICES ASSUME Live' PROVE LiveParts'
  BY DEF LiveInv
<1>1. UNCHANGED <<pairs, phase, jar, since, call, got, reply>>
  BY DEF Environment, Tick, Revoke, RetireKey, SignOut, provider, requests
<1>2. LiveParts
  <2>1. ~ RetireKey
    BY RetiredGrows DEF Known, Live
  <2> QED BY <2>1 DEF Known, TypeInv, TypeOK, Environment, Tick, Revoke, SignOut, Live, LiveInv,
                      provider
<1>3. CASE Tick
  <2>1. now' = now + 1 /\ cookie' = cookie
        /\ \A r \in Requests : phase[r] # "idle" => now < since[r] + Lifetime
    BY <1>3 DEF Tick
  <2>2. ASSUME NEW r \in Requests PROVE Current(r)' /\ (Brings(r) => Brings(r)')
    <3>1. Current(r) /\ since[r] \in Nat /\ now \in Nat /\ pairs[Newest].exp \in Nat
      BY <1>2, Numbers DEF LiveParts, Known
    <3>2. phase[r] # "idle" => now' <= since[r] + Lifetime
      BY <2>1, <3>1, InstantsAssumption
    <3>3. Near(Newest) => Near(Newest)'
      BY <1>1, <2>1, <3>1, InstantsAssumption DEF Near, Newest
    <3> QED BY <1>1, <3>1, <3>2, <3>3 DEF Current, Brings, Newest, Issued
  <2>3. PairInv'
    BY <1>1, <1>2, <2>1, Numbers DEF LiveParts, PairInv, Newest, Issued, Known
  <2> QED BY <1>1, <1>2, <2>1, <2>2, <2>3 DEF LiveParts, CookieInv, Newest
<1>4. CASE SignOut
  <2>1. now' = now /\ cookie' = NoPair
    BY <1>4 DEF SignOut
  <2>2. \A r \in Requests : Current(r)'
    BY <1>1, <1>2, <2>1, SameCurrent DEF LiveParts, SameState
  <2> QED BY <1>1, <1>2, <2>1, <2>2 DEF LiveParts, CookieInv, PairInv, Newest, Issued
<1>5. ~ Revoke /\ ~ RetireKey
  BY Numbers, RetiredGrows DEF Revoke, Live, Known
<1> QED BY <1>3, <1>4, <1>5 DEF Environment

LEMMA SendLive ==
    ASSUME PromptRequests, Known, LiveParts, NEW r \in Requests, NEW i \in Instances, Send(r, i)
    PROVE  LiveParts'
<1>1. /\ UNCHANGED <<now, pairs, cookie>> /\ phase[r] = "idle"
      /\ phase'[r] = "verifying" /\ jar'[r] = cookie /\ since'[r] = now
      /\ UNCHANGED <<call, got, reply>>
      /\ \A q \in Requests \ {r} : SameState(q)
  BY DEF Send, Known, TypeInv, TypeOK, provider, SameState
<1>2. /\ now \in Nat /\ Lifetime \in Nat /\ Issued \in Int /\ Newest \in Nat /\ Newest >= 1
      /\ \A q \in Requests : since[q] \in Nat
  BY Numbers, InstantsAssumption DEF Known
<1>3. Current(r)
  BY DEF LiveParts
<1>4. call[r].state = "none"
  BY <1>1 DEF Known, CallsInv, CallsAreEntries
<1>5. reply[r].sets = Keep /\ got[r].pair = NoPair
  BY <1>1, <1>3 DEF Current
<1>6. cookie # NoPair /\ cookie = Newest - 1 => now <= Issued + Lifetime
  <2> SUFFICES ASSUME cookie # NoPair, cookie = Newest - 1 PROVE now <= Issued + Lifetime
    OBVIOUS
  <2>1. PICK q \in Requests : Brings(q)
    BY DEF LiveParts, CookieInv
  <2>2. Current(q)
    BY DEF LiveParts
  <2>3. phase[q] # "idle"
    BY <1>2, <2>1, <2>2 DEF Current, Brings, Known, CallsInv, CallsAreEntries
  <2> QED BY <1>2, <2>1, <2>2, <2>3 DEF Current, Brings
<1>7. Current(r)'
  <2>1. cookie \in {NoPair, Newest - 1, Newest}
    BY DEF LiveParts, CookieInv
  <2>2. reply'[r].status # "ended"
    BY <1>1, <1>3 DEF Current
  <2>3. now <= now + Lifetime
    BY <1>2
  <2> QED BY <1>1, <1>3, <1>4, <1>5, <1>6, <2>1, <2>2, <2>3 DEF Current, Newest, Issued
<1>8. ~ Brings(r)
  BY <1>1, <1>2, <1>4, <1>5 DEF Brings
<1> QED BY <1>1, <1>7, <1>8, OneRequest

(* An answer is well told if it ends nothing and writes only the newest    *)
(* pair, in time; and if the request was bringing it, it still does.       *)
LEMMA AnswerLive ==
    ASSUME Known, LiveParts, NEW r \in Requests, NEW rep, Answer(r, rep),
           phase[r] \in {"verifying", "resumed"}, rep.status # "ended",
           rep.sets # Keep => rep.sets = Newest /\ since[r] <= Issued + Lifetime,
           got[r].pair # NoPair => rep.sets = Newest
    PROVE  LiveParts'
<1>1. /\ UNCHANGED <<now, pairs, cookie, since, call>>
      /\ phase'[r] = "answered" /\ jar'[r] = NoPair /\ got'[r] = Nothing
      /\ reply'[r] = rep
      /\ \A q \in Requests \ {r} : SameState(q)
  BY DEF Answer, Known, TypeInv, TypeOK, provider, SameState
<1>2. Current(r) /\ Newest \in Nat /\ Newest >= 1
  BY Numbers DEF LiveParts, Known
<1>3. call[r].state = "none"
  BY DEF Known, CallsInv, CallsAreEntries
<1>4. Current(r)'
  BY <1>1, <1>2, <1>3 DEF Current, Newest, Issued, Nothing
<1>5. Brings(r) => Brings(r)'
  BY <1>1, <1>2, <1>3 DEF Current, Brings, Newest, Issued
<1> QED BY <1>1, <1>4, <1>5, OneRequest

(* A request that awaits or holds the newest pair was sent soon after its  *)
(* issue: it is neither expired nor near its expiry yet.                   *)
LEMMA NewestIsFresh ==
    ASSUME PromptRequests, Known, LiveParts, NEW r \in Requests, phase[r] # "idle",
           since[r] <= Issued + Lifetime
    PROVE  now <= Issued + ReuseWindow /\ ~ Near(Newest) /\ ~ Expired(Newest)
<1>1. now <= since[r] + Lifetime
  BY DEF LiveParts, Current
<1>2. /\ now \in Nat /\ since[r] \in Nat /\ Issued \in Int /\ pairs[Newest].exp \in Nat
      /\ pairs[Newest].exp = Issued + TTL
  BY Numbers, InstantsAssumption DEF Known, Issued
<1>3. now <= Issued + 2 * Lifetime
  BY <1>1, <1>2, InstantsAssumption
<1> QED BY <1>2, <1>3, InstantsAssumption DEF PromptRequests, Near, Expired

LEMMA HandleLive ==
    ASSUME NothingLost, PromptRequests, Known, Live, LiveParts, NEW r \in Requests, Handle(r)
    PROVE  LiveParts'
<1>1. /\ Current(r) /\ Newest \in Nat /\ Newest >= 1 /\ now \in Nat
      /\ jar[r] \in 0..Newest
  BY Numbers DEF LiveParts, Known, Live
<1>a. ASSUME NEW p \in 1..Newest, phase[r] # "idle"
      PROVE  Verdicts(server[r], p) \subseteq
                 VerifyFaults \cup (IF Expired(p) THEN {"expired"} ELSE {"ok"})
  <2>1. server[r] \in Instances
    BY <1>a DEF Known, TypeInv, Placed
  <2>2. Fresh(server[r]) => Holds(server[r], p)
    BY <1>a, <2>1 DEF Known, KeyIsKnown, Live, Newest, Holds
  <2> QED BY <2>2 DEF Verdicts, Usable
<1>2. \A reason \in VerifyFaults : reason \in {"unavailable", "rate-limited"}
  BY DEF NothingLost
<1>3. CASE Anonymous(r)
  BY <1>1, <1>3, AnswerLive DEF Anonymous, Reply, Current
<1>4. CASE VerifyFails(r)
  <2>1. PICK reason \in VerifyFaults : Answer(r, Failed(reason))
    BY <1>1, <1>a, <1>4 DEF VerifyFails
  <2>2. Failed(reason).status = "unavailable" /\ Failed(reason).sets = Keep
    BY <1>2, <2>1 DEF Failed, FailureStatus, Reply
  <2> QED BY <1>1, <1>4, <2>1, <2>2, AnswerLive DEF VerifyFails, Current
<1>5. CASE VerifyServes(r)
  BY <1>1, <1>5, AnswerLive DEF VerifyServes, Serve, Reply, Current
<1>6. CASE RefreshRefused(r)
  <2>1. got[r].reason \in FaultReasons /\ got[r].pair = NoPair
    BY <1>1, <1>6 DEF RefreshRefused, Current
  <2>2. /\ RefreshFailed(r, NoPair, got[r].reason).status # "ended"
        /\ RefreshFailed(r, NoPair, got[r].reason).sets = Keep
    BY <2>1 DEF RefreshFailed, Failed, FailureStatus, FaultReasons, Reply
  <2> QED BY <1>6, <2>1, <2>2, AnswerLive DEF RefreshRefused
<1>7. ASSUME phase[r] = "resumed", got[r].pair # NoPair
      PROVE  /\ got[r].pair = Newest /\ since[r] <= Issued + Lifetime
             /\ ~ Expired(Newest)
  BY <1>1, <1>7, NewestIsFresh DEF Current
<1>8. CASE RenewedFails(r)
  <2>1. PICK reason \in VerifyFaults : Answer(r, RefreshFailed(r, got[r].pair, reason))
    BY <1>1, <1>a, <1>7, <1>8 DEF RenewedFails
  <2>2. /\ RefreshFailed(r, got[r].pair, reason).status # "ended"
        /\ RefreshFailed(r, got[r].pair, reason).sets = Newest
    BY <1>1, <1>2, <1>7, <1>8, <2>1
       DEF RenewedFails, RefreshFailed, Failed, FailureStatus, Reply
  <2> QED BY <1>7, <1>8, <2>1, <2>2, AnswerLive DEF RenewedFails
<1>9. CASE RenewedServes(r)
  BY <1>7, <1>9, AnswerLive DEF RenewedServes, Reply
<1>10. CASE StartRefresh(r)
  <2>1. /\ UNCHANGED <<now, pairs, cookie, jar, since, got, reply>>
        /\ phase[r] = "verifying" /\ phase'[r] = "waiting" /\ jar[r] # NoPair
        /\ \A q \in Requests \ {r} : phase'[q] = phase[q]
    BY <1>10 DEF StartRefresh, Known, TypeInv, TypeOK, provider
  <2>2. call' = call \/ call' = [call EXCEPT ![r] = Call("queued", NoPair, "none")]
    BY <1>10 DEF StartRefresh, SharedRefresh
  <2>3. call \in [Requests -> Calls]
    BY DEF Known, TypeInv, TypeOK, Calls
  <2>4. call[r].state = "none"
    BY <2>1 DEF Known, CallsInv, CallsAreEntries
  <2>5. /\ call'[r].state \in {"none", "queued"} /\ call'[r].pair = NoPair
        /\ \A q \in Requests \ {r} : call'[q] = call[q]
    BY <1>1, <2>2, <2>3, <2>4 DEF Call, Current
  <2>6. jar[r] = Newest => Near(Newest)
    <3>1. ("ok" \in Verdicts(server[r], jar[r]) /\ Near(jar[r])) \/ "expired" \in Verdicts(server[r], jar[r])
      BY <1>10 DEF StartRefresh
    <3>2. "expired" \in Verdicts(server[r], jar[r]) => Expired(jar[r])
      BY <1>1, <1>2, <1>a, <2>1
    <3>3. Expired(Newest) => Near(Newest)
      BY <1>1, Numbers, InstantsAssumption DEF Known, Expired, Near
    <3> QED BY <3>1, <3>2, <3>3
  <2>7. Current(r)'
    BY <1>1, <2>1, <2>5, <2>6 DEF Current, Newest, Issued, Near
  <2>8. Brings(r) => Brings(r)'
    BY <2>1, <2>4 DEF Brings, Newest, Issued
  <2> QED BY <2>1, <2>5, <2>7, <2>8, OneRequest DEF SameState
<1> QED BY <1>3, <1>4, <1>5, <1>6, <1>8, <1>9, <1>10 DEF Handle

LEMMA CallLive ==
    ASSUME NothingLost, PromptRequests, Known, Live, LiveParts, NEW r \in Requests,
           CallProvider(r) \/ ProviderReplays(r) \/ ProviderRefuses(r) \/ ProviderFails(r)
    PROVE  LiveParts'
<1>1. /\ Current(r) /\ Newest \in Nat /\ Newest >= 1 /\ revokedAt = Never
      /\ jar[r] \in 0..Newest /\ call \in [Requests -> Calls] /\ now \in Nat
      /\ Issued \in Int
  BY Numbers DEF LiveParts, Known, Live, TypeInv, TypeOK, Calls
<1>2. /\ call[r].state \in {"queued", "sent"}
      /\ UNCHANGED <<now, pairs, cookie, phase, jar, since, got, reply>>
  BY DEF CallProvider, ProviderReplays, ProviderRefuses, ProviderFails, provider
<1>3. phase[r] = "waiting" /\ jar[r] # NoPair
  BY <1>1, <1>2 DEF Current, Known, CallsInv, CallsAreEntries
<1>4. ~ ProviderRefuses(r)
  <2>1. CASE jar[r] = Newest
    BY <1>1, <2>1 DEF ProviderRefuses, Rotates, Newest
  <2>2. CASE jar[r] = Newest - 1
    <3>1. Newest > 1 /\ pairs[jar[r]].usedAt = Issued /\ 0 <= Issued
      BY <1>1, <1>3, <2>2 DEF LiveParts, PairInv
    <3>2. now <= Issued + ReuseWindow
      BY <1>1, <1>3, <2>2, NewestIsFresh DEF Current
    <3> QED BY <1>1, <2>2, <3>1, <3>2 DEF ProviderRefuses, Replays, Newest
  <2> QED BY <1>1, <1>3, <2>1, <2>2 DEF Current
<1>5. \/ call'[r].state = "sent" /\ call'[r].pair = NoPair
      \/ call'[r].state = "rotated" /\ call'[r].pair = Newest /\ jar[r] = Newest - 1
      \/ call'[r].state = "failed" /\ call'[r].pair = NoPair /\ call'[r].reason \in FaultReasons
  <2>1. CASE CallProvider(r)
    BY <1>1, <2>1 DEF CallProvider, Call
  <2>2. CASE ProviderReplays(r)
    <3>1. jar[r] = Newest - 1
      BY <1>1, <1>3, <2>2 DEF ProviderReplays, Replays, Current, Newest
    <3> QED BY <1>1, <2>2, <3>1 DEF ProviderReplays, Call
  <2>3. CASE ProviderFails(r)
    BY <1>1, <2>3, FaultsAssumption DEF ProviderFails, Call
  <2> QED BY <1>4, <2>1, <2>2, <2>3
<1>6. \A q \in Requests \ {r} : SameState(q)
  BY <1>1, <1>2 DEF CallProvider, ProviderReplays, ProviderRefuses, ProviderFails, SameState
<1>7. Current(r)'
  BY <1>1, <1>2, <1>3, <1>5, <1>6 DEF Current, Newest, Issued, Near
<1>8. Brings(r) => Brings(r)'
  BY <1>1, <1>2, <1>3, <1>6 DEF Brings, Current, Newest, Issued
<1> QED BY <1>2, <1>6, <1>7, <1>8, OneRequest

(* What a rotation makes of the pairs: the newest is spent now, and a      *)
(* newer one is issued.                                                    *)
LEMMA RotatedPairs ==
    ASSUME TypeInv, NEW r \in Requests, ProviderRotates(r)
    PROVE  /\ Newest' = Newest + 1 /\ pairs'[Newest + 1].exp = now + TTL
           /\ pairs'[Newest].usedAt = now
<1> DEFINE Pair == [exp : Nat, usedAt : Nat \cup {Never}, key : Nat \ {0}]
           spent == [pairs EXCEPT ![jar[r]].usedAt = now]
           fresh == [exp |-> now + TTL, usedAt |-> Never, key |-> SigningKey]
<1>1. /\ pairs \in Seq(Pair) /\ jar[r] \in 1..Len(pairs) /\ jar[r] = Len(pairs)
      /\ now \in Nat /\ Len(pairs) \in Nat
  BY DEF TypeInv, TypeOK, ProviderRotates, Rotates
<1>2. pairs[jar[r]] \in Pair
  <2> HIDE DEF Pair
  <2> QED BY <1>1
<1>3. [pairs[jar[r]] EXCEPT !.usedAt = now] \in Pair
  BY <1>1, <1>2
<1>4. spent \in Seq(Pair) /\ Len(spent) = Len(pairs)
  <2>1. [pairs EXCEPT ![jar[r]] = [pairs[jar[r]] EXCEPT !.usedAt = now]] \in Seq(Pair)
    <3> HIDE DEF Pair
    <3> QED BY <1>1, <1>3
  <2> QED BY <1>1, <2>1
<1>5. spent[Len(pairs)].usedAt = now
  BY <1>1, <1>2
<1>6. fresh.exp = now + TTL /\ fresh \in Pair /\ pairs' = Append(spent, fresh)
  <2>1. SigningKey \in Nat \ {0}
    BY DEF SigningKey, TypeInv, TypeOK
  <2> QED BY <1>1, <2>1, InstantsAssumption DEF ProviderRotates
<1> HIDE DEF spent, fresh, Pair
<1>7. /\ Len(Append(spent, fresh)) = Len(spent) + 1
      /\ Append(spent, fresh)[Len(spent) + 1] = fresh
      /\ \A p \in 1..Len(spent) : Append(spent, fresh)[p] = spent[p]
  BY <1>4, <1>6
<1> QED BY <1>1, <1>4, <1>5, <1>6, <1>7 DEF Newest

LEMMA RotationLive ==
    ASSUME PromptRequests, Known, LiveParts, NEW r \in Requests, ProviderRotates(r)
    PROVE  LiveParts'
<1>1. /\ Newest \in Nat /\ Newest >= 1 /\ now \in Nat /\ Issued \in Int
      /\ Lifetime \in Nat
      /\ \A q \in Requests : /\ Current(q) /\ since[q] \in Nat /\ since[q] <= now
                             /\ jar[q] \in 0..Newest
  BY Numbers, InstantsAssumption DEF LiveParts, Known, PastIsPast
<1>2. /\ call[r].state = "sent" /\ jar[r] = Newest
      /\ call' = [call EXCEPT ![r] = Call("rotated", Newest + 1, "none")]
      /\ UNCHANGED <<now, cookie, phase, jar, since, got, reply>>
  BY DEF ProviderRotates, Rotates, Newest
<1>3. phase[r] = "waiting" /\ Near(Newest)
  BY <1>1, <1>2 DEF Current, Known, CallsInv, CallsAreEntries
<1>4. \A q \in Requests : phase[q] # "idle" => since[q] > Issued + Lifetime
  BY <1>1, <1>3, NewestIsFresh
<1>5. Newest' = Newest + 1 /\ Issued' = now /\ pairs'[Newest].usedAt = now
  BY <1>1, <1>2, RotatedPairs, InstantsAssumption DEF Known, Issued, Newest
<1>6. /\ call'[r].state = "rotated" /\ call'[r].pair = Newest + 1
      /\ \A q \in Requests \ {r} : call'[q] = call[q]
  <2>1. call \in [Requests -> Calls]
    BY DEF Known, TypeInv, TypeOK, Calls
  <2> QED BY <1>2, <2>1 DEF Call
<1>7. ASSUME NEW q \in Requests PROVE Current(q)'
  <2>1. Current(q)
    BY <1>1
  <2>2. jar[q] \in {NoPair, Newest}
    BY <1>1, <1>4, <2>1 DEF Current
  <2>3. got[q].pair = NoPair /\ reply[q].sets = Keep
    BY <1>1, <1>2, <1>4, <2>1 DEF Current
  <2>4. q # r => call[q].state # "rotated"
    <3>1. call[q].state = "rotated" => phase[q] = "waiting" /\ jar[q] # NoPair
      BY <2>1 DEF Current, Known, CallsInv, CallsAreEntries
    <3> QED BY <1>1, <1>4, <2>1, <3>1 DEF Current
  <2>5. now <= since[q] + Lifetime \/ phase[q] = "idle"
    BY <2>1 DEF Current
  <2>6. since[q] <= now + Lifetime
    BY <1>1
  <2> QED BY <1>1, <1>2, <1>5, <1>6, <2>1, <2>2, <2>3, <2>4, <2>5, <2>6 DEF Current
<1>8. CookieInv'
  <2>1. cookie \in {NoPair, Newest}
    <3>1. ~ \E q \in Requests : Brings(q)
      <4> SUFFICES ASSUME NEW q \in Requests, Brings(q) PROVE FALSE
        OBVIOUS
      <4>1. phase[q] # "idle"
        BY <1>1 DEF Brings, Current, Known, CallsInv, CallsAreEntries
      <4> QED BY <1>1, <1>4, <4>1 DEF Brings
    <3> QED BY <3>1 DEF LiveParts, CookieInv
  <2>2. Brings(r)'
    BY <1>1, <1>2, <1>5, <1>6 DEF Brings
  <2> QED BY <1>1, <1>2, <1>5, <2>1, <2>2 DEF CookieInv
<1>9. PairInv'
  BY <1>1, <1>2, <1>5 DEF PairInv
<1> QED BY <1>7, <1>8, <1>9 DEF LiveParts

LEMMA SettleLive ==
    ASSUME Known, LiveParts, NEW o \in Requests, Settle(o)
    PROVE  LiveParts'
<1>1. /\ Newest \in Nat /\ Newest >= 1 /\ \A q \in Requests : Current(q)
      /\ call \in [Requests -> Calls]
  BY Numbers DEF LiveParts, Known, TypeInv, TypeOK, Calls
<1>2. /\ call[o].state \in {"rotated", "failed"}
      /\ phase' = [q \in Requests |-> IF q \in Waiters(o) THEN "resumed" ELSE phase[q]]
      /\ got' = [q \in Requests |->
                   IF q \in Waiters(o)
                   THEN [pair |-> call[o].pair, reason |-> call[o].reason] ELSE got[q]]
      /\ call' = [call EXCEPT ![o] = NoCall]
      /\ UNCHANGED <<now, pairs, cookie, jar, since, reply>>
  BY DEF Settle, provider
<1>3. o \in Waiters(o) /\ \A q \in Waiters(o) : q \in Requests /\ jar[q] = jar[o]
                                            /\ phase[q] = "waiting"
  BY <1>2 DEF Known, CallsInv, CallsAreEntries, EntriesAreLive, Waiters, TypeInv, Placed
<1>4. \A q \in Waiters(o) : q # o => call[q].state = "none"
  BY DEF Known, CallsInv, CallsAreEntries, EntriesAreLive, Waiters, TypeInv, Placed
<1>5. call'[o].state = "none" /\ call'[o].pair = NoPair
      /\ \A q \in Requests \ {o} : call'[q] = call[q]
  BY <1>1, <1>2 DEF NoCall, Call
<1>6. ASSUME NEW q \in Requests PROVE Current(q)' /\ (Brings(q) => Brings(q)')
  <2>1. CASE q \notin Waiters(o)
    BY <1>2, <1>3, <1>5, <1>1, <2>1, SameCurrent DEF SameState
  <2>2. CASE q \in Waiters(o)
    <3>1. /\ phase'[q] = "resumed" /\ got'[q].pair = call[o].pair
          /\ got'[q].reason = call[o].reason
      BY <1>2, <2>2
    <3>2. /\ call'[q].state = "none" /\ call'[q].pair = NoPair
      BY <1>1, <1>4, <1>5, <2>2 DEF Current
    <3>3. Current(o) /\ Current(q) /\ jar[q] = jar[o] /\ phase[q] = "waiting"
          /\ phase[o] = "waiting"
      BY <1>1, <1>3, <2>2
    <3>4. Current(q)'
      BY <1>1, <1>2, <3>1, <3>2, <3>3 DEF Current, Newest, Issued, Near
    <3>5. Brings(q) => Brings(q)'
      <4>1. Brings(q) => q = o /\ call[o].state = "rotated"
        BY <1>1, <1>4, <2>2, <3>3 DEF Brings, Current
      <4>2. call[o].state = "rotated" => call[o].pair = Newest
        BY <3>3 DEF Current
      <4> QED BY <1>2, <3>1, <4>1, <4>2 DEF Brings, Newest, Issued
    <3> QED BY <3>4, <3>5
  <2> QED BY <2>1, <2>2
<1>7. PairInv' /\ CookieInv'
  BY <1>2, <1>6 DEF LiveParts, PairInv, CookieInv, Newest, Issued
<1> QED BY <1>6, <1>7 DEF LiveParts

LEMMA DeliverLive ==
    ASSUME Known, LiveParts, NEW r \in Requests, Deliver(r)
    PROVE  LiveParts'
<1>1. /\ Newest \in Nat /\ Newest >= 1 /\ \A q \in Requests : Current(q)
  BY Numbers DEF LiveParts, Known
<1>2. /\ UNCHANGED <<now, pairs>> /\ phase[r] = "answered"
      /\ cookie' = IF reply[r].sets = Keep THEN cookie ELSE reply[r].sets
      /\ \A q \in Requests \ {r} : SameState(q)
  BY DEF Deliver, Forget, SameState, provider
<1>3. /\ phase'[r] = "idle" /\ jar'[r] = NoPair /\ call'[r] = NoCall
      /\ got'[r] = Nothing /\ reply'[r] = NoReply
  BY DEF Deliver, Forget
<1>4. Current(r)'
  BY <1>1, <1>2, <1>3 DEF Current, NoCall, Call, Nothing, NoReply, Reply, Newest
<1>5. \A q \in Requests : Current(q)' /\ (q # r /\ Brings(q) => Brings(q)')
  BY <1>1, <1>2, <1>4, SameCurrent
<1>6. CookieInv'
  <2>1. CASE reply[r].sets # Keep
    BY <1>1, <1>2, <2>1 DEF Current, CookieInv, Newest
  <2>2. CASE reply[r].sets = Keep
    <3>1. ~ Brings(r)
      BY <1>1, <1>2, <2>2 DEF Brings, Known, CallsInv, CallsAreEntries
    <3> QED BY <1>2, <1>5, <2>2, <3>1 DEF LiveParts, CookieInv, Newest
  <2> QED BY <2>1, <2>2
<1>7. PairInv'
  BY <1>2 DEF LiveParts, PairInv, Newest, Issued
<1> QED BY <1>5, <1>6, <1>7 DEF LiveParts

LEMMA NextLive ==
    ASSUME NothingLost, PromptRequests
    PROVE  Known /\ LiveInv /\ [Next]_vars => LiveInv'
<1> SUFFICES ASSUME Known, LiveInv, [Next]_vars PROVE LiveInv'
  OBVIOUS
<1>1. CASE Environment
  BY <1>1, EnvironmentLive
<1>2. CASE UNCHANGED vars \/ \E i \in Instances : FetchKeys(i)
  BY <1>2 DEF vars, FetchKeys, provider, requests, LiveInv, LiveParts, PairInv, CookieInv, Current, Brings,
              Live, Newest, Issued, Near
<1>3. ASSUME NEW r \in Requests, Live',
             (\E i \in Instances : Send(r, i)) \/ Handle(r) \/ Refresh(r) \/ Deliver(r)
      PROVE  LiveParts'
  <2>1. UNCHANGED <<revokedAt, retired>>
    BY <1>3 DEF Send, Handle, Anonymous, VerifyFails, VerifyServes, StartRefresh, RefreshRefused,
                RenewedFails, RenewedServes, Answer, Refresh, CallProvider, ProviderRotates,
                ProviderReplays, ProviderRefuses, ProviderFails, AnswerLost, Settle, Deliver, provider
  <2>2. Live /\ LiveParts
    BY <1>3, <2>1 DEF Live, LiveInv
  <2>3. ~ AnswerLost(r)
    BY DEF AnswerLost, NothingLost
  <2> QED BY <1>3, <2>2, <2>3, SendLive, HandleLive, CallLive, RotationLive, SettleLive,
             DeliverLive DEF Refresh
<1>4. (\A r \in Requests : ~ Drop(r)) /\ (\A i \in Instances : ~ Crash(i))
  BY DEF Drop, Crash, NothingLost
<1> QED BY <1>1, <1>2, <1>3, <1>4 DEF Next, LiveInv

LEMMA LiveInvariant ==
    ASSUME NothingLost, PromptRequests PROVE Spec => [](Known /\ LiveInv)
<1>1. Known /\ LiveInv /\ [Next]_vars => LiveInv'
  BY NextLive
<1>2. ServedInv => PastIsPast
  BY DEF ServedInv
<1>3. TypeInv /\ CallsInv /\ PastIsPast /\ KeyIsKnown => Known
  BY DEF Known
<1>4. Spec => []KeyIsKnown
  BY InitKeyIsKnown, NextKeyIsKnown, TypeInvariant, PTL DEF Spec
<1> QED BY <1>1, <1>2, <1>3, <1>4, InitLive, TypeInvariant, CallsInvariant, ServedInvariant,
           PTL DEF Spec

(* No interleaving of parallel requests, instances and outages ends a      *)
(* session the provider keeps, or clears the cookie another response just  *)
(* wrote (the catch block of `refreshed`, sharedRefresh).                  *)
THEOREM LiveSessionNeverEndsAlways ==
    ASSUME NothingLost, PromptRequests PROVE Spec => []LiveSessionNeverEnds
<1>1. Known /\ LiveInv => LiveSessionNeverEnds
  <2> SUFFICES ASSUME Known, LiveInv, Live, NEW r \in Requests
               PROVE  reply[r].status # "ended" /\ reply[r].sets # NoPair
    BY SMTT(30) DEF LiveSessionNeverEnds, Live, Known, TypeInv, TypeOK
  <2>1. Current(r) /\ Newest >= 1 /\ Newest \in Nat
    BY Numbers DEF LiveInv, LiveParts, Known
  <2> QED BY <2>1 DEF Current
<1> QED BY <1>1, LiveInvariant, PTL

(* Once nothing is outstanding the browser holds the newest pair of a live *)
(* session: it is never left with a refresh token that was spent.          *)
THEOREM BrowserNeverStrandedAlways ==
    ASSUME NothingLost, PromptRequests PROVE Spec => []BrowserNeverStranded
<1>1. Known /\ LiveInv => BrowserNeverStranded
  <2> SUFFICES ASSUME Known, LiveInv, Live, \A r \in Requests : phase[r] = "idle"
               PROVE  cookie = NoPair \/ cookie = Len(pairs)
    BY DEF BrowserNeverStranded, Live, Known, TypeInv, TypeOK
  <2>1. ASSUME NEW r \in Requests PROVE ~ Brings(r)
    <3>1. Current(r) /\ Newest \in Nat /\ Newest >= 1 /\ call[r].state = "none"
      BY Numbers DEF LiveInv, LiveParts, Known, CallsInv, CallsAreEntries
    <3> QED BY <3>1 DEF Current, Brings
  <2> QED BY <2>1 DEF LiveInv, LiveParts, CookieInv, Newest
<1> QED BY <1>1, LiveInvariant, PTL
=============================================================================
