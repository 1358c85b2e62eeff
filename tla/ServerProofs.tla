----------------------------- MODULE ServerProofs -----------------------------
(***************************************************************************)
(* Theorems about what a server process keeps in memory.  The API          *)
(* service's pool never holds more clients than it may, outlives every     *)
(* request that can be answered, and is ended once.  The web server's      *)
(* throttle keeps the promise of a limiter without a map, and nobody gets  *)
(* more than twice a budget in the length of a window.                     *)
(***************************************************************************)
EXTENDS ServiceLifecycle, ThrottleBudget, FiniteSetTheorems, SequenceTheorems, TLAPS

-----------------------------------------------------------------------------
(* The service: the inductive invariant.                                   *)

\* The types, without the bound on the clients lent.
Types ==
  /\ process \in {"up", "exited", "killed"} /\ exitCode \in {0, 1}
  /\ phase \in Phases /\ received \subseteq Signals
  /\ pending \in 0..Cardinality(Signals) /\ overdue \in BOOLEAN
  /\ pool \in {"open", "ending", "ended"}
  /\ socket \in [Connections -> {"none", "idle", "active", "cut"}]
  /\ handler \in [Connections -> Handlers]

Lending == Cardinality(Lent) <= Clients

\* A pool ends once the last connection has closed, and then no connection is
\* open again; while the pool is open it refuses nobody.
PoolAfterServer ==
  /\ pool # "open" => Open = {} /\ phase \notin {"starting", "listening"}
  /\ pool = "open" => \A c \in Connections : handler[c] # "refused"

\* One call of stop waits for the drain, or has ended the pool.
StoppedOnce ==
  /\ phase \in {"starting", "listening"} => pending = 0
  /\ pending \in {0, 1} /\ (pool # "open" => pending = 0)

\* What fails is the start.
FailedToStart ==
  /\ phase = "starting" => received = {}
  /\ exitCode = 1 => received = {} /\ process # "up"

IInv == Types /\ Lending /\ PoolAfterServer /\ StoppedOnce /\ FailedToStart

\* What is lent is finite, and grows by one client at a time.
LEMMA LentIsFinite ==
  ASSUME Types
  PROVE  IsFiniteSet(Lent) /\ Cardinality(Lent) \in Nat
  <1>1. Lent \subseteq Connections
    BY DEF Lent
  <1>2. QED
    BY <1>1, FS_Subset, FS_CardinalityType, ServiceAssumption

LEMMA LentShrinks ==
  ASSUME Types, Lending, Lent' \subseteq Lent
  PROVE  Lending'
  <1>1. Cardinality(Lent') <= Cardinality(Lent) /\ Cardinality(Lent') \in Nat
    BY LentIsFinite, FS_Subset, FS_CardinalityType
  <1>2. QED
    BY <1>1, LentIsFinite, ServiceAssumption DEF Lending

LEMMA LentGrows ==
  ASSUME Types, Free, NEW c \in Connections, Lent' \subseteq Lent \union {c}
  PROVE  Lending'
  <1>1. /\ IsFiniteSet(Lent \union {c})
        /\ Cardinality(Lent \union {c}) <= Cardinality(Lent) + 1
        /\ Cardinality(Lent \union {c}) \in Nat
    <2>1. IsFiniteSet(Lent) /\ Cardinality(Lent) \in Nat
      BY LentIsFinite
    <2>2. /\ IsFiniteSet(Lent \union {c})
          /\ Cardinality(Lent \union {c}) = IF c \in Lent THEN Cardinality(Lent)
                                            ELSE Cardinality(Lent) + 1
      BY <2>1, FS_AddElement
    <2>3. QED
      BY <2>1, <2>2
  <1>2. Cardinality(Lent') <= Cardinality(Lent \union {c}) /\ Cardinality(Lent') \in Nat
    BY <1>1, FS_Subset, FS_CardinalityType
  <1>3. QED
    BY <1>1, <1>2, LentIsFinite, ServiceAssumption DEF Free, Lending

LEMMA SomeSignal ==
  /\ Cardinality(Signals) \in Nat
  /\ \A s \in Signals : Cardinality(Signals) # 0
  <1>1. Cardinality(Signals) \in Nat
    BY FS_CardinalityType, ServiceAssumption
  <1>2. Signals # {} => Cardinality(Signals) # 0
    BY FS_EmptySet, ServiceAssumption
  <1>3. QED
    BY <1>1, <1>2

LEMMA IInvInit == Init => IInv
  <1> SUFFICES ASSUME Init PROVE IInv
    OBVIOUS
  <1>1. Types
    <2>1. 0 \in 0..Cardinality(Signals)
      BY SomeSignal
    <2>2. /\ socket \in [Connections -> {"none", "idle", "active", "cut"}]
          /\ handler \in [Connections -> Handlers]
      BY DEF Init, Handlers
    <2>3. received \subseteq Signals /\ overdue \in BOOLEAN
      BY DEF Init
    <2>4. QED
      BY <2>1, <2>2, <2>3 DEF Init, Types, Phases
  <1>2. Lent = {}
    BY DEF Init, Lent
  <1>3. Lending
    BY <1>2, FS_EmptySet, ServiceAssumption DEF Lending
  <1>4. QED
    BY <1>1, <1>3 DEF Init, IInv, PoolAfterServer, StoppedOnce, FailedToStart

-----------------------------------------------------------------------------
(* The steps of requests.                                                  *)

LEMMA RequestKeeps ==
  ASSUME IInv, NEW c \in Connections,
         Request(c) \/ Authenticated(c) \/ Lend(c) \/ Release(c) \/ Answer(c) \/ Closes(c)
  PROVE  IInv'
  <1> USE DEF IInv, service
  <1>1. UNCHANGED <<process, exitCode, phase, received, pending, overdue, pool>>
    BY DEF Request, Authenticated, Lend, Release, Answer, Closes
  <1>2. /\ socket' \in [Connections -> {"none", "idle", "active", "cut"}]
        /\ handler' \in [Connections -> Handlers]
        /\ \A d \in Connections : d # c => handler'[d] = handler[d] /\ socket'[d] = socket[d]
    BY DEF Types, Request, Authenticated, Lend, Release, Answer, Closes, Handlers
  <1>3. Types'
    BY <1>1, <1>2 DEF Types
  <1>4. Lending'
    <2>1. CASE handler'[c] = "borrowing" /\ handler[c] # "borrowing"
      <3>1. Free
        BY <2>1 DEF Types, Request, Authenticated, Lend, Release, Answer, Closes
      <3>2. Lent' \subseteq Lent \union {c}
        BY <1>2 DEF Lent
      <3>3. QED
        BY <3>1, <3>2, LentGrows
    <2>2. CASE handler'[c] # "borrowing" \/ handler[c] = "borrowing"
      <3>1. Lent' \subseteq Lent
        BY <1>2, <2>2 DEF Lent
      <3>2. QED
        BY <3>1, LentShrinks
    <2>3. QED
      BY <2>1, <2>2
  <1>5. PoolAfterServer'
    <2>1. pool # "open" => socket'[c] \notin {"idle", "active"}
      BY DEF PoolAfterServer, Open, Types, Request, Authenticated, Lend, Release, Answer, Closes
    <2>2. pool = "open" => handler'[c] # "refused"
      BY DEF PoolAfterServer, Types, Request, Authenticated, Lend, Release, Answer, Closes
    <2>3. QED
      BY <1>1, <1>2, <2>1, <2>2 DEF PoolAfterServer, Open
  <1>6. QED
    BY <1>1, <1>3, <1>4, <1>5 DEF StoppedOnce, FailedToStart

-----------------------------------------------------------------------------
(* The steps of the service.                                               *)

\* No handler takes a step with the service's own.
LEMMA HandlersRest ==
  ASSUME IInv, UNCHANGED handler
  PROVE  Lending'
  BY LentShrinks DEF IInv, Lent

LEMMA SignalKeeps == ASSUME IInv, NEW s \in Signals, Signal(s) PROVE IInv'
  <1> USE DEF IInv
  <1>1. UNCHANGED <<exitCode, overdue, pool, handler>> /\ process = "up"
    BY DEF Signal
  <1>2. CASE process' = "killed" /\ UNCHANGED <<phase, received, pending, socket>>
    <2>1. Types'
      BY <1>1, <1>2 DEF Types
    <2>2. QED
      BY <1>1, <1>2, <2>1, HandlersRest DEF PoolAfterServer, Open, StoppedOnce, FailedToStart
  <1>3. CASE phase = "listening" /\ Signal(s) /\ process' = process
    <2>1. /\ received' = received \union {s} /\ pending' = pending + 1 /\ phase' = "draining"
          /\ pending = 0 /\ pool = "open" /\ exitCode = 0
          /\ socket' = [c \in Connections |-> IF socket[c] = "idle" THEN "none" ELSE socket[c]]
      BY <1>1, <1>3 DEF Signal, Drains, StoppedOnce, PoolAfterServer, FailedToStart, Types
    <2>2. Types'
      BY <1>1, <1>3, <2>1, SomeSignal DEF Types, Phases
    <2>3. QED
      BY <1>1, <1>3, <2>1, <2>2, HandlersRest DEF PoolAfterServer, StoppedOnce, FailedToStart
  <1>4. CASE phase # "listening" /\ phase # "starting" /\ Signal(s) /\ process' = process
    <2>1. /\ received' = received \union {s} /\ UNCHANGED <<pending, phase>> /\ exitCode = 0
          /\ socket' = [c \in Connections |-> socket[c]]
      BY <1>1, <1>4 DEF Signal, Drains, FailedToStart, Types
    <2>2. Types' /\ socket' = socket
      BY <1>1, <1>4, <2>1 DEF Types
    <2>3. QED
      BY <1>1, <1>4, <2>1, <2>2, HandlersRest
      DEF PoolAfterServer, Open, StoppedOnce, FailedToStart
  <1>5. QED
    BY <1>1, <1>2, <1>3, <1>4 DEF Signal

LEMMA CutValue ==
  ASSUME NEW c \in Connections
  PROVE  /\ socket[c] = "active" => Cut(c) = "cut"
         /\ socket[c] = "idle" => Cut(c) = "none"
         /\ socket[c] \notin {"active", "idle"} => Cut(c) = socket[c]
  BY Zenon DEF Cut

LEMMA StopKeeps ==
  ASSUME IInv, Listens \/ CannotStart \/ Deadline \/ EndPool \/ PoolEnds \/ Exit
  PROVE  IInv'
  <1> USE DEF IInv
  <1>1. UNCHANGED <<received, handler>>
    BY DEF Listens, CannotStart, Deadline, EndPool, PoolEnds, Exit
  <1>2. CASE Listens \/ CannotStart \/ Exit
    <2>1. Types'
      BY <1>2, <1>1 DEF Types, Phases, Listens, CannotStart, Exit
    <2>2. QED
      BY <1>1, <1>2, <2>1, HandlersRest
      DEF Types, Listens, CannotStart, Exit, PoolAfterServer, Open, StoppedOnce, FailedToStart
  <1>3. CASE Deadline
    <2>1. \A c \in Connections : Cut(c) \in {"none", "idle", "active", "cut"}
      BY CutValue DEF Types
    <2>2. Types'
      BY <1>1, <1>3, <2>1 DEF Types, Deadline
    <2>3. QED
      BY <1>1, <1>3, <2>2, HandlersRest DEF Deadline, PoolAfterServer, StoppedOnce, FailedToStart
  <1>4. CASE EndPool
    <2>1. /\ pool = "open" /\ pool' = "ending" /\ pending = 1 /\ pending' = 0 /\ Open = {}
          /\ phase = "draining" /\ UNCHANGED <<process, exitCode, phase, overdue, socket>>
      BY <1>4 DEF EndPool, StoppedOnce, Drained
    <2>2. Types'
      BY <1>1, <2>1, SomeSignal DEF Types
    <2>3. Open' = {}
      BY <2>1 DEF Open
    <2>4. QED
      BY <1>1, <2>1, <2>2, <2>3, HandlersRest DEF PoolAfterServer, StoppedOnce, FailedToStart
  <1>5. CASE PoolEnds
    <2>1. Types'
      BY <1>1, <1>5 DEF Types, PoolEnds, Phases
    <2>2. QED
      BY <1>1, <1>5, <2>1, HandlersRest
      DEF PoolEnds, PoolAfterServer, Open, StoppedOnce, FailedToStart
  <1>6. QED
    BY <1>2, <1>3, <1>4, <1>5

LEMMA IInvStep == IInv /\ [Next]_vars => IInv'
  <1> SUFFICES ASSUME IInv, [Next]_vars PROVE IInv'
    OBVIOUS
  <1>1. CASE UNCHANGED vars
    BY <1>1, HandlersRest
    DEF vars, IInv, Types, PoolAfterServer, Open, StoppedOnce, FailedToStart
  <1>2. QED
    BY <1>1, RequestKeeps, SignalKeeps, StopKeeps DEF Next

LEMMA Invariant == Spec => []IInv
  BY IInvInit, IInvStep, PTL DEF Spec

-----------------------------------------------------------------------------
(* The theorems.                                                           *)

\* TypeOK is an invariant: in particular the pool never lends more clients than
\* its max, whatever requests queue and whatever a stop leaves in the queue.
THEOREM TypeCorrect == Spec => []TypeOK
  <1>1. IInv => TypeOK
    BY DEF IInv, Types, Lending, Lent, TypeOK
  <1>2. QED
    BY Invariant, <1>1, PTL

\* While a request can still be answered its pool hands out clients
\* (startService's stop awaits the drain before it closes the database).
THEOREM OpenRequestKeepsPoolAlways == Spec => []OpenRequestKeepsPool
  <1>1. IInv => OpenRequestKeepsPool
    BY DEF IInv, PoolAfterServer, Open, OpenRequestKeepsPool
  <1>2. QED
    BY Invariant, <1>1, PTL

\* Signals in any number and order stop a started service once, and it exits
\* with code 0 (stopping ??= stop() in startService).
THEOREM StopsCleanlyAlways == Spec => []StopsCleanly
  <1>1. IInv => StopsCleanly
    BY DEF IInv, Types, FailedToStart, StopsCleanly
  <1>2. QED
    BY Invariant, <1>1, PTL

-----------------------------------------------------------------------------
(* The throttle: the inductive invariant.                                  *)

\* The map's order is total, puts a first in every set of keys, and is the order
\* windows close in.
WellOrdered ==
  /\ \A i, j \in Held : <<i, j>> \in order => <<j, i>> \notin order
  /\ \A i, j \in Held : i # j => <<i, j>> \in order \/ <<j, i>> \in order
  /\ \A ids \in SUBSET Held : ids # {} => Firsts(ids) # {}
ClosesInOrder ==
  /\ \A i, j \in Held : <<i, j>> \in order => windows[i].resetsAt <= windows[j].resetsAt
  /\ \A k \in Held : windows[k].resetsAt <= at + Window

ThrottleInv ==
  /\ ThrottleTypeOK /\ IsFiniteSet(Held)
  /\ WellOrdered /\ ClosesInOrder /\ RetryAfterSuffices

LEMMA Constants ==
  /\ Window \in Nat /\ Window >= 1 /\ MaxWindows \in Nat /\ MaxWindows >= 1
  /\ Second \in Nat /\ Second >= 1 /\ SweepEvery \in Nat /\ SweepAbove \in Nat
  /\ MostAsks \in Nat /\ MaxTime \in Nat
  /\ \A k \in Keys : Attempts[k] \in Nat /\ Attempts[k] >= 1
BY ThrottleAssumption

\* tooManyAttempts rounds up.
LEMMA RoundsUp ==
  ASSUME NEW wait \in Nat, NEW n \in Nat, n >= 1
  PROVE  LET seconds == (wait + n - 1) \div n
         IN  seconds \in Nat /\ seconds * n >= wait /\ seconds * n <= wait + n
<1> DEFINE seconds == (wait + n - 1) \div n
<1>1. /\ seconds \in Int
      /\ wait + n - 1 = n * seconds + ((wait + n - 1) % n)
      /\ (wait + n - 1) % n \in 0..(n - 1)
  OBVIOUS
<1> QED BY <1>1

LEMMA ComeBackBounds ==
  ASSUME ThrottleTypeOK, NEW w, w.resetsAt \in Nat,
         at < w.resetsAt, w.resetsAt <= MaxTime + Window
  PROVE  ComeBack(w) \in 0..(MaxTime + Window + Second) /\ w.resetsAt <= ComeBack(w)
<1> DEFINE wait == w.resetsAt - at
           seconds == (wait + Second - 1) \div Second
<1>1. /\ ComeBack(w) = at + (IF seconds >= 1 THEN seconds ELSE 1) * Second
      /\ at \in Nat /\ at <= MaxTime /\ at + wait = w.resetsAt /\ wait \in Nat
      /\ wait >= 1
  BY Constants DEF ComeBack, ThrottleTypeOK
<1>2. seconds \in Nat /\ seconds * Second >= wait /\ seconds * Second <= wait + Second
  BY <1>1, RoundsUp, Constants
<1>3. seconds >= 1
  BY <1>1, <1>2, Constants
<1> DEFINE whole == seconds * Second
<1>4. ComeBack(w) = at + whole /\ whole \in Nat
  BY <1>1, <1>2, <1>3, Constants
<1> HIDE DEF wait, seconds, whole
<1>5. whole >= wait /\ whole <= wait + Second
  BY <1>2 DEF whole
<1> QED BY <1>1, <1>4, <1>5, Constants

LEMMA SweptFacts ==
  /\ Swept \subseteq Held
  /\ \A k : StillOpen(Swept, k) <=> StillOpen(Held, k)
  /\ \A k \in Held : k \notin Swept => ~StillOpen(Held, k)
BY DEF Swept, StillOpen

LEMMA OneFirst ==
  ASSUME ThrottleTypeOK, WellOrdered, ClosesInOrder, NEW ids \in SUBSET Held, ids # {}
  PROVE  \E f \in ids : /\ Firsts(ids) = {f}
                        /\ \A j \in ids : windows[f].resetsAt <= windows[j].resetsAt
<1>1. PICK f \in ids : f \in Firsts(ids)
  BY DEF WellOrdered, Firsts
<1>2. \A j \in ids : j # f => <<f, j>> \in order
  BY <1>1 DEF WellOrdered, Firsts
<1>3. Firsts(ids) = {f}
  BY <1>1, <1>2 DEF Firsts
<1>4. \A j \in ids : windows[f].resetsAt <= windows[j].resetsAt
  <2>1. \A j \in ids : windows[j].resetsAt \in Nat
    BY Constants DEF ThrottleTypeOK
  <2>2. ASSUME NEW j \in ids, j # f PROVE windows[f].resetsAt <= windows[j].resetsAt
    <3>1. f \in Held /\ j \in Held /\ <<f, j>> \in order
      BY <1>2, <2>2
    <3> QED BY <3>1 DEF ClosesInOrder
  <2> QED BY <2>1, <2>2
<1> QED BY <1>3, <1>4

\* The ceiling holds when a key is added.
LEMMA EvictedFacts ==
  ASSUME ThrottleInv, NEW ids \in SUBSET Held
  PROVE  /\ Evicted(ids) \subseteq ids /\ IsFiniteSet(Evicted(ids))
         /\ Cardinality(Evicted(ids)) \in Nat /\ Cardinality(Evicted(ids)) < MaxWindows
<1>1. /\ IsFiniteSet(ids) /\ Cardinality(ids) \in Nat /\ Cardinality(ids) <= MaxWindows
      /\ Cardinality(Held) \in Nat
  BY Constants, FS_Subset, FS_CardinalityType DEF ThrottleInv, ThrottleTypeOK
<1>2. CASE Cardinality(ids) < MaxWindows
  BY <1>1, <1>2, Constants DEF Evicted
<1>3. CASE Cardinality(ids) >= MaxWindows
  <2>1. ids # {}
    BY <1>1, <1>3, Constants, FS_EmptySet
  <2>2. PICK f \in ids : Firsts(ids) = {f}
    BY <2>1, OneFirst DEF ThrottleInv
  <2>3. /\ IsFiniteSet(ids \ {f}) /\ Cardinality(ids \ {f}) = Cardinality(ids) - 1
    BY <1>1, FS_RemoveElement
  <2>4. Evicted(ids) = ids \ {f}
    BY <1>3, <2>2 DEF Evicted
  <2>5. Cardinality(ids \ {f}) \in Nat /\ Cardinality(ids \ {f}) < MaxWindows
    BY <1>1, <2>3, Constants, FS_CardinalityType
  <2> QED BY <2>3, <2>4, <2>5
<1> QED BY <1>1, <1>2, <1>3, Constants

\* What an ask does to the map while the window is open, and when it opens one.
LEMMA AskOpen ==
  ASSUME NEW k, Ask(k), StillOpen(Held, k)
  PROVE  /\ Held' = Swept /\ k \in Swept /\ order' = Among(Swept)
         /\ windows' = [j \in Swept |-> IF j = k THEN Counted(k) ELSE windows[j]]
         /\ Counted(k) = [windows[k] EXCEPT !.count = @ + 1]
<1>1. StillOpen(Swept, k) /\ k \in Swept
  BY SweptFacts DEF StillOpen
<1>2. (Swept \ {k}) \union {k} = Swept
  BY <1>1
<1>3. windows' = [j \in Swept |-> IF j = k THEN Counted(k) ELSE windows[j]]
  BY <1>1, <1>2 DEF Ask
<1> QED BY <1>1, <1>3 DEF Ask, Counted, Held

\* The keys beside the one whose window is opened.
Beside(k) == Evicted(Swept \ {k})

LEMMA AskNew ==
  ASSUME NEW k, Ask(k), ~StillOpen(Held, k)
  PROVE  /\ Held' = Beside(k) \union {k} /\ order' = Inserted(Beside(k), k)
         /\ windows' = [j \in Beside(k) \union {k} |-> IF j = k THEN Counted(k) ELSE windows[j]]
         /\ Counted(k) = [count |-> 1, resetsAt |-> at + Window]
<1>1. ~StillOpen(Swept, k)
  BY SweptFacts
<1> QED BY <1>1 DEF Ask, Counted, Held, Beside

LEMMA BesideFacts ==
  ASSUME ThrottleInv, NEW k
  PROVE  /\ Beside(k) \subseteq Swept /\ Beside(k) \subseteq Held /\ k \notin Beside(k)
         /\ IsFiniteSet(Beside(k))
         /\ Cardinality(Beside(k)) \in Nat /\ Cardinality(Beside(k)) < MaxWindows
<1>1. Swept \ {k} \in SUBSET Held
  BY SweptFacts
<1>2. Beside(k) \subseteq Swept \ {k}
  BY <1>1, EvictedFacts DEF Beside
<1> QED BY <1>1, <1>2, EvictedFacts DEF Beside

Entries == [count : 1..MostAsks, resetsAt : 1..(MaxTime + Window)]

\* The window that is counted in is open.
LEMMA CountedFacts ==
  ASSUME ThrottleInv, NEW k \in Keys, Ask(k)
  PROVE  /\ Counted(k) \in Entries
         /\ at < Counted(k).resetsAt /\ Counted(k).resetsAt <= at + Window
         /\ StillOpen(Held, k) => Counted(k).resetsAt = windows[k].resetsAt
<1>1. at \in Nat /\ at <= MaxTime /\ Counted(k).count <= MostAsks
  BY Constants DEF ThrottleInv, ThrottleTypeOK, Ask
<1>2. CASE StillOpen(Held, k)
  <2>1. windows[k] \in Entries /\ at < windows[k].resetsAt /\ windows[k].resetsAt <= at + Window
    BY <1>2 DEF StillOpen, ThrottleInv, ThrottleTypeOK, ClosesInOrder, Entries
  <2>2. Counted(k) = [windows[k] EXCEPT !.count = @ + 1]
    BY <1>2, AskOpen
  <2>3. /\ Counted(k).count = windows[k].count + 1 /\ Counted(k).resetsAt = windows[k].resetsAt
        /\ Counted(k) = [count |-> windows[k].count + 1, resetsAt |-> windows[k].resetsAt]
    BY <2>1, <2>2 DEF Entries
  <2>4. windows[k].count + 1 \in 1..MostAsks
    BY <1>1, <2>1, <2>3, Constants DEF Entries
  <2> QED BY <2>1, <2>3, <2>4 DEF Entries
<1>3. CASE ~StillOpen(Held, k)
  <2>1. Counted(k) = [count |-> 1, resetsAt |-> at + Window]
    BY <1>3, AskNew
  <2> QED BY <1>1, <1>3, <2>1, Constants DEF Entries
<1> QED BY <1>2, <1>3

\* What an ask does to the map.
LEMMA AskEffect ==
  ASSUME ThrottleInv, NEW k \in Keys, Ask(k)
  PROVE  /\ k \in Held' /\ windows'[k] = Counted(k)
         /\ \A j \in Held' \ {k} : j \in Held /\ windows'[j] = windows[j]
         /\ windows' \in [Held' -> Entries]
         /\ IsFiniteSet(Held') /\ Cardinality(Held') <= MaxWindows
<1>1. /\ windows \in [Held -> Entries] /\ Swept \subseteq Held /\ IsFiniteSet(Held)
      /\ Cardinality(Held) <= MaxWindows
  BY SweptFacts DEF ThrottleInv, ThrottleTypeOK, Entries
<1>2. Counted(k) \in Entries
  BY CountedFacts
<1>3. CASE StillOpen(Held, k)
  <2>1. /\ Held' = Swept /\ k \in Swept
        /\ windows' = [j \in Swept |-> IF j = k THEN Counted(k) ELSE windows[j]]
    BY <1>3, AskOpen
  <2>2. /\ IsFiniteSet(Swept) /\ Cardinality(Swept) <= Cardinality(Held)
        /\ Cardinality(Swept) \in Nat /\ Cardinality(Held) \in Nat
    BY <1>1, FS_Subset, FS_CardinalityType
  <2>3. Cardinality(Swept) <= MaxWindows
    BY <1>1, <2>2, Constants
  <2> QED BY <1>1, <1>2, <2>1, <2>2, <2>3
<1>4. CASE ~StillOpen(Held, k)
  <2> DEFINE rest == Beside(k)
  <2>1. /\ Held' = rest \union {k}
        /\ windows' = [j \in rest \union {k} |-> IF j = k THEN Counted(k) ELSE windows[j]]
    BY <1>4, AskNew
  <2>2. /\ rest \subseteq Held /\ k \notin rest /\ IsFiniteSet(rest)
        /\ Cardinality(rest) \in Nat /\ Cardinality(rest) < MaxWindows
    BY BesideFacts
  <2> HIDE DEF rest
  <2>3. k \notin rest
    BY <2>2
  <2>4. IsFiniteSet(rest \union {k}) /\ Cardinality(rest \union {k}) = Cardinality(rest) + 1
    BY <2>2, <2>3, FS_AddElement
  <2>5. Cardinality(rest \union {k}) <= MaxWindows
    BY <2>2, <2>4, Constants
  <2> QED BY <1>1, <1>2, <2>1, <2>2, <2>4, <2>5
<1> QED BY <1>3, <1>4

LEMMA AskTypes == ASSUME ThrottleInv, NEW k \in Keys, Ask(k) PROVE ThrottleTypeOK' /\ IsFiniteSet(Held')
<1>1. /\ Held' \subseteq Keys /\ windows' \in [Held' -> Entries]
      /\ Cardinality(Held') <= MaxWindows /\ IsFiniteSet(Held')
  BY AskEffect DEF ThrottleInv, ThrottleTypeOK
<1>2. order' \subseteq Held' \X Held'
  <2>1. CASE StillOpen(Held, k)
    BY <2>1, AskOpen DEF Among
  <2>2. CASE ~StillOpen(Held, k)
    <3>1. Held' = Beside(k) \union {k} /\ order' = Inserted(Beside(k), k)
      BY <2>2, AskNew
    <3>2. Inserted(Beside(k), k) \subseteq (Beside(k) \union {k}) \X (Beside(k) \union {k})
      BY DEF Inserted, Among
    <3> QED BY <3>1, <3>2
  <2> QED BY <2>1, <2>2
<1>3. said' \in [key : Keys, allowed : BOOLEAN, comeBack : 0..(MaxTime + Window + Second)]
  <2>1. ComeBack(Counted(k)) \in 0..(MaxTime + Window + Second)
    BY CountedFacts, ComeBackBounds, Constants DEF ThrottleInv, Entries
  <2>2. Allowed(Counted(k), k) \in BOOLEAN /\ 0 \in 0..(MaxTime + Window + Second)
    BY Constants DEF Allowed
  <2>3. \E ok \in BOOLEAN, back \in 0..(MaxTime + Window + Second) :
          said' = [key |-> k, allowed |-> ok, comeBack |-> back]
    BY <2>1, <2>2 DEF Ask
  <2> QED BY <2>3
<1>4. at' = at /\ sweptAt' \in {at, sweptAt}
  BY DEF Ask
<1> QED BY <1>1, <1>2, <1>3, <1>4, Constants DEF ThrottleInv, ThrottleTypeOK, Entries

LEMMA AskOrders == ASSUME ThrottleInv, NEW k \in Keys, Ask(k) PROVE WellOrdered'
<1>1. CASE StillOpen(Held, k)
  <2>1. Held' = Swept /\ Swept \subseteq Held /\ order' = order \intersect (Swept \X Swept)
    BY <1>1, AskOpen, SweptFacts DEF Among
  <2>2. \A ids \in SUBSET Held' : Firsts(ids)' = Firsts(ids)
    BY <2>1 DEF Firsts
  <2> QED BY <2>1, <2>2 DEF ThrottleInv, WellOrdered
<1>2. CASE ~StillOpen(Held, k)
  <2>1. PICK rest \in SUBSET Held :
          /\ k \notin rest /\ Held' = rest \union {k}
          /\ order' = (order \intersect (rest \X rest)) \union (rest \X {k})
    BY <1>2, AskNew, BesideFacts DEF Inserted, Among
  <2>2. \A i, j \in rest : <<i, j>> \in order' <=> <<i, j>> \in order
    BY <2>1
  <2>3. \A i \in rest : <<i, k>> \in order' /\ <<k, i>> \notin order'
    BY <2>1
  <2>4. <<k, k>> \notin order'
    BY <2>1
  <2>5. ASSUME NEW ids \in SUBSET Held', ids # {} PROVE Firsts(ids)' # {}
    <3>1. CASE ids \subseteq {k}
      <4>1. ids = {k}
        BY <2>5, <3>1
      <4> QED BY <2>4, <4>1 DEF Firsts
    <3>2. CASE ids \ {k} # {}
      <4>1. ids \ {k} \in SUBSET rest
        BY <2>1, <2>5
      <4>2. Firsts(ids \ {k}) # {}
        BY <2>1, <3>2, <4>1 DEF ThrottleInv, WellOrdered
      <4>3. PICK f \in ids \ {k} : f \in Firsts(ids \ {k})
        BY <4>2 DEF Firsts
      <4>4. \A j \in ids : <<j, f>> \notin order'
        BY <2>2, <2>3, <4>1, <4>3 DEF Firsts
      <4> QED BY <4>3, <4>4 DEF Firsts
    <3> QED BY <3>1, <3>2
  <2>6. \A i, j \in Held' : <<i, j>> \in order' => <<j, i>> \notin order'
    BY <2>1, <2>2, <2>3, <2>4 DEF ThrottleInv, WellOrdered
  <2>7. \A i, j \in Held' : i # j => <<i, j>> \in order' \/ <<j, i>> \in order'
    BY <2>1, <2>2, <2>3 DEF ThrottleInv, WellOrdered
  <2> QED BY <2>5, <2>6, <2>7 DEF WellOrdered
<1> QED BY <1>1, <1>2

LEMMA AskCloses == ASSUME ThrottleInv, NEW k \in Keys, Ask(k) PROVE ClosesInOrder'
<1>1. /\ k \in Held' /\ windows'[k] = Counted(k) /\ Counted(k).resetsAt <= at + Window
      /\ \A j \in Held' \ {k} : j \in Held /\ windows'[j] = windows[j]
      /\ at' = at
  BY AskEffect, CountedFacts DEF Ask
<1>2. \A j \in Held' : windows'[j].resetsAt <= at' + Window
  BY <1>1 DEF ThrottleInv, ClosesInOrder
<1>3. CASE StillOpen(Held, k)
  <2>1. \A j \in Held' : j \in Held /\ windows'[j].resetsAt = windows[j].resetsAt
    BY <1>1, <1>3, CountedFacts DEF StillOpen
  <2>2. order' \subseteq order
    BY <1>3, AskOpen DEF Among
  <2> QED BY <1>2, <2>1, <2>2 DEF ThrottleInv, ClosesInOrder
<1>4. CASE ~StillOpen(Held, k)
  <2>1. /\ Held' = Beside(k) \union {k} /\ order' = Inserted(Beside(k), k)
        /\ Counted(k) = [count |-> 1, resetsAt |-> at + Window]
    BY <1>4, AskNew
  <2>2. windows'[k].resetsAt = at + Window
    BY <1>1, <2>1
  <2>3. \A i, j \in Held' : <<i, j>> \in order' =>
          j = k \/ (i # k /\ j # k /\ <<i, j>> \in order)
    BY <2>1, BesideFacts DEF Inserted, Among
  <2>4. ASSUME NEW i \in Held', NEW j \in Held', <<i, j>> \in order'
        PROVE  windows'[i].resetsAt <= windows'[j].resetsAt
    <3>1. CASE j = k
      BY <1>1, <1>2, <2>2, <3>1
    <3>2. CASE j # k
      <4>1. i \in Held /\ j \in Held /\ <<i, j>> \in order
        BY <1>1, <2>3, <2>4, <3>2
      <4>2. windows'[i] = windows[i] /\ windows'[j] = windows[j]
        BY <1>1, <2>3, <2>4, <3>2
      <4> QED BY <4>1, <4>2 DEF ThrottleInv, ClosesInOrder
    <3> QED BY <3>1, <3>2
  <2> QED BY <1>2, <2>4 DEF ClosesInOrder
<1> QED BY <1>3, <1>4

LEMMA AskRetries == ASSUME ThrottleInv, NEW k \in Keys, Ask(k) PROVE RetryAfterSuffices'
<1>1. windows'[k].resetsAt = Counted(k).resetsAt
  BY AskEffect
<1>2. Counted(k).resetsAt <= ComeBack(Counted(k))
  BY CountedFacts, ComeBackBounds DEF ThrottleInv, Entries
<1>3. said'.key = k /\ (~said'.allowed => said'.comeBack = ComeBack(Counted(k)))
  BY DEF Ask
<1> QED BY <1>1, <1>2, <1>3 DEF RetryAfterSuffices

LEMMA InitThrottle == ThrottleInit => ThrottleInv
<1> SUFFICES ASSUME ThrottleInit PROVE ThrottleInv
  OBVIOUS
<1>1. Held = {} /\ windows \in [Held -> Entries]
  BY DEF ThrottleInit, Held
<1>2. IsFiniteSet(Held) /\ Cardinality(Held) = 0
  BY <1>1, FS_EmptySet
<1>3. said.key \in Keys /\ said \in [key : Keys, allowed : BOOLEAN, comeBack : 0..(MaxTime + Window + Second)]
  BY ThrottleAssumption, Constants DEF ThrottleInit
<1>4. ThrottleTypeOK
  BY <1>1, <1>2, <1>3, Constants DEF ThrottleInit, ThrottleTypeOK, Entries
<1> QED
  BY <1>1, <1>2, <1>4
     DEF ThrottleInv, WellOrdered, ClosesInOrder, RetryAfterSuffices

LEMMA ThrottleStep == ThrottleInv /\ [ThrottleNext]_throttleVars => ThrottleInv'
<1> SUFFICES ASSUME ThrottleInv, [ThrottleNext]_throttleVars PROVE ThrottleInv'
  OBVIOUS
<1>1. CASE ClockTicks
  <2>1. /\ UNCHANGED <<windows, order, sweptAt, said>> /\ Held' = Held
        /\ at' \in 0..MaxTime /\ at <= at' /\ at \in Nat /\ at' \in Nat
    BY <1>1, Constants DEF ClockTicks, Held, ThrottleInv, ThrottleTypeOK
  <2>2. ThrottleTypeOK'
    BY <2>1, Constants DEF ThrottleInv, ThrottleTypeOK
  <2>3. WellOrdered' /\ RetryAfterSuffices'
    BY <2>1 DEF ThrottleInv, WellOrdered, Firsts, RetryAfterSuffices
  <2>4. \A j \in Held : windows[j].resetsAt \in Nat
    BY Constants DEF ThrottleInv, ThrottleTypeOK
  <2>5. ClosesInOrder'
    BY <2>1, <2>4, Constants DEF ThrottleInv, ClosesInOrder
  <2> QED BY <2>1, <2>2, <2>3, <2>5 DEF ThrottleInv
<1>2. CASE Restart
  <2>1. Held' = {} /\ windows' \in [Held' -> Entries] /\ order' = {} /\ at' = at /\ said' = said
    BY <1>2 DEF Restart, Held
  <2>2. IsFiniteSet(Held') /\ Cardinality(Held') = 0
    BY <2>1, FS_EmptySet
  <2>3. ThrottleTypeOK'
    BY <1>2, <2>1, <2>2, Constants DEF Restart, ThrottleInv, ThrottleTypeOK, Entries
  <2> QED
    BY <2>1, <2>2, <2>3
       DEF ThrottleInv, WellOrdered, ClosesInOrder, RetryAfterSuffices
<1>3. ASSUME NEW k \in Keys, Ask(k) PROVE ThrottleInv'
  BY <1>3, AskTypes, AskOrders, AskCloses, AskRetries DEF ThrottleInv
<1>4. CASE UNCHANGED throttleVars
  BY <1>4 DEF throttleVars, ThrottleInv, ThrottleTypeOK, Held, WellOrdered, Firsts, ClosesInOrder,
              RetryAfterSuffices
<1> QED BY <1>1, <1>2, <1>3, <1>4 DEF ThrottleNext

LEMMA ThrottleAlways == ThrottleSpec => []ThrottleInv
BY InitThrottle, ThrottleStep, PTL DEF ThrottleSpec

\* The map holds no more windows than it may, each of a key that asked, in one
\* order of insertion.
THEOREM ThrottleTypeCorrect == ThrottleSpec => []ThrottleTypeOK
<1>1. ThrottleInv => ThrottleTypeOK
  BY DEF ThrottleInv
<1> QED BY <1>1, ThrottleAlways, PTL

\* A refused caller who waits as long as Retry-After says finds the window
\* reopened.
THEOREM RetryAfterSufficesAlways == ThrottleSpec => []RetryAfterSuffices
<1>1. ThrottleInv => RetryAfterSuffices
  BY DEF ThrottleInv
<1> QED BY <1>1, ThrottleAlways, PTL

-----------------------------------------------------------------------------
(* What callers see is a Limiter.                                          *)

LEMMA CountsAlike == \A S : Promise!Cardinality(S) = Cardinality(S)
BY DEF Promise!Cardinality, Cardinality

OpenKeys == {k \in Keys : StillOpen(Held, k)}

LEMMA UsedFacts ==
  ASSUME ThrottleInv, NEW k \in Keys
  PROVE  /\ Used(k) \in 0..Attempts[k]
         /\ Used(k) > 0 <=> k \in OpenKeys
         /\ k \in OpenKeys => windows[k] \in Entries /\ at < windows[k].resetsAt
<1>1. k \in OpenKeys => windows[k] \in Entries /\ at < windows[k].resetsAt
  BY DEF OpenKeys, StillOpen, ThrottleInv, ThrottleTypeOK, Entries
<1>2. Attempts[k] \in Nat /\ Attempts[k] >= 1
  BY Constants
<1>3. k \in OpenKeys => windows[k].count \in Nat /\ windows[k].count >= 1
  BY <1>1, Constants DEF Entries
<1> QED BY <1>1, <1>2, <1>3 DEF Used, OpenKeys

LEMMA InUseIsOpen == ThrottleInv => Promise!InUse = OpenKeys
BY UsedFacts DEF Promise!InUse, OpenKeys

LEMMA RefinedInit == ThrottleInit => Promise!Init
<1> SUFFICES ASSUME ThrottleInit PROVE Promise!Init
  OBVIOUS
<1>1. \A k \in Keys : Used(k) = 0 /\ Ends(k) = 0
  BY DEF ThrottleInit, Used, Ends, StillOpen, Held
<1> QED BY <1>1 DEF ThrottleInit, Promise!Init

LEMMA RefinedTick == ThrottleInv /\ ClockTicks => Promise!Tick
<1> SUFFICES ASSUME ThrottleInv, ClockTicks PROVE Promise!Tick
  OBVIOUS
<1>1. /\ at' = at + 1 /\ at \in Nat /\ windows' = windows /\ Held' = Held /\ said' = said
      /\ \A k \in Held : windows[k].resetsAt \in Nat
  BY Constants DEF ClockTicks, ThrottleInv, ThrottleTypeOK, Held
<1>2. ASSUME NEW k \in Keys
      PROVE  /\ Used(k)' = IF Ends(k) > at + 1 THEN Used(k) ELSE 0
             /\ Ends(k)' = IF Ends(k) > at + 1 THEN Ends(k) ELSE 0
  BY <1>1 DEF Used, Ends, StillOpen
<1> QED BY <1>1, <1>2 DEF ClockTicks, Promise!Tick

LEMMA RefinedRestart == Restart => Promise!Forget
<1> SUFFICES ASSUME Restart PROVE Promise!Forget
  OBVIOUS
<1>1. \A k \in Keys : Used(k)' = 0 /\ Ends(k)' = 0
  BY DEF Restart, Used, Ends, StillOpen, Held
<1> QED BY <1>1 DEF Restart, Promise!Forget

\* What a key that did not ask has used stays, unless its window made room.
LEMMA OthersUsed ==
  ASSUME ThrottleInv, NEW k \in Keys, Ask(k), NEW j \in Keys, j # k
  PROVE  /\ j \in Held' \/ j \notin OpenKeys => Used(j)' = Used(j) /\ Ends(j)' = Ends(j)
         /\ j \notin Held' => Used(j)' = 0 /\ Ends(j)' = 0
<1>1. at' = at /\ (j \in Held' => j \in Held /\ windows'[j] = windows[j])
  BY AskEffect DEF Ask
<1> QED BY <1>1 DEF Used, Ends, StillOpen, OpenKeys

LEMMA RefinedOpen ==
  ASSUME ThrottleInv, NEW k \in Keys, Ask(k), StillOpen(Held, k)
  PROVE  Promise!Draw(k) /\ (Allowed(Counted(k), k) <=> Used(k) < Attempts[k])
<1>1. /\ Held' = Swept /\ windows'[k] = Counted(k) /\ k \in Held' /\ at' = at
      /\ Counted(k) = [windows[k] EXCEPT !.count = @ + 1]
  BY AskOpen, AskEffect DEF Ask
<1>2. /\ windows[k] \in Entries /\ at < windows[k].resetsAt /\ k \in OpenKeys
      /\ Attempts[k] \in Nat /\ Attempts[k] >= 1
  BY UsedFacts, Constants DEF OpenKeys
<1>3. windows[k].count \in Nat /\ windows[k].count >= 1
  BY <1>2, Constants DEF Entries
<1>4. windows'[k].count = windows[k].count + 1 /\ windows'[k].resetsAt = windows[k].resetsAt
  BY <1>1, <1>2 DEF Entries
<1>5. Allowed(Counted(k), k) <=> Used(k) < Attempts[k]
  BY <1>1, <1>2, <1>3, <1>4 DEF Allowed, Used
<1>6. /\ Used(k)' = IF Used(k) < Attempts[k] THEN Used(k) + 1 ELSE Used(k)
      /\ Ends(k)' = Ends(k)
  BY <1>1, <1>2, <1>3, <1>4 DEF Used, Ends, StillOpen
<1>7. ASSUME NEW j \in Keys, j # k PROVE Used(j)' = Used(j) /\ Ends(j)' = Ends(j)
  <2>1. j \in Held' \/ j \notin OpenKeys
    BY <1>1, SweptFacts DEF OpenKeys, StillOpen
  <2> QED BY <1>7, <2>1, OthersUsed
<1>8. k \in Promise!InUse
  BY <1>2, InUseIsOpen
<1>9. [j \in Keys |-> Ends(j)]' = [j \in Keys |-> Ends(j)]
  BY <1>6, <1>7
<1>10. [j \in Keys |-> Used(j)]' =
         IF Used(k) < Attempts[k] THEN [[j \in Keys |-> Used(j)] EXCEPT ![k] = @ + 1]
         ELSE [j \in Keys |-> Used(j)]
  BY <1>6, <1>7
<1> QED BY <1>5, <1>8, <1>9, <1>10 DEF Promise!Draw, Promise!Allows

\* The window that makes room is none in use, or the one closest to reopening
\* when as many as there may be are in use.
LEMMA RoomIsMade ==
  ASSUME ThrottleInv, NEW k \in Keys, ~StillOpen(Held, k)
  PROVE  \E lost \in IF Cardinality(OpenKeys) < MaxWindows THEN {{}} ELSE {{j} : j \in Promise!Oldest} :
           lost = OpenKeys \ Beside(k)
<1> DEFINE ids == Swept \ {k}
<1>1. ids \in SUBSET Held /\ OpenKeys \subseteq ids /\ ids \subseteq Held
  BY SweptFacts DEF OpenKeys, StillOpen
<1>2. /\ IsFiniteSet(ids) /\ IsFiniteSet(OpenKeys)
      /\ Cardinality(ids) \in Nat /\ Cardinality(OpenKeys) \in Nat /\ Cardinality(Held) \in Nat
      /\ Cardinality(OpenKeys) <= Cardinality(ids) /\ Cardinality(ids) <= Cardinality(Held)
      /\ Cardinality(Held) <= MaxWindows /\ MaxWindows \in Nat /\ MaxWindows >= 1
  BY <1>1, Constants, FS_Subset, FS_CardinalityType DEF ThrottleInv, ThrottleTypeOK
<1>3. CASE Cardinality(ids) < MaxWindows
  <2>1. Beside(k) = ids
    BY <1>2, <1>3 DEF Beside, Evicted
  <2>2. OpenKeys \ Beside(k) = {} /\ Cardinality(OpenKeys) < MaxWindows
    BY <1>1, <1>2, <1>3, <2>1
  <2> QED BY <2>2
<1>4. CASE Cardinality(ids) >= MaxWindows
  <2>1. ids # {}
    BY <1>2, <1>4, FS_EmptySet
  <2>2. PICK f \in ids : /\ Firsts(ids) = {f}
                         /\ \A j \in ids : windows[f].resetsAt <= windows[j].resetsAt
    BY <1>1, <2>1, OneFirst DEF ThrottleInv
  <2>3. Beside(k) = ids \ {f}
    BY <1>4, <2>2 DEF Beside, Evicted
  <2>4. CASE f \notin OpenKeys
    <3>1. OpenKeys \ Beside(k) = {}
      BY <1>1, <2>3, <2>4
    <3>2. Cardinality(ids \ {f}) = Cardinality(ids) - 1 /\ IsFiniteSet(ids \ {f})
      BY <1>2, FS_RemoveElement
    <3>3. OpenKeys \subseteq ids \ {f}
      BY <1>1, <2>4
    <3>4. Cardinality(OpenKeys) <= Cardinality(ids \ {f})
      BY <3>2, <3>3, FS_Subset
    <3>5. Cardinality(OpenKeys) < MaxWindows
      BY <1>2, <3>2, <3>4
    <3> QED BY <3>1, <3>5
  <2>5. CASE f \in OpenKeys
    \* The first closes first, so they are all open.
    <3>1. \A j \in ids : windows[j].resetsAt \in Nat /\ j \in Keys
      BY <1>1, Constants DEF ThrottleInv, ThrottleTypeOK
    <3>2. at \in Nat /\ at < windows[f].resetsAt
      BY <2>5 DEF OpenKeys, StillOpen, ThrottleInv, ThrottleTypeOK
    <3>3. OpenKeys = ids
      BY <1>1, <2>2, <3>1, <3>2 DEF OpenKeys, StillOpen
    <3>4. OpenKeys \ Beside(k) = {f}
      BY <2>3, <3>3
    <3>5. \A j \in OpenKeys : Ends(j) = windows[j].resetsAt
      BY DEF OpenKeys, Ends
    <3>6. f \in Promise!Oldest
      BY <2>2, <2>5, <3>3, <3>5, InUseIsOpen DEF Promise!Oldest, OpenKeys
    <3>7. ~(Cardinality(OpenKeys) < MaxWindows)
      BY <1>2, <1>4, <3>3
    <3> QED BY <3>4, <3>6, <3>7
  <2> QED BY <2>4, <2>5
<1> QED BY <1>2, <1>3, <1>4

LEMMA RefinedNew ==
  ASSUME ThrottleInv, NEW k \in Keys, Ask(k), ~StillOpen(Held, k)
  PROVE  Promise!Draw(k) /\ Allowed(Counted(k), k) /\ Used(k) = 0
<1>1. /\ Held' = Beside(k) \union {k} /\ windows'[k] = Counted(k) /\ at' = at
      /\ Counted(k) = [count |-> 1, resetsAt |-> at + Window]
  BY AskNew, AskEffect DEF Ask
<1>2. at \in Nat /\ Attempts[k] \in Nat /\ Attempts[k] >= 1
  BY Constants DEF ThrottleInv, ThrottleTypeOK
<1>3. Allowed(Counted(k), k) /\ Used(k) = 0
  BY <1>1, <1>2 DEF Allowed, Used
<1>4. Used(k)' = 1 /\ Ends(k)' = at + Window
  BY <1>1, <1>2, Constants DEF Used, Ends, StillOpen
<1>5. PICK lost \in IF Cardinality(OpenKeys) < MaxWindows THEN {{}} ELSE {{j} : j \in Promise!Oldest} :
        lost = OpenKeys \ Beside(k)
  BY RoomIsMade
<1>6. ASSUME NEW j \in Keys, j # k
      PROVE  /\ Used(j)' = IF j \in lost THEN 0 ELSE Used(j)
             /\ Ends(j)' = IF j \in lost THEN 0 ELSE Ends(j)
  BY <1>1, <1>5, <1>6, OthersUsed
<1>7. k \notin Promise!InUse
  BY InUseIsOpen DEF OpenKeys
<1>8. /\ [j \in Keys |-> Used(j)]' =
           [j \in Keys |-> IF j = k THEN 1 ELSE IF j \in lost THEN 0 ELSE Used(j)]
      /\ [j \in Keys |-> Ends(j)]' =
           [j \in Keys |-> IF j = k THEN at + Window ELSE IF j \in lost THEN 0 ELSE Ends(j)]
  BY <1>4, <1>6
<1> QED BY <1>3, <1>5, <1>7, <1>8, InUseIsOpen, CountsAlike DEF Promise!Draw

LEMMA RefinedAsk == ASSUME ThrottleInv, NEW k \in Keys, Ask(k) PROVE Promise!Ask(k)
<1>1. Promise!Draw(k) /\ (Allowed(Counted(k), k) <=> Used(k) < Attempts[k])
  BY RefinedOpen, RefinedNew, Constants
<1>2. at' = at /\ said'.key = k /\ said'.allowed = Allowed(Counted(k), k)
  BY DEF Ask
<1>3. Promise!Allows(k) <=> Used(k) < Attempts[k]
  BY DEF Promise!Allows
<1>4. Promise!Allows(k) \in BOOLEAN /\ Allowed(Counted(k), k) \in BOOLEAN
  BY DEF Promise!Allows, Allowed
<1>5. said'.allowed = Promise!Allows(k)
  BY <1>1, <1>2, <1>3, <1>4
<1> QED BY <1>1, <1>2, <1>5 DEF Promise!Ask

\* Sweeping, reinserting and evicting are invisible to the callers: nobody's
\* budget is forgotten unless MAX_WINDOWS budgets are in use at once, and then
\* the one closest to reopening.
THEOREM ThrottleImplementsLimiter == ThrottleSpec => LimiterImplemented
<1>1. ThrottleInv /\ [ThrottleNext]_throttleVars => [Promise!Next]_(Promise!vars)
  <2> SUFFICES ASSUME ThrottleInv, [ThrottleNext]_throttleVars
               PROVE  [Promise!Next]_(Promise!vars)
    OBVIOUS
  <2>1. UNCHANGED throttleVars => UNCHANGED Promise!vars
    BY DEF throttleVars, Promise!vars, Used, Ends, StillOpen, Held
  <2> QED BY <2>1, RefinedTick, RefinedRestart, RefinedAsk DEF ThrottleNext, Promise!Next
<1> QED BY <1>1, RefinedInit, ThrottleAlways, PTL DEF ThrottleSpec, LimiterImplemented, Promise!Spec

-----------------------------------------------------------------------------
(* Nobody gets more than twice the budget in a window's length of time.    *)

LEMMA Remembers ==
  ASSUME NEW g \in Seq(Nat), NEW n \in Nat, n >= 1, Len(g) <= n, NEW a \in Nat,
         NEW new, new = Append(IF Len(g) < n THEN g ELSE Tail(g), a)
  PROVE  \E d \in 0..1 :
           /\ new \in Seq(Nat) /\ Len(new) = Len(g) + 1 - d /\ Len(new) <= n /\ Len(new) >= 1
           /\ Len(g) < n => d = 0
           /\ Len(g) = n => d = 1
           /\ new[Len(new)] = a
           /\ \A i \in 1..(Len(new) - 1) : new[i] = g[i + d] /\ i + d \in 1..Len(g)
<1>1. CASE Len(g) < n
  <2>1. new = Append(g, a)
    BY <1>1
  <2>2. /\ new \in Seq(Nat) /\ Len(new) = Len(g) + 1 /\ new[Len(g) + 1] = a
        /\ \A i \in 1..Len(g) : new[i] = g[i]
    BY <2>1, AppendProperties
  <2>3. \A i \in 1..(Len(new) - 1) : new[i] = g[i + 0] /\ i + 0 \in 1..Len(g)
    BY <2>2
  <2> QED BY <1>1, <2>2, <2>3
<1>2. CASE Len(g) = n
  <2>1. new = Append(Tail(g), a) /\ g # << >>
    BY <1>2
  <2> DEFINE rest == Tail(g)
  <2>2. /\ rest \in Seq(Nat) /\ Len(rest) = Len(g) - 1 /\ Len(g) \in Nat
        /\ \A i \in 1..Len(rest) : rest[i] = g[i + 1]
    BY <2>1, HeadTailProperties
  <2>3. new = Append(rest, a)
    BY <2>1
  <2> HIDE DEF rest
  <2>4. /\ new \in Seq(Nat) /\ Len(new) = Len(Tail(g)) + 1 /\ new[Len(Tail(g)) + 1] = a
        /\ \A i \in 1..Len(Tail(g)) : new[i] = Tail(g)[i]
    BY <2>3, <2>2, AppendProperties
  <2>5. Len(g) \in Nat /\ Len(new) = Len(g) /\ new[Len(new)] = a
    BY <2>2, <2>4
  <2>6. \A i \in 1..(Len(new) - 1) : new[i] = g[i + 1] /\ i + 1 \in 1..Len(g)
    BY <2>2, <2>4, <2>5
  <2> QED BY <1>2, <2>4, <2>5, <2>6
<1> QED BY <1>1, <1>2

\* What a ledger says of n times.
Dated(asked, n, attempts, opened, used) ==
  \A i \in 1..n :
    /\ i > n - used => asked[i] >= opened
    /\ i <= n - used => asked[i] <= opened
    /\ i <= n - used - attempts => asked[i] + Window <= opened

\* The m dates of new are the n of g but the first d, and then a.
Continues(new, m, g, n, d, a) ==
  /\ m = n + 1 - d /\ new[m] = a
  /\ \A i \in 1..(m - 1) : new[i] = g[i + d] /\ i + d \in 1..n
Until(g, n, a) == \A i \in 1..n : g[i] \in Nat /\ g[i] <= a

\* One more in the window that is open.
LEMMA DatedOnceMore ==
  ASSUME NEW g, NEW n \in Nat, NEW new, NEW m \in Nat, NEW d \in 0..1, NEW a \in Nat,
         Continues(new, m, g, n, d, a),
         NEW attempts \in Nat, NEW opened \in 0..a, NEW used \in Nat, Dated(g, n, attempts, opened, used)
  PROVE  Dated(new, m, attempts, opened, used + 1)
<1> SUFFICES ASSUME NEW i \in 1..m
             PROVE  /\ i > m - (used + 1) => new[i] >= opened
                    /\ i <= m - (used + 1) => new[i] <= opened
                    /\ i <= m - (used + 1) - attempts => new[i] + Window <= opened
  BY DEF Dated
<1>1. /\ m = n + 1 - d /\ new[m] = a
      /\ \A j \in 1..(m - 1) : new[j] = g[j + d] /\ j + d \in 1..n
  BY DEF Continues
<1>2. CASE i = m
  BY <1>1, <1>2
<1>3. CASE i < m
  <2>1. i \in 1..(m - 1)
    BY <1>3
  <2>2. new[i] = g[i + d] /\ i + d \in 1..n
    BY <1>1, <2>1
  <2>3. /\ i + d > n - used => g[i + d] >= opened
        /\ i + d <= n - used => g[i + d] <= opened
        /\ i + d <= n - used - attempts => g[i + d] + Window <= opened
    BY <2>2 DEF Dated
  <2> QED BY <1>1, <2>1, <2>2, <2>3
<1> QED BY <1>2, <1>3

\* The first in a window that opens when the one before has closed.
LEMMA DatedAnew ==
  ASSUME NEW g, NEW n \in Nat, NEW new, NEW m \in Nat, NEW d \in 0..1, NEW a \in Nat,
         Continues(new, m, g, n, d, a), Until(g, n, a),
         NEW attempts \in Nat, NEW opened \in 0..a, NEW used \in 1..attempts,
         Dated(g, n, attempts, opened, used), opened + Window <= a
  PROVE  Dated(new, m, attempts, a, 1)
<1> SUFFICES ASSUME NEW i \in 1..m
             PROVE  /\ i > m - 1 => new[i] >= a
                    /\ i <= m - 1 => new[i] <= a
                    /\ i <= m - 1 - attempts => new[i] + Window <= a
  BY DEF Dated
<1>1. /\ m = n + 1 - d /\ new[m] = a
      /\ \A j \in 1..(m - 1) : new[j] = g[j + d] /\ j + d \in 1..n
  BY DEF Continues
<1>2. CASE i = m
  BY <1>1, <1>2
<1>3. CASE i < m
  <2>1. i \in 1..(m - 1)
    BY <1>3
  <2>2. new[i] = g[i + d] /\ i + d \in 1..n
    BY <1>1, <2>1
  <2>3. g[i + d] \in Nat /\ g[i + d] <= a /\ (i + d <= n - used => g[i + d] <= opened)
    BY <2>2 DEF Dated, Until
  <2>4. i <= m - 1 - attempts => i + d <= n - used
    BY <1>1
  <2> QED BY <1>1, <2>1, <2>2, <2>3, <2>4, Constants
<1> QED BY <1>2, <1>3

Tally(k) == IF windows[k].count < Attempts[k] THEN windows[k].count ELSE Attempts[k]

\* When the last window a key was allowed in was opened, and how much of its
\* budget is used: what it was allowed is since then, before then, or a whole
\* window before then.
Ledger(k, opened, used) ==
  /\ Dated(granted[k], Len(granted[k]), Attempts[k], opened, used)
  /\ k \in Held => windows[k].resetsAt = opened + Window /\ used = Tally(k)
  /\ k \notin Held => opened + Window <= at

Accounted(k) ==
  /\ granted[k] \in Seq(Nat) /\ Len(granted[k]) <= Remembered(k)
  /\ \A i \in 1..Len(granted[k]) : granted[k][i] <= at
  /\ Len(granted[k]) = 0 => k \notin Held
  /\ Len(granted[k]) > 0 =>
       \E opened \in 0..at, used \in 1..Attempts[k] :
         used <= Len(granted[k]) /\ Ledger(k, opened, used)

BudgetInv ==
  /\ ThrottleInv
  /\ \A k \in Keys : Accounted(k)

LEMMA Recall == \A k \in Keys : Remembered(k) \in Nat /\ Remembered(k) = 2 * Attempts[k] + 1
BY Constants DEF Remembered

\* What an ask of k does to the record of k.
LEMMA AskerFacts ==
  ASSUME BudgetInv, NEW k \in Keys, BudgetAsk(k)
  PROVE  /\ Accounted(k) /\ Ask(k) /\ at' = at /\ at \in Nat
         /\ k \in Held' /\ windows'[k] = Counted(k)
         /\ said'.allowed = Allowed(Counted(k), k)
         /\ granted'[k] = IF said'.allowed
                          THEN Append(IF Len(granted[k]) < Remembered(k)
                                      THEN granted[k] ELSE Tail(granted[k]), at)
                          ELSE granted[k]
<1>1. ThrottleInv /\ Accounted(k) /\ Ask(k)
  BY DEF BudgetInv, BudgetAsk
<1>2. at' = at /\ said'.allowed = Allowed(Counted(k), k)
  BY <1>1 DEF Ask
<1>3. at \in Nat
  BY <1>1, Constants DEF ThrottleInv, ThrottleTypeOK
<1>4. k \in Held' /\ windows'[k] = Counted(k)
  BY <1>1, AskEffect
<1>5. granted'[k] = Granted(k)
  BY DEF BudgetAsk
<1> QED BY <1>1, <1>2, <1>3, <1>4, <1>5 DEF Granted

\* k is allowed: its record with the new date, of which it forgets d.
LEMMA AskerAllowed ==
  ASSUME BudgetInv, NEW k \in Keys, BudgetAsk(k), said'.allowed
  PROVE  \E d \in 0..1 :
           LET n == Len(granted[k])
               m == Len(granted'[k])
           IN  /\ granted'[k] \in Seq(Nat) /\ n \in Nat /\ m \in Nat /\ m = n + 1 - d
               /\ m <= Remembered(k) /\ m >= 1 /\ granted'[k][m] = at
               /\ n < Remembered(k) => d = 0
               /\ n = Remembered(k) => d = 1
               /\ \A i \in 1..(m - 1) : granted'[k][i] = granted[k][i + d] /\ i + d \in 1..n
               /\ \A i \in 1..n : granted[k][i] \in Nat /\ granted[k][i] <= at
               /\ \A i \in 1..m : granted'[k][i] <= at
<1> DEFINE g == granted[k]
           new == granted'[k]
<1>1. g \in Seq(Nat) /\ Len(g) <= Remembered(k) /\ \A i \in 1..Len(g) : g[i] <= at
  BY AskerFacts DEF Accounted
<1>2. at \in Nat /\ new = Append(IF Len(g) < Remembered(k) THEN g ELSE Tail(g), at)
  BY AskerFacts
<1>3. Remembered(k) \in Nat /\ Remembered(k) >= 1
  BY Recall, Constants
<1> HIDE DEF g, new
<1>4. PICK d \in 0..1 :
        /\ new \in Seq(Nat) /\ Len(new) = Len(g) + 1 - d
        /\ Len(new) <= Remembered(k) /\ Len(new) >= 1
        /\ Len(g) < Remembered(k) => d = 0
        /\ Len(g) = Remembered(k) => d = 1
        /\ new[Len(new)] = at
        /\ \A i \in 1..(Len(new) - 1) : new[i] = g[i + d] /\ i + d \in 1..Len(g)
  BY <1>1, <1>2, <1>3, Remembers
<1>5. Len(g) \in Nat /\ Len(new) \in Nat
  BY <1>1, <1>4, LenProperties
<1>6. \A i \in 1..Len(g) : g[i] \in Nat /\ g[i] <= at
  BY <1>1, ElementOfSeq
<1>7. ASSUME NEW i \in 1..Len(new) PROVE new[i] <= at
  <2>1. CASE i = Len(new)
    BY <1>2, <1>4, <2>1
  <2>2. CASE i # Len(new)
    <3>1. i \in 1..(Len(new) - 1)
      BY <1>5, <2>2
    <3> QED BY <1>4, <1>6, <3>1
  <2> QED BY <2>1, <2>2
<1> QED BY <1>4, <1>5, <1>6, <1>7 DEF g, new

\* An account opened anew, or gone on with, is an account.
LEMMA AskerBooked ==
  ASSUME BudgetInv, NEW k \in Keys, BudgetAsk(k), said'.allowed,
         NEW opened \in 0..at, NEW used \in 1..Attempts[k], used <= Len(granted'[k]),
         Dated(granted'[k], Len(granted'[k]), Attempts[k], opened, used),
         Counted(k).resetsAt = opened + Window,
         used = IF Counted(k).count < Attempts[k] THEN Counted(k).count ELSE Attempts[k]
  PROVE  Accounted(k)'
<1>1. at' = at /\ k \in Held' /\ windows'[k] = Counted(k)
  BY AskerFacts
<1>2. Tally(k)' = used /\ Remembered(k)' = Remembered(k)
  BY <1>1 DEF Tally, Remembered
<1>3. Ledger(k, opened, used)'
  BY <1>1, <1>2 DEF Ledger, Dated
<1>4. /\ granted'[k] \in Seq(Nat) /\ Len(granted'[k]) <= Remembered(k)
      /\ Len(granted'[k]) \in Nat /\ Len(granted'[k]) >= 1
      /\ \A i \in 1..Len(granted'[k]) : granted'[k][i] <= at
  BY AskerAllowed
<1>5. Len(granted'[k]) # 0
  BY <1>4
<1>6. \E o \in 0..at', u \in 1..Attempts[k] : u <= Len(granted'[k]) /\ Ledger(k, o, u)'
  BY <1>1, <1>3
<1> QED BY <1>1, <1>2, <1>4, <1>5, <1>6 DEF Accounted

\* The key that asks has no open window: it is allowed, in a new one.
LEMMA AskerOpens ==
  ASSUME BudgetInv, NEW k \in Keys, BudgetAsk(k), ~StillOpen(Held, k)
  PROVE  Accounted(k)'
<1>1. Attempts[k] \in Nat /\ Attempts[k] >= 1 /\ at \in Nat /\ Accounted(k)
  BY Constants, AskerFacts
<1>2. Counted(k) = [count |-> 1, resetsAt |-> at + Window]
  BY AskerFacts, AskNew
<1>3. Counted(k).count = 1 /\ Counted(k).resetsAt = at + Window /\ said'.allowed
  <2>1. Counted(k).count = 1 /\ Counted(k).resetsAt = at + Window
    BY <1>2
  <2>2. Allowed(Counted(k), k)
    BY <1>1, <2>1 DEF Allowed
  <2> QED BY <2>1, <2>2, AskerFacts
<1> DEFINE g == granted[k]
           new == granted'[k]
           n == Len(g)
           m == Len(new)
<1>4. PICK d \in 0..1 :
        /\ n \in Nat /\ m \in Nat /\ m = n + 1 - d /\ m >= 1 /\ new[m] = at
        /\ n < Remembered(k) => d = 0
        /\ \A i \in 1..(m - 1) : new[i] = g[i + d] /\ i + d \in 1..n
        /\ \A i \in 1..n : g[i] \in Nat /\ g[i] <= at
  BY <1>3, AskerAllowed
<1>5. n > 0 => \E opened \in 0..at, used \in 1..Attempts[k] : Ledger(k, opened, used)
  BY <1>1 DEF Accounted
<1>6. Remembered(k) \in Nat /\ Remembered(k) >= 1
  BY Constants, Recall
<1>7. \A opened \in 0..at, used \in 1..Attempts[k] :
        Ledger(k, opened, used) =>
          Dated(g, n, Attempts[k], opened, used) /\ opened + Window <= at
  <2> SUFFICES ASSUME NEW opened \in 0..at, NEW used \in 1..Attempts[k], Ledger(k, opened, used)
               PROVE  Dated(g, n, Attempts[k], opened, used) /\ opened + Window <= at
    OBVIOUS
  <2>1. Dated(g, n, Attempts[k], opened, used)
    BY DEF Ledger
  <2>2. CASE k \in Held
    BY <1>1, <2>2, Constants DEF Ledger, StillOpen
  <2>3. CASE k \notin Held
    BY <2>3 DEF Ledger
  <2> QED BY <2>1, <2>2, <2>3
<1>8. Continues(new, m, g, n, d, at) /\ Until(g, n, at) /\ n \in Nat /\ m \in Nat
  BY <1>4 DEF Continues, Until
<1> HIDE DEF g, new, n, m
<1>9. Dated(new, m, Attempts[k], at, 1)
  <2>1. CASE n = 0
    <3>1. m = 1
      BY <1>4, <1>6, <2>1
    <3> QED BY <1>1, <1>4, <3>1 DEF Dated
  <2>2. CASE n > 0
    <3>1. PICK opened \in 0..at, used \in 1..Attempts[k] :
            Dated(g, n, Attempts[k], opened, used) /\ opened + Window <= at
      BY <1>5, <1>7, <2>2
    <3>2. Attempts[k] \in Nat /\ at \in Nat
      BY <1>1
    <3> QED BY <1>8, <3>1, <3>2, DatedAnew
  <2> QED BY <1>4, <2>1, <2>2
<1>10. 1 \in 1..Attempts[k] /\ 1 <= m /\ at \in 0..at
  BY <1>1, <1>4
<1>11. 1 = IF Counted(k).count < Attempts[k] THEN Counted(k).count ELSE Attempts[k]
  BY <1>1, <1>3
<1> QED BY <1>3, <1>9, <1>10, <1>11, AskerBooked DEF new, m

\* The key that asks has an open window, which it is counted in.
LEMMA AskerGoesOn ==
  ASSUME BudgetInv, NEW k \in Keys, BudgetAsk(k), StillOpen(Held, k)
  PROVE  Accounted(k)'
<1>1. /\ Attempts[k] \in Nat /\ Attempts[k] >= 1 /\ at \in Nat /\ Accounted(k) /\ k \in Held
      /\ at' = at /\ k \in Held' /\ windows'[k] = Counted(k)
  BY Constants, AskerFacts DEF StillOpen
<1>2. windows[k] \in Entries
  BY <1>1 DEF BudgetInv, ThrottleInv, ThrottleTypeOK, Entries
<1>3. Counted(k) = [windows[k] EXCEPT !.count = @ + 1]
  BY AskerFacts, AskOpen
<1>4. /\ Counted(k).count = windows[k].count + 1 /\ Counted(k).resetsAt = windows[k].resetsAt
      /\ windows[k].count \in Nat /\ windows[k].count >= 1
  BY <1>2, <1>3, Constants DEF Entries
<1>5. Len(granted[k]) \in Nat /\ Len(granted[k]) > 0
  BY <1>1, LenProperties DEF Accounted
<1>6. PICK opened \in 0..at, used \in 1..Attempts[k] :
        used <= Len(granted[k]) /\ Ledger(k, opened, used)
  BY <1>1, <1>5 DEF Accounted
<1>7. /\ Dated(granted[k], Len(granted[k]), Attempts[k], opened, used)
      /\ windows[k].resetsAt = opened + Window /\ used = Tally(k)
  BY <1>1, <1>6 DEF Ledger
<1>8. said'.allowed <=> windows[k].count + 1 <= Attempts[k]
  BY <1>4, AskerFacts DEF Allowed
<1>9. CASE said'.allowed
  <2>1. /\ used = windows[k].count /\ used + 1 \in 1..Attempts[k]
        /\ used + 1 = IF Counted(k).count < Attempts[k] THEN Counted(k).count ELSE Attempts[k]
    BY <1>1, <1>4, <1>7, <1>8, <1>9 DEF Tally
  <2> DEFINE g == granted[k]
             new == granted'[k]
             n == Len(g)
             m == Len(new)
  <2>2. PICK d \in 0..1 :
          /\ n \in Nat /\ m \in Nat /\ m = n + 1 - d /\ new[m] = at
          /\ m <= Remembered(k)
          /\ n < Remembered(k) => d = 0
          /\ n = Remembered(k) => d = 1
          /\ \A i \in 1..(m - 1) : new[i] = g[i + d] /\ i + d \in 1..n
    BY <1>9, AskerAllowed
  <2>3. n <= Remembered(k) /\ used <= n /\ Dated(g, n, Attempts[k], opened, used)
    BY <1>1, <1>6, <1>7 DEF Accounted
  <2>4. Remembered(k) \in Nat /\ Remembered(k) = 2 * Attempts[k] + 1
    BY Recall
  <2>5. Continues(new, m, g, n, d, at) /\ used \in Nat
    BY <1>1, <2>2 DEF Continues
  <2> HIDE DEF g, new, n, m
  <2>6. Dated(new, m, Attempts[k], opened, used + 1)
    BY <1>1, <2>2, <2>3, <2>5, DatedOnceMore
  <2>7. used + 1 <= m
    BY <1>1, <2>1, <2>2, <2>3, <2>4
  <2>8. Counted(k).resetsAt = opened + Window
    BY <1>4, <1>7
  <2> QED BY <1>9, <2>1, <2>6, <2>7, <2>8, AskerBooked DEF new, m
<1>10. CASE ~said'.allowed
  <2>1. granted'[k] = granted[k]
    BY <1>10, AskerFacts
  <2>2. used = Attempts[k] /\ Tally(k)' = Attempts[k]
    BY <1>1, <1>4, <1>7, <1>8, <1>10 DEF Tally
  <2>3. Ledger(k, opened, used)'
    BY <1>1, <1>4, <1>7, <2>1, <2>2 DEF Ledger, Dated
  <2>4. \E o \in 0..at', u \in 1..Attempts[k] : u <= Len(granted'[k]) /\ Ledger(k, o, u)'
    BY <1>1, <1>6, <2>1, <2>3
  <2>5. Len(granted'[k]) # 0 /\ Remembered(k)' = Remembered(k)
    BY <1>5, <2>1 DEF Remembered
  <2> QED BY <1>1, <2>1, <2>4, <2>5 DEF Accounted
<1> QED BY <1>9, <1>10

LEMMA AskerAccounted ==
  ASSUME BudgetInv, NEW k \in Keys, BudgetAsk(k) PROVE Accounted(k)'
BY AskerOpens, AskerGoesOn

\* The others, whose windows stay, are swept, or make room.
LEMMA OthersAccounted ==
  ASSUME BudgetInv, NEW k \in Keys, BudgetAsk(k), NEW j \in Keys, j # k PROVE Accounted(j)'
<1>1. ThrottleInv /\ Accounted(j) /\ Ask(k) /\ at' = at /\ at \in Nat
  BY AskerFacts DEF BudgetInv
<1>2. /\ granted'[j] = IF Dropped(j) THEN << >> ELSE granted[j]
      /\ j \in Held' => j \in Held /\ windows'[j] = windows[j]
  BY <1>1, AskEffect DEF BudgetAsk
<1>3. CASE Dropped(j)
  <2>1. granted'[j] = << >> /\ j \notin Held'
    BY <1>1, <1>2, <1>3 DEF Dropped
  <2>2. Remembered(j)' \in Nat
    BY Recall DEF Remembered
  <2> QED BY <2>1, <2>2 DEF Accounted
<1>4. CASE ~Dropped(j)
  <2>1. granted'[j] = granted[j] /\ (j \in Held /\ j \notin Held' => ~StillOpen(Held, j))
    BY <1>1, <1>2, <1>4 DEF Dropped
  <2>2. ASSUME NEW opened \in 0..at, NEW used, Ledger(j, opened, used)
        PROVE  Ledger(j, opened, used)'
    <3>1. CASE j \in Held'
      BY <1>1, <1>2, <2>1, <2>2, <3>1 DEF Ledger, Dated, Tally
    <3>2. CASE j \notin Held'
      <4>1. opened + Window <= at
        BY <1>1, <1>2, <2>1, <2>2, <3>2, Constants DEF Ledger, StillOpen
      <4> QED BY <1>1, <1>2, <2>1, <2>2, <3>2, <4>1 DEF Ledger, Dated
    <3> QED BY <3>1, <3>2
  <2> QED BY <1>1, <1>2, <2>1, <2>2 DEF Accounted, Remembered
<1> QED BY <1>3, <1>4

LEMMA BudgetStep == BudgetInv /\ [BudgetNext]_<<throttleVars, granted>> => BudgetInv'
<1> SUFFICES ASSUME BudgetInv, [BudgetNext]_<<throttleVars, granted>> PROVE BudgetInv'
  OBVIOUS
<1>1. ThrottleInv'
  BY ThrottleStep DEF BudgetInv, BudgetNext, BudgetAsk, ThrottleNext
<1>2. ASSUME UNCHANGED <<windows, granted>>, at \in Nat, at' \in Nat, at <= at', NEW k \in Keys
      PROVE  Accounted(k)'
  <2>1. Accounted(k) /\ Held' = Held /\ granted'[k] = granted[k] /\ Remembered(k)' = Remembered(k)
    BY <1>2 DEF BudgetInv, Held, Remembered
  <2>2. \A i \in 1..Len(granted[k]) : granted'[k][i] <= at'
    BY <1>2, <2>1 DEF Accounted
  <2>3. ASSUME NEW opened \in 0..at, NEW used, Ledger(k, opened, used)
        PROVE  Ledger(k, opened, used)' /\ opened \in 0..at'
    BY <1>2, <2>1, <2>3, Constants DEF Ledger, Dated, Tally
  <2> QED BY <2>1, <2>2, <2>3 DEF Accounted
<1>3. CASE ClockTicks /\ UNCHANGED granted
  <2>1. at \in Nat /\ at' \in Nat /\ at <= at' /\ UNCHANGED windows
    BY <1>3, Constants DEF ClockTicks, BudgetInv, ThrottleInv, ThrottleTypeOK
  <2> QED BY <1>1, <1>2, <1>3, <2>1 DEF BudgetInv
<1>4. CASE Restart /\ granted' = [k \in Keys |-> << >>]
  <2>1. Held' = {}
    BY <1>4 DEF Restart, Held
  <2>2. ASSUME NEW k \in Keys PROVE Accounted(k)'
    <3>1. granted'[k] = << >> /\ Remembered(k)' \in Nat
      BY <1>4, Recall DEF Remembered
    <3> QED BY <2>1, <3>1 DEF Accounted
  <2> QED BY <1>1, <2>2 DEF BudgetInv
<1>5. ASSUME NEW k \in Keys, BudgetAsk(k) PROVE BudgetInv'
  BY <1>1, <1>5, AskerAccounted, OthersAccounted DEF BudgetInv
<1>6. CASE UNCHANGED <<throttleVars, granted>>
  <2>1. at \in Nat /\ at' = at /\ UNCHANGED <<windows, granted>>
    BY <1>6 DEF throttleVars, BudgetInv, ThrottleInv, ThrottleTypeOK
  <2> QED BY <1>1, <1>2, <2>1 DEF BudgetInv
<1> QED BY <1>3, <1>4, <1>5, <1>6 DEF BudgetNext

\* "A client that spends a budget in the last second of one window and the
\* first of the next gets twice the budget", and never more than twice in any
\* stretch of time as long as a window.
THEOREM TwiceTheBudgetAtMostAlways == BudgetSpec => []TwiceTheBudgetAtMost
<1>1. BudgetInit => BudgetInv
  <2> SUFFICES ASSUME BudgetInit PROVE BudgetInv
    OBVIOUS
  <2>1. ThrottleInv /\ Held = {}
    BY InitThrottle DEF BudgetInit, ThrottleInit, Held
  <2>2. ASSUME NEW k \in Keys PROVE Accounted(k)
    <3>1. granted[k] = << >> /\ Remembered(k) \in Nat
      BY Recall DEF BudgetInit
    <3> QED BY <2>1, <3>1 DEF Accounted
  <2> QED BY <2>1, <2>2 DEF BudgetInv
<1>2. BudgetInv => TwiceTheBudgetAtMost
  <2> SUFFICES ASSUME BudgetInv, NEW k \in Keys, Len(granted[k]) = Remembered(k)
               PROVE  granted[k][Remembered(k)] - granted[k][1] >= Window
    BY DEF TwiceTheBudgetAtMost
  <2>1. /\ Attempts[k] \in Nat /\ Attempts[k] >= 1
        /\ Remembered(k) \in Nat /\ Remembered(k) = 2 * Attempts[k] + 1
    BY Constants, Recall
  <2>2. granted[k] \in Seq(Nat) /\ Len(granted[k]) > 0
    BY <2>1 DEF BudgetInv, Accounted
  <2>3. PICK opened \in 0..at, used \in 1..Attempts[k] : Ledger(k, opened, used)
    BY <2>2 DEF BudgetInv, Accounted
  <2>4. 1 <= Remembered(k) - used - Attempts[k] /\ Remembered(k) > Remembered(k) - used
    BY <2>1
  <2>5. 1 \in 1..Len(granted[k]) /\ Remembered(k) \in 1..Len(granted[k])
    BY <2>1
  <2>6. Dated(granted[k], Remembered(k), Attempts[k], opened, used)
    BY <2>3 DEF Ledger
  <2>7. granted[k][1] + Window <= opened /\ granted[k][Remembered(k)] >= opened
    BY <2>4, <2>5, <2>6 DEF Dated
  <2>8. granted[k][1] \in Nat /\ granted[k][Remembered(k)] \in Nat /\ opened \in Int
    BY <2>2, <2>5, ElementOfSeq
  <2> QED BY <2>7, <2>8, Constants
<1> QED BY <1>1, <1>2, BudgetStep, PTL DEF BudgetSpec
==============================================================================
