----------------------------- MODULE MemoryThrottle -----------------------------
(***************************************************************************)
(* memoryThrottle (apps/web/src/server/throttle.ts): a Map of fixed        *)
(* windows in the order they were opened, swept now and then, with a       *)
(* ceiling past which the first of the map makes room.                     *)
(***************************************************************************)
EXTENDS Integers, FiniteSets

CONSTANTS Keys, Attempts,
          Window,          \* windowSeconds, the same for every limit
          SweepAbove,      \* SWEEP_ABOVE
          SweepEvery,      \* SWEEP_EVERY_MS
          MaxWindows,      \* MAX_WINDOWS
          Second,          \* ticks of the clock in a second
          MostAsks,        \* bound: asks counted in one window
          MaxTime          \* bound: the clock

ASSUME ThrottleAssumption ==
  /\ Keys # {} /\ Attempts \in [Keys -> Nat \ {0}]
  /\ {Window, MaxWindows, Second, SweepEvery} \subseteq Nat \ {0}
  /\ {SweepAbove, MostAsks, MaxTime} \subseteq Nat

VARIABLES at,        \* Date.now()
          windows,   \* the Map: the keys it holds, to what it holds of them
          order,     \* its insertion order: who was inserted before whom
          sweptAt,
          said       \* the last answer given
throttleVars == <<at, windows, order, sweptAt, said>>

Held == DOMAIN windows

ThrottleTypeOK ==
  /\ at \in 0..MaxTime
  /\ Held \subseteq Keys /\ Cardinality(Held) <= MaxWindows
  /\ windows \in [Held -> [count : 1..MostAsks, resetsAt : 1..(MaxTime + Window)]]
  /\ order \subseteq Held \X Held
  /\ sweptAt \in (-SweepEvery)..at
  /\ said \in [key : Keys, allowed : BOOLEAN, comeBack : 0..(MaxTime + Window + Second)]

ThrottleInit ==
  /\ at = 0
  /\ windows = << >> /\ order = {}
  /\ sweptAt = -SweepEvery        \* NEGATIVE_INFINITY: the first sweep is not held up
  /\ said = [key |-> CHOOSE k \in Keys : TRUE, allowed |-> TRUE, comeBack |-> 0]

Due == Cardinality(Held) > SweepAbove /\ at - sweptAt >= SweepEvery

\* Wrong on purpose: the sweep also takes windows that close at the next tick.
SweptEarly == IF Due THEN {k \in Held : windows[k].resetsAt > at + 1} ELSE Held
\* The keys a sweep leaves.
Swept == IF Due THEN {k \in Held : windows[k].resetsAt > at} ELSE Held

StillOpen(ids, k) == k \in ids /\ windows[k].resetsAt > at

\* Wrong on purpose: no ceiling.
EvictedNone(ids) == ids
\* At the ceiling the first key of the map makes room.
Firsts(ids) == {k \in ids : \A j \in ids : <<j, k>> \notin order}
Evicted(ids) == IF Cardinality(ids) >= MaxWindows THEN ids \ Firsts(ids) ELSE ids

Among(ids) == order \intersect (ids \X ids)

\* Wrong on purpose: a closed window is reopened where it is.
InsertedInPlace(ids, k) ==
  IF k \in Held THEN Among(ids \union {k}) ELSE Among(ids) \union (ids \X {k})
\* The order with k set after ids. A window that closed is deleted first, so
\* the map's order is the order windows opened.
Inserted(ids, k) == Among(ids) \union (ids \X {k})

\* Wrong on purpose: rounded down.
ComeBackFloor(w) == at + (IF w.resetsAt - at >= Second THEN (w.resetsAt - at) \div Second ELSE 1) * Second
\* tooManyAttempts: whole seconds, rounded up, at least one.
ComeBack(w) ==
  LET seconds == (w.resetsAt - at + Second - 1) \div Second
  IN  at + (IF seconds >= 1 THEN seconds ELSE 1) * Second

\* Wrong on purpose: one attempt too many.
AllowedOneMore(w, k) == w.count <= Attempts[k] + 1
Allowed(w, k) == w.count <= Attempts[k]

\* The window an ask of k is counted in.
Counted(k) ==
  IF StillOpen(Swept, k) THEN [windows[k] EXCEPT !.count = @ + 1]
  ELSE [count |-> 1, resetsAt |-> at + Window]

Ask(k) ==
  LET open == StillOpen(Swept, k)
      rest == IF open THEN Swept \ {k} ELSE Evicted(Swept \ {k})
      w == Counted(k)
  IN  /\ w.count <= MostAsks
      /\ windows' = [j \in rest \union {k} |-> IF j = k THEN w ELSE windows[j]]
      /\ order' = IF open THEN Among(Swept) ELSE Inserted(rest, k)
      /\ sweptAt' = IF Due THEN at ELSE sweptAt
      /\ said' = [key |-> k, allowed |-> Allowed(w, k),
                  comeBack |-> IF Allowed(w, k) THEN 0 ELSE ComeBack(w)]
      /\ UNCHANGED at

ClockTicks ==
  /\ at < MaxTime
  /\ at' = at + 1
  /\ UNCHANGED <<windows, order, sweptAt, said>>

\* "a restart forgets them all".
Restart ==
  /\ windows' = << >> /\ order' = {}
  /\ sweptAt' = -SweepEvery
  /\ UNCHANGED <<at, said>>

ThrottleNext == ClockTicks \/ Restart \/ \E k \in Keys : Ask(k)

ThrottleSpec == ThrottleInit /\ [][ThrottleNext]_throttleVars

-----------------------------------------------------------------------------
(* Properties.                                                             *)

\* A refused caller who waits as long as Retry-After says finds the window
\* reopened.
RetryAfterSuffices ==
  ~said.allowed /\ said.key \in Held => windows[said.key].resetsAt <= said.comeBack

\* What is used of a key's budget while its window is open, and its end.
Used(k) ==
  IF ~StillOpen(Held, k) THEN 0
  ELSE IF windows[k].count < Attempts[k] THEN windows[k].count ELSE Attempts[k]
Ends(k) == IF StillOpen(Held, k) THEN windows[k].resetsAt ELSE 0

Promise == INSTANCE Limiter
             WITH Capacity <- MaxWindows,
                  spent <- [k \in Keys |-> Used(k)],
                  resetsAt <- [k \in Keys |-> Ends(k)],
                  said <- [key |-> said.key, allowed |-> said.allowed]

\* Sweeping, reinserting and evicting are invisible to the callers: nobody's
\* budget is forgotten unless MAX_WINDOWS budgets are in use at once, and then
\* the one closest to reopening.
LimiterImplemented == Promise!Spec
==============================================================================
