-------------------------------- MODULE Limiter --------------------------------
(***************************************************************************)
(* What a throttle promises to whoever asks it: each key draws on a budget *)
(* that a fixed window refills, and a budget is forgotten only when more   *)
(* of them are in use than the throttle can hold, and then the one closest *)
(* to being refilled.  MemoryThrottle is shown to implement it.            *)
(***************************************************************************)
EXTENDS Naturals, FiniteSets

CONSTANTS Keys,
          Attempts,   \* how often each key is allowed in one window
          Window,     \* how long a window stays open
          Capacity,   \* how many windows are held at once
          MaxTime     \* bound: the clock

VARIABLES at,         \* the clock
          spent,      \* attempts each key has used of its open window, 0 when none is open
          resetsAt,   \* when each open window closes
          said        \* the last answer given
vars == <<at, spent, resetsAt, said>>

InUse == {k \in Keys : spent[k] > 0}
Allows(k) == spent[k] < Attempts[k]

Init ==
  /\ at = 0
  /\ spent = [k \in Keys |-> 0]
  /\ resetsAt = [k \in Keys |-> 0]
  /\ said = [key |-> CHOOSE k \in Keys : TRUE, allowed |-> TRUE]

\* The windows closest to being refilled.
Oldest == {j \in InUse : \A i \in InUse : resetsAt[j] <= resetsAt[i]}

\* One more ask of k, opening its window if none is open.
Draw(k) ==
  \/ /\ k \in InUse
     /\ spent' = IF Allows(k) THEN [spent EXCEPT ![k] = @ + 1] ELSE spent
     /\ UNCHANGED resetsAt
  \/ /\ k \notin InUse
     /\ \E lost \in IF Cardinality(InUse) < Capacity THEN {{}} ELSE {{j} : j \in Oldest} :
          /\ spent' = [j \in Keys |-> IF j = k THEN 1 ELSE IF j \in lost THEN 0 ELSE spent[j]]
          /\ resetsAt' = [j \in Keys |-> IF j = k THEN at + Window
                                         ELSE IF j \in lost THEN 0 ELSE resetsAt[j]]

Ask(k) ==
  /\ Draw(k)
  /\ said' = [key |-> k, allowed |-> Allows(k)]
  /\ UNCHANGED at

\* Time passes, and windows close.
Tick ==
  /\ at < MaxTime
  /\ at' = at + 1
  /\ spent' = [k \in Keys |-> IF resetsAt[k] > at + 1 THEN spent[k] ELSE 0]
  /\ resetsAt' = [k \in Keys |-> IF resetsAt[k] > at + 1 THEN resetsAt[k] ELSE 0]
  /\ UNCHANGED said

\* The process starts again and remembers nothing.
Forget ==
  /\ spent' = [k \in Keys |-> 0]
  /\ resetsAt' = [k \in Keys |-> 0]
  /\ UNCHANGED <<at, said>>

Next == Tick \/ Forget \/ \E k \in Keys : Ask(k)

Spec == Init /\ [][Next]_vars
==============================================================================
