---------------------------- MODULE ThrottleBudget ----------------------------
(***************************************************************************)
(* MemoryThrottle with a memory of what it allowed under each budget.      *)
(***************************************************************************)
EXTENDS MemoryThrottle, Sequences

VARIABLE granted   \* when each key was last allowed, most recent last, since a
                   \* restart or the ceiling last made the throttle forget it

Remembered(k) == 2 * Attempts[k] + 1

BudgetInit == ThrottleInit /\ granted = [k \in Keys |-> << >>]

Granted(k) ==
  IF ~said'.allowed THEN granted[k]
  ELSE Append(IF Len(granted[k]) < Remembered(k) THEN granted[k] ELSE Tail(granted[k]), at)

\* The ceiling dropped the window of j while it was open.
Dropped(j) == StillOpen(Held, j) /\ j \notin Held'

BudgetAsk(k) ==
  /\ Ask(k)
  /\ granted' = [j \in Keys |-> IF j = k THEN Granted(j)
                                ELSE IF Dropped(j) THEN << >> ELSE granted[j]]

BudgetNext ==
  \/ ClockTicks /\ UNCHANGED granted
  \/ Restart /\ granted' = [k \in Keys |-> << >>]
  \/ \E k \in Keys : BudgetAsk(k)

BudgetSpec == BudgetInit /\ [][BudgetNext]_<<throttleVars, granted>>

\* "A client that spends a budget in the last second of one window and the
\* first of the next gets twice the budget", and never more than twice in any
\* stretch of time as long as a window, however often sweeps and reopenings
\* move its window about the map.
TwiceTheBudgetAtMost ==
  \A k \in Keys : Len(granted[k]) = Remembered(k) =>
    granted[k][Remembered(k)] - granted[k][1] >= Window
==============================================================================
