--------------------------- MODULE ServiceLifecycle ---------------------------
(***************************************************************************)
(* The API service from start to exit (services/api/src/main.ts,           *)
(* server/service.ts): it listens, answers requests that each borrow a     *)
(* client of the pool, and on a signal drains its connections, for a grace *)
(* period at most, and then ends the pool.  The process exits when nothing *)
(* is left open.                                                           *)
(***************************************************************************)
EXTENDS Naturals, FiniteSets

CONSTANTS Connections,   \* sockets clients may open, each used for one request at a time
          Clients,       \* the pool's max
          Signals        \* {"SIGTERM", "SIGINT"}

ASSUME ServiceAssumption ==
  Clients \in Nat \ {0} /\ IsFiniteSet(Connections) /\ IsFiniteSet(Signals)

VARIABLES process,    \* "up", "exited" or "killed"
          exitCode,
          phase,      \* of the service
          received,   \* the signals whose handler has run
          pending,    \* calls of stop that wait for the drain
          overdue,    \* the grace period has ended
          pool,       \* "open", "ending" or "ended"
          socket,     \* per connection
          handler     \* per connection, what its request is at
vars == <<process, exitCode, phase, received, pending, overdue, pool, socket, handler>>

Phases == {"starting", "listening", "draining", "stopped", "failed"}
Handlers == {"none", "authenticating", "queued", "borrowing", "refused", "answering"}

TypeOK ==
  /\ process \in {"up", "exited", "killed"} /\ exitCode \in {0, 1}
  /\ phase \in Phases /\ received \subseteq Signals
  /\ pending \in 0..Cardinality(Signals) /\ overdue \in BOOLEAN
  /\ pool \in {"open", "ending", "ended"}
  /\ socket \in [Connections -> {"none", "idle", "active", "cut"}]
  /\ handler \in [Connections -> Handlers]
  /\ Cardinality({c \in Connections : handler[c] = "borrowing"}) <= Clients

Init ==
  /\ process = "up" /\ exitCode = 0 /\ phase = "starting" /\ received = {}
  /\ pending = 0 /\ overdue = FALSE /\ pool = "open"
  /\ socket = [c \in Connections |-> "none"]
  /\ handler = [c \in Connections |-> "none"]

Lent == {c \in Connections : handler[c] = "borrowing"}
Open == {c \in Connections : socket[c] \in {"idle", "active"}}

Free == Cardinality(Lent) < Clients
service == <<process, exitCode, phase, received, pending, overdue>>

-----------------------------------------------------------------------------
(* Starting.                                                               *)

Listens ==
  /\ process = "up" /\ phase = "starting"
  /\ phase' = "listening"
  /\ UNCHANGED <<process, exitCode, received, pending, overdue, pool, socket, handler>>

\* The environment is invalid, or the port is taken.
CannotStart ==
  /\ process = "up" /\ phase = "starting"
  /\ process' = "exited" /\ exitCode' = 1 /\ phase' = "failed"
  /\ UNCHANGED <<received, pending, overdue, pool, socket, handler>>

-----------------------------------------------------------------------------
(* Requests.                                                               *)

\* Over a new connection while the service listens, or over one that is kept
\* alive, which a drain has not yet closed.
Request(c) ==
  /\ process = "up"
  /\ handler[c] = "none"
  /\ \/ phase = "listening" /\ socket[c] # "active"
     \/ phase = "draining" /\ socket[c] = "idle"
  /\ socket' = [socket EXCEPT ![c] = "active"]
  /\ handler' = [handler EXCEPT ![c] = "authenticating"]
  /\ UNCHANGED <<service, pool>>

\* Answered without the database, or pool.connect.
Authenticated(c) ==
  /\ process = "up" /\ handler[c] = "authenticating"
  /\ \E next \in {"answering",
                  IF pool # "open" THEN "refused"
                  ELSE IF Free THEN "borrowing" ELSE "queued"} :
       handler' = [handler EXCEPT ![c] = next]
  /\ UNCHANGED <<service, pool, socket>>

\* A client is handed to a request that waits for one; an ending pool hands
\* out no more.
Lend(c) ==
  /\ process = "up" /\ handler[c] = "queued"
  /\ pool = "open" /\ Free
  /\ handler' = [handler EXCEPT ![c] = "borrowing"]
  /\ UNCHANGED <<service, pool, socket>>

\* withPrincipal settles and releases its client.
Release(c) ==
  /\ process = "up" /\ handler[c] = "borrowing"
  /\ handler' = [handler EXCEPT ![c] = "answering"]
  /\ UNCHANGED <<service, pool, socket>>

\* The answer has been written, a refusal as a 500, as far as the client reads
\* it; the connection is kept alive.
Answer(c) ==
  /\ process = "up" /\ handler[c] \in {"answering", "refused"}
  /\ handler' = [handler EXCEPT ![c] = "none"]
  /\ socket' = [socket EXCEPT ![c] = IF @ = "active" THEN "idle" ELSE "none"]
  /\ UNCHANGED <<service, pool>>

\* keepAliveTimeout, or the client closes.
Closes(c) ==
  /\ process = "up" /\ socket[c] = "idle"
  /\ socket' = [socket EXCEPT ![c] = "none"]
  /\ UNCHANGED <<service, pool, handler>>

-----------------------------------------------------------------------------
(* Stopping.                                                               *)

\* Wrong on purpose: every call of stop drains.
DrainsAgain == phase \in {"listening", "draining"}
\* stopping ??= stop()
Drains == phase = "listening"

\* stopOnSignals: each signal has a handler once the service listens, and only
\* once. Without one Node ends the process.
Signal(s) ==
  /\ process = "up"
  /\ \/ /\ phase # "starting" /\ s \notin received
        /\ received' = received \union {s}
        /\ pending' = IF Drains THEN pending + 1 ELSE pending
        /\ phase' = IF Drains THEN "draining" ELSE phase
        /\ socket' = [c \in Connections |->
                        IF Drains /\ socket[c] = "idle" THEN "none" ELSE socket[c]]
        /\ UNCHANGED process
     \/ /\ phase = "starting" \/ s \in received
        /\ process' = "killed"
        /\ UNCHANGED <<phase, received, pending, socket>>
  /\ UNCHANGED <<exitCode, overdue, pool, handler>>

\* Wrong on purpose: only idle connections are closed.
CutIdle(c) == IF socket[c] = "idle" THEN "none" ELSE socket[c]
\* closeAllConnections: a handler that runs keeps running, without a client to
\* answer to.
Cut(c) ==
  CASE socket[c] = "active" -> "cut"
    [] socket[c] = "idle"   -> "none"
    [] OTHER                -> socket[c]

Deadline ==
  /\ process = "up" /\ phase = "draining" /\ ~overdue /\ pool = "open"
  /\ overdue' = TRUE
  /\ socket' = [c \in Connections |-> Cut(c)]
  /\ UNCHANGED <<process, exitCode, phase, received, pending, pool, handler>>

\* Wrong on purpose: the pool ends without waiting for the server to close.
DrainedAtOnce == TRUE
\* The server has closed when its last connection has.
Drained == Open = {}

\* database.close follows the drain; a pool is ended once.
EndPool ==
  /\ process = "up" /\ phase = "draining" /\ pending > 0
  /\ Drained
  /\ pending' = pending - 1
  /\ IF pool = "open"
     THEN /\ pool' = "ending"
          /\ UNCHANGED <<exitCode, phase>>
     ELSE /\ exitCode' = 1 /\ phase' = "failed"
          /\ UNCHANGED pool
  /\ UNCHANGED <<process, received, overdue, socket, handler>>

\* The pool has ended when every client it lent is back.
PoolEnds ==
  /\ process = "up" /\ pool = "ending" /\ Lent = {}
  /\ pool' = "ended"
  /\ phase' = IF phase = "draining" THEN "stopped" ELSE phase
  /\ UNCHANGED <<process, exitCode, received, pending, overdue, socket, handler>>

\* Nothing is left open: no connection, no client, no call to the provider. A
\* request queued in an ended pool waits for ever and keeps nothing open.
Exit ==
  /\ process = "up" /\ pool = "ended" /\ Open = {}
  /\ \A c \in Connections : handler[c] \in {"none", "queued"}
  /\ process' = "exited"
  /\ UNCHANGED <<exitCode, phase, received, pending, overdue, pool, socket, handler>>

Next ==
  \/ Listens \/ CannotStart
  \/ \E c \in Connections : \/ Request(c) \/ Authenticated(c) \/ Lend(c) \/ Release(c)
                            \/ Answer(c) \/ Closes(c)
  \/ \E s \in Signals : Signal(s)
  \/ Deadline \/ EndPool \/ PoolEnds \/ Exit

Spec == Init /\ [][Next]_vars

\* The timer fires, and every statement and call a handler waits for settles.
\* A client need not read its answer: Answer is fair only once the connection
\* is cut.
FairSpec ==
  /\ Spec
  /\ WF_vars(Deadline) /\ WF_vars(EndPool) /\ WF_vars(PoolEnds) /\ WF_vars(Exit)
  /\ \A c \in Connections :
       /\ WF_vars(Authenticated(c)) /\ WF_vars(Lend(c)) /\ WF_vars(Release(c))
       /\ WF_vars(socket[c] # "active" /\ Answer(c))

-----------------------------------------------------------------------------
(* Properties.                                                             *)

\* "The pool closes after the server, never before: a request still running
\* needs its client." Whoever still has a connection to be answered on is never
\* refused a client, nor left in the queue of a pool that hands out no more.
OpenRequestKeepsPool ==
  \A c \in Connections : socket[c] = "active" =>
    /\ handler[c] # "refused"
    /\ handler[c] \in {"queued", "borrowing"} => pool = "open"

\* A service that started and was stopped by signals exits with code 0, in
\* whatever order they arrive.
StopsCleanly == process = "exited" /\ received # {} => exitCode = 0

\* A signalled service ends, however slowly its clients read and whatever they
\* still ask for.
SignalEndsProcess == (received # {}) ~> (process # "up")
==============================================================================
