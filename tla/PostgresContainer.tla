--------------------------- MODULE PostgresContainer ---------------------------
(***************************************************************************)
(* The checkout's disposable Postgres (packages/db-tools/src/postgres.ts): *)
(* tasks that share one container by its name, start it if needed, make a  *)
(* database of their own in it and drop it; db-tools clean; people and old *)
(* scripts that use the same name; tasks that are killed at any step.      *)
(***************************************************************************)
EXTENDS Naturals, FiniteSets

CONSTANTS Gates,     \* tasks that run withPostgres
          Cleaners,  \* tasks that run removePostgres
          Wants,     \* of a gate: the image and the port it asks for
          Label,     \* of a gate: the label of its databases
          Pids,      \* of a task: the process ids it may be given
          Legacy,    \* what an old root script's container is made of
          Person,    \* owner of a database that is nobody's scratch space
          Boxes,     \* bound: the containers there ever are
          NoBox,
          MaxMishaps \* bound: kills, failed commands, deadlines, people at work

Tasks == Gates \union Cleaners
AnyPid == UNION {Pids[t] : t \in Tasks}

ASSUME ContainerAssumption ==
  /\ NoBox \notin Boxes /\ Person \notin Tasks
  /\ Gates \intersect Cleaners = {} /\ MaxMishaps \in Nat
  /\ \A t \in Tasks : Pids[t] # {}

VARIABLES name,    \* Docker: the container that has the checkout's name
          state,   \* Docker: of every container
          made,    \* of every container: what it was made of
          owned,   \* the containers with this checkout's label
          dbs,     \* the databases: their container, owner, and ownership comment
          pc,      \* what each task does next
          pid,     \* its process id; the dead leave theirs to others
          box,     \* the container each task has inspected or made
          stale,   \* the databases dropStaleDatabases still has to look at
          mishaps
docker == <<name, state, made, owned>>
containerVars == <<docker, dbs, pc, pid, box, stale, mishaps>>

States == {"absent", "reserved", "created", "booting", "ready", "removed"}
Steps == {"inspect", "remove", "run", "running", "reinspect", "await", "start", "wait",
          "list", "reap", "create", "comment", "use", "drop"}
Database == [box : Boxes, owner : Gates \union {Person}, marked : BOOLEAN]
Shapes == {Wants[g] : g \in Gates} \union {Legacy}

ContainerTypeOK ==
  /\ name \in Boxes \union {NoBox}
  /\ state \in [Boxes -> States]
  /\ made \in [Boxes -> Shapes]
  /\ owned \subseteq Boxes
  /\ dbs \subseteq Database
  /\ pc \in [Tasks -> Steps \union {"new", "done", "failed", "killed"}]
  /\ pid \in [Tasks -> AnyPid]
  /\ box \in [Tasks -> Boxes \union {NoBox}]
  /\ stale \in [Tasks -> SUBSET Database]
  /\ mishaps \in 0..MaxMishaps
  /\ \A d \in dbs : state[d.box] \in {"booting", "ready"}
  /\ name # NoBox => state[name] \notin {"absent", "removed"}

Alive(t) == pc[t] \in Steps
Runs(p) == \E t \in Tasks : Alive(t) /\ pid[t] = p
Inspectable(b) == b # NoBox /\ state[b] \in {"created", "booting", "ready"}
Own(t) == {d \in dbs : d.owner = t}

ContainerInit ==
  /\ name = NoBox
  /\ state = [b \in Boxes |-> "absent"]
  /\ made = [b \in Boxes |-> Legacy]
  /\ owned = {} /\ dbs = {}
  /\ pc = [t \in Tasks |-> "new"]
  /\ pid = [t \in Tasks |-> CHOOSE p \in Pids[t] : TRUE]
  /\ box = [t \in Tasks |-> NoBox]
  /\ stale = [t \in Tasks |-> {}]
  /\ mishaps = 0

Goes(t, step) == pc' = [pc EXCEPT ![t] = step]
Stays == UNCHANGED <<docker, dbs>>

\* A step that is no mishap.
From(t, step) == pc[t] = step /\ UNCHANGED <<pid, mishaps>>

-----------------------------------------------------------------------------
(* Docker.                                                                 *)

Unmade == {b \in Boxes : state[b] = "absent"}

\* The name is taken before the container can be inspected.
Reserve(b, shape) ==
  /\ name = NoBox /\ b = CHOOSE u \in Unmade : TRUE
  /\ name' = b /\ made' = [made EXCEPT ![b] = shape]

\* docker rm --force: a container goes with its databases.
Destroy(b) ==
  /\ state' = [state EXCEPT ![b] = "removed"]
  /\ name' = IF name = b THEN NoBox ELSE name
  /\ dbs' = {d \in dbs : d.box # b}
  /\ UNCHANGED <<made, owned>>

Appears(b) ==
  /\ state[b] = "reserved"
  /\ state' = [state EXCEPT ![b] = "created"]
  /\ UNCHANGED <<name, made, owned, dbs, pc, pid, box, stale, mishaps>>

\* initdb ends and the server that takes connections is up.
Boots(b) ==
  /\ state[b] = "booting"
  /\ state' = [state EXCEPT ![b] = "ready"]
  /\ UNCHANGED <<name, made, owned, dbs, pc, pid, box, stale, mishaps>>

DockerStarts(b) ==
  state' = [state EXCEPT ![b] = IF @ = "created" THEN "booting" ELSE @]

-----------------------------------------------------------------------------
(* ensurePostgres.                                                         *)

BeginTask(t) ==
  /\ pc[t] = "new" /\ Goes(t, "inspect")
  /\ \E p \in Pids[t] : ~Runs(p) /\ pid' = [pid EXCEPT ![t] = p]
  /\ Stays /\ UNCHANGED <<box, stale, mishaps>>

\* A container of another port, or an unlabelled one of another image, is
\* refused; a labelled one of another image is replaced.
Replaces(t) == made[name].port = Wants[t].port /\ name \in owned

Inspect(t) ==
  /\ t \in Gates /\ From(t, "inspect")
  /\ IF ~Inspectable(name) THEN Goes(t, "run") /\ UNCHANGED box
     ELSE /\ box' = [box EXCEPT ![t] = name]
          /\ \/ made[name] = Wants[t] /\ Goes(t, "start")
             \/ /\ made[name] # Wants[t]
                /\ IF Replaces(t) THEN Goes(t, "remove") ELSE Goes(t, "failed")
  /\ Stays /\ UNCHANGED stale

\* Wrong on purpose: what has the name now is removed.
RemovesNamed(t) == name
\* removeContainer acts on the inspected id.
Removes(t) == box[t]

\* A container that is gone already may be an error to docker rm or not.
Remove(t) ==
  /\ From(t, "remove")
  /\ LET next == IF t \in Gates THEN "run" ELSE "done"
     IN  IF Removes(t) # NoBox /\ state[Removes(t)] # "removed"
         THEN Destroy(Removes(t)) /\ Goes(t, next)
         ELSE Stays /\ (Goes(t, next) \/ Goes(t, "failed"))
  /\ UNCHANGED <<box, stale>>

\* docker run: the name is reserved, or in use by somebody else's container.
Run(t) ==
  /\ From(t, "run")
  /\ \/ \E b \in Unmade :
          /\ Reserve(b, Wants[t])
          /\ owned' = owned \union {b}
          /\ state' = [state EXCEPT ![b] = "reserved"]
          /\ box' = [box EXCEPT ![t] = b]
          /\ Goes(t, "running")
     \/ /\ name # NoBox
        /\ Goes(t, "await") /\ UNCHANGED <<docker, box>>
  /\ UNCHANGED <<dbs, stale>>

RunStarts(t) ==
  /\ From(t, "running") /\ state[box[t]] # "reserved"
  /\ IF state[box[t]] = "removed" THEN Goes(t, "failed") ELSE Goes(t, "reinspect")
  /\ DockerStarts(box[t])
  /\ UNCHANGED <<name, made, owned, dbs, box, stale>>

\* Only what matches the request is started.
Checked(t) ==
  /\ box' = [box EXCEPT ![t] = name]
  /\ IF made[name] = Wants[t] THEN Goes(t, "start") ELSE Goes(t, "failed")

Reinspect(t) ==
  /\ From(t, "reinspect")
  /\ IF Inspectable(name) THEN Checked(t) ELSE Goes(t, "failed") /\ UNCHANGED box
  /\ Stays /\ UNCHANGED stale

\* Wrong on purpose: who lost the name looks once.
AwaitsOnce(t) == TRUE
\* Who lost the name looks again until there is a container.
Awaits(t) == Inspectable(name)

Await(t) ==
  /\ From(t, "await") /\ Awaits(t)
  /\ IF Inspectable(name) THEN Checked(t) ELSE Goes(t, "failed") /\ UNCHANGED box
  /\ Stays /\ UNCHANGED stale

StartBox(t) ==
  /\ From(t, "start")
  /\ IF state[box[t]] = "removed" THEN Goes(t, "failed") ELSE Goes(t, "wait")
  /\ DockerStarts(box[t])
  /\ UNCHANGED <<name, made, owned, dbs, box, stale>>

\* pg_isready over TCP; a container that is gone never answers.
WaitForPostgres(t) ==
  /\ From(t, "wait") /\ state[box[t]] \in {"ready", "removed"}
  /\ IF state[box[t]] = "ready" THEN Goes(t, "list") ELSE Goes(t, "failed")
  /\ Stays /\ UNCHANGED <<box, stale>>

-----------------------------------------------------------------------------
(* withPostgres.                                                           *)

\* psql in a container that is gone fails.
Psql(t, step) == From(t, step) /\ state[box[t]] = "ready"
PsqlFails(t) ==
  /\ pc[t] \in {"list", "reap", "create", "comment", "drop"}
  /\ From(t, pc[t]) /\ state[box[t]] # "ready"
  /\ Goes(t, "failed")
  /\ Stays /\ UNCHANGED <<box, stale>>

ListStale(t) ==
  /\ Psql(t, "list") /\ Goes(t, "reap")
  /\ stale' = [stale EXCEPT ![t] = {d \in dbs : d.box = box[t] /\ d.marked}]
  /\ Stays /\ UNCHANGED box

\* Wrong on purpose: whoever made it; nobody.
ReapsAll(t, d) == TRUE
ReapsNone(t, d) == FALSE
\* The name has this label and the id of a process that is not there. The name
\* a person gave may say so too.
Reaps(t, d) ==
  \/ d.owner = Person
  \/ d.owner # Person /\ Label[d.owner] = Label[t] /\ ~Runs(pid[d.owner])

Reap(t) ==
  /\ Psql(t, "reap")
  /\ \E d \in stale[t] :
       /\ stale' = [stale EXCEPT ![t] = @ \ {d}]
       /\ dbs' = IF Reaps(t, d) THEN dbs \ {d} ELSE dbs
  /\ UNCHANGED <<docker, pc, box>>

ReapDone(t) ==
  /\ Psql(t, "reap") /\ stale[t] = {} /\ Goes(t, "create")
  /\ Stays /\ UNCHANGED <<box, stale>>

CreateDatabase(t) ==
  /\ Psql(t, "create") /\ Goes(t, "comment")
  /\ dbs' = dbs \union {[box |-> box[t], owner |-> t, marked |-> FALSE]}
  /\ UNCHANGED <<docker, box, stale>>

Comment(t) ==
  /\ Psql(t, "comment") /\ Goes(t, "use")
  /\ dbs' = (dbs \ Own(t)) \union {[d EXCEPT !.marked = TRUE] : d \in Own(t)}
  /\ UNCHANGED <<docker, box, stale>>

\* The callback returns or throws.
UseEnds(t) ==
  /\ From(t, "use") /\ Goes(t, "drop")
  /\ Stays /\ UNCHANGED <<box, stale>>

DropDatabase(t) ==
  /\ Psql(t, "drop") /\ Goes(t, "done")
  /\ dbs' = dbs \ Own(t)
  /\ UNCHANGED <<docker, box, stale>>

-----------------------------------------------------------------------------
(* removePostgres.                                                         *)

CleanInspects(t) ==
  /\ t \in Cleaners /\ From(t, "inspect")
  /\ IF ~Inspectable(name) THEN Goes(t, "done") /\ UNCHANGED box
     ELSE /\ box' = [box EXCEPT ![t] = name]
          /\ IF name \in owned THEN Goes(t, "remove") ELSE Goes(t, "failed")
  /\ Stays /\ UNCHANGED stale

-----------------------------------------------------------------------------
(* What else happens.                                                      *)

Mishap == mishaps < MaxMishaps /\ mishaps' = mishaps + 1 /\ UNCHANGED pid

\* The process ends wherever it is. Its databases stay.
Kill(t) ==
  /\ Mishap /\ Alive(t) /\ Goes(t, "killed")
  /\ Stays /\ UNCHANGED <<box, stale>>

\* A command fails, or a deadline passes: the task fails, after its database
\* is dropped if it has one. What CREATE and DROP DATABASE say may not be what
\* they did.
Breaks(t) ==
  /\ Mishap /\ Alive(t)
  /\ IF pc[t] \in {"comment", "use"} THEN Goes(t, "drop") ELSE Goes(t, "failed")
  /\ \/ UNCHANGED dbs
     \/ /\ pc[t] = "create" /\ state[box[t]] = "ready"
        /\ dbs' = dbs \union {[box |-> box[t], owner |-> t, marked |-> FALSE]}
     \/ pc[t] = "drop" /\ dbs' = dbs \ Own(t)
  /\ UNCHANGED <<docker, box, stale>>

\* An old root script makes its unlabelled container, with a person's database.
OldScript ==
  /\ Mishap
  /\ \E b \in Unmade :
       /\ Reserve(b, Legacy)
       /\ state' = [state EXCEPT ![b] = "ready"]
       /\ dbs' = dbs \union {[box |-> b, owner |-> Person, marked |-> FALSE]}
  /\ UNCHANGED <<owned, pc, box, stale>>

\* A person removes the container that has the name.
PersonRemoves ==
  /\ Mishap /\ name # NoBox /\ Destroy(name)
  /\ UNCHANGED <<pc, box, stale>>

Task(t) ==
  \/ BeginTask(t) \/ Inspect(t) \/ Remove(t) \/ Run(t) \/ RunStarts(t) \/ Reinspect(t) \/ Await(t)
  \/ StartBox(t) \/ WaitForPostgres(t)
  \/ PsqlFails(t) \/ ListStale(t) \/ Reap(t) \/ ReapDone(t) \/ CreateDatabase(t) \/ Comment(t)
  \/ UseEnds(t) \/ DropDatabase(t) \/ CleanInspects(t)

ContainerNext ==
  \/ \E t \in Tasks : Task(t) \/ Kill(t) \/ Breaks(t)
  \/ \E b \in Boxes : Appears(b) \/ Boots(b)
  \/ OldScript \/ PersonRemoves

ContainerSpec == ContainerInit /\ [][ContainerNext]_containerVars

\* Tasks go on, Docker creates what it was told to, a server boots.
FairContainerSpec ==
  /\ ContainerSpec
  /\ \A t \in Tasks : WF_containerVars(Task(t))
  /\ \A b \in Boxes : WF_containerVars(Appears(b)) /\ WF_containerVars(Boots(b))

-----------------------------------------------------------------------------
(* Properties.                                                             *)

\* Nobody else's cleanup drops the database a task works in while its
\* container is there: not a reaper that listed it, not one that meets the
\* same process id.
UsedDatabaseStays ==
  \A t \in Gates : pc[t] \in {"comment", "use", "drop"} =>
    state[box[t]] = "removed" \/ Own(t) # {}

\* What is not marked as scratch space is removed by nobody but a person: no
\* unlabelled container, whatever happened to the name since it was inspected,
\* and no unmarked database, whatever its name.
Personal == {d \in dbs : d.owner = Person}
PersonalDataStays == [][Personal \subseteq dbs' \/ PersonRemoves]_containerVars

\* Losing the race for the name costs no task its database: a task fails only
\* because of a mishap, or of another that asks for another image or cleans.
FailsOnlyIfDisturbed ==
  \A t \in Gates : pc[t] = "failed" =>
    \/ mishaps > 0
    \/ \E g \in Gates : Wants[g] # Wants[t] /\ pc[g] # "new"
    \/ \E c \in Cleaners : pc[c] # "new"

\* An interrupted task's marked database goes with the next task of the same
\* label that comes through in the same container, unless a process has the
\* dead one's id just then, that task itself or another: "pid reuse keeps a
\* stale database one round longer", and no longer, since the task after is
\* again a next one.
LeftoversReaped ==
  \A k, t \in Gates : k # t /\ Label[k] = Label[t] =>
    ((pc[k] = "killed" /\ pc[t] = "new" /\ \E d \in Own(k) : d.marked)
       ~> (\/ Own(k) = {} \/ pc[t] \in {"failed", "killed"}
           \/ pc[t] = "reap" /\ Runs(pid[k])))
================================================================================
