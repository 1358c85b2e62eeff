-------------------------------- MODULE Release --------------------------------
(***************************************************************************)
(* The release of one version (.github/workflows/release.yml over          *)
(* scripts/release.mjs): every push to main queues a run of its own        *)
(* commit, one run goes at a time through version, gate, publish and       *)
(* smoke, any step may fail, with its effect or without, and a run may be  *)
(* started again, whole or from its failed job.                            *)
(***************************************************************************)
EXTENDS Naturals, Sequences, FiniteSets

CONSTANTS Packages, Commits, Bytes, Needs, Nothing, Untagged, Repository,
          History,     \* the commits of main that carry this version, oldest first
          Order,       \* publishOrder: commit -> its packages, dependencies first
          NoCommit,
          MaxFailures  \* bound: steps that fail

TagNames == Packages \union {Repository}

ASSUME ReleaseAssumption ==
  /\ IsFiniteSet(Packages) /\ Repository \notin Packages
  /\ NoCommit \notin Commits /\ Untagged \notin Commits
  /\ History \in Seq(Commits) /\ MaxFailures \in Nat
  /\ \A c \in Commits :
       /\ \A p \in Packages : Bytes[c][p] # Nothing /\ Needs[c][p] \subseteq Packages
       /\ Order[c] \in [1..Cardinality(Packages) -> Packages]
       /\ \A p \in Packages : \E i \in DOMAIN Order[c] : Order[c][i] = p
       /\ \A i \in DOMAIN Order[c] : \A q \in Needs[c][Order[c][i]] :
            \E j \in 1..(i - 1) : Order[c][j] = q

VARIABLES registry,   \* npm: the bytes it holds of each package at this version
          tags,       \* origin: the commit each tag points at
          announced,  \* GitHub: the release on v<version> exists
          pushed,     \* how many commits of History main has
          pending,    \* the run that waits in the concurrency group
          current,    \* the run that is under way
          job,        \* what that run does next
          index,      \* how many packages its publish step has gone through
          stopped,    \* per commit, the job its last run failed in, or "none"
          failures
external == <<registry, tags, announced>>
queue == <<pushed, pending>>
vars == <<external, queue, current, job, index, stopped, failures>>

Steps == {"version", "gate", "preflight", "publish", "tag", "smoke"}

\* The publish job is three steps, and starts over with the first.
JobOf(step) == IF step \in {"publish", "tag"} THEN "preflight" ELSE step

TypeOK ==
  /\ registry \in [Packages -> {Bytes[c][p] : c \in Commits, p \in Packages} \union {Nothing}]
  /\ tags \in [TagNames -> Commits \union {Untagged}]
  /\ announced \in BOOLEAN
  /\ pushed \in 0..Len(History) /\ pending \in Commits \union {NoCommit}
  /\ current \in Commits \union {NoCommit}
  /\ job \in Steps \union {"none"}
  /\ current = NoCommit <=> job = "none"
  /\ index \in 0..Cardinality(Packages)
  /\ stopped \in [Commits -> Steps \union {"none", "done"}]
  /\ failures \in 0..MaxFailures

Init ==
  /\ registry = [p \in Packages |-> Nothing]
  /\ tags = [t \in TagNames |-> Untagged]
  /\ announced = FALSE
  /\ pushed = 0 /\ pending = NoCommit /\ current = NoCommit /\ job = "none" /\ index = 0
  /\ stopped = [c \in Commits |-> "none"]
  /\ failures = 0

-----------------------------------------------------------------------------
(* The concurrency group: one run at a time and one that waits.            *)

\* A push to main replaces the run that waits, which counts as cancelled.
Push ==
  /\ pushed < Len(History)
  /\ pushed' = pushed + 1
  /\ pending' = History[pushed + 1]
  /\ stopped' = [c \in Commits |-> IF c = pending THEN "version" ELSE stopped[c]]
  /\ UNCHANGED <<external, current, job, index, failures>>

Starts(c, j) == /\ current = NoCommit
                /\ current' = c /\ job' = j /\ index' = 0

StartPending ==
  /\ pending # NoCommit
  /\ Starts(pending, "version")
  /\ pending' = NoCommit
  /\ UNCHANGED <<external, pushed, stopped, failures>>

\* "Re-run failed jobs" keeps what the jobs before have put out, the gated
\* tarballs among it; "Re-run all jobs" starts over.
RerunFailed(c) ==
  /\ stopped[c] \in Steps
  /\ Starts(c, stopped[c])
  /\ UNCHANGED <<external, queue, stopped, failures>>

RerunAll(c) ==
  /\ stopped[c] # "none"
  /\ Starts(c, "version")
  /\ UNCHANGED <<external, queue, stopped, failures>>

Goes(j) == job' = j /\ index' = 0 /\ UNCHANGED <<current, stopped>>

\* The run ends: failed in its job, or done.
Ends(how) ==
  /\ current' = NoCommit /\ job' = "none" /\ index' = 0
  /\ stopped' = [stopped EXCEPT ![current] = how]
Fails == Ends(JobOf(job))

-----------------------------------------------------------------------------
(* The jobs.                                                               *)

\* Released already: nothing else runs.
Version ==
  /\ job = "version"
  /\ IF tags[Repository] = Untagged THEN Goes("gate") ELSE Ends("done")
  /\ UNCHANGED <<external, queue, failures>>

\* pack, and the checks of the packed files.
Gate ==
  /\ job = "gate"
  /\ Goes("preflight")
  /\ UNCHANGED <<external, queue, failures>>

\* checkTag: a tag on origin is kept or refused.
Conflicting(c) == \E t \in TagNames : tags[t] \notin {Untagged, c}

Preflight ==
  /\ job = "preflight"
  /\ IF Conflicting(current) THEN Fails ELSE Goes("publish")
  /\ UNCHANGED <<external, queue, failures>>

\* Wrong on purpose: a version that is there is skipped, whatever its bytes; a
\* version that is there is refused.
SkipsAny(c, p) == registry[p] # Nothing
SkipsNone(c, p) == FALSE
Skips(c, p) == registry[p] = Bytes[c][p]

\* One turn of publish's loop. The registry may not show yet what it was just
\* given; it refuses a version it has.
PublishOne ==
  /\ job = "publish" /\ index < Len(Order[current])
  /\ LET p == Order[current][index + 1]
     IN  IF registry[p] = Nothing
         THEN /\ registry' = [registry EXCEPT ![p] = Bytes[current][p]]
              /\ index' = index + 1
              /\ UNCHANGED <<current, job, stopped>>
         ELSE /\ UNCHANGED registry
              /\ IF Skips(current, p)
                 THEN index' = index + 1 /\ UNCHANGED <<current, job, stopped>>
                 ELSE Fails
  /\ UNCHANGED <<tags, announced, queue, failures>>

\* tag runs preflight again before it pushes anything.
PublishDone ==
  /\ job = "publish" /\ index = Len(Order[current])
  /\ IF Conflicting(current) THEN Fails ELSE Goes("tag")
  /\ UNCHANGED <<external, queue, failures>>

\* Wrong on purpose: the repository's tag is not kept for last.
NextTagsAny == {t \in TagNames : tags[t] = Untagged}
\* The tags still to push: one per package, then the repository's.
NextTags ==
  LET packages == {p \in Packages : tags[p] = Untagged}
  IN  IF packages # {} THEN packages
      ELSE IF tags[Repository] = Untagged THEN {Repository} ELSE {}

PushTag ==
  /\ job = "tag"
  /\ \E t \in NextTags : tags' = [tags EXCEPT ![t] = current]
  /\ UNCHANGED <<registry, announced, queue, current, job, index, stopped, failures>>

Announce ==
  /\ job = "tag" /\ NextTags = {}
  /\ announced' = TRUE
  /\ Goes("smoke")
  /\ UNCHANGED <<registry, tags, queue, failures>>

\* The registry serves what was released, or the run fails.
Smoke ==
  /\ job = "smoke"
  /\ IF \A p \in Packages : registry[p] = Bytes[current][p] THEN Ends("done") ELSE Fails
  /\ UNCHANGED <<external, queue, failures>>

\* Any step fails: a refused or unreachable service, a stale answer of the
\* registry, a timeout, a runner that ends. An upload or a push that fails may
\* have taken effect.
Breaks ==
  /\ current # NoCommit /\ failures < MaxFailures
  /\ failures' = failures + 1
  /\ Fails
  /\ \/ UNCHANGED external
     \/ /\ job = "publish" /\ index < Len(Order[current])
        /\ registry[Order[current][index + 1]] = Nothing
        /\ registry' = [registry EXCEPT ![Order[current][index + 1]] =
                          Bytes[current][Order[current][index + 1]]]
        /\ UNCHANGED <<tags, announced>>
     \/ /\ job = "tag"
        /\ \/ /\ \E t \in NextTags : tags' = [tags EXCEPT ![t] = current]
              /\ UNCHANGED <<registry, announced>>
           \/ /\ NextTags = {}
              /\ announced' = TRUE
              /\ UNCHANGED <<registry, tags>>
  /\ UNCHANGED queue

Job == Version \/ Gate \/ Preflight \/ PublishOne \/ PublishDone \/ PushTag \/ Announce \/ Smoke

Next ==
  \/ Push \/ StartPending \/ Job \/ Breaks
  \/ \E c \in Commits : RerunFailed(c) \/ RerunAll(c)

Spec == Init /\ [][Next]_vars

\* A queued run starts, a run goes on until it ends, and somebody runs again
\* what failed.
FairSpec ==
  /\ Spec /\ WF_vars(Job) /\ WF_vars(StartPending)
  /\ \A c \in Commits : SF_vars(RerunFailed(c))

-----------------------------------------------------------------------------
(* Properties.                                                             *)

Promise == INSTANCE ReleaseVersion

\* Reruns, later pushes and steps that fail midway never publish a package
\* before its dependencies, move a tag, or tag what is not published.
VersionImplemented == Promise!Spec

\* A release that began gets all its tags in the end, by re-running what failed.
EventuallyReleased == (pushed > 0) ~> (tags[Repository] # Untagged)

\* docs/releasing.md, "from one commit on main". While every commit publishes in
\* the same order, a commit that cannot continue what an earlier one began
\* uploads nothing.
PublishedFromOneCommit ==
  \E c \in Commits : \A p \in Packages : registry[p] \in {Nothing, Bytes[c][p]}
==============================================================================
