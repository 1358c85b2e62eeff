---------------------------- MODULE RepositoryProofs ----------------------------
(***************************************************************************)
(* The repository's own tools. The release of one version implements       *)
(* ReleaseVersion, whatever is pushed, fails and is run again, and each    *)
(* package it put out stands on its own commit's. A command that reports   *)
(* a project made has left every file of it whole, whoever else writes     *)
(* there; the template such a project is made from stands alone, however   *)
(* often the repository was changed before it was built. The skills        *)
(* catalog holds what was reviewed, and the reader of its settings takes   *)
(* exactly what its format says, whatever the file.                        *)
(***************************************************************************)
EXTENDS Release, CreateApp, SkillsSync, SettingsReader, TemplateBuild, FiniteSetTheorems,
        SequenceTheorems, TLAPS

-----------------------------------------------------------------------------
(* The orders.                                                             *)

LastPlace == Cardinality(Packages)

\* An order is a sequence of all packages.
LEMMA OrderIsWhole ==
  ASSUME NEW c \in Commits
  PROVE  /\ LastPlace \in Nat /\ Len(Order[c]) = LastPlace
         /\ Order[c] \in [1..LastPlace -> Packages]
         /\ \A p \in Packages : \E i \in 1..LastPlace : Order[c][i] = p
  <1>1. LastPlace \in Nat
    BY ReleaseAssumption, FS_CardinalityType DEF LastPlace
  <1>2. Order[c] \in [1..LastPlace -> Packages]
    BY ReleaseAssumption DEF LastPlace
  <1>3. Order[c] \in Seq(Packages)
    BY <1>1, <1>2, SeqDef
  <1>4. Len(Order[c]) = LastPlace
    BY <1>1, <1>2, <1>3, LenProperties
  <1>5. \A p \in Packages : \E i \in 1..LastPlace : Order[c][i] = p
    BY <1>2, ReleaseAssumption
  <1>6. QED
    BY <1>1, <1>2, <1>4, <1>5

-----------------------------------------------------------------------------
(* The inductive invariant: what a run has seen of the registry and of the *)
(* tags by the time it relies on them.                                     *)

\* A run never resumes in the middle of its publish job.
WholeJobs == \A c \in Commits : stopped[c] \notin {"publish", "tag"}

\* What the loop has gone through is in the registry as this commit packed it.
Uploaded ==
  job = "publish" =>
    \A i \in 1..index : registry[Order[current][i]] = Bytes[current][Order[current][i]]

\* Before the first tag is pushed everything is in the registry, and no tag
\* points elsewhere.
Released ==
  job = "tag" => /\ \A p \in Packages : registry[p] = Bytes[current][p]
                 /\ ~Conflicting(current)

IInv == TypeOK /\ WholeJobs /\ Uploaded /\ Released /\ Promise!TaggedIsPublished

LEMMA IInvInit == Init => IInv
  <1> SUFFICES ASSUME Init PROVE IInv
    OBVIOUS
  <1>1. LastPlace \in Nat
    BY ReleaseAssumption, FS_CardinalityType DEF LastPlace
  <1>2. Len(History) \in Nat
    BY ReleaseAssumption, LenProperties
  <1>3. TypeOK
    <2>1. 0 \in 0..LastPlace /\ 0 \in 0..Len(History) /\ 0 \in 0..MaxFailures
      BY <1>1, <1>2, ReleaseAssumption
    <2>2. /\ registry \in [Packages -> {Bytes[c][p] : c \in Commits, p \in Packages} \union {Nothing}]
          /\ tags \in [TagNames -> Commits \union {Untagged}]
          /\ stopped \in [Commits -> Steps \union {"none", "done"}]
      BY DEF Init
    <2>3. /\ announced \in BOOLEAN /\ pushed \in 0..Len(History) /\ index \in 0..LastPlace
          /\ failures \in 0..MaxFailures /\ current = NoCommit /\ job = "none"
          /\ pending \in Commits \union {NoCommit}
      BY <2>1 DEF Init
    <2>4. QED
      BY <2>2, <2>3 DEF TypeOK, LastPlace
  <1>4. QED
    BY <1>3 DEF Init, IInv, WholeJobs, Uploaded, Released, Promise!TaggedIsPublished,
       Promise!TagNames, TagNames

\* A step that keeps the registry and the tags keeps what is known of them, if
\* it starts, goes on with or ends a run as the jobs do.
LEMMA QueueKeeps ==
  ASSUME IInv, Push \/ StartPending \/ \E c \in Commits : RerunFailed(c) \/ RerunAll(c)
  PROVE  IInv'
  <1> USE DEF IInv, Steps, external, queue
  <1>1. Len(History) \in Nat /\ \A i \in 1..Len(History) : History[i] \in Commits
    BY ReleaseAssumption, LenProperties, ElementOfSeq
  <1>2. LastPlace \in Nat
    BY ReleaseAssumption, FS_CardinalityType DEF LastPlace
  <1>3. UNCHANGED <<registry, tags>>
    BY DEF Push, StartPending, RerunFailed, RerunAll
  <1>4. Promise!TaggedIsPublished'
    BY <1>3 DEF Promise!TaggedIsPublished, Promise!TagNames
  <1>5. CASE Push
    <2>1. UNCHANGED <<registry, tags, announced, current, job, index, failures>>
      BY <1>5 DEF Push
    <2>2. /\ pushed' \in 0..Len(History) /\ pending' \in Commits
          /\ stopped' \in [Commits -> Steps \union {"none", "done"}] /\ WholeJobs'
      BY <1>1, <1>5 DEF Push, TypeOK, WholeJobs
    <2>3. TypeOK'
      BY <2>1, <2>2 DEF TypeOK
    <2>4. QED
      BY <1>4, <2>1, <2>2, <2>3 DEF Uploaded, Released, Conflicting
  <1>6. ASSUME ~Push PROVE IInv'
    <2>1. /\ job' \in Steps \ {"publish", "tag"} /\ current' \in Commits /\ index' = 0
          /\ UNCHANGED <<announced, pushed, stopped, failures>>
          /\ pending' \in {pending, NoCommit}
      BY <1>6 DEF StartPending, RerunFailed, RerunAll, Starts, TypeOK, WholeJobs
    <2>2. TypeOK'
      BY <1>2, <1>3, <2>1, ReleaseAssumption DEF TypeOK, LastPlace
    <2>3. QED
      BY <1>4, <2>1, <2>2 DEF WholeJobs, Uploaded, Released
  <1>7. QED
    BY <1>5, <1>6

\* A run ends where it can be resumed.
LEMMA EndsWell ==
  ASSUME IInv, current # NoCommit,
         NEW how \in {"done", "version", "gate", "preflight", "smoke"}, Ends(how)
  PROVE  /\ current' = NoCommit /\ job' = "none" /\ index' = 0
         /\ stopped' \in [Commits -> Steps \union {"none", "done"}] /\ WholeJobs'
  BY DEF IInv, TypeOK, Ends, WholeJobs, Steps

LEMMA FailsWell ==
  ASSUME IInv, current # NoCommit
  PROVE  JobOf(job) \in {"done", "version", "gate", "preflight", "smoke"}
  BY DEF IInv, TypeOK, JobOf, Steps

\* A run that is over leaves only the truth of the tags to be shown.
LEMMA OverKeeps ==
  ASSUME IInv, current # NoCommit, UNCHANGED queue,
         NEW how \in {"done", "version", "gate", "preflight", "smoke"}, Ends(how),
         registry' \in [Packages -> {Bytes[c][p] : c \in Commits, p \in Packages} \union {Nothing}],
         tags' \in [TagNames -> Commits \union {Untagged}],
         announced' \in BOOLEAN, failures' \in 0..MaxFailures,
         Promise!TaggedIsPublished'
  PROVE  IInv'
  <1>1. /\ current' = NoCommit /\ job' = "none" /\ index' = 0
        /\ stopped' \in [Commits -> Steps \union {"none", "done"}] /\ WholeJobs'
    BY EndsWell
  <1>2. LastPlace \in Nat
    BY ReleaseAssumption, FS_CardinalityType DEF LastPlace
  <1>3. TypeOK'
    BY <1>1, <1>2 DEF IInv, TypeOK, queue, LastPlace
  <1>4. QED
    BY <1>1, <1>3 DEF IInv, Uploaded, Released

-----------------------------------------------------------------------------
(* The three steps that write, each as the promise allows it.              *)

\* What the loop may upload next.
Upcoming == Order[current][index + 1]

LEMMA UploadPromised ==
  ASSUME IInv, job = "publish", index < Len(Order[current]), registry[Upcoming] = Nothing,
         registry' = [registry EXCEPT ![Upcoming] = Bytes[current][Upcoming]],
         UNCHANGED <<tags, announced>>
  PROVE  /\ current \in Commits /\ Upcoming \in Packages
         /\ Promise!Upload(Upcoming, current)
         /\ registry' \in [Packages -> {Bytes[c][p] : c \in Commits, p \in Packages}
                                         \union {Nothing}]
         /\ Promise!TaggedIsPublished'
  <1> USE DEF IInv
  <1>1. current \in Commits
    BY DEF TypeOK
  <1>2. /\ LastPlace \in Nat /\ index \in Nat /\ index + 1 \in 1..LastPlace /\ Upcoming \in Packages
        /\ Order[current] \in [1..LastPlace -> Packages]
    BY <1>1, OrderIsWhole DEF TypeOK, Upcoming, LastPlace
  <1>3. \A c \in Commits, p \in Packages : Bytes[c][p] # Nothing
    BY ReleaseAssumption
  <1>4. \A t \in TagNames : tags[t] = Untagged
    BY <1>2, <1>3 DEF TypeOK, Promise!TaggedIsPublished, Promise!TagNames, TagNames
  <1>5. ASSUME NEW q \in Needs[current][Upcoming] PROVE registry[q] # Nothing
    <2>1. PICK j \in 1..index : Order[current][j] = q
      <3>1. index + 1 \in DOMAIN Order[current] /\ (index + 1) - 1 = index
        BY <1>2
      <3>2. \A c \in Commits : \A i \in DOMAIN Order[c] : \A p \in Needs[c][Order[c][i]] :
              \E j \in 1..(i - 1) : Order[c][j] = p
        BY ReleaseAssumption
      <3>3. \E j \in 1..((index + 1) - 1) : Order[current][j] = q
        BY <1>1, <1>5, <3>1, <3>2 DEF Upcoming
      <3>4. QED
        BY <3>1, <3>3
    <2>2. registry[q] = Bytes[current][q] /\ q \in Packages
      BY <1>2, <2>1 DEF Uploaded
    <2>3. QED
      BY <1>1, <1>3, <2>2
  <1>6. Promise!Upload(Upcoming, current)
    BY <1>4, <1>5 DEF Promise!Upload, Promise!TagNames, TagNames
  <1>7. registry' \in [Packages -> {Bytes[c][p] : c \in Commits, p \in Packages}
                                     \union {Nothing}]
    BY <1>1, <1>2 DEF TypeOK
  <1>8. Promise!TaggedIsPublished'
    BY <1>4 DEF Promise!TaggedIsPublished, Promise!TagNames, TagNames
  <1>9. QED
    BY <1>1, <1>2, <1>6, <1>7, <1>8

LEMMA TagPromised ==
  ASSUME IInv, job = "tag", NEW t \in NextTags, tags' = [tags EXCEPT ![t] = current],
         UNCHANGED <<registry, announced>>
  PROVE  /\ current \in Commits /\ t \in TagNames
         /\ Promise!Tag(t, current)
         /\ tags' \in [TagNames -> Commits \union {Untagged}]
         /\ Promise!TaggedIsPublished'
         /\ \A other \in TagNames : tags'[other] \in {Untagged, current}
  <1> USE DEF IInv, TagNames, Promise!TagNames
  <1>1. current \in Commits /\ current # Untagged
    BY ReleaseAssumption DEF TypeOK
  <1>2. /\ t \in TagNames /\ tags[t] = Untagged
        /\ t = Repository => \A p \in Packages : tags[p] # Untagged
    BY ReleaseAssumption DEF NextTags
  <1>3. /\ \A p \in Packages : registry[p] = Bytes[current][p]
        /\ \A other \in TagNames : tags[other] \in {Untagged, current}
    BY DEF Released, Conflicting
  <1>4. Promise!Tag(t, current)
    BY <1>2, <1>3 DEF Promise!Tag
  <1>5. tags' \in [TagNames -> Commits \union {Untagged}]
    BY <1>1, <1>2 DEF TypeOK
  <1>6. \A other \in TagNames : tags'[other] \in {Untagged, current}
    BY <1>2, <1>3 DEF TypeOK
  <1>7. Promise!TaggedIsPublished'
    BY <1>3, <1>6 DEF Promise!TaggedIsPublished
  <1>8. QED
    BY <1>1, <1>2, <1>4, <1>5, <1>6, <1>7

LEMMA AnnouncePromised ==
  ASSUME IInv, NextTags = {}, announced' = TRUE, UNCHANGED <<registry, tags>>
  PROVE  Promise!Announce
  BY DEF NextTags, Promise!Announce

-----------------------------------------------------------------------------
(* Every step, for the invariant and for the promise at once.              *)

Promised == [Promise!Next]_(Promise!vars)

LEMMA JobKeeps ==
  ASSUME IInv, Version \/ Gate \/ Preflight \/ PublishDone \/ Smoke
  PROVE  IInv' /\ Promised
  <1> USE DEF external, queue
  <1>1. /\ current # NoCommit /\ UNCHANGED <<registry, tags, announced, queue, failures>>
    BY DEF IInv, TypeOK, Version, Gate, Preflight, PublishDone, Smoke
  <1>2. Promised
    BY <1>1 DEF Promised, Promise!vars
  <1>3. Promise!TaggedIsPublished'
    BY <1>1 DEF IInv, Promise!TaggedIsPublished, Promise!TagNames
  <1>4. ASSUME NEW how \in {"done", "version", "gate", "preflight", "smoke"}, Ends(how)
        PROVE  IInv'
    BY <1>1, <1>3, <1>4, OverKeeps DEF IInv, TypeOK
  <1>5. CASE Fails
    BY <1>1, <1>2, <1>4, <1>5, FailsWell DEF Fails
  <1>6. CASE Ends("done")
    BY <1>2, <1>4, <1>6
  <1>7. ASSUME NEW j \in {"gate", "preflight", "publish", "tag"}, Goes(j),
               j = "tag" => /\ ~Conflicting(current)
                            /\ \A p \in Packages : registry[p] = Bytes[current][p]
        PROVE  IInv'
    <2>1. job' = j /\ index' = 0 /\ UNCHANGED <<current, stopped>>
      BY <1>7 DEF Goes
    <2>2. LastPlace \in Nat
      BY ReleaseAssumption, FS_CardinalityType DEF LastPlace
    <2>3. TypeOK'
      BY <1>1, <2>1, <2>2 DEF IInv, TypeOK, Steps, LastPlace
    <2>4. WholeJobs' /\ Uploaded'
      BY <2>1 DEF IInv, WholeJobs, Uploaded
    <2>5. Released'
      BY <1>1, <1>7, <2>1 DEF Released, Conflicting
    <2>6. QED
      BY <1>3, <2>3, <2>4, <2>5 DEF IInv
  <1>8. CASE PublishDone /\ Goes("tag")
    <2>1. ~Conflicting(current)
      BY <1>8, <1>1 DEF PublishDone, Fails, Ends, Goes, IInv, TypeOK
    <2>2. current \in Commits /\ index = LastPlace
      BY <1>1, <1>8, OrderIsWhole DEF IInv, TypeOK, PublishDone
    <2>3. \A p \in Packages : registry[p] = Bytes[current][p]
      BY <1>8, <2>2, OrderIsWhole DEF IInv, Uploaded, PublishDone
    <2>4. QED
      BY <1>2, <1>7, <1>8, <2>1, <2>3
  <1>9. CASE Goes("gate") \/ Goes("preflight") \/ Goes("publish")
    BY <1>2, <1>7, <1>9
  <1>10. QED
    BY <1>2, <1>5, <1>6, <1>8, <1>9 DEF Version, Gate, Preflight, PublishDone, Smoke

LEMMA PublishOneKeeps == ASSUME IInv, PublishOne PROVE IInv' /\ Promised
  <1> USE DEF external, queue
  <1>1. /\ job = "publish" /\ index < Len(Order[current]) /\ current \in Commits
        /\ UNCHANGED <<tags, announced, pushed, pending, failures>>
    BY DEF IInv, TypeOK, PublishOne
  <1>2. /\ LastPlace \in Nat /\ index \in Nat /\ index + 1 \in 0..LastPlace
        /\ Len(Order[current]) = LastPlace
        /\ \A i \in 1..(index + 1) : Order[current][i] \in Packages
    <2>1. /\ LastPlace \in Nat /\ Len(Order[current]) = LastPlace
          /\ Order[current] \in [1..LastPlace -> Packages]
      BY <1>1, OrderIsWhole
    <2>2. index \in 0..LastPlace
      BY DEF IInv, TypeOK, LastPlace
    <2>3. QED
      BY <1>1, <2>1, <2>2
  <1>3. CASE registry[Upcoming] = Nothing
    <2>1. /\ registry' = [registry EXCEPT ![Upcoming] = Bytes[current][Upcoming]]
          /\ index' = index + 1 /\ UNCHANGED <<current, job, stopped>>
      BY <1>3 DEF PublishOne, Upcoming
    <2>2. /\ Upcoming \in Packages /\ Promise!Upload(Upcoming, current)
          /\ registry' \in [Packages -> {Bytes[c][p] : c \in Commits, p \in Packages}
                                          \union {Nothing}]
          /\ Promise!TaggedIsPublished'
      BY <1>1, <1>3, <2>1, UploadPromised
    <2>3. Promised
      BY <1>1, <2>2 DEF Promised, Promise!Next
    <2>4. TypeOK'
      BY <1>1, <1>2, <2>1, <2>2 DEF IInv, TypeOK, LastPlace
    <2>5. registry'[Upcoming] = Bytes[current][Upcoming]
          /\ \A p \in Packages : p # Upcoming => registry'[p] = registry[p]
      BY <2>1, <2>2 DEF IInv, TypeOK
    <2>6. Uploaded'
      <3> SUFFICES ASSUME NEW i \in 1..(index + 1)
                   PROVE  registry'[Order[current][i]] = Bytes[current][Order[current][i]]
        BY <2>1 DEF Uploaded
      <3>1. CASE Order[current][i] = Upcoming
        BY <2>5, <3>1
      <3>2. CASE Order[current][i] # Upcoming
        <4>1. i \in 1..index
          BY <1>2, <3>2 DEF Upcoming
        <4>2. QED
          BY <1>1, <1>2, <2>5, <3>2, <4>1 DEF IInv, Uploaded
      <3>3. QED
        BY <3>1, <3>2
    <2>7. WholeJobs' /\ Released'
      BY <1>1, <2>1 DEF IInv, WholeJobs, Released
    <2>8. QED
      BY <2>2, <2>3, <2>4, <2>6, <2>7 DEF IInv
  <1>4. CASE registry[Upcoming] # Nothing
    <2>1. UNCHANGED registry
      BY <1>4 DEF PublishOne, Upcoming
    <2>2. Promised
      BY <1>1, <2>1 DEF Promised, Promise!vars
    <2>3. Promise!TaggedIsPublished'
      BY <1>1, <2>1 DEF IInv, Promise!TaggedIsPublished, Promise!TagNames
    <2>4. CASE Fails
      BY <1>1, <2>1, <2>2, <2>3, <2>4, FailsWell, OverKeeps, ReleaseAssumption
      DEF Fails, IInv, TypeOK
    <2>5. CASE /\ registry[Upcoming] = Bytes[current][Upcoming] /\ index' = index + 1
               /\ UNCHANGED <<current, job, stopped>>
      <3>1. TypeOK'
        BY <1>1, <1>2, <2>1, <2>5 DEF IInv, TypeOK, LastPlace
      <3>2. Uploaded'
        <4> SUFFICES ASSUME NEW i \in 1..(index + 1)
                     PROVE  registry[Order[current][i]] = Bytes[current][Order[current][i]]
          BY <2>1, <2>5 DEF Uploaded
        <4>1. i \in 1..index \/ i = index + 1
          BY <1>2
        <4>2. QED
          BY <1>1, <2>5, <4>1 DEF IInv, Uploaded, Upcoming
      <3>3. WholeJobs' /\ Released'
        BY <1>1, <2>5 DEF IInv, WholeJobs, Released
      <3>4. QED
        BY <2>2, <2>3, <3>1, <3>2, <3>3 DEF IInv
    <2>6. QED
      BY <1>4, <2>2, <2>4, <2>5 DEF PublishOne, Upcoming, Skips
  <1>5. QED
    BY <1>3, <1>4

LEMMA TagKeeps == ASSUME IInv, PushTag \/ Announce PROVE IInv' /\ Promised
  <1> USE DEF external, queue
  <1>1. job = "tag" /\ UNCHANGED <<registry, pushed, pending, failures>>
    BY DEF PushTag, Announce
  <1>2. CASE PushTag
    <2>1. PICK t \in NextTags : tags' = [tags EXCEPT ![t] = current]
      BY <1>2 DEF PushTag
    <2>2. UNCHANGED <<announced, current, job, index, stopped>>
      BY <1>2 DEF PushTag
    <2>3. /\ current \in Commits /\ t \in TagNames /\ Promise!Tag(t, current)
          /\ tags' \in [TagNames -> Commits \union {Untagged}]
          /\ Promise!TaggedIsPublished'
          /\ \A other \in TagNames : tags'[other] \in {Untagged, current}
      BY <1>1, <2>1, <2>2, TagPromised
    <2>4. Promised
      BY <2>3 DEF Promised, Promise!Next, Promise!TagNames, TagNames
    <2>5. TypeOK'
      BY <1>1, <2>2, <2>3 DEF IInv, TypeOK
    <2>6. Released'
      BY <1>1, <2>2, <2>3 DEF IInv, Released, Conflicting
    <2>7. WholeJobs' /\ Uploaded'
      BY <1>1, <2>2 DEF IInv, WholeJobs, Uploaded
    <2>8. QED
      BY <2>3, <2>4, <2>5, <2>6, <2>7 DEF IInv
  <1>3. CASE Announce
    <2>1. /\ NextTags = {} /\ announced' = TRUE /\ UNCHANGED tags
          /\ job' = "smoke" /\ index' = 0 /\ UNCHANGED <<current, stopped>>
      BY <1>3 DEF Announce, Goes
    <2>2. Promised
      BY <1>1, <2>1, AnnouncePromised DEF Promised, Promise!Next
    <2>3. LastPlace \in Nat
      BY ReleaseAssumption, FS_CardinalityType DEF LastPlace
    <2>4. TypeOK'
      BY <1>1, <2>1, <2>3 DEF IInv, TypeOK, Steps, LastPlace
    <2>5. Promise!TaggedIsPublished'
      BY <1>1, <2>1 DEF IInv, Promise!TaggedIsPublished, Promise!TagNames
    <2>6. QED
      BY <2>1, <2>2, <2>4, <2>5 DEF IInv, WholeJobs, Uploaded, Released
  <1>4. QED
    BY <1>2, <1>3

\* A step that fails ends the run, whether or not it took effect.
LEMMA BreaksKeeps == ASSUME IInv, Breaks PROVE IInv' /\ Promised
  <1> USE DEF external
  <1>1. /\ current # NoCommit /\ failures' \in 0..MaxFailures /\ UNCHANGED queue
        /\ Ends(JobOf(job))
    BY ReleaseAssumption DEF Breaks, IInv, TypeOK, Fails
  <1>2. ASSUME registry' \in [Packages -> {Bytes[c][p] : c \in Commits, p \in Packages}
                                            \union {Nothing}],
               tags' \in [TagNames -> Commits \union {Untagged}],
               announced' \in BOOLEAN, Promise!TaggedIsPublished'
        PROVE  IInv'
    BY <1>1, <1>2, FailsWell, OverKeeps
  <1>3. CASE UNCHANGED external
    <2>1. Promised
      BY <1>3 DEF Promised, Promise!vars
    <2>2. Promise!TaggedIsPublished'
      BY <1>3 DEF IInv, Promise!TaggedIsPublished, Promise!TagNames
    <2>3. QED
      BY <1>2, <1>3, <2>1, <2>2 DEF IInv, TypeOK
  <1>4. CASE /\ job = "publish" /\ index < Len(Order[current]) /\ registry[Upcoming] = Nothing
             /\ registry' = [registry EXCEPT ![Upcoming] = Bytes[current][Upcoming]]
             /\ UNCHANGED <<tags, announced>>
    <2>1. /\ current \in Commits /\ Upcoming \in Packages
          /\ Promise!Upload(Upcoming, current)
          /\ registry' \in [Packages -> {Bytes[c][p] : c \in Commits, p \in Packages}
                                          \union {Nothing}]
          /\ Promise!TaggedIsPublished'
      BY <1>4, UploadPromised
    <2>2. Promised
      BY <2>1 DEF Promised, Promise!Next
    <2>3. QED
      BY <1>2, <1>4, <2>1, <2>2 DEF IInv, TypeOK
  <1>5. ASSUME job = "tag", NEW t \in NextTags, tags' = [tags EXCEPT ![t] = current],
               UNCHANGED <<registry, announced>>
        PROVE  IInv' /\ Promised
    <2>1. /\ current \in Commits /\ t \in TagNames /\ Promise!Tag(t, current)
          /\ tags' \in [TagNames -> Commits \union {Untagged}]
          /\ Promise!TaggedIsPublished'
      BY <1>5, TagPromised
    <2>2. Promised
      BY <2>1 DEF Promised, Promise!Next, Promise!TagNames, TagNames
    <2>3. QED
      BY <1>2, <1>5, <2>1, <2>2 DEF IInv, TypeOK
  <1>6. CASE job = "tag" /\ NextTags = {} /\ announced' = TRUE /\ UNCHANGED <<registry, tags>>
    <2>1. Promised
      BY <1>6, AnnouncePromised DEF Promised, Promise!Next
    <2>2. Promise!TaggedIsPublished'
      BY <1>6 DEF IInv, Promise!TaggedIsPublished, Promise!TagNames
    <2>3. QED
      BY <1>2, <1>6, <2>1, <2>2 DEF IInv, TypeOK
  <1>7. QED
    BY <1>3, <1>4, <1>5, <1>6 DEF Breaks, Upcoming

LEMMA IInvStep == IInv /\ [Next]_vars => IInv' /\ Promised
  <1> SUFFICES ASSUME IInv, [Next]_vars PROVE IInv' /\ Promised
    OBVIOUS
  <1>1. CASE Push \/ StartPending \/ \E c \in Commits : RerunFailed(c) \/ RerunAll(c)
    <2>1. UNCHANGED external
      BY <1>1 DEF Push, StartPending, RerunFailed, RerunAll
    <2>2. QED
      BY <1>1, <2>1, QueueKeeps DEF Promised, Promise!vars, external
  <1>2. CASE Job
    BY <1>2, JobKeeps, PublishOneKeeps, TagKeeps DEF Job
  <1>3. CASE Breaks
    BY <1>3, BreaksKeeps
  <1>4. CASE UNCHANGED vars
    <2>1. Promised
      BY <1>4 DEF vars, external, Promised, Promise!vars
    <2>2. QED
      BY <1>4, <2>1 DEF vars, external, queue, IInv, TypeOK, WholeJobs, Uploaded, Released,
         Conflicting, Promise!TaggedIsPublished, Promise!TagNames
  <1>5. QED
    BY <1>1, <1>2, <1>3, <1>4 DEF Next

LEMMA Invariant == Spec => []IInv
  BY IInvInit, IInvStep, PTL DEF Spec

\* TypeOK is an invariant: a run is under way exactly while it has a job, and
\* no more steps fail than may.
THEOREM TypeCorrect == Spec => []TypeOK
  BY Invariant, PTL DEF IInv

\* A tag of the version points at a commit whose packages are what the registry
\* holds (tag pushes only after publish went through every package).
THEOREM TagsTellTheTruth == Spec => []Promise!TaggedIsPublished
  BY Invariant, PTL DEF IInv

\* Reruns, later pushes and steps that fail midway never publish a package
\* before its dependencies, move a tag, or tag what is not published: every
\* step of the workflow over release.mjs is a step of ReleaseVersion or none.
THEOREM ImplementsVersion == Spec => VersionImplemented
  <1>1. Init => Promise!Init
    BY DEF Init, Promise!Init, Promise!TagNames, TagNames
  <1>2. Spec => [][Promise!Next]_(Promise!vars)
    BY Invariant, IInvStep, PTL DEF Spec, Promised
  <1>3. Spec => Promise!Init /\ [][Promise!Next]_(Promise!vars)
    BY <1>1, <1>2, PTL DEF Spec
  <1>4. QED
    BY <1>3, PTL DEF VersionImplemented, Promise!Spec

-----------------------------------------------------------------------------
(* What one upload stands on, in whatever order commits publish.           *)

\* Each package in the registry has the bytes some commit packed, and with it
\* the registry has, byte for byte, all that commit publishes before it: what
\* the package needs, and what that needs in turn.
StandsOnOneCommit ==
  \A p \in Packages : registry[p] # Nothing =>
    \E c \in Commits, i \in 1..LastPlace :
      /\ Order[c][i] = p
      /\ \A j \in 1..i : registry[Order[c][j]] = Bytes[c][Order[c][j]]

LEMMA UploadStands ==
  ASSUME IInv, StandsOnOneCommit, job = "publish", index < Len(Order[current]),
         registry[Upcoming] = Nothing,
         registry' = [registry EXCEPT ![Upcoming] = Bytes[current][Upcoming]]
  PROVE  StandsOnOneCommit'
  <1>1. current \in Commits /\ index \in Nat
    BY DEF IInv, TypeOK
  <1>2. /\ LastPlace \in Nat /\ index + 1 \in 1..LastPlace
        /\ \A c \in Commits : Order[c] \in [1..LastPlace -> Packages]
    BY <1>1, OrderIsWhole
  <1>3. Upcoming \in Packages
    BY <1>1, <1>2 DEF Upcoming
  <1>4. /\ registry'[Upcoming] = Bytes[current][Upcoming]
        /\ \A p \in Packages : p # Upcoming => registry'[p] = registry[p]
    BY <1>3 DEF IInv, TypeOK
  <1> SUFFICES ASSUME NEW p \in Packages, registry'[p] # Nothing
               PROVE  \E c \in Commits, i \in 1..LastPlace :
                        /\ Order[c][i] = p
                        /\ \A j \in 1..i : registry'[Order[c][j]] = Bytes[c][Order[c][j]]
    BY DEF StandsOnOneCommit
  <1>5. CASE p = Upcoming
    <2> SUFFICES ASSUME NEW j \in 1..(index + 1)
                 PROVE  registry'[Order[current][j]] = Bytes[current][Order[current][j]]
      BY <1>1, <1>2, <1>5 DEF Upcoming
    <2>1. CASE j = index + 1
      BY <1>4, <2>1 DEF Upcoming
    <2>2. CASE j # index + 1
      <3>1. j \in 1..index /\ j \in 1..LastPlace
        BY <1>1, <1>2, <2>2
      <3>2. registry[Order[current][j]] = Bytes[current][Order[current][j]]
        BY <3>1 DEF IInv, Uploaded
      <3>3. Order[current][j] \in Packages
        BY <1>1, <1>2, <3>1
      <3>4. Bytes[current][Order[current][j]] # Nothing
        BY <1>1, <3>3, ReleaseAssumption
      <3>5. Order[current][j] # Upcoming
        BY <3>2, <3>4
      <3>6. QED
        BY <1>4, <3>2, <3>3, <3>5
    <2>3. QED
      BY <2>1, <2>2
  <1>6. CASE p # Upcoming
    <2>1. PICK c \in Commits, i \in 1..LastPlace :
            /\ Order[c][i] = p
            /\ \A j \in 1..i : registry[Order[c][j]] = Bytes[c][Order[c][j]]
      BY <1>4, <1>6 DEF StandsOnOneCommit
    <2>2. ASSUME NEW j \in 1..i PROVE registry'[Order[c][j]] = Bytes[c][Order[c][j]]
      <3>1. j \in 1..LastPlace
        BY <1>2
      <3>2. Order[c][j] \in Packages
        BY <1>2, <3>1
      <3>3. registry[Order[c][j]] = Bytes[c][Order[c][j]] /\ Bytes[c][Order[c][j]] # Nothing
        BY <2>1, <3>2, ReleaseAssumption
      <3>4. QED
        BY <1>4, <3>2, <3>3
    <2>3. QED
      BY <2>1, <2>2
  <1>7. QED
    BY <1>5, <1>6

\* As far as the code keeps docs/releasing.md's "from one commit on main" with
\* commits that publish in different orders: publish compares the bytes of every
\* package it finds, so what it uploads it puts on top of its own commit's
\* bytes. However often runs fail and are repeated, no package is ever in the
\* registry beside a dependency with other bytes than its commit packed.
THEOREM StandsOnOneCommitAlways == Spec => []StandsOnOneCommit
  <1>1. Init => StandsOnOneCommit
    BY DEF Init, StandsOnOneCommit
  <1>2. IInv /\ StandsOnOneCommit /\ [Next]_vars => StandsOnOneCommit'
    <2> SUFFICES ASSUME IInv, StandsOnOneCommit, [Next]_vars PROVE StandsOnOneCommit'
      OBVIOUS
    <2>1. CASE UNCHANGED registry
      BY <2>1 DEF StandsOnOneCommit
    <2>2. CASE ~UNCHANGED registry
      <3>1. /\ job = "publish" /\ index < Len(Order[current]) /\ registry[Upcoming] = Nothing
            /\ registry' = [registry EXCEPT ![Upcoming] = Bytes[current][Upcoming]]
        BY <2>2 DEF Next, vars, external, Push, StartPending, RerunFailed, RerunAll, Job, Version,
           Gate, Preflight, PublishOne, PublishDone, PushTag, Announce, Smoke, Breaks, Upcoming
      <3>2. QED
        BY <3>1, UploadStands
    <2>3. QED
      BY <2>1, <2>2
  <1>3. QED
    BY Invariant, <1>1, <1>2, PTL DEF Spec

-----------------------------------------------------------------------------
(* A command that reports a project made a whole one.                       *)

RunSteps == {"start", "directory", "kind", "policy", "database", "resolve", "check",
             "write", "done", "stopped"}
RunFields == {"at", "terminal", "request", "next", "exit"}

\* Command r has written, to its end, each of its files before number n.
Written(r, n) ==
  \A i \in 1..Len(FILES) :
    i < n /\ matches(FILES[i].when, partsOf(r)) =>
      FILES[i].path \in DOMAIN target /\ target[FILES[i].path] = [by |-> r, whole |-> TRUE]

\* Whoever writes at all has written the file that comes first: no two did.
FirstFile == FILES[1].path
FirstIsWriters ==
  \A p \in DOMAIN target : target[p].by # "person" =>
    FirstFile \in DOMAIN target /\ target[FirstFile].by = target[p].by

RunInv(r) ==
  /\ DOMAIN run[r] = RunFields /\ run[r].at \in RunSteps /\ run[r].next \in Nat \ {0}
  /\ DOMAIN run[r].request = DOMAIN NoRequest
  /\ {run[r].request.webName, run[r].request.serviceName} \subseteq AppNames
  /\ run[r].at \notin {"write", "done", "stopped"} => run[r].next = 1
  /\ run[r].at \in {"check", "write"} => Valid(run[r].request)
  /\ run[r].at = "write" => Written(r, run[r].next)
  /\ run[r].at = "done" /\ run[r].exit = appExitCodes.created =>
       Valid(run[r].request) /\ run[r].next > Len(FILES) /\ Written(r, run[r].next)

WholeInv == DOMAIN run = Runs /\ FirstIsWriters /\ \A r \in Runs : RunInv(r)

LEMMA FilesAreIndexed ==
  Len(FILES) \in Nat \ {0} /\ DOMAIN FILES = 1..Len(FILES)
BY TemplateAssumption, EmptySeq, LenProperties

LEMMA ValidApart ==
  ASSUME NEW q, Valid(q)
  PROVE  \A x, y \in choices(q).apps : x # y => Apart(x, y)
BY DEF Valid

LEMMA WholeInvIsWhole == ASSUME WholeInv PROVE CreatedIsWhole
<1> SUFFICES ASSUME NEW r \in Runs, run[r].at = "done", run[r].exit = appExitCodes.created,
                    NEW c, c = choices(run[r].request)
             PROVE  /\ \A f \in Selected({FILES[i] : i \in DOMAIN FILES}, c.parts) :
                         f.path \in DOMAIN target /\ target[f.path] = [by |-> r, whole |-> TRUE]
                    /\ \A p \in DOMAIN target : target[p].by \in {r, "person"}
                    /\ \A a, b \in c.apps : a # b => a.port # b.port /\ a.name.is # b.name.is
  BY DEF CreatedIsWhole
<1>1. Valid(run[r].request) /\ run[r].next > Len(FILES) /\ Written(r, run[r].next)
      /\ run[r].next \in Nat
  BY DEF WholeInv, RunInv
<1>2. ASSUME NEW f \in Selected({FILES[i] : i \in DOMAIN FILES}, c.parts)
      PROVE  f.path \in DOMAIN target /\ target[f.path] = [by |-> r, whole |-> TRUE]
  <2>1. PICK i \in DOMAIN FILES : f = FILES[i] /\ matches(FILES[i].when, partsOf(r))
    BY DEF Selected, partsOf
  <2>2. i \in 1..Len(FILES) /\ i < run[r].next
    BY <1>1, FilesAreIndexed
  <2> QED BY <1>1, <2>1, <2>2 DEF Written
<1>3. ASSUME NEW p \in DOMAIN target PROVE target[p].by \in {r, "person"}
  <2>1. matches(FILES[1].when, partsOf(r))
    BY TemplateAssumption DEF matches
  <2>2. target[FirstFile].by = r
    BY <1>1, <2>1, FilesAreIndexed DEF Written, FirstFile
  <2> QED BY <2>2 DEF WholeInv, FirstIsWriters
<1>4. ASSUME NEW a \in c.apps, NEW b \in c.apps, a # b
      PROVE  a.port # b.port /\ a.name.is # b.name.is
  <2>1. \A x, y \in c.apps : x # y => Apart(x, y)
    BY <1>1, ValidApart
  <2>2. a.name # b.name /\ a.port # b.port
    BY <1>4, <2>1 DEF Apart
  <2>3. \A app \in c.apps : app.name \in AppNames
    <3>1. run[r].request.webName \in AppNames /\ run[r].request.serviceName \in AppNames
          /\ defaults.web \in AppNames /\ defaults.service \in AppNames
      BY DEF WholeInv, RunInv, AppNames
    <3> QED BY <3>1 DEF choices, Given
  <2> QED BY <2>3, <2>2, RequestsAssumption
<1> QED BY <1>2, <1>3, <1>4

LEMMA InitWholeInv == ASSUME AppInit PROVE WholeInv
<1>1. NoName \in AppNames
  BY DEF AppNames
<1> QED BY <1>1
        DEF AppInit, WholeInv, FirstIsWriters, RunInv, RunFields, RunSteps, IdleRun,
            NoRequest, NotEnded, appExitCodes

-----------------------------------------------------------------------------
(* Steps.                                                                   *)

\* No file of the directory goes or changes.
Grows == DOMAIN target \subseteq DOMAIN target' /\ \A p \in DOMAIN target : target'[p] = target[p]
\* Only command r moved.
Moved(r) == DOMAIN run' = Runs /\ \A s \in Runs \ {r} : run'[s] = run[s]
GoodRequest(q) == DOMAIN q = DOMAIN NoRequest /\ {q.webName, q.serviceName} \subseteq AppNames

LEMMA WrittenKept ==
  ASSUME NEW r \in Runs, NEW n, Written(r, n), Grows, run'[r].request = run[r].request
  PROVE  Written(r, n)'
BY DEF Written, Grows, partsOf

LEMMA WrittenNext ==
  ASSUME NEW r \in Runs, NEW i \in Nat, Written(r, i)',
         matches(FILES[i].when, partsOf(r)') =>
           FILES[i].path \in DOMAIN target' /\ target'[FILES[i].path] = [by |-> r, whole |-> TRUE]
  PROVE  Written(r, i + 1)'
<1>1. \A j \in 1..Len(FILES) : j < i + 1 <=> j < i \/ j = i
  BY FilesAreIndexed
<1> QED BY <1>1 DEF Written

LEMMA RunInvKept ==
  ASSUME NEW r \in Runs, RunInv(r), Grows, run'[r] = run[r]
  PROVE  RunInv(r)'
<1>1. \A n : Written(r, n) => Written(r, n)'
  BY WrittenKept
<1> QED BY <1>1 DEF RunInv

LEMMA MoveKeeps ==
  ASSUME WholeInv, NEW r \in Runs, Moved(r), Grows, FirstIsWriters', RunInv(r)'
  PROVE  WholeInv'
<1>1. ASSUME NEW s \in Runs PROVE RunInv(s)'
  <2>1. CASE s = r
    BY <2>1
  <2>2. CASE s # r
    BY <2>2, RunInvKept DEF WholeInv, Moved
  <2> QED BY <2>1, <2>2
<1> QED BY <1>1 DEF WholeInv, Moved

LEMMA StaysFirst == ASSUME WholeInv, UNCHANGED target PROVE Grows /\ FirstIsWriters'
BY DEF WholeInv, Grows, FirstIsWriters

LEMMA GoesEffect ==
  ASSUME WholeInv, NEW r \in Runs, NEW fields, RunGoes(r, fields)
  PROVE  /\ Moved(r) /\ DOMAIN run'[r] = RunFields
         /\ \A f \in RunFields :
              run'[r][f] = IF f \in DOMAIN fields THEN fields[f] ELSE run[r][f]
BY DEF WholeInv, RunInv, RunGoes, Moved

\* A step to a question, or past it.
LEMMA AskedKeeps ==
  ASSUME WholeInv, NEW r \in Runs, UNCHANGED target,
         run[r].at \notin {"write", "done", "stopped"},
         NEW next \in RunSteps \ {"check", "write", "done"},
         NEW fields, RunGoes(r, fields), "at" \in DOMAIN fields, fields.at = next,
         "next" \notin DOMAIN fields,
         "request" \in DOMAIN fields => GoodRequest(fields.request)
  PROVE  WholeInv'
<1>1. /\ Moved(r) /\ DOMAIN run'[r] = RunFields
      /\ run'[r].at = next /\ run'[r].next = run[r].next
      /\ run'[r].request = IF "request" \in DOMAIN fields THEN fields.request ELSE run[r].request
  BY GoesEffect DEF RunFields
<1>2. RunInv(r)'
  BY <1>1 DEF WholeInv, RunInv, GoodRequest
<1> QED BY <1>1, <1>2, MoveKeeps, StaysFirst

LEMMA StopsKeeps ==
  ASSUME WholeInv, NEW r \in Runs, NEW code, code # appExitCodes.created, Stops(r, code),
         Grows, FirstIsWriters'
  PROVE  WholeInv'
<1>1. /\ Moved(r) /\ run'[r] = [IdleRun EXCEPT !.at = "done", !.exit = code]
  BY DEF Stops, Moved, WholeInv
<1>2. NoName \in AppNames
  BY DEF AppNames
<1>3. RunInv(r)'
  BY <1>1, <1>2 DEF RunInv, RunFields, RunSteps, IdleRun, NoRequest
<1> QED BY <1>1, <1>3, MoveKeeps

LEMMA StopRunEarlyKeeps ==
  ASSUME WholeInv, NEW r \in Runs, StopRunEarly(r) PROVE WholeInv'
<1>1. PICK outcome \in {"usage", "created"} :
        RunGoes(r, [at |-> "stopped", exit |-> appExitCodes[outcome]])
  BY DEF StopRunEarly
<1> QED BY <1>1, AskedKeeps DEF StopRunEarly, RunAt, RunSteps

LEMMA BeginRunKeeps ==
  ASSUME WholeInv, NEW r \in Runs, BeginRun(r) PROVE WholeInv'
<1>1. PICK request \in Requests, terminal \in BOOLEAN :
        RunGoes(r, [at |-> IF terminal THEN "directory" ELSE "resolve", terminal |-> terminal,
                    request |-> request])
  BY DEF BeginRun
<1>2. GoodRequest(request)
  BY RequestsAssumption DEF GoodRequest, AppNames
<1> DEFINE next == IF terminal THEN "directory" ELSE "resolve"
           fields == [at |-> next, terminal |-> terminal, request |-> request]
<1>3. next \in RunSteps \ {"check", "write", "done"}
  BY DEF RunSteps
<1>4. /\ "at" \in DOMAIN fields /\ fields.at = next /\ "next" \notin DOMAIN fields
      /\ fields.request = request /\ RunGoes(r, fields)
  BY <1>1
<1> HIDE DEF next, fields
<1> QED BY <1>2, <1>3, <1>4, AskedKeeps DEF BeginRun, RunAt

LEMMA QuestionKeeps ==
  ASSUME WholeInv, NEW r \in Runs, UNCHANGED target,
         run[r].at \notin {"write", "done", "stopped"},
         NEW next \in RunSteps \ {"check", "write", "done"}, NEW q, GoodRequest(q),
         RunGoes(r, [at |-> next, request |-> q]) \/ RunGoes(r, [at |-> next])
  PROVE  WholeInv'
<1>1. CASE RunGoes(r, [at |-> next, request |-> q])
  BY <1>1, AskedKeeps
<1>2. CASE RunGoes(r, [at |-> next])
  BY <1>2, AskedKeeps
<1> QED BY <1>1, <1>2

LEMMA AskKeeps ==
  ASSUME WholeInv, NEW r \in Runs,
         AskDirectory(r) \/ AskKind(r) \/ AskPolicy(r) \/ AskDatabase(r)
  PROVE  WholeInv'
<1> DEFINE q == run[r].request
<1>1. GoodRequest(q)
  BY DEF WholeInv, RunInv, GoodRequest
<1>2. {"kind", "policy", "database", "resolve"} \subseteq RunSteps \ {"check", "write", "done"}
  BY DEF RunSteps
<1>3. CASE AskDirectory(r)
  <2>1. PICK a : \/ RunGoes(r, [at |-> "kind", request |-> [q EXCEPT !.directory = a]])
                 \/ RunGoes(r, [at |-> "kind"])
    BY <1>3 DEF AskDirectory, Question
  <2>2. GoodRequest([q EXCEPT !.directory = a])
    BY <1>1 DEF GoodRequest, NoRequest
  <2> QED BY <1>2, <1>3, <2>1, <2>2, QuestionKeeps DEF AskDirectory, Question, RunAt
<1>4. CASE AskKind(r)
  <2>1. PICK a : \/ RunGoes(r, [at |-> "policy",
                        request |-> [q EXCEPT !.web = a # "service", !.service = a # "web"]])
                 \/ RunGoes(r, [at |-> "policy"])
    BY <1>4 DEF AskKind, Question
  <2>2. GoodRequest([q EXCEPT !.web = a # "service", !.service = a # "web"])
    BY <1>1 DEF GoodRequest, NoRequest
  <2> QED BY <1>2, <1>4, <2>1, <2>2, QuestionKeeps DEF AskKind, Question, RunAt
<1>5. CASE AskPolicy(r)
  <2>1. PICK a : \/ RunGoes(r, [at |-> "database", request |-> [q EXCEPT !.policy = a]])
                 \/ RunGoes(r, [at |-> "database"])
    BY <1>5 DEF AskPolicy, Question
  <2>2. GoodRequest([q EXCEPT !.policy = a])
    BY <1>1 DEF GoodRequest, NoRequest
  <2> QED BY <1>2, <1>5, <2>1, <2>2, QuestionKeeps DEF AskPolicy, Question, RunAt
<1>6. CASE AskDatabase(r)
  <2>1. PICK a : \/ RunGoes(r, [at |-> "resolve", request |-> [q EXCEPT !.database = a]])
                 \/ RunGoes(r, [at |-> "resolve"])
    BY <1>6 DEF AskDatabase, Question
  <2>2. GoodRequest([q EXCEPT !.database = a])
    BY <1>1 DEF GoodRequest, NoRequest
  <2> QED BY <1>2, <1>6, <2>1, <2>2, QuestionKeeps DEF AskDatabase, Question, RunAt
<1> QED BY <1>3, <1>4, <1>5, <1>6

LEMMA AnswerErrorKeeps ==
  ASSUME WholeInv, NEW r \in Runs, AnswerError(r) PROVE WholeInv'
<1>1. Stops(r, appExitCodes.usage) /\ UNCHANGED target /\ appExitCodes.usage # appExitCodes.created
  BY DEF AnswerError, RunExits, appExitCodes
<1> QED BY <1>1, StaysFirst, StopsKeeps

LEMMA resolveChoicesKeeps ==
  ASSUME WholeInv, NEW r \in Runs, resolveChoices(r) PROVE WholeInv'
<1>1. CASE ~Valid(run[r].request)
  <2>1. Stops(r, appExitCodes.usage) /\ UNCHANGED target /\ appExitCodes.usage # appExitCodes.created
    BY <1>1 DEF resolveChoices, RunExits, appExitCodes
  <2> QED BY <2>1, StaysFirst, StopsKeeps
<1>2. CASE Valid(run[r].request)
  <2>1. RunGoes(r, [at |-> "check"]) /\ UNCHANGED target
    BY <1>2 DEF resolveChoices, RunAt
  <2>2. /\ Moved(r) /\ DOMAIN run'[r] = RunFields
        /\ run'[r].at = "check" /\ run'[r].next = run[r].next /\ run'[r].request = run[r].request
    BY <2>1, GoesEffect DEF RunFields
  <2>3. RunInv(r)'
    BY <1>2, <2>2 DEF WholeInv, RunInv, RunSteps, resolveChoices, RunAt
  <2> QED BY <2>1, <2>2, <2>3, StaysFirst, MoveKeeps
<1> QED BY <1>1, <1>2

LEMMA CheckTargetKeeps ==
  ASSUME WholeInv, NEW r \in Runs, CheckTarget(r) PROVE WholeInv'
<1>1. CASE ~(DOMAIN target \subseteq {".git"})
  <2>1. Stops(r, appExitCodes.failed) /\ UNCHANGED target /\ appExitCodes.failed # appExitCodes.created
    BY <1>1 DEF CheckTarget, RunExits, appExitCodes
  <2> QED BY <2>1, StaysFirst, StopsKeeps
<1>2. CASE DOMAIN target \subseteq {".git"}
  <2>1. RunGoes(r, [at |-> "write"]) /\ UNCHANGED target /\ run[r].at = "check"
    BY <1>2 DEF CheckTarget, RunAt
  <2>2. /\ Moved(r) /\ DOMAIN run'[r] = RunFields
        /\ run'[r].at = "write" /\ run'[r].next = run[r].next /\ run'[r].request = run[r].request
    BY <2>1, GoesEffect DEF RunFields
  <2>3. run[r].next = 1
    BY <2>1 DEF WholeInv, RunInv
  \* It has written none yet, and none comes before the first.
  <2>4. Written(r, 1)'
    BY FilesAreIndexed DEF Written
  <2>5. RunInv(r)'
    BY <2>1, <2>2, <2>3, <2>4 DEF WholeInv, RunInv, RunSteps
  <2> QED BY <2>1, <2>2, <2>5, StaysFirst, MoveKeeps
<1> QED BY <1>1, <1>2

LEMMA PutGrows ==
  ASSUME NEW path, path \notin DOMAIN target, NEW file, target' = Put(path, file)
  PROVE  /\ Grows /\ DOMAIN target' = DOMAIN target \union {path} /\ target'[path] = file
BY DEF Grows, Put

\* What a command writes first is the first file; so what it writes later finds
\* that file written, by itself.
LEMMA WriterIsFirst ==
  ASSUME WholeInv, NEW r \in Runs, run[r].at = "write", run[r].next <= Len(FILES),
         matches(FILES[run[r].next].when, partsOf(r)),
         FILES[run[r].next].path \notin DOMAIN target,
         NEW whole, target' = Put(FILES[run[r].next].path, [by |-> r, whole |-> whole])
  PROVE  FirstIsWriters'
<1> DEFINE i == run[r].next
           path == FILES[i].path
           file == [by |-> r, whole |-> whole]
<1>1. Grows /\ DOMAIN target' = DOMAIN target \union {path} /\ target'[path] = file /\ file.by = r
  BY PutGrows
<1>2. i \in Nat \ {0} /\ Written(r, i)
  BY DEF WholeInv, RunInv
<1>3. i = 1 \/ i > 1
  BY <1>2
<1>4. CASE i = 1
  <2>1. path = FirstFile /\ FirstFile \notin DOMAIN target
    BY <1>4 DEF FirstFile
  <2>2. \A p \in DOMAIN target : target[p].by = "person"
    BY <2>1 DEF WholeInv, FirstIsWriters
  <2> QED BY <1>1, <2>1, <2>2 DEF FirstIsWriters, Grows
<1>5. CASE i > 1
  <2>1. matches(FILES[1].when, partsOf(r)) /\ 1 \in 1..Len(FILES)
    BY TemplateAssumption, FilesAreIndexed DEF matches
  <2>2. FirstFile \in DOMAIN target /\ target[FirstFile] = [by |-> r, whole |-> TRUE]
    BY <1>2, <1>5, <2>1 DEF Written, FirstFile
  <2>3. FirstFile \in DOMAIN target' /\ target'[FirstFile].by = r
    BY <1>1, <2>2 DEF Grows
  <2>4. ASSUME NEW p \in DOMAIN target', target'[p].by # "person"
        PROVE  target'[p].by = r
    <3>1. CASE p = path
      BY <1>1, <3>1
    <3>2. CASE p \in DOMAIN target
      BY <1>1, <2>2, <2>4, <3>2 DEF Grows, WholeInv, FirstIsWriters
    <3> QED BY <1>1, <3>1, <3>2
  <2> QED BY <2>3, <2>4 DEF FirstIsWriters
<1> QED BY <1>2, <1>3, <1>4, <1>5

LEMMA WriteFileKeeps ==
  ASSUME WholeInv, NEW r \in Runs, WriteFile(r) PROVE WholeInv'
<1>1. PICK i \in Nat \ {0} : i = run[r].next
  BY DEF WholeInv, RunInv
<1>2. PICK path : path = FILES[i].path
  OBVIOUS
<1>3. run[r].at = "write" /\ Written(r, i) /\ Valid(run[r].request)
  BY <1>1 DEF WriteFile, RunAt, WholeInv, RunInv
<1>4. CASE i > Len(FILES)
  <2>1. Stops(r, appExitCodes.created) /\ UNCHANGED target
    BY <1>1, <1>4 DEF WriteFile, RunExits
  <2>2. Moved(r) /\ run'[r] = [run[r] EXCEPT !.at = "done", !.exit = appExitCodes.created]
    BY <2>1 DEF Stops, Moved, WholeInv
  <2>3. /\ DOMAIN run'[r] = RunFields /\ run'[r].at = "done" /\ run'[r].next = i
        /\ run'[r].request = run[r].request
    BY <1>1, <2>2 DEF WholeInv, RunInv, RunFields
  <2>4. Written(r, i)'
    BY <1>1, <1>2, <1>3, <2>1, <2>3, WrittenKept, StaysFirst
  <2>5. RunInv(r)'
    BY <1>1, <1>2, <1>3, <1>4, <2>3, <2>4 DEF WholeInv, RunInv, RunSteps
  <2> QED BY <2>1, <2>2, <2>5, StaysFirst, MoveKeeps
<1>5. CASE i <= Len(FILES) /\ ~matches(FILES[i].when, partsOf(r))
  <2>1. RunGoes(r, [next |-> i + 1]) /\ UNCHANGED target
    BY <1>1, <1>2, <1>3, <1>5, FilesAreIndexed DEF WriteFile
  <2>2. /\ Moved(r) /\ DOMAIN run'[r] = RunFields /\ run'[r].at = "write"
        /\ run'[r].next = i + 1 /\ run'[r].request = run[r].request
    BY <1>1, <1>2, <1>3, <2>1, GoesEffect DEF RunFields
  <2>3. Written(r, i)'
    BY <1>1, <1>2, <1>3, <2>1, <2>2, WrittenKept, StaysFirst
  <2>4. ~matches(FILES[i].when, partsOf(r)')
    BY <1>5, <2>2 DEF partsOf
  <2>5. Written(r, i + 1)'
    BY <2>3, <2>4, WrittenNext
  <2>6. RunInv(r)'
    BY <1>1, <1>2, <1>3, <2>2, <2>5 DEF WholeInv, RunInv, RunSteps
  <2> QED BY <2>1, <2>2, <2>6, StaysFirst, MoveKeeps
<1>6. CASE i <= Len(FILES) /\ matches(FILES[i].when, partsOf(r)) /\ path \in DOMAIN target
  <2>1. Stops(r, appExitCodes.failed) /\ UNCHANGED target /\ appExitCodes.failed # appExitCodes.created
    BY <1>1, <1>2, <1>3, <1>6, FilesAreIndexed DEF WriteFile, Creatable, RunExits, appExitCodes
  <2> QED BY <2>1, StaysFirst, StopsKeeps
<1>7. CASE i <= Len(FILES) /\ matches(FILES[i].when, partsOf(r)) /\ path \notin DOMAIN target
  <2>1. target' = Put(path, [by |-> r, whole |-> TRUE]) /\ RunGoes(r, [next |-> i + 1])
    BY <1>1, <1>2, <1>3, <1>7, FilesAreIndexed DEF WriteFile, Creatable
  <2>2. /\ Moved(r) /\ DOMAIN run'[r] = RunFields /\ run'[r].at = "write"
        /\ run'[r].next = i + 1 /\ run'[r].request = run[r].request
    BY <1>1, <1>2, <1>3, <2>1, GoesEffect DEF RunFields
  <2>3. Grows /\ path \in DOMAIN target' /\ target'[path] = [by |-> r, whole |-> TRUE]
    <3>1. PICK file : file = [by |-> r, whole |-> TRUE]
      OBVIOUS
    <3>2. path \notin DOMAIN target /\ target' = Put(path, file)
      BY Zenon, <1>7, <2>1, <3>1
    <3>3. Grows /\ DOMAIN target' = DOMAIN target \union {path} /\ target'[path] = file
      BY <3>2, PutGrows
    <3> QED BY <3>1, <3>3
  <2>4. Written(r, i)'
    BY <1>1, <1>2, <1>3, <2>2, <2>3, WrittenKept
  <2>5. Written(r, i + 1)'
    BY <1>2, <2>3, <2>4, WrittenNext
  <2>6. FirstIsWriters'
    BY <1>1, <1>2, <1>3, <1>7, <2>1, WriterIsFirst
  <2>7. RunInv(r)'
    BY <1>1, <1>2, <1>3, <2>2, <2>5 DEF WholeInv, RunInv, RunSteps
  <2> QED BY <2>2, <2>3, <2>6, <2>7, MoveKeeps
<1> QED BY <1>1, <1>2, <1>3, <1>4, <1>5, <1>6, <1>7, FilesAreIndexed

LEMMA DieKeeps ==
  ASSUME WholeInv, NEW r \in Runs, Die(r) PROVE WholeInv'
<1>1. Stops(r, appExitCodes.failed) /\ appExitCodes.failed # appExitCodes.created
  BY DEF Die, appExitCodes
<1>2. CASE UNCHANGED target
  BY <1>1, <1>2, StaysFirst, StopsKeeps
<1>3. CASE target # target'
  <2>1. /\ run[r].at = "write" /\ run[r].next <= Len(FILES)
        /\ matches(FILES[run[r].next].when, partsOf(r))
        /\ FILES[run[r].next].path \notin DOMAIN target
        /\ target' = Put(FILES[run[r].next].path, [by |-> r, whole |-> FALSE])
    BY <1>3 DEF Die, RunAt, Creatable
  <2>2. Grows
    BY <2>1, PutGrows
  <2>3. FirstIsWriters'
    BY <2>1, WriterIsFirst
  <2> QED BY <1>1, <2>2, <2>3, StopsKeeps
<1> QED BY <1>2, <1>3

LEMMA AddKeeps ==
  ASSUME WholeInv, NEW path \in Paths, Add(path) PROVE WholeInv'
<1>1. path \notin DOMAIN target /\ target' = Put(path, [by |-> "person", whole |-> TRUE])
  BY DEF Add
<1>2. /\ Grows /\ DOMAIN target' = DOMAIN target \union {path}
      /\ target'[path] = [by |-> "person", whole |-> TRUE]
  BY <1>1, PutGrows
<1>3. FirstIsWriters'
  BY <1>2 DEF WholeInv, FirstIsWriters, Grows
<1>4. \A r \in Runs : RunInv(r)'
  BY <1>2, RunInvKept DEF Add, WholeInv
<1> QED BY <1>3, <1>4 DEF WholeInv, Add

LEMMA NextWholeInv == ASSUME WholeInv, [AppNext]_appVars PROVE WholeInv'
<1>1. ASSUME NEW r \in Runs,
             \/ StopRunEarly(r) \/ BeginRun(r)
             \/ AskDirectory(r) \/ AskKind(r) \/ AskPolicy(r) \/ AskDatabase(r) \/ AnswerError(r)
             \/ resolveChoices(r) \/ CheckTarget(r) \/ WriteFile(r) \/ Die(r)
      PROVE  WholeInv'
  BY <1>1, StopRunEarlyKeeps, BeginRunKeeps, AskKeeps, AnswerErrorKeeps, resolveChoicesKeeps,
     CheckTargetKeeps, WriteFileKeeps, DieKeeps
<1>2. ASSUME NEW path \in Paths, Add(path) PROVE WholeInv'
  BY <1>2, AddKeeps
<1>3. CASE UNCHANGED appVars
  <2>1. run' = run /\ Grows /\ FirstIsWriters'
    BY <1>3, StaysFirst DEF appVars
  <2> QED BY <2>1, RunInvKept DEF WholeInv
<1> QED BY <1>1, <1>2, <1>3 DEF AppNext

\* A command that reports success left a whole project, whatever other commands
\* and the person did in the directory meanwhile: CheckTarget and WriteFile of
\* module CreateApp (packages/create-app/src/scaffold.ts).
THEOREM CreatedIsWholeAlways == AppSpec => []CreatedIsWhole
<1>1. AppInit => WholeInv
  BY InitWholeInv
<1>2. WholeInv /\ [AppNext]_appVars => WholeInv'
  BY NextWholeInv
<1>3. WholeInv => CreatedIsWhole
  BY WholeInvIsWhole
<1> QED BY <1>1, <1>2, <1>3, PTL DEF AppSpec

-----------------------------------------------------------------------------
(* The catalog holds what was reviewed.                                     *)

\* What the checks passed: skills the generator renders, which cite at some
\* release what is there.
Reviewed(skills) ==
  /\ DOMAIN skills # {} /\ ~shapeProblems(skills)
  /\ \E t \in DOMAIN releases : checkCitations(skills, commits[releases[t]].files) = {}

HistoryInv ==
  /\ commits \in Seq([skills : SkillSets, files : Trees])
  /\ \A t \in DOMAIN releases : releases[t] \in 1..Len(commits)

\* The skills of the commit are the same ones at the check and at every write,
\* whatever is committed and tagged meanwhile.
SyncInv ==
  /\ stage \in {"ref", "check"} => \E t \in DOMAIN releases : release = releases[t]
  /\ stage \in {"check", "remove", "write"} => commit \in 1..Len(commits)
  /\ stage \in {"remove", "write"} => Reviewed(commits[commit].skills)

\* While it writes, the catalog has of the commit's files those not left.
WritingInv ==
  stage = "write" =>
    /\ left # {} /\ left \subseteq DOMAIN commits[commit].skills
    /\ DOMAIN catalog = DOMAIN commits[commit].skills \ left
    /\ \A f \in DOMAIN catalog : catalog[f] = commits[commit].skills[f]

HoldsOne == \E c \in 1..Len(commits) : catalog = commits[c].skills /\ Reviewed(catalog)
CatalogInv == stage = "write" \/ cut \/ catalog = Older \/ HoldsOne

CopyInv == HistoryInv /\ SyncInv /\ WritingInv /\ CatalogInv

LEMMA ReviewedRenders == ASSUME NEW skills, ~shapeProblems(skills) PROVE Renders(skills)
<1> DEFINE skillFiles == {f \in DOMAIN skills : f.base = "SKILL.md"}
<1>1. \A f \in DOMAIN skills : ~skills[f].symlink
  BY DEF shapeProblems
<1>2. \A f \in skillFiles : IsSkill(f) /\ ~SkillProblem(f, skills)
  BY <1>1 DEF shapeProblems
<1>3. ASSUME NEW f \in skillFiles, NEW g \in skillFiles, Generated(f) = Generated(g) PROVE f = g
  BY <1>1, <1>2, <1>3 DEF SkillProblem
<1>4. ASSUME NEW f \in skillFiles
      PROVE  \E i \in DOMAIN skills[f].header :
               skills[f].header[i].key = "name" /\ skills[f].header[i].value = f.dirs[2]
  <2>1. OneField(skills[f], "name", LAMBDA value : value = f.dirs[2])
    BY <1>2 DEF SkillProblem
  <2> QED BY <2>1 DEF OneField, frontmatter
<1> DEFINE bundles == parseBundles(skills[Settings].lines).bundles
<1>5. ASSUME Settings \in DOMAIN skills, NEW i \in DOMAIN bundles,
             NEW member \in ToSet(bundles[i].members)
      PROVE  \E f \in skillFiles : f.dirs = member
  <2>1. member \in {f.dirs : f \in {g \in {h \in DOMAIN skills : ~skills[h].symlink} : IsSkill(g)}}
    BY <1>1, <1>5 DEF shapeProblems
  <2> QED BY <2>1 DEF IsSkill
<1> QED BY <1>1, <1>3, <1>4, <1>5 DEF Renders

LEMMA CopyInvHolds == ASSUME CopyInv PROVE CatalogHoldsReviewed
BY ReviewedRenders DEF CopyInv, CatalogInv, HoldsOne, Reviewed, CatalogHoldsReviewed, Head1

LEMMA InitCopyInv == ASSUME SyncInit PROVE CopyInv
BY EmptySeq DEF SyncInit, CopyInv, HistoryInv, SyncInv, WritingInv, CatalogInv

-----------------------------------------------------------------------------
(* Steps.                                                                   *)

\* A step that only moves the run, to a step before the check.
LEMMA RunMoves ==
  ASSUME CopyInv, UNCHANGED <<repository, catalog, cut>>, stage # "write", stage' # "write",
         SyncInv'
  PROVE  CopyInv'
BY DEF CopyInv, HistoryInv, WritingInv, CatalogInv, HoldsOne, Reviewed, repository

LEMMA SyncEnds ==
  ASSUME CopyInv, UNCHANGED <<repository, catalog, cut>>, stage # "write", NEW code, EndSync(code)
  PROVE  CopyInv'
<1>1. stage' = "idle"
  BY DEF EndSync
<1> QED BY <1>1, RunMoves DEF SyncInv

LEMMA RunStepKeeps ==
  ASSUME CopyInv,
         \/ \E options \in [ref : BOOLEAN, tag : BOOLEAN] : BeginSync(options)
         \/ SyncUsage \/ Status \/ ResolveTag \/ ResolveRef \/ CheckSkills
  PROVE  CopyInv'
<1>1. CASE \E options \in [ref : BOOLEAN, tag : BOOLEAN] : BeginSync(options)
  <2>1. UNCHANGED <<repository, catalog, cut>> /\ stage = "idle" /\ stage' = "status"
    BY <1>1 DEF BeginSync
  <2> QED BY <2>1, RunMoves DEF SyncInv
<1>2. CASE SyncUsage
  BY <1>2, SyncEnds DEF SyncUsage
<1>3. CASE Status
  <2>1. UNCHANGED <<repository, catalog, cut>> /\ stage = "status" /\ stage' \in {"tag", "idle"}
    BY <1>3 DEF Status, SyncStep, EndSync
  <2> QED BY <2>1, RunMoves DEF SyncInv
<1>4. CASE ResolveTag
  <2>1. UNCHANGED <<repository, catalog, cut>> /\ stage = "tag"
    BY <1>4 DEF ResolveTag, SyncStep
  <2>2. CASE DOMAIN releases = {}
    BY <1>4, <2>1, <2>2, SyncEnds DEF ResolveTag, SyncStep
  <2>3. CASE DOMAIN releases # {}
    <3>1. stage' = "ref" /\ \E t \in DOMAIN releases : release' = releases[t]
      BY <1>4, <2>3 DEF ResolveTag, SyncStep
    <3> QED BY <2>1, <3>1, RunMoves DEF SyncInv, repository
  <2> QED BY <2>2, <2>3
<1>5. CASE ResolveRef
  <2>1. /\ UNCHANGED <<repository, catalog, cut, release>> /\ stage = "ref" /\ stage' = "check"
        /\ commit' \in IF given.ref THEN 1..Head1 ELSE {Head1}
    BY <1>5 DEF ResolveRef, SyncStep
  <2>2. \E t \in DOMAIN releases : release = releases[t] /\ releases[t] \in 1..Len(commits)
    BY <2>1 DEF CopyInv, SyncInv, HistoryInv
  <2>3. commit' \in 1..Len(commits)
    <3>1. Len(commits) \in Nat
      BY LenProperties DEF CopyInv, HistoryInv
    <3> QED BY <2>1, <2>2, <3>1 DEF Head1
  <2>4. SyncInv'
    BY <2>1, <2>2, <2>3 DEF SyncInv, repository
  <2> QED BY <2>1, <2>4, RunMoves
<1>6. CASE CheckSkills
  <2>1. UNCHANGED <<repository, catalog, cut>> /\ stage = "check" /\ stage' \in {"remove", "idle"}
    BY <1>6 DEF CheckSkills, SyncStep, EndSync
  <2>2. CASE stage' = "idle"
    BY <2>1, <2>2, RunMoves DEF SyncInv
  <2>3. CASE stage' = "remove"
    <3>1. /\ DOMAIN Checked # {} /\ ~shapeProblems(Checked)
          /\ checkCitations(Checked, commits[release].files) = {}
          /\ UNCHANGED <<release, commit>>
      BY <1>6, <2>3 DEF CheckSkills, SyncStep, EndSync
    <3>2. /\ commit \in 1..Len(commits)
          /\ \E t \in DOMAIN releases : release = releases[t]
      BY <2>1 DEF CopyInv, SyncInv
    <3>3. Reviewed(commits[commit].skills)
      BY <3>1, <3>2 DEF Reviewed, Checked
    <3>4. SyncInv'
      BY <2>1, <2>3, <3>1, <3>2, <3>3 DEF SyncInv, Reviewed, repository
    <3> QED BY <2>1, <2>3, <3>4, RunMoves
  <2> QED BY <2>1, <2>2, <2>3
<1> QED BY <1>1, <1>2, <1>3, <1>4, <1>5, <1>6

LEMMA RemoveOldKeeps == ASSUME CopyInv, RemoveOld PROVE CopyInv'
<1>1. /\ UNCHANGED <<repository, release, commit, cut>> /\ stage = "remove" /\ stage' = "write"
      /\ DOMAIN catalog' = {} /\ left' = DOMAIN commits[commit].skills
  BY DEF RemoveOld
<1>2. Reviewed(commits[commit].skills) /\ commit \in 1..Len(commits)
  BY <1>1 DEF CopyInv, SyncInv
<1>3. HistoryInv'
  BY <1>1 DEF CopyInv, HistoryInv, repository
<1>4. SyncInv'
  BY <1>1, <1>2 DEF SyncInv, Reviewed, repository
<1>5. WritingInv'
  BY <1>1, <1>2 DEF WritingInv, Reviewed, repository
<1> QED BY <1>1, <1>3, <1>4, <1>5 DEF CopyInv, CatalogInv

LEMMA WriteSkillKeeps == ASSUME CopyInv, NEW f \in left, WriteSkill(f) PROVE CopyInv'
<1> DEFINE skills == commits[commit].skills
<1>1. /\ UNCHANGED repository /\ stage = "write"
      /\ catalog' = [x \in DOMAIN catalog \union {f} |-> IF x = f THEN skills[f] ELSE catalog[x]]
  BY DEF WriteSkill
<1>2. /\ commit \in 1..Len(commits) /\ Reviewed(skills)
      /\ f \in DOMAIN skills /\ left \subseteq DOMAIN skills
      /\ DOMAIN catalog = DOMAIN skills \ left
      /\ \A x \in DOMAIN catalog : catalog[x] = skills[x]
  BY <1>1 DEF CopyInv, SyncInv, WritingInv
<1>3. /\ DOMAIN catalog' = DOMAIN skills \ (left \ {f})
      /\ \A x \in DOMAIN catalog' : catalog'[x] = skills[x]
  BY <1>1, <1>2
<1>4. HistoryInv'
  BY <1>1 DEF CopyInv, HistoryInv, repository
<1>5. CASE left = {f}
  <2>1. stage' = "idle"
    BY <1>5 DEF WriteSkill, EndSync
  <2>2. skills = [x \in DOMAIN skills |-> skills[x]]
    <3>1. commits[commit] \in [skills : SkillSets, files : Trees]
      BY <1>2, ElementOfSeq DEF CopyInv, HistoryInv
    <3> QED BY <3>1, SkillsAssumption
  <2>3. catalog' = [x \in DOMAIN skills |-> skills[x]]
    BY <1>1, <1>2, <1>5
  <2>4. HoldsOne'
    BY <1>1, <1>2, <2>2, <2>3 DEF HoldsOne, Reviewed, repository
  <2> QED BY <1>4, <2>1, <2>4 DEF CopyInv, SyncInv, WritingInv, CatalogInv
<1>6. CASE left # {f}
  <2>1. left' = left \ {f} /\ UNCHANGED <<stage, release, commit>>
    BY <1>6 DEF WriteSkill
  <2>2. SyncInv'
    BY <1>1, <1>2, <2>1 DEF SyncInv, Reviewed, repository
  <2>3. WritingInv'
    BY <1>1, <1>2, <1>3, <1>6, <2>1 DEF WritingInv, repository
  <2> QED BY <1>1, <1>4, <2>1, <2>2, <2>3 DEF CopyInv, CatalogInv
<1> QED BY <1>5, <1>6

LEMMA KilledKeeps == ASSUME CopyInv, Killed PROVE CopyInv'
BY DEF Killed, EndSync, CopyInv, HistoryInv, SyncInv, WritingInv, CatalogInv, HoldsOne, Reviewed,
       repository

\* A commit or a tag leaves every earlier commit, and every earlier tag, what it was.
Extends ==
  /\ Len(commits) <= Len(commits') /\ \A c \in 1..Len(commits) : commits'[c] = commits[c]
  /\ DOMAIN releases \subseteq DOMAIN releases'
  /\ \A t \in DOMAIN releases : releases'[t] = releases[t]

LEMMA ExtendingKeeps ==
  ASSUME CopyInv, Extends, HistoryInv', UNCHANGED <<catalog, syncRun, cut>>
  PROVE  CopyInv'
<1>1. Len(commits) \in Nat /\ Len(commits') \in Nat
  BY LenProperties DEF CopyInv, HistoryInv
<1>2. 1..Len(commits) \subseteq 1..Len(commits')
  BY <1>1 DEF Extends
<1>3. \A skills : Reviewed(skills) => Reviewed(skills)'
  BY DEF Reviewed, Extends, CopyInv, HistoryInv
<1>4. SyncInv'
  BY <1>2, <1>3 DEF CopyInv, SyncInv, Extends, syncRun
<1>5. WritingInv'
  BY DEF CopyInv, SyncInv, WritingInv, Extends, syncRun
<1>6. CatalogInv'
  BY <1>2, <1>3 DEF CopyInv, CatalogInv, HoldsOne, Extends, syncRun
<1> QED BY <1>4, <1>5, <1>6 DEF CopyInv

LEMMA CommitKeeps ==
  ASSUME CopyInv, NEW skills \in SkillSets, NEW files \in Trees, Commit(skills, files)
  PROVE  CopyInv'
<1> DEFINE new == [skills |-> skills, files |-> files]
<1>1. /\ new \in [skills : SkillSets, files : Trees]
      /\ commits \in Seq([skills : SkillSets, files : Trees])
      /\ commits' = Append(commits, new)
      /\ UNCHANGED <<releases, catalog, syncRun, cut>>
  BY DEF Commit, CopyInv, HistoryInv
<1> HIDE DEF new
<1>2. /\ commits' \in Seq([skills : SkillSets, files : Trees])
      /\ Len(commits') = Len(commits) + 1 /\ Len(commits) \in Nat
      /\ \A c \in 1..Len(commits) : commits'[c] = commits[c]
  BY <1>1, AppendProperties, LenProperties
<1>3. Extends /\ HistoryInv'
  BY <1>1, <1>2 DEF Extends, HistoryInv, CopyInv
<1> QED BY <1>1, <1>3, ExtendingKeeps

LEMMA TagKeepsCopy == ASSUME CopyInv, NEW t, Tag(t) PROVE CopyInv'
<1>1. /\ commits # <<>> /\ t \notin DOMAIN releases
      /\ releases' = [x \in DOMAIN releases \union {t} |-> IF x = t THEN Head1 ELSE releases[x]]
      /\ UNCHANGED <<commits, catalog, syncRun, cut>>
  BY DEF Tag
<1>2. Head1 \in 1..Len(commits)
  <2>1. Len(commits) \in Nat /\ Len(commits) # 0
    BY <1>1, LenProperties, EmptySeq DEF CopyInv, HistoryInv
  <2> QED BY <2>1 DEF Head1
<1>3. Extends /\ HistoryInv'
  BY <1>1, <1>2 DEF Extends, HistoryInv, CopyInv, Head1
<1> QED BY <1>1, <1>3, ExtendingKeeps

LEMMA NextCopyInv == ASSUME CopyInv, [SyncNext]_syncVars PROVE CopyInv'
<1>1. CASE \/ \E options \in [ref : BOOLEAN, tag : BOOLEAN] : BeginSync(options)
           \/ SyncUsage \/ Status \/ ResolveTag \/ ResolveRef \/ CheckSkills
  BY <1>1, RunStepKeeps
<1>2. CASE RemoveOld
  BY <1>2, RemoveOldKeeps
<1>3. CASE \E f \in left : WriteSkill(f)
  BY <1>3, WriteSkillKeeps
<1>4. CASE Killed
  BY <1>4, KilledKeeps
<1>5. CASE \E s \in SkillSets, files \in Trees : Commit(s, files)
  BY <1>5, CommitKeeps
<1>6. CASE EditSkills \/ UNCHANGED syncVars
  BY <1>6 DEF EditSkills, syncVars, repository, syncRun, CopyInv, HistoryInv, SyncInv, WritingInv,
              CatalogInv, HoldsOne, Reviewed
<1>7. CASE \E t \in Versions : Tag(t)
  BY <1>7, TagKeepsCopy
<1> QED BY <1>1, <1>2, <1>3, <1>4, <1>5, <1>6, <1>7 DEF SyncNext

\* Between runs that were not cut short the catalog holds what it held before
\* any, or all the skills of one commit, which passed every check at a release
\* that is still there: scripts/sync-skills.mjs.
THEOREM CatalogHoldsReviewedAlways == SyncSpec => []CatalogHoldsReviewed
<1>1. SyncInit => CopyInv
  BY InitCopyInv
<1>2. CopyInv /\ [SyncNext]_syncVars => CopyInv'
  BY NextCopyInv
<1>3. CopyInv => CatalogHoldsReviewed
  BY CopyInvHolds
<1> QED BY <1>1, <1>2, <1>3, PTL DEF SyncSpec

-----------------------------------------------------------------------------
(* The reader takes what is well formed.                                    *)

\* A member list from line m to line e, and a bundle from line s to line e.
ListAt(t, m, e) ==
  /\ e - m > 1 /\ t[m].is = "members" /\ t[e].is = "close"
  /\ \A i \in 1..(e - m - 1) :
       /\ t[m + i].is = "member"
       /\ i < e - m - 1 => t[m + i].comma
       /\ \A j \in 1..(i - 1) : t[m + j].value # t[m + i].value
BundleAt(t, s, e) ==
  /\ e - s > 3 /\ t[s].is = "table"
  /\ \/ Description(t[s + 1]) /\ ListAt(t, s + 2, e)
     \/ Description(t[e]) /\ ListAt(t, s + 1, e - 1)

IsEnd(t, i, j) == j \in TableEnds(t, i) /\ \A k \in TableEnds(t, i) : j <= k

LEMMA PartOf ==
  ASSUME NEW S, NEW t \in Seq(S), NEW m \in 1..Len(t), NEW e \in m..Len(t)
  PROVE  /\ SubSeq(t, m, e) \in Seq(S) /\ Len(SubSeq(t, m, e)) = e - m + 1
         /\ \A i \in 1..(e - m + 1) : SubSeq(t, m, e)[i] = t[m + i - 1]
<1>1. Len(t) \in Nat
  BY LenProperties
<1>2. m <= e + 1 /\ m \in 1..(Len(t) + 1) /\ e \in 0..Len(t)
  BY <1>1
<1> QED BY <1>1, <1>2, SubSeqProperties

LEMMA ListIs ==
  ASSUME NEW t \in Seq(Lines), NEW m \in 1..Len(t), NEW e \in m..Len(t)
  PROVE  MemberList(SubSeq(t, m, e)) <=> ListAt(t, m, e)
<1> DEFINE lines == SubSeq(t, m, e)
           n == e - m - 1
           members == SubSeq(lines, 2, Len(lines) - 1)
<1>1. Len(t) \in Nat
  BY LenProperties
<1>2. /\ lines \in Seq(Lines) /\ Len(lines) = e - m + 1
      /\ \A i \in 1..(e - m + 1) : lines[i] = t[m + i - 1]
  BY PartOf
<1>3. CASE n < 1
  BY <1>1, <1>2, <1>3 DEF MemberList, ListAt
<1>4. CASE n >= 1
  <2>1. 2 \in 1..Len(lines) /\ Len(lines) - 1 \in 2..Len(lines)
    BY <1>1, <1>2, <1>4
  <2> HIDE DEF lines
  <2>2. /\ members \in Seq(Lines) /\ Len(members) = n
        /\ \A i \in 1..n : members[i] = lines[i + 1]
    <3>1. /\ members \in Seq(Lines) /\ Len(members) = (Len(lines) - 1) - 2 + 1
          /\ \A i \in 1..((Len(lines) - 1) - 2 + 1) : members[i] = lines[2 + i - 1]
      BY <1>2, <2>1, PartOf
    <3> QED BY <1>1, <1>2, <3>1
  <2> HIDE DEF members
  <2>3. DOMAIN members = 1..n /\ \A i \in 1..n : members[i] = t[m + i]
    <3>1. DOMAIN members = 1..n
      BY <2>2, LenProperties
    <3>2. \A i \in 1..n : i + 1 \in 1..(e - m + 1) /\ m + (i + 1) - 1 = m + i
      BY <1>1
    <3> QED BY <1>2, <2>2, <3>1, <3>2
  <2>4. lines[1] = t[m] /\ Last(lines) = t[e]
    BY <1>1, <1>2, <1>4 DEF Last
  <2>5. MemberList(lines) <=>
          /\ Len(lines) > 2 /\ lines[1].is = "members" /\ Last(lines).is = "close"
          /\ \A i \in DOMAIN members :
               /\ members[i].is = "member"
               /\ i < Len(members) => members[i].comma
               /\ \A j \in 1..(i - 1) : members[j].value # members[i].value
    BY DEF MemberList, members
  <2>6. ASSUME NEW i \in 1..n
        PROVE  (\A j \in 1..(i - 1) : members[j].value # members[i].value)
               <=> (\A j \in 1..(i - 1) : t[m + j].value # t[m + i].value)
    <3>1. \A j \in 1..(i - 1) : j \in 1..n
      BY <1>1
    <3> QED BY <2>3, <3>1
  <2> DEFINE Taken(i) == /\ members[i].is = "member"
                         /\ i < Len(members) => members[i].comma
                         /\ \A j \in 1..(i - 1) : members[j].value # members[i].value
             There(i) == /\ t[m + i].is = "member"
                         /\ i < n => t[m + i].comma
                         /\ \A j \in 1..(i - 1) : t[m + j].value # t[m + i].value
  <2>7. \A i \in 1..n : Taken(i) <=> There(i)
    BY <2>2, <2>3, <2>6
  <2>8. (\A i \in DOMAIN members : Taken(i)) <=> (\A i \in 1..n : There(i))
    <3> HIDE DEF Taken, There
    <3> QED BY <2>3, <2>7
  <2>9. Len(lines) > 2 /\ e - m > 1
    BY <1>1, <1>2, <1>4
  <2> QED BY <2>4, <2>5, <2>9, <2>8 DEF ListAt, lines
<1> QED BY <1>1, <1>3, <1>4

LEMMA BundleIs ==
  ASSUME NEW t \in Seq(Lines), NEW s \in 1..Len(t), NEW e \in s..Len(t)
  PROVE  Bundle(SubSeq(t, s, e)) <=> BundleAt(t, s, e)
<1> DEFINE lines == SubSeq(t, s, e)
           count == e - s + 1
<1>1. Len(t) \in Nat
  BY LenProperties
<1>2. /\ lines \in Seq(Lines) /\ Len(lines) = count
      /\ \A i \in 1..count : lines[i] = t[s + i - 1]
  BY PartOf
<1> HIDE DEF lines
<1>3. CASE e - s <= 3
  BY <1>1, <1>2, <1>3 DEF Bundle, BundleAt, lines
<1>4. CASE e - s > 3
  <2>1. lines[1] = t[s] /\ lines[2] = t[s + 1] /\ Last(lines) = t[e]
    BY <1>1, <1>2, <1>4 DEF Last
  <2>2. ASSUME NEW a \in 1..count, NEW z \in a..count
        PROVE  MemberList(SubSeq(lines, a, z)) <=> ListAt(t, s + a - 1, s + z - 1)
    <3>1. MemberList(SubSeq(lines, a, z)) <=> ListAt(lines, a, z)
      BY <1>2, ListIs
    <3>2. \A i \in 1..(z - a - 1) : a + i \in 1..count /\ s + (a + i) - 1 = (s + a - 1) + i
      BY <1>1
    <3>3. \A i \in 1..(z - a - 1) : lines[a + i] = t[(s + a - 1) + i]
      BY <1>2, <3>2
    <3>4. lines[a] = t[s + a - 1] /\ lines[z] = t[s + z - 1]
          /\ (s + z - 1) - (s + a - 1) = z - a
      <4>1. a \in 1..count /\ z \in 1..count
        BY <1>1
      <4>2. (s + z - 1) - (s + a - 1) = z - a
        BY <1>1
      <4> QED BY <1>2, <4>1, <4>2
    <3>5. ASSUME NEW i \in 1..(z - a - 1)
          PROVE  /\ lines[a + i] = t[(s + a - 1) + i]
                 /\ \A j \in 1..(i - 1) : lines[a + j] = t[(s + a - 1) + j]
      <4>1. \A j \in 1..(i - 1) : j \in 1..(z - a - 1)
        BY <1>1
      <4> QED BY <3>3, <4>1
    <3> DEFINE m == s + a - 1
               w == s + z - 1
    <3> HIDE DEF m, w
    <3>6. w - m = z - a /\ w - m - 1 = z - a - 1 /\ lines[a] = t[m] /\ lines[z] = t[w]
      BY <3>4 DEF m, w
    <3>7. \A i \in 1..(z - a - 1) : lines[a + i] = t[m + i]
                                    /\ \A j \in 1..(i - 1) : lines[a + j] = t[m + j]
      BY <3>5 DEF m
    <3> DEFINE n == z - a - 1
               One(i) == /\ lines[a + i].is = "member"
                         /\ i < n => lines[a + i].comma
                         /\ \A j \in 1..(i - 1) : lines[a + j].value # lines[a + i].value
               Two(i) == /\ t[m + i].is = "member"
                         /\ i < n => t[m + i].comma
                         /\ \A j \in 1..(i - 1) : t[m + j].value # t[m + i].value
    <3>8. \A i \in 1..n : One(i) <=> Two(i)
      BY <3>7
    <3>9. /\ ListAt(lines, a, z) <=> /\ z - a > 1 /\ lines[a].is = "members" /\ lines[z].is = "close"
                                     /\ \A i \in 1..n : One(i)
          /\ ListAt(t, m, w) <=> /\ w - m > 1 /\ t[m].is = "members" /\ t[w].is = "close"
                                 /\ \A i \in 1..(w - m - 1) : Two(i)
      BY <3>6 DEF ListAt
    <3>10. ListAt(lines, a, z) <=> ListAt(t, m, w)
      <4> HIDE DEF One, Two
      <4> QED BY <3>6, <3>8, <3>9
    <3> QED BY <3>1, <3>10 DEF m, w
  <2>3. MemberList(SubSeq(lines, 3, Len(lines))) <=> ListAt(t, s + 2, e)
    <3>1. 3 \in 1..count /\ count \in 3..count /\ s + 3 - 1 = s + 2 /\ s + count - 1 = e
      BY <1>1, <1>4
    <3>2. MemberList(SubSeq(lines, 3, count)) <=> ListAt(t, s + 3 - 1, s + count - 1)
      BY Zenon, <2>2, <3>1
    <3> QED BY Zenon, <1>2, <3>1, <3>2
  <2>4. MemberList(SubSeq(lines, 2, Len(lines) - 1)) <=> ListAt(t, s + 1, e - 1)
    BY <1>1, <1>2, <1>4, <2>2, s + 2 - 1 = s + 1, s + (count - 1) - 1 = e - 1
  <2> QED BY <1>1, <1>2, <1>4, <2>1, <2>3, <2>4 DEF Bundle, BundleAt, lines
<1> QED BY <1>1, <1>3, <1>4

-----------------------------------------------------------------------------
(* What has been read, line by line, while nothing is misplaced.            *)

Records == [name : BundleNames, description : BOOLEAN, members : Seq(MemberNames),
            keys : SUBSET {"description", "members"}]
Readers == [schema : {"none", "1", "2"}, bundles : Seq(Records), open : BOOLEAN,
            needsComma : BOOLEAN, problems : Nat]

\* The lines from m to e are the members of record rec, read to the end or not.
Listed(t, rec, m, e, open) ==
  /\ t[m].is = "members"
  /\ \A i \in 1..Len(rec.members) :
       /\ t[m + i].is = "member" /\ t[m + i].value = rec.members[i]
       /\ i < Len(rec.members) => t[m + i].comma
  /\ IF open THEN e = m + Len(rec.members)
     ELSE e = m + Len(rec.members) + 1 /\ t[e].is = "close"
Described(line, rec) == line.is = "description" /\ (rec.description <=> line.value # "none")

\* The lines from s to e are those of the bundle that rec was made of.
Segment(t, rec, s, e, open) ==
  \/ rec.keys = {} /\ e = s /\ rec.members = <<>> /\ ~rec.description /\ ~open
  \/ rec.keys = {"description"} /\ e = s + 1 /\ rec.members = <<>> /\ ~open /\ Described(t[e], rec)
  \/ rec.keys = {"members"} /\ ~rec.description /\ Listed(t, rec, s + 1, e, open)
  \/ /\ rec.keys = {"description", "members"}
     /\ \/ Described(t[s + 1], rec) /\ Listed(t, rec, s + 2, e, open)
        \/ ~open /\ Described(t[e], rec) /\ Listed(t, rec, s + 1, e - 1, FALSE)

\* A comma is due after the last member, unless it has one.
CommaDue(t, rec, comma) == comma <=> rec.members # <<>> /\ ~t[Len(t)].comma

\* Record k is of the bundle that begins at line s; the last one may be open.
Made(t, r, k, s) ==
  /\ t[s].value = r.bundles[k].name
  /\ IF k = Len(r.bundles)
     THEN /\ IsEnd(t, s, Len(t) + 1) /\ Segment(t, r.bundles[k], s, Len(t), r.open)
          /\ r.open => CommaDue(t, r.bundles[k], r.needsComma)
     ELSE \E e \in 1..(Len(t) - 1) : IsEnd(t, s, e + 1) /\ Segment(t, r.bundles[k], s, e, FALSE)

Opening(t, r) ==
  /\ t = <<>> => r.schema = "none"
  /\ t # <<>> => \/ t[1].is = "schema" /\ r.schema = t[1].value
                 \/ t[1].is = "table" /\ r.schema = "none"
  /\ r.bundles = <<>> => Len(t) <= 1 /\ TableLines(t) = {} /\ ~r.open
  /\ r.bundles # <<>> /\ t[1].is = "schema" => 2 \in TableLines(t)

Shape(t, r) ==
  /\ r \in Readers /\ Opening(t, r)
  /\ \A k \in DOMAIN r.bundles : \E s \in TableLines(t) : Made(t, r, k, s)
  /\ \A s \in TableLines(t) : \E k \in DOMAIN r.bundles : Made(t, r, k, s)
  /\ \A i, j \in TableLines(t) : i # j => t[i].value # t[j].value

ReaderInv ==
  /\ text \in Seq(Lines)
  /\ IF reader.problems = 0 THEN Shape(text, reader) ELSE ~WellFormed(text)

-----------------------------------------------------------------------------
(* A file that was read.                                                    *)

LEMMA LineTypes ==
  ASSUME NEW line \in Lines
  PROVE  /\ line.is \in {"schema", "table", "description", "members", "close", "other", "member"}
         /\ line = Line(line.is, line.value, line.comma) /\ line.comma \in BOOLEAN
         /\ line.is = "schema" => line.value \in {"1", "2"} /\ ~line.comma
         /\ line.is = "table" => line.value \in BundleNames
         /\ line.is = "member" => line.value \in MemberNames
<1>1. CASE \E v \in {"1", "2"} : line = Line("schema", v, FALSE)
  <2>1. line.is = "schema" /\ line.value \in {"1", "2"} /\ line.comma = FALSE
        /\ line = Line(line.is, line.value, line.comma)
    BY <1>1 DEF Line
  <2> QED BY <2>1
<1>2. CASE \E v \in BundleNames : line = Line("table", v, FALSE)
  <2>1. line.is = "table" /\ line.value \in BundleNames /\ line.comma = FALSE
        /\ line = Line(line.is, line.value, line.comma)
    BY <1>2 DEF Line
  <2> QED BY <2>1
<1>3. CASE \E v \in {"none", "some"} : line = Line("description", v, FALSE)
  <2>1. line.is = "description" /\ line.comma = FALSE
        /\ line = Line(line.is, line.value, line.comma)
    BY <1>3 DEF Line
  <2> QED BY <2>1
<1>4. CASE line \in {Line("members", "none", FALSE), Line("close", "none", FALSE),
                   Line("other", "none", FALSE)}
  <2>1. line.is \in {"members", "close", "other"} /\ line.comma = FALSE
        /\ line = Line(line.is, line.value, line.comma)
    BY <1>4 DEF Line
  <2> QED BY <2>1
<1>5. CASE \E v \in MemberNames, c \in BOOLEAN : line = Line("member", v, c)
  <2>1. line.is = "member" /\ line.value \in MemberNames /\ line.comma \in BOOLEAN
        /\ line = Line(line.is, line.value, line.comma)
    BY <1>5 DEF Line
  <2> QED BY <2>1
<1>6. \/ \E v \in {"1", "2"} : line = Line("schema", v, FALSE)
      \/ \E v \in BundleNames : line = Line("table", v, FALSE)
      \/ \E v \in {"none", "some"} : line = Line("description", v, FALSE)
      \/ line \in {Line("members", "none", FALSE), Line("close", "none", FALSE),
                   Line("other", "none", FALSE)}
      \/ \E v \in MemberNames, c \in BOOLEAN : line = Line("member", v, c)
  BY DEF Lines
<1> QED BY <1>1, <1>2, <1>3, <1>4, <1>5, <1>6

LEMMA EndIs ==
  ASSUME NEW t \in Seq(Lines), NEW i, NEW j, IsEnd(t, i, j)
  PROVE  End(t, i) = j
<1>1. Len(t) \in Nat /\ DOMAIN t = 1..Len(t)
  BY LenProperties
<1>2. \A k \in TableEnds(t, i) : k \in Nat
  BY <1>1 DEF TableEnds, TableLines
<1>3. \A k \in TableEnds(t, i) : IsEnd(t, i, k) => k = j
  BY <1>2 DEF IsEnd
<1>4. \E k \in TableEnds(t, i) : \A l \in TableEnds(t, i) : k <= l
  BY DEF IsEnd
<1> DEFINE Least(k) == \A l \in TableEnds(t, i) : k <= l
<1>5. End(t, i) = CHOOSE k \in TableEnds(t, i) : Least(k)
  BY DEF End
<1>6. End(t, i) \in TableEnds(t, i) /\ Least(End(t, i))
  <2> HIDE DEF Least
  <2>1. \E k \in TableEnds(t, i) : Least(k)
    BY <1>4 DEF Least
  <2> QED BY <1>5, <2>1
<1> QED BY <1>3, <1>6 DEF IsEnd

LEMMA ListedAt ==
  ASSUME NEW t \in Seq(Lines), NEW rec \in Records, NEW m \in Nat, NEW e \in Nat,
         Listed(t, rec, m, e, FALSE)
  PROVE  ListAt(t, m, e) <=> rec.members # <<>> /\ IsInjective(rec.members)
<1> DEFINE n == Len(rec.members)
<1>1. rec.members \in Seq(MemberNames) /\ n \in Nat /\ DOMAIN rec.members = 1..n
      /\ (rec.members = <<>> <=> n = 0)
  BY LenProperties, EmptySeq DEF Records
<1>2. e = m + n + 1 /\ t[m].is = "members" /\ t[e].is = "close"
      /\ \A i \in 1..n : /\ t[m + i].is = "member" /\ t[m + i].value = rec.members[i]
                         /\ i < n => t[m + i].comma
  BY DEF Listed
<1> HIDE DEF n
<1>3. e - m - 1 = n /\ (e - m > 1 <=> n # 0)
  BY <1>1, <1>2
<1>4. (\A i \in 1..n : \A j \in 1..(i - 1) : t[m + j].value # t[m + i].value)
      <=> (\A i \in 1..n : \A j \in 1..(i - 1) : rec.members[j] # rec.members[i])
  <2>1. ASSUME NEW i \in 1..n, NEW j \in 1..(i - 1)
        PROVE  t[m + j].value = rec.members[j] /\ t[m + i].value = rec.members[i]
    <3>1. j \in 1..n
      BY <1>1
    <3>2. \A k \in 1..n : t[m + k].value = rec.members[k]
      BY <1>2
    <3> QED BY <3>1, <3>2
  <2> DEFINE There(i) == \A j \in 1..(i - 1) : t[m + j].value # t[m + i].value
             Taken(i) == \A j \in 1..(i - 1) : rec.members[j] # rec.members[i]
  <2>2. \A i \in 1..n : There(i) <=> Taken(i)
    BY <2>1
  <2>3. (\A i \in 1..n : There(i)) <=> (\A i \in 1..n : Taken(i))
    <3> HIDE DEF There, Taken
    <3> QED BY <2>2
  <2> QED BY <2>3
<1>5. (\A i \in 1..n : \A j \in 1..(i - 1) : rec.members[j] # rec.members[i])
      <=> IsInjective(rec.members)
  <2>1. \A i \in 1..n : \A j \in 1..(i - 1) : j \in 1..n /\ j # i
    BY <1>1
  <2>2. \A i, j \in 1..n : i = j \/ j \in 1..(i - 1) \/ i \in 1..(j - 1)
    BY <1>1
  <2> QED BY <1>1, <2>1, <2>2 DEF IsInjective
<1> QED BY <1>1, <1>2, <1>3, <1>4, <1>5 DEF ListAt

LEMMA ListedEnds ==
  ASSUME NEW t, NEW rec, NEW m, NEW e, Listed(t, rec, m, e, FALSE)
  PROVE  e = m + Len(rec.members) + 1 /\ t[m].is = "members" /\ t[e].is = "close"
BY DEF Listed

LEMMA SegmentAt ==
  ASSUME NEW t \in Seq(Lines), NEW rec \in Records, NEW s \in 1..Len(t), NEW e \in s..Len(t),
         t[s].is = "table", Segment(t, rec, s, e, FALSE)
  PROVE  BundleAt(t, s, e) <=> ~Lacking(rec)
<1>1. Len(t) \in Nat /\ s \in Nat /\ e \in Nat /\ s + 1 \in Nat /\ s + 2 \in Nat
  BY LenProperties
<1>2. rec.members \in Seq(MemberNames) /\ Len(rec.members) \in Nat
      /\ (rec.members # <<>> => Len(rec.members) # 0) /\ rec.description \in BOOLEAN
  BY LenProperties, EmptySeq DEF Records
<1>3. PICK n \in Nat : n = Len(rec.members)
  BY <1>2
<1>4. CASE rec.keys = {} /\ e = s /\ rec.members = <<>>
  BY <1>1, <1>4 DEF BundleAt, Lacking
<1>5. CASE rec.keys = {"description"} /\ e = s + 1 /\ rec.members = <<>>
  BY <1>1, <1>5 DEF BundleAt, Lacking
<1>6. CASE rec.keys = {"members"} /\ ~rec.description /\ Listed(t, rec, s + 1, e, FALSE)
  <2>1. t[s + 1].is = "members" /\ t[e].is = "close"
    BY <1>6 DEF Listed
  <2>2. ~Description(t[s + 1]) /\ ~Description(t[e])
    BY <2>1 DEF Description
  <2> QED BY <1>6, <2>2 DEF BundleAt, Lacking
<1>7. CASE Described(t[s + 1], rec) /\ Listed(t, rec, s + 2, e, FALSE)
  <2>1. ListAt(t, s + 2, e) <=> rec.members # <<>> /\ IsInjective(rec.members)
    BY <1>1, <1>7, ListedAt
  <2>2. Description(t[s + 1]) <=> rec.description
    BY <1>7 DEF Described, Description
  <2>3. ~ListAt(t, s + 1, e - 1)
    BY <1>7 DEF ListAt, Described
  <2>4. rec.members # <<>> => e - s > 3
    <3>1. e = s + 2 + n + 1
      BY <1>7, <1>3, ListedEnds
    <3>2. e - s = n + 3
      BY <1>1, <3>1
    <3>3. rec.members # <<>> => n # 0
      BY <1>2, <1>3
    <3> QED BY <3>2, <3>3
  <2> QED BY <2>1, <2>2, <2>3, <2>4 DEF BundleAt, Lacking
<1>8. CASE Described(t[e], rec) /\ Listed(t, rec, s + 1, e - 1, FALSE)
  <2>1. e - 1 = s + 1 + n + 1 /\ e - 1 \in Nat /\ t[s + 1].is = "members"
    <3>1. e - 1 = s + 1 + n + 1 /\ t[s + 1].is = "members"
      BY <1>8, <1>3, ListedEnds
    <3> QED BY <1>1, <1>2, <1>3, <3>1
  <2>2. ListAt(t, s + 1, e - 1) <=> rec.members # <<>> /\ IsInjective(rec.members)
    BY <1>1, <1>8, <2>1, ListedAt
  <2>3. Description(t[e]) <=> rec.description
    BY <1>8 DEF Described, Description
  <2>4. ~Description(t[s + 1])
    BY <2>1 DEF Description
  <2>5. rec.members # <<>> => e - s > 3
    <3>1. e - s = n + 3
      BY <1>1, <1>2, <1>3, <2>1
    <3> QED BY <1>2, <1>3, <3>1
  <2> QED BY <2>2, <2>3, <2>4, <2>5 DEF BundleAt, Lacking
<1> QED BY <1>4, <1>5, <1>6, <1>7, <1>8 DEF Segment

\* The last line of an open list is of it: neither its end nor a description.
LEMMA OpenEnds ==
  ASSUME NEW t \in Seq(Lines), NEW rec \in Records, NEW s \in Nat, NEW e \in Nat,
         Segment(t, rec, s, e, TRUE)
  PROVE  t[e].is \in {"members", "member"}
<1>1. rec.members \in Seq(MemberNames) /\ Len(rec.members) \in Nat
  BY LenProperties DEF Records
<1>2. ASSUME NEW m \in Nat, Listed(t, rec, m, e, TRUE) PROVE t[e].is \in {"members", "member"}
  <2>1. CASE Len(rec.members) = 0
    BY <1>2, <2>1 DEF Listed
  <2>2. CASE Len(rec.members) # 0
    <3>1. Len(rec.members) \in 1..Len(rec.members)
      BY <1>1, <2>2
    <3> QED BY <1>2, <3>1 DEF Listed
  <2> QED BY <2>1, <2>2
<1>3. s + 1 \in Nat /\ s + 2 \in Nat
  OBVIOUS
<1>4. Listed(t, rec, s + 1, e, TRUE) \/ Listed(t, rec, s + 2, e, TRUE)
  BY DEF Segment
<1> QED BY <1>2, <1>3, <1>4

LEMMA OpenIsNone ==
  ASSUME NEW t \in Seq(Lines), NEW rec \in Records, NEW s \in Nat, NEW e \in Nat,
         Segment(t, rec, s, e, TRUE)
  PROVE  ~BundleAt(t, s, e)
BY OpenEnds DEF BundleAt, ListAt, Description

LEMMA MadeAt ==
  ASSUME NEW t \in Seq(Lines), NEW r \in Readers, NEW k \in DOMAIN r.bundles,
         NEW s \in TableLines(t), Made(t, r, k, s)
  PROVE  /\ k = Len(r.bundles) /\ r.open => ~Bundle(SubSeq(t, s, End(t, s) - 1))
         /\ ~(k = Len(r.bundles) /\ r.open) =>
              (Bundle(SubSeq(t, s, End(t, s) - 1)) <=> ~Lacking(r.bundles[k]))
<1>1. Len(t) \in Nat /\ s \in 1..Len(t) /\ t[s].is = "table"
  BY LenProperties DEF TableLines
<1>2. r.bundles[k] \in Records
  BY ElementOfSeq, LenProperties DEF Readers
<1>3. CASE k = Len(r.bundles)
  <2>1. End(t, s) = Len(t) + 1 /\ Segment(t, r.bundles[k], s, Len(t), r.open)
    BY <1>3, EndIs DEF Made
  <2>2. End(t, s) - 1 = Len(t) /\ Len(t) \in s..Len(t)
    BY <1>1, <2>1
  <2>3. Bundle(SubSeq(t, s, Len(t))) <=> BundleAt(t, s, Len(t))
    BY <1>1, <2>2, BundleIs
  <2>4. ASSUME r.open PROVE ~BundleAt(t, s, Len(t))
    <3>1. r.open = TRUE
      BY <2>4 DEF Readers
    <3>2. Segment(t, r.bundles[k], s, Len(t), TRUE)
      BY Zenon, <2>1, <3>1
    <3>3. s \in Nat
      BY <1>1
    <3> QED BY <1>1, <1>2, <3>2, <3>3, OpenIsNone
  <2>5. ~r.open => (BundleAt(t, s, Len(t)) <=> ~Lacking(r.bundles[k]))
    BY <1>1, <1>2, <2>1, <2>2, SegmentAt DEF Readers
  <2> QED BY <1>3, <2>2, <2>3, <2>4, <2>5
<1>4. CASE k # Len(r.bundles)
  <2>1. PICK e \in 1..(Len(t) - 1) : IsEnd(t, s, e + 1) /\ Segment(t, r.bundles[k], s, e, FALSE)
    BY <1>4 DEF Made
  <2>2. End(t, s) = e + 1 /\ e + 1 > s
    BY <1>1, <2>1, EndIs DEF IsEnd, TableEnds
  <2>3. End(t, s) - 1 = e /\ e \in s..Len(t)
    BY <1>1, <2>2
  <2>4. Bundle(SubSeq(t, s, e)) <=> BundleAt(t, s, e)
    BY <1>1, <2>3, BundleIs
  <2>5. BundleAt(t, s, e) <=> ~Lacking(r.bundles[k])
    BY <1>1, <1>2, <2>1, <2>3, SegmentAt
  <2> QED BY <1>4, <2>3, <2>4, <2>5
<1> QED BY <1>3, <1>4

LEMMA ShapeAccepted ==
  ASSUME NEW t \in Seq(Lines), NEW r, Shape(t, r), r.problems = 0
  PROVE  Accepted(r) <=> WellFormed(t)
<1>1. /\ r \in Readers /\ Opening(t, r) /\ r.open \in BOOLEAN
      /\ \A k \in DOMAIN r.bundles : \E s \in TableLines(t) : Made(t, r, k, s)
      /\ \A s \in TableLines(t) : \E k \in DOMAIN r.bundles : Made(t, r, k, s)
      /\ \A i, j \in TableLines(t) : i # j => t[i].value # t[j].value
  BY DEF Shape, Readers
<1>2. Len(t) \in Nat /\ DOMAIN t = 1..Len(t) /\ (t = <<>> <=> Len(t) = 0)
      /\ \A i \in 1..Len(t) : t[i] \in Lines
  BY LenProperties, EmptySeq, ElementOfSeq
<1>3. Len(r.bundles) \in Nat /\ DOMAIN r.bundles = 1..Len(r.bundles)
      /\ (r.bundles = <<>> <=> Len(r.bundles) = 0)
  BY <1>1, LenProperties, EmptySeq DEF Readers
<1>4. ASSUME Accepted(r) PROVE WellFormed(t)
  <2>1. r.schema = "1" /\ ~r.open /\ \A k \in DOMAIN r.bundles : ~Lacking(r.bundles[k])
    BY <1>4 DEF Accepted
  <2>2. t # <<>> /\ t[1].is = "schema" /\ t[1].value = "1"
    BY <1>1, <2>1 DEF Opening
  <2>3. t[1] = Line("schema", "1", FALSE)
    <3>1. t[1] = Line(t[1].is, t[1].value, t[1].comma) /\ t[1].comma \in BOOLEAN /\ ~t[1].comma
      BY <1>2, <2>2, LineTypes
    <3> QED BY <2>2, <3>1
  <2>4. IsEnd(t, 1, 2)
    <3>1. \A j \in TableLines(t) : j \in 1..Len(t) /\ t[j].is = "table"
      BY <1>2 DEF TableLines
    <3>2. Len(t) >= 1
      BY <1>2, <2>2
    <3>3. CASE r.bundles = <<>>
      BY <1>1, <1>2, <2>2, <3>2, <3>3 DEF Opening, IsEnd, TableEnds
    <3>4. CASE r.bundles # <<>>
      <4>1. 2 \in TableLines(t)
        BY <1>1, <2>2, <3>4 DEF Opening
      <4> QED BY <1>2, <3>1, <3>2, <4>1 DEF IsEnd, TableEnds
    <3> QED BY <3>3, <3>4
  <2>5. ASSUME NEW s \in TableLines(t) PROVE Bundle(SubSeq(t, s, End(t, s) - 1))
    <3>1. PICK k \in DOMAIN r.bundles : Made(t, r, k, s)
      BY <1>1
    <3> QED BY <1>1, <2>1, <3>1, MadeAt
  <2>6. End(t, 1) = 2
    BY <2>4, EndIs
  <2> QED BY <1>1, <2>2, <2>3, <2>5, <2>6 DEF WellFormed
<1>5. ASSUME WellFormed(t) PROVE Accepted(r)
  <2>1. t # <<>> /\ t[1].is = "schema" /\ t[1].value = "1"
        /\ \A s \in TableLines(t) : Bundle(SubSeq(t, s, End(t, s) - 1))
    BY <1>5 DEF WellFormed, Line
  <2>2. r.schema = "1"
    BY <1>1, <2>1 DEF Opening
  <2>3. ~r.open
    <3>1. SUFFICES ASSUME r.open PROVE FALSE
      BY <1>1
    <3>2. Len(r.bundles) \in DOMAIN r.bundles
      BY <1>1, <1>3, <3>1 DEF Opening
    <3>3. PICK s \in TableLines(t) : Made(t, r, Len(r.bundles), s)
      BY <1>1, <3>2
    <3> QED BY <1>1, <2>1, <3>1, <3>2, <3>3, MadeAt
  <2>4. ASSUME NEW k \in DOMAIN r.bundles PROVE ~Lacking(r.bundles[k])
    <3>1. PICK s \in TableLines(t) : Made(t, r, k, s)
      BY <1>1
    <3> QED BY <1>1, <2>1, <2>3, <3>1, MadeAt
  <2> QED BY <2>2, <2>3, <2>4 DEF Accepted
<1> QED BY <1>4, <1>5

-----------------------------------------------------------------------------
(* One more line.                                                           *)

\* u is t and a line more.
OneMore(t, line, u) ==
  /\ t \in Seq(Lines) /\ line \in Lines /\ u \in Seq(Lines)
  /\ Len(t) \in Nat /\ Len(u) = Len(t) + 1
  /\ \A i \in 1..Len(t) : u[i] = t[i]
  /\ u[Len(t) + 1] = line
  /\ TableLines(t) \subseteq 1..Len(t)
  /\ TableLines(u) = TableLines(t) \union {i \in {Len(t) + 1} : line.is = "table"}

LEMMA Appended ==
  ASSUME NEW t \in Seq(Lines), NEW line \in Lines
  PROVE  OneMore(t, line, Append(t, line))
<1> DEFINE u == Append(t, line)
<1>1. /\ u \in Seq(Lines) /\ Len(t) \in Nat /\ Len(u) = Len(t) + 1
      /\ \A i \in 1..Len(t) : u[i] = t[i]
      /\ u[Len(t) + 1] = line
  BY AppendProperties, LenProperties
<1>2. DOMAIN t = 1..Len(t) /\ DOMAIN u = 1..(Len(t) + 1)
  BY <1>1, LenProperties
<1> HIDE DEF u
<1>3. TableLines(t) \subseteq 1..Len(t)
  BY <1>2 DEF TableLines
<1>4. TableLines(u) = TableLines(t) \union {i \in {Len(t) + 1} : line.is = "table"}
  <2>1. 1..(Len(t) + 1) = 1..Len(t) \union {Len(t) + 1}
    BY <1>1
  <2> QED BY <1>1, <1>2, <2>1 DEF TableLines
<1> QED BY <1>1, <1>3, <1>4 DEF OneMore, u

\* A table keeps its end, unless it had none: then the next table is it, or the
\* file's end.
LEMMA EndKept ==
  ASSUME NEW t, NEW line, NEW u, OneMore(t, line, u), NEW s \in TableLines(t),
         NEW e \in 1..Len(t), IsEnd(t, s, e)
  PROVE  IsEnd(u, s, e)
<1>1. e \in TableLines(t) /\ e > s
  BY DEF OneMore, IsEnd, TableEnds
<1> QED BY <1>1 DEF OneMore, IsEnd, TableEnds

LEMMA EndGrows ==
  ASSUME NEW t, NEW line, NEW u, OneMore(t, line, u), NEW s \in TableLines(t),
         IsEnd(t, s, Len(t) + 1)
  PROVE  IsEnd(u, s, IF line.is = "table" THEN Len(t) + 1 ELSE Len(u) + 1)
<1>1. \A j \in TableLines(t) : j \in 1..Len(t) /\ ~(j > s)
  BY DEF OneMore, IsEnd, TableEnds
<1>2. s \in 1..Len(t) /\ Len(t) \in Nat /\ Len(u) = Len(t) + 1
      /\ TableLines(u) = TableLines(t) \union {i \in {Len(t) + 1} : line.is = "table"}
  BY DEF OneMore
<1>3. CASE line.is = "table"
  <2>1. TableLines(u) = TableLines(t) \union {Len(t) + 1}
    BY <1>2, <1>3
  <2>2. {j \in TableLines(u) : j > s} = {Len(t) + 1}
    <3>1. \A j \in TableLines(u) : j > s <=> j = Len(t) + 1
      BY <1>1, <1>2, <2>1
    <3>2. Len(t) + 1 \in TableLines(u)
      BY <2>1
    <3> QED BY <3>1, <3>2
  <2>3. TableEnds(u, s) = {Len(t) + 1, Len(u) + 1}
    BY <2>2 DEF TableEnds
  <2> QED BY <1>2, <1>3, <2>3 DEF IsEnd
<1>4. CASE line.is # "table"
  <2>1. TableEnds(u, s) = {Len(u) + 1}
    BY <1>1, <1>2, <1>4 DEF TableEnds
  <2> QED BY <1>2, <1>4, <2>1 DEF IsEnd
<1> QED BY <1>3, <1>4

LEMMA EndOfNew ==
  ASSUME NEW t, NEW line, NEW u, OneMore(t, line, u), line.is = "table"
  PROVE  Len(u) \in TableLines(u) /\ IsEnd(u, Len(u), Len(u) + 1)
<1>1. \A j \in TableLines(u) : j \in 1..Len(u)
  BY DEF OneMore
<1>2. TableEnds(u, Len(u)) = {Len(u) + 1} /\ Len(u) \in TableLines(u)
  BY <1>1 DEF OneMore, TableEnds
<1> QED BY <1>2 DEF IsEnd, OneMore

LEMMA ListedKept ==
  ASSUME NEW t, NEW line, NEW u, OneMore(t, line, u), NEW rec \in Records,
         NEW m \in Nat \ {0}, NEW e \in 0..Len(t), NEW open \in BOOLEAN, Listed(t, rec, m, e, open)
  PROVE  Listed(u, rec, m, e, open)
<1>1. PICK n \in Nat : n = Len(rec.members)
  BY LenProperties DEF Records
<1>2. Len(t) \in Nat /\ \A i \in 1..Len(t) : u[i] = t[i]
  BY DEF OneMore
<1>3. IF open THEN e = m + n ELSE e = m + n + 1
  BY <1>1 DEF Listed
<1>4. m \in 1..Len(t) /\ (~open => e \in 1..Len(t)) /\ \A i \in 1..n : m + i \in 1..Len(t)
  BY <1>2, <1>3
<1>5. u[m] = t[m] /\ (~open => u[e] = t[e]) /\ \A i \in 1..n : u[m + i] = t[m + i]
  BY <1>2, <1>4
<1> QED BY <1>1, <1>5 DEF Listed

LEMMA SegmentKept ==
  ASSUME NEW t, NEW line, NEW u, OneMore(t, line, u), NEW rec \in Records,
         NEW s \in 1..Len(t), NEW e \in s..Len(t), NEW open \in BOOLEAN, Segment(t, rec, s, e, open)
  PROVE  Segment(u, rec, s, e, open)
<1>1. /\ Len(t) \in Nat /\ (\A i \in 1..Len(t) : u[i] = t[i])
      /\ e \in 0..Len(t) /\ e \in 1..Len(t) /\ e - 1 \in 0..Len(t) /\ u[e] = t[e]
      /\ s + 1 \in Nat \ {0} /\ s + 2 \in Nat \ {0}
  BY DEF OneMore
<1>2. ASSUME NEW m \in {s + 1, s + 2}, NEW z \in {e, e - 1}, NEW o \in {open, FALSE},
             Listed(t, rec, m, z, o)
      PROVE  Listed(u, rec, m, z, o)
  <2>1. m \in Nat \ {0} /\ z \in 0..Len(t) /\ o \in BOOLEAN
    BY <1>1
  <2> QED BY <1>2, <2>1, ListedKept
<1>3. Listed(t, rec, s + 2, e, open) => u[s + 1] = t[s + 1]
  <2>1. PICK n \in Nat : n = Len(rec.members)
    BY LenProperties DEF Records
  <2>2. Listed(t, rec, s + 2, e, open) => e = s + 2 + n \/ e = s + 2 + n + 1
    BY <2>1 DEF Listed
  <2>3. Listed(t, rec, s + 2, e, open) => s + 1 \in 1..Len(t)
    BY <1>1, <2>2
  <2> QED BY <1>1, <2>3
<1> QED BY <1>1, <1>2, <1>3 DEF Segment

\* A record that was complete stays so.
LEMMA MadeKept ==
  ASSUME NEW t, NEW line, NEW u, OneMore(t, line, u), NEW r \in Readers, NEW q \in Readers,
         NEW k \in DOMAIN r.bundles, k # Len(r.bundles), k # Len(q.bundles),
         q.bundles[k] = r.bundles[k], NEW s \in TableLines(t), Made(t, r, k, s)
  PROVE  Made(u, q, k, s)
<1>1. PICK e \in 1..(Len(t) - 1) : IsEnd(t, s, e + 1) /\ Segment(t, r.bundles[k], s, e, FALSE)
  BY DEF Made
<1>2. e + 1 > s
  BY <1>1 DEF IsEnd, TableEnds, OneMore
<1>3. s \in 1..Len(t) /\ e \in s..Len(t) /\ e + 1 \in 1..Len(t) /\ e \in 1..(Len(u) - 1)
      /\ u[s] = t[s]
  BY <1>2 DEF OneMore
<1>4. IsEnd(u, s, e + 1)
  BY <1>1, <1>3, EndKept
<1>5. r.bundles[k] \in Records
  BY ElementOfSeq, LenProperties DEF Readers
<1>6. Segment(u, r.bundles[k], s, e, FALSE)
  BY <1>1, <1>3, <1>5, SegmentKept
<1> QED BY <1>3, <1>4, <1>6 DEF Made

-----------------------------------------------------------------------------
(* What the reader does with a line.                                        *)

LastOf(r) == r.bundles[Len(r.bundles)]
\* r and q differ in the last record, and in whether its list is open.
LastDiffers(r, q) ==
  /\ q \in Readers /\ q.schema = r.schema /\ q.problems = r.problems
  /\ Len(q.bundles) = Len(r.bundles)
  /\ \A k \in DOMAIN r.bundles : k # Len(r.bundles) => q.bundles[k] = r.bundles[k]
  /\ LastOf(q).name = LastOf(r).name

LEMMA LastReplaced ==
  ASSUME NEW r \in Readers, r.bundles # <<>>, NEW rec \in Records, rec.name = LastOf(r).name,
         NEW q, DOMAIN q = DOMAIN Unread, q.schema = r.schema, q.problems = r.problems,
         q.open \in BOOLEAN, q.needsComma \in BOOLEAN,
         q.bundles = [r.bundles EXCEPT ![Len(r.bundles)] = rec],
         q = [f \in DOMAIN q |-> q[f]]
  PROVE  LastDiffers(r, q) /\ LastOf(q) = rec
<1>1. /\ r.bundles \in Seq(Records) /\ Len(r.bundles) \in Nat \ {0}
      /\ DOMAIN r.bundles = 1..Len(r.bundles)
  BY LenProperties, EmptySeq DEF Readers
<1>2. /\ q.bundles \in Seq(Records) /\ Len(q.bundles) = Len(r.bundles)
      /\ \A k \in DOMAIN r.bundles : k # Len(r.bundles) => q.bundles[k] = r.bundles[k]
      /\ q.bundles[Len(r.bundles)] = rec
  BY <1>1, ExceptSeq
<1>3. q \in Readers
  <2>1. DOMAIN q = {"schema", "bundles", "open", "needsComma", "problems"}
    BY DEF Unread
  <2> QED BY <1>2, <2>1 DEF Readers
<1> QED BY <1>2, <1>3 DEF LastDiffers, LastOf

LEMMA LastIsRecord ==
  ASSUME NEW r \in Readers, r.bundles # <<>>
  PROVE  LastOf(r) \in Records /\ LastOf(r).members \in Seq(MemberNames)
         /\ LastOf(r).keys \subseteq {"description", "members"}
<1>1. r.bundles \in Seq(Records) /\ Len(r.bundles) \in 1..Len(r.bundles)
  BY LenProperties, EmptySeq DEF Readers
<1>2. LastOf(r) \in Records
  BY <1>1, ElementOfSeq DEF LastOf
<1> QED BY <1>2 DEF Records

\* A member of an open list.
LEMMA MemberRead ==
  ASSUME NEW r \in Readers, r.bundles # <<>>, r.open, NEW line \in Lines, line.is = "member",
         NEW q, q = ReadLine(r, line), r.problems = 0, q.problems = 0
  PROVE  /\ ~r.needsComma /\ q.open /\ (q.needsComma <=> ~line.comma) /\ LastDiffers(r, q)
         /\ LastOf(q) = [LastOf(r) EXCEPT !.members = Append(@, line.value)]
<1> DEFINE rec == [LastOf(r) EXCEPT !.members = Append(@, line.value)]
<1>1. q = Member(r, line)
  <2>1. ~(line.is = "blank")
    OBVIOUS
  <2> QED BY <2>1 DEF ReadLine
<1>2. line.comma \in BOOLEAN /\ line.value \in MemberNames
  BY LineTypes
<1>3. rec \in Records /\ rec.name = LastOf(r).name
  <2>1. LastOf(r) \in Records /\ LastOf(r).members \in Seq(MemberNames)
    BY LastIsRecord
  <2>2. Append(LastOf(r).members, line.value) \in Seq(MemberNames)
    BY <1>2, <2>1, AppendProperties
  <2> QED BY <2>1, <2>2 DEF Records
<1>4. DOMAIN r = DOMAIN Unread
  BY DEF Readers, Unread
<1> DEFINE read == [r EXCEPT !.bundles[Current(r)].members = Append(@, line.value),
                             !.needsComma = ~line.comma]
<1>5. q = IF r.needsComma THEN Bad(read) ELSE read
  BY <1>1 DEF Member
<1>6. /\ DOMAIN read = DOMAIN r /\ read.problems = r.problems /\ read.schema = r.schema
      /\ read.open = r.open /\ read.needsComma = ~line.comma
      /\ read.bundles = [r.bundles EXCEPT ![Len(r.bundles)] = rec]
      /\ read = [f \in DOMAIN read |-> read[f]]
  BY <1>4 DEF LastOf, Current, Unread
<1> HIDE DEF read, rec
<1>7. ~r.needsComma
  BY <1>4, <1>5, <1>6 DEF Bad, Unread
<1>8. LastDiffers(r, q) /\ LastOf(q) = rec
  <2>1. q = read
    BY <1>5, <1>7
  <2>2. read.open \in BOOLEAN
    BY <1>6 DEF Readers
  <2>3. read.needsComma \in BOOLEAN
    <3>1. CASE line.comma = TRUE
      <4>1. read.needsComma = FALSE
        BY <1>4, <3>1 DEF read, Unread
      <4> QED BY <4>1
    <3>2. CASE line.comma = FALSE
      <4>1. read.needsComma = TRUE
        BY <1>4, <3>2 DEF read, Unread
      <4> QED BY <4>1
    <3> QED BY <1>2, <3>1, <3>2
  <2>4. /\ DOMAIN q = DOMAIN Unread /\ q.schema = r.schema /\ q.problems = r.problems
        /\ q.open \in BOOLEAN /\ q.needsComma \in BOOLEAN
        /\ q.bundles = [r.bundles EXCEPT ![Len(r.bundles)] = rec]
        /\ q = [f \in DOMAIN q |-> q[f]]
    BY <1>4, <1>6, <2>1, <2>2, <2>3
  <2> QED BY <1>3, <2>4, LastReplaced
<1> QED BY <1>5, <1>6, <1>7, <1>8 DEF rec

\* The end of an open list.
LEMMA CloseRead ==
  ASSUME NEW r \in Readers, r.bundles # <<>>, r.open, NEW line \in Lines, line.is = "close",
         NEW q, q = ReadLine(r, line)
  PROVE  ~q.open /\ LastDiffers(r, q) /\ LastOf(q) = LastOf(r)
<1>1. q = [r EXCEPT !.open = FALSE]
  <2>1. ~(line.is = "blank") /\ ~(r.open /\ line.is = "member")
    OBVIOUS
  <2> QED BY <2>1 DEF ReadLine
<1> QED BY <1>1 DEF Readers, LastDiffers, LastOf

\* Anything else in an open list.
LEMMA OtherInOpen ==
  ASSUME NEW r \in Readers, r.open, NEW line \in Lines, line.is \notin {"member", "close"},
         r.problems = 0
  PROVE  ReadLine(r, line).problems # 0
<1>1. ~(line.is = "blank")
  BY LineTypes
<1>2. ReadLine(r, line) = Bad(r)
  BY <1>1 DEF ReadLine
<1> QED BY <1>2 DEF Bad, Readers

\* The description of a bundle, and the start of its list: each once.
LEMMA OnceRead ==
  ASSUME NEW r \in Readers, r.bundles # <<>>, ~r.open, NEW line \in Lines,
         line.is \in {"description", "members"},
         NEW q, q = ReadLine(r, line), r.problems = 0, q.problems = 0
  PROVE  /\ LastDiffers(r, q) /\ line.is \notin LastOf(r).keys
         /\ line.is = "description" =>
              /\ ~q.open
              /\ LastOf(q) = [LastOf(r) EXCEPT !.description = line.value # "none",
                                               !.keys = @ \union {"description"}]
         /\ line.is = "members" =>
              /\ q.open /\ ~q.needsComma
              /\ LastOf(q) = [LastOf(r) EXCEPT !.keys = @ \union {"members"}]
<1>1. DOMAIN r = DOMAIN Unread /\ Len(r.bundles) \in DOMAIN r.bundles
      /\ LastOf(r) \in Records
  <2>1. Len(r.bundles) \in DOMAIN r.bundles
    BY LenProperties, EmptySeq DEF Readers
  <2> QED BY <2>1, LastIsRecord DEF Readers, Unread
<1>2. CASE line.is = "description"
  <2> DEFINE rec == [LastOf(r) EXCEPT !.description = line.value # "none",
                                      !.keys = @ \union {"description"}]
             read == [r EXCEPT !.bundles[Current(r)].description = line.value # "none"]
             kept == [read EXCEPT !.bundles[Current(r)].keys = @ \union {"description"}]
  <2>1. q = IF "description" \in LastOf(r).keys THEN Bad(kept) ELSE kept
    <3>1. ~(line.is = "blank") /\ ~(r.open /\ line.is = "member") /\ ~(r.open /\ line.is = "close")
          /\ ~(~r.open /\ line.is = "table")
          /\ ~(~r.open /\ line.is = "schema" /\ r.bundles = <<>>)
      BY <1>2
    <3>2. q = Once(r, "description", read)
      BY <1>2, <3>1 DEF ReadLine
    <3>3. Current(read) = Current(r)
      BY <1>1 DEF Current, Readers, Unread
    <3> HIDE DEF read
    <3> QED BY <3>2, <3>3 DEF Once, LastOf, Current
  <2>2. /\ DOMAIN kept = DOMAIN r /\ kept.problems = r.problems /\ kept.schema = r.schema
        /\ kept.open = r.open /\ kept.needsComma = r.needsComma
        /\ kept.bundles = [r.bundles EXCEPT ![Len(r.bundles)] = rec]
        /\ kept = [f \in DOMAIN kept |-> kept[f]]
    BY <1>1 DEF LastOf, Current, Unread, Records
  <2>3. rec \in Records /\ rec.name = LastOf(r).name
    BY <1>1 DEF Records
  <2> HIDE DEF kept, rec
  <2>4. "description" \notin LastOf(r).keys
    BY <1>1, <2>1, <2>2 DEF Bad, Unread
  <2>5. LastDiffers(r, q) /\ LastOf(q) = rec
    BY <1>1, <2>1, <2>2, <2>3, <2>4, LastReplaced DEF Readers
  <2> QED BY <1>2, <2>1, <2>2, <2>4, <2>5 DEF rec
<1>3. CASE line.is = "members"
  <2> DEFINE rec == [LastOf(r) EXCEPT !.keys = @ \union {"members"}]
             read == [r EXCEPT !.open = TRUE, !.needsComma = FALSE]
             kept == [read EXCEPT !.bundles[Current(r)].keys = @ \union {"members"}]
  <2>1. q = IF "members" \in LastOf(r).keys THEN Bad(kept) ELSE kept
    <3>1. ~(line.is = "blank") /\ ~(r.open /\ line.is = "member") /\ ~(r.open /\ line.is = "close")
          /\ ~(~r.open /\ line.is = "table")
          /\ ~(~r.open /\ line.is = "schema" /\ r.bundles = <<>>)
          /\ ~(~r.open /\ line.is = "description" /\ r.bundles # <<>>)
      BY <1>3
    <3>2. q = Once(r, "members", read)
      BY <1>3, <3>1 DEF ReadLine
    <3>3. Current(read) = Current(r)
      BY <1>1 DEF Current, Readers, Unread
    <3> HIDE DEF read
    <3> QED BY <3>2, <3>3 DEF Once, LastOf, Current
  <2>2. /\ DOMAIN kept = DOMAIN r /\ kept.problems = r.problems /\ kept.schema = r.schema
        /\ kept.open = TRUE /\ kept.needsComma = FALSE
        /\ kept.bundles = [r.bundles EXCEPT ![Len(r.bundles)] = rec]
        /\ kept = [f \in DOMAIN kept |-> kept[f]]
    BY <1>1 DEF LastOf, Current, Unread, Records
  <2>3. rec \in Records /\ rec.name = LastOf(r).name
    BY <1>1 DEF Records
  <2> HIDE DEF kept, rec
  <2>4. "members" \notin LastOf(r).keys
    BY <1>1, <2>1, <2>2 DEF Bad, Unread
  <2>5. LastDiffers(r, q) /\ LastOf(q) = rec
    <3>1. q = kept /\ kept.open \in BOOLEAN /\ kept.needsComma \in BOOLEAN
      BY <2>1, <2>2, <2>4
    <3> QED BY <1>1, <2>2, <2>3, <3>1, LastReplaced
  <2> QED BY <1>3, <2>1, <2>2, <2>4, <2>5 DEF rec
<1> QED BY <1>2, <1>3

-----------------------------------------------------------------------------
(* The last bundle grows by a line.                                         *)

LEMMA LastGrows ==
  ASSUME NEW t, NEW line, NEW u, OneMore(t, line, u), NEW r, Shape(t, r), NEW q,
         line.is # "table", r.bundles # <<>>, LastDiffers(r, q),
         \A s \in TableLines(t) :
           /\ Segment(t, LastOf(r), s, Len(t), r.open)
           /\ r.open => CommaDue(t, LastOf(r), r.needsComma)
           => /\ Segment(u, LastOf(q), s, Len(u), q.open)
              /\ q.open => CommaDue(u, LastOf(q), q.needsComma)
  PROVE  Shape(u, q)
<1> DEFINE K == Len(r.bundles)
<1>1. /\ r \in Readers /\ Opening(t, r)
      /\ \A k \in DOMAIN r.bundles : \E s \in TableLines(t) : Made(t, r, k, s)
      /\ \A s \in TableLines(t) : \E k \in DOMAIN r.bundles : Made(t, r, k, s)
      /\ \A i, j \in TableLines(t) : i # j => t[i].value # t[j].value
  BY DEF Shape
<1>2. /\ K \in DOMAIN r.bundles /\ DOMAIN q.bundles = DOMAIN r.bundles /\ Len(q.bundles) = K
      /\ q \in Readers /\ q.bundles # <<>>
  BY <1>1, LenProperties, EmptySeq DEF Readers, LastDiffers
<1>3. TableLines(u) = TableLines(t) /\ \A s \in TableLines(t) : u[s] = t[s] /\ s \in 1..Len(t)
  BY DEF OneMore
<1>4. ASSUME NEW s \in TableLines(t), NEW k \in DOMAIN r.bundles, Made(t, r, k, s)
      PROVE  Made(u, q, k, s)
  <2>1. CASE k # K
    BY <1>1, <1>2, <1>4, <2>1, MadeKept DEF LastDiffers
  <2>2. CASE k = K
    <3>1. /\ IsEnd(t, s, Len(t) + 1) /\ Segment(t, LastOf(r), s, Len(t), r.open)
          /\ r.open => CommaDue(t, LastOf(r), r.needsComma)
          /\ t[s].value = LastOf(r).name
      BY <1>4, <2>2 DEF Made, LastOf
    <3>2. IsEnd(u, s, Len(u) + 1)
      BY <3>1, EndGrows
    <3>3. /\ Segment(u, LastOf(q), s, Len(u), q.open)
          /\ q.open => CommaDue(u, LastOf(q), q.needsComma)
      BY <3>1
    <3>4. u[s].value = LastOf(q).name
      BY <1>3, <3>1 DEF LastDiffers
    <3> QED BY <1>2, <2>2, <3>2, <3>3, <3>4 DEF Made, LastOf
  <2> QED BY <2>1, <2>2
<1>5. Opening(u, q)
  <2>1. TableLines(t) # {}
    BY <1>1, <1>2
  <2>2. 1 \in 1..Len(t) /\ u[1] = t[1] /\ t # <<>> /\ u # <<>>
    <3>1. Len(t) >= 1 /\ Len(t) \in Nat /\ Len(u) = Len(t) + 1
      BY <1>3, <2>1 DEF OneMore
    <3>2. t # <<>> /\ u # <<>>
      BY <3>1, EmptySeq
    <3> QED BY <3>1, <3>2 DEF OneMore
  <2> QED BY <1>1, <1>2, <1>3, <2>2 DEF Opening, LastDiffers
<1>6. \A i, j \in TableLines(u) : i # j => u[i].value # u[j].value
  BY <1>1, <1>3
<1> QED BY <1>1, <1>2, <1>3, <1>4, <1>5, <1>6 DEF Shape

LEMMA MemberListed ==
  ASSUME NEW t, NEW line, NEW u, OneMore(t, line, u), line.is = "member", NEW rec \in Records,
         CommaDue(t, rec, FALSE), NEW m \in Nat \ {0}, Listed(t, rec, m, Len(t), TRUE),
         NEW new, new.members = Append(rec.members, line.value)
  PROVE  Listed(u, new, m, Len(u), TRUE)
<1>1. line.value \in MemberNames
  BY LineTypes DEF OneMore
<1>2. PICK n \in Nat : n = Len(rec.members) /\ (rec.members = <<>> <=> n = 0)
  BY LenProperties, EmptySeq DEF Records
<1>3. /\ Len(new.members) = n + 1 /\ new.members[n + 1] = line.value
      /\ \A i \in 1..n : new.members[i] = rec.members[i]
  BY <1>1, <1>2, AppendProperties DEF Records
<1>4. /\ Len(t) = m + n /\ t[m].is = "members"
      /\ \A i \in 1..n : t[m + i].is = "member" /\ t[m + i].value = rec.members[i]
      /\ \A i \in 1..n : i < n => t[m + i].comma
  BY <1>2 DEF Listed
<1>5. ASSUME n # 0 PROVE t[m + n].comma
  <2>1. t[Len(t)].comma
    BY <1>2, <1>5 DEF CommaDue
  <2> QED BY <1>4, <2>1
<1>6. m \in 1..Len(t) /\ \A i \in 0..n : m + i \in 1..Len(t)
  BY <1>2, <1>4
<1>7. Len(u) = m + (n + 1) /\ u[m + (n + 1)] = line /\ \A i \in 0..n : u[m + i] = t[m + i]
  BY <1>2, <1>4, <1>6 DEF OneMore
<1>8. u[m].is = "members"
  <2>1. u[m] = t[m]
    BY <1>6 DEF OneMore
  <2> QED BY <1>4, <2>1
<1>9. ASSUME NEW i \in 1..(n + 1)
      PROVE  /\ u[m + i].is = "member" /\ u[m + i].value = new.members[i]
             /\ i < n + 1 => u[m + i].comma
  <2>1. CASE i = n + 1
    BY <1>2, <1>3, <1>7, <2>1
  <2>2. CASE i \in 1..n
    <3>1. u[m + i] = t[m + i] /\ new.members[i] = rec.members[i]
      BY <1>2, <1>3, <1>7, <2>2
    <3>2. i = n \/ i < n
      BY <1>2, <2>2
    <3> QED BY <1>2, <1>4, <1>5, <2>2, <3>1, <3>2
  <2> QED BY <1>2, <2>1, <2>2
<1> QED BY <1>3, <1>7, <1>8, <1>9 DEF Listed

LEMMA SecondLine ==
  ASSUME NEW t, Len(t) \in Nat, NEW rec \in Records, NEW s \in 1..Len(t),
         Listed(t, rec, s + 2, Len(t), TRUE)
  PROVE  s + 1 \in 1..Len(t)
<1>1. PICK n \in Nat : n = Len(rec.members)
  BY LenProperties DEF Records
<1>2. Len(t) = s + 2 + n
  BY <1>1 DEF Listed
<1>3. \A a, b, c \in Nat : a = b + 2 + c => b + 1 \in 1..a
  OBVIOUS
<1>4. s \in Nat /\ n \in Nat
  BY <1>1
<1> QED BY <1>2, <1>3, <1>4

LEMMA MemberGrows ==
  ASSUME NEW t, NEW line, NEW u, OneMore(t, line, u), line.is = "member", NEW rec \in Records,
         CommaDue(t, rec, FALSE), NEW s \in 1..Len(t), Segment(t, rec, s, Len(t), TRUE),
         NEW new, new.members = Append(rec.members, line.value), new.keys = rec.keys,
         new.description = rec.description
  PROVE  Segment(u, new, s, Len(u), TRUE) /\ CommaDue(u, new, ~line.comma)
<1>1. /\ new.members = Append(rec.members, line.value) /\ new.keys = rec.keys
      /\ new.description = rec.description
  OBVIOUS
<1>2. Len(t) \in Nat /\ Len(u) \in 1..Len(u) /\ s + 1 \in Nat \ {0} /\ s + 2 \in Nat \ {0}
      /\ u[s] = t[s] /\ u[Len(u)] = line
  BY DEF OneMore
<1>3. ASSUME rec.keys = {"members"}, ~rec.description, Listed(t, rec, s + 1, Len(t), TRUE)
      PROVE  Segment(u, new, s, Len(u), TRUE)
  <2>1. s + 1 \in Nat \ {0}
    BY <1>2
  <2>2. Listed(u, new, s + 1, Len(u), TRUE)
    BY <1>3, <2>1, MemberListed
  <2> QED BY <1>1, <1>3, <2>2 DEF Segment
<1>4. ASSUME rec.keys = {"description", "members"},
             Described(t[s + 1], rec), Listed(t, rec, s + 2, Len(t), TRUE)
      PROVE  Segment(u, new, s, Len(u), TRUE)
  <2>1. PICK m \in Nat \ {0} : m = s + 2
    BY <1>2
  <2>2. Listed(u, new, s + 2, Len(u), TRUE)
    <3>1. Listed(t, rec, m, Len(t), TRUE)
      BY <1>4, <2>1
    <3>2. Listed(u, new, m, Len(u), TRUE)
      BY <3>1, MemberListed
    <3> QED BY <2>1, <3>2
  <2>3. s + 1 \in 1..Len(t)
    BY <1>2, <1>4, SecondLine
  <2>4. Described(u[s + 1], new)
    <3>1. u[s + 1] = t[s + 1]
      BY <2>3 DEF OneMore
    <3> QED BY <1>1, <1>4, <3>1 DEF Described
  <2> QED BY <1>1, <1>4, <2>2, <2>4 DEF Segment
<1>5. Segment(u, new, s, Len(u), TRUE)
  BY <1>3, <1>4 DEF Segment
<1>6. new.members # <<>>
  <2>1. line.value \in MemberNames /\ rec.members \in Seq(MemberNames)
    BY LineTypes DEF OneMore, Records
  <2>2. Len(Append(rec.members, line.value)) = Len(rec.members) + 1 /\ Len(rec.members) \in Nat
    BY <2>1, AppendProperties, LenProperties
  <2>3. Len(new.members) # 0
    BY <1>1, <2>2
  <2> QED BY <2>3, EmptySeq
<1>7. CommaDue(u, new, ~line.comma)
  BY <1>2, <1>6 DEF CommaDue
<1> QED BY <1>5, <1>7

LEMMA CloseListed ==
  ASSUME NEW t, NEW line, NEW u, OneMore(t, line, u), line.is = "close", NEW rec \in Records,
         NEW m \in Nat \ {0}, Listed(t, rec, m, Len(t), TRUE)
  PROVE  Listed(u, rec, m, Len(u), FALSE)
<1>1. PICK n \in Nat : n = Len(rec.members)
  BY LenProperties DEF Records
<1>2. Listed(u, rec, m, Len(t), TRUE)
  <2>1. Len(t) \in 0..Len(t)
    BY DEF OneMore
  <2> QED BY <2>1, ListedKept
<1>3. Len(u) = m + n + 1 /\ u[Len(u)].is = "close"
  BY <1>1, <1>2 DEF Listed, OneMore
<1> QED BY <1>1, <1>2, <1>3 DEF Listed

LEMMA CloseGrows ==
  ASSUME NEW t, NEW line, NEW u, OneMore(t, line, u), line.is = "close", NEW rec \in Records,
         NEW s \in 1..Len(t), Segment(t, rec, s, Len(t), TRUE)
  PROVE  Segment(u, rec, s, Len(u), FALSE)
<1>1. Len(t) \in Nat /\ s + 1 \in Nat \ {0} /\ s + 2 \in Nat \ {0}
  BY DEF OneMore
<1>2. CASE rec.keys = {"members"} /\ ~rec.description /\ Listed(t, rec, s + 1, Len(t), TRUE)
  <2>1. Listed(u, rec, s + 1, Len(u), FALSE)
    BY <1>1, <1>2, CloseListed
  <2> QED BY <1>2, <2>1 DEF Segment
<1>3. CASE /\ rec.keys = {"description", "members"}
           /\ Described(t[s + 1], rec) /\ Listed(t, rec, s + 2, Len(t), TRUE)
  <2>1. Listed(u, rec, s + 2, Len(u), FALSE)
    BY <1>1, <1>3, CloseListed
  <2>2. s + 1 \in 1..Len(t)
    BY <1>1, <1>3, SecondLine
  <2>3. Described(u[s + 1], rec)
    BY <1>3, <2>2 DEF OneMore
  <2> QED BY <1>3, <2>1, <2>3 DEF Segment
<1> QED BY <1>2, <1>3 DEF Segment

LEMMA DescriptionGrows ==
  ASSUME NEW t, NEW line, NEW u, OneMore(t, line, u), line.is = "description",
         NEW rec \in Records, "description" \notin rec.keys,
         NEW s \in 1..Len(t), Segment(t, rec, s, Len(t), FALSE),
         NEW new, new.members = rec.members, new.keys = rec.keys \union {"description"},
         Described(line, new)
  PROVE  Segment(u, new, s, Len(u), FALSE)
<1>1. /\ new.members = rec.members /\ new.keys = rec.keys \union {"description"}
      /\ Described(line, new)
  OBVIOUS
<1>2. Len(t) \in Nat /\ Len(u) = Len(t) + 1 /\ u[Len(u)] = line /\ Len(u) - 1 = Len(t)
      /\ Len(t) \in 0..Len(t) /\ s + 1 \in Nat \ {0}
  BY DEF OneMore
<1>3. Described(u[Len(u)], new)
  BY <1>1, <1>2
<1>4. CASE rec.keys = {} /\ Len(t) = s /\ rec.members = <<>>
  BY <1>1, <1>2, <1>3, <1>4 DEF Segment
<1>5. CASE rec.keys = {"members"} /\ Listed(t, rec, s + 1, Len(t), FALSE)
  <2>1. Listed(u, rec, s + 1, Len(u) - 1, FALSE)
    BY <1>2, <1>5, ListedKept
  <2>2. Listed(u, new, s + 1, Len(u) - 1, FALSE)
    BY <1>1, <2>1 DEF Listed
  <2>3. new.keys = {"description", "members"}
    BY <1>1, <1>5
  <2> QED BY <1>3, <2>2, <2>3 DEF Segment
<1> QED BY <1>4, <1>5 DEF Segment

LEMMA MembersGrow ==
  ASSUME NEW t, NEW line, NEW u, OneMore(t, line, u), line.is = "members",
         NEW rec \in Records, "members" \notin rec.keys,
         NEW s \in 1..Len(t), Segment(t, rec, s, Len(t), FALSE),
         NEW new, new.members = rec.members, new.keys = rec.keys \union {"members"},
         new.description = rec.description
  PROVE  Segment(u, new, s, Len(u), TRUE) /\ CommaDue(u, new, FALSE)
<1>1. /\ new.members = rec.members /\ new.keys = rec.keys \union {"members"}
      /\ new.description = rec.description
  OBVIOUS
<1>2. Len(t) \in Nat /\ Len(u) = Len(t) + 1 /\ u[Len(u)] = line
  BY DEF OneMore
<1>3. ASSUME rec.members = <<>> PROVE Listed(u, new, Len(u), Len(u), TRUE)
  <2>1. Len(new.members) = 0
    BY <1>1, <1>3, EmptySeq
  <2>2. 1..Len(new.members) = {} /\ Len(u) = Len(u) + Len(new.members) /\ u[Len(u)].is = "members"
    BY <1>2, <2>1
  <2> QED BY <2>2 DEF Listed
<1>4. CASE rec.keys = {} /\ Len(t) = s /\ rec.members = <<>> /\ ~rec.description
  <2>1. Listed(u, new, s + 1, Len(u), TRUE) /\ new.keys = {"members"}
    BY <1>1, <1>2, <1>3, <1>4
  <2> QED BY <1>1, <1>4, <2>1 DEF Segment, CommaDue
<1>5. CASE /\ rec.keys = {"description"} /\ Len(t) = s + 1 /\ rec.members = <<>>
           /\ Described(t[Len(t)], rec)
  <2>1. s + 2 = Len(u) /\ u[s + 1] = t[Len(t)]
    BY <1>2, <1>5 DEF OneMore
  <2>2. Listed(u, new, s + 2, Len(u), TRUE) /\ new.keys = {"description", "members"}
    BY <1>1, <1>3, <1>5, <2>1
  <2>3. Described(u[s + 1], new)
    BY <1>1, <1>5, <2>1 DEF Described
  <2> QED BY <1>1, <1>5, <2>2, <2>3 DEF Segment, CommaDue
<1> QED BY <1>4, <1>5 DEF Segment

LEMMA BundleGrows ==
  ASSUME NEW t, NEW line, NEW u, OneMore(t, line, u), NEW r, Shape(t, r), r.problems = 0,
         r.bundles # <<>>, r.open \/ line.is \in {"description", "members"},
         NEW q, q = ReadLine(r, line), q.problems = 0
  PROVE  Shape(u, q)
<1>1. r \in Readers /\ line \in Lines /\ r.open \in BOOLEAN /\ r.needsComma \in BOOLEAN
      /\ \A s \in TableLines(t) : s \in 1..Len(t)
  BY DEF Shape, Readers, OneMore
<1>2. LastOf(r) \in Records
  BY <1>1, LastIsRecord
<1>3. ASSUME LastDiffers(r, q), line.is # "table",
             \A s \in TableLines(t) :
               /\ Segment(t, LastOf(r), s, Len(t), r.open)
               /\ r.open => CommaDue(t, LastOf(r), r.needsComma)
               => /\ Segment(u, LastOf(q), s, Len(u), q.open)
                  /\ q.open => CommaDue(u, LastOf(q), q.needsComma)
      PROVE  Shape(u, q)
  BY <1>3, LastGrows
<1>4. CASE r.open
  <2>1. r.open = TRUE
    BY <1>1, <1>4
  <2>2. line.is \in {"member", "close"}
    BY <1>1, <1>4, OtherInOpen
  <2>3. CASE line.is = "member"
    <3>1. /\ ~r.needsComma /\ q.open /\ (q.needsComma <=> ~line.comma) /\ LastDiffers(r, q)
          /\ LastOf(q) = [LastOf(r) EXCEPT !.members = Append(@, line.value)]
      BY <1>1, <1>4, <2>3, MemberRead
    <3>2. r.needsComma = FALSE /\ q.open = TRUE
      BY <1>1, <3>1 DEF LastDiffers, Readers
    <3>3. /\ LastOf(q).members = Append(LastOf(r).members, line.value)
          /\ LastOf(q).keys = LastOf(r).keys /\ LastOf(q).description = LastOf(r).description
      BY <1>2, <3>1 DEF Records
    <3>4. ASSUME NEW s \in TableLines(t), Segment(t, LastOf(r), s, Len(t), r.open),
                 r.open => CommaDue(t, LastOf(r), r.needsComma)
          PROVE  /\ Segment(u, LastOf(q), s, Len(u), q.open)
                 /\ q.open => CommaDue(u, LastOf(q), q.needsComma)
      <4>1. Segment(t, LastOf(r), s, Len(t), TRUE) /\ CommaDue(t, LastOf(r), FALSE)
        BY Zenon, <1>4, <2>1, <3>2, <3>4
      <4>2. Segment(u, LastOf(q), s, Len(u), TRUE) /\ CommaDue(u, LastOf(q), ~line.comma)
        BY <1>1, <1>2, <2>3, <3>3, <4>1, MemberGrows
      <4>3. CommaDue(u, LastOf(q), q.needsComma)
        BY <3>1, <4>2 DEF CommaDue
      <4> QED BY Zenon, <3>2, <4>2, <4>3
    <3> QED BY <1>3, <2>3, <3>1, <3>4
  <2>4. CASE line.is = "close"
    <3>1. ~q.open /\ LastDiffers(r, q) /\ LastOf(q) = LastOf(r)
      BY <1>1, <1>4, <2>4, CloseRead
    <3>2. q.open = FALSE
      BY <3>1 DEF LastDiffers, Readers
    <3>3. ASSUME NEW s \in TableLines(t), Segment(t, LastOf(r), s, Len(t), r.open)
          PROVE  Segment(u, LastOf(q), s, Len(u), q.open)
      <4>1. Segment(t, LastOf(r), s, Len(t), TRUE)
        BY Zenon, <2>1, <3>3
      <4>2. Segment(u, LastOf(r), s, Len(u), FALSE)
        BY <1>1, <1>2, <2>4, <4>1, CloseGrows
      <4> QED BY Zenon, <3>1, <3>2, <4>2
    <3> QED BY <1>3, <2>4, <3>1, <3>3
  <2> QED BY <2>2, <2>3, <2>4
<1>5. CASE ~r.open
  <2>1. r.open = FALSE /\ line.is \in {"description", "members"}
    BY <1>1, <1>5
  <2>2. CASE line.is = "description"
    <3>1. /\ LastDiffers(r, q) /\ "description" \notin LastOf(r).keys /\ ~q.open
          /\ LastOf(q) = [LastOf(r) EXCEPT !.description = line.value # "none",
                                           !.keys = @ \union {"description"}]
      BY <1>1, <1>5, <2>2, OnceRead
    <3>2. q.open = FALSE
      BY <3>1 DEF LastDiffers, Readers
    <3>3. /\ LastOf(q).members = LastOf(r).members
          /\ LastOf(q).keys = LastOf(r).keys \union {"description"}
          /\ Described(line, LastOf(q))
      BY <1>2, <2>2, <3>1 DEF Records, Described
    <3>4. ASSUME NEW s \in TableLines(t), Segment(t, LastOf(r), s, Len(t), r.open)
          PROVE  Segment(u, LastOf(q), s, Len(u), q.open)
      <4>1. Segment(t, LastOf(r), s, Len(t), FALSE)
        BY Zenon, <2>1, <3>4
      <4>2. Segment(u, LastOf(q), s, Len(u), FALSE)
        <5>1. s \in 1..Len(t) /\ "description" \notin LastOf(r).keys
          BY <1>1, <3>1
        <5> QED BY <1>2, <2>2, <3>3, <4>1, <5>1, DescriptionGrows
      <4> QED BY Zenon, <3>2, <4>2
    <3> QED BY <1>3, <2>2, <3>1, <3>4
  <2>3. CASE line.is = "members"
    <3>1. /\ LastDiffers(r, q) /\ "members" \notin LastOf(r).keys /\ q.open /\ ~q.needsComma
          /\ LastOf(q) = [LastOf(r) EXCEPT !.keys = @ \union {"members"}]
      BY <1>1, <1>5, <2>3, OnceRead
    <3>2. q.open = TRUE /\ q.needsComma = FALSE
      BY <3>1 DEF LastDiffers, Readers
    <3>3. /\ LastOf(q).members = LastOf(r).members
          /\ LastOf(q).keys = LastOf(r).keys \union {"members"}
          /\ LastOf(q).description = LastOf(r).description
      BY <1>2, <3>1 DEF Records
    <3>4. ASSUME NEW s \in TableLines(t), Segment(t, LastOf(r), s, Len(t), r.open)
          PROVE  /\ Segment(u, LastOf(q), s, Len(u), q.open)
                 /\ CommaDue(u, LastOf(q), q.needsComma)
      <4>1. Segment(t, LastOf(r), s, Len(t), FALSE)
        BY Zenon, <2>1, <3>4
      <4>2. Segment(u, LastOf(q), s, Len(u), TRUE) /\ CommaDue(u, LastOf(q), FALSE)
        BY <1>1, <1>2, <2>3, <3>1, <3>3, <4>1, MembersGrow
      <4> QED BY Zenon, <3>2, <4>2
    <3> QED BY <1>3, <2>3, <3>1, <3>4
  <2> QED BY <2>1, <2>2, <2>3
<1> QED BY <1>4, <1>5

\* q is r and the record of a table just read.
TableAdded(r, line, q) ==
  /\ \A k \in DOMAIN r.bundles : r.bundles[k].name # line.value
  /\ q \in Readers /\ q.schema = r.schema /\ q.open = FALSE
  /\ Len(q.bundles) = Len(r.bundles) + 1
  /\ \A k \in DOMAIN r.bundles : q.bundles[k] = r.bundles[k]
  /\ LastOf(q) \in Records /\ LastOf(q).name = line.value /\ LastOf(q).keys = {}
  /\ LastOf(q).members = <<>> /\ LastOf(q).description = FALSE

\* The table of a new bundle.
LEMMA TableRead ==
  ASSUME NEW r \in Readers, NEW line \in Lines, line.is = "table",
         NEW q, q = ReadLine(r, line), r.problems = 0, q.problems = 0
  PROVE  ~r.open /\ TableAdded(r, line, q)
<1> DEFINE new == [NoBundle EXCEPT !.name = line.value]
           read == [r EXCEPT !.bundles = Append(@, new)]
           Known == \E k \in DOMAIN r.bundles : r.bundles[k].name = line.value
<1>1. ~r.open
  BY OtherInOpen
<1>2. q = IF Known THEN Bad(read) ELSE read
  <2>1. ~(line.is = "blank") /\ ~(r.open /\ line.is = "member") /\ ~(r.open /\ line.is = "close")
    OBVIOUS
  <2> QED BY <1>1, <2>1 DEF ReadLine
<1>3. DOMAIN r = DOMAIN Unread
  BY DEF Readers, Unread
<1>4. /\ new \in Records /\ new.name = line.value /\ new.keys = {} /\ new.members = <<>>
      /\ new.description = FALSE
  <2>1. line.value \in BundleNames
    BY LineTypes
  <2> QED BY <2>1, EmptySeq DEF NoBundle, Records
<1>5. /\ r.bundles \in Seq(Records) /\ Len(r.bundles) \in Nat
      /\ DOMAIN r.bundles = 1..Len(r.bundles)
  BY LenProperties DEF Readers
<1> HIDE DEF new
<1>6. /\ Append(r.bundles, new) \in Seq(Records)
      /\ Len(Append(r.bundles, new)) = Len(r.bundles) + 1
      /\ \A k \in 1..Len(r.bundles) : Append(r.bundles, new)[k] = r.bundles[k]
      /\ Append(r.bundles, new)[Len(r.bundles) + 1] = new
  BY <1>4, <1>5, AppendProperties
<1>7. /\ read \in Readers /\ read.schema = r.schema /\ read.open = r.open
      /\ read.bundles = Append(r.bundles, new) /\ read.problems = 0
  BY <1>6 DEF Readers
<1> HIDE DEF read
<1>8. ~Known
  <2>1. Bad(read).problems # 0
    BY <1>7 DEF Bad, Readers
  <2> QED BY <1>2, <2>1
<1>9. q = read
  BY <1>2, <1>8
<1>10. r.open = FALSE
  BY <1>1 DEF Readers
<1>11. LastOf(q) = new /\ Len(q.bundles) = Len(r.bundles) + 1
  BY <1>5, <1>6, <1>7, <1>9 DEF LastOf
<1> QED BY <1>1, <1>4, <1>5, <1>6, <1>7, <1>8, <1>9, <1>10, <1>11 DEF TableAdded

LEMMA TableGrows ==
  ASSUME NEW t, NEW line, NEW u, OneMore(t, line, u), NEW r, Shape(t, r), r.problems = 0,
         line.is = "table", NEW q, q = ReadLine(r, line), q.problems = 0
  PROVE  Shape(u, q)
<1> DEFINE K == Len(r.bundles)
<1>1. /\ r \in Readers /\ Opening(t, r) /\ line \in Lines
      /\ \A k \in DOMAIN r.bundles : \E s \in TableLines(t) : Made(t, r, k, s)
      /\ \A s \in TableLines(t) : \E k \in DOMAIN r.bundles : Made(t, r, k, s)
      /\ \A i, j \in TableLines(t) : i # j => t[i].value # t[j].value
  BY DEF Shape, OneMore
<1>2. /\ r.open = FALSE /\ \A k \in DOMAIN r.bundles : r.bundles[k].name # line.value
      /\ q \in Readers /\ q.schema = r.schema /\ q.open = FALSE /\ Len(q.bundles) = K + 1
      /\ \A k \in DOMAIN r.bundles : q.bundles[k] = r.bundles[k]
      /\ LastOf(q) \in Records /\ LastOf(q).name = line.value /\ LastOf(q).keys = {}
      /\ LastOf(q).members = <<>> /\ LastOf(q).description = FALSE
  <2>1. r \in Readers /\ line \in Lines /\ r.open \in BOOLEAN
    BY <1>1 DEF Readers
  <2>2. ~r.open /\ TableAdded(r, line, q)
    BY <2>1, TableRead
  <2> QED BY <2>1, <2>2 DEF TableAdded
<1>3. /\ K \in Nat /\ DOMAIN r.bundles = 1..K /\ DOMAIN q.bundles = 1..(K + 1)
      /\ (r.bundles = <<>> <=> K = 0) /\ q.bundles # <<>>
  BY <1>1, <1>2, LenProperties, EmptySeq DEF Readers
<1>4. /\ Len(t) \in Nat /\ Len(u) = Len(t) + 1 /\ u[Len(u)] = line
      /\ TableLines(u) = TableLines(t) \union {Len(u)}
      /\ \A s \in TableLines(t) : u[s] = t[s] /\ s \in 1..Len(t)
      /\ \A i \in 1..Len(t) : u[i] = t[i]
  BY DEF OneMore
<1>5. (t = <<>> <=> Len(t) = 0) /\ u # <<>>
  BY <1>4, EmptySeq DEF OneMore
<1>6. ASSUME NEW s \in TableLines(t), NEW k \in DOMAIN r.bundles, Made(t, r, k, s)
      PROVE  Made(u, q, k, s)
  <2>1. CASE k # K
    <3>1. k # Len(q.bundles) /\ q.bundles[k] = r.bundles[k]
      BY <1>2, <1>3
    <3> QED BY <1>1, <1>2, <1>6, <2>1, <3>1, MadeKept
  <2>2. CASE k = K
    <3>1. /\ t[s].value = r.bundles[k].name /\ IsEnd(t, s, Len(t) + 1)
          /\ Segment(t, r.bundles[k], s, Len(t), r.open)
      BY <1>6, <2>2 DEF Made
    <3>2. IsEnd(u, s, Len(t) + 1)
      BY <3>1, EndGrows
    <3>3. r.bundles[k] \in Records
      BY <1>1, ElementOfSeq, LenProperties DEF Readers
    <3>4. s \in 1..Len(t) /\ Len(t) \in s..Len(t) /\ Len(t) \in 1..(Len(u) - 1)
      BY <1>4
    <3>5. Segment(t, r.bundles[k], s, Len(t), FALSE)
      BY Zenon, <1>2, <3>1
    <3>6. Segment(u, r.bundles[k], s, Len(t), FALSE)
      BY <3>3, <3>4, <3>5, SegmentKept
    <3>7. k # Len(q.bundles) /\ q.bundles[k] = r.bundles[k] /\ u[s] = t[s]
      BY <1>2, <1>3, <1>4
    <3> QED BY <3>1, <3>2, <3>4, <3>6, <3>7 DEF Made
  <2> QED BY <2>1, <2>2
<1>7. Made(u, q, K + 1, Len(u)) /\ K + 1 \in DOMAIN q.bundles /\ Len(u) \in TableLines(u)
  <2>1. Len(u) \in TableLines(u) /\ IsEnd(u, Len(u), Len(u) + 1)
    BY EndOfNew
  <2>2. Segment(u, LastOf(q), Len(u), Len(u), q.open)
    BY <1>2 DEF Segment
  <2>3. u[Len(u)].value = LastOf(q).name
    BY <1>2, <1>4
  <2> QED BY <1>2, <1>3, <2>1, <2>2, <2>3 DEF Made, LastOf
<1>8. \A i, j \in TableLines(u) : i # j => u[i].value # u[j].value
  <2>1. ASSUME NEW s \in TableLines(t) PROVE u[s].value # line.value
    <3>1. PICK k \in DOMAIN r.bundles : Made(t, r, k, s)
      BY <1>1
    <3>2. t[s].value = r.bundles[k].name
      BY <3>1 DEF Made
    <3> QED BY <1>2, <1>4, <3>2
  <2>2. \A s \in TableLines(t) : u[s] = t[s]
    BY <1>4
  <2>3. \A i, j \in TableLines(t) : i # j => u[i].value # u[j].value
    BY <1>1, <2>2
  <2> QED BY <1>4, <2>1, <2>3
<1>9. Opening(u, q)
  <2>1. CASE t = <<>>
    <3>1. Len(u) = 1 /\ u[1] = line /\ r.schema = "none"
      BY <1>1, <1>4, <1>5, <2>1 DEF Opening
    <3> QED BY <1>2, <1>3, <1>5, <3>1 DEF Opening
  <2>2. CASE t # <<>>
    <3>1. 1 \in 1..Len(t) /\ u[1] = t[1]
      BY <1>4, <1>5, <2>2
    <3>2. ASSUME t[1].is = "schema" PROVE 2 \in TableLines(u)
      <4>1. CASE r.bundles = <<>>
        <5>1. Len(t) <= 1
          BY <1>1, <4>1 DEF Opening
        <5>2. Len(u) = 2
          BY <1>4, <3>1, <5>1
        <5> QED BY <1>4, <5>2
      <4>2. CASE r.bundles # <<>>
        BY <1>1, <1>4, <3>2, <4>2 DEF Opening
      <4> QED BY <4>1, <4>2
    <3> QED BY <1>1, <1>2, <1>3, <1>5, <2>2, <3>1, <3>2 DEF Opening
  <2> QED BY <2>1, <2>2
<1>10. \A k \in DOMAIN q.bundles : \E s \in TableLines(u) : Made(u, q, k, s)
  <2>1. \A k \in DOMAIN r.bundles : \E s \in TableLines(u) : Made(u, q, k, s)
    BY <1>1, <1>4, <1>6
  <2>2. \A k \in DOMAIN q.bundles : k \in DOMAIN r.bundles \/ k = K + 1
    BY <1>3
  <2> QED BY <1>7, <2>1, <2>2
<1>11. \A s \in TableLines(u) : \E k \in DOMAIN q.bundles : Made(u, q, k, s)
  <2>1. \A k \in DOMAIN r.bundles : k \in DOMAIN q.bundles
    BY <1>3
  <2>2. \A s \in TableLines(t) : \E k \in DOMAIN q.bundles : Made(u, q, k, s)
    BY <1>1, <1>6, <2>1
  <2> QED BY <1>4, <1>7, <2>2
<1> QED BY <1>2, <1>8, <1>9, <1>10, <1>11 DEF Shape

\* Before the first table, only the format's version.
LEMMA SchemaGrows ==
  ASSUME NEW t, NEW line, NEW u, OneMore(t, line, u), NEW r, Shape(t, r), r.problems = 0,
         r.bundles = <<>>, line.is # "table", NEW q, q = ReadLine(r, line), q.problems = 0
  PROVE  Shape(u, q)
<1>1. /\ r \in Readers /\ Opening(t, r) /\ ~r.open /\ line \in Lines /\ Len(t) \in Nat
      /\ TableLines(t) = {} /\ Len(t) <= 1
  BY DEF Shape, OneMore, Opening
<1>2. DOMAIN r = DOMAIN Unread /\ Bad(r).problems # 0
  BY <1>1 DEF Readers, Unread, Bad
<1>3. line.is = "schema"
  <2>1. SUFFICES ASSUME line.is # "schema" PROVE q = Bad(r)
    BY <1>2
  <2>2. ~(line.is = "blank")
    BY <1>1, LineTypes
  <2> QED BY <1>1, <2>1, <2>2 DEF ReadLine
<1> DEFINE read == [r EXCEPT !.schema = line.value]
<1>4. q = IF r.schema # "none" THEN Bad(read) ELSE read
  <2>1. /\ ~(line.is = "blank") /\ ~(r.open /\ line.is = "member") /\ ~(r.open /\ line.is = "close")
        /\ ~(~r.open /\ line.is = "table")
    BY <1>3
  <2> QED BY <1>1, <1>3, <2>1 DEF ReadLine
<1>5. /\ read \in Readers /\ read.schema = line.value /\ read.bundles = <<>>
      /\ read.open = r.open /\ read.problems = 0
  <2>1. line.value \in {"1", "2"}
    BY <1>1, <1>3, LineTypes
  <2> QED BY <1>1, <2>1 DEF Readers
<1> HIDE DEF read
<1>6. r.schema = "none" /\ q = read
  <2>1. Bad(read).problems # 0
    BY <1>5 DEF Bad, Readers
  <2> QED BY <1>4, <2>1
<1>7. t = <<>>
  <2>1. SUFFICES ASSUME t # <<>> PROVE FALSE
    OBVIOUS
  <2>2. 1 \in 1..Len(t) /\ t[1] \in Lines /\ DOMAIN t = 1..Len(t)
    BY <1>1, <2>1, EmptySeq, ElementOfSeq, LenProperties DEF OneMore
  <2>3. t[1].is # "table"
    BY <1>1, <2>2 DEF TableLines
  <2>4. t[1].is = "schema" /\ t[1].value = "none"
    BY <1>1, <1>6, <2>1, <2>3 DEF Opening
  <2> QED BY <2>2, <2>4, LineTypes
<1>8. Len(u) = 1 /\ u[1] = line /\ TableLines(u) = {} /\ u # <<>>
  <2>1. Len(t) = 0
    BY <1>7
  <2>2. Len(u) = 1 /\ u[1] = line
    BY <2>1 DEF OneMore
  <2>3. TableLines(u) = {}
    BY <1>1, <1>3 DEF OneMore
  <2>4. u # <<>>
    BY <2>2, EmptySeq DEF OneMore
  <2> QED BY <2>2, <2>3, <2>4
<1>9. Opening(u, q)
  BY <1>1, <1>3, <1>5, <1>6, <1>8 DEF Opening
<1>10. DOMAIN q.bundles = {}
  BY <1>5, <1>6, EmptySeq
<1> QED BY <1>5, <1>6, <1>8, <1>9, <1>10 DEF Shape

\* Whatever is read without a problem keeps the shape.
LEMMA ShapeGrows ==
  ASSUME NEW t, NEW line, NEW u, OneMore(t, line, u), NEW r, Shape(t, r), r.problems = 0,
         NEW q, q = ReadLine(r, line), q.problems = 0
  PROVE  Shape(u, q)
<1>1. r \in Readers /\ line \in Lines
  BY DEF Shape, OneMore
<1>2. CASE line.is = "table"
  BY <1>2, TableGrows
<1>3. CASE line.is # "table" /\ r.bundles = <<>>
  BY <1>3, SchemaGrows
<1>4. CASE line.is # "table" /\ r.bundles # <<>>
  <2>1. r.open \/ line.is \in {"description", "members"}
    <3>1. SUFFICES ASSUME ~r.open, line.is \notin {"description", "members"} PROVE FALSE
      OBVIOUS
    <3>2. /\ ~(line.is = "blank") /\ ~(r.open /\ line.is = "member")
          /\ ~(r.open /\ line.is = "close") /\ ~(~r.open /\ line.is = "table")
          /\ ~(~r.open /\ line.is = "schema" /\ r.bundles = <<>>)
          /\ ~(~r.open /\ line.is = "description" /\ r.bundles # <<>>)
          /\ ~(~r.open /\ line.is = "members" /\ r.bundles # <<>>)
      BY <1>1, <1>4, <3>1, LineTypes
    <3>3. q = Bad(r)
      BY <3>2 DEF ReadLine
    <3> QED BY <1>1, <3>3 DEF Bad, Readers
  <2> QED BY <1>4, <2>1, BundleGrows
<1> QED BY <1>2, <1>3, <1>4

-----------------------------------------------------------------------------
(* A misplaced line.                                                        *)

\* The lines that are read without a problem where they stand.
LEMMA TableTaken ==
  ASSUME NEW r \in Readers, NEW line \in Lines, r.problems = 0, ~r.open, line.is = "table",
         \A k \in DOMAIN r.bundles : r.bundles[k].name # line.value
  PROVE  ReadLine(r, line).problems = 0
<1> DEFINE read == [r EXCEPT !.bundles = Append(@, [NoBundle EXCEPT !.name = line.value])]
<1>1. ReadLine(r, line) = read
  <2>1. ~(line.is = "blank") /\ ~(r.open /\ line.is = "member") /\ ~(r.open /\ line.is = "close")
    OBVIOUS
  <2> QED BY <2>1 DEF ReadLine
<1>2. DOMAIN r = DOMAIN Unread
  BY DEF Readers, Unread
<1> QED BY <1>1, <1>2 DEF Unread

LEMMA SchemaTaken ==
  ASSUME NEW r \in Readers, NEW line \in Lines, r.problems = 0, ~r.open, line.is = "schema",
         r.bundles = <<>>, r.schema = "none"
  PROVE  ReadLine(r, line).problems = 0
<1> DEFINE read == [r EXCEPT !.schema = line.value]
<1>1. ReadLine(r, line) = read
  <2>1. /\ ~(line.is = "blank") /\ ~(r.open /\ line.is = "member") /\ ~(r.open /\ line.is = "close")
        /\ ~(~r.open /\ line.is = "table")
    OBVIOUS
  <2> QED BY <2>1 DEF ReadLine
<1>2. DOMAIN r = DOMAIN Unread
  BY DEF Readers, Unread
<1> QED BY <1>1, <1>2 DEF Unread

LEMMA CloseTaken ==
  ASSUME NEW r \in Readers, NEW line \in Lines, r.problems = 0, r.open, line.is = "close"
  PROVE  ReadLine(r, line).problems = 0
<1>1. ReadLine(r, line) = [r EXCEPT !.open = FALSE]
  <2>1. ~(line.is = "blank") /\ ~(r.open /\ line.is = "member")
    OBVIOUS
  <2> QED BY <2>1 DEF ReadLine
<1> QED BY <1>1 DEF Readers

LEMMA DescriptionTaken ==
  ASSUME NEW r \in Readers, NEW line \in Lines, r.problems = 0, ~r.open, r.bundles # <<>>,
         line.is = "description", "description" \notin LastOf(r).keys
  PROVE  ReadLine(r, line).problems = 0
<1> DEFINE read == [r EXCEPT !.bundles[Current(r)].description = line.value # "none"]
           kept == [read EXCEPT !.bundles[Current(r)].keys = @ \union {"description"}]
<1>1. ReadLine(r, line) = kept
  <2>1. ~(line.is = "blank") /\ ~(r.open /\ line.is = "member") /\ ~(r.open /\ line.is = "close")
        /\ ~(~r.open /\ line.is = "table")
        /\ ~(~r.open /\ line.is = "schema" /\ r.bundles = <<>>)
    OBVIOUS
  <2>2. ReadLine(r, line) = Once(r, "description", read)
    BY <2>1 DEF ReadLine
  <2>3. "description" \notin r.bundles[Current(r)].keys
    BY DEF LastOf, Current
  <2> HIDE DEF read
  <2> QED BY <2>2, <2>3 DEF Once
<1>2. read.problems = 0 /\ DOMAIN read = DOMAIN r /\ DOMAIN r = DOMAIN Unread
  BY DEF Readers, Unread
<1> HIDE DEF read
<1>3. kept.problems = 0
  BY <1>2 DEF Unread
<1> QED BY <1>1, <1>3

\* No list ends with a line that is neither its bracket nor a description.
LEMMA BadEnd ==
  ASSUME NEW t, NEW line, NEW u, OneMore(t, line, u), NEW r, Shape(t, r), r.problems = 0,
         r.bundles # <<>>, line.is # "table", ReadLine(r, line).problems # 0,
         NEW s \in TableLines(t), Segment(t, LastOf(r), s, Len(t), r.open)
  PROVE  ~BundleAt(u, s, Len(u))
<1>1. /\ r \in Readers /\ line \in Lines /\ r.open \in BOOLEAN /\ LastOf(r) \in Records
      /\ Len(t) \in Nat /\ s \in 1..Len(t) /\ Len(u) = Len(t) + 1 /\ u[Len(u)] = line
      /\ \A i \in 1..Len(t) : u[i] = t[i]
  BY LastIsRecord DEF Shape, Readers, OneMore
<1>2. t \in Seq(Lines)
  BY DEF OneMore
<1>3. SUFFICES ASSUME BundleAt(u, s, Len(u)) PROVE FALSE
  OBVIOUS
<1>4. /\ Len(u) - s > 3 /\ s + 1 \in 1..Len(t) /\ s + 2 \in 1..Len(t)
      /\ u[s + 1] = t[s + 1] /\ u[s + 2] = t[s + 2] /\ u[Len(t)] = t[Len(t)]
  <2>1. Len(u) - s > 3
    BY <1>3 DEF BundleAt
  <2>2. s + 1 \in 1..Len(t) /\ s + 2 \in 1..Len(t) /\ Len(t) \in 1..Len(t)
    BY <1>1, <2>1
  <2> QED BY <1>1, <2>1, <2>2
<1>5. ASSUME Description(u[s + 1]), ListAt(u, s + 2, Len(u)) PROVE FALSE
  <2>1. line.is = "close" /\ t[s + 1].is = "description"
    BY <1>1, <1>4, <1>5 DEF ListAt, Description
  <2>2. r.open = FALSE
    BY <1>1, <2>1, CloseTaken
  <2>3. Segment(t, LastOf(r), s, Len(t), FALSE)
    BY Zenon, <2>2
  <2>4. Listed(t, LastOf(r), s + 2, Len(t), FALSE)
    <3>1. Len(t) # s /\ Len(t) # s + 1 /\ t[s + 1].is # "members"
      BY <1>1, <1>4, <2>1
    <3> QED BY <2>3, <3>1 DEF Segment, Listed
  <2>5. PICK n \in Nat : n = Len(LastOf(r).members)
    <3>1. LastOf(r).members \in Seq(MemberNames)
      BY <1>1, LastIsRecord
    <3> QED BY <3>1, LenProperties
  <2>6. Len(t) = s + 2 + n + 1 /\ t[Len(t)].is = "close"
    <3>1. Len(t) = (s + 2) + Len(LastOf(r).members) + 1 /\ t[Len(t)].is = "close"
      BY Zenon, <2>4, ListedEnds
    <3> QED BY <2>5, <3>1
  <2>7. n + 1 \in 1..(Len(u) - (s + 2) - 1) /\ (s + 2) + (n + 1) = Len(t)
    <3>1. \A a, b, c, d \in Nat : b = c + 2 + a + 1 /\ d = b + 1
                                  => a + 1 \in 1..(d - (c + 2) - 1) /\ (c + 2) + (a + 1) = b
      OBVIOUS
    <3>2. n \in Nat /\ Len(t) \in Nat /\ s \in Nat /\ Len(u) \in Nat /\ Len(u) = Len(t) + 1
      BY <1>1, <2>5
    <3> QED BY <2>6, <3>1, <3>2
  <2>8. u[Len(t)].is = "member"
    BY <1>5, <2>7 DEF ListAt
  <2> QED BY <1>4, <2>6, <2>8
<1>6. ASSUME Description(u[Len(u)]), ListAt(u, s + 1, Len(u) - 1) PROVE FALSE
  <2>1. line.is = "description" /\ t[s + 1].is = "members" /\ t[Len(t)].is = "close"
    <3>1. Len(u) - 1 = Len(t)
      BY <1>1
    <3> QED BY <1>1, <1>4, <1>6, <3>1 DEF ListAt, Description
  <2>2. r.open = FALSE
    <3>1. SUFFICES ASSUME r.open = TRUE PROVE FALSE
      BY <1>1
    <3>2. Segment(t, LastOf(r), s, Len(t), TRUE)
      BY Zenon, <3>1
    <3>3. s \in Nat
      BY <1>1
    <3> QED BY <1>1, <1>2, <2>1, <3>2, <3>3, OpenEnds
  <2>3. "description" \in LastOf(r).keys
    BY <1>1, <2>1, <2>2, DescriptionTaken
  <2>4. Segment(t, LastOf(r), s, Len(t), FALSE)
    BY Zenon, <2>2
  <2>5. Len(t) # s /\ Len(t) # s + 1
    BY <1>1, <1>4
  <2> QED BY <2>1, <2>3, <2>4, <2>5 DEF Segment, Described
<1> QED BY <1>3, <1>5, <1>6 DEF BundleAt

LEMMA BadLine ==
  ASSUME NEW t, NEW line, NEW u, OneMore(t, line, u), NEW r, Shape(t, r), r.problems = 0,
         ReadLine(r, line).problems # 0
  PROVE  ~WellFormed(u)
<1>1. /\ r \in Readers /\ Opening(t, r) /\ line \in Lines /\ r.open \in BOOLEAN
      /\ \A k \in DOMAIN r.bundles : \E s \in TableLines(t) : Made(t, r, k, s)
  BY DEF Shape, OneMore, Readers
<1>2. /\ Len(t) \in Nat /\ Len(u) = Len(t) + 1 /\ u[Len(u)] = line /\ u \in Seq(Lines)
      /\ TableLines(u) = TableLines(t) \union {i \in {Len(u)} : line.is = "table"}
      /\ \A s \in TableLines(t) : u[s] = t[s] /\ s \in 1..Len(t)
  BY DEF OneMore
<1>3. /\ Len(r.bundles) \in Nat /\ DOMAIN r.bundles = 1..Len(r.bundles)
      /\ (r.bundles = <<>> <=> Len(r.bundles) = 0)
  BY <1>1, LenProperties, EmptySeq DEF Readers
<1>4. SUFFICES ASSUME WellFormed(u) PROVE FALSE
  OBVIOUS
<1>5. /\ u[1] = Line("schema", "1", FALSE) /\ End(u, 1) = 2
      /\ \A i \in TableLines(u) : Bundle(SubSeq(u, i, End(u, i) - 1))
      /\ \A i, j \in TableLines(u) : i # j => u[i].value # u[j].value
  BY <1>4 DEF WellFormed
<1>6. CASE r.bundles = <<>>
  <2>1. ~r.open /\ TableLines(t) = {} /\ Len(t) <= 1
    BY <1>1, <1>6 DEF Opening
  <2>2. line.is # "table"
    BY <1>1, <1>3, <1>6, <2>1, TableTaken
  <2>3. TableLines(u) = {}
    BY <1>2, <2>1, <2>2
  <2>4. End(u, 1) = Len(u) + 1
    <3>1. TableEnds(u, 1) = {Len(u) + 1}
      BY <2>3 DEF TableEnds
    <3>2. IsEnd(u, 1, Len(u) + 1)
      BY <1>2, <3>1 DEF IsEnd
    <3> QED BY <1>2, <3>2, EndIs
  <2>5. Len(t) = 0 /\ Len(u) = 1
    BY <1>2, <1>5, <2>4
  <2>6. line.is = "schema"
    BY <1>2, <1>5, <2>5 DEF Line
  <2>7. t = <<>>
    BY <2>5, EmptySeq DEF OneMore
  <2>8. r.schema = "none"
    BY <1>1, <2>7 DEF Opening
  <2> QED BY <1>1, <1>6, <2>1, <2>6, <2>8, SchemaTaken
<1>7. CASE r.bundles # <<>>
  <2>1. Len(r.bundles) \in DOMAIN r.bundles /\ LastOf(r) \in Records
    BY <1>1, <1>3, <1>7, LastIsRecord
  <2>2. PICK s \in TableLines(t) : Made(t, r, Len(r.bundles), s)
    BY <1>1, <2>1
  <2>3. IsEnd(t, s, Len(t) + 1) /\ Segment(t, LastOf(r), s, Len(t), r.open)
    BY <2>2 DEF Made, LastOf
  <2>4. /\ s \in 1..Len(t) /\ s \in 1..Len(u) /\ s \in TableLines(u)
        /\ Len(t) \in s..Len(t) /\ Len(t) \in s..Len(u) /\ Len(u) \in s..Len(u)
    BY <1>2
  <2>5. CASE line.is = "table" /\ r.open
    <3>1. End(u, s) = Len(t) + 1
      BY <1>2, <2>3, <2>5, EndGrows, EndIs
    <3>2. BundleAt(u, s, Len(t))
      <4>1. End(u, s) - 1 = Len(t)
        BY <1>2, <3>1
      <4>2. Bundle(SubSeq(u, s, Len(t)))
        BY <1>5, <2>4, <4>1
      <4> QED BY <1>2, <2>4, <4>2, BundleIs
    <3>3. Segment(t, LastOf(r), s, Len(t), TRUE)
      <4>1. r.open = TRUE
        BY <1>1, <2>5
      <4> QED BY Zenon, <2>3, <4>1
    <3>4. Segment(u, LastOf(r), s, Len(t), TRUE)
      BY <2>1, <2>4, <3>3, SegmentKept
    <3>5. s \in Nat
      BY <2>4
    <3> QED BY <1>2, <2>1, <3>2, <3>4, <3>5, OpenIsNone
  <2>6. CASE line.is = "table" /\ ~r.open
    <3>1. PICK k \in DOMAIN r.bundles : r.bundles[k].name = line.value
      BY <1>1, <2>6, TableTaken
    <3>2. PICK i \in TableLines(t) : Made(t, r, k, i)
      BY <1>1
    <3>3. t[i].value = line.value
      BY <3>1, <3>2 DEF Made
    <3>4. i \in TableLines(u) /\ Len(u) \in TableLines(u) /\ i # Len(u) /\ u[i] = t[i]
      BY <1>2, <2>6
    <3> QED BY <1>2, <1>5, <3>3, <3>4
  <2>7. CASE line.is # "table"
    <3>1. End(u, s) = Len(u) + 1
      BY <1>2, <2>3, <2>7, EndGrows, EndIs
    <3>2. BundleAt(u, s, Len(u))
      <4>1. End(u, s) - 1 = Len(u)
        BY <1>2, <3>1
      <4>2. Bundle(SubSeq(u, s, Len(u)))
        BY <1>5, <2>4, <4>1
      <4> QED BY <1>2, <2>4, <4>2, BundleIs
    <3> QED BY <1>7, <2>3, <2>7, <3>2, BadEnd
  <2> QED BY <1>1, <2>5, <2>6, <2>7
<1> QED BY <1>6, <1>7

-----------------------------------------------------------------------------
(* Every file the reader reads.                                             *)

LEMMA InitReaderInv == ReaderInit => ReaderInv
<1> SUFFICES ASSUME ReaderInit PROVE ReaderInv
  OBVIOUS
<1>1. text = <<>> /\ reader = Unread
  BY DEF ReaderInit
<1>2. text \in Seq(Lines) /\ TableLines(text) = {}
  BY <1>1, EmptySeq DEF TableLines
<1>3. reader \in Readers /\ reader.bundles = <<>> /\ DOMAIN reader.bundles = {}
      /\ reader.schema = "none" /\ ~reader.open /\ reader.problems = 0
  BY <1>1, EmptySeq DEF Unread, Readers
<1>4. Opening(text, reader)
  BY <1>1, <1>2, <1>3, EmptySeq DEF Opening
<1> QED BY <1>2, <1>3, <1>4 DEF ReaderInv, Shape

LEMMA NextReaderInv == ReaderInv /\ [ReaderNext]_readerVars => ReaderInv'
<1> SUFFICES ASSUME ReaderInv, [ReaderNext]_readerVars PROVE ReaderInv'
  OBVIOUS
<1>1. CASE UNCHANGED readerVars
  BY <1>1 DEF ReaderInv, readerVars
<1>2. CASE ReaderNext
  <2>1. PICK line \in Lines : Read(line)
    BY <1>2 DEF ReaderNext
  <2>2. /\ reader.problems = 0 /\ text' = Append(text, line) /\ reader' = ReadLine(reader, line)
        /\ text \in Seq(Lines) /\ Shape(text, reader)
    BY <2>1 DEF Read, ReaderInv
  <2>3. OneMore(text, line, text') /\ text' \in Seq(Lines)
    BY <2>2, Appended, AppendProperties
  <2>4. CASE reader'.problems = 0
    <3>1. Shape(text', reader')
      BY <2>2, <2>3, <2>4, ShapeGrows
    <3> QED BY <2>3, <2>4, <3>1 DEF ReaderInv
  <2>5. CASE reader'.problems # 0
    <3>1. ~WellFormed(text')
      BY <2>2, <2>3, <2>5, BadLine
    <3> QED BY <2>3, <2>5, <3>1 DEF ReaderInv
  <2> QED BY <2>4, <2>5
<1> QED BY <1>1, <1>2

\* parseBundles (scripts/lib/skills.mjs) takes exactly the settings files that are
\* well formed, whatever their names and however long: none the catalog could not
\* read passes, and none it could is refused.
THEOREM SettingsReadRightAlways == ReaderSpec => []SettingsReadRight
<1>1. ReaderInv => SettingsReadRight
  <2> SUFFICES ASSUME ReaderInv PROVE SettingsReadRight
    OBVIOUS
  <2>1. CASE reader.problems = 0
    BY <2>1, ShapeAccepted DEF ReaderInv, SettingsReadRight
  <2>2. CASE reader.problems # 0
    BY <2>2 DEF ReaderInv, SettingsReadRight, Accepted
  <2> QED BY <2>1, <2>2
<1> QED BY <1>1, InitReaderInv, NextReaderInv, PTL DEF ReaderSpec

-----------------------------------------------------------------------------
(* The template build: the passages it rewrites in a file.                 *)

\* The tokens the passages of a file do leave there.
Leaves(source) == UNION {a.leaves : a \in {x \in anchors : x.file = source}}

\* The tokens a passage of a file may leave there.
Leavable(file) ==
  IF file[1] = WEB THEN {"web", "webPort", "organizationPolicy"}
  ELSE IF file[1] = SERVICE THEN {"project", "service", "servicePort"}
  ELSE IF file = ENV THEN {"webPort"} ELSE {"project"}

\* An anchor that can be counted and leaves only the tokens of its file.
GoodAnchor(a) == a.count \in Nat /\ a.leaves \subseteq Leavable(a.file)

\* What Leavable is, by directory.
LEMMA LeavableIs ==
  /\ \A name : Leavable(<<WEB, name>>) = {"web", "webPort", "organizationPolicy"}
  /\ \A name : Leavable(<<SERVICE, name>>) = {"project", "service", "servicePort"}
  /\ \A name : name # ".env.example" => Leavable(<<".", name>>) = {"project"}
  /\ Leavable(ENV) = {"webPort"}
  /\ \A directory, name : directory \notin {".", WEB, SERVICE} =>
       Leavable(<<directory, name>>) = {"project"}
  BY DEF Leavable, WEB, SERVICE, ENV

\* The anchors of one file are good if each of its rows is.
LEMMA RowsGood ==
  ASSUME NEW file, NEW rows, NEW tokens, tokens = Leavable(file),
         \A row \in rows : row[2] \in Nat /\ row[3] \subseteq tokens
  PROVE  \A a \in Anchors(file, rows) : GoodAnchor(a)
  BY DEF Anchors, GoodAnchor

\* So are those of the web project,
LEMMA WebAnchorsGood == \A a \in webAnchors : GoodAnchor(a)
  <1>1. \A a \in Anchors(<<WEB, "tsconfig.json">>, {<<"outDir", 1, {"web"}>>}) : GoodAnchor(a)
    BY RowsGood, LeavableIs
  <1>2. \A a \in Anchors(<<WEB, "moon.yml">>, {<<"PORT", 1, {"webPort"}>>}) : GoodAnchor(a)
    BY RowsGood, LeavableIs
  <1>3. \A a \in Anchors(<<WEB, "vite.config.ts">>, {<<"server.port", 1, {"webPort"}>>}) :
        GoodAnchor(a)
    BY RowsGood, LeavableIs
  <1>4. \A a \in Anchors(<<WEB, "src/server/auth.ts">>,
        {<<"organizationPolicy", 1, {"organizationPolicy"}>>}) : GoodAnchor(a)
    BY RowsGood, LeavableIs
  <1>5. QED
    BY <1>1, <1>2, <1>3, <1>4 DEF webAnchors

\* those of the service,
LEMMA ServiceAnchorsGood == \A a \in serviceAnchors : GoodAnchor(a)
  <1>1. \A a \in Anchors(<<SERVICE, "tsconfig.json">>, {<<"outDir", 1, {"service"}>>}) :
        GoodAnchor(a)
    BY RowsGood, LeavableIs
  <1>2. \A a \in Anchors(<<SERVICE, "moon.yml">>, {<<"preview-port", 1, {}>>,
        <<"PORT", 2, {"servicePort"}>>, <<"--filter", 1, {"project", "service"}>>,
        <<"--tag", 1, {"project", "service"}>>, <<"inputs", 2, {}>>}) : GoodAnchor(a)
    BY RowsGood, LeavableIs
  <1>3. \A a \in Anchors(<<SERVICE, "Dockerfile">>, {<<"image-for", 1, {"service"}>>,
        <<"moon-run", 1, {"service"}>>}) : GoodAnchor(a)
    BY RowsGood, LeavableIs
  <1>4. QED
    BY <1>1, <1>2, <1>3 DEF serviceAnchors

\* those of the root,
LEMMA RootAnchorsGood == \A a \in rootAnchors : GoodAnchor(a)
  <1>1. \A a \in Anchors(<<".", "moon.yml">>, {<<"packages/db/migrations", 1, {}>>,
        <<"db/schema.sql", 1, {}>>, <<"db/drizzle", 1, {}>>, <<".changeset", 1, {}>>,
        <<"db-tools-clean", 1, {}>>, <<"deps", 7, {}>>, <<"db-tools--migrations", 5, {}>>,
        <<"scripts/rls-verify.mjs", 2, {}>>, <<"inputs", 4, {}>>}) : GoodAnchor(a)
    BY RowsGood, LeavableIs DEF WEB, SERVICE, WORKFLOWS
  <1>2. \A a \in Anchors(<<".moon", "toolchains.yml">>, {<<"project-graph", 1, {}>>}) :
        GoodAnchor(a)
    BY RowsGood, LeavableIs DEF WEB, SERVICE, WORKFLOWS
  <1>3. \A a \in Anchors(<<".", ".gitignore">>, {<<"skills", 1, {}>>}) : GoodAnchor(a)
    BY RowsGood, LeavableIs DEF WEB, SERVICE, WORKFLOWS
  <1>4. \A a \in Anchors(<<".", "package.json">>, {<<"changeset-scripts", 2, {}>>}) : GoodAnchor(a)
    BY RowsGood, LeavableIs DEF WEB, SERVICE, WORKFLOWS
  <1>5. \A a \in Anchors(<<".", "pnpm-workspace.yaml">>, {<<"catalogs.react-peer", 1, {}>>}) :
        GoodAnchor(a)
    BY RowsGood, LeavableIs DEF WEB, SERVICE, WORKFLOWS
  <1>6. \A a \in Anchors(<<".", ".oxfmtrc.json">>, {<<"sortImports", 1, {"project"}>>}) :
        GoodAnchor(a)
    BY RowsGood, LeavableIs DEF WEB, SERVICE, WORKFLOWS
  <1>7. \A a \in Anchors(<<".", "renovate.json">>, {<<"extends", 1, {}>>,
        <<"customManagers", 1, {}>>}) : GoodAnchor(a)
    BY RowsGood, LeavableIs DEF WEB, SERVICE, WORKFLOWS
  <1>8. \A a \in Anchors(<<WORKFLOWS, "ci.yml">>, {<<"uses", 1, {}>>}) : GoodAnchor(a)
    BY RowsGood, LeavableIs DEF WEB, SERVICE, WORKFLOWS
  <1>9. \A a \in Anchors(<<"db", "schema.sql">>, {<<"ships", 1, {}>>,
        <<"migrations", 2, {}>>}) : GoodAnchor(a)
    BY RowsGood, LeavableIs DEF WEB, SERVICE, WORKFLOWS
  <1>10. \A a \in Anchors(ENV,
        {<<"WORKOS_COOKIE_PASSWORD=generate", 1, {}>>, <<"/callback", 1, {"webPort"}>>,
        <<"packages/-reads", 1, {}>>, <<"NPM_PUBLISH_ENABLED", 1, {}>>,
        <<"docs/maintaining.md", 1, {}>>}) : GoodAnchor(a)
    BY RowsGood, LeavableIs DEF WEB, SERVICE, WORKFLOWS
  <1>11. QED
    BY <1>1, <1>2, <1>3, <1>4, <1>5, <1>6, <1>7, <1>8, <1>9, <1>10 DEF rootAnchors

\* and all of them.
LEMMA AnchorsGood == \A a \in anchors : GoodAnchor(a)
  BY WebAnchorsGood, ServiceAnchorsGood, RootAnchorsGood DEF anchors

\* No file gets a token from its passages but those it may have.
LEMMA LeavesBound ==
  ASSUME NEW source PROVE Leaves(source) \subseteq Leavable(source)
  BY AnchorsGood DEF Leaves, GoodAnchor

\* What a file taken from a source has left of this repository's own.
LeftIn(r, source) == {a \in anchors : a.file = source /\ Left(r, a)}

\* What a file taken from a source is.
LEMMA FileFields ==
  ASSUME NEW r, NEW source, NEW path, NEW when, NEW tokens
  PROVE  LET f == File(r, source, path, when, tokens)
         IN  /\ f.path = path /\ f.when = when /\ f.tokens = tokens \union Leaves(source)
             /\ f.left = LeftIn(r, source) /\ f.holds = {}
             /\ DOMAIN f = {"path", "when", "tokens", "left", "holds"}
  BY DEF File, Leaves, LeftIn

-----------------------------------------------------------------------------
(* What people can make of the reference.                                  *)

\* Where a project of the reference is, and the files that make one.
Sources == {".", WEB, SERVICE, SCHEMA}
Projects == {"tsconfig.json", "package.json"}

\* Beside a passage nobody wrote another: it is found at most as often as
\* expected, and less often once it was reworded.
Counted(r) ==
  \A a \in anchors :
    /\ r.found[a] \in Nat
    /\ a \notin r.added => /\ r.found[a] <= a.count
                          /\ (a \in r.strays => r.found[a] < a.count)
\* Only the known projects have a manifest or a tsconfig.json.
KnownProjects(r) ==
  \A f \in r.files : f = <<f[1], f[2]>> /\ (f[2] \in Projects => f[1] \in Sources)
\* Scripts are not manifests.
PlainScripts(r) ==
  "prepare" \in DOMAIN r.runs /\ \A t \in DOMAIN r.runs : r.runs[t] \intersect Projects = {}
\* A paragraph sets variables that are known, and perhaps new ones.
KnownVariables(r) == \A p \in r.env : p.assigns \subseteq Variables \union {"SENTRY_DSN="}
\* The fields of the reference that these are about.
Fields == {"files", "found", "strays", "added", "runs", "env"}
Recorded(r) == Fields \subseteq DOMAIN r /\ DOMAIN r.found = anchors
Sound(r) == Recorded(r) /\ Counted(r) /\ KnownProjects(r) /\ PlainScripts(r) /\ KnownVariables(r)

\* With every anchor as often as expected, what is left of this repository's own
\* people wrote beside the anchors.
LEMMA LeftWasAdded ==
  ASSUME NEW r, Counted(r), \A a \in anchors : Anchored(r, a), NEW source
  PROVE  LeftIn(r, source) \subseteq r.added
  <1> SUFFICES ASSUME NEW a \in anchors, Left(r, a), a \notin r.added PROVE FALSE
    BY DEF LeftIn
  <1>1. a.count \in Nat /\ r.found[a] \in Nat /\ r.found[a] >= a.count /\ r.found[a] <= a.count
    BY AnchorsGood DEF GoodAnchor, Counted, Anchored
  <1>2. a \notin r.strays
    BY <1>1 DEF Counted
  <1>3. QED
    BY <1>1, <1>2 DEF Left

-----------------------------------------------------------------------------
(* The files of a template.                                                *)

\* Where a file goes, and for whom.
Placed(f, path, when) == f.path = path /\ f.when = when

\* The entries of the file of root tasks.
Entries(r, v) ==
  {<<t, NoScript>> : t \in Kept(r, v)}
  \union UNION {{<<t, s>> : s \in Scripts(r, t)} : t \in Kept(r, v)}

\* What that file is.
LEMMA MoonFields ==
  ASSUME NEW r, NEW v
  PROVE  LET f == rootMoon(r, v)
         IN  /\ f.path = <<".", "moon.yml">> /\ f.when = [database |-> v]
             /\ f.tokens \subseteq {"project"} /\ f.left = LeftIn(r, <<".", "moon.yml">>)
             /\ f.holds = Entries(r, v)
  <1> DEFINE file == File(r, <<".", "moon.yml">>, <<".", "moon.yml">>, [database |-> v], {})
  <1>1. Leaves(<<".", "moon.yml">>) \subseteq {"project"}
    BY LeavesBound, LeavableIs
  <1>2. QED
    BY <1>1, FileFields DEF rootMoon, Entries

\* The scripts copied are those a project installs with and those its files of
\* tasks name.
LEMMA NamedScripts ==
  ASSUME NEW r, NEW s
  PROVE  s \in named(r) <=>
           /\ s \notin {NoScript} \union Nested
           /\ \/ s \in r.runs.prepare
              \/ \E v \in DATABASE_VARIANTS : \E h \in rootMoon(r, v).holds : s = h[2]
  <1> DEFINE Second(f) == {h[2] : h \in f.holds}
             moons == {rootMoon(r, v) : v \in DATABASE_VARIANTS}
  <1>1. \A f : s \in Second(f) <=> \E h \in f.holds : s = h[2]
    OBVIOUS
  <1>2. \A f : f \in moons <=> \E v \in DATABASE_VARIANTS : f = rootMoon(r, v)
    OBVIOUS
  <1>3. named(r) = (r.runs.prepare \union UNION {Second(f) : f \in moons})
                     \ ({NoScript} \union Nested)
    BY DEF named
  <1> HIDE DEF Second, moons
  <1>4. s \in UNION {Second(f) : f \in moons} <=> \E f \in moons : s \in Second(f)
    OBVIOUS
  <1>5. (\E f \in moons : s \in Second(f)) <=> \E v \in DATABASE_VARIANTS :
      s \in Second(rootMoon(r, v))
    BY <1>2
  <1>6. (\E v \in DATABASE_VARIANTS : s \in Second(rootMoon(r, v)))
          <=> \E v \in DATABASE_VARIANTS : \E h \in rootMoon(r, v).holds : s = h[2]
    BY <1>1
  <1>7. QED
    BY <1>3, <1>4, <1>5, <1>6

\* Each entry of it is a task that stays, alone or with a script it runs.
LEMMA TaskScripts ==
  ASSUME NEW r, NEW v, NEW h \in rootMoon(r, v).holds
  PROVE  \E t \in Kept(r, v) : h = <<t, NoScript>> \/ \E s \in Scripts(r, t) : h = <<t, s>>
  <1> DEFINE Of(t) == {<<t, s>> : s \in Scripts(r, t)}
  <1>1. h \in {<<t, NoScript>> : t \in Kept(r, v)} \union UNION {Of(t) : t \in Kept(r, v)}
    <2>1. h \in Entries(r, v)
      BY MoonFields
    <2>2. QED
      BY <2>1 DEF Entries
  <1>2. CASE h \in {<<t, NoScript>> : t \in Kept(r, v)}
    BY <1>2
  <1>3. CASE h \in UNION {Of(t) : t \in Kept(r, v)}
    <2>1. PICK t \in Kept(r, v) : h \in Of(t)
      BY <1>3
    <2>2. QED
      BY <2>1
  <1>4. QED
    BY <1>1, <1>2, <1>3

\* So no script copied is a manifest.
LEMMA NamedScriptsPlain ==
  ASSUME NEW r, PlainScripts(r)
  PROVE  named(r) \intersect Projects = {}
  <1> SUFFICES ASSUME NEW s \in named(r) PROVE s \notin Projects
    OBVIOUS
  <1>1. CASE s \in r.runs.prepare
    BY <1>1 DEF PlainScripts
  <1>2. CASE \E v \in DATABASE_VARIANTS : \E h \in rootMoon(r, v).holds : s = h[2]
    <2> PICK v \in DATABASE_VARIANTS : \E h \in rootMoon(r, v).holds : s = h[2]
      BY <1>2
    <2>0. s # NoScript
      BY NamedScripts
    <2>1. \E t : s \in Scripts(r, t)
      BY <2>0, TaskScripts
    <2>2. QED
      BY <2>1 DEF Scripts, PlainScripts
  <1>3. QED
    BY <1>1, <1>2, NamedScripts

\* Files that say nothing of what else is in a project.
Quiet(r, f) ==
  /\ \E source : f.left = LeftIn(r, source)
  /\ f.tokens \subseteq {"project"} /\ f.holds = {}
  /\ f.path[2] \notin Projects
  /\ f.path \notin {<<".", "moon.yml">>, ENV}

\* The sources of the files that go to every project as they are.
PlainSources(r) ==
  copied \union Whole(r)
  \union Top({".gitignore", ".oxfmtrc.json", "renovate.json", "pnpm-workspace.yaml"})
  \union Under(WORKFLOWS, {"ci.yml"}) \union Under("scripts", named(r))
  \union {<<"owned", "AGENTS.md">>}

\* Files copied as they are are quiet.
LEMMA PlainQuiet ==
  ASSUME NEW r, Sound(r), NEW f, NEW source \in PlainSources(r), NEW path, NEW when,
         path = source \/ path = <<".", "AGENTS.md">>,
         f = File(r, source, path, when, {})
  PROVE  Quiet(r, f)
  <1>1. /\ source[2] \notin Projects /\ source[1] \notin {WEB, SERVICE}
        /\ source \notin {<<".", "moon.yml">>, ENV}
    <2>1. CASE source \in copied
      BY <2>1 DEF copied, Top, Under, copy, Projects, WEB, SERVICE, ENV
    <2>2. CASE source \in Whole(r)
      BY <2>2 DEF Whole, Sound, KnownProjects, Projects, Sources, WEB, SERVICE, SCHEMA, ENV
    <2>3. CASE source \in Top({".gitignore", ".oxfmtrc.json", "renovate.json",
        "pnpm-workspace.yaml"})
      BY <2>3 DEF Top, Under, Projects, WEB, SERVICE, ENV
    <2>4. CASE source \in Under(WORKFLOWS, {"ci.yml"}) \union {<<"owned", "AGENTS.md">>}
      BY <2>4 DEF Under, Projects, WORKFLOWS, WEB, SERVICE, ENV
    <2>5. CASE source \in Under("scripts", named(r))
      BY <2>5, NamedScriptsPlain DEF Under, Sound, WEB, SERVICE, ENV
    <2>6. QED
      BY <2>1, <2>2, <2>3, <2>4, <2>5 DEF PlainSources
  <1>2. Leaves(source) \subseteq {"project"}
    BY <1>1, LeavesBound DEF Leavable
  <1>3. QED
    BY <1>1, <1>2, FileFields DEF Quiet, Projects, ENV

\* What the tsconfig.json of the root is.
LEMMA TsconfigFields ==
  ASSUME NEW r, NEW v \in [web : BOOLEAN, service : BOOLEAN]
  PROVE  LET f == rootTsconfig(r, v)
         IN  /\ f.path = <<".", "tsconfig.json">> /\ f.when = v
             /\ f.tokens \subseteq {"project"} \union (IF v.web THEN {"web"} ELSE {})
                                   \union (IF v.service THEN {"service"} ELSE {})
             /\ f.left = LeftIn(r, <<".", "tsconfig.json">>)
             /\ f.holds = {<<d, "tsconfig.json">> :
                  d \in {SCHEMA} \union (IF v.web THEN {"apps/__LILO_WEB__"} ELSE {})
                                 \union (IF v.service THEN {"services/__LILO_SERVICE__"} ELSE {})}
  <1>1. Leaves(<<".", "tsconfig.json">>) \subseteq {"project"}
    BY LeavesBound, LeavableIs
  <1>2. QED
    BY <1>1, FileFields DEF rootTsconfig

\* The environment file: the paragraphs for the parts v, the variables they set,
\* and whether the address the provider redirects to is in one.
EnvChosenOf(r, v) == {q \in r.env : \A m \in q.markers : matches(ENV_PARAGRAPHS[m], v)}
EnvHolds(r, v) == UNION {p.assigns : p \in EnvChosenOf(r, v)}
EnvRedirects(r, v) == \E p \in EnvChosenOf(r, v) : "WORKOS_REDIRECT_URI=" \in p.markers
EnvFile(r, v) ==
  [File(r, ENV, ENV, v, {}) EXCEPT
     !.tokens = IF EnvRedirects(r, v) THEN @ ELSE @ \ {"webPort"},
     !.holds = {<<variable, NoScript>> : variable \in EnvHolds(r, v)}]

\* environment makes one file for each variant,
LEMMA EnvironmentIs ==
  ASSUME NEW r PROVE environment(r) = {EnvFile(r, v) : v \in ENV_VARIANTS}
  BY DEF environment, EnvFile, EnvChosenOf, EnvHolds, EnvRedirects

\* and this is what it is.
LEMMA EnvFields ==
  ASSUME NEW r, NEW v
  PROVE  LET f == EnvFile(r, v)
         IN  /\ f.path = ENV /\ f.when = v /\ f.left = LeftIn(r, ENV)
             /\ f.holds = {<<variable, NoScript>> : variable \in EnvHolds(r, v)}
             /\ f.tokens \subseteq
                  {"project"} \union
                    (IF EnvRedirects(r, v) THEN {"webPort"} ELSE {})
  <1>1. Leaves(ENV) \subseteq {"project", "webPort"}
    BY LeavesBound, LeavableIs
  <1>2. QED
    BY <1>1, FileFields DEF EnvFile

\* A condition on one part, or on two.
LEMMA Matching ==
  ASSUME NEW parts, NEW v, NEW w
  PROVE  /\ matches([web |-> v], parts) <=> v = parts.web
         /\ matches([service |-> v], parts) <=> v = parts.service
         /\ matches([database |-> v], parts) <=> v = parts.database
         /\ matches([web |-> v, service |-> w], parts) <=> v = parts.web /\ w = parts.service
         /\ matches([web |-> v, database |-> w], parts) <=> v = parts.web /\ w = parts.database
         /\ matches(Always, parts)
  BY DEF matches, Always

\* A variable's paragraph goes to the parts that read the variable.
LEMMA VariableParts ==
  ASSUME NEW v \in [web : BOOLEAN, database : BOOLEAN], NEW variable \in Variables
  PROVE  matches(ENV_PARAGRAPHS[variable], v) <=> variable \in VariablesFor(v)
  <1> DEFINE OfWeb == {"WORKOS_API_KEY=", "WORKOS_REDIRECT_URI=", "WORKOS_COOKIE_PASSWORD=",
                       "WORKOS_COOKIE_PASSWORD_PREVIOUS="}
  <1>1. (v.web = TRUE \/ v.web = FALSE) /\ (v.database = TRUE \/ v.database = FALSE)
    OBVIOUS
  <1>2. CASE variable = "WORKOS_CLIENT_ID="
    <2>1. ENV_PARAGRAPHS[variable] = Always
      BY <1>2 DEF ENV_PARAGRAPHS, WEB_PARAGRAPHS, DATABASE_PARAGRAPHS, Always
    <2>2. variable \in VariablesFor(v)
      BY <1>2 DEF VariablesFor
    <2>3. QED
      BY <2>1, <2>2, Matching
  <1>3. CASE variable \in OfWeb
    <2>1. ENV_PARAGRAPHS[variable] = [web |-> TRUE]
      BY <1>3 DEF ENV_PARAGRAPHS, WEB_PARAGRAPHS, DATABASE_PARAGRAPHS
    <2>2. variable \in VariablesFor(v) <=> v.web = TRUE
      <3>1. variable \notin {"WORKOS_CLIENT_ID=", "DATABASE_URL="}
        BY <1>3
      <3>2. CASE v.web = TRUE
        BY <1>3, <3>2 DEF VariablesFor
      <3>3. CASE v.web = FALSE
        BY <3>1, <3>3 DEF VariablesFor
      <3>4. QED
        BY <1>1, <3>2, <3>3
    <2>3. matches([web |-> TRUE], v) <=> v.web = TRUE
      BY Matching
    <2>4. QED
      BY <2>1, <2>2, <2>3
  <1>4. CASE variable = "DATABASE_URL="
    <2>1. ENV_PARAGRAPHS[variable] = [database |-> TRUE]
      BY <1>4 DEF ENV_PARAGRAPHS, WEB_PARAGRAPHS, DATABASE_PARAGRAPHS
    <2>2. variable \in VariablesFor(v) <=> v.database = TRUE
      <3>1. variable \notin OfWeb \union {"WORKOS_CLIENT_ID="}
        BY <1>4
      <3>2. CASE v.database = TRUE
        BY <1>4, <3>2 DEF VariablesFor
      <3>3. CASE v.database = FALSE
        BY <3>1, <3>3 DEF VariablesFor
      <3>4. QED
        BY <1>1, <3>2, <3>3
    <2>3. matches([database |-> TRUE], v) <=> v.database = TRUE
      BY Matching
    <2>4. QED
      BY <2>1, <2>2, <2>3
  <1>5. QED
    BY <1>2, <1>3, <1>4 DEF Variables

\* The environment of some parts sets their variables and no others.
LEMMA EnvironmentOfParts ==
  ASSUME NEW r, Classified(r), KnownVariables(r), NEW v \in [web : BOOLEAN, database : BOOLEAN]
  PROVE  /\ EnvRedirects(r, v) => v.web = TRUE
         /\ EnvHolds(r, v) = VariablesFor(v) \intersect UNION {p.assigns : p \in r.env}
  <1>1. ASSUME NEW p \in r.env, NEW variable \in p.assigns
        PROVE  variable \in Variables /\ p.markers = {variable}
    <2>1. p.markers = {variable} /\ variable \in DOMAIN ENV_PARAGRAPHS
      BY <1>1 DEF Classified
    <2>2. "SENTRY_DSN=" \notin DOMAIN ENV_PARAGRAPHS
      BY DEF ENV_PARAGRAPHS, WEB_PARAGRAPHS, DATABASE_PARAGRAPHS
    <2>3. QED
      BY <1>1, <2>1, <2>2 DEF KnownVariables
  <1>2. ASSUME NEW p \in r.env, NEW variable \in p.assigns
        PROVE  p \in EnvChosenOf(r, v) <=> variable \in VariablesFor(v)
    BY <1>1, <1>2, VariableParts DEF EnvChosenOf
  <1>3. EnvHolds(r, v) = VariablesFor(v) \intersect UNION {p.assigns : p \in r.env}
    <2>1. \A p \in EnvChosenOf(r, v) : p \in r.env
      BY DEF EnvChosenOf
    <2>2. QED
      BY <1>2, <2>1 DEF EnvHolds
  <1>4. ASSUME EnvRedirects(r, v) PROVE v.web = TRUE
    <2>1. PICK p \in EnvChosenOf(r, v) : "WORKOS_REDIRECT_URI=" \in p.markers
      BY <1>4 DEF EnvRedirects
    <2>2. matches(ENV_PARAGRAPHS["WORKOS_REDIRECT_URI="], v)
      BY <2>1 DEF EnvChosenOf
    <2>3. ENV_PARAGRAPHS["WORKOS_REDIRECT_URI="] = [web |-> TRUE]
      BY DEF ENV_PARAGRAPHS, WEB_PARAGRAPHS, DATABASE_PARAGRAPHS
    <2>4. matches([web |-> TRUE], v) <=> v.web = TRUE
      BY Matching
    <2>5. QED
      BY <2>2, <2>3, <2>4
  <1>5. QED
    BY <1>3, <1>4

\* What a manifest is.
LEMMA ManifestFields ==
  ASSUME NEW r, NEW directory, NEW when, NEW tokens, NEW deps
  PROVE  LET f == Manifest(r, directory, when, tokens, deps)
         IN  /\ f.path = <<directory, "package.json">> /\ f.when = when /\ f.holds = deps
             /\ f.tokens \subseteq {"project"} \union tokens
                  \union Leaves(<<directory, "package.json">>)
             /\ f.left = LeftIn(r, <<directory, "package.json">>)
  BY FileFields DEF Manifest

\* A project's files: those of its directory, without the manifest.
LEMMA ProjectFields ==
  ASSUME NEW r, Sound(r), NEW source, NEW into, NEW when, NEW tokens,
         NEW f \in project(r, source, into, when, tokens)
  PROVE  /\ \E s \in r.files : /\ s[1] = source /\ f.path = <<into, s[2]>>
                               /\ s # <<source, "package.json">> /\ f.left = LeftIn(r, s)
                               /\ f.tokens \subseteq tokens \union Leaves(s)
         /\ f.when = when /\ f.holds = {}
  <1>1. PICK s \in r.files : /\ s[1] = source /\ s # <<source, "package.json">>
                             /\ f = File(r, s, <<into, s[2]>>, when, tokens)
    BY DEF project
  <1>2. QED
    BY <1>1, FileFields

\* The files of the database are quiet.
LEMMA DatabaseQuiet ==
  ASSUME NEW r, Sound(r), NEW f \in databaseFiles(r) PROVE Quiet(r, f)
  <1>1. PICK source, path : /\ f = File(r, source, path, WithDatabase, {})
                            /\ source[1] \in {"db", "owned", MIGRATIONS}
                            /\ source[2] \notin Projects
                            /\ path[1] # "." /\ path[2] = source[2]
    <2>1. CASE f = File(r, <<"db", "schema.sql">>, <<"db", "schema.sql">>, WithDatabase, {})
      BY <2>1 DEF Projects
    <2>2. CASE f = File(r, <<"owned", "rls-seed.sql">>, <<"db", "rls-seed.sql">>, WithDatabase, {})
      BY <2>2 DEF Projects
    <2>3. CASE \E s \in r.files : s[1] = MIGRATIONS
                                  /\ f = File(r, s, <<"db/migrations", s[2]>>, WithDatabase, {})
      BY <2>3 DEF Sound, KnownProjects, Projects, Sources, MIGRATIONS, WEB, SERVICE, SCHEMA
    <2>4. QED
      BY <2>1, <2>2, <2>3 DEF databaseFiles
  <1>2. Leaves(source) \subseteq {"project"}
    BY <1>1, LeavesBound DEF Leavable, WEB, SERVICE, MIGRATIONS, ENV
  <1>3. QED
    BY <1>1, <1>2, FileFields DEF Quiet, ENV

\* A file of one of the three projects.
OfProject(r, f, source, into, when, tokens) ==
  /\ \E s \in r.files : /\ s[1] = source /\ s[2] # "package.json" /\ f.path = <<into, s[2]>>
                        /\ f.left = LeftIn(r, s)
  /\ f.tokens \subseteq tokens /\ f.when = when /\ f.holds = {}

\* A file of each project, with the tokens it may have.
WebFile(r, f) ==
  OfProject(r, f, WEB, "apps/__LILO_WEB__", [web |-> TRUE],
            {"web", "webPort", "organizationPolicy"})
ServiceFile(r, f) ==
  OfProject(r, f, SERVICE, "services/__LILO_SERVICE__", [service |-> TRUE],
            {"project", "service", "servicePort"})
SchemaFile(r, f) == OfProject(r, f, SCHEMA, SCHEMA, Always, {"project"})

\* projects makes only these.
LEMMA ProjectKinds ==
  ASSUME NEW r, Sound(r), NEW f \in projects(r)
  PROVE  WebFile(r, f) \/ ServiceFile(r, f) \/ SchemaFile(r, f)
  <1>1. \A s \in r.files : \A d : s[1] = d /\ s # <<d, "package.json">> => s[2] # "package.json"
    BY DEF Sound, KnownProjects
  <1>2. CASE f \in project(r, WEB, "apps/__LILO_WEB__", [web |-> TRUE], {"web"})
    BY <1>1, <1>2, ProjectFields, LeavesBound DEF WebFile, OfProject, Leavable
  <1>3. CASE f \in project(r, SERVICE, "services/__LILO_SERVICE__", [service |-> TRUE], {"service"})
    BY <1>1, <1>3, ProjectFields, LeavesBound DEF ServiceFile, OfProject, Leavable, WEB, SERVICE,
        ENV
  <1>4. CASE f \in project(r, SCHEMA, SCHEMA, Always, {})
    BY <1>1, <1>4, ProjectFields, LeavesBound DEF SchemaFile, OfProject, Leavable, WEB,
        SERVICE, SCHEMA, ENV
  <1>5. QED
    BY <1>2, <1>3, <1>4 DEF projects

\* The manifests.
RootManifest(r, v) == Manifest(r, ".", [database |-> v], {}, rootManifest(r, v))
WebManifest(r) ==
  Manifest(r, "apps/__LILO_WEB__", [web |-> TRUE], {"web"}, releasedManifest(r, WEB))
ServiceManifest(r) ==
  Manifest(r, "services/__LILO_SERVICE__", [service |-> TRUE], {"service"},
           releasedManifest(r, SERVICE))
SchemaManifest(r) == Manifest(r, SCHEMA, Always, {}, releasedManifest(r, SCHEMA))

\* manifests makes only these.
LEMMA ManifestKinds ==
  ASSUME NEW r, NEW f
  PROVE  f \in manifests(r) <=> \/ \E v \in DATABASE_VARIANTS : f = RootManifest(r, v)
                                \/ f \in {WebManifest(r), ServiceManifest(r), SchemaManifest(r)}
  BY DEF manifests, RootManifest, WebManifest, ServiceManifest, SchemaManifest

\* A file of a template is of one of these kinds.
LEMMA Kinds ==
  ASSUME NEW r, Sound(r), NEW f \in generateTemplate(r).files
  PROVE  \/ Quiet(r, f)
         \/ \E v \in DATABASE_VARIANTS : f = rootMoon(r, v)
         \/ \E v \in [web : BOOLEAN, service : BOOLEAN] : f = rootTsconfig(r, v)
         \/ \E v \in ENV_VARIANTS : f = EnvFile(r, v)
         \/ WebFile(r, f) \/ ServiceFile(r, f) \/ SchemaFile(r, f)
         \/ f \in manifests(r)
  <1>1. f \in rootFiles(r) \/ f \in projects(r) \/ f \in manifests(r)
    BY DEF generateTemplate
  <1>2. CASE f \in projects(r)
    BY <1>2, ProjectKinds
  <1>3. CASE f \in rootFiles(r)
    <2>1. \/ \E source \in PlainSources(r) : f = File(r, source, source, Always, {})
          \/ f = File(r, <<"owned", "AGENTS.md">>, <<".", "AGENTS.md">>, Always, {})
          \/ f \in {rootMoon(r, v) : v \in DATABASE_VARIANTS}
          \/ f \in {rootTsconfig(r, v) : v \in {p \in [web : BOOLEAN, service : BOOLEAN] :
               p.web \/ p.service}}
          \/ f \in environment(r) \/ f \in databaseFiles(r)
      BY <1>3 DEF rootFiles, PlainSources
    <2>2. <<"owned", "AGENTS.md">> \in PlainSources(r)
      BY DEF PlainSources
    <2>3. CASE f \in {rootTsconfig(r, v) : v \in {p \in [web : BOOLEAN, service : BOOLEAN] :
        p.web \/ p.service}}
      BY <2>3
    <2>4. QED
      BY <2>1, <2>2, <2>3, PlainQuiet, DatabaseQuiet, EnvironmentIs
  <1>4. QED
    BY <1>1, <1>2, <1>3

-----------------------------------------------------------------------------
(* What a choice of parts receives.                                        *)

\* The condition on a database.
OnDatabase(v) == [database |-> v]

\* Where the files of the root go, and for whom.
LEMMA MoonPlace ==
  ASSUME NEW r, NEW v PROVE Placed(rootMoon(r, v), <<".", "moon.yml">>, OnDatabase(v))
  BY FileFields DEF rootMoon, Placed, OnDatabase

LEMMA TsconfigPlace ==
  ASSUME NEW r, NEW v PROVE Placed(rootTsconfig(r, v), <<".", "tsconfig.json">>, v)
  BY FileFields DEF rootTsconfig, Placed

LEMMA EnvPlace ==
  ASSUME NEW r, NEW v PROVE Placed(EnvFile(r, v), ENV, v)
  BY FileFields DEF EnvFile, Placed

LEMMA ManifestPlace ==
  ASSUME NEW r, NEW directory, NEW when, NEW tokens, NEW deps
  PROVE  Placed(Manifest(r, directory, when, tokens, deps), <<directory, "package.json">>, when)
  BY FileFields DEF Manifest, Placed

LEMMA RootManifestPlace ==
  ASSUME NEW r, NEW v PROVE Placed(RootManifest(r, v), <<".", "package.json">>, OnDatabase(v))
  BY ManifestPlace DEF RootManifest, OnDatabase

\* A condition on a database is met by one of its two values.
LEMMA MatchesDatabase ==
  ASSUME NEW v, NEW parts PROVE matches(OnDatabase(v), parts) <=> v = parts.database
  BY Matching DEF OnDatabase

\* Where the manifests go, and for whom.
LEMMA ManifestPlaces ==
  ASSUME NEW r
  PROVE  /\ Placed(WebManifest(r), <<"apps/__LILO_WEB__", "package.json">>, [web |-> TRUE])
         /\ Placed(ServiceManifest(r), <<"services/__LILO_SERVICE__", "package.json">>,
              [service |-> TRUE])
         /\ Placed(SchemaManifest(r), <<SCHEMA, "package.json">>, Always)
  BY ManifestPlace DEF WebManifest, ServiceManifest, SchemaManifest

\* What a project with these parts receives, and what of it is in its root.
Chosen(r, parts) == Selected(generateTemplate(r).files, parts)
At(r, parts, name) == {f \in Chosen(r, parts) : f.path = <<".", name>>}
\* The parts the root builds, and those the environment is of.
OfRoot(parts) == [web |-> parts.web, service |-> parts.service]
OfEnv(parts) == [web |-> parts.web, database |-> parts.database]

\* The parts of a choice are Booleans, and it has a project to build.
LEMMA ChoiceTypes ==
  ASSUME NEW parts \in CHOICES
  PROVE  /\ parts.web \in BOOLEAN /\ parts.service \in BOOLEAN /\ parts.database \in BOOLEAN
         /\ parts.database \in DATABASE_VARIANTS
         /\ OfRoot(parts) \in {p \in [web : BOOLEAN, service : BOOLEAN] : p.web \/ p.service}
         /\ OfEnv(parts) \in ENV_VARIANTS
  BY DEF CHOICES, Parts, OfRoot, OfEnv, ENV_VARIANTS, DATABASE_VARIANTS

\* Every choice has a variant of the environment.
LEMMA EnvVariants ==
  ASSUME NEW v \in ENV_VARIANTS
  PROVE  v \in [web : BOOLEAN, database : BOOLEAN] /\ v = [web |-> v.web, database |-> v.database]
  <1>1. CASE v = [web |-> TRUE, database |-> TRUE]
    BY <1>1
  <1>2. CASE v = [web |-> TRUE, database |-> FALSE]
    BY <1>2
  <1>3. CASE v = [web |-> FALSE, database |-> TRUE]
    BY <1>3
  <1>4. QED
    BY <1>1, <1>2, <1>3 DEF ENV_VARIANTS

\* The path of a file tells its kind.
LEMMA FileByPath ==
  ASSUME NEW r, Sound(r), NEW f \in generateTemplate(r).files
  PROVE  /\ f.path = <<".", "moon.yml">> => \E v \in DATABASE_VARIANTS : f = rootMoon(r, v)
         /\ f.path = <<".", "tsconfig.json">> =>
              \E v \in [web : BOOLEAN, service : BOOLEAN] : f = rootTsconfig(r, v)
         /\ f.path = ENV => \E v \in ENV_VARIANTS : f = EnvFile(r, v)
         /\ f.path = <<".", "package.json">> => \E v \in DATABASE_VARIANTS : f = RootManifest(r, v)
         /\ f.path[2] = "package.json" => f \in manifests(r)
         /\ f.path[1] # "." /\ f.path[2] = "tsconfig.json" =>
              WebFile(r, f) \/ ServiceFile(r, f) \/ SchemaFile(r, f)
  <1>1. ASSUME Quiet(r, f)
        PROVE  f.path \notin {<<".", "moon.yml">>, ENV} /\ f.path[2] \notin Projects
    BY <1>1 DEF Quiet, ENV
  <1>2. ASSUME NEW v, f = rootMoon(r, v) PROVE f.path = <<".", "moon.yml">>
    BY <1>2, MoonPlace DEF Placed
  <1>3. ASSUME NEW v \in [web : BOOLEAN, service : BOOLEAN], f = rootTsconfig(r, v)
        PROVE  f.path = <<".", "tsconfig.json">>
    BY <1>3, TsconfigPlace DEF Placed
  <1>4. ASSUME NEW v, f = EnvFile(r, v) PROVE f.path = ENV
    BY <1>4, EnvPlace DEF Placed
  <1>5. ASSUME WebFile(r, f) \/ ServiceFile(r, f) \/ SchemaFile(r, f)
        PROVE  f.path[1] # "." /\ f.path[2] # "package.json"
    BY <1>5 DEF WebFile, ServiceFile, SchemaFile, OfProject, SCHEMA
  <1>6. ASSUME f \in manifests(r)
        PROVE  \/ \E v \in DATABASE_VARIANTS :
                     f = RootManifest(r, v) /\ f.path = <<".", "package.json">>
               \/ f.path[1] # "." /\ f.path[2] = "package.json"
    <2>1. CASE \E v \in DATABASE_VARIANTS : f = RootManifest(r, v)
      BY <2>1, RootManifestPlace DEF Placed
    <2>2. CASE f \in {WebManifest(r), ServiceManifest(r), SchemaManifest(r)}
      BY <2>2, ManifestPlaces DEF Placed, SCHEMA
    <2>3. QED
      BY <1>6, <2>1, <2>2, ManifestKinds
  <1>7. QED
    BY <1>1, <1>2, <1>3, <1>4, <1>5, <1>6, Kinds DEF ENV, Projects

\* Every choice gets exactly one file of root tasks,
LEMMA MoonChosen ==
  ASSUME NEW r, Sound(r), NEW parts \in CHOICES
  PROVE  At(r, parts, "moon.yml") = {rootMoon(r, parts.database)}
  <1>1. rootMoon(r, parts.database) \in At(r, parts, "moon.yml")
    <2>1. rootMoon(r, parts.database) \in generateTemplate(r).files
      BY ChoiceTypes DEF generateTemplate, rootFiles
    <2>2. matches(OnDatabase(parts.database), parts)
      BY MatchesDatabase
    <2>3. QED
      BY <2>1, <2>2, MoonPlace DEF Placed, At, Chosen, Selected
  <1>2. ASSUME NEW f \in At(r, parts, "moon.yml") PROVE f = rootMoon(r, parts.database)
    <2>1. f \in generateTemplate(r).files /\ matches(f.when, parts) /\ f.path = <<".", "moon.yml">>
      BY <1>2 DEF At, Chosen, Selected
    <2>2. PICK v \in DATABASE_VARIANTS : f = rootMoon(r, v)
      BY <2>1, FileByPath
    <2>3. f.when = OnDatabase(v)
      BY <2>2, MoonPlace DEF Placed
    <2>4. v = parts.database
      BY <2>1, <2>3, MatchesDatabase
    <2>5. QED
      BY <2>2, <2>4
  <1>3. QED
    BY <1>1, <1>2

\* one tsconfig.json,
LEMMA TsconfigChosen ==
  ASSUME NEW r, Sound(r), NEW parts \in CHOICES
  PROVE  At(r, parts, "tsconfig.json") = {rootTsconfig(r, OfRoot(parts))}
  <1>1. rootTsconfig(r, OfRoot(parts)) \in generateTemplate(r).files
    BY ChoiceTypes DEF generateTemplate, rootFiles
  <1>2. rootTsconfig(r, OfRoot(parts)) \in At(r, parts, "tsconfig.json")
    <2>1. matches(OfRoot(parts), parts)
      BY Matching DEF OfRoot
    <2>2. QED
      BY <1>1, <2>1, ChoiceTypes, TsconfigPlace DEF Placed, At, Chosen, Selected
  <1>3. ASSUME NEW f \in At(r, parts, "tsconfig.json") PROVE f = rootTsconfig(r, OfRoot(parts))
    <2>1. /\ f \in generateTemplate(r).files /\ matches(f.when, parts)
          /\ f.path = <<".", "tsconfig.json">>
      BY <1>3 DEF At, Chosen, Selected
    <2>2. PICK v \in [web : BOOLEAN, service : BOOLEAN] : f = rootTsconfig(r, v)
      BY <2>1, FileByPath
    <2>3. v = [web |-> v.web, service |-> v.service]
      OBVIOUS
    <2>4. v.web = parts.web /\ v.service = parts.service
      <3>1. matches([web |-> v.web, service |-> v.service], parts)
        <4>1. f.when = v
          BY <2>2, TsconfigPlace DEF Placed
        <4>2. matches(v, parts)
          BY <2>1, <4>1
        <4>3. QED
          BY <2>3, <4>2
      <3>2. QED
        BY <3>1, Matching
    <2>5. QED
      BY <2>2, <2>3, <2>4 DEF OfRoot
  <1>4. QED
    BY <1>2, <1>3

\* one environment
LEMMA EnvChosen ==
  ASSUME NEW r, Sound(r), NEW parts \in CHOICES
  PROVE  At(r, parts, ".env.example") = {EnvFile(r, OfEnv(parts))}
  <1>1. EnvFile(r, OfEnv(parts)) \in generateTemplate(r).files
    BY ChoiceTypes, EnvironmentIs DEF generateTemplate, rootFiles
  <1>2. EnvFile(r, OfEnv(parts)) \in At(r, parts, ".env.example")
    <2>1. matches(OfEnv(parts), parts)
      BY Matching DEF OfEnv
    <2>2. QED
      BY <1>1, <2>1, EnvPlace DEF Placed, ENV, At, Chosen, Selected
  <1>3. ASSUME NEW f \in At(r, parts, ".env.example") PROVE f = EnvFile(r, OfEnv(parts))
    <2>1. f \in generateTemplate(r).files /\ matches(f.when, parts) /\ f.path = ENV
      BY <1>3 DEF At, Chosen, Selected, ENV
    <2>2. PICK v \in ENV_VARIANTS : f = EnvFile(r, v)
      BY <2>1, FileByPath
    <2>3. v = [web |-> v.web, database |-> v.database]
      BY DEF ENV_VARIANTS
    <2>4. v.web = parts.web /\ v.database = parts.database
      <3>1. matches([web |-> v.web, database |-> v.database], parts)
        <4>1. f.when = v
          BY <2>2, EnvPlace DEF Placed
        <4>2. matches(v, parts)
          BY <2>1, <4>1
        <4>3. QED
          BY <2>3, <4>2
      <3>2. QED
        BY <3>1, Matching
    <2>5. QED
      BY <2>2, <2>3, <2>4 DEF OfEnv
  <1>4. QED
    BY <1>2, <1>3

\* and one manifest of the root.
LEMMA ManifestChosen ==
  ASSUME NEW r, Sound(r), NEW parts \in CHOICES
  PROVE  At(r, parts, "package.json") = {RootManifest(r, parts.database)}
  <1>1. RootManifest(r, parts.database) \in generateTemplate(r).files
    BY ChoiceTypes, ManifestKinds DEF generateTemplate
  <1>2. RootManifest(r, parts.database) \in At(r, parts, "package.json")
    <2>1. matches(OnDatabase(parts.database), parts)
      BY MatchesDatabase
    <2>2. QED
      BY <1>1, <2>1, RootManifestPlace DEF Placed, At, Chosen, Selected
  <1>3. ASSUME NEW f \in At(r, parts, "package.json") PROVE f = RootManifest(r, parts.database)
    <2>1. /\ f \in generateTemplate(r).files /\ matches(f.when, parts)
          /\ f.path = <<".", "package.json">>
      BY <1>3 DEF At, Chosen, Selected
    <2>2. PICK v \in DATABASE_VARIANTS : f = RootManifest(r, v)
      BY <2>1, FileByPath
    <2>3. f.when = OnDatabase(v)
      BY <2>2, RootManifestPlace DEF Placed
    <2>4. v = parts.database
      BY <2>1, <2>3, MatchesDatabase
    <2>5. QED
      BY <2>2, <2>4
  <1>4. QED
    BY <1>2, <1>3

\* Each token left in a file has a value in every project the file goes to.
LEMMA ValuesOfParts ==
  ASSUME NEW parts
  PROVE  /\ "project" \in values(parts)
         /\ parts.web = TRUE => {"web", "webPort", "organizationPolicy"} \subseteq values(parts)
         /\ parts.service = TRUE => {"service", "servicePort"} \subseteq values(parts)
  BY DEF values

\* The tokens of the manifests.
LEMMA ManifestTokens ==
  ASSUME NEW r
  PROVE  /\ \A v : RootManifest(r, v).tokens \subseteq {"project"}
         /\ WebManifest(r).tokens \subseteq {"project", "web"}
         /\ ServiceManifest(r).tokens \subseteq {"project", "service"}
         /\ SchemaManifest(r).tokens \subseteq {"project"}
  <1>1. \A directory \in {".", "apps/__LILO_WEB__", "services/__LILO_SERVICE__", SCHEMA} :
          Leaves(<<directory, "package.json">>) \subseteq {"project"}
    BY LeavesBound, LeavableIs DEF SCHEMA, WEB, SERVICE
  <1>2. ASSUME NEW directory \in {".", "apps/__LILO_WEB__", "services/__LILO_SERVICE__", SCHEMA},
               NEW when, NEW tokens, NEW deps
        PROVE  Manifest(r, directory, when, tokens, deps).tokens \subseteq {"project"} \union tokens
    BY <1>1, ManifestFields
  <1>3. \A v : RootManifest(r, v).tokens \subseteq {"project"}
    BY <1>2 DEF RootManifest
  <1>4. WebManifest(r).tokens \subseteq {"project", "web"}
    BY <1>2 DEF WebManifest
  <1>5. ServiceManifest(r).tokens \subseteq {"project", "service"}
    BY <1>2 DEF ServiceManifest
  <1>6. SchemaManifest(r).tokens \subseteq {"project"}
    BY <1>2 DEF SchemaManifest
  <1>7. QED
    BY <1>3, <1>4, <1>5, <1>6

LEMMA TokensHaveValues ==
  ASSUME NEW r, Sound(r), Classified(r), NEW parts \in CHOICES, NEW f \in Chosen(r, parts)
  PROVE  f.tokens \subseteq values(parts)
  <1>1. f \in generateTemplate(r).files /\ matches(f.when, parts)
    BY DEF Chosen, Selected
  <1>2. CASE Quiet(r, f) \/ \E v \in DATABASE_VARIANTS : f = rootMoon(r, v)
    <2>1. CASE Quiet(r, f)
      BY <2>1, ValuesOfParts DEF Quiet
    <2>2. CASE \E v \in DATABASE_VARIANTS : f = rootMoon(r, v)
      <3>1. PICK v \in DATABASE_VARIANTS : f = rootMoon(r, v)
        BY <2>2
      <3>2. rootMoon(r, v).tokens \subseteq {"project"}
        BY MoonFields
      <3>3. QED
        BY <3>1, <3>2, ValuesOfParts
    <2>3. QED
      BY <1>2, <2>1, <2>2
  <1>3. CASE \E v \in [web : BOOLEAN, service : BOOLEAN] : f = rootTsconfig(r, v)
    <2>1. PICK v \in [web : BOOLEAN, service : BOOLEAN] : f = rootTsconfig(r, v)
      BY <1>3
    <2>2. v = [web |-> v.web, service |-> v.service]
      OBVIOUS
    <2>3. matches([web |-> v.web, service |-> v.service], parts)
      <3>1. f.when = v
        BY <2>1, TsconfigPlace DEF Placed
      <3>2. matches(v, parts)
        BY <1>1, <3>1
      <3>3. QED
        BY <2>2, <3>2
    <2>4. v.web = parts.web /\ v.service = parts.service
      BY <2>3, Matching
    <2>5. f.tokens \subseteq {"project"} \union (IF v.web THEN {"web"} ELSE {})
                              \union (IF v.service THEN {"service"} ELSE {})
      BY <2>1, TsconfigFields
    <2>6. (IF v.web THEN {"web"} ELSE {}) \subseteq values(parts)
      <3>1. CASE v.web = TRUE
        <4>1. parts.web = TRUE
          BY <3>1, <2>4
        <4>2. "web" \in values(parts)
          BY <4>1, ValuesOfParts
        <4>3. QED
          BY <3>1, <4>2
      <3>2. CASE v.web = FALSE
        BY <3>2
      <3>3. QED
        BY <3>1, <3>2
    <2>7. (IF v.service THEN {"service"} ELSE {}) \subseteq values(parts)
      <3>1. CASE v.service = TRUE
        <4>1. parts.service = TRUE
          BY <3>1, <2>4
        <4>2. "service" \in values(parts)
          BY <4>1, ValuesOfParts
        <4>3. QED
          BY <3>1, <4>2
      <3>2. CASE v.service = FALSE
        BY <3>2
      <3>3. QED
        BY <3>1, <3>2
    <2>8. QED
      BY <2>5, <2>6, <2>7, ValuesOfParts
  <1>4. CASE \E v \in ENV_VARIANTS : f = EnvFile(r, v)
    <2>1. PICK v \in ENV_VARIANTS : f = EnvFile(r, v)
      BY <1>4
    <2>2. v \in [web : BOOLEAN, database : BOOLEAN] /\ v = [web |-> v.web, database |-> v.database]
      BY EnvVariants
    <2>3. matches([web |-> v.web, database |-> v.database], parts)
      BY <1>1, <2>1, <2>2, EnvPlace DEF Placed
    <2>4. v.web = parts.web
      BY <2>3, Matching
    <2>5. f.tokens \subseteq
            {"project"} \union
              (IF EnvRedirects(r, v) THEN {"webPort"} ELSE {})
      BY <2>1, EnvFields
    <2>6. EnvRedirects(r, v) => parts.web = TRUE
      BY <2>2, <2>4, EnvironmentOfParts DEF Sound
    <2>7. QED
      BY <2>5, <2>6, ValuesOfParts
  <1>5. CASE WebFile(r, f)
    <2>1. matches([web |-> TRUE], parts)
      BY <1>1, <1>5 DEF WebFile, OfProject
    <2>2. parts.web = TRUE
      BY <2>1, Matching
    <2>3. QED
      BY <1>5, <2>2, ValuesOfParts DEF WebFile, OfProject
  <1>6. CASE ServiceFile(r, f)
    <2>1. matches([service |-> TRUE], parts)
      BY <1>1, <1>6 DEF ServiceFile, OfProject
    <2>2. parts.service = TRUE
      BY <2>1, Matching
    <2>3. QED
      BY <1>6, <2>2, ValuesOfParts DEF ServiceFile, OfProject
  <1>7. CASE SchemaFile(r, f)
    BY <1>7, ValuesOfParts DEF SchemaFile, OfProject
  <1>8. CASE f \in manifests(r)
    <2>1. CASE f = WebManifest(r)
      <3>1. matches([web |-> TRUE], parts)
        BY <1>1, <2>1, ManifestPlaces DEF Placed
      <3>2. parts.web = TRUE
        BY <3>1, Matching
      <3>3. QED
        BY <2>1, <3>2, ManifestTokens, ValuesOfParts
    <2>2. CASE f = ServiceManifest(r)
      <3>1. matches([service |-> TRUE], parts)
        BY <1>1, <2>2, ManifestPlaces DEF Placed
      <3>2. parts.service = TRUE
        BY <3>1, Matching
      <3>3. QED
        BY <2>2, <3>2, ManifestTokens, ValuesOfParts
    <2>3. CASE f = SchemaManifest(r) \/ \E v \in DATABASE_VARIANTS : f = RootManifest(r, v)
      BY <2>3, ManifestTokens, ValuesOfParts
    <2>4. QED
      BY <1>8, <2>1, <2>2, <2>3, ManifestKinds
  <1>9. QED
    BY <1>1, <1>2, <1>3, <1>4, <1>5, <1>6, <1>7, <1>8, Kinds

-----------------------------------------------------------------------------
(* What a project installs.                                                *)

\* What the manifests install.
LEMMA ManifestHolds ==
  ASSUME NEW r
  PROVE  /\ \A v : RootManifest(r, v).holds = rootManifest(r, v)
         /\ WebManifest(r).holds = releasedManifest(r, WEB)
         /\ ServiceManifest(r).holds = releasedManifest(r, SERVICE)
         /\ SchemaManifest(r).holds = releasedManifest(r, SCHEMA)
  <1>1. \A directory, when, tokens, deps : Manifest(r, directory, when, tokens, deps).holds = deps
    BY FileFields DEF Manifest
  <1>2. \A v : RootManifest(r, v).holds = rootManifest(r, v)
    BY <1>1 DEF RootManifest
  <1>3. WebManifest(r).holds = releasedManifest(r, WEB)
    BY <1>1 DEF WebManifest
  <1>4. ServiceManifest(r).holds = releasedManifest(r, SERVICE)
    BY <1>1 DEF ServiceManifest
  <1>5. SchemaManifest(r).holds = releasedManifest(r, SCHEMA)
    BY <1>1 DEF SchemaManifest
  <1>6. QED
    BY <1>2, <1>3, <1>4, <1>5

\* A dependency on this repository becomes one on the project's schema or on the
\* catalog.
LEMMA CatalogOrWorkspace ==
  ASSUME NEW r, NEW m
  PROVE  /\ \A x \in releasedManifest(r, m) : x[2] = "workspace:" => x[1] = PROJECT_SCHEMA
         /\ \A d \in DOMAIN r.deps[m] :
              d # schema => \E x \in releasedManifest(r, m) : x[1] = d
  <1> DEFINE Entry(d) == CASE r.deps[m][d] # "workspace:" -> <<d, r.deps[m][d]>>
                           [] r.deps[m][d] = "workspace:" /\ d = schema ->
                                 <<PROJECT_SCHEMA, "workspace:">>
                           [] OTHER -> <<d, "catalog:">>
  <1>1. releasedManifest(r, m) = {Entry(d) : d \in DOMAIN r.deps[m]}
    BY DEF releasedManifest
  <1>2. ASSUME NEW d
        PROVE  /\ Entry(d)[2] = "workspace:" => Entry(d)[1] = PROJECT_SCHEMA
               /\ d # schema => Entry(d)[1] = d
    <2>1. CASE r.deps[m][d] # "workspace:"
      BY <2>1
    <2>2. CASE r.deps[m][d] = "workspace:" /\ d = schema
      BY <2>2
    <2>3. CASE r.deps[m][d] = "workspace:" /\ d # schema
      BY <2>3
    <2>4. QED
      BY <2>1, <2>2, <2>3
  <1> HIDE DEF Entry
  <1>3. QED
    BY <1>1, <1>2

\* What a chosen manifest installs, the template can provide.
LEMMA ManifestDependencies ==
  ASSUME NEW r, Pinned(r), NEW f \in manifests(r), NEW d \in f.holds
  PROVE  /\ d[2] = "catalog:" => d[1] \in installed(r)
         /\ d[2] = "workspace:" => d[1] = PROJECT_SCHEMA
         /\ d[2] # "catalog:react-peer"
  <1>1. d[2] = "catalog:" => d[1] \in wanted(r)
    BY DEF wanted
  <1>2. d[2] # "catalog:react-peer"
    BY DEF Pinned
  <1>3. d[2] = "workspace:" => d[1] = PROJECT_SCHEMA
    <2>1. ASSUME NEW v, d \in rootManifest(r, v)
        PROVE d \in releasedManifest(r, ".") \/ d[2] = "catalog:"
      BY <2>1 DEF rootManifest
    <2>2. \/ \E v : d \in rootManifest(r, v)
          \/ d \in releasedManifest(r, WEB) \/ d \in releasedManifest(r, SERVICE)
          \/ d \in releasedManifest(r, SCHEMA)
      BY ManifestKinds, ManifestHolds
    <2>3. QED
      BY <2>1, <2>2, CatalogOrWorkspace
  <1>4. QED
    BY <1>1, <1>2, <1>3 DEF Pinned, installed

\* The root of a project with a database has the tools its tasks call.
LEMMA DatabaseTools ==
  ASSUME NEW r, Tooled(r)
  PROVE  {"@littleorgans/db-tools", "drizzle-kit", "pg"}
            \subseteq {d[1] : d \in rootManifest(r, TRUE)}
  <1>1. <<"drizzle-kit", "catalog:">> \in rootManifest(r, TRUE)
    BY DEF rootManifest
  <1>2. ASSUME NEW n \in DATABASE_TOOLS PROVE \E d \in rootManifest(r, TRUE) : d[1] = n
    <2>1. n \in DOMAIN r.deps["."] /\ n # schema /\ n \notin REFERENCE_TOOLS
      BY DEF Tooled, DATABASE_TOOLS, schema, REFERENCE_TOOLS
    <2>2. PICK d \in releasedManifest(r, ".") : d[1] = n
      BY <2>1, CatalogOrWorkspace
    <2>3. QED
      BY <2>1, <2>2 DEF rootManifest
  <1>3. \E d \in rootManifest(r, TRUE) : d[1] = "drizzle-kit"
    BY <1>1
  <1>4. \A n \in {"@littleorgans/db-tools", "drizzle-kit", "pg"} :
          \E d \in rootManifest(r, TRUE) : d[1] = n
    BY <1>2, <1>3 DEF DATABASE_TOOLS
  <1>5. QED
    BY <1>4

\* The root installs no tool of publishing.
LEMMA RootTools ==
  ASSUME NEW r, NEW v
  PROVE  {d[1] : d \in rootManifest(r, v)} \intersect REFERENCE_TOOLS = {}
  BY DEF rootManifest, REFERENCE_TOOLS

\* A project keeps the database's tasks if it has a database, and no task of
\* this repository's own.
LEMMA KeptTasks ==
  ASSUME NEW r, r.tasks = known, NEW v, NEW h \in rootMoon(r, v).holds
  PROVE  /\ h[1] \in TASKS.project \union TASKS.database
         /\ v = FALSE => h[1] \notin TASKS.database
  <1>1. PICK t \in Kept(r, v) : h[1] = t
    BY TaskScripts
  <1>2. DOMAIN TASKS = {"project", "database", "reference"}
    BY DEF TASKS
  <1>3. known = TASKS.project \union TASKS.database \union TASKS.reference
    BY <1>2 DEF known
  <1>4. QED
    BY <1>1, <1>3 DEF Kept

-----------------------------------------------------------------------------
(* The files a project builds from.                                        *)

\* Some anchor is in the tsconfig.json of each project with one.
LEMMA SomeAnchor ==
  ASSUME NEW file, NEW row PROVE \E a \in Anchors(file, {row}) : a.file = file
  <1> DEFINE a == [file |-> file, passage |-> row[1], count |-> row[2], leaves |-> row[3]]
  <1>1. a \in Anchors(file, {row})
    BY DEF Anchors
  <1>2. QED
    BY <1>1

\* What a build reads, the reference has.
LEMMA FilesRead ==
  ASSUME NEW r, Readable(r)
  PROVE  <<WEB, "tsconfig.json">> \in r.files /\ <<SERVICE, "tsconfig.json">> \in r.files
  <1>1. \E a \in webAnchors : a.file = <<WEB, "tsconfig.json">>
    <2>1. Anchors(<<WEB, "tsconfig.json">>, {<<"outDir", 1, {"web"}>>}) \subseteq webAnchors
      BY DEF webAnchors
    <2>2. QED
      BY <2>1, SomeAnchor
  <1>2. \E a \in serviceAnchors : a.file = <<SERVICE, "tsconfig.json">>
    <2>1. Anchors(<<SERVICE, "tsconfig.json">>, {<<"outDir", 1, {"service"}>>})
        \subseteq serviceAnchors
      BY DEF serviceAnchors
    <2>2. QED
      BY <2>1, SomeAnchor
  <1>3. QED
    BY <1>1, <1>2 DEF Readable, ReadFiles, anchors

\* A file of a project goes to its directory of the template.
LEMMA InProject ==
  ASSUME NEW r, NEW source, NEW into, NEW when, NEW tokens, NEW s \in r.files,
         s = <<source, "tsconfig.json">>
  PROVE  \E f \in project(r, source, into, when, tokens) :
           Placed(f, <<into, "tsconfig.json">>, when)
  <1>1. s[1] = source /\ s # <<source, "package.json">> /\ s # <<SERVICE, "README.md">>
    OBVIOUS
  <1>2. File(r, s, <<into, s[2]>>, when, tokens) \in project(r, source, into, when, tokens)
    BY <1>1 DEF project
  <1>3. QED
    BY <1>2, FileFields DEF Placed

\* The root builds exactly the projects there are, and db/drizzle.
LEMMA TsconfigPaths ==
  ASSUME NEW r, Sound(r), Readable(r), NEW parts \in CHOICES
  PROVE  rootTsconfig(r, OfRoot(parts)).holds \ (Under(SCHEMA, {"tsconfig.json"}) \ r.files)
           = {p \in {f.path : f \in Chosen(r, parts)} : p[1] # "." /\ p[2] = "tsconfig.json"}
  <1> DEFINE Own == {SCHEMA} \union (IF parts.web THEN {"apps/__LILO_WEB__"} ELSE {})
                             \union (IF parts.service THEN {"services/__LILO_SERVICE__"} ELSE {})
             Found == {p \in {f.path : f \in Chosen(r, parts)} :
                          p[1] # "." /\ p[2] = "tsconfig.json"}
  <1>1. rootTsconfig(r, OfRoot(parts)).holds = {<<d, "tsconfig.json">> : d \in Own}
    <2>1. OfRoot(parts) \in [web : BOOLEAN, service : BOOLEAN]
      BY ChoiceTypes
    <2>2. OfRoot(parts).web = parts.web /\ OfRoot(parts).service = parts.service
      BY DEF OfRoot
    <2>3. QED
      BY <2>1, <2>2, TsconfigFields
  <1>2. ASSUME NEW f \in Chosen(r, parts), f.path[1] # ".", f.path[2] = "tsconfig.json"
        PROVE  /\ \E d \in Own : f.path = <<d, "tsconfig.json">>
               /\ f.path = <<SCHEMA, "tsconfig.json">> => f.path \in r.files
    <2>1. f \in generateTemplate(r).files /\ matches(f.when, parts)
      BY DEF Chosen, Selected
    <2>2. WebFile(r, f) \/ ServiceFile(r, f) \/ SchemaFile(r, f)
      BY <1>2, <2>1, FileByPath
    <2>3. CASE WebFile(r, f)
      <3>1. f.when = [web |-> TRUE] /\ f.path = <<"apps/__LILO_WEB__", "tsconfig.json">>
        BY <1>2, <2>3 DEF WebFile, OfProject
      <3>2. matches([web |-> TRUE], parts)
        BY <2>1, <3>1
      <3>3. parts.web = TRUE
        BY <3>2, Matching
      <3>4. QED
        BY <3>1, <3>3 DEF SCHEMA
    <2>4. CASE ServiceFile(r, f)
      <3>1. f.when = [service |-> TRUE] /\ f.path = <<"services/__LILO_SERVICE__", "tsconfig.json">>
        BY <1>2, <2>4 DEF ServiceFile, OfProject
      <3>2. matches([service |-> TRUE], parts)
        BY <2>1, <3>1
      <3>3. parts.service = TRUE
        BY <3>2, Matching
      <3>4. QED
        BY <3>1, <3>3 DEF SCHEMA
    <2>5. CASE SchemaFile(r, f)
      BY <1>2, <2>5 DEF SchemaFile, OfProject, Sound, KnownProjects
    <2>6. QED
      BY <2>2, <2>3, <2>4, <2>5
  <1>3. ASSUME NEW d \in Own, d = SCHEMA => <<d, "tsconfig.json">> \in r.files
        PROVE  \E f \in Chosen(r, parts) : f.path = <<d, "tsconfig.json">>
    <2>1. CASE d = SCHEMA
      <3>1. \E f \in project(r, SCHEMA, SCHEMA, Always, {}) :
              Placed(f, <<SCHEMA, "tsconfig.json">>, Always)
        BY <1>3, <2>1, InProject
      <3>2. matches(Always, parts)
        BY Matching
      <3>3. QED
        BY <2>1, <3>1, <3>2 DEF Placed, Chosen, Selected, generateTemplate, projects
    <2>2. CASE parts.web = TRUE /\ d = "apps/__LILO_WEB__"
      <3>1. \E f \in project(r, WEB, "apps/__LILO_WEB__", [web |-> TRUE], {"web"}) :
              Placed(f, <<d, "tsconfig.json">>, [web |-> TRUE])
        BY <2>2, InProject, FilesRead
      <3>2. matches([web |-> TRUE], parts)
        BY <2>2, Matching
      <3>3. QED
        BY <3>1, <3>2 DEF Placed, Chosen, Selected, generateTemplate, projects
    <2>3. CASE parts.service = TRUE /\ d = "services/__LILO_SERVICE__"
      <3>1. \E f \in project(r, SERVICE, "services/__LILO_SERVICE__", [service |-> TRUE],
          {"service"}) :
              Placed(f, <<d, "tsconfig.json">>, [service |-> TRUE])
        BY <2>3, InProject, FilesRead
      <3>2. matches([service |-> TRUE], parts)
        BY <2>3, Matching
      <3>3. QED
        BY <3>1, <3>2 DEF Placed, Chosen, Selected, generateTemplate, projects
    <2>4. QED
      BY <2>1, <2>2, <2>3, ChoiceTypes
  <1>0. "." \notin Own
    BY DEF SCHEMA
  <1> HIDE DEF Own
  <1>4. ASSUME NEW d \in Own, d = SCHEMA => <<d, "tsconfig.json">> \in r.files
        PROVE  <<d, "tsconfig.json">> \in Found
    <2>1. PICK f \in Chosen(r, parts) : f.path = <<d, "tsconfig.json">>
      BY <1>3, <1>4
    <2>2. f.path \in {g.path : g \in Chosen(r, parts)}
      OBVIOUS
    <2>3. f.path[1] # "." /\ f.path[2] = "tsconfig.json"
      BY <1>0, <2>1
    <2>4. QED
      BY <2>1, <2>2, <2>3
  <1>5. ASSUME NEW p \in Found
        PROVE  /\ \E d \in Own : p = <<d, "tsconfig.json">>
               /\ p = <<SCHEMA, "tsconfig.json">> => p \in r.files
    BY <1>2
  <1> HIDE DEF Found
  <1>6. {<<d, "tsconfig.json">> : d \in Own} \ (Under(SCHEMA, {"tsconfig.json"}) \ r.files) = Found
    <2>1. \A p : p \in Under(SCHEMA, {"tsconfig.json"}) <=> p = <<SCHEMA, "tsconfig.json">>
      BY DEF Under
    <2>2. \A p \in Found : p \notin Under(SCHEMA, {"tsconfig.json"}) \ r.files
      BY <1>5, <2>1
    <2>3. ASSUME NEW d \in Own,
                 <<d, "tsconfig.json">> \notin Under(SCHEMA, {"tsconfig.json"}) \ r.files
          PROVE  <<d, "tsconfig.json">> \in Found
      BY <1>4, <2>1, <2>3
    <2>4. QED
      BY <1>5, <2>2, <2>3
  <1>7. QED
    BY <1>1, <1>6 DEF Found

\* A script the tasks run is in the project.
LEMMA ScriptChosen ==
  ASSUME NEW r, NEW parts, NEW s \in named(r)
  PROVE  \E f \in Chosen(r, parts) : f.path = <<"scripts", s>>
  <1> DEFINE f == File(r, <<"scripts", s>>, <<"scripts", s>>, Always, {})
  <1>1. <<"scripts", s>> \in Under("scripts", named(r))
    BY DEF Under
  <1>2. f \in generateTemplate(r).files
    BY <1>1 DEF generateTemplate, rootFiles
  <1>3. f.path = <<"scripts", s>> /\ f.when = Always
    BY FileFields
  <1>4. matches(Always, parts)
    BY Matching
  <1> HIDE DEF f
  <1>5. QED
    BY <1>2, <1>3, <1>4 DEF Chosen, Selected

\* A project with a database has its schema and its migrations.
LEMMA DatabaseChosen ==
  ASSUME NEW r, Readable(r), NEW parts, parts.database = TRUE
  PROVE  /\ \E f \in Chosen(r, parts) : f.path = <<"db", "schema.sql">>
         /\ \E f \in Chosen(r, parts) : f.path[1] = "db/migrations"
  <1>1. matches(WithDatabase, parts)
    BY Matching DEF WithDatabase
  <1>2. \A f \in databaseFiles(r) : f.when = WithDatabase => f \in Chosen(r, parts)
    BY <1>1 DEF Chosen, Selected, generateTemplate, rootFiles
  <1>3. ASSUME NEW source, NEW path, File(r, source, path, WithDatabase, {}) \in databaseFiles(r)
        PROVE  \E f \in Chosen(r, parts) : f.path = path
    BY <1>2, <1>3, FileFields
  <1>4. File(r, <<"db", "schema.sql">>, <<"db", "schema.sql">>, WithDatabase, {})
          \in databaseFiles(r)
    BY DEF databaseFiles
  <1>5. PICK s \in r.files : s[1] = MIGRATIONS
    BY DEF Readable
  <1>6. File(r, s, <<"db/migrations", s[2]>>, WithDatabase, {}) \in databaseFiles(r)
    BY <1>5 DEF databaseFiles
  <1>7. \E f \in Chosen(r, parts) : f.path = <<"db/migrations", s[2]>>
    BY <1>3, <1>6
  <1>8. QED
    BY <1>3, <1>4, <1>7

\* Every project has the typed schema.
LEMMA SchemaManifestChosen ==
  ASSUME NEW r, NEW parts
  PROVE  \E f \in Chosen(r, parts) : f.path = <<SCHEMA, "package.json">>
  <1>1. SchemaManifest(r) \in generateTemplate(r).files
    BY ManifestKinds DEF generateTemplate
  <1>2. matches(Always, parts)
    BY Matching
  <1>3. QED
    BY <1>1, <1>2, ManifestPlaces DEF Placed, Chosen, Selected

\* What an accepted reference makes stands alone.
LEMMA BuiltStandsAlone ==
  ASSUME NEW r, Sound(r), Accepts(r), NEW parts \in CHOICES
  PROVE  StandsAlone(generateTemplate(r), r, parts)
  <1> DEFINE chosen == Chosen(r, parts)
             paths == {f.path : f \in chosen}
             Holds(name) == UNION {f.holds : f \in At(r, parts, name)}
             deps == UNION {f.holds : f \in {x \in chosen : x.path[2] = "package.json"}}
             tasks == {t[1] : t \in Holds("moon.yml")}
             v == parts.database
             lost == Under(SCHEMA, {"tsconfig.json"}) \ r.files
  <1>1. /\ Classified(r) /\ Pinned(r) /\ Tooled(r) /\ Readable(r) /\ r.tasks = known
        /\ PlainScripts(r) /\ KnownVariables(r)
    BY DEF Accepts, Sound
  <1>2. /\ Holds("moon.yml") = rootMoon(r, v).holds
        /\ Holds("tsconfig.json") = rootTsconfig(r, OfRoot(parts)).holds
        /\ Holds("package.json") = RootManifest(r, v).holds
        /\ Holds(".env.example") = EnvFile(r, OfEnv(parts)).holds
    BY MoonChosen, TsconfigChosen, ManifestChosen, EnvChosen
  <1>3. \A f \in chosen : f.tokens \subseteq values(parts)
    BY <1>1, TokensHaveValues
  <1>4. \A name \in {"moon.yml", "package.json", "tsconfig.json", ".env.example"} :
          Cardinality(At(r, parts, name)) = 1
    <2>1. \A f : Cardinality({f}) = 1
      BY FS_Singleton
    <2>2. Cardinality(At(r, parts, "moon.yml")) = 1
      BY <2>1, MoonChosen
    <2>3. Cardinality(At(r, parts, "package.json")) = 1
      BY <2>1, ManifestChosen
    <2>4. Cardinality(At(r, parts, "tsconfig.json")) = 1
      BY <2>1, TsconfigChosen
    <2>5. Cardinality(At(r, parts, ".env.example")) = 1
      BY <2>1, EnvChosen
    <2>6. QED
      BY <2>2, <2>3, <2>4, <2>5
  <1>5. \A d \in deps :
          /\ d[2] = "catalog:" => d[1] \in generateTemplate(r).catalog
          /\ d[2] = "workspace:" => d[1] = PROJECT_SCHEMA /\ <<SCHEMA, "package.json">> \in paths
          /\ d[2] \notin {"catalog:react-peer"}
    <2> SUFFICES ASSUME NEW f \in chosen, f.path[2] = "package.json", NEW d \in f.holds
                 PROVE  /\ d[2] = "catalog:" => d[1] \in generateTemplate(r).catalog
                        /\ d[2] = "workspace:" =>
                             d[1] = PROJECT_SCHEMA /\ <<SCHEMA, "package.json">> \in paths
                        /\ d[2] # "catalog:react-peer"
      OBVIOUS
    <2>1. f \in manifests(r)
      BY FileByPath DEF Chosen, Selected
    <2>2. generateTemplate(r).catalog = installed(r)
      BY DEF generateTemplate
    <2>3. <<SCHEMA, "package.json">> \in paths
      BY SchemaManifestChosen
    <2>4. QED
      BY <1>1, <2>1, <2>2, <2>3, ManifestDependencies
  <1>6. Holds("tsconfig.json") \ lost = {p \in paths : p[1] # "." /\ p[2] = "tsconfig.json"}
    BY <1>1, <1>2, TsconfigPaths
  <1>7. \A t \in Holds("moon.yml") :
          t[2] \notin Nested \union {NoScript} => <<"scripts", t[2]>> \in paths
    <2> SUFFICES ASSUME NEW t \in rootMoon(r, v).holds, t[2] \notin Nested \union {NoScript}
                 PROVE  <<"scripts", t[2]>> \in paths
      BY <1>2
    <2> DEFINE s == t[2]
    <2>1. s \in named(r)
      BY ChoiceTypes, NamedScripts
    <2> HIDE DEF s
    <2>2. PICK f \in Chosen(r, parts) : f.path = <<"scripts", s>>
      BY <2>1, ScriptChosen
    <2>3. QED
      BY <2>2 DEF s
  <1>8. tasks \intersect TASKS.database # {} =>
          /\ {"@littleorgans/db-tools", "drizzle-kit", "pg"}
                \subseteq {d[1] : d \in Holds("package.json")}
          /\ <<"db", "schema.sql">> \in paths /\ \E p \in paths : p[1] = "db/migrations"
    <2> SUFFICES ASSUME NEW t \in rootMoon(r, v).holds, t[1] \in TASKS.database
                 PROVE  /\ {"@littleorgans/db-tools", "drizzle-kit", "pg"}
                             \subseteq {d[1] : d \in Holds("package.json")}
                        /\ <<"db", "schema.sql">> \in paths
                        /\ \E p \in paths : p[1] = "db/migrations"
      BY <1>2
    <2>1. v = TRUE
      <3>1. v # FALSE
        BY <1>1, KeptTasks
      <3>2. QED
        BY <3>1, ChoiceTypes
    <2>2. Holds("package.json") = rootManifest(r, TRUE)
      BY <1>2, <2>1, ManifestHolds
    <2>3. {"@littleorgans/db-tools", "drizzle-kit", "pg"}
            \subseteq {d[1] : d \in Holds("package.json")}
      BY <1>1, <2>2, DatabaseTools
    <2>4. PICK f \in chosen : f.path = <<"db", "schema.sql">>
      BY <1>1, <2>1, DatabaseChosen
    <2>5. PICK g \in chosen : g.path[1] = "db/migrations"
      BY <1>1, <2>1, DatabaseChosen
    <2>6. f.path \in paths /\ g.path \in paths
      OBVIOUS
    <2>7. QED
      BY <2>3, <2>4, <2>5, <2>6
  <1>9. {h[1] : h \in Holds(".env.example")}
          = VariablesFor(parts) \intersect UNION {p.assigns : p \in r.env}
    <2>1. OfEnv(parts) \in [web : BOOLEAN, database : BOOLEAN]
      BY ChoiceTypes, EnvVariants
    <2>2. VariablesFor(OfEnv(parts)) = VariablesFor(parts)
      BY DEF OfEnv, VariablesFor
    <2>3. Holds(".env.example") = {<<variable, NoScript>> : variable \in EnvHolds(r, OfEnv(parts))}
      BY <1>2, EnvFields
    <2>4. {h[1] : h \in Holds(".env.example")} = EnvHolds(r, OfEnv(parts))
      <3> DEFINE S == EnvHolds(r, OfEnv(parts))
                 H == Holds(".env.example")
      <3>1. H = {<<variable, NoScript>> : variable \in S}
        BY <2>3
      <3> HIDE DEF S, H
      <3>2. \A h \in H : h[1] \in S
        BY <3>1
      <3>3. ASSUME NEW variable \in S PROVE \E h \in H : variable = h[1]
        <4>1. <<variable, NoScript>> \in H
          BY <3>1
        <4>2. <<variable, NoScript>>[1] = variable
          OBVIOUS
        <4>3. QED
          BY <4>1, <4>2
      <3>4. {h[1] : h \in H} = S
        BY <3>2, <3>3
      <3>5. QED
        BY <3>4 DEF S, H
    <2>5. EnvHolds(r, OfEnv(parts)) = VariablesFor(OfEnv(parts))
                                        \intersect UNION {p.assigns : p \in r.env}
      BY <1>1, <2>1, EnvironmentOfParts
    <2>6. QED
      BY <2>2, <2>4, <2>5
  <1>10. QED
    BY <1>3, <1>4, <1>5, <1>6, <1>7, <1>8, <1>9 DEF StandsAlone, Chosen, At

\* A file has left of this repository's own what its source has.
Own(r, f) == \E source : f.left = LeftIn(r, source)

\* A file rewritten in place holds what its source does.
LEMMA MoonOwn == ASSUME NEW r, NEW v PROVE Own(r, rootMoon(r, v))
  BY FileFields DEF rootMoon, Own

LEMMA TsconfigOwn == ASSUME NEW r, NEW v PROVE Own(r, rootTsconfig(r, v))
  BY FileFields DEF rootTsconfig, Own

LEMMA EnvOwn == ASSUME NEW r, NEW v PROVE Own(r, EnvFile(r, v))
  BY FileFields DEF EnvFile, Own

LEMMA ManifestOwn ==
  ASSUME NEW r, NEW f \in manifests(r) PROVE Own(r, f)
  <1>1. ASSUME NEW directory, NEW when, NEW tokens, NEW deps
        PROVE  Own(r, Manifest(r, directory, when, tokens, deps))
    BY FileFields DEF Manifest, Own
  <1>2. \A v : Own(r, RootManifest(r, v))
    BY <1>1 DEF RootManifest
  <1>3. Own(r, WebManifest(r)) /\ Own(r, ServiceManifest(r)) /\ Own(r, SchemaManifest(r))
    BY <1>1 DEF WebManifest, ServiceManifest, SchemaManifest
  <1>4. QED
    BY <1>2, <1>3, ManifestKinds

\* What an accepted reference makes holds nothing of its own.
LEMMA BuiltWithoutReference ==
  ASSUME NEW r, Sound(r), Accepts(r) PROVE NothingOfTheReference(generateTemplate(r), r)
  <1>1. /\ \A a \in anchors : Anchored(r, a)
        /\ Counted(r) /\ r.tasks = known /\ Pinned(r)
    BY DEF Accepts, Sound
  <1> SUFFICES ASSUME NEW f \in generateTemplate(r).files
               PROVE  /\ f.left \subseteq r.added
                      /\ f.path = <<".", "moon.yml">> =>
                           {t[1] : t \in f.holds} \subseteq TASKS.project \union TASKS.database
                      /\ f.path = <<".", "package.json">> =>
                           {d[1] : d \in f.holds} \intersect REFERENCE_TOOLS = {}
                      /\ f.path[2] = "package.json" => <<schema, "workspace:">> \notin f.holds
    BY DEF NothingOfTheReference
  <1>2. Own(r, f)
    <2>1. CASE Quiet(r, f) \/ WebFile(r, f) \/ ServiceFile(r, f) \/ SchemaFile(r, f)
      BY <2>1 DEF Own, Quiet, WebFile, ServiceFile, SchemaFile, OfProject
    <2>2. CASE \E v \in DATABASE_VARIANTS : f = rootMoon(r, v)
      BY <2>2, MoonOwn
    <2>3. CASE \E v \in [web : BOOLEAN, service : BOOLEAN] : f = rootTsconfig(r, v)
      BY <2>3, TsconfigOwn
    <2>4. CASE \E v \in ENV_VARIANTS : f = EnvFile(r, v)
      BY <2>4, EnvOwn
    <2>5. CASE f \in manifests(r)
      BY <2>5, ManifestOwn
    <2>6. QED
      BY <2>1, <2>2, <2>3, <2>4, <2>5, Kinds
  <1>3. ASSUME f.path = <<".", "moon.yml">>, NEW t \in f.holds
        PROVE  t[1] \in TASKS.project \union TASKS.database
    <2>1. PICK v \in DATABASE_VARIANTS : f = rootMoon(r, v)
      BY <1>3, FileByPath
    <2>2. QED
      BY <1>1, <1>3, <2>1, KeptTasks
  <1>4. ASSUME f.path = <<".", "package.json">>
        PROVE  {d[1] : d \in f.holds} \intersect REFERENCE_TOOLS = {}
    <2>1. PICK v \in DATABASE_VARIANTS : f = RootManifest(r, v)
      BY <1>4, FileByPath
    <2>2. f.holds = rootManifest(r, v)
      BY <2>1, ManifestHolds
    <2>3. QED
      BY <2>2, RootTools
  <1>5. ASSUME f.path[2] = "package.json" PROVE <<schema, "workspace:">> \notin f.holds
    <2>1. f \in manifests(r)
      BY <1>5, FileByPath
    <2>2. schema # PROJECT_SCHEMA
      BY DEF schema, PROJECT_SCHEMA
    <2>3. QED
      BY <1>1, <2>1, <2>2, ManifestDependencies
  <1>6. f.left \subseteq r.added
    BY <1>1, <1>2, LeftWasAdded DEF Own
  <1>7. QED
    BY <1>3, <1>4, <1>5, <1>6

-----------------------------------------------------------------------------
(* The reference stays sound under each of these edits.                    *)

\* The reference of today is sound.
LEMMA TodayIsSound == Sound(Today)
  <1>1. Counted(Today)
    BY AnchorsGood DEF Counted, Today, GoodAnchor
  <1>2. KnownProjects(Today)
    BY DEF KnownProjects, Today, Projects, Sources, Top, Under, copy, WORKFLOWS, GITHUB, WEB,
         SERVICE, SCHEMA, MIGRATIONS
  <1>3. PlainScripts(Today)
    BY DEF PlainScripts, Today, Projects
  <1>4. KnownVariables(Today)
    BY DEF KnownVariables, Today
  <1>5. Recorded(Today)
    BY DEF Recorded, Fields, Today
  <1>6. QED
    BY <1>1, <1>2, <1>3, <1>4, <1>5 DEF Sound

\* A reference with one field changed.
With(r, field, value) == [r EXCEPT ![field] = value]

\* Only that field changes.
LEMMA WithFields ==
  ASSUME NEW r, NEW field, NEW value
  PROVE  /\ DOMAIN With(r, field, value) = DOMAIN r
         /\ \A other \in DOMAIN r : other # field => With(r, field, value)[other] = r[other]
         /\ field \in DOMAIN r => With(r, field, value)[field] = value
  BY DEF With

\* What the invariant says is about these fields.
LEMMA SoundSame ==
  ASSUME NEW r, Sound(r), NEW q, DOMAIN q = DOMAIN r, \A field \in Fields : q[field] = r[field]
  PROVE  Sound(q)
  <1>1. /\ q.files = r.files /\ q.found = r.found /\ q.strays = r.strays /\ q.added = r.added
        /\ q.runs = r.runs /\ q.env = r.env
    BY DEF Fields
  <1>2. Recorded(q)
    BY <1>1 DEF Sound, Recorded
  <1>3. Counted(q)
    BY <1>1 DEF Sound, Counted
  <1>4. KnownProjects(q)
    BY <1>1 DEF Sound, KnownProjects
  <1>5. PlainScripts(q)
    BY <1>1 DEF Sound, PlainScripts
  <1>6. KnownVariables(q)
    BY <1>1 DEF Sound, KnownVariables
  <1>7. QED
    BY <1>2, <1>3, <1>4, <1>5, <1>6 DEF Sound

\* A change to any other field keeps the reference sound,
LEMMA ElsewhereKeepsSound ==
  ASSUME NEW r, Sound(r), NEW field, field \notin Fields, NEW value
  PROVE  Sound(With(r, field, value))
  <1>1. \A f \in Fields : With(r, field, value)[f] = r[f]
    BY WithFields DEF Sound, Recorded
  <1>2. QED
    BY <1>1, WithFields, SoundSame

\* as the plain changes
LEMMA PlainKeepsSound ==
  ASSUME NEW r, Sound(r), NEW q \in PlainChanges(r) PROVE Sound(q)
  <1>1. \E field \in {"entries", "references", "imports", "packages", "tasks", "pins"} :
          \E value : q = With(r, field, value)
    BY DEF PlainChanges, With
  <1>2. QED
    BY <1>1, ElsewhereKeepsSound DEF Fields

\* and those of dependencies do.
LEMMA DependencyKeepsSound ==
  ASSUME NEW r, Sound(r), NEW q \in DependencyChanges(r) PROVE Sound(q)
  <1>1. \E field \in {"deps", "pins"} : \E value : q = With(r, field, value)
    BY DEF DependencyChanges, With
  <1>2. QED
    BY <1>1, ElsewhereKeepsSound DEF Fields

\* The environment may change if what it sets is known.
LEMMA EnvKeepsSound ==
  ASSUME NEW r, Sound(r), NEW env,
         \A p \in env : p.assigns \subseteq Variables \union {"SENTRY_DSN="}
  PROVE  Sound(With(r, "env", env))
  <1> DEFINE q == With(r, "env", env)
  <1>1. /\ DOMAIN q = DOMAIN r /\ q.env = env /\ q.files = r.files /\ q.found = r.found
        /\ q.strays = r.strays /\ q.added = r.added /\ q.runs = r.runs
    BY WithFields DEF Sound, Recorded, Fields
  <1> HIDE DEF q
  <1>2. Recorded(q) /\ Counted(q) /\ KnownProjects(q) /\ PlainScripts(q)
    BY <1>1 DEF Sound, Recorded, Counted, KnownProjects, PlainScripts
  <1>3. KnownVariables(q)
    BY <1>1 DEF KnownVariables
  <1>4. Sound(q)
    BY <1>2, <1>3 DEF Sound
  <1>5. QED
    BY <1>4 DEF q

\* Files may come and go if none makes a project.
LEMMA FilesKeepSound ==
  ASSUME NEW r, Sound(r), NEW files,
         \A f \in files : f \in r.files \/ (f = <<f[1], f[2]>> /\ f[2] \notin Projects)
  PROVE  Sound(With(r, "files", files))
  <1> DEFINE q == With(r, "files", files)
  <1>1. /\ DOMAIN q = DOMAIN r /\ q.files = files /\ q.env = r.env /\ q.found = r.found
        /\ q.strays = r.strays /\ q.added = r.added /\ q.runs = r.runs
    BY WithFields DEF Sound, Recorded, Fields
  <1> HIDE DEF q
  <1>2. Recorded(q) /\ Counted(q) /\ KnownVariables(q) /\ PlainScripts(q)
    BY <1>1 DEF Sound, Recorded, Counted, KnownVariables, PlainScripts
  <1>3. KnownProjects(q)
    BY <1>1 DEF Sound, KnownProjects
  <1>4. Sound(q)
    BY <1>2, <1>3 DEF Sound
  <1>5. QED
    BY <1>4 DEF q

\* A task may run another script that is not a manifest.
LEMMA RunsKeepSound ==
  ASSUME NEW r, Sound(r), NEW runs, DOMAIN runs = DOMAIN r.runs,
         \A t \in DOMAIN runs : runs[t] = r.runs[t] \/ runs[t] \intersect Projects = {}
  PROVE  Sound(With(r, "runs", runs))
  <1> DEFINE q == With(r, "runs", runs)
  <1>1. /\ DOMAIN q = DOMAIN r /\ q.runs = runs /\ q.env = r.env /\ q.found = r.found
        /\ q.strays = r.strays /\ q.added = r.added /\ q.files = r.files
    BY WithFields DEF Sound, Recorded, Fields
  <1> HIDE DEF q
  <1>2. Recorded(q) /\ Counted(q) /\ KnownVariables(q) /\ KnownProjects(q)
    BY <1>1 DEF Sound, Recorded, Counted, KnownVariables, KnownProjects
  <1>3. PlainScripts(q)
    BY <1>1 DEF Sound, PlainScripts
  <1>4. Sound(q)
    BY <1>2, <1>3 DEF Sound
  <1>5. QED
    BY <1>4 DEF q

\* Passages may change if they stay counted, and with them the environment.
LEMMA CountedKeepsSound ==
  ASSUME NEW r, Sound(r), NEW q, DOMAIN q = DOMAIN r, q.files = r.files, q.runs = r.runs,
         q.env \subseteq r.env, DOMAIN q.found = anchors, Counted(q)
  PROVE  Sound(q)
  BY DEF Sound, Recorded, KnownProjects, PlainScripts, KnownVariables

\* A passage that is reworded or removed is found less often; one that is written
\* beside another is noted.
LEMMA PassageKeepsSound ==
  ASSUME NEW r, Sound(r), NEW q \in PassageChanges(r) PROVE Sound(q)
  <1>1. PICK a \in anchors :
          \/ r.found[a] > 0 /\ q = Rewords(r, a)
          \/ r.found[a] > 0 /\ q = Removes(r, a)
          \/ q = Copies(r, a) \/ q = Paraphrases(r, a)
    BY DEF PassageChanges
  <1>2. /\ Fields \subseteq DOMAIN r /\ DOMAIN r.found = anchors
        /\ \A b \in anchors : b.count \in Nat
    BY AnchorsGood DEF Sound, Recorded, GoodAnchor
  <1>3. r.found[a] \in Nat /\ (a \notin r.added => r.found[a] <= a.count)
    BY DEF Sound, Counted
  <1>4. /\ DOMAIN q = DOMAIN r /\ q.files = r.files /\ q.runs = r.runs /\ q.env = r.env
        /\ DOMAIN q.found = anchors
        /\ \A b \in anchors : b # a => /\ q.found[b] = r.found[b]
                                      /\ (b \in q.strays <=> b \in r.strays)
                                      /\ (b \in q.added <=> b \in r.added)
        /\ q.found[a] \in Nat
        /\ a \notin q.added => /\ q.found[a] <= a.count
                              /\ (a \in q.strays => q.found[a] < a.count)
    <2>1. CASE r.found[a] > 0 /\ q = Rewords(r, a)
      BY <1>2, <1>3, <2>1 DEF Fields, Rewords
    <2>2. CASE r.found[a] > 0 /\ q = Removes(r, a)
      BY <1>2, <1>3, <2>2 DEF Fields, Removes
    <2>3. CASE q = Copies(r, a)
      BY <1>2, <1>3, <2>3 DEF Fields, Copies
    <2>4. CASE q = Paraphrases(r, a)
      BY <1>2, <1>3, <2>4 DEF Fields, Paraphrases
    <2>5. QED
      BY <1>1, <2>1, <2>2, <2>3, <2>4
  <1>5. Counted(q)
    BY <1>4 DEF Sound, Counted
  <1>6. QED
    BY <1>4, <1>5, CountedKeepsSound

\* So is every other change: to the environment,
LEMMA EnvChangesKeepSound ==
  ASSUME NEW r, Sound(r), NEW q \in EnvChanges(r) PROVE Sound(q)
  <1> DEFINE Known(p) == p.assigns \subseteq Variables \union {"SENTRY_DSN="}
  <1>0. \A p \in r.env : Known(p)
    BY DEF Sound, KnownVariables
  <1>1. ASSUME NEW new, NEW p, Known(new), NEW gone, q = With(r, "env", (r.env \ gone) \union {new})
        PROVE  Sound(q)
    BY <1>0, <1>1, EnvKeepsSound
  <1>2. CASE q = [r EXCEPT !.env = @ \union {[markers |-> {}, assigns |-> {"SENTRY_DSN="}]}]
    <2> DEFINE new == [markers |-> {}, assigns |-> {"SENTRY_DSN="}]
    <2>1. q = With(r, "env", (r.env \ {}) \union {new})
      BY <1>2 DEF With
    <2>2. QED
      BY <1>1, <2>1
  <1>3. CASE q = [r EXCEPT !.env = (@ \ {[markers |-> {v}, assigns |-> {v}] : v \in Secret})
                                   \union {[markers |-> Secret, assigns |-> Secret]}]
    <2> DEFINE both == [markers |-> Secret, assigns |-> Secret]
               gone == {[markers |-> {v}, assigns |-> {v}] : v \in Secret}
    <2>1. q = With(r, "env", (r.env \ gone) \union {both})
      BY <1>3 DEF With
    <2>2. Known(both)
      BY DEF Secret, Variables
    <2> HIDE DEF both, gone
    <2>3. QED
      BY <1>1, <2>1, <2>2
  <1>4. CASE \E p \in r.env : q = CommentsOut(r, p)
    <2>1. PICK p \in r.env : q = CommentsOut(r, p)
      BY <1>4
    <2> DEFINE new == [p EXCEPT !.assigns = {}]
    <2>2. q = With(r, "env", (r.env \ {p}) \union {new})
      BY <2>1 DEF With, CommentsOut
    <2>3. Known(new)
      BY <1>0
    <2> HIDE DEF new
    <2>4. QED
      BY <1>1, <2>2, <2>3
  <1>5. CASE \E p \in r.env : q = DropsParagraph(r, p)
    <2>1. PICK p \in r.env : q = DropsParagraph(r, p)
      BY <1>5
    <2>2. Fields \subseteq DOMAIN r
      BY DEF Sound, Recorded
    <2>3. /\ DOMAIN q = DOMAIN r /\ q.files = r.files /\ q.runs = r.runs /\ q.env \subseteq r.env
          /\ q.added = r.added
          /\ q.found = [a \in anchors |-> IF Inside(a, p.markers) THEN 0 ELSE r.found[a]]
          /\ q.strays = {a \in r.strays : ~Inside(a, p.markers)}
      BY <2>1, <2>2 DEF DropsParagraph, Fields
    <2>4. Counted(q)
      <3> SUFFICES ASSUME NEW a \in anchors
                   PROVE  /\ q.found[a] \in Nat
                          /\ a \notin q.added => /\ q.found[a] <= a.count
                                                /\ (a \in q.strays => q.found[a] < a.count)
        BY DEF Counted
      <3>1. a.count \in Nat
        BY AnchorsGood DEF GoodAnchor
      <3>2. CASE Inside(a, p.markers)
        BY <2>3, <3>1, <3>2
      <3>3. CASE ~Inside(a, p.markers)
        BY <2>3, <3>3 DEF Sound, Counted
      <3>4. QED
        BY <3>2, <3>3
    <2>5. QED
      BY <2>3, <2>4, CountedKeepsSound
  <1>6. QED
    BY <1>2, <1>3, <1>4, <1>5 DEF EnvChanges

\* to the files
LEMMA FileChangesKeepSound ==
  ASSUME NEW r, Sound(r), NEW q \in FileChanges(r) PROVE Sound(q)
  <1> DEFINE NewFiles == Under(WORKFLOWS, {"nightly.yml"})
                         \union Under(".moon", {"tasks/rust.yml", "hooks.yml"})
                       \union Under(WEB, {"src/new.ts"}) \union Under(MIGRATIONS, {"0002.sql"})
  <1>1. CASE \E f \in NewFiles : q = [r EXCEPT !.files = @ \union {f}]
    <2>1. PICK f \in NewFiles : q = [r EXCEPT !.files = @ \union {f}]
      BY <1>1
    <2>2. f = <<f[1], f[2]>> /\ f[2] \notin Projects
      BY DEF Under, Projects
    <2>3. q = With(r, "files", r.files \union {f})
      BY <2>1 DEF With
    <2> HIDE DEF NewFiles
    <2>4. QED
      BY <2>2, <2>3, FilesKeepSound
  <1>2. CASE \E f \in r.files : q = [r EXCEPT !.files = @ \ {f}]
    <2>1. PICK f \in r.files : q = [r EXCEPT !.files = @ \ {f}]
      BY <1>2
    <2>2. q = With(r, "files", r.files \ {f})
      BY <2>1 DEF With
    <2>3. QED
      BY <2>2, FilesKeepSound
  <1>3. CASE \E f : q = [r EXCEPT !.unreadable = @ \union {f}]
    <2>1. \E value : q = With(r, "unreadable", value)
      BY <1>3 DEF With
    <2>2. QED
      BY <2>1, ElsewhereKeepsSound DEF Fields
  <1>4. QED
    BY <1>1, <1>2, <1>3 DEF FileChanges

\* and to the scripts.
LEMMA ScriptChangesKeepSound ==
  ASSUME NEW r, Sound(r), NEW q \in ScriptChanges(r) PROVE Sound(q)
  <1> DEFINE OtherScripts == {"rls-verify.mjs", "release.mjs", "lint.mjs"} \union Nested
  <1>1. ASSUME NEW p, Sound(p), NEW script \in OtherScripts
        PROVE  Sound(With(p, "runs", [p.runs EXCEPT !["lint"] = {script}]))
    <2> DEFINE runs == [p.runs EXCEPT !["lint"] = {script}]
    <2>1. DOMAIN runs = DOMAIN p.runs
      OBVIOUS
    <2>2. \A t \in DOMAIN runs : runs[t] = p.runs[t] \/ runs[t] \intersect Projects = {}
      BY DEF Projects, Nested
    <2> HIDE DEF runs
    <2>3. Sound(With(p, "runs", runs))
      BY <1>1, <2>1, <2>2, RunsKeepSound
    <2>4. QED
      BY <2>3 DEF runs
  <1>2. CASE \E script \in OtherScripts :
               q = [r EXCEPT !.runs["lint"] = {script}]
    <2>1. PICK script \in OtherScripts :
            q = [r EXCEPT !.runs["lint"] = {script}]
      BY <1>2
    <2>2. q = With(r, "runs", [r.runs EXCEPT !["lint"] = {script}])
      BY <2>1 DEF With
    <2>3. QED
      BY <1>1, <2>2
  <1>3. CASE q = [r EXCEPT !.files = @ \union Under("scripts", {"lint.mjs"}),
                       !.runs["lint"] = {"lint.mjs"}]
    <2> DEFINE files == r.files \union Under("scripts", {"lint.mjs"})
               p == With(r, "files", files)
    <2>1. \A f \in files : f \in r.files \/ (f = <<f[1], f[2]>> /\ f[2] \notin Projects)
      BY DEF Under, Projects
    <2> HIDE DEF files
    <2>3. Sound(p)
      BY <2>1, FilesKeepSound
    <2>4. q = With(p, "runs", [p.runs EXCEPT !["lint"] = {"lint.mjs"}])
      <3>1. p.runs = r.runs
        BY WithFields DEF Sound, Recorded, Fields
      <3>2. q = [With(r, "files", files) EXCEPT !.runs = [r.runs EXCEPT !["lint"] = {"lint.mjs"}]]
        BY <1>3 DEF With, files
      <3>3. QED
        BY <3>1, <3>2 DEF With
    <2>5. QED
      BY <1>1, <2>3, <2>4
  <1>4. QED
    BY <1>2, <1>3 DEF ScriptChanges

\* Every change keeps the reference sound.
LEMMA ChangesKeepSound ==
  ASSUME NEW r, Sound(r), NEW q \in Changes(r) PROVE Sound(q)
  BY PlainKeepsSound, EnvChangesKeepSound, FileChangesKeepSound, PassageKeepsSound,
     ScriptChangesKeepSound, DependencyKeepsSound DEF Changes

-----------------------------------------------------------------------------
(* However often the reference is edited, what a build writes stands alone.*)

\* The inductive invariant: the reference is sound, there is no template before
\* the build, and what was built stands alone.
BuildInv ==
  Sound(reference) /\ (built = "no" => template = NoTemplate) /\ ProjectsStandAlone

\* It holds of today,
LEMMA BuildInvInit == BuildInit => BuildInv
  BY TodayIsSound DEF BuildInit, BuildInv, ProjectsStandAlone

\* and every step keeps it.
LEMMA BuildInvNext == BuildInv /\ [BuildNext]_buildVars => BuildInv'
  <1> SUFFICES ASSUME BuildInv, [BuildNext]_buildVars PROVE BuildInv'
    OBVIOUS
  <1>1. CASE Build
    <2>1. reference' = reference /\ built' # "no"
      BY <1>1 DEF Build
    <2>2. Sound(reference')
      BY <2>1 DEF BuildInv
    <2>3. CASE template' = template
      BY <2>1, <2>2, <2>3 DEF BuildInv, ProjectsStandAlone
    <2>4. CASE Accepts(reference) /\ template' = generateTemplate(reference)
      <3>1. NothingOfTheReference(template', reference')
        BY <2>1, <2>4, BuiltWithoutReference DEF BuildInv
      <3>2. ASSUME NEW parts \in CHOICES PROVE StandsAlone(template', reference', parts)
        BY <2>1, <2>4, BuiltStandsAlone DEF BuildInv
      <3>3. QED
        BY <2>1, <2>2, <3>1, <3>2 DEF BuildInv, ProjectsStandAlone
    <2>5. QED
      BY <1>1, <2>3, <2>4 DEF Build
  <1>2. CASE FormatFails \/ UNCHANGED buildVars
    BY <1>2 DEF BuildInv, ProjectsStandAlone, FormatFails, buildVars
  <1>3. CASE Edit
    <2>1. Sound(reference')
      BY <1>3, ChangesKeepSound DEF BuildInv, Edit
    <2>2. template' = template /\ template = NoTemplate
      BY <1>3 DEF BuildInv, Edit
    <2>3. QED
      BY <2>1, <2>2 DEF BuildInv, ProjectsStandAlone
  <1>4. QED
    BY <1>1, <1>2, <1>3 DEF BuildNext

\* However many edits of these kinds the reference had, the template a build
\* writes makes a project of every choice that stands alone, as far as the
\* reference has what the build does not ask for, and with none of this
\* repository's own passages but those people wrote beside the ones it edits
\* (main in packages/create-app/src/generate).
THEOREM ProjectsStandAloneAlways == BuildSpec => []ProjectsStandAlone
  <1>1. BuildInv => ProjectsStandAlone
    BY DEF BuildInv
  <1>2. QED
    BY <1>1, BuildInvInit, BuildInvNext, PTL DEF BuildSpec
=============================================================================
