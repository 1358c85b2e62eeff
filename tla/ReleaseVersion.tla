---------------------------- MODULE ReleaseVersion ----------------------------
(***************************************************************************)
(* What releasing one version promises, whoever runs it and however often  *)
(* it stops (docs/releasing.md, "What a release is"): a package is         *)
(* published once and after what it depends on, and a tag is pushed once,  *)
(* on the one commit whose packages are exactly what the registry holds.   *)
(***************************************************************************)
CONSTANTS Packages,
          Commits,
          Bytes,      \* commit, package: the tarball packed there
          Needs,      \* commit, package: the packages that one depends on
          Nothing,    \* of the registry: holds no such version
          Untagged,   \* of a tag: not on origin
          Repository  \* the tag v<version>, beside one tag per package

VARIABLES registry, tags, announced
vars == <<registry, tags, announced>>

TagNames == Packages \union {Repository}

Init ==
  /\ registry = [p \in Packages |-> Nothing]
  /\ tags = [t \in TagNames |-> Untagged]
  /\ announced = FALSE

Upload(p, c) ==
  /\ registry[p] = Nothing
  /\ \A q \in Needs[c][p] : registry[q] # Nothing
  /\ \A t \in TagNames : tags[t] = Untagged
  /\ registry' = [registry EXCEPT ![p] = Bytes[c][p]]
  /\ UNCHANGED <<tags, announced>>

Tag(t, c) ==
  /\ tags[t] = Untagged
  /\ \A p \in Packages : registry[p] = Bytes[c][p]
  /\ \A other \in TagNames : tags[other] \in {Untagged, c}
  /\ t = Repository => \A p \in Packages : tags[p] = c
  /\ tags' = [tags EXCEPT ![t] = c]
  /\ UNCHANGED <<registry, announced>>

Announce ==
  /\ tags[Repository] # Untagged
  /\ announced' = TRUE
  /\ UNCHANGED <<registry, tags>>

Next ==
  \/ \E c \in Commits : \/ \E p \in Packages : Upload(p, c)
                        \/ \E t \in TagNames : Tag(t, c)
  \/ Announce

Spec == Init /\ [][Next]_vars

\* The released commit is the one the registry was published from
\* (docs/releasing.md, "from one commit").
TaggedIsPublished ==
  \A t \in TagNames : tags[t] # Untagged =>
    \A p \in Packages : registry[p] = Bytes[tags[t]][p]
==============================================================================
