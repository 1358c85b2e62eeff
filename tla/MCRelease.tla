------------------------------- MODULE MCRelease -------------------------------
\* Three packages, each depending on the one before, and three commits of main:
\* the second changes the last package, the third the first one too.
EXTENDS Release

CONSTANTS first, middle, last, outside, c1, c2, c3, old, new

MCHistory == <<c1, c2, c3>>
MCBytes == [c \in Commits |-> [p \in Packages |->
              <<p, IF (c = c3 /\ p = first) \/ (c # c1 /\ p = last) THEN new ELSE old>>]]
MCNeeds == [c \in Commits |-> [p \in Packages |->
              IF p = first THEN {} ELSE IF p = middle THEN {first} ELSE {first, middle}]]
MCOrder == [c \in Commits |-> <<first, middle, last>>]

PublishOrder == INSTANCE PublishOrder WITH Names <- <<first, last, middle, outside>>

\* The orders above are publishOrder's.
ASSUME OrdersArePublishOrders ==
  \A c \in Commits : MCOrder[c] = PublishOrder!Search(MCNeeds[c]).ordered

\* Every dependency relation of the three packages, on each other and on one
\* that is not of the release.
Relations == [Packages -> SUBSET (Packages \union {outside})]

RECURSIVE Reaches(_, _, _)
Reaches(needs, from, n) ==
  IF n = 0 THEN from
  ELSE Reaches(needs, from \union UNION {needs[q] \intersect Packages : q \in from}, n - 1)

Cyclic(needs) ==
  \E p \in Packages : p \in Reaches(needs, needs[p] \intersect Packages, Cardinality(Packages))

\* A release whose packages depend on each other in a circle is refused, and no
\* other: packages that share a dependency, or depend on one that is not of the
\* release, are no circle.
ASSUME RefusesExactlyCycles ==
  \A needs \in Relations : PublishOrder!Search(needs).thrown <=> Cyclic(needs)

\* Otherwise the order holds each package once, after all those it needs: a
\* consumer who installs between two uploads finds every dependency. This is
\* what ReleaseAssumption supposes of Order.
ASSUME DependenciesFirst ==
  \A needs \in Relations :
    LET order == PublishOrder!Search(needs).ordered
    IN  ~Cyclic(needs) =>
          /\ Len(order) = Cardinality(Packages)
          /\ \A p \in Packages : \E i \in DOMAIN order : order[i] = p
          /\ \A i \in DOMAIN order : needs[order[i]] \intersect Packages
                                       \subseteq {order[j] : j \in 1..(i - 1)}
==============================================================================
