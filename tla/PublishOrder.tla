----------------------------- MODULE PublishOrder -----------------------------
(***************************************************************************)
(* The order in which a release uploads its packages: publishOrder of      *)
(* scripts/lib/release-tarballs.mjs, a depth-first search that refuses a   *)
(* dependency cycle.                                                       *)
(***************************************************************************)
EXTENDS Naturals, Sequences, SequencesExt

CONSTANT Names  \* every package, in the order of localeCompare

\* What the search has: the order so far, the packages it is inside of, and
\* whether it has thrown.
Start == [ordered |-> <<>>, visiting |-> {}, thrown |-> FALSE]

Settled(needs, name, s) == name \notin DOMAIN needs \/ name \in ToSet(s.ordered)

Throw(s) == [s EXCEPT !.thrown = TRUE]

Enter(s, name) == [s EXCEPT !.visiting = @ \union {name}]

Leave(s, name) == [s EXCEPT !.visiting = @ \ {name}, !.ordered = Append(@, name)]

Sorted(names) == SelectSeq(Names, LAMBDA name : name \in names)

\* needs: of each package of the release, the names its manifest depends on.
RECURSIVE Visit(_, _, _)
Visit(needs, name, s) ==
  IF s.thrown \/ Settled(needs, name, s) THEN s
  ELSE IF name \in s.visiting THEN Throw(s)
  ELSE LET inside == FoldLeft(LAMBDA t, dependency : Visit(needs, dependency, t),
                              Enter(s, name), Sorted(needs[name]))
       IN  IF inside.thrown THEN inside ELSE Leave(inside, name)

Search(needs) ==
  FoldLeft(LAMBDA s, name : Visit(needs, name, s), Start, Sorted(DOMAIN needs))
===============================================================================
