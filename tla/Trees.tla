------------------------------- MODULE Trees --------------------------------
(***************************************************************************)
(* The trees that merge.go and filter.go work on, as functions from paths   *)
(* to what is there: "map", or a scalar.  A tree that has a path has its    *)
(* non-empty prefixes, as maps.  Lists are scalars here: they are replaced  *)
(* as a whole, and may not be selected in part.                             *)
(***************************************************************************)
EXTENDS Naturals, SequencesExt, FiniteSetsExt

NoTree == [p \in {} |-> "map"]
IsMap(t, p) == p \in DOMAIN t /\ t[p] = "map"
IsScalar(t, p) == p \in DOMAIN t /\ t[p] # "map"

Below(ps, p) == {q \in ps : IsStrictPrefix(p, q)}
From(ps, p) == {q \in ps : IsPrefix(p, q)}
Above(p) == {SubSeq(p, 1, n) : n \in 1 .. Len(p) - 1}
Children(t, p) == {q \in Below(DOMAIN t, p) : Len(q) = Len(p) + 1}

\* What upper has, and lower where it has nothing.
Over(upper, lower) ==
  [p \in DOMAIN upper \cup DOMAIN lower |-> IF p \in DOMAIN upper THEN upper[p] ELSE lower[p]]
Maps(ps) == [p \in ps |-> "map"]

Subtree(t, p) == [q \in From(DOMAIN t, p) |-> t[q]]
Without(t, p) == [q \in DOMAIN t \ From(DOMAIN t, p) |-> t[q]]
At(t, p) == IF p \in DOMAIN t THEN t[p] ELSE "nothing"

\* An edit replaces what is at its path by the tree it carries, whose paths begin
\* with that path, or deletes it.
ReplaceEdit(p, t) == [kind |-> "replace", path |-> p, value |-> t]
DeleteEdit(p) == [kind |-> "delete", path |-> p, value |-> NoTree]

\* locations: the paths the layer knows a location of, which stands for itself.
LayerOf(t, edits, locations, stale) ==
  [values |-> t, edits |-> edits, locations |-> locations, stale |-> stale]
=============================================================================
