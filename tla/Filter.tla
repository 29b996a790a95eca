------------------------------- MODULE Filter -------------------------------
(***************************************************************************)
(* AllowPaths of filter.go: the layer of a source is reduced to what it     *)
(* says of the allowed paths, a set, before it is merged.                   *)
(***************************************************************************)
EXTENDS Merge

CONSTANT Lists   \* paths whose schema field is a list

\* The pathSelection: a path it selects, and one with selected paths below.
Selected(allowed, p) == \E q \in allowed : IsPrefix(q, p)
Leads(allowed, p) == ~Selected(allowed, p) /\ \E q \in allowed : IsStrictPrefix(p, q)

\* Mutant: any selection will do.
NeverRejected(allowed) == FALSE

\* validate: a discriminator that is selected without its OneOf, in any variant of what
\* holds it, or a part of a list.
Rejected(allowed) ==
  \/ \E union \in Unions :
       LET d == Append(union.path, Disc)
       IN  ~Selected(allowed, union.path) /\ (Selected(allowed, d) \/ Leads(allowed, d))
  \/ \E p \in Lists : Leads(allowed, p)

\* project: what is selected, and the maps above it.
Project(allowed, t) ==
  LET kept == {p \in DOMAIN t : Selected(allowed, p)}
  IN  [p \in kept \cup UNION {Above(q) : q \in kept} |-> t[p]]

\* The edit a replacement or deletion of what is above q makes of q.
EditAt(e, q) ==
  IF q \in DOMAIN e.value THEN ReplaceEdit(q, Subtree(e.value, q)) ELSE DeleteEdit(q)

\* Mutant: a selected child that the replacement lacks is left alone.
ProjectEditKeeps(allowed, e) ==
  LET given == {q \in allowed : IsStrictPrefix(e.path, q) /\ q \in DOMAIN e.value}
  IN  IF Selected(allowed, e.path) THEN {e} ELSE {EditAt(e, q) : q \in given}

\* projectEdit: an edit above selected paths becomes one edit of each of them; none of
\* them is above another one, and their order makes no difference.
ProjectEdit(allowed, e) ==
  LET topmost == {q \in allowed : /\ IsStrictPrefix(e.path, q)
                                  /\ \A p \in Above(q) : ~Selected(allowed, p)}
  IN  IF Selected(allowed, e.path) THEN {e} ELSE {EditAt(e, q) : q \in topmost}

\* Mutant: only the locations of what is selected are kept.
KnownWithin(allowed, locations) == {q \in locations : Selected(allowed, q)}

\* The locations above what is selected are kept too.
Known(allowed, locations) == {q \in locations : Selected(allowed, q) \/ Leads(allowed, q)}

\* The edits of a layer in their order: <<n, e>> for each that takes the nth place.
InOrder(edits) == {<<n, edits[n]>> : n \in DOMAIN edits}

\* Read: the layer is made anew, of its projected values, edits and locations and nothing
\* else.
Filtered(allowed, layer) ==
  LayerOf(Project(allowed, layer.values),
          UNION {{<<n, e>> : e \in ProjectEdit(allowed, layer.edits[n])} :
                   n \in DOMAIN layer.edits},
          Known(allowed, layer.locations), FALSE)
=============================================================================
