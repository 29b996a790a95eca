------------------------------- MODULE Merge --------------------------------
(***************************************************************************)
(* merger.apply of merge.go: what it does at one path of the values of a    *)
(* layer and what it does for one edit, with the provenance it records.     *)
(* MergeLayers goes over the paths and the edits.                           *)
(***************************************************************************)
EXTENDS Trees

CONSTANTS Unions,     \* the OneOf fields of the schema: their paths, and the variants of
                      \* other OneOf fields that they are fields of
          Disc        \* the key of their discriminators

\* A merger is its values, its origins - per path the layers that wrote it and how -
\* and whether apply has failed.

NoMerger == [values |-> NoTree, origins |-> [p \in {} |-> <<>>], failed |-> FALSE]

\* An origin: the number of the layer, the operation, and the location.
Nowhere == <<"nowhere">>

\* The location of a path is that of the nearest path above it that has one.
Nearest(locations, p) ==
  LET above == locations \cap {SubSeq(p, 1, n) : n \in 0 .. Len(p)}
  IN  IF above = {} THEN Nowhere ELSE CHOOSE q \in above : \A r \in above : Len(r) <= Len(q)

\* new are the origins to append, by path.
Record(origins, new) ==
  [p \in DOMAIN origins \cup DOMAIN new |->
     LET old == IF p \in DOMAIN origins THEN origins[p] ELSE <<>>
     IN  IF p \in DOMAIN new THEN Append(old, new[p]) ELSE old]

\* merger.add, at each of a set of paths.
Add(origins, ps, i, op, locations) ==
  Record(origins, [p \in ps |-> <<i, op, Nearest(locations, p)>>])

\* Every path ever recorded below p.
Invalidate(origins, p, i, op) ==
  Record(origins, [q \in Below(DOMAIN origins, p) |-> <<i, op, Nowhere>>])

\* Mutant: a OneOf within a variant is one whatever variant there is.
IsUnionAnyway(values, p) == \E union \in Unions : union.path = p

\* A field is a OneOf in the variants it is a field of; mergeMap finds it, through the
\* object, the definition or the variant that each discriminator below names so far.
IsUnion(values, p) ==
  \E union \in Unions :
    /\ union.path = p
    /\ \A q \in DOMAIN union.variants : At(values, Append(q, Disc)) = union.variants[q]

\* Mutant: a discriminator that was absent does not count.
SwitchesPresent(values, t, p) ==
  LET d == Append(p, Disc)
  IN  IsUnion(values, p) /\ d \in DOMAIN t /\ d \in DOMAIN values /\ values[d] # t[d]

\* A OneOf whose discriminator is given, and was absent or different: another variant.
Switches(values, t, p) ==
  LET d == Append(p, Disc)
  IN  IsUnion(values, p) /\ d \in DOMAIN t /\ At(values, d) # t[d]

\* Mutants: what a replaced object held stays, or keeps its provenance.
OverwriteOnTop(m, t, p, i, locations) ==
  [m EXCEPT
     !.values = Over(Subtree(t, p), @),
     !.origins = Add(Invalidate(@, p, i, "replaced"), From(DOMAIN t, p), i, "set", locations)]

OverwriteQuietly(m, t, p, i, locations) ==
  [m EXCEPT
     !.values = Over(Subtree(t, p), Without(@, p)),
     !.origins = Add(@, From(DOMAIN t, p), i, "set", locations)]

Overwrite(m, t, p, i, locations) ==
  LET origins == IF p \in DOMAIN m.values THEN Invalidate(m.origins, p, i, "replaced")
                 ELSE m.origins
  IN  [m EXCEPT
         !.values = Over(Subtree(t, p), Without(@, p)),
         !.origins = Add(origins, From(DOMAIN t, p), i, "set", locations)]

\* mergeMap goes on below an object that both have, and writes over anything else.
GoesOn(values, t, p) == IsMap(values, p) /\ IsMap(t, p) /\ ~Switches(values, t, p)

MergeAt(m, t, p, i, locations) ==
  IF GoesOn(m.values, t, p) THEN [m EXCEPT !.origins = Add(@, {p}, i, "set", locations)]
  ELSE Overwrite(m, t, p, i, locations)

\* One edit.  Replace makes the objects missing on its way, Delete finds nothing then.
Edit(m, e, i, locations) ==
  LET made == IF e.kind = "replace" THEN Above(e.path) \ DOMAIN m.values ELSE {}
      origins == Invalidate(m.origins, e.path, i, e.kind)
      written == IF e.kind = "replace" THEN DOMAIN e.value ELSE {e.path}
  IN  IF m.failed \/ \E q \in Above(e.path) : IsScalar(m.values, q)
        THEN [m EXCEPT !.failed = TRUE]
        ELSE [m EXCEPT
                !.values = Over(Over(e.value, Maps(made)), Without(@, e.path)),
                !.origins = Add(origins, written, i, e.kind, locations)]
=============================================================================
