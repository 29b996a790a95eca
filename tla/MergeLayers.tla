---------------------------- MODULE MergeLayers ----------------------------
(***************************************************************************)
(* load (xconf.go) applies the layers of its sources one after another.  A  *)
(* source may be wrapped in AllowPaths, which reduces its layer first.      *)
(*                                                                          *)
(* apply is taken step by step: mergeMap is a set of paths that it has      *)
(* still to come to, instead of a recursion; then come the edits.           *)
(***************************************************************************)
EXTENDS Filter

CONSTANTS Keys, Scalars,    \* what paths are made of, and what may be at one but a map
          Inputs,           \* the layers sources may return
          Selections,       \* the allowed paths sources may be wrapped with
          MaxLayers,        \* bound: sources
          FilteredIsLast    \* bound: a filtered source is the last, and one earlier

Paths == Seq(Keys) \ {<<>>}

\* A tree has every path above one that it has, as a map.
IsPart(t) == DOMAIN t \subseteq Paths /\ t \in [DOMAIN t -> Scalars \cup {"map"}]
IsTree(t) ==
  /\ IsPart(t)
  /\ \A p \in DOMAIN t : \A q \in Above(p) : IsMap(t, q)

\* What is grafted at a path: the value of a Replace is a tree but for what is above it.
IsBranch(t, q) ==
  /\ IsPart(t) /\ \A p \in DOMAIN t : IsPrefix(q, p)
  /\ \A p \in DOMAIN t : \A r \in Above(p) : IsPrefix(q, r) => IsMap(t, r)

IsEdit(e) ==
  /\ e.path \in Paths
  /\ \/ e = DeleteEdit(e.path)
     \/ /\ e = ReplaceEdit(e.path, e.value)
        /\ IsBranch(e.value, e.path) /\ e.path \in DOMAIN e.value

IsLayer(layer) ==
  /\ IsTree(layer.values)
  /\ layer.edits \in Seq(ToSet(layer.edits)) /\ \A e \in ToSet(layer.edits) : IsEdit(e)
  /\ layer.locations \subseteq Seq(Keys)
  /\ layer = LayerOf(layer.values, layer.edits, layer.locations, layer.stale)

\* A OneOf that is a field in variants of others is one in each of them that it is
\* below; the others are OneOf fields in the variants above them.
IsUnionField(union) ==
  /\ union.path \in Paths /\ DOMAIN union.variants \subseteq Above(union.path)
  /\ \A p \in DOMAIN union.variants :
       \E outer \in Unions :
         /\ outer.path = p
         /\ outer.variants =
              [q \in DOMAIN union.variants \cap Above(p) |-> union.variants[q]]

ASSUME MergeLayersAssumption ==
  /\ MaxLayers \in Nat /\ FilteredIsLast \in BOOLEAN
  /\ Disc \in Keys /\ {"map", "nothing"} \cap Scalars = {}
  /\ \A layer \in Inputs : IsLayer(layer)
  /\ \A allowed \in Selections : allowed \subseteq Seq(Keys)
  /\ \A union \in Unions : IsUnionField(union)

VARIABLES
  merger,    \* the merger of load
  layers,    \* the layers it has been given; their edits are a set, see InOrder
  last,      \* what the last source was: its layer before AllowPaths, and its selection
  degraded,  \* Degraded of the snapshot: the sources whose layer is stale
  walk,      \* apply: paths of the last layer that mergeMap has still to come to
  edits,     \* apply: edits that are still to be made
  base       \* history: the merger before the last layer

vars == <<merger, layers, last, degraded, walk, edits, base>>

Everything == {<<>>}   \* AllowPaths with the empty path, or no AllowPaths at all
NoSource == [layer |-> LayerOf(NoTree, <<>>, {}, FALSE), allowed |-> Everything]

Init ==
  /\ merger = NoMerger /\ layers = <<>> /\ last = NoSource /\ degraded = {}
  /\ walk = {} /\ edits = {} /\ base = NoMerger

Layer == Last(layers)
Applied == walk = {} /\ edits = {}

ReadThrough(allowed, layer) ==
  IF allowed = Everything THEN [layer EXCEPT !.edits = InOrder(@)]
  ELSE Filtered(allowed, layer)

ApplyNext(layer, allowed) ==
  LET read == ReadThrough(allowed, layer)
  IN  /\ Applied /\ ~merger.failed /\ ~Rejected(allowed)
      /\ layers' = Append(layers, read) /\ last' = [layer |-> layer, allowed |-> allowed]
      /\ degraded' = IF read.stale THEN degraded \cup {Len(layers) + 1} ELSE degraded
      /\ walk' = Children(read.values, <<>>) /\ edits' = read.edits
      /\ base' = merger /\ UNCHANGED merger

\* mergeMap takes the keys in their order; here it is any order.
MergeKey(p) ==
  /\ merger' = MergeAt(merger, Layer.values, p, Len(layers), Layer.locations)
  /\ walk' = (walk \ {p}) \cup IF GoesOn(merger.values, Layer.values, p)
                               THEN Children(Layer.values, p) ELSE {}
  /\ UNCHANGED <<layers, last, degraded, edits, base>>

\* An edit that fails is the last one.
MakeEdit(place, e) ==
  /\ walk = {} /\ \A other \in edits : place <= other[1]
  /\ merger' = Edit(merger, e, Len(layers), Layer.locations)
  /\ edits' = IF merger'.failed THEN {} ELSE edits \ {<<place, e>>}
  /\ UNCHANGED <<layers, last, degraded, walk, base>>

\* The bounds.
Filters ==
  IF FilteredIsLast /\ Len(layers) + 1 >= MaxLayers THEN {Everything}
  ELSE Selections \cup {Everything}

Next ==
  \/ /\ Len(layers) < MaxLayers /\ (FilteredIsLast => last.allowed = Everything)
     /\ \E layer \in Inputs, allowed \in Filters : ApplyNext(layer, allowed)
  \/ \E p \in walk : MergeKey(p)
  \/ \E edit \in edits : MakeEdit(edit[1], edit[2])

Spec == Init /\ [][Next]_vars

-----------------------------------------------------------------------------
(* Merging: merger is compared with base, what it was before the layer.     *)

\* What merging a tree comes to, path by path, whatever the order of the walk: what the
\* layer says of a path, or else what was there before, unless the layer puts something
\* that is no object, or another variant, above it.
NewVariant(values, t, q) ==
  /\ At(t, Append(q, Disc)) \notin {"nothing", At(values, Append(q, Disc))}
  /\ \E union \in Unions :
       /\ union.path = q
       /\ \A r \in DOMAIN union.variants : union.variants[r] = At(values, Append(r, Disc))

Pathwise(values, t) ==
  LET Kept(p) ==
        p \notin DOMAIN t /\ \A q \in Above(p) : ~IsScalar(t, q) /\ ~NewVariant(values, t, q)
  IN  Over(t, [p \in {p \in DOMAIN values : Kept(p)} |-> values[p]])

MergeIsPathwise ==
  layers # <<>> /\ walk = {} /\ edits = Layer.edits =>
    merger.values = Pathwise(base.values, Layer.values)

\* No value appears, changes or disappears without an origin of the layer that did it,
\* as the last one of its path.  Objects that a Replace makes on its way are the one
\* exception: they have no origin, neither when they appear nor when they disappear.
ChangesAreRecorded ==
  ~merger.failed =>
    \A p \in DOMAIN base.values \cup DOMAIN merger.values :
      \/ At(base.values, p) = At(merger.values, p)
      \/ p \in DOMAIN merger.origins /\ Last(merger.origins[p])[1] = Len(layers)
      \/ IsMap(merger.values, p) /\ \E edit \in Layer.edits : p \in Above(edit[2].path)
      \/ IsMap(base.values, p) /\ p \notin DOMAIN base.origins

\* "Explain(path) returns one field's provenance" (README.md:235): the last origin of a
\* scalar names a layer that gives it this value, and the last origin of a path that is
\* gone says that it was removed or replaced.
Supplies(layer, op, p, v) ==
  \/ op = "set" /\ At(layer.values, p) = v
  \/ op = "replace" /\ \E edit \in layer.edits : At(edit[2].value, p) = v

OriginsExplainValues ==
  ~merger.failed =>
    /\ \A p \in DOMAIN merger.values :
         IsScalar(merger.values, p) =>
           /\ p \in DOMAIN merger.origins
           /\ LET origin == Last(merger.origins[p])
              IN  Supplies(layers[origin[1]], origin[2], p, merger.values[p])
    /\ \A p \in DOMAIN merger.origins \ DOMAIN merger.values :
         Last(merger.origins[p])[2] # "set"

-----------------------------------------------------------------------------
(* AllowPaths: the same for a source that is filtered.                      *)

\* The paths to which a layer gives a value, if only for a moment.
GivenPaths(layer) ==
  DOMAIN layer.values \cup UNION {DOMAIN layer.edits[n].value : n \in DOMAIN layer.edits}

\* "excluded siblings remain intact" (docs/sources.md:42): what is neither selected nor
\* above something selected is as if the source did not exist, and what is above
\* becomes an object only to hold a selected path that the layer gives a value.
RestUntouched ==
  last.allowed # Everything /\ ~merger.failed =>
    \A p \in DOMAIN base.values \cup DOMAIN merger.values :
      \/ Selected(last.allowed, p) \/ At(merger.values, p) = At(base.values, p)
      \/ /\ Leads(last.allowed, p) /\ IsMap(merger.values, p)
         /\ \E q \in Below(GivenPaths(last.layer), p) : Selected(last.allowed, q)

\* What the layer comes to without the filter, after n of its edits: at first what
\* MergeIsPathwise says, and the origins of the values that are left.
Unfiltered[n \in 0 .. Len(last.layer.edits)] ==
  LET i == Len(layers)
      t == last.layer.values
      known == last.layer.locations
  IN  IF n = 0
        THEN [base EXCEPT !.values = Pathwise(@, t),
                          !.origins = Add(@, DOMAIN t, i, "set", known)]
        ELSE Edit(Unfiltered[n - 1], last.layer.edits[n], i, known)

WithoutFilter == Unfiltered[Len(last.layer.edits)]

\* Two mergers have the same at a path and, for a scalar, say the same of its origin.
Agree(m, whole, p) ==
  /\ At(m.values, p) = At(whole.values, p)
  /\ IsScalar(m.values, p) =>
       p \in DOMAIN whole.origins /\ Last(m.origins[p]) = Last(whole.origins[p])

\* What is not selected and comes above p takes p away: a scalar, or another variant.
TakenAway(p) ==
  \E q \in Above(p) :
    /\ ~Selected(last.allowed, q)
    /\ IsScalar(last.layer.values, q) \/ Switches(base.values, last.layer.values, q)

\* What is selected is as if the source were not filtered - and so are the last origins
\* of its scalars, with their locations -, unless the layer puts a scalar or another
\* variant above it, which "contributes nothing" (docs/sources.md:37).
SelectedIsWhole ==
  last.allowed # Everything /\ Applied /\ ~merger.failed =>
    LET whole == WithoutFilter
    IN  ~whole.failed =>
          \A p \in DOMAIN merger.values \cup DOMAIN whole.values :
            Selected(last.allowed, p) => Agree(merger, whole, p) \/ TakenAway(p)

\* "Layer.Stale set to the error ... snapshot.Degraded() maps each stale source name to
\* its raw error" (docs/runtime.md:33): a source that is stale says so, filtered or not.
StaleIsForwarded == last.layer.stale => Len(layers) \in degraded
-----------------------------------------------------------------------------
(* The inductive invariant behind these.                                    *)

Origin ==
  Nat \X {"set", "replaced", "replace", "delete"} \X (Seq(Keys) \cup {Nowhere})

IsMerger(m) ==
  /\ m = [values |-> m.values, origins |-> m.origins, failed |-> m.failed]
  /\ IsTree(m.values) /\ m.failed \in BOOLEAN
  /\ DOMAIN m.origins \subseteq Paths
  /\ m.origins \in [DOMAIN m.origins -> Seq(Origin) \ {<<>>}]

IsRead(layer) ==
  /\ IsTree(layer.values) /\ layer.locations \subseteq Seq(Keys)
  /\ \A edit \in layer.edits :
       edit = <<edit[1], edit[2]>> /\ edit[1] \in Nat /\ IsEdit(edit[2])

TypeOK ==
  /\ layers \in Seq(ToSet(layers)) /\ \A i \in DOMAIN layers : IsRead(layers[i])
  /\ IsMerger(merger) /\ IsMerger(base) /\ ~base.failed
  /\ \A p \in DOMAIN merger.origins : Last(merger.origins[p])[1] \in DOMAIN layers

\* The last layer is what its source made of it.
ReadInv ==
  IF layers = <<>> THEN last = NoSource /\ Applied
  ELSE /\ last.layer \in Inputs /\ last.allowed \in Selections \cup {Everything}
       /\ ~Rejected(last.allowed) /\ Layer = ReadThrough(last.allowed, last.layer)
       /\ walk \subseteq DOMAIN Layer.values /\ edits \subseteq Layer.edits

\* mergeMap goes on only below what it leaves as it was; what it has still to come to is
\* as before, and the rest is as Pathwise has it.
WalkInv ==
  layers # <<>> =>
    /\ \A p \in walk : \A q \in Above(p) :
         IsMap(base.values, q) /\ ~NewVariant(base.values, Layer.values, q)
    /\ \A p, q \in walk : IsPrefix(p, q) => p = q
    /\ walk # {} => edits = Layer.edits
    /\ edits = Layer.edits =>
         \A p \in DOMAIN base.values \cup DOMAIN Layer.values \cup DOMAIN merger.values :
           At(merger.values, p) =
             IF \E q \in walk : IsPrefix(q, p) THEN At(base.values, p)
             ELSE At(Pathwise(base.values, Layer.values), p)

\* What has had an origin keeps one, and every scalar has.
OriginsGrow ==
  /\ DOMAIN base.origins \subseteq DOMAIN merger.origins
  /\ \A p \in DOMAIN base.values : IsScalar(base.values, p) => p \in DOMAIN base.origins

IInv ==
  /\ TypeOK /\ ReadInv /\ WalkInv /\ OriginsGrow
  /\ OriginsExplainValues /\ ChangesAreRecorded /\ RestUntouched

-----------------------------------------------------------------------------
(* What SelectedIsWhole rests on besides: the same at every step.           *)

\* A value that mergeMap has come to has its origin from the layer, any other one the
\* origin it had.
WalkOrigins ==
  layers # <<>> /\ edits = Layer.edits =>
    /\ ~merger.failed
    /\ \A p \in DOMAIN merger.values :
         IsScalar(merger.values, p) =>
           Last(merger.origins[p]) =
             IF p \in DOMAIN Layer.values /\ ~\E q \in walk : IsPrefix(q, p)
               THEN <<Len(layers), "set", Nearest(Layer.locations, p)>>
               ELSE Last(base.origins[p])

\* Edits are made in their order, as far as it matters.
InPlaces ==
  layers # <<>> =>
    \A x \in edits, y \in Layer.edits : y[1] > x[1] => y \in edits

\* The edits that are left are some of the nth place and those that come after it.
AtPlace(left, n) ==
  /\ \A x \in left : x[1] >= n
  /\ \A y \in Layer.edits : y[1] > n => y \in left

\* One of the nth place is left that has to do with p.
Pending(left, n, p) ==
  \E x \in left : x[1] = n /\ (IsPrefix(x[2].path, p) \/ IsPrefix(p, x[2].path))

\* n edits of the unfiltered layer are made: where a part of the nth one is still to come,
\* what is selected is as before it, and elsewhere as after it.
SoFar(n, p) == IF Pending(edits, n, p) THEN Unfiltered[n - 1] ELSE Unfiltered[n]

WholeSoFar ==
  layers # <<>> /\ last.allowed # Everything /\ walk = {} /\ ~merger.failed =>
    \A n \in 0 .. Len(last.layer.edits) :
      AtPlace(edits, n) /\ ~Unfiltered[n].failed =>
        \A p \in DOMAIN merger.values \cup UNION {DOMAIN Unfiltered[k].values : k \in 0 .. n} :
          Selected(last.allowed, p) => Agree(merger, SoFar(n, p), p) \/ TakenAway(p)

FilterInv == IInv /\ WalkOrigins /\ InPlaces /\ WholeSoFar
=============================================================================
