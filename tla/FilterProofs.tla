---------------------------- MODULE FilterProofs ----------------------------
(***************************************************************************)
(* AllowPaths keeps what it selects, for any layers, selections and OneOfs: *)
(* what is selected comes out of apply as if the source were not filtered,  *)
(* and with the same last origins.  The filtered layer has a part of each   *)
(* edit in its place; after the parts of n places what is selected is as    *)
(* after n edits of the whole layer.                                        *)
(***************************************************************************)
EXTENDS MergeProofs

-----------------------------------------------------------------------------
(* What is selected, and what an edit is reduced to.                        *)

\* Two paths have to do with one another: one is above the other, or they are the same.
Meet(p, q) == IsPrefix(p, q) \/ IsPrefix(q, p)

\* What is selected is so by a path that nothing selected is above.
LEMMA TopmostSelects ==
  ASSUME NEW allowed \in SUBSET Seq(Keys), NEW p \in Paths, Selected(allowed, p)
  PROVE  \E q \in allowed : IsPrefix(q, p) /\ \A r \in Above(q) : ~Selected(allowed, r)
<1> DEFINE T == {Len(q) : q \in {q \in allowed : IsPrefix(q, p)}}
<1>1. p \in Seq(Keys) /\ \A q \in allowed : q \in Seq(Keys) /\ Len(q) \in Nat
  BY DEF Paths
<1>2. T \in SUBSET Nat /\ T # {}
  BY <1>1 DEF Selected
<1>3. PICK n \in T : \A k \in T : n <= k
  <2> HIDE DEF T
  <2> QED BY <1>2, LeastNatural
<1>4. PICK q \in allowed : IsPrefix(q, p) /\ Len(q) = n
  OBVIOUS
<1>5. ASSUME NEW r \in Above(q), Selected(allowed, r) PROVE FALSE
  <2>1. r \in Paths /\ r \in Seq(Keys) /\ IsPrefix(r, q) /\ r # q
    BY <1>1, <1>5, AboveIsPrefix DEF Paths, IsStrictPrefix
  <2>2. PICK a \in allowed : IsPrefix(a, r)
    BY <1>5 DEF Selected
  <2>3. IsPrefix(a, p) /\ Len(a) <= Len(r) /\ Len(r) <= Len(q) /\ Len(r) # Len(q)
    BY <1>1, <1>4, <2>1, <2>2, PrefixOrders
  <2>4. n <= Len(a)
    BY <1>3, <2>3
  <2> QED BY <1>1, <1>4, <2>1, <2>3, <2>4
<1> QED BY <1>4, <1>5

\* The edit is the whole one, or what it makes of one topmost path selected below it.
LEMMA PartOfEdit ==
  ASSUME NEW allowed \in SUBSET Seq(Keys), NEW e, IsEdit(e), NEW x \in ProjectEdit(allowed, e)
  PROVE  /\ Selected(allowed, e.path) => x = e
         /\ ~Selected(allowed, e.path) =>
              /\ x.path \in allowed /\ x.path \in Paths /\ x = EditAt(e, x.path)
              /\ IsStrictPrefix(e.path, x.path)
              /\ \A r \in Above(x.path) : ~Selected(allowed, r)
<1>1. CASE Selected(allowed, e.path)
  BY <1>1 DEF ProjectEdit
<1>2. CASE ~Selected(allowed, e.path)
  <2>1. PICK q \in allowed :
          /\ IsStrictPrefix(e.path, q) /\ \A r \in Above(q) : ~Selected(allowed, r)
          /\ x = EditAt(e, q)
    BY <1>2 DEF ProjectEdit
  <2>2. x.path = q
    BY <2>1 DEF EditAt, ReplaceEdit, DeleteEdit
  <2>3. x.path \in Paths
    BY ProjectedEdit DEF IsEdit
  <2> QED BY <1>2, <2>1, <2>2, <2>3
<1> QED BY <1>1, <1>2

\* What is selected and has to do with a part is below it, where the edit is not selected.
LEMMA PartIsAbove ==
  ASSUME NEW allowed \in SUBSET Seq(Keys), NEW e, IsEdit(e), NEW x \in ProjectEdit(allowed, e),
         ~Selected(allowed, e.path), NEW p \in Paths, Selected(allowed, p), Meet(x.path, p)
  PROVE  IsPrefix(x.path, p) /\ IsPrefix(e.path, p)
<1>1. /\ x.path \in Paths /\ IsStrictPrefix(e.path, x.path)
      /\ \A r \in Above(x.path) : ~Selected(allowed, r)
  BY PartOfEdit
<1>2. IsPrefix(x.path, p)
  <2>1. SUFFICES ASSUME IsPrefix(p, x.path), p # x.path PROVE FALSE
    BY PrefixOrders DEF Meet, Paths
  <2>2. p \in Above(x.path)
    BY <1>1, <2>1, AboveOrders
  <2> QED BY <1>1, <2>2
<1>3. e.path \in Seq(Keys) /\ x.path \in Seq(Keys) /\ p \in Seq(Keys)
  BY <1>1 DEF IsEdit, Paths
<1> QED BY <1>1, <1>2, <1>3, PrefixOrders DEF IsStrictPrefix

\* What is selected and has to do with an edit has to do with a part of it, and with no
\* other one.
LEMMA PartsMeet ==
  ASSUME NEW allowed \in SUBSET Seq(Keys), NEW e, IsEdit(e), NEW p \in Paths,
         Selected(allowed, p)
  PROVE  /\ Meet(e.path, p) => \E x \in ProjectEdit(allowed, e) : Meet(x.path, p)
         /\ \A x, y \in ProjectEdit(allowed, e) : Meet(x.path, p) /\ Meet(y.path, p) => x = y
<1>1. e.path \in Paths /\ e.path \in Seq(Keys) /\ p \in Seq(Keys)
  BY DEF IsEdit, Paths
<1>2. CASE Selected(allowed, e.path)
  BY <1>2, PartOfEdit DEF ProjectEdit
<1>3. CASE ~Selected(allowed, e.path)
  <2>1. ASSUME Meet(e.path, p)
        PROVE  \E x \in ProjectEdit(allowed, e) : Meet(x.path, p)
    <3>1. PICK q \in allowed : IsPrefix(q, p) /\ \A r \in Above(q) : ~Selected(allowed, r)
      BY TopmostSelects
    <3>2. q \in Seq(Keys) /\ ~IsPrefix(q, e.path)
      BY <1>3 DEF Selected
    <3>3. IsPrefix(e.path, p)
      BY <1>1, <2>1, <3>1, <3>2, PrefixOrders DEF Meet
    <3>4. IsStrictPrefix(e.path, q)
      BY <1>1, <3>1, <3>2, <3>3, PrefixOrders DEF IsStrictPrefix
    <3>5. EditAt(e, q) \in ProjectEdit(allowed, e)
      BY <1>3, <3>1, <3>4 DEF ProjectEdit
    <3>6. EditAt(e, q).path = q
      BY DEF EditAt, ReplaceEdit, DeleteEdit
    <3> QED BY <3>1, <3>5, <3>6 DEF Meet
  <2>2. ASSUME NEW x \in ProjectEdit(allowed, e), NEW y \in ProjectEdit(allowed, e),
               Meet(x.path, p), Meet(y.path, p)
        PROVE  x = y
    <3>1. /\ x.path \in allowed /\ x.path \in Paths /\ x = EditAt(e, x.path)
          /\ y.path \in allowed /\ y.path \in Paths /\ y = EditAt(e, y.path)
          /\ \A r \in Above(x.path) : ~Selected(allowed, r)
          /\ \A r \in Above(y.path) : ~Selected(allowed, r)
      BY <1>3, PartOfEdit
    <3>2. x.path \in Seq(Keys) /\ y.path \in Seq(Keys)
      BY <3>1 DEF Paths
    <3>3. IsPrefix(x.path, p) /\ IsPrefix(y.path, p)
      BY <1>3, <2>2, PartIsAbove
    <3>4. Selected(allowed, x.path) /\ Selected(allowed, y.path)
      BY <3>1, <3>2, PrefixOrders DEF Selected
    <3>5. IsPrefix(x.path, y.path) \/ IsPrefix(y.path, x.path)
      BY <1>1, <3>2, <3>3, PrefixOrders
    <3>6. x.path = y.path
      BY <3>1, <3>4, <3>5, AboveOrders
    <3> QED BY <3>1, <3>6
  <2> QED BY <2>1, <2>2
<1> QED BY <1>2, <1>3

\* The locations that a filtered layer keeps are all that what is selected may have.
LEMMA NearestIsKept ==
  ASSUME NEW allowed \in SUBSET Seq(Keys), NEW locations \in SUBSET Seq(Keys),
         NEW p \in Paths, Selected(allowed, p)
  PROVE  Nearest(Known(allowed, locations), p) = Nearest(locations, p)
<1> DEFINE way == {SubSeq(p, 1, n) : n \in 0 .. Len(p)}
<1>1. p \in Seq(Keys)
  BY DEF Paths
<1>2. ASSUME NEW q \in way PROVE IsPrefix(q, p) /\ q \in Seq(Keys)
  <2>1. PICK n \in 0 .. Len(p) : q = SubSeq(p, 1, n)
    OBVIOUS
  <2>2. q = [i \in 1 .. n |-> p[i]]
    BY <1>1, <2>1
  <2>3. q \in Seq(Keys) /\ Len(q) = n /\ \A i \in 1 .. n : q[i] = p[i]
    BY <1>1, <2>1, <2>2
  <2>4. Len(q) <= Len(p)
    BY <1>1, <2>3
  <2> QED BY <1>1, <2>3, <2>4, PrefixByKeys
<1>3. ASSUME NEW q \in way PROVE Selected(allowed, q) \/ Leads(allowed, q)
  <2>1. PICK a \in allowed : IsPrefix(a, p)
    BY DEF Selected
  <2>2. IsPrefix(q, p) /\ q \in Seq(Keys) /\ a \in Seq(Keys)
    BY <1>2, <1>3
  <2>3. IsPrefix(a, q) \/ IsPrefix(q, a)
    BY <1>1, <2>1, <2>2, PrefixOrders
  <2>4. q = a => IsPrefix(a, q)
    BY <2>2, PrefixOrders
  <2> QED BY <2>3, <2>4 DEF Selected, Leads, IsStrictPrefix
<1> HIDE DEF way
<1>4. Known(allowed, locations) \cap way = locations \cap way
  BY <1>3 DEF Known
<1> DEFINE kept == Known(allowed, locations) \cap way
           all == locations \cap way
<1>5. /\ Nearest(locations, p) =
           IF all = {} THEN Nowhere ELSE CHOOSE q \in all : \A r \in all : Len(r) <= Len(q)
      /\ Nearest(Known(allowed, locations), p) =
           IF kept = {} THEN Nowhere ELSE CHOOSE q \in kept : \A r \in kept : Len(r) <= Len(q)
  BY DEF Nearest, way
<1>6. kept = all
  BY <1>4
<1> HIDE DEF kept, all
<1> QED BY <1>5, <1>6

-----------------------------------------------------------------------------
(* One edit, whole and in part.                                             *)

\* Every scalar of a merger has an origin.
Explained(m) == \A p \in DOMAIN m.values : IsScalar(m.values, p) => p \in DOMAIN m.origins

\* An edit leaves alone what it has nothing to do with.
LEMMA EditElsewhere ==
  ASSUME NEW m, IsMerger(m), NEW e, IsEdit(e), NEW i \in Nat,
         NEW locations \in SUBSET Seq(Keys), ~Failing(m, e), NEW p \in Paths, ~Meet(e.path, p)
  PROVE  LET new == Edit(m, e, i, locations)
         IN  /\ At(new.values, p) = At(m.values, p)
             /\ p \in DOMAIN m.origins =>
                  p \in DOMAIN new.origins /\ new.origins[p] = m.origins[p]
<1> DEFINE new == Edit(m, e, i, locations)
<1>1. /\ \A r \in Paths : At(new.values, r) = IF IsPrefix(e.path, r) THEN At(e.value, r)
                                              ELSE IF r \in Made(m, e) THEN "map"
                                              ELSE At(m.values, r)
      /\ Gains(new.origins, m.origins, Written(e))
      /\ \A r \in DOMAIN m.origins \ Written(e) :
           IF IsPrefix(e.path, r) /\ e.path # r
             THEN Said(new.origins, r, i, e.kind)
             ELSE new.origins[r] = m.origins[r]
  BY Editing
<1> HIDE DEF new
<1>2. ~IsPrefix(e.path, p) /\ p \notin Written(e)
  BY EditParts DEF Meet
<1>3. p \notin Made(m, e)
  <2>1. e.path \in Paths
    BY DEF IsEdit
  <2>2. p \notin Above(e.path)
    BY <2>1, AboveOrders DEF Meet
  <2> QED BY <2>2 DEF Made
<1> QED BY <1>1, <1>2, <1>3 DEF Gains, new

\* So mergers that agree at a path still do if either makes an edit elsewhere.
LEMMA AgreeElsewhere ==
  ASSUME NEW m, NEW whole, NEW p \in Paths, Agree(m, whole, p), NEW e, IsEdit(e),
         NEW i \in Nat, NEW locations \in SUBSET Seq(Keys), ~Meet(e.path, p)
  PROVE  /\ IsMerger(m) /\ Explained(m) /\ ~Failing(m, e) =>
              Agree(Edit(m, e, i, locations), whole, p)
         /\ IsMerger(whole) /\ ~Failing(whole, e) =>
              Agree(m, Edit(whole, e, i, locations), p)
<1>1. ASSUME IsMerger(m), Explained(m), ~Failing(m, e)
      PROVE  Agree(Edit(m, e, i, locations), whole, p)
  <2> DEFINE new == Edit(m, e, i, locations)
  <2>1. /\ At(new.values, p) = At(m.values, p)
        /\ p \in DOMAIN m.origins => new.origins[p] = m.origins[p]
    BY <1>1, EditElsewhere
  <2>2. IsMerger(new)
    BY <1>1, Editing
  <2> HIDE DEF new
  <2>3. IsScalar(new.values, p) => IsScalar(m.values, p)
    BY <1>1, <2>1, <2>2, AtTells DEF IsMerger, IsTree
  <2>4. IsScalar(new.values, p) => new.origins[p] = m.origins[p]
    BY <1>1, <2>1, <2>3 DEF Explained, IsScalar
  <2> QED BY <2>1, <2>3, <2>4 DEF Agree, new
<1>2. ASSUME IsMerger(whole), ~Failing(whole, e)
      PROVE  Agree(m, Edit(whole, e, i, locations), p)
  <2> DEFINE new == Edit(whole, e, i, locations)
  <2>1. /\ At(new.values, p) = At(whole.values, p)
        /\ p \in DOMAIN whole.origins =>
             p \in DOMAIN new.origins /\ new.origins[p] = whole.origins[p]
    BY <1>2, EditElsewhere
  <2> HIDE DEF new
  <2> QED BY <2>1 DEF Agree, new
<1> QED BY <1>1, <1>2

\* What an edit puts at its path and below: a scalar has its origin from it.
LEMMA EditThere ==
  ASSUME NEW m, IsMerger(m), NEW e, IsEdit(e), NEW i \in Nat,
         NEW locations \in SUBSET Seq(Keys), ~Failing(m, e),
         NEW p \in Paths, IsPrefix(e.path, p)
  PROVE  LET new == Edit(m, e, i, locations)
         IN  /\ At(new.values, p) = At(e.value, p)
             /\ p \in DOMAIN e.value =>
                  /\ e.kind = "replace" /\ p \in DOMAIN new.origins
                  /\ Last(new.origins[p]) = <<i, "replace", Nearest(locations, p)>>
<1> DEFINE new == Edit(m, e, i, locations)
<1>1. /\ \A r \in Paths : At(new.values, r) = IF IsPrefix(e.path, r) THEN At(e.value, r)
                                              ELSE IF r \in Made(m, e) THEN "map"
                                              ELSE At(m.values, r)
      /\ Gains(new.origins, m.origins, Written(e))
      /\ Wrote(new.origins, Written(e), i, e.kind, locations)
  BY Editing
<1> HIDE DEF new
<1>2. ASSUME p \in DOMAIN e.value PROVE e.kind = "replace" /\ p \in Written(e)
  BY <1>2, EditParts DEF Written
<1> QED BY <1>1, <1>2 DEF Gains, Wrote, new

\* What a part of an edit gives is what the edit gives there.
LEMMA PartGivesTheSame ==
  ASSUME NEW allowed \in SUBSET Seq(Keys), NEW e, IsEdit(e), NEW x \in ProjectEdit(allowed, e),
         NEW p \in Paths, IsPrefix(x.path, p), IsPrefix(e.path, p)
  PROVE  At(x.value, p) = At(e.value, p) /\ (p \in DOMAIN x.value <=> p \in DOMAIN e.value)
<1>1. IsPart(e.value) /\ IsPart(x.value)
  BY ProjectedEdit, EditParts DEF IsBranch
<1>2. SUFFICES At(x.value, p) = At(e.value, p)
  BY <1>1, AtTells
<1>3. CASE Selected(allowed, e.path)
  BY <1>3, PartOfEdit
<1>4. CASE ~Selected(allowed, e.path)
  <2> DEFINE q == x.path
  <2>1. q \in Paths /\ x = EditAt(e, q) /\ IsStrictPrefix(e.path, q)
    BY <1>4, PartOfEdit
  <2> HIDE DEF q
  <2>2. e.path \in Paths /\ IsBranch(e.value, e.path) /\ IsPrefix(e.path, q)
    BY <2>1, EditParts DEF IsStrictPrefix
  <2>3. CASE q \in DOMAIN e.value
    <3>1. x.value = Subtree(e.value, q)
      BY <2>1, <2>3 DEF EditAt, ReplaceEdit
    <3>2. \A r \in Paths : IsPrefix(q, r) => At(Subtree(e.value, q), r) = At(e.value, r)
      BY <2>1, <2>2, SubtreeAt
    <3> QED BY <3>1, <3>2 DEF q
  <2>4. CASE q \notin DOMAIN e.value
    <3>1. x.value = NoTree
      BY <2>1, <2>4 DEF EditAt, DeleteEdit
    <3>2. p \notin DOMAIN e.value
      <4>1. SUFFICES ASSUME p \in DOMAIN e.value PROVE FALSE
        OBVIOUS
      <4>2. q \in Above(p)
        BY <2>1, <2>4, <4>1, AboveOrders DEF q
      <4>3. IsMap(e.value, q)
        BY <2>2, <4>1, <4>2 DEF IsBranch
      <4> QED BY <2>4, <4>3 DEF IsMap
    <3> QED BY <3>1, <3>2, NoTreeIsTree DEF At
  <2> QED BY <2>3, <2>4
<1> QED BY <1>3, <1>4

\* Mergers that agree at a selected path still do if one makes the whole of an edit and the
\* other one the part of it that has to do with the path.
LEMMA AgreeAfterPart ==
  ASSUME NEW m, IsMerger(m), NEW whole, IsMerger(whole), NEW i \in Nat,
         NEW locations \in SUBSET Seq(Keys), NEW allowed \in SUBSET Seq(Keys),
         NEW e, IsEdit(e), NEW x \in ProjectEdit(allowed, e),
         ~Failing(m, x), ~Failing(whole, e),
         NEW p \in Paths, Selected(allowed, p), Meet(x.path, p), Agree(m, whole, p)
  PROVE  Agree(Edit(m, x, i, Known(allowed, locations)), Edit(whole, e, i, locations), p)
<1> DEFINE known == Known(allowed, locations)
           new == Edit(m, x, i, known)
           all == Edit(whole, e, i, locations)
<1>1. IsEdit(x) /\ e.path \in Paths /\ known \in SUBSET Seq(Keys)
  BY ProjectedEdit DEF IsEdit, Known
<1>2. Nearest(known, p) = Nearest(locations, p)
  BY NearestIsKept
<1> HIDE DEF known
<1>3. IsMerger(new) /\ IsMerger(all)
  BY <1>1, Editing
<1>4. /\ IsPart(new.values) /\ IsPart(all.values) /\ IsPart(e.value)
      /\ IsPart(m.values) /\ IsPart(whole.values)
  BY <1>3, EditParts DEF IsMerger, IsTree, IsBranch
<1>5. CASE IsPrefix(x.path, p) /\ IsPrefix(e.path, p)
  <2>1. /\ At(new.values, p) = At(x.value, p)
        /\ p \in DOMAIN x.value =>
             Last(new.origins[p]) = <<i, "replace", Nearest(known, p)>>
    BY <1>1, <1>5, EditThere
  <2>2. /\ At(all.values, p) = At(e.value, p)
        /\ p \in DOMAIN e.value =>
             /\ p \in DOMAIN all.origins
             /\ Last(all.origins[p]) = <<i, "replace", Nearest(locations, p)>>
    BY <1>5, EditThere
  <2>3. At(x.value, p) = At(e.value, p) /\ (p \in DOMAIN x.value <=> p \in DOMAIN e.value)
    BY <1>5, PartGivesTheSame
  <2> HIDE DEF new, all
  <2>4. IsScalar(new.values, p) => p \in DOMAIN e.value
    BY <1>4, <2>1, <2>3, AtTells
  <2> QED BY <1>2, <2>1, <2>2, <2>3, <2>4 DEF Agree, new, all, known
<1>6. CASE ~(IsPrefix(x.path, p) /\ IsPrefix(e.path, p))
  <2>1. x = e /\ ~IsPrefix(e.path, p) /\ IsPrefix(p, e.path)
    BY <1>6, PartOfEdit, PartIsAbove DEF Meet
  <2>2. p \in Above(e.path)
    <3>1. p # e.path
      BY <1>1, <2>1, PrefixOrders DEF Paths
    <3> QED BY <1>1, <2>1, <3>1, AboveOrders
  <2>3. /\ At(new.values, p) = IF p \in Made(m, e) THEN "map" ELSE At(m.values, p)
        /\ At(all.values, p) = IF p \in Made(whole, e) THEN "map" ELSE At(whole.values, p)
    <3>1. \A r \in Paths : At(new.values, r) = IF IsPrefix(x.path, r) THEN At(x.value, r)
                                               ELSE IF r \in Made(m, x) THEN "map"
                                               ELSE At(m.values, r)
      BY <1>1, Editing
    <3>2. \A r \in Paths : At(all.values, r) = IF IsPrefix(e.path, r) THEN At(e.value, r)
                                               ELSE IF r \in Made(whole, e) THEN "map"
                                               ELSE At(whole.values, r)
      BY Editing
    <3> HIDE DEF new, all
    <3> QED BY <2>1, <3>1, <3>2
  <2> HIDE DEF new, all
  <2>4. At(m.values, p) = At(whole.values, p)
    BY DEF Agree
  <2>5. p \in DOMAIN m.values <=> p \in DOMAIN whole.values
    BY <1>4, <2>4, AtTells
  <2>6. p \in Made(m, e) <=> p \in Made(whole, e)
    BY <2>5 DEF Made
  <2>7. ~IsScalar(m.values, p)
    BY <2>1, <2>2 DEF Failing
  <2>8. ~IsScalar(new.values, p)
    BY <1>4, <2>3, <2>7, AtTells
  <2>9. At(new.values, p) = At(all.values, p)
    BY <2>3, <2>4, <2>6
  <2> QED BY <2>8, <2>9 DEF Agree, new, all, known
<1> QED BY <1>5, <1>6

-----------------------------------------------------------------------------
(* Merging the values, whole and in part.                                   *)

\* What is selected is projected as it is.
LEMMA SelectedIsProjected ==
  ASSUME NEW allowed \in SUBSET Seq(Keys), NEW t, IsTree(t), NEW p, Selected(allowed, p)
  PROVE  LET kept == Project(allowed, t)
         IN  At(kept, p) = At(t, p) /\ (p \in DOMAIN kept <=> p \in DOMAIN t)
<1> DEFINE kept == Project(allowed, t)
<1>1. \A r \in DOMAIN kept : r \in DOMAIN t /\ At(kept, r) = At(t, r)
  BY ProjectIsTree
<1>2. p \in DOMAIN t => p \in DOMAIN kept
  BY DEF Project
<1> HIDE DEF kept
<1>3. p \in DOMAIN kept <=> p \in DOMAIN t
  BY <1>1, <1>2
<1> QED BY <1>1, <1>3 DEF At, kept

\* A new variant is what mergeMap switches to.
LEMMA NewVariantSwitches ==
  ASSUME NEW v, NEW t, IsTree(t), NEW q, NewVariant(v, t, q)
  PROVE  Switches(v, t, q)
<1> DEFINE d == Append(q, Disc)
<1>1. /\ At(t, d) \notin {"nothing", At(v, d)}
      /\ \E union \in Unions :
           /\ union.path = q
           /\ \A r \in DOMAIN union.variants : union.variants[r] = At(v, Append(r, Disc))
  BY DEF NewVariant
<1> HIDE DEF d
<1>2. d \in DOMAIN t /\ At(v, d) # t[d]
  BY <1>1, AtTells DEF IsTree
<1>3. IsUnion(v, q)
  BY <1>1 DEF IsUnion
<1> QED BY <1>2, <1>3 DEF Switches, d

\* Where nothing that is not selected takes it away, a selected path is merged as it would
\* be without the filter: above it the filter leaves no scalar, and no discriminator, since
\* validate refuses to select one without its OneOf.
LEMMA SelectedIsMerged ==
  ASSUME NEW v, IsTree(v), NEW t, IsTree(t), NEW allowed \in SUBSET Seq(Keys),
         ~Rejected(allowed), NEW p \in Paths, Selected(allowed, p),
         \A q \in Above(p) : Selected(allowed, q) \/ ~(IsScalar(t, q) \/ Switches(v, t, q))
  PROVE  At(Pathwise(v, Project(allowed, t)), p) = At(Pathwise(v, t), p)
<1> DEFINE kept == Project(allowed, t)
<1>1. /\ IsTree(kept) /\ IsPart(kept) /\ IsPart(t)
      /\ \A r \in DOMAIN kept : ~Selected(allowed, r) => IsMap(kept, r) /\ Leads(allowed, r)
  BY ProjectIsTree DEF IsTree
<1>2. \A r : Selected(allowed, r) => /\ At(kept, r) = At(t, r)
                                     /\ r \in DOMAIN kept <=> r \in DOMAIN t
  BY SelectedIsProjected
<1> HIDE DEF kept
<1>3. ASSUME NEW q \in Above(p)
      PROVE  IsScalar(kept, q) <=> IsScalar(t, q)
  <2>1. CASE Selected(allowed, q)
    BY <1>1, <1>2, <2>1, AtTells
  <2>2. CASE ~Selected(allowed, q)
    BY <1>1, <1>3, <2>2 DEF IsScalar, IsMap
  <2> QED BY <2>1, <2>2
<1>4. ASSUME NEW q \in Above(p)
      PROVE  NewVariant(v, kept, q) <=> NewVariant(v, t, q)
  <2> DEFINE d == Append(q, Disc)
  <2>1. q \in Paths /\ q \in Seq(Keys)
    BY <1>4, AboveIsPrefix DEF Paths
  <2>2. d \in Paths /\ IsPrefix(q, d)
    BY <2>1, MergeLayersAssumption, AppendIsBelow DEF IsStrictPrefix
  <2>3. CASE Selected(allowed, q)
    <3>1. Selected(allowed, d)
      BY <2>1, <2>2, <2>3, SelectedBelow
    <3>2. At(kept, d) = At(t, d)
      BY <1>2, <3>1
    <3> QED BY <3>2 DEF NewVariant
  <2>4. CASE ~Selected(allowed, q)
    <3>1. ~NewVariant(v, t, q)
      BY <1>4, <2>4, NewVariantSwitches
    <3>2. ASSUME NewVariant(v, kept, q) PROVE FALSE
      <4>1. At(kept, d) # "nothing" /\ \E union \in Unions : union.path = q
        BY <3>2 DEF NewVariant
      <4>2. d \in DOMAIN kept
        BY <4>1 DEF At
      <4>3. Selected(allowed, d) \/ Leads(allowed, d)
        BY <1>1, <4>2
      <4> QED BY <2>4, <4>1, <4>3 DEF Rejected
    <3> QED BY <3>1, <3>2
  <2> QED BY <2>3, <2>4
<1>5. /\ At(Pathwise(v, kept), p) =
           IF p \in DOMAIN kept THEN At(kept, p)
           ELSE IF \A q \in Above(p) : ~IsScalar(kept, q) /\ ~NewVariant(v, kept, q)
                  THEN At(v, p) ELSE "nothing"
      /\ At(Pathwise(v, t), p) =
           IF p \in DOMAIN t THEN At(t, p)
           ELSE IF \A q \in Above(p) : ~IsScalar(t, q) /\ ~NewVariant(v, t, q)
                  THEN At(v, p) ELSE "nothing"
  BY <1>1, PathwiseAt
<1> QED BY <1>2, <1>3, <1>4, <1>5 DEF kept

\* The origins of a merger that is given the values of a layer.
LEMMA StartOrigins ==
  ASSUME NEW m, IsMerger(m), NEW t, IsTree(t), NEW i \in Nat,
         NEW locations \in SUBSET Seq(Keys)
  PROVE  LET after == Add(m.origins, DOMAIN t, i, "set", locations)
         IN  /\ AreOrigins(after) /\ Gains(after, m.origins, DOMAIN t)
             /\ Wrote(after, DOMAIN t, i, "set", locations)
             /\ \A p \in DOMAIN m.origins : p \notin DOMAIN t => after[p] = m.origins[p]
<1> DEFINE origins == m.origins
           ps == DOMAIN t
           after == Add(origins, ps, i, "set", locations)
<1>1. AreOrigins(origins) /\ ps \in SUBSET Paths /\ "set" \in Operations
  BY DEF IsMerger, AreOrigins, IsTree, IsPart, Operations
<1> HIDE DEF origins, ps
<1>2. /\ AreOrigins(after) /\ Gains(after, origins, ps)
      /\ Wrote(after, ps, i, "set", locations)
      /\ \A p \in DOMAIN origins : p \notin ps => after[p] = origins[p]
  BY <1>1, AddIsLast
<1> QED BY <1>2 DEF origins, ps

LEMMA PathwiseIsTree ==
  ASSUME NEW v, IsTree(v), NEW t, IsTree(t)
  PROVE  IsTree(Pathwise(v, t))
<1> DEFINE w == Pathwise(v, t)
<1>1. /\ IsPart(w)
      /\ \A p : At(w, p) =
           IF p \in DOMAIN t THEN At(t, p)
           ELSE IF \A q \in Above(p) : ~IsScalar(t, q) /\ ~NewVariant(v, t, q)
                  THEN At(v, p) ELSE "nothing"
  BY PathwiseAt
<1> HIDE DEF w
<1>2. IsPart(v) /\ IsPart(t) /\ \A p \in DOMAIN w : p \in Paths /\ p \in Seq(Keys)
  BY <1>1 DEF IsTree, IsPart, Paths
<1>3. ASSUME NEW p \in DOMAIN w, NEW r \in Above(p)
      PROVE  IsMap(w, r)
  <2>1. SUFFICES At(w, r) = "map"
    BY <1>1, AtTells
  <2>2. r \in Paths
    BY <1>2, <1>3, AboveIsPrefix
  <2>3. At(w, p) # "nothing"
    BY <1>1, AtTells
  <2>4. CASE r \in DOMAIN t /\ ~IsScalar(t, r)
    BY <1>1, <1>2, <2>4, AtTells DEF IsMap, IsScalar
  <2>5. CASE r \in DOMAIN t /\ IsScalar(t, r)
    <3>1. p \notin DOMAIN t
      BY <1>3, <2>5 DEF IsTree, IsMap, IsScalar
    <3> QED BY <1>1, <1>3, <2>3, <2>5, <3>1
  <2>6. CASE r \notin DOMAIN t
    <3>1. p \notin DOMAIN t
      BY <1>3, <2>6 DEF IsTree, IsMap
    <3>2. /\ \A q \in Above(p) : ~IsScalar(t, q) /\ ~NewVariant(v, t, q)
          /\ At(v, p) # "nothing"
      BY <1>1, <2>3, <3>1
    <3>3. p \in DOMAIN v
      BY <1>2, <3>2, AtTells
    <3>4. At(v, r) = "map"
      BY <1>2, <1>3, <3>3, AtTells DEF IsTree
    <3>5. \A q \in Above(r) : q \in Above(p)
      <4>1. ASSUME NEW q \in Above(r) PROVE q \in Above(p)
        <5>1. q \in Paths /\ IsPrefix(r, p)
          BY <1>2, <1>3, <2>2, <4>1, AboveIsPrefix, AboveOrders DEF Paths
        <5> QED BY <1>2, <2>2, <4>1, <5>1, AboveOrders
      <4> QED BY <4>1
    <3> QED BY <1>1, <2>6, <3>2, <3>4, <3>5
  <2> QED BY <2>4, <2>5, <2>6
<1> QED BY <1>1, <1>3 DEF IsTree, w

-----------------------------------------------------------------------------
(* The layer without the filter.                                            *)

Total == Len(last.layer.edits)

\* What Unfiltered begins with.
Start ==
  [base EXCEPT !.values = Pathwise(@, last.layer.values),
               !.origins = Add(@, DOMAIN last.layer.values, Len(layers), "set",
                               last.layer.locations)]

\* The nth edit, made by m.
MakeNth(m, n) == Edit(m, last.layer.edits[n], Len(layers), last.layer.locations)

\* Unfiltered is what it says it is: there is a function like that, up to any number.
LEMMA UnfilteredIs ==
  ASSUME Total \in Nat
  PROVE  /\ Unfiltered[0] = Start
         /\ \A n \in 1 .. Total : Unfiltered[n] = MakeNth(Unfiltered[n - 1], n)
<1> DEFINE IsRun(f, k) ==
             f = [n \in 0 .. k |-> IF n = 0 THEN Start ELSE MakeNth(f[n - 1], n)]
           T == {k \in Nat : ~\E f : IsRun(f, k)}
<1>1. T = {}
  <2>1. SUFFICES ASSUME T # {} PROVE FALSE
    OBVIOUS
  <2>2. T \in SUBSET Nat
    OBVIOUS
  <2>3. PICK k \in T : \A j \in T : k <= j
    <3> HIDE DEF T
    <3> QED BY <2>1, <2>2, LeastNatural
  <2>4. CASE k = 0
    <3> DEFINE f == [n \in 0 .. 0 |-> Start]
    <3>1. f = [n \in 0 .. 0 |-> IF n = 0 THEN Start ELSE MakeNth(f[n - 1], n)]
      OBVIOUS
    <3> HIDE DEF f
    <3>2. IsRun(f, 0)
      BY <3>1
    <3> QED BY <2>4, <3>2
  <2>5. CASE k # 0
    <3>1. k \in Nat /\ k - 1 \in Nat /\ ~(k <= k - 1)
      BY <2>5
    <3>2. k - 1 \notin T
      BY <2>3, <3>1
    <3>3. PICK g : IsRun(g, k - 1)
      BY <3>1, <3>2
    <3>4. \A n \in 0 .. k - 1 : g[n] = IF n = 0 THEN Start ELSE MakeNth(g[n - 1], n)
      BY <3>3
    <3> DEFINE f == [n \in 0 .. k |-> IF n = k THEN MakeNth(g[k - 1], k) ELSE g[n]]
    <3>5. \A n \in 0 .. k : f[n] = IF n = 0 THEN Start ELSE MakeNth(f[n - 1], n)
      <4> TAKE n \in 0 .. k
      <4>1. CASE n = 0
        <5>1. f[0] = g[0] /\ 0 \in 0 .. k - 1
          BY <2>5, <3>1
        <5> QED BY <3>4, <4>1, <5>1
      <4>2. CASE n # 0 /\ n # k
        <5>1. f[n] = g[n] /\ f[n - 1] = g[n - 1] /\ n \in 0 .. k - 1
          BY <3>1, <4>2
        <5> HIDE DEF f
        <5> QED BY <3>4, <4>2, <5>1
      <4>3. CASE n # 0 /\ n = k
        <5>1. f[n] = MakeNth(g[k - 1], k) /\ f[n - 1] = g[k - 1]
          BY <3>1, <4>3
        <5> HIDE DEF f
        <5> QED BY <4>3, <5>1
      <4> QED BY <4>1, <4>2, <4>3
    <3>6. f = [n \in 0 .. k |-> f[n]]
      OBVIOUS
    <3> HIDE DEF f
    <3>7. IsRun(f, k)
      BY <3>5, <3>6
    <3> QED BY <3>7
  <2> QED BY <2>4, <2>5
<1>2. \E f : IsRun(f, Total)
  BY <1>1
<1>3. Unfiltered = CHOOSE f : IsRun(f, Total)
  BY DEF Unfiltered, Total, Start, MakeNth
<1>4. IsRun(Unfiltered, Total)
  <2> HIDE DEF IsRun
  <2> QED BY <1>2, <1>3
<1>5. \A n \in 0 .. Total :
        Unfiltered[n] = IF n = 0 THEN Start ELSE MakeNth(Unfiltered[n - 1], n)
  BY <1>4
<1> QED BY <1>5

\* The edit that takes the nth place.
Nth(n) == last.layer.edits[n]

LEMMA WholeLayer ==
  ASSUME IInv, layers # <<>>
  PROVE  /\ Total \in Nat /\ \A n \in 1 .. Total : IsEdit(Nth(n))
         /\ IsTree(last.layer.values) /\ last.layer.locations \in SUBSET Seq(Keys)
         /\ last.allowed \in SUBSET Seq(Keys) /\ ~Rejected(last.allowed)
         /\ Len(layers) \in Nat /\ IsRead(Layer)
         /\ IsMerger(base) /\ ~base.failed /\ IsMerger(merger)
<1>1. TypeOK /\ ReadInv
  BY DEF IInv
<1>2. /\ Len(layers) \in Nat /\ IsRead(Layer) /\ IsLayer(last.layer)
      /\ last.allowed \in SUBSET Seq(Keys) /\ ~Rejected(last.allowed)
  BY <1>1, LastLayer
<1>3. /\ last.layer.edits \in Seq(ToSet(last.layer.edits))
      /\ \A e \in ToSet(last.layer.edits) : IsEdit(e)
      /\ IsTree(last.layer.values) /\ last.layer.locations \in SUBSET Seq(Keys)
  BY <1>2 DEF IsLayer
<1>4. Total \in Nat /\ \A n \in 1 .. Total : IsEdit(Nth(n))
  BY <1>3 DEF Total, Nth
<1> QED BY <1>1, <1>2, <1>3, <1>4 DEF TypeOK

\* The filtered layer is made of parts of the whole one, each in the place of its edit.
LEMMA FilteredLayer ==
  ASSUME IInv, layers # <<>>, last.allowed # Everything
  PROVE  /\ Layer.values = Project(last.allowed, last.layer.values)
         /\ Layer.locations = Known(last.allowed, last.layer.locations)
         /\ \A x \in Layer.edits :
              x[1] \in 1 .. Total /\ x[2] \in ProjectEdit(last.allowed, Nth(x[1]))
         /\ \A n \in 1 .. Total : \A e \in ProjectEdit(last.allowed, Nth(n)) :
              <<n, e>> \in Layer.edits
<1> DEFINE parts == UNION {{<<n, e>> : e \in ProjectEdit(last.allowed, Nth(n))} :
                             n \in DOMAIN last.layer.edits}
<1>1. TypeOK /\ ReadInv
  BY DEF IInv
<1>2. Layer = ReadThrough(last.allowed, last.layer) /\ IsLayer(last.layer)
  BY <1>1, LastLayer
<1>3. Layer = LayerOf(Project(last.allowed, last.layer.values), parts,
                      Known(last.allowed, last.layer.locations), FALSE)
  BY <1>2 DEF ReadThrough, Filtered, Nth
<1>4. DOMAIN last.layer.edits = 1 .. Total
  <2>1. last.layer.edits \in Seq(ToSet(last.layer.edits))
    BY <1>2 DEF IsLayer
  <2> QED BY <2>1 DEF Total
<1>5. ASSUME NEW x \in parts
      PROVE  x[1] \in 1 .. Total /\ x[2] \in ProjectEdit(last.allowed, Nth(x[1]))
  <2>1. PICK n \in 1 .. Total : \E e \in ProjectEdit(last.allowed, Nth(n)) : x = <<n, e>>
    BY <1>4
  <2>2. PICK e \in ProjectEdit(last.allowed, Nth(n)) : x = <<n, e>>
    BY <2>1
  <2> QED BY <2>2
<1>6. \A n \in 1 .. Total : \A e \in ProjectEdit(last.allowed, Nth(n)) : <<n, e>> \in parts
  BY <1>4
<1> HIDE DEF parts
<1>7. /\ Layer.values = Project(last.allowed, last.layer.values) /\ Layer.edits = parts
      /\ Layer.locations = Known(last.allowed, last.layer.locations)
  BY <1>3 DEF LayerOf
<1> QED BY <1>5, <1>6, <1>7

\* Unfiltered is a merger all along, and once it has failed it stays so.
LEMMA UnfilteredIsMerger ==
  ASSUME IInv, layers # <<>>
  PROVE  /\ \A n \in 0 .. Total : IsMerger(Unfiltered[n])
         /\ ~Unfiltered[0].failed
         /\ Unfiltered[0].values = Pathwise(base.values, last.layer.values)
         /\ Unfiltered[0].origins = Add(base.origins, DOMAIN last.layer.values, Len(layers),
                                        "set", last.layer.locations)
         /\ \A n \in 1 .. Total :
              /\ Unfiltered[n] = MakeNth(Unfiltered[n - 1], n)
              /\ ~Unfiltered[n].failed =>
                   ~Unfiltered[n - 1].failed /\ ~Failing(Unfiltered[n - 1], Nth(n))
<1> DEFINE t == last.layer.values
           i == Len(layers)
           known == last.layer.locations
           origins == Add(base.origins, DOMAIN t, i, "set", known)
<1>1. /\ Total \in Nat /\ \A n \in 1 .. Total : IsEdit(Nth(n))
      /\ IsTree(t) /\ known \in SUBSET Seq(Keys) /\ i \in Nat
      /\ IsMerger(base) /\ ~base.failed
  BY WholeLayer
<1>2. /\ Unfiltered[0] = Start
      /\ \A n \in 1 .. Total : Unfiltered[n] = MakeNth(Unfiltered[n - 1], n)
  BY <1>1, UnfilteredIs
<1>3. /\ Start = [base EXCEPT !.values = Pathwise(@, t), !.origins = origins]
      /\ base = [values |-> base.values, origins |-> base.origins, failed |-> base.failed]
  BY <1>1 DEF Start, IsMerger
<1>4. AreOrigins(origins)
  <2> HIDE DEF t, i, known
  <2> QED BY <1>1, StartOrigins
<1>5. IsTree(Pathwise(base.values, t))
  <2>1. IsTree(base.values)
    BY <1>1 DEF IsMerger
  <2> HIDE DEF t
  <2> QED BY <1>1, <2>1, PathwiseIsTree
<1> HIDE DEF origins, t, i, known
<1>6. Start = [values |-> Pathwise(base.values, t), origins |-> origins,
               failed |-> base.failed]
  BY <1>3
<1>7. /\ Start.values = Pathwise(base.values, t) /\ Start.origins = origins
      /\ Start.failed = base.failed
  BY <1>6
<1>8. IsMerger(Start)
  BY <1>1, <1>4, <1>5, <1>6, <1>7 DEF IsMerger, AreOrigins
<1>9. ASSUME NEW n \in 1 .. Total, IsMerger(Unfiltered[n - 1])
      PROVE  /\ IsMerger(Unfiltered[n])
             /\ ~Unfiltered[n].failed =>
                  ~Unfiltered[n - 1].failed /\ ~Failing(Unfiltered[n - 1], Nth(n))
  <2>1. Unfiltered[n] = Edit(Unfiltered[n - 1], Nth(n), i, known) /\ IsEdit(Nth(n))
    BY <1>1, <1>2 DEF MakeNth, Nth, i, known
  <2>2. CASE Failing(Unfiltered[n - 1], Nth(n))
    BY <1>9, <2>1, <2>2, EditFails
  <2>3. CASE ~Failing(Unfiltered[n - 1], Nth(n))
    <3>1. ~Unfiltered[n - 1].failed
      BY <2>3 DEF Failing
    <3> QED BY <1>1, <1>9, <2>1, <2>3, <3>1, Editing
  <2> QED BY <2>2, <2>3
<1>10. \A n \in 0 .. Total : IsMerger(Unfiltered[n])
  <2> DEFINE T == {n \in 0 .. Total : ~IsMerger(Unfiltered[n])}
  <2>1. SUFFICES ASSUME T # {} PROVE FALSE
    OBVIOUS
  <2>2. T \in SUBSET Nat
    BY <1>1
  <2>3. PICK n \in T : \A j \in T : n <= j
    <3> HIDE DEF T
    <3> QED BY <2>1, <2>2, LeastNatural
  <2>4. n # 0
    BY <1>2, <1>8
  <2>5. n \in 1 .. Total /\ n - 1 \in 0 .. Total /\ ~(n <= n - 1)
    BY <1>1, <2>4
  <2>6. IsMerger(Unfiltered[n - 1])
    BY <2>3, <2>5
  <2> QED BY <1>9, <2>5, <2>6
<1>11. \A n \in 1 .. Total : IsMerger(Unfiltered[n - 1])
  BY <1>1, <1>10
<1> QED BY <1>1, <1>2, <1>7, <1>9, <1>10, <1>11 DEF t, i, known, origins

-----------------------------------------------------------------------------
(* Place after place.                                                       *)

\* WholeSoFar at one place, for every path there could be.
AllAgree(m, left, n) ==
  \A p \in Paths :
    Selected(last.allowed, p) =>
      \/ Agree(m, IF Pending(left, n, p) THEN Unfiltered[n - 1] ELSE Unfiltered[n], p)
      \/ TakenAway(p)

\* What is pending is one of the edits that are left.
LEMMA PendingMeets ==
  ASSUME NEW left, NEW n, NEW p
  PROVE  Pending(left, n, p) <=> \E x \in left : x[1] = n /\ Meet(x[2].path, p)
BY DEF Pending, Meet

\* WholeSoFar, which TLC checks on the paths that there are, for every path.
WholeAllOver ==
  layers # <<>> /\ last.allowed # Everything /\ walk = {} /\ ~merger.failed =>
    \A n \in 0 .. Total :
      AtPlace(edits, n) /\ ~Unfiltered[n].failed => AllAgree(merger, edits, n)

LEMMA WholeIsAllOver == IInv => (WholeSoFar <=> WholeAllOver)
<1>1. SUFFICES ASSUME IInv, layers # <<>>, last.allowed # Everything, walk = {}, ~merger.failed,
                      NEW n \in 0 .. Total, AtPlace(edits, n), ~Unfiltered[n].failed
               PROVE  (\A p \in DOMAIN merger.values
                                  \cup UNION {DOMAIN Unfiltered[k].values : k \in 0 .. n} :
                         Selected(last.allowed, p) =>
                           Agree(merger, SoFar(n, p), p) \/ TakenAway(p))
                      <=> AllAgree(merger, edits, n)
  BY DEF WholeSoFar, WholeAllOver, Total
<1> DEFINE known == DOMAIN merger.values \cup UNION {DOMAIN Unfiltered[k].values : k \in 0 .. n}
<1>2. Total \in Nat
  BY <1>1, WholeLayer
<1>3. known \subseteq Paths
  <2>1. \A k \in 0 .. n : DOMAIN Unfiltered[k].values \subseteq Paths
    <3>1. \A k \in 0 .. n : k \in 0 .. Total
      BY <1>2
    <3> QED BY <1>1, <3>1, UnfilteredIsMerger DEF IsMerger, IsTree, IsPart
  <2>2. DOMAIN merger.values \subseteq Paths
    BY <1>1, WholeLayer DEF IsMerger, IsTree, IsPart
  <2> QED BY <2>1, <2>2
<1>4. ASSUME NEW p \in Paths, p \notin known
      PROVE  Agree(merger, SoFar(n, p), p)
  <2>1. p \notin DOMAIN merger.values /\ \A k \in 0 .. n : p \notin DOMAIN Unfiltered[k].values
    BY <1>4
  <2>2. Pending(edits, n, p) => n - 1 \in 0 .. n
    <3>1. SUFFICES ASSUME NEW x \in edits, x[1] = n PROVE n - 1 \in 0 .. n
      BY PendingMeets
    <3>2. x \in Layer.edits
      BY <1>1, LastLayer DEF IInv
    <3>3. n \in 1 .. Total
      BY <1>1, <3>1, <3>2, FilteredLayer
    <3> QED BY <1>2, <3>3
  <2>3. n \in 0 .. n
    BY <1>1, <1>2
  <2>4. p \notin DOMAIN SoFar(n, p).values
    BY <2>1, <2>2, <2>3 DEF SoFar
  <2> QED BY <2>1, <2>4 DEF Agree, At, IsScalar
<1> HIDE DEF known
<1>5. (\A p \in known : Selected(last.allowed, p) =>
                          Agree(merger, SoFar(n, p), p) \/ TakenAway(p))
        <=> \A p \in Paths : Selected(last.allowed, p) =>
                               Agree(merger, SoFar(n, p), p) \/ TakenAway(p)
  BY <1>3, <1>4
<1> QED BY <1>5 DEF AllAgree, SoFar, known

\* From one place to a later one between which nothing is left: the edits in between have
\* nothing to do with what is selected, or they would have left their parts.
LEMMA Onwards ==
  ASSUME IInv, layers # <<>>, last.allowed # Everything,
         NEW m, NEW left \in SUBSET Layer.edits,
         NEW k \in 0 .. Total, AtPlace(left, k), ~Unfiltered[k].failed => AllAgree(m, left, k),
         NEW n \in 0 .. Total, k <= n, AtPlace(left, n), ~Unfiltered[n].failed
  PROVE  AllAgree(m, left, n)
<1> DEFINE Good(j) == k <= j /\ AtPlace(left, j) /\ ~Unfiltered[j].failed
           T == {j \in 0 .. Total : Good(j) /\ ~AllAgree(m, left, j)}
<1>1. /\ Total \in Nat /\ last.allowed \in SUBSET Seq(Keys) /\ Len(layers) \in Nat
      /\ last.layer.locations \in SUBSET Seq(Keys) /\ \A j \in 1 .. Total : IsEdit(Nth(j))
  BY WholeLayer
<1>2. /\ \A x \in Layer.edits : x[1] \in 1 .. Total
      /\ \A j \in 1 .. Total : \A e \in ProjectEdit(last.allowed, Nth(j)) :
           <<j, e>> \in Layer.edits
  BY FilteredLayer
<1>3. SUFFICES ASSUME T # {} PROVE FALSE
  OBVIOUS
<1>4. T \in SUBSET Nat
  BY <1>1
<1>5. PICK j \in T : \A l \in T : j <= l
  <2> HIDE DEF T
  <2> QED BY <1>3, <1>4, LeastNatural
<1>6. /\ j \in 0 .. Total /\ k <= j /\ AtPlace(left, j) /\ ~Unfiltered[j].failed
      /\ ~AllAgree(m, left, j)
  OBVIOUS
<1>7. k # j
  BY <1>6
<1>8. j \in 1 .. Total /\ j - 1 \in 0 .. Total /\ k <= j - 1 /\ ~(j <= j - 1) /\ j > k
  BY <1>1, <1>6, <1>7
<1>9. Unfiltered[j] = MakeNth(Unfiltered[j - 1], j) /\ ~Unfiltered[j - 1].failed
      /\ ~Failing(Unfiltered[j - 1], Nth(j)) /\ IsMerger(Unfiltered[j - 1])
  BY <1>6, <1>8, UnfilteredIsMerger
<1>10. \A y \in Layer.edits : y[1] = j => y \in left
  BY <1>8 DEF AtPlace
<1>11. AtPlace(left, j - 1) /\ \A x \in left : x[1] # j - 1
  <2>1. ASSUME NEW x \in left PROVE x[1] >= j - 1 /\ x[1] # j - 1
    <3>1. x[1] \in 1 .. Total /\ x[1] >= j
      BY <1>2, <1>6 DEF AtPlace
    <3> QED BY <1>1, <1>8, <3>1
  <2>2. ASSUME NEW y \in Layer.edits, y[1] > j - 1 PROVE y \in left
    <3>1. y[1] = j \/ y[1] > j
      BY <1>1, <1>2, <1>8, <2>2
    <3> QED BY <1>6, <1>10, <3>1 DEF AtPlace
  <2> QED BY <2>1, <2>2 DEF AtPlace
<1>12. AllAgree(m, left, j - 1)
  BY <1>5, <1>8, <1>9, <1>11
<1>13. ASSUME NEW p \in Paths, Selected(last.allowed, p), ~TakenAway(p)
       PROVE  Agree(m, IF Pending(left, j, p) THEN Unfiltered[j - 1] ELSE Unfiltered[j], p)
  <2>1. ~Pending(left, j - 1, p)
    BY <1>11, PendingMeets
  <2>2. Agree(m, Unfiltered[j - 1], p)
    BY <1>12, <1>13, <2>1 DEF AllAgree
  <2>3. CASE Pending(left, j, p)
    BY <2>2, <2>3
  <2>4. CASE ~Pending(left, j, p)
    <3>1. ASSUME NEW e \in ProjectEdit(last.allowed, Nth(j)) PROVE ~Meet(e.path, p)
      <4>1. <<j, e>> \in left
        BY <1>2, <1>8, <1>10
      <4> QED BY <2>4, <4>1, PendingMeets
    <3>2. ~Meet(Nth(j).path, p)
      BY <1>1, <1>8, <1>13, <3>1, PartsMeet
    <3>3. Agree(m, Edit(Unfiltered[j - 1], Nth(j), Len(layers), last.layer.locations), p)
      BY <1>1, <1>8, <1>9, <1>13, <2>2, <3>2, AgreeElsewhere
    <3> QED BY <1>9, <2>4, <3>3 DEF MakeNth, Nth
  <2> QED BY <2>3, <2>4
<1> QED BY <1>6, <1>13 DEF AllAgree

\* mergeMap has come to an end, and no edit is made yet.
Ends == walk = {} /\ edits = Layer.edits

LEMMA EndIsWhole == IInv /\ WalkOrigins /\ Ends => WholeAllOver
<1> SUFFICES ASSUME IInv, WalkOrigins, Ends, layers # <<>>, last.allowed # Everything,
                    ~merger.failed
             PROVE  \A n \in 0 .. Total :
                      AtPlace(edits, n) /\ ~Unfiltered[n].failed => AllAgree(merger, edits, n)
  BY DEF WholeAllOver
<1> DEFINE v == base.values
           t == last.layer.values
           i == Len(layers)
           known == last.layer.locations
           allowed == last.allowed
           whole == Unfiltered[0]
<1>1. /\ Total \in Nat /\ IsTree(t) /\ known \in SUBSET Seq(Keys)
      /\ allowed \in SUBSET Seq(Keys) /\ ~Rejected(allowed) /\ i \in Nat
      /\ IsMerger(base) /\ IsMerger(merger)
  BY WholeLayer
<1>2. /\ Layer.values = Project(allowed, t) /\ Layer.locations = Known(allowed, known)
      /\ \A x \in Layer.edits : x[1] \in 1 .. Total
  BY FilteredLayer
<1>3. /\ whole.values = Pathwise(v, t)
      /\ whole.origins = Add(base.origins, DOMAIN t, i, "set", known)
      /\ IsMerger(whole)
  BY <1>1, UnfilteredIsMerger
<1>4. \A p \in Paths : At(merger.values, p) = At(Pathwise(v, Project(allowed, t)), p)
  <2>1. Walked(merger.values, v, Layer.values, walk)
    BY WalkIs DEF IInv, Ends
  <2> QED BY <1>2, <2>1 DEF Walked, Ends
<1>5. /\ Gains(whole.origins, base.origins, DOMAIN t)
      /\ Wrote(whole.origins, DOMAIN t, i, "set", known)
      /\ \A p \in DOMAIN base.origins : p \notin DOMAIN t =>
           whole.origins[p] = base.origins[p]
  <2> DEFINE after == Add(base.origins, DOMAIN t, i, "set", known)
  <2> HIDE DEF t, i, known, whole
  <2>1. /\ Gains(after, base.origins, DOMAIN t) /\ Wrote(after, DOMAIN t, i, "set", known)
        /\ \A p \in DOMAIN base.origins : p \notin DOMAIN t => after[p] = base.origins[p]
    <3>1. IsMerger(base) /\ IsTree(t) /\ i \in Nat /\ known \in SUBSET Seq(Keys)
      BY <1>1
    <3> QED BY <3>1, StartOrigins
  <2>2. whole.origins = after
    BY <1>3
  <2> HIDE DEF after
  <2> QED BY <2>1, <2>2
<1> HIDE DEF v, t, i, known, allowed, whole
<1>6. ASSUME NEW p \in Paths, Selected(allowed, p), ~TakenAway(p)
      PROVE  Agree(merger, whole, p)
  <2>1. At(merger.values, p) = At(Pathwise(v, t), p)
    <3>1. IsTree(v)
      BY <1>1 DEF IsMerger, v
    <3>2. \A q \in Above(p) : Selected(allowed, q) \/ ~(IsScalar(t, q) \/ Switches(v, t, q))
      BY <1>6 DEF TakenAway, v, t, allowed
    <3> QED BY <1>1, <1>4, <1>6, <3>1, <3>2, SelectedIsMerged
  <2>2. p \in DOMAIN Layer.values <=> p \in DOMAIN t
    BY <1>1, <1>2, <1>6, SelectedIsProjected
  <2>3. ASSUME IsScalar(merger.values, p)
        PROVE  p \in DOMAIN whole.origins /\ Last(merger.origins[p]) = Last(whole.origins[p])
    <3>1. Last(merger.origins[p]) =
            IF p \in DOMAIN t THEN <<i, "set", Nearest(Layer.locations, p)>>
            ELSE Last(base.origins[p])
      <4>1. layers # <<>> /\ edits = Layer.edits /\ walk = {} /\ p \in DOMAIN merger.values
        BY <2>3 DEF Ends, IsScalar
      <4> QED BY <2>2, <2>3, <4>1 DEF WalkOrigins, i
    <3>2. CASE p \in DOMAIN t
      <4>1. Nearest(Layer.locations, p) = Nearest(known, p)
        BY <1>1, <1>2, <1>6, NearestIsKept
      <4> QED BY <1>5, <3>1, <3>2, <4>1 DEF Gains, Wrote
    <3>3. CASE p \notin DOMAIN t
      <4>1. IsPart(v) /\ IsPart(merger.values) /\ IsTree(v)
        BY <1>1 DEF IsMerger, IsTree, v
      <4>2. At(merger.values, p) \in {At(v, p), "nothing"}
        BY <1>1, <2>1, <3>3, <4>1, PathwiseAt
      <4>3. IsScalar(v, p)
        BY <2>3, <4>1, <4>2, AtTells
      <4>4. p \in DOMAIN base.origins
        BY <4>3 DEF IInv, OriginsGrow, IsScalar, v
      <4> QED BY <1>5, <3>1, <3>3, <4>4 DEF Gains
    <3> QED BY <3>2, <3>3
  <2> QED BY <1>3, <2>1, <2>3 DEF Agree
<1>7. ASSUME NEW p PROVE ~Pending(edits, 0, p)
  BY <1>1, <1>2 DEF Pending, Ends
<1>8. AllAgree(merger, edits, 0)
  BY <1>6, <1>7 DEF AllAgree, whole, allowed
<1>9. 0 \in 0 .. Total /\ AtPlace(edits, 0)
  BY <1>1, <1>2 DEF AtPlace, Ends
<1>10. edits \in SUBSET Layer.edits
  BY DEF Ends
<1>11. ASSUME NEW n \in 0 .. Total, AtPlace(edits, n), ~Unfiltered[n].failed
       PROVE  AllAgree(merger, edits, n)
  <2>1. 0 <= n
    BY <1>1
  <2> QED BY <1>8, <1>9, <1>10, <1>11, <2>1, Onwards
<1> QED BY <1>11

-----------------------------------------------------------------------------
(* The steps of apply.                                                      *)

\* The layer that apply is given is the last one.
LEMMA NewLayer ==
  ASSUME IInv, NEW layer, NEW allowed, ApplyNext(layer, allowed)
  PROVE  /\ layers' # <<>> /\ Layer' = ReadThrough(allowed, layer)
         /\ edits' = Layer'.edits
<1> DEFINE read == ReadThrough(allowed, layer)
           S == ToSet(layers) \cup {read}
<1>1. layers' = Append(layers, read) /\ edits' = read.edits
  BY DEF ApplyNext
<1>2. layers \in Seq(S) /\ read \in S
  BY DEF IInv, TypeOK
<1> HIDE DEF S, read
<1>3. layers' \in Seq(S) /\ Len(layers') = Len(layers) + 1 /\ layers'[Len(layers')] = read
  BY <1>1, <1>2
<1>4. layers' # <<>>
  BY <1>2, <1>3
<1>5. Layer' = read
  BY <1>3 DEF Layer, Last
<1> QED BY <1>1, <1>4, <1>5 DEF read

LEMMA ApplyNextWalks ==
  ASSUME IInv, NEW layer \in Inputs, NEW allowed \in Selections \cup {Everything},
         ApplyNext(layer, allowed)
  PROVE  WalkOrigins' /\ InPlaces'
<1>1. /\ ~merger.failed /\ merger' = merger /\ base' = merger
      /\ layers' = Append(layers, ReadThrough(allowed, layer))
      /\ walk' = Children(ReadThrough(allowed, layer).values, <<>>)
      /\ edits' = ReadThrough(allowed, layer).edits
  BY DEF ApplyNext
<1>2. IInv'
  BY ApplyNextKeeps
<1>3. layers' # <<>> /\ Layer' = ReadThrough(allowed, layer)
  BY NewLayer
<1>4. IsTree(Layer'.values) /\ IsTree(merger.values)
  <2>1. TypeOK' /\ ReadInv' /\ TypeOK
    BY <1>2 DEF IInv
  <2>2. IsRead(Layer')
    <3>1. /\ layers' \in Seq(ToSet(layers')) /\ \A i \in DOMAIN layers' : IsRead(layers'[i])
      BY <2>1 DEF TypeOK
    <3>2. Len(layers') \in DOMAIN layers'
      BY <1>3, <3>1
    <3> QED BY <3>1, <3>2 DEF Layer, Last
  <2> QED BY <2>1, <2>2 DEF IsRead, TypeOK, IsMerger
<1>5. ASSUME NEW p \in DOMAIN Layer'.values
      PROVE  \E q \in walk' : IsPrefix(q, p)
  <2>1. p \in Paths /\ <<>> \in Seq(Keys)
    BY <1>4 DEF IsTree, IsPart
  <2>2. IsStrictPrefix(<<>>, p)
    <3>1. p \in Seq(Keys) /\ p # <<>> /\ Len(<<>>) <= Len(p)
          /\ \A i \in 1 .. Len(<<>>) : <<>>[i] = p[i]
      BY <2>1 DEF Paths
    <3> QED BY <2>1, <3>1, PrefixByKeys DEF IsStrictPrefix
  <2> QED BY <1>1, <1>3, <1>4, <2>1, <2>2, ChildOnWay
<1>6. WalkOrigins'
  BY <1>1, <1>5 DEF WalkOrigins
<1>7. InPlaces'
  BY <1>1, <1>3 DEF InPlaces
<1> QED BY <1>6, <1>7

LEMMA MergeKeyWalks ==
  ASSUME IInv, WalkOrigins, InPlaces, NEW p \in walk, MergeKey(p)
  PROVE  WalkOrigins' /\ InPlaces'
<1> DEFINE t == Layer.values
           i == Len(layers)
           over == ~GoesOn(merger.values, t, p)
           given == IF over THEN From(DOMAIN t, p) ELSE {p}
           from(r) == <<i, "set", Nearest(Layer.locations, r)>>
<1>1. TypeOK /\ ReadInv /\ WalkInv /\ OriginsExplainValues
  BY DEF IInv
<1>2. layers # <<>>
  BY <1>1 DEF ReadInv, Applied
<1>3. /\ layers' = layers /\ last' = last /\ base' = base /\ edits' = edits
      /\ walk' = (walk \ {p}) \cup IF over THEN {} ELSE Children(t, p)
  BY DEF MergeKey
<1>4. Layer' = Layer
  BY <1>3 DEF Layer
<1>5. /\ IsMerger(merger) /\ IsMerger(merger') /\ merger'.failed = merger.failed
      /\ \A r \in Paths :
           At(merger'.values, r) =
             IF over /\ IsPrefix(p, r) THEN At(t, r) ELSE At(merger.values, r)
      /\ Wrote(merger'.origins, given, i, "set", Layer.locations)
      /\ \A r \in DOMAIN merger.origins \ given :
           IF over /\ p \in DOMAIN merger.values /\ IsPrefix(p, r)
             THEN Said(merger'.origins, r, i, "replaced")
             ELSE merger'.origins[r] = merger.origins[r]
  BY <1>1, MergeKeyDoes DEF TypeOK
<1>6. /\ IsTree(t) /\ walk \subseteq DOMAIN t /\ p \in Paths /\ p \in DOMAIN t
      /\ edits = Layer.edits
      /\ \A q, r \in walk : IsPrefix(q, r) => q = r
      /\ \A q \in walk : q \in Seq(Keys)
  <2>1. IsTree(t) /\ walk \subseteq DOMAIN t
    BY <1>1, <1>2, LastLayer DEF IsRead
  <2>2. edits = Layer.edits /\ \A q, r \in walk : IsPrefix(q, r) => q = r
    BY <1>1, <1>2 DEF WalkInv
  <2> QED BY <2>1, <2>2 DEF IsTree, IsPart, Paths
<1>7. /\ ~merger.failed
      /\ \A r \in DOMAIN merger.values :
           IsScalar(merger.values, r) =>
             /\ r \in DOMAIN merger.origins
             /\ Last(merger.origins[r]) =
                  IF r \in DOMAIN t /\ ~\E q \in walk : IsPrefix(q, r)
                    THEN from(r) ELSE Last(base.origins[r])
  BY <1>1, <1>2, <1>6 DEF WalkOrigins, OriginsExplainValues
<1>8. ~over => IsMap(merger.values, p)
  BY DEF GoesOn
<1>9. IsPrefix(p, p) /\ p \in Seq(Keys) /\ IsPart(t)
  BY <1>6, PrefixOrders DEF Paths, IsTree
<1>10. \A r : r \in given <=> IF over THEN r \in DOMAIN t /\ IsPrefix(p, r) ELSE r = p
  BY DEF From
<1> HIDE DEF t, i, over, given, from
<1>11. ASSUME NEW r \in DOMAIN merger'.values, IsScalar(merger'.values, r)
       PROVE  Last(merger'.origins[r]) =
                IF r \in DOMAIN t /\ ~\E q \in walk' : IsPrefix(q, r)
                  THEN from(r) ELSE Last(base.origins[r])
  <2>1. r \in Paths /\ r \in Seq(Keys) /\ IsPart(merger'.values) /\ IsPart(merger.values)
    BY <1>5 DEF IsMerger, IsTree, IsPart, Paths
  <2>2. CASE over /\ IsPrefix(p, r)
    <3>1. At(merger'.values, r) = At(t, r)
      BY <1>5, <2>1, <2>2
    <3>2. r \in DOMAIN t
      BY <1>9, <1>11, <2>1, <3>1, AtTells
    <3>3. Last(merger'.origins[r]) = from(r)
      BY <1>5, <1>10, <2>2, <3>2 DEF Wrote, from
    <3>4. ASSUME NEW q \in walk', IsPrefix(q, r) PROVE FALSE
      <4>1. q \in walk /\ q # p
        BY <1>3, <2>2
      <4> QED BY <1>6, <1>9, <2>1, <2>2, <3>4, <4>1, PrefixOrders
    <3> QED BY <3>2, <3>3, <3>4
  <2>3. CASE ~(over /\ IsPrefix(p, r))
    <3>1. At(merger'.values, r) = At(merger.values, r)
      BY <1>5, <2>1, <2>3
    <3>2. r \in DOMAIN merger.values /\ IsScalar(merger.values, r)
      BY <1>11, <2>1, <3>1, AtTells DEF IsScalar
    <3>3. r \notin given
      BY <1>8, <1>10, <2>3, <3>2 DEF IsMap, IsScalar
    <3>4. merger'.origins[r] = merger.origins[r]
      BY <1>5, <1>7, <2>3, <3>2, <3>3
    <3>5. r \in DOMAIN t => ((\E q \in walk' : IsPrefix(q, r)) <=> \E q \in walk : IsPrefix(q, r))
      <4>1. SUFFICES ASSUME r \in DOMAIN t
                     PROVE  (\E q \in walk' : IsPrefix(q, r)) <=> \E q \in walk : IsPrefix(q, r)
        OBVIOUS
      <4>2. ASSUME NEW q \in walk', IsPrefix(q, r) PROVE \E x \in walk : IsPrefix(x, r)
        <5>1. CASE q \in walk
          BY <4>2, <5>1
        <5>2. CASE q \in Children(t, p)
          <6>1. q \in Seq(Keys) /\ IsPrefix(p, q)
            BY <1>6, <1>9, <5>2, ChildIsBelow DEF Paths, IsStrictPrefix
          <6> QED BY <1>9, <2>1, <4>2, <6>1, PrefixOrders
        <5> QED BY <1>3, <4>2, <5>1, <5>2
      <4>3. ASSUME NEW q \in walk, IsPrefix(q, r) PROVE \E x \in walk' : IsPrefix(x, r)
        <5>1. CASE q # p
          BY <1>3, <4>3, <5>1
        <5>2. CASE q = p
          <6>1. ~over /\ r # p
            BY <1>8, <2>3, <3>2, <4>3, <5>2 DEF IsMap, IsScalar
          <6>2. \E x \in Children(t, p) : IsPrefix(x, r)
            BY <1>6, <1>9, <4>1, <4>3, <5>2, <6>1, ChildOnWay DEF IsStrictPrefix
          <6> QED BY <1>3, <6>1, <6>2
        <5> QED BY <5>1, <5>2
      <4> QED BY <4>2, <4>3
    <3> QED BY <1>7, <3>2, <3>4, <3>5
  <2> QED BY <2>2, <2>3
<1>12. WalkOrigins'
  BY <1>3, <1>4, <1>5, <1>7, <1>11 DEF WalkOrigins, t, i, from
<1>13. InPlaces'
  BY <1>3, <1>4 DEF InPlaces
<1> QED BY <1>12, <1>13

\* A part is made: what it has to do with is now as after the whole edit, since no other
\* part of that edit has to do with it; the rest is as it was.
LEMMA MakeEditGoesOn ==
  ASSUME IInv, InPlaces, WholeAllOver, NEW edit \in edits, MakeEdit(edit[1], edit[2]),
         last.allowed # Everything, ~merger'.failed
  PROVE  LET k == edit[1]
         IN  /\ k \in 1 .. Total /\ AtPlace(edits', k)
             /\ ~Unfiltered[k].failed => AllAgree(merger', edits', k)
<1> DEFINE k == edit[1]
           e == edit[2]
           i == Len(layers)
           known == last.layer.locations
           allowed == last.allowed
<1>1. TypeOK /\ ReadInv /\ OriginsExplainValues
  BY DEF IInv
<1>2. layers # <<>>
  BY <1>1 DEF ReadInv, Applied
<1>3. /\ Total \in Nat /\ known \in SUBSET Seq(Keys) /\ allowed \in SUBSET Seq(Keys)
      /\ i \in Nat /\ IsMerger(merger) /\ \A n \in 1 .. Total : IsEdit(Nth(n))
      /\ IsRead(Layer)
  BY <1>2, WholeLayer
<1>4. /\ edits \subseteq Layer.edits /\ edit \in Layer.edits
  BY <1>1, <1>2, LastLayer
<1>5. /\ \A x \in Layer.edits :
           x[1] \in 1 .. Total /\ x[2] \in ProjectEdit(allowed, Nth(x[1]))
      /\ Layer.locations = Known(allowed, known)
  BY <1>2, FilteredLayer
<1>6. /\ edit = <<k, e>> /\ k \in 1 .. Total /\ e \in ProjectEdit(allowed, Nth(k))
      /\ IsEdit(e) /\ IsEdit(Nth(k))
      /\ \A x \in Layer.edits : x = <<x[1], x[2]>>
  BY <1>3, <1>4, <1>5 DEF IsRead
<1>7. /\ walk = {} /\ \A other \in edits : k <= other[1]
      /\ merger' = Edit(merger, e, i, Known(allowed, known))
      /\ edits' = edits \ {edit}
  BY <1>5, <1>6 DEF MakeEdit
<1>8. ~Failing(merger, e)
  BY <1>3, <1>7, EditFails
<1>9. ~merger.failed
  BY <1>8 DEF Failing
<1>10. AtPlace(edits, k) /\ AtPlace(edits', k)
  <2>1. \A x \in edits : x[1] >= k
    BY <1>3, <1>4, <1>5, <1>6, <1>7
  <2>2. \A y \in Layer.edits : y[1] > k => y \in edits /\ y # edit
    BY <1>2, <1>6 DEF InPlaces
  <2> QED BY <1>7, <2>1, <2>2 DEF AtPlace
<1>11. Explained(merger)
  BY <1>1, <1>9 DEF OriginsExplainValues, Explained
<1>12. ASSUME ~Unfiltered[k].failed, NEW p \in Paths, Selected(allowed, p), ~TakenAway(p)
       PROVE  Agree(merger', IF Pending(edits', k, p) THEN Unfiltered[k - 1]
                             ELSE Unfiltered[k], p)
  <2>1. /\ IsMerger(Unfiltered[k - 1]) /\ ~Failing(Unfiltered[k - 1], Nth(k))
        /\ Unfiltered[k] = Edit(Unfiltered[k - 1], Nth(k), i, known)
    <3>1. k - 1 \in 0 .. Total
      BY <1>3, <1>6
    <3> QED BY <1>2, <1>6, <1>12, <3>1, UnfilteredIsMerger DEF MakeNth, Nth
  <2>2. Agree(merger, IF Pending(edits, k, p) THEN Unfiltered[k - 1] ELSE Unfiltered[k], p)
    <3>1. k \in 0 .. Total
      BY <1>3, <1>6
    <3>2. AllAgree(merger, edits, k)
      BY <1>2, <1>7, <1>9, <1>10, <1>12, <3>1 DEF WholeAllOver
    <3> QED BY <1>12, <3>2 DEF AllAgree
  <2> HIDE DEF k, e, i, known, allowed
  <2>3. CASE Meet(e.path, p)
    <3>1. Pending(edits, k, p)
      BY <1>6, <2>3, PendingMeets
    <3>2. ~Pending(edits', k, p)
      <4>1. SUFFICES ASSUME NEW x \in edits', x[1] = k, Meet(x[2].path, p) PROVE FALSE
        BY PendingMeets
      <4>2. x \in Layer.edits /\ x # edit
        BY <1>4, <1>7
      <4>3. x[2] \in ProjectEdit(allowed, Nth(k)) /\ x = <<k, x[2]>>
        BY <1>5, <1>6, <4>1, <4>2
      <4>4. x[2] = e
        BY <1>3, <1>6, <1>12, <2>3, <4>1, <4>3, PartsMeet
      <4> QED BY <1>6, <4>2, <4>3, <4>4
    <3>3. Agree(merger', Unfiltered[k], p)
      BY <1>3, <1>6, <1>7, <1>8, <1>12, <2>1, <2>2, <2>3, <3>1, AgreeAfterPart
    <3> QED BY <3>2, <3>3
  <2>4. CASE ~Meet(e.path, p)
    <3>1. Pending(edits', k, p) <=> Pending(edits, k, p)
      <4>1. \A x \in edits : Meet(x[2].path, p) => x # edit
        BY <1>6, <2>4
      <4> QED BY <1>7, <4>1, PendingMeets
    <3>2. Known(allowed, known) \in SUBSET Seq(Keys)
      BY <1>3 DEF Known
    <3>3. Agree(merger', IF Pending(edits, k, p) THEN Unfiltered[k - 1] ELSE Unfiltered[k], p)
      BY <1>3, <1>6, <1>7, <1>8, <1>11, <2>2, <2>4, <3>2, AgreeElsewhere
    <3> QED BY <3>1, <3>3
  <2> QED BY <2>3, <2>4
<1>13. ~Unfiltered[k].failed => AllAgree(merger', edits', k)
  BY <1>12 DEF AllAgree
<1> QED BY <1>6, <1>10, <1>13

\* The unfiltered layer is the same as long as the last layer and what was before are.
LEMMA UnfilteredStays ==
  ASSUME last' = last, layers' = layers, base' = base
  PROVE  /\ Unfiltered' = Unfiltered /\ Layer' = Layer /\ Total' = Total
         /\ \A p : TakenAway(p)' <=> TakenAway(p)
<1>1. Unfiltered' = Unfiltered
  BY DEF Unfiltered
<1>2. Layer' = Layer /\ Total' = Total
  BY DEF Layer, Total
<1>3. \A p : TakenAway(p)' <=> TakenAway(p)
  BY DEF TakenAway
<1> QED BY <1>1, <1>2, <1>3

LEMMA MakeEditKeepsWhole ==
  ASSUME IInv, InPlaces, WholeAllOver, NEW edit \in edits, MakeEdit(edit[1], edit[2])
  PROVE  InPlaces' /\ WalkOrigins' /\ WholeAllOver'
<1> DEFINE k == edit[1]
<1>1. TypeOK /\ ReadInv
  BY DEF IInv
<1>2. layers # <<>>
  BY <1>1 DEF ReadInv, Applied
<1>3. /\ layers' = layers /\ last' = last /\ base' = base /\ walk' = walk
      /\ \A other \in edits : k <= other[1]
      /\ edits' = IF merger'.failed THEN {} ELSE edits \ {<<k, edit[2]>>}
  BY DEF MakeEdit
<1>4. /\ edits \subseteq Layer.edits /\ \A x \in Layer.edits : x = <<x[1], x[2]>> /\ x[1] \in Nat
  BY <1>1, <1>2, LastLayer DEF IsRead
<1>5. /\ Unfiltered' = Unfiltered /\ Layer' = Layer /\ Total' = Total
      /\ \A p : TakenAway(p)' <=> TakenAway(p)
  BY <1>3, UnfilteredStays
<1>6. edit \in Layer.edits /\ edit \notin edits' /\ edits' \subseteq edits
      /\ (~merger'.failed => edits' = edits \ {edit})
  BY <1>3, <1>4
<1>7. InPlaces'
  <2>1. SUFFICES ASSUME NEW x \in edits', NEW y \in Layer.edits, y[1] > x[1]
                 PROVE  y \in edits'
    BY <1>5 DEF InPlaces
  <2>2. x \in edits /\ y \in edits /\ ~merger'.failed
    BY <1>2, <1>3, <1>6, <2>1 DEF InPlaces
  <2>3. y # edit
    <3>1. k <= x[1] /\ k \in Nat /\ x[1] \in Nat
      BY <1>3, <1>4, <1>6, <2>2
    <3> QED BY <2>1, <3>1
  <2> QED BY <1>6, <2>2, <2>3
<1>8. WalkOrigins'
  BY <1>5, <1>6 DEF WalkOrigins
<1>9. WholeAllOver'
  <2>1. SUFFICES ASSUME last.allowed # Everything, ~merger'.failed,
                        NEW n \in 0 .. Total, AtPlace(edits', n), ~Unfiltered[n].failed
                 PROVE  AllAgree(merger', edits', n)
    <3>1. \A n : AtPlace(edits, n)' <=> AtPlace(edits', n)
      BY <1>5 DEF AtPlace
    <3>2. \A n : AllAgree(merger, edits, n)' <=> AllAgree(merger', edits', n)
      BY <1>3, <1>5 DEF AllAgree, Pending
    <3> QED BY <1>3, <1>5, <3>1, <3>2 DEF WholeAllOver
  <2>2. /\ k \in 1 .. Total /\ AtPlace(edits', k)
        /\ ~Unfiltered[k].failed => AllAgree(merger', edits', k)
    BY <2>1, MakeEditGoesOn
  <2>3. Total \in Nat
    BY <1>2, WholeLayer
  <2>4. k <= n
    <3>1. ~(k > n)
      BY <1>6, <2>1 DEF AtPlace
    <3> QED BY <2>2, <2>3, <3>1
  <2>5. edits' \in SUBSET Layer.edits /\ k \in 0 .. Total
    BY <1>4, <1>6, <2>2, <2>3
  <2> HIDE DEF k
  <2> QED BY <1>2, <2>1, <2>2, <2>4, <2>5, Onwards
<1> QED BY <1>7, <1>8, <1>9

\* With IInv, which is inductive by itself, so are these; the agreement begins anew where
\* the walk ends.
LEMMA StepKeepsWhole ==
  IInv /\ WalkOrigins /\ InPlaces /\ WholeAllOver /\ [Next]_vars =>
    WalkOrigins' /\ InPlaces' /\ (WholeAllOver' \/ Ends')
<1> SUFFICES ASSUME IInv, WalkOrigins, InPlaces, WholeAllOver, [Next]_vars
             PROVE  WalkOrigins' /\ InPlaces' /\ (WholeAllOver' \/ Ends')
  OBVIOUS
<1>1. ASSUME NEW layer \in Inputs, NEW allowed \in Filters, ApplyNext(layer, allowed)
      PROVE  WalkOrigins' /\ InPlaces' /\ (WholeAllOver' \/ Ends')
  <2>1. allowed \in Selections \cup {Everything}
    BY DEF Filters
  <2>2. WalkOrigins' /\ InPlaces'
    BY <1>1, <2>1, ApplyNextWalks
  <2>3. edits' = Layer'.edits
    BY <1>1, NewLayer
  <2>4. walk' = {} => Ends'
    BY <2>3 DEF Ends
  <2>5. walk' # {} => WholeAllOver'
    BY DEF WholeAllOver
  <2> QED BY <2>2, <2>4, <2>5
<1>2. ASSUME NEW p \in walk, MergeKey(p)
      PROVE  WalkOrigins' /\ InPlaces' /\ (WholeAllOver' \/ Ends')
  <2>1. WalkOrigins' /\ InPlaces'
    BY <1>2, MergeKeyWalks
  <2>2. edits' = Layer'.edits
    <3>1. layers # <<>> /\ edits = Layer.edits
      BY <1>2 DEF IInv, ReadInv, WalkInv, Applied
    <3> QED BY <1>2, <3>1 DEF MergeKey, Layer
  <2>3. walk' = {} => Ends'
    BY <2>2 DEF Ends
  <2>4. walk' # {} => WholeAllOver'
    BY DEF WholeAllOver
  <2> QED BY <2>1, <2>3, <2>4
<1>3. ASSUME NEW edit \in edits, MakeEdit(edit[1], edit[2])
      PROVE  WalkOrigins' /\ InPlaces' /\ (WholeAllOver' \/ Ends')
  BY <1>3, MakeEditKeepsWhole
<1>4. CASE UNCHANGED vars
  <2>1. /\ merger' = merger /\ layers' = layers /\ last' = last /\ walk' = walk
        /\ edits' = edits /\ base' = base
    BY <1>4 DEF vars
  <2>2. /\ Unfiltered' = Unfiltered /\ Layer' = Layer /\ Total' = Total
        /\ \A p : TakenAway(p)' <=> TakenAway(p)
    BY <2>1, UnfilteredStays
  <2>3. WalkOrigins' /\ InPlaces'
    BY <2>1, <2>2 DEF WalkOrigins, InPlaces
  <2>4. WholeAllOver'
    BY <2>1, <2>2 DEF WholeAllOver, AllAgree, AtPlace, Pending
  <2> QED BY <2>3, <2>4
<1> QED BY <1>1, <1>2, <1>3, <1>4 DEF Next

-----------------------------------------------------------------------------

\* Place after place, what is selected is as the edits of the whole layer leave it, and the
\* origins tell the same: the invariant by which AllowPaths is as it should be.
THEOREM FilterIsInductive == Spec => []FilterInv
<1>1. Init => WalkOrigins /\ InPlaces /\ WholeAllOver
  BY DEF Init, WalkOrigins, InPlaces, WholeAllOver
<1>2. IInv => (WholeSoFar <=> WholeAllOver)
  BY WholeIsAllOver
<1>3. IInv /\ WalkOrigins /\ Ends => WholeAllOver
  BY EndIsWhole
<1>4. IInv /\ WalkOrigins /\ InPlaces /\ WholeAllOver /\ [Next]_vars =>
        WalkOrigins' /\ InPlaces' /\ (WholeAllOver' \/ Ends')
  BY StepKeepsWhole
<1>5. FilterInv <=> IInv /\ WalkOrigins /\ InPlaces /\ WholeSoFar
  BY DEF FilterInv
<1>6. Spec => []IInv
  BY Inductive
<1>7. Spec => []WholeAllOver /\ []WalkOrigins /\ []InPlaces
  BY <1>1, <1>3, <1>4, <1>6, PTL DEF Spec
<1> QED BY <1>2, <1>5, <1>6, <1>7, PTL

\* What a filtered source says of the selected paths is all there, with its locations, and
\* nothing else about them: Read of filter.go, projectEdit and project, for any layer and
\* any selection that validate does not refuse.
THEOREM SelectedIsKept == Spec => []SelectedIsWhole
<1>1. FilterInv => SelectedIsWhole
  <2>1. SUFFICES ASSUME FilterInv, last.allowed # Everything, Applied, ~merger.failed,
                        ~WithoutFilter.failed,
                        NEW p \in DOMAIN merger.values \cup DOMAIN WithoutFilter.values,
                        Selected(last.allowed, p), ~TakenAway(p)
                 PROVE  Agree(merger, WithoutFilter, p)
    BY DEF SelectedIsWhole
  <2>2. IInv /\ WholeSoFar /\ ReadInv
    BY <2>1 DEF FilterInv, IInv
  <2>3. layers # <<>>
    <3>1. NoSource.allowed = Everything
      BY DEF NoSource
    <3> QED BY <2>1, <2>2, <3>1 DEF ReadInv
  <2>4. Total \in Nat
    BY <2>2, <2>3, WholeLayer
  <2>5. Total \in 0 .. Total /\ edits = {} /\ walk = {}
    BY <2>1, <2>4 DEF Applied
  <2>6. AtPlace(edits, Total)
    <3>1. \A y \in Layer.edits : ~(y[1] > Total)
      <4>1. \A y \in Layer.edits : y[1] \in 1 .. Total
        BY <2>1, <2>2, <2>3, FilteredLayer
      <4> QED BY <2>4, <4>1
    <3> QED BY <2>5, <3>1 DEF AtPlace
  <2>7. WithoutFilter = Unfiltered[Total] /\ SoFar(Total, p) = Unfiltered[Total]
    BY <2>5 DEF WithoutFilter, Total, SoFar, Pending
  <2>8. p \in DOMAIN merger.values
                \cup UNION {DOMAIN Unfiltered[k].values : k \in 0 .. Total}
    BY <2>1, <2>5, <2>7
  <2>9. Agree(merger, SoFar(Total, p), p)
    BY <2>1, <2>2, <2>3, <2>5, <2>6, <2>7, <2>8 DEF WholeSoFar, Total
  <2> QED BY <2>7, <2>9
<1> QED BY <1>1, FilterIsInductive, PTL
=============================================================================
