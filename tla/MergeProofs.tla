---------------------------- MODULE MergeProofs ----------------------------
(***************************************************************************)
(* Merging and AllowPaths, for any layers, selections and OneOfs: the walk  *)
(* of mergeMap comes to what Pathwise says, values and their provenance     *)
(* agree, and a filtered source leaves alone what is not selected.          *)
(***************************************************************************)
EXTENDS MergeLayers, WellFoundedInduction, TLAPS

\* A non-empty set of naturals has a least element: what stands in for induction.
LEMMA LeastNatural ==
  ASSUME NEW T \in SUBSET Nat, T # {}
  PROVE  \E m \in T : \A k \in T : m <= k
<1>1. \E x \in T : \A y \in T : <<y, x>> \notin OpToRel(<, Nat)
  BY WFMin, NatLessThanWellFounded
<1>2. ASSUME NEW x \in T, NEW y \in T, <<y, x>> \notin OpToRel(<, Nat)
      PROVE  x <= y
  BY <1>2 DEF OpToRel
<1> QED BY <1>1, <1>2

-----------------------------------------------------------------------------
(* Paths.                                                                   *)

LEMMA PrefixByKeys ==
  ASSUME NEW p \in Seq(Keys), NEW q \in Seq(Keys)
  PROVE  IsPrefix(p, q) <=> Len(p) <= Len(q) /\ \A i \in 1 .. Len(p) : p[i] = q[i]
<1>1. ASSUME Len(p) <= Len(q)
      PROVE  /\ SubSeq(p, 1, Len(p)) = [i \in 1 .. Len(p) |-> p[i]]
             /\ SubSeq(q, 1, Len(p)) = [i \in 1 .. Len(p) |-> q[i]]
  BY <1>1
<1>2. (Len(p) <= Len(q) /\ SubSeq(p, 1, Len(p)) = SubSeq(q, 1, Len(p)))
        <=> Len(p) <= Len(q) /\ \A i \in 1 .. Len(p) : p[i] = q[i]
  BY <1>1
<1> QED BY <1>2 DEF IsPrefix

LEMMA SamePath ==
  ASSUME NEW p \in Seq(Keys), NEW q \in Seq(Keys), Len(p) = Len(q),
         \A i \in 1 .. Len(p) : p[i] = q[i]
  PROVE  p = q
<1>1. /\ p = [i \in 1 .. Len(p) |-> p[i]]
      /\ q = [i \in 1 .. Len(q) |-> q[i]]
  OBVIOUS
<1> QED BY <1>1

\* Being a prefix orders the paths, and those of one path in a line.
LEMMA PrefixOrders ==
  ASSUME NEW p \in Seq(Keys), NEW q \in Seq(Keys), NEW r \in Seq(Keys)
  PROVE  /\ IsPrefix(p, p)
         /\ IsPrefix(p, q) /\ IsPrefix(q, r) => IsPrefix(p, r)
         /\ IsPrefix(p, q) /\ IsPrefix(q, p) => p = q
         /\ IsPrefix(p, r) /\ IsPrefix(q, r) => IsPrefix(p, q) \/ IsPrefix(q, p)
         /\ IsPrefix(p, q) => Len(p) <= Len(q) /\ (Len(p) = Len(q) => p = q)
<1>1. IsPrefix(p, p)
  BY PrefixByKeys
<1>2. ASSUME IsPrefix(p, q), IsPrefix(q, r) PROVE IsPrefix(p, r)
  BY <1>2, PrefixByKeys
<1>3. ASSUME IsPrefix(p, q) PROVE Len(p) <= Len(q) /\ (Len(p) = Len(q) => p = q)
  BY <1>3, PrefixByKeys, SamePath
<1>4. ASSUME IsPrefix(p, q), IsPrefix(q, p) PROVE p = q
  BY <1>4, PrefixByKeys, SamePath
<1>5. ASSUME IsPrefix(p, r), IsPrefix(q, r) PROVE IsPrefix(p, q) \/ IsPrefix(q, p)
  <2>1. /\ Len(p) <= Len(r) /\ \A i \in 1 .. Len(p) : p[i] = r[i]
        /\ Len(q) <= Len(r) /\ \A i \in 1 .. Len(q) : q[i] = r[i]
    BY <1>5, PrefixByKeys
  <2>2. CASE Len(p) <= Len(q)
    BY <2>1, <2>2, PrefixByKeys
  <2>3. CASE Len(q) <= Len(p)
    BY <2>1, <2>3, PrefixByKeys
  <2> QED BY <2>2, <2>3
<1> QED BY <1>1, <1>2, <1>3, <1>4, <1>5

\* What is above a path.
LEMMA AboveIsPrefix ==
  ASSUME NEW p \in Seq(Keys)
  PROVE  /\ Above(p) \subseteq Paths
         /\ \A q \in Seq(Keys) : q \in Above(p) <=> q # <<>> /\ IsStrictPrefix(q, p)
<1>1. ASSUME NEW n \in 1 .. Len(p) - 1
      PROVE  /\ SubSeq(p, 1, n) \in Seq(Keys) /\ Len(SubSeq(p, 1, n)) = n
             /\ \A i \in 1 .. n : SubSeq(p, 1, n)[i] = p[i]
  <2>1. SubSeq(p, 1, n) = [i \in 1 .. n |-> p[i]]
    BY <1>1
  <2> QED BY <1>1, <2>1
<1>2. ASSUME NEW q \in Above(p)
      PROVE  q \in Paths /\ IsStrictPrefix(q, p)
  <2>1. PICK n \in 1 .. Len(p) - 1 : q = SubSeq(p, 1, n)
    BY DEF Above
  <2>2. q \in Seq(Keys) /\ Len(q) = n /\ \A i \in 1 .. n : q[i] = p[i]
    BY <2>1, <1>1
  <2>3. IsPrefix(q, p)
    BY <2>2, PrefixByKeys
  <2>4. q # p /\ q # <<>>
    BY <2>2
  <2> QED BY <2>2, <2>3, <2>4 DEF Paths, IsStrictPrefix
<1>3. ASSUME NEW q \in Seq(Keys), q # <<>>, IsStrictPrefix(q, p)
      PROVE  q \in Above(p)
  <2>1. Len(q) <= Len(p) /\ \A i \in 1 .. Len(q) : q[i] = p[i]
    BY <1>3, PrefixByKeys DEF IsStrictPrefix
  <2>2. Len(q) # Len(p)
    BY <2>1, <1>3, SamePath DEF IsStrictPrefix
  <2>3. Len(q) # 0
    BY <1>3
  <2>4. Len(q) \in 1 .. Len(p) - 1
    BY <2>1, <2>2, <2>3
  <2>5. q = SubSeq(p, 1, Len(q))
    <3>1. /\ SubSeq(p, 1, Len(q)) \in Seq(Keys) /\ Len(SubSeq(p, 1, Len(q))) = Len(q)
          /\ \A i \in 1 .. Len(q) : SubSeq(p, 1, Len(q))[i] = p[i]
      BY <1>1, <2>4
    <3> QED BY <3>1, <2>1, SamePath
  <2> QED BY <2>4, <2>5 DEF Above
<1> QED BY <1>2, <1>3 DEF Paths

LEMMA AppendIsBelow ==
  ASSUME NEW p \in Seq(Keys), NEW k \in Keys
  PROVE  /\ Append(p, k) \in Paths /\ IsStrictPrefix(p, Append(p, k))
         /\ \A q \in Seq(Keys) : IsStrictPrefix(q, Append(p, k)) => IsPrefix(q, p)
<1> DEFINE d == Append(p, k)
<1>1. d \in Seq(Keys) /\ Len(d) = Len(p) + 1 /\ \A i \in 1 .. Len(p) : d[i] = p[i]
  OBVIOUS
<1> HIDE DEF d
<1>2. d # <<>> /\ d # p
  BY <1>1
<1>3. IsPrefix(p, d)
  BY <1>1, PrefixByKeys
<1>4. ASSUME NEW q \in Seq(Keys), IsStrictPrefix(q, d)
      PROVE  IsPrefix(q, p)
  <2>1. IsPrefix(q, d) /\ q # d
    BY <1>4 DEF IsStrictPrefix
  <2>2. Len(q) <= Len(p) + 1 /\ \A i \in 1 .. Len(q) : q[i] = d[i]
    BY <2>1, <1>1, PrefixByKeys
  <2>3. Len(q) # Len(p) + 1
    BY <2>1, <2>2, <1>1, SamePath
  <2> QED BY <1>1, <2>2, <2>3, PrefixByKeys
<1> QED BY <1>1, <1>2, <1>3, <1>4 DEF d, Paths, IsStrictPrefix

\* On the way from a path to another one below it there is a path one key longer.
LEMMA OneKeyBelow ==
  ASSUME NEW p \in Seq(Keys), NEW r \in Seq(Keys), IsStrictPrefix(p, r)
  PROVE  \E q \in Paths : IsStrictPrefix(p, q) /\ IsPrefix(q, r) /\ Len(q) = Len(p) + 1
<1> DEFINE q == SubSeq(r, 1, Len(p) + 1)
<1>1. Len(p) <= Len(r) /\ \A i \in 1 .. Len(p) : p[i] = r[i]
  BY PrefixByKeys DEF IsStrictPrefix
<1>2. Len(p) # Len(r)
  BY <1>1, SamePath DEF IsStrictPrefix
<1>3. q = [i \in 1 .. Len(p) + 1 |-> r[i]]
  BY <1>1, <1>2
<1>4. q \in Seq(Keys) /\ Len(q) = Len(p) + 1 /\ \A i \in 1 .. Len(p) + 1 : q[i] = r[i]
  BY <1>1, <1>2, <1>3
<1> HIDE DEF q
<1>5. IsPrefix(p, q) /\ IsPrefix(q, r)
  BY <1>1, <1>2, <1>4, PrefixByKeys
<1>6. q # p /\ q # <<>>
  BY <1>4
<1> QED BY <1>4, <1>5, <1>6 DEF Paths, IsStrictPrefix

\* Below a path that is above another one, everything is below; and so on.
LEMMA AboveOrders ==
  ASSUME NEW p \in Paths, NEW q \in Paths, NEW r \in Paths
  PROVE  /\ q \in Above(p) <=> IsPrefix(q, p) /\ q # p
         /\ r \in Above(q) /\ IsPrefix(q, p) => r \in Above(p)
         /\ r \in Above(p) /\ IsPrefix(q, p) => r \in Above(q) \/ IsPrefix(q, r)
<1>1. p \in Seq(Keys) /\ q \in Seq(Keys) /\ r \in Seq(Keys) /\ q # <<>> /\ r # <<>>
  BY DEF Paths
<1>2. /\ q \in Above(p) <=> IsPrefix(q, p) /\ q # p
      /\ r \in Above(q) <=> IsPrefix(r, q) /\ r # q
      /\ r \in Above(p) <=> IsPrefix(r, p) /\ r # p
  BY <1>1, AboveIsPrefix DEF IsStrictPrefix
<1>3. r \in Above(q) /\ IsPrefix(q, p) => r \in Above(p)
  BY <1>1, <1>2, PrefixOrders
<1>4. r \in Above(p) /\ IsPrefix(q, p) => r \in Above(q) \/ IsPrefix(q, r)
  BY <1>1, <1>2, PrefixOrders
<1> QED BY <1>2, <1>3, <1>4

-----------------------------------------------------------------------------
(* Trees.                                                                   *)

LEMMA TreeAbove ==
  ASSUME NEW t, IsTree(t), NEW p \in DOMAIN t, NEW q \in Paths, IsPrefix(q, p), q # p
  PROVE  IsMap(t, q)
<1>1. p \in Paths
  BY DEF IsTree, IsPart
<1> QED BY <1>1, AboveOrders DEF IsTree

\* What is at a path says whether there is anything, and whether it is a map.
LEMMA AtTells ==
  ASSUME NEW t, IsPart(t), NEW p
  PROVE  /\ At(t, p) = "nothing" <=> p \notin DOMAIN t
         /\ At(t, p) = "map" <=> IsMap(t, p)
         /\ IsScalar(t, p) <=> At(t, p) \notin {"nothing", "map"}
         /\ p \in DOMAIN t => At(t, p) = t[p]
<1>1. p \in DOMAIN t => t[p] \in Scalars \cup {"map"}
  BY DEF IsPart
<1>2. "nothing" \notin Scalars \cup {"map"}
  BY MergeLayersAssumption
<1> QED BY <1>1, <1>2 DEF At, IsMap, IsScalar

\* Two trees with the same at every path are the same.
LEMMA SameTree ==
  ASSUME NEW s, NEW t, IsPart(s), IsPart(t),
         \A p \in DOMAIN s \cup DOMAIN t : At(s, p) = At(t, p)
  PROVE  s = t
<1>1. s = [p \in DOMAIN s |-> s[p]] /\ t = [p \in DOMAIN t |-> t[p]]
  BY DEF IsPart
<1>2. \A p \in DOMAIN s \cup DOMAIN t : p \in DOMAIN s <=> p \in DOMAIN t
  BY AtTells
<1>3. DOMAIN s = DOMAIN t
  BY <1>2
<1>4. \A p \in DOMAIN s : s[p] = t[p]
  BY <1>3, AtTells
<1> QED BY <1>1, <1>3, <1>4

LEMMA NoTreeIsTree == IsTree(NoTree) /\ DOMAIN NoTree = {}
BY DEF NoTree, IsTree, IsPart, IsMap

\* What is grafted at a path into a tree, in the place of what was there: a tree u of
\* paths from q, and maps made above it.  The whole is a tree again.
LEMMA GraftAt ==
  ASSUME NEW v, IsPart(v), NEW q \in Paths, NEW u, IsPart(u),
         \A p \in DOMAIN u : IsPrefix(q, p),
         NEW made \in SUBSET Above(q), made \cap DOMAIN v = {}
  PROVE  LET w == Over(Over(u, Maps(made)), Without(v, q))
         IN  /\ IsPart(w)
             /\ \A p \in Paths :
                  At(w, p) = IF IsPrefix(q, p) THEN At(u, p)
                             ELSE IF p \in made THEN "map" ELSE At(v, p)
<1> DEFINE m == Maps(made)
           x == Without(v, q)
           y == Over(u, m)
           w == Over(y, x)
<1>1. \A p \in made : p \in Paths /\ ~IsPrefix(q, p)
  <2>1. q \in Seq(Keys)
    BY DEF Paths
  <2>2. \A p \in made : p \in Paths /\ IsPrefix(p, q) /\ p # q
    BY <2>1, AboveIsPrefix DEF Paths, IsStrictPrefix
  <2>3. \A p \in Paths : p \in Seq(Keys)
    BY DEF Paths
  <2> QED BY <2>1, <2>2, <2>3, PrefixOrders
<1>2. /\ DOMAIN y = DOMAIN u \cup made
      /\ \A p \in DOMAIN y : y[p] = IF p \in DOMAIN u THEN u[p] ELSE "map"
  BY DEF Over, Maps
<1>3. /\ DOMAIN x = {p \in DOMAIN v : ~IsPrefix(q, p)}
      /\ \A p \in DOMAIN x : x[p] = v[p]
  BY DEF Without, From
<1>4. /\ DOMAIN w = DOMAIN y \cup DOMAIN x
      /\ \A p \in DOMAIN w : w[p] = IF p \in DOMAIN y THEN y[p] ELSE x[p]
      /\ w = [p \in DOMAIN w |-> w[p]]
  <2> HIDE DEF y, x
  <2> QED BY DEF Over
<1>5. DOMAIN v \subseteq Paths /\ \A p \in DOMAIN v : v[p] \in Scalars \cup {"map"}
  BY DEF IsPart
<1> HIDE DEF m, x, y, w
<1>6. DOMAIN w \subseteq Paths
  BY <1>1, <1>2, <1>3, <1>4, <1>5 DEF IsPart
<1>7. \A p \in DOMAIN w : w[p] \in Scalars \cup {"map"}
  <2> TAKE p \in DOMAIN w
  <2>1. CASE p \in DOMAIN y
    BY <2>1, <1>2, <1>4 DEF IsPart
  <2>2. CASE p \in DOMAIN x /\ p \notin DOMAIN y
    BY <2>2, <1>3, <1>4, <1>5
  <2> QED BY <2>1, <2>2, <1>4
<1>8. w \in [DOMAIN w -> Scalars \cup {"map"}]
  BY <1>4, <1>7
<1>9. ASSUME NEW p \in Paths
      PROVE  At(w, p) = IF IsPrefix(q, p) THEN At(u, p)
                        ELSE IF p \in made THEN "map" ELSE At(v, p)
  <2>1. CASE IsPrefix(q, p)
    <3>1. p \notin made /\ p \notin DOMAIN x
      BY <2>1, <1>1, <1>3
    <3> QED BY <2>1, <3>1, <1>2, <1>4 DEF At
  <2>2. CASE ~IsPrefix(q, p) /\ p \in made
    <3>1. p \notin DOMAIN u
      BY <2>2
    <3> QED BY <2>2, <3>1, <1>2, <1>4 DEF At
  <2>3. CASE ~IsPrefix(q, p) /\ p \notin made
    <3>1. p \notin DOMAIN u /\ p \notin DOMAIN y
      BY <2>3, <1>2
    <3>2. p \in DOMAIN x <=> p \in DOMAIN v
      BY <2>3, <1>3
    <3> QED BY <2>3, <3>1, <3>2, <1>3, <1>4 DEF At
  <2> QED BY <2>1, <2>2, <2>3
<1> QED BY <1>6, <1>8, <1>9 DEF IsPart, w, y, x, m

\* It is a tree if the maps above the path are there or made, unless nothing is grafted,
\* and u has those within.
LEMMA GraftIsTree ==
  ASSUME NEW v, IsTree(v), NEW q \in Paths, NEW u, IsBranch(u, q),
         NEW made \in SUBSET Above(q), made \cap DOMAIN v = {},
         \/ DOMAIN u = {} /\ made = {}
         \/ \A r \in Above(q) : r \in made \/ IsMap(v, r)
  PROVE  IsTree(Over(Over(u, Maps(made)), Without(v, q)))
<1> DEFINE w == Over(Over(u, Maps(made)), Without(v, q))
<1>1. /\ IsPart(w)
      /\ \A p \in Paths : At(w, p) = IF IsPrefix(q, p) THEN At(u, p)
                                     ELSE IF p \in made THEN "map" ELSE At(v, p)
  BY GraftAt DEF IsTree, IsBranch
<1> HIDE DEF w
<1>2. q \in Seq(Keys) /\ \A p \in Paths : p \in Seq(Keys)
  BY DEF Paths
<1>3. SUFFICES ASSUME NEW p \in DOMAIN w, NEW r \in Above(p)
               PROVE  IsMap(w, r)
  BY <1>1 DEF IsTree, w
<1>4. p \in Paths /\ r \in Paths
  BY <1>1, <1>2, AboveIsPrefix DEF IsPart
<1>5. SUFFICES At(w, r) = "map"
  BY <1>1, AtTells
<1>6. At(w, p) # "nothing"
  BY <1>1, AtTells
<1>7. CASE IsPrefix(q, r)
  <2>1. IsPrefix(q, p)
    BY <1>2, <1>4, <1>7, AboveOrders, PrefixOrders
  <2>2. p \in DOMAIN u
    BY <1>1, <1>4, <1>6, <2>1, AtTells DEF IsBranch
  <2> QED BY <1>1, <1>4, <1>7, <2>2, AtTells DEF IsBranch
<1>8. CASE ~IsPrefix(q, r) /\ r \in Above(q)
  <2>1. CASE \A x \in Above(q) : x \in made \/ IsMap(v, x)
    BY <1>1, <1>4, <1>8, <2>1, AtTells DEF IsTree
  <2>2. CASE DOMAIN u = {} /\ made = {}
    <3>1. ~IsPrefix(q, p) /\ p \in DOMAIN v
      BY <1>1, <1>4, <1>6, <2>2, AtTells DEF IsTree, IsBranch
    <3>2. IsMap(v, r)
      BY <3>1 DEF IsTree
    <3> QED BY <1>1, <1>4, <1>8, <2>2, <3>2, AtTells DEF IsTree
  <2> QED BY <2>1, <2>2
<1>9. CASE ~IsPrefix(q, r) /\ r \notin Above(q)
  <2>1. ~IsPrefix(q, p)
    BY <1>4, <1>9, AboveOrders
  <2>2. p \notin made
    <3>1. SUFFICES ASSUME p \in made PROVE FALSE
      OBVIOUS
    <3>2. p \in Above(q) /\ IsPrefix(p, q)
      BY <1>4, <3>1, AboveOrders
    <3> QED BY <1>4, <1>9, <3>2, AboveOrders
  <2>3. p \in DOMAIN v
    BY <1>1, <1>4, <1>6, <2>1, <2>2, AtTells DEF IsTree
  <2>4. IsMap(v, r)
    BY <2>3 DEF IsTree
  <2> QED BY <1>1, <1>4, <1>9, <2>4, AtTells DEF IsTree
<1> QED BY <1>7, <1>8, <1>9

\* The part of a tree from a path on.
LEMMA SubtreeAt ==
  ASSUME NEW t, NEW q \in Paths, IsTree(t) \/ (\E r \in Paths : IsBranch(t, r) /\ IsPrefix(r, q))
  PROVE  /\ IsBranch(Subtree(t, q), q) /\ DOMAIN Subtree(t, q) = From(DOMAIN t, q)
         /\ \A p \in Paths : IsPrefix(q, p) => At(Subtree(t, q), p) = At(t, p)
<1> DEFINE u == Subtree(t, q)
<1>1. /\ DOMAIN u = {p \in DOMAIN t : IsPrefix(q, p)} /\ \A p \in DOMAIN u : u[p] = t[p]
      /\ u = [p \in DOMAIN u |-> u[p]]
  BY DEF Subtree, From
<1>2. DOMAIN u = From(DOMAIN t, q)
  BY DEF Subtree
<1> HIDE DEF u
<1>3. IsPart(u)
  <2>1. IsPart(t)
    BY DEF IsTree, IsBranch
  <2> QED BY <1>1, <2>1 DEF IsPart
<1>4. ASSUME NEW p \in Paths, IsPrefix(q, p)
      PROVE  At(u, p) = At(t, p)
  BY <1>1, <1>4 DEF At
<1>5. ASSUME NEW p \in DOMAIN u, NEW r \in Above(p), IsPrefix(q, r)
      PROVE  IsMap(u, r)
  <2>1. CASE IsTree(t)
    <3>1. IsMap(t, r)
      BY <1>1, <1>5, <2>1 DEF IsTree
    <3> QED BY <1>1, <1>5, <3>1 DEF IsMap
  <2>2. CASE \E x \in Paths : IsBranch(t, x) /\ IsPrefix(x, q)
    <3>1. PICK x \in Paths : IsBranch(t, x) /\ IsPrefix(x, q)
      BY <2>2
    <3>2. p \in Seq(Keys) /\ q \in Seq(Keys) /\ x \in Seq(Keys)
      BY <1>1, <3>1 DEF IsBranch, IsPart, Paths
    <3>3. r \in Seq(Keys)
      BY <3>2, AboveIsPrefix DEF Paths
    <3>4. IsPrefix(x, r)
      BY <1>5, <3>1, <3>2, <3>3, PrefixOrders
    <3>5. IsMap(t, r)
      BY <1>1, <1>5, <3>1, <3>4 DEF IsBranch
    <3> QED BY <1>1, <1>5, <3>5 DEF IsMap
  <2> QED BY <2>1, <2>2
<1> QED BY <1>1, <1>2, <1>3, <1>4, <1>5 DEF u, IsBranch

-----------------------------------------------------------------------------
(* Origins.                                                                 *)

AreOrigins(origins) ==
  DOMAIN origins \subseteq Paths /\ origins \in [DOMAIN origins -> Seq(Origin) \ {<<>>}]

LEMMA NearestIsPlace ==
  ASSUME NEW locations \in SUBSET Seq(Keys), NEW p \in Paths
  PROVE  Nearest(locations, p) \in Seq(Keys) \cup {Nowhere}
<1> DEFINE above == locations \cap {SubSeq(p, 1, n) : n \in 0 .. Len(p)}
           T == {Len(p) - Len(q) : q \in above}
<1>1. p \in Seq(Keys)
  BY DEF Paths
<1>2. \A q \in above : q \in Seq(Keys) /\ Len(q) \in Nat /\ Len(q) <= Len(p)
  BY <1>1
<1>3. CASE above = {}
  BY <1>3 DEF Nearest
<1>4. CASE above # {}
  <2>1. T \in SUBSET Nat /\ T # {}
    BY <1>1, <1>2, <1>4
  <2>2. PICK m \in T : \A k \in T : m <= k
    <3> HIDE DEF T
    <3> QED BY <2>1, LeastNatural
  <2>3. PICK q \in above : m = Len(p) - Len(q)
    OBVIOUS
  <2>4. \A r \in above : Len(r) <= Len(q)
    <3> TAKE r \in above
    <3>1. Len(p) - Len(q) <= Len(p) - Len(r)
      BY <2>2, <2>3
    <3> QED BY <1>1, <1>2, <3>1
  <2>5. Nearest(locations, p) = CHOOSE x \in above : \A r \in above : Len(r) <= Len(x)
    BY <1>4 DEF Nearest
  <2> HIDE DEF above, T
  <2> QED BY <1>2, <2>4, <2>5
<1> QED BY <1>3, <1>4

\* What is recorded is the last origin of its path; the others keep theirs.
LEMMA RecordIsLast ==
  ASSUME NEW origins, AreOrigins(origins), NEW new, DOMAIN new \subseteq Paths,
         \A p \in DOMAIN new : new[p] \in Origin
  PROVE  LET after == Record(origins, new)
         IN  /\ AreOrigins(after) /\ DOMAIN after = DOMAIN origins \cup DOMAIN new
             /\ \A p \in DOMAIN new : Last(after[p]) = new[p]
             /\ \A p \in DOMAIN origins : p \notin DOMAIN new => after[p] = origins[p]
<1> DEFINE after == Record(origins, new)
           old(p) == IF p \in DOMAIN origins THEN origins[p] ELSE <<>>
<1>1. /\ DOMAIN after = DOMAIN origins \cup DOMAIN new
      /\ after = [p \in DOMAIN after |-> after[p]]
      /\ \A p \in DOMAIN after :
           after[p] = IF p \in DOMAIN new THEN Append(old(p), new[p]) ELSE old(p)
  BY DEF Record
<1>2. \A p : old(p) \in Seq(Origin)
  BY DEF AreOrigins
<1> HIDE DEF after
<1>3. ASSUME NEW p \in DOMAIN new
      PROVE  after[p] \in Seq(Origin) \ {<<>>} /\ Last(after[p]) = new[p]
  <2>1. after[p] = Append(old(p), new[p]) /\ old(p) \in Seq(Origin) /\ new[p] \in Origin
    BY <1>1, <1>2
  <2> HIDE DEF old
  <2>2. /\ Append(old(p), new[p]) \in Seq(Origin)
        /\ Len(Append(old(p), new[p])) = Len(old(p)) + 1
        /\ Append(old(p), new[p])[Len(old(p)) + 1] = new[p]
    BY <2>1
  <2>3. Append(old(p), new[p]) # <<>>
    BY <2>1, <2>2
  <2> QED BY <2>1, <2>2, <2>3 DEF Last
<1>4. ASSUME NEW p \in DOMAIN origins, p \notin DOMAIN new
      PROVE  after[p] = origins[p] /\ after[p] \in Seq(Origin) \ {<<>>}
  BY <1>1, <1>4 DEF AreOrigins
<1>5. AreOrigins(after)
  BY <1>1, <1>3, <1>4 DEF AreOrigins
<1> QED BY <1>1, <1>3, <1>4, <1>5 DEF after

\* The last origin of a path is of this layer and operation.
Said(origins, p, i, op) == Last(origins[p])[1] = i /\ Last(origins[p])[2] = op

\* What is written has its last origin from this layer, where it says.
Wrote(origins, ps, i, op, locations) ==
  \A p \in ps : Last(origins[p]) = <<i, op, Nearest(locations, p)>>

\* What has an origin is what had one, and these paths.
Gains(after, before, ps) == DOMAIN after = DOMAIN before \cup ps

\* An operation that is recorded.
Operations == {"set", "replaced", "replace", "delete"}

LEMMA AddIsLast ==
  ASSUME NEW origins, AreOrigins(origins), NEW ps \in SUBSET Paths, NEW i \in Nat,
         NEW op \in Operations, NEW locations \in SUBSET Seq(Keys)
  PROVE  LET after == Add(origins, ps, i, op, locations)
         IN  /\ AreOrigins(after) /\ Gains(after, origins, ps)
             /\ Wrote(after, ps, i, op, locations)
             /\ \A p \in ps : Said(after, p, i, op)
             /\ \A p \in DOMAIN origins : p \notin ps => after[p] = origins[p]
<1> DEFINE new == [p \in ps |-> <<i, op, Nearest(locations, p)>>]
<1>1. /\ DOMAIN new = ps
      /\ \A p \in ps : /\ new[p] = <<i, op, Nearest(locations, p)>> /\ new[p] \in Origin
                        /\ new[p][1] = i /\ new[p][2] = op
  BY NearestIsPlace DEF Origin, Operations
<1>2. Add(origins, ps, i, op, locations) = Record(origins, new)
  BY DEF Add
<1>3. DOMAIN new \subseteq Paths
  OBVIOUS
<1> HIDE DEF new
<1> DEFINE after == Record(origins, new)
<1>5. /\ AreOrigins(after) /\ DOMAIN after = DOMAIN origins \cup DOMAIN new
      /\ \A p \in DOMAIN new : Last(after[p]) = new[p]
      /\ \A p \in DOMAIN origins : p \notin DOMAIN new => after[p] = origins[p]
  BY <1>1, <1>3, RecordIsLast
<1> HIDE DEF after
<1>6. Wrote(after, ps, i, op, locations) /\ \A p \in ps : Said(after, p, i, op)
  BY <1>1, <1>5 DEF Said, Wrote
<1>7. Gains(after, origins, ps)
  BY <1>1, <1>5 DEF Gains
<1>8. \A p \in DOMAIN origins : p \notin ps => after[p] = origins[p]
  BY <1>1, <1>5
<1>9. Add(origins, ps, i, op, locations) = after
  BY <1>2 DEF after
<1> QED BY <1>5, <1>6, <1>7, <1>8, <1>9

LEMMA InvalidateIsLast ==
  ASSUME NEW origins, AreOrigins(origins), NEW q \in Paths, NEW i \in Nat,
         NEW op \in Operations
  PROVE  LET after == Invalidate(origins, q, i, op)
         IN  /\ AreOrigins(after) /\ DOMAIN after = DOMAIN origins
             /\ \A p \in DOMAIN origins :
                  IF IsPrefix(q, p) /\ q # p
                    THEN Said(after, p, i, op)
                    ELSE after[p] = origins[p]
<1> DEFINE new == [p \in Below(DOMAIN origins, q) |-> <<i, op, Nowhere>>]
<1>1. DOMAIN new = {p \in DOMAIN origins : IsPrefix(q, p) /\ q # p}
  BY DEF Below, IsStrictPrefix
<1>2. \A p \in DOMAIN new : new[p] \in Origin /\ new[p][1] = i /\ new[p][2] = op
  BY DEF Origin, Operations
<1>3. Invalidate(origins, q, i, op) = Record(origins, new)
  BY DEF Invalidate
<1>4. DOMAIN new \subseteq Paths /\ DOMAIN origins \cup DOMAIN new = DOMAIN origins
  BY <1>1 DEF AreOrigins
<1> HIDE DEF new
<1> DEFINE after == Record(origins, new)
<1>5. /\ AreOrigins(after) /\ DOMAIN after = DOMAIN origins \cup DOMAIN new
      /\ \A p \in DOMAIN new : Last(after[p]) = new[p]
      /\ \A p \in DOMAIN origins : p \notin DOMAIN new => after[p] = origins[p]
  BY <1>2, <1>4, RecordIsLast
<1> HIDE DEF after
<1>6. \A p \in DOMAIN new : Said(after, p, i, op)
  BY <1>2, <1>5 DEF Said
<1> QED BY <1>1, <1>3, <1>4, <1>5, <1>6 DEF after

-----------------------------------------------------------------------------
(* What one step of apply does to a merger.                                 *)

LEMMA GoingOn ==
  ASSUME NEW m, IsMerger(m), NEW t, IsTree(t), NEW q \in DOMAIN t, NEW i \in Nat,
         NEW locations \in SUBSET Seq(Keys), GoesOn(m.values, t, q)
  PROVE  LET new == MergeAt(m, t, q, i, locations)
         IN  /\ IsMerger(new) /\ new.failed = m.failed /\ new.values = m.values
             /\ Gains(new.origins, m.origins, {q}) /\ Said(new.origins, q, i, "set")
             /\ Wrote(new.origins, {q}, i, "set", locations)
             /\ \A p \in DOMAIN m.origins : p # q => new.origins[p] = m.origins[p]
<1> DEFINE new == MergeAt(m, t, q, i, locations)
           after == Add(m.origins, {q}, i, "set", locations)
<1>1. {q} \in SUBSET Paths /\ "set" \in Operations
  BY DEF IsTree, IsPart, Operations
<1>2. AreOrigins(m.origins)
  BY DEF IsMerger, AreOrigins
<1>3. /\ AreOrigins(after) /\ Gains(after, m.origins, {q})
      /\ Wrote(after, {q}, i, "set", locations)
      /\ \A p \in {q} : Said(after, p, i, "set")
      /\ \A p \in DOMAIN m.origins : p \notin {q} => after[p] = m.origins[p]
  BY <1>1, <1>2, AddIsLast
<1>4. /\ new = [m EXCEPT !.origins = after]
      /\ m = [values |-> m.values, origins |-> m.origins, failed |-> m.failed]
  BY DEF MergeAt, IsMerger
<1> HIDE DEF new, after
<1>5. new = [values |-> m.values, origins |-> after, failed |-> m.failed]
  BY <1>4
<1>6. new.values = m.values /\ new.origins = after /\ new.failed = m.failed
  BY <1>5
<1>7. IsMerger(new)
  BY <1>3, <1>5, <1>6 DEF IsMerger, AreOrigins
<1> QED BY <1>3, <1>6, <1>7 DEF new

LEMMA Overwriting ==
  ASSUME NEW m, IsMerger(m), NEW t, IsTree(t), NEW q \in DOMAIN t, NEW i \in Nat,
         NEW locations \in SUBSET Seq(Keys), ~GoesOn(m.values, t, q),
         \A r \in Above(q) : IsMap(m.values, r)
  PROVE  LET new == MergeAt(m, t, q, i, locations)
             given == From(DOMAIN t, q)
         IN  /\ IsMerger(new) /\ new.failed = m.failed
             /\ \A p \in Paths :
                  At(new.values, p) = IF IsPrefix(q, p) THEN At(t, p) ELSE At(m.values, p)
             /\ Gains(new.origins, m.origins, given)
             /\ Wrote(new.origins, given, i, "set", locations)
             /\ \A p \in given : Said(new.origins, p, i, "set")
             /\ \A p \in DOMAIN m.origins \ given :
                  IF q \in DOMAIN m.values /\ IsPrefix(q, p) /\ q # p
                    THEN Said(new.origins, p, i, "replaced")
                    ELSE new.origins[p] = m.origins[p]
<1> DEFINE new == MergeAt(m, t, q, i, locations)
           given == From(DOMAIN t, q)
           u == Subtree(t, q)
           w == Over(u, Without(m.values, q))
           gone == IF q \in DOMAIN m.values THEN Invalidate(m.origins, q, i, "replaced")
                   ELSE m.origins
           after == Add(gone, given, i, "set", locations)
<1>1. q \in Paths /\ given \in SUBSET Paths /\ {"set", "replaced"} \subseteq Operations
  BY DEF IsTree, IsPart, Operations, From
<1>2. /\ AreOrigins(m.origins) /\ IsTree(m.values)
      /\ m = [values |-> m.values, origins |-> m.origins, failed |-> m.failed]
  BY DEF IsMerger, AreOrigins
<1>3. /\ new = [m EXCEPT !.values = w, !.origins = after]
  BY DEF MergeAt, Overwrite
<1>4. /\ AreOrigins(gone) /\ DOMAIN gone = DOMAIN m.origins
      /\ \A p \in DOMAIN m.origins :
           IF q \in DOMAIN m.values /\ IsPrefix(q, p) /\ q # p
             THEN Said(gone, p, i, "replaced")
             ELSE gone[p] = m.origins[p]
  <2>1. CASE q \in DOMAIN m.values
    <3> DEFINE less == Invalidate(m.origins, q, i, "replaced")
    <3>1. /\ AreOrigins(less) /\ DOMAIN less = DOMAIN m.origins
          /\ \A p \in DOMAIN m.origins :
               IF IsPrefix(q, p) /\ q # p
                 THEN Said(less, p, i, "replaced")
                 ELSE less[p] = m.origins[p]
      BY <1>1, <1>2, InvalidateIsLast
    <3>2. gone = less
      BY <2>1
    <3> HIDE DEF less, gone
    <3> QED BY <2>1, <3>1, <3>2
  <2>2. CASE q \notin DOMAIN m.values
    <3>1. gone = m.origins
      BY <2>2
    <3> HIDE DEF gone
    <3> QED BY <1>2, <2>2, <3>1
  <2> QED BY <2>1, <2>2
<1> HIDE DEF gone
<1>5. /\ AreOrigins(after) /\ Gains(after, gone, given)
      /\ Wrote(after, given, i, "set", locations)
      /\ \A p \in given : Said(after, p, i, "set")
      /\ \A p \in DOMAIN gone : p \notin given => after[p] = gone[p]
  <2>1. AreOrigins(gone) /\ given \in SUBSET Paths /\ "set" \in Operations
    BY <1>1, <1>4
  <2> HIDE DEF given
  <2> QED BY <2>1, AddIsLast
<1>6. IsBranch(u, q) /\ \A p \in Paths : IsPrefix(q, p) => At(u, p) = At(t, p)
  BY <1>1, SubtreeAt
<1>7. Over(u, Maps({})) = u
  <2>1. DOMAIN Maps({}) = {}
    BY DEF Maps
  <2> HIDE DEF u
  <2>2. u = [p \in DOMAIN u |-> u[p]]
    BY <1>6 DEF IsBranch, IsPart
  <2> QED BY <2>1, <2>2 DEF Over
<1> HIDE DEF u
<1>8. /\ IsPart(w)
      /\ \A p \in Paths : At(w, p) = IF IsPrefix(q, p) THEN At(u, p) ELSE At(m.values, p)
  <2>1. {} \in SUBSET Above(q) /\ {} \cap DOMAIN m.values = {} /\ IsPart(m.values)
    BY <1>2 DEF IsTree
  <2>2. LET x == Over(Over(u, Maps({})), Without(m.values, q))
        IN  /\ IsPart(x)
            /\ \A p \in Paths :
                 At(x, p) = IF IsPrefix(q, p) THEN At(u, p)
                            ELSE IF p \in {} THEN "map" ELSE At(m.values, p)
    BY <1>1, <1>6, <2>1, GraftAt DEF IsBranch
  <2> QED BY <1>7, <2>2
<1>9. IsTree(w)
  <2>1. {} \in SUBSET Above(q) /\ {} \cap DOMAIN m.values = {}
    OBVIOUS
  <2>2. IsTree(Over(Over(u, Maps({})), Without(m.values, q)))
    BY <1>1, <1>2, <1>6, <2>1, GraftIsTree
  <2> QED BY <1>7, <2>2
<1> HIDE DEF new, after, w
<1>10. new = [values |-> w, origins |-> after, failed |-> m.failed]
  BY <1>2, <1>3
<1>11. new.values = w /\ new.origins = after /\ new.failed = m.failed
  BY <1>10
<1>12. IsMerger(new)
  BY <1>2, <1>5, <1>9, <1>10, <1>11 DEF IsMerger, AreOrigins
<1>13. ASSUME NEW p \in DOMAIN m.origins \ given
       PROVE  IF q \in DOMAIN m.values /\ IsPrefix(q, p) /\ q # p
                THEN Said(new.origins, p, i, "replaced")
                ELSE new.origins[p] = m.origins[p]
  BY <1>4, <1>5, <1>11 DEF Said
<1>14. /\ Wrote(new.origins, given, i, "set", locations)
       /\ \A p \in given : Said(new.origins, p, i, "set")
  BY <1>5, <1>11
<1>15. \A p \in Paths :
         At(new.values, p) = IF IsPrefix(q, p) THEN At(t, p) ELSE At(m.values, p)
  BY <1>6, <1>8, <1>11
<1>16. Gains(new.origins, m.origins, given)
  BY <1>4, <1>5, <1>11 DEF Gains
<1> HIDE DEF given
<1> QED BY <1>11, <1>12, <1>13, <1>14, <1>15, <1>16 DEF new, given

\* An edit that fails changes nothing else; one that does not has objects, or nothing,
\* above its path, and a Replace makes the objects that are missing.
Failing(m, e) == m.failed \/ \E q \in Above(e.path) : IsScalar(m.values, q)

Made(m, e) == IF e.kind = "replace" THEN Above(e.path) \ DOMAIN m.values ELSE {}
Written(e) == IF e.kind = "replace" THEN DOMAIN e.value ELSE {e.path}

LEMMA EditFails ==
  ASSUME NEW m, IsMerger(m), NEW e, NEW i, NEW locations, Failing(m, e)
  PROVE  /\ IsMerger(Edit(m, e, i, locations)) /\ Edit(m, e, i, locations).failed
         /\ Edit(m, e, i, locations).values = m.values
         /\ Edit(m, e, i, locations).origins = m.origins
<1> DEFINE new == Edit(m, e, i, locations)
<1>1. /\ new = [m EXCEPT !.failed = TRUE]
      /\ m = [values |-> m.values, origins |-> m.origins, failed |-> m.failed]
  BY DEF Edit, Failing, IsMerger
<1> HIDE DEF new
<1>2. new = [values |-> m.values, origins |-> m.origins, failed |-> TRUE]
  BY <1>1
<1>3. new.values = m.values /\ new.origins = m.origins /\ new.failed = TRUE
  BY <1>2
<1> QED BY <1>2, <1>3 DEF new, IsMerger

LEMMA EditParts ==
  ASSUME NEW e, IsEdit(e)
  PROVE  /\ e.path \in Paths /\ e.kind \in {"replace", "delete"}
         /\ IsBranch(e.value, e.path) /\ Written(e) \in SUBSET Paths
         /\ \A p \in Written(e) : IsPrefix(e.path, p)
         /\ e.kind = "replace" => e.path \in DOMAIN e.value
         /\ e.kind = "delete" => DOMAIN e.value = {}
         /\ e.path \in Written(e)
<1>1. CASE e = DeleteEdit(e.path)
  <2>1. e.kind = "delete" /\ e.value = NoTree
    BY <1>1 DEF DeleteEdit
  <2>2. IsBranch(e.value, e.path)
    BY <2>1, NoTreeIsTree DEF IsBranch, IsTree
  <2>3. IsPrefix(e.path, e.path)
    BY PrefixOrders DEF IsEdit, Paths
  <2> QED BY <2>1, <2>2, <2>3, NoTreeIsTree DEF IsEdit, Written
<1>2. CASE e = ReplaceEdit(e.path, e.value)
  <2>1. e.kind = "replace"
    BY <1>2 DEF ReplaceEdit
  <2>2. e # DeleteEdit(e.path)
    BY <2>1 DEF DeleteEdit
  <2>3. IsBranch(e.value, e.path) /\ e.path \in DOMAIN e.value
    BY <2>2 DEF IsEdit
  <2> QED BY <2>1, <2>3 DEF IsEdit, Written, IsBranch, IsPart
<1> QED BY <1>1, <1>2 DEF IsEdit

LEMMA Editing ==
  ASSUME NEW m, IsMerger(m), NEW e, IsEdit(e), NEW i \in Nat,
         NEW locations \in SUBSET Seq(Keys), ~Failing(m, e)
  PROVE  LET new == Edit(m, e, i, locations)
         IN  /\ IsMerger(new) /\ new.failed = m.failed
             /\ \A p \in Paths :
                  At(new.values, p) = IF IsPrefix(e.path, p) THEN At(e.value, p)
                                      ELSE IF p \in Made(m, e) THEN "map"
                                      ELSE At(m.values, p)
             /\ Gains(new.origins, m.origins, Written(e))
             /\ Wrote(new.origins, Written(e), i, e.kind, locations)
             /\ \A p \in Written(e) : Said(new.origins, p, i, e.kind)
             /\ \A p \in DOMAIN m.origins \ Written(e) :
                  IF IsPrefix(e.path, p) /\ e.path # p
                    THEN Said(new.origins, p, i, e.kind)
                    ELSE new.origins[p] = m.origins[p]
<1> DEFINE new == Edit(m, e, i, locations)
           q == e.path
           op == e.kind
           u == e.value
           made == Made(m, e)
           written == Written(e)
           w == Over(Over(u, Maps(made)), Without(m.values, q))
           gone == Invalidate(m.origins, q, i, op)
           after == Add(gone, written, i, op, locations)
<1>1. /\ q \in Paths /\ op \in {"replace", "delete"} /\ IsBranch(u, q)
      /\ written \in SUBSET Paths /\ op \in Operations
      /\ op = "delete" => DOMAIN u = {}
  BY EditParts DEF Operations
<1>2. /\ AreOrigins(m.origins) /\ IsTree(m.values)
      /\ m = [values |-> m.values, origins |-> m.origins, failed |-> m.failed]
  BY DEF IsMerger, AreOrigins
<1>3. new = [m EXCEPT !.values = w, !.origins = after]
  BY DEF Edit, Failing, Made, Written
<1>4. /\ made \in SUBSET Above(q) /\ made \cap DOMAIN m.values = {}
      /\ \/ DOMAIN u = {} /\ made = {}
         \/ \A r \in Above(q) : r \in made \/ IsMap(m.values, r)
  <2>1. CASE op = "replace"
    <3>1. made = Above(q) \ DOMAIN m.values
      BY <2>1 DEF Made
    <3>2. \A r \in Above(q) : ~IsScalar(m.values, r)
      BY DEF Failing
    <3> QED BY <3>1, <3>2 DEF IsMap, IsScalar
  <2>2. CASE op = "delete"
    BY <1>1, <2>2 DEF Made
  <2> QED BY <1>1, <2>1, <2>2
<1> HIDE DEF made, written, u
<1>5. /\ AreOrigins(gone) /\ DOMAIN gone = DOMAIN m.origins
      /\ \A p \in DOMAIN m.origins :
           IF IsPrefix(q, p) /\ q # p THEN Said(gone, p, i, op)
                                      ELSE gone[p] = m.origins[p]
  <2>1. AreOrigins(m.origins) /\ q \in Paths /\ op \in Operations
    BY <1>1, <1>2
  <2> HIDE DEF q, op
  <2> QED BY <2>1, InvalidateIsLast
<1> HIDE DEF gone
<1>6. /\ AreOrigins(after) /\ Gains(after, gone, written)
      /\ Wrote(after, written, i, op, locations)
      /\ \A p \in written : Said(after, p, i, op)
      /\ \A p \in DOMAIN gone : p \notin written => after[p] = gone[p]
  <2>1. AreOrigins(gone) /\ written \in SUBSET Paths /\ op \in Operations
    BY <1>1, <1>5
  <2> HIDE DEF op
  <2> QED BY <2>1, AddIsLast
<1>7. IsTree(w)
  <2> HIDE DEF q
  <2> QED BY <1>1, <1>2, <1>4, GraftIsTree
<1>8. \A p \in Paths :
        At(w, p) = IF IsPrefix(q, p) THEN At(u, p)
                   ELSE IF p \in made THEN "map" ELSE At(m.values, p)
  <2> HIDE DEF q
  <2>1. IsPart(m.values) /\ IsPart(u) /\ \A p \in DOMAIN u : IsPrefix(q, p)
    BY <1>1, <1>2 DEF IsTree, IsBranch
  <2> QED BY <1>1, <1>4, <2>1, GraftAt
<1> HIDE DEF new, after, w, q, op
<1>9. new = [values |-> w, origins |-> after, failed |-> m.failed]
  BY <1>2, <1>3
<1>10. new.values = w /\ new.origins = after /\ new.failed = m.failed
  BY <1>9
<1>11. IsMerger(new)
  BY <1>6, <1>7, <1>9, <1>10 DEF IsMerger, AreOrigins
<1>12. \A p \in Paths :
         At(new.values, p) = IF IsPrefix(q, p) THEN At(u, p)
                             ELSE IF p \in made THEN "map" ELSE At(m.values, p)
  BY <1>8, <1>10
<1>13. Gains(new.origins, m.origins, written)
  BY <1>5, <1>6, <1>10 DEF Gains
<1>14. /\ Wrote(new.origins, written, i, op, locations)
       /\ \A p \in written : Said(new.origins, p, i, op)
  BY <1>6, <1>10
<1>15. ASSUME NEW p \in DOMAIN m.origins \ written
       PROVE  IF IsPrefix(q, p) /\ q # p THEN Said(new.origins, p, i, op)
                                         ELSE new.origins[p] = m.origins[p]
  BY <1>5, <1>6, <1>10 DEF Said
<1> QED BY <1>10, <1>11, <1>12, <1>13, <1>14, <1>15 DEF new, q, op, u, made, written

-----------------------------------------------------------------------------
(* What a filter leaves of a layer.                                         *)

\* What is below something selected is selected; above it, it is led to.
LEMMA SelectedBelow ==
  ASSUME NEW allowed \in SUBSET Seq(Keys), NEW p \in Paths, NEW q \in Paths,
         IsPrefix(p, q)
  PROVE  /\ Selected(allowed, p) => Selected(allowed, q)
         /\ Selected(allowed, q) => Selected(allowed, p) \/ Leads(allowed, p)
<1>1. p \in Seq(Keys) /\ q \in Seq(Keys)
  BY DEF Paths
<1>2. ASSUME Selected(allowed, p) PROVE Selected(allowed, q)
  BY <1>1, <1>2, PrefixOrders DEF Selected
<1>3. ASSUME Selected(allowed, q), ~Selected(allowed, p) PROVE Leads(allowed, p)
  <2>1. PICK a \in allowed : IsPrefix(a, q)
    BY <1>3 DEF Selected
  <2>2. ~IsPrefix(a, p)
    BY <1>3 DEF Selected
  <2>3. IsPrefix(p, a)
    BY <1>1, <2>1, <2>2, PrefixOrders
  <2>4. p # a
    BY <1>1, <2>2, PrefixOrders
  <2> QED BY <1>3, <2>3, <2>4 DEF Leads, IsStrictPrefix
<1> QED BY <1>2, <1>3

\* What is projected is as it was: selected, or an object above something selected.
LEMMA ProjectIsTree ==
  ASSUME NEW allowed \in SUBSET Seq(Keys), NEW t, IsTree(t)
  PROVE  LET kept == Project(allowed, t)
         IN  /\ IsTree(kept)
             /\ \A p \in DOMAIN kept :
                  /\ p \in DOMAIN t /\ At(kept, p) = At(t, p)
                  /\ ~Selected(allowed, p) =>
                       /\ IsMap(kept, p) /\ Leads(allowed, p)
                       /\ \E q \in Below(DOMAIN t, p) : Selected(allowed, q)
<1> DEFINE chosen == {p \in DOMAIN t : Selected(allowed, p)}
           kept == Project(allowed, t)
<1>1. /\ DOMAIN kept = chosen \cup UNION {Above(q) : q \in chosen}
      /\ \A p \in DOMAIN kept : kept[p] = t[p]
      /\ kept = [p \in DOMAIN kept |-> kept[p]]
  BY DEF Project
<1> HIDE DEF kept
<1>2. /\ DOMAIN t \subseteq Paths /\ \A p \in DOMAIN t : t[p] \in Scalars \cup {"map"}
      /\ \A p \in DOMAIN t : \A q \in Above(p) : IsMap(t, q)
  BY DEF IsTree, IsPart
<1>3. \A p \in DOMAIN kept :
        \/ p \in chosen
        \/ \E q \in chosen : p \in Above(q)
  BY <1>1
<1>4. DOMAIN kept \subseteq DOMAIN t
  BY <1>2, <1>3 DEF IsMap
<1>5. IsPart(kept)
  BY <1>1, <1>2, <1>4 DEF IsPart
<1>6. ASSUME NEW p \in DOMAIN kept, NEW r \in Above(p)
      PROVE  IsMap(kept, r)
  <2>1. PICK q \in chosen : r \in Above(q)
    <3>1. CASE p \in chosen
      BY <1>6, <3>1
    <3>2. CASE \E q \in chosen : p \in Above(q)
      <4>1. PICK q \in chosen : p \in Above(q)
        BY <3>2
      <4>2. p \in Paths /\ q \in Paths /\ r \in Paths
        BY <1>2, <1>4, <1>6, AboveIsPrefix DEF Paths
      <4>3. r \in Above(q)
        BY <1>6, <4>1, <4>2, AboveOrders
      <4> QED BY <4>3
    <3> QED BY <1>3, <3>1, <3>2
  <2>2. r \in DOMAIN kept /\ IsMap(t, r)
    BY <1>1, <1>2, <2>1
  <2> QED BY <1>1, <2>2 DEF IsMap
<1>7. ASSUME NEW p \in DOMAIN kept, ~Selected(allowed, p)
      PROVE  /\ IsMap(kept, p) /\ Leads(allowed, p)
             /\ \E q \in Below(DOMAIN t, p) : Selected(allowed, q)
  <2>1. PICK q \in chosen : p \in Above(q)
    BY <1>3, <1>7
  <2>2. p \in Paths /\ q \in Paths /\ IsPrefix(p, q) /\ p # q
    BY <1>2, <1>4, <2>1, AboveOrders
  <2>3. Leads(allowed, p)
    BY <1>7, <2>1, <2>2, SelectedBelow
  <2>4. IsMap(kept, p)
    BY <1>1, <1>2, <2>1 DEF IsMap
  <2>5. q \in Below(DOMAIN t, p) /\ Selected(allowed, q)
    BY <2>1, <2>2 DEF Below, IsStrictPrefix
  <2> QED BY <2>3, <2>4, <2>5
<1>8. \A p \in DOMAIN kept : At(kept, p) = At(t, p)
  BY <1>1, <1>4 DEF At
<1> QED BY <1>4, <1>5, <1>6, <1>7, <1>8 DEF IsTree, kept

\* An edit that is projected is an edit, of selected paths, and gives no more.
LEMMA ProjectedEdit ==
  ASSUME NEW allowed \in SUBSET Seq(Keys), NEW e, IsEdit(e), NEW x \in ProjectEdit(allowed, e)
  PROVE  IsEdit(x) /\ Selected(allowed, x.path) /\ DOMAIN x.value \subseteq DOMAIN e.value
<1>1. CASE Selected(allowed, e.path)
  BY <1>1 DEF ProjectEdit
<1>2. CASE ~Selected(allowed, e.path)
  <2>1. PICK q \in allowed : IsStrictPrefix(e.path, q) /\ x = EditAt(e, q)
    BY <1>2 DEF ProjectEdit
  <2>2. e.path \in Paths /\ IsBranch(e.value, e.path)
    BY EditParts
  <2>3. q \in Paths /\ IsPrefix(e.path, q) /\ IsPrefix(q, q)
    <3>1. e.path \in Seq(Keys) /\ q \in Seq(Keys) /\ Len(e.path) # 0
      BY <2>2 DEF Paths
    <3>2. IsPrefix(e.path, q) /\ Len(e.path) <= Len(q)
      BY <2>1, <3>1, PrefixOrders DEF IsStrictPrefix
    <3>3. q # <<>>
      BY <3>1, <3>2
    <3> QED BY <3>1, <3>2, <3>3, PrefixOrders DEF Paths
  <2>4. CASE q \in DOMAIN e.value
    <3> DEFINE u == Subtree(e.value, q)
    <3>1. IsBranch(u, q) /\ DOMAIN u = From(DOMAIN e.value, q)
      BY <2>2, <2>3, SubtreeAt
    <3>2. q \in DOMAIN u /\ DOMAIN u \subseteq DOMAIN e.value
      BY <2>3, <2>4, <3>1 DEF From
    <3>3. x = ReplaceEdit(q, u)
      BY <2>1, <2>4 DEF EditAt
    <3> HIDE DEF u
    <3>4. x.path = q /\ x.value = u
      BY <3>3 DEF ReplaceEdit
    <3> QED BY <2>3, <3>1, <3>2, <3>3, <3>4 DEF IsEdit, Selected
  <2>5. CASE q \notin DOMAIN e.value
    <3>1. x = DeleteEdit(q)
      BY <2>1, <2>5 DEF EditAt
    <3>2. x.path = q /\ x.value = NoTree
      BY <3>1 DEF DeleteEdit
    <3> QED BY <2>3, <3>1, <3>2, NoTreeIsTree DEF IsEdit, Selected
  <2> QED BY <2>4, <2>5
<1> QED BY <1>1, <1>2

\* What a source returns, filtered or not, is what apply takes.
LEMMA ReadIsLayer ==
  ASSUME NEW allowed \in SUBSET Seq(Keys), NEW layer, IsLayer(layer)
  PROVE  LET read == ReadThrough(allowed, layer)
         IN  /\ IsRead(read)
             /\ allowed # Everything =>
                  /\ read.values = Project(allowed, layer.values)
                  /\ \A edit \in read.edits :
                       /\ Selected(allowed, edit[2].path)
                       /\ \E n \in DOMAIN layer.edits :
                            DOMAIN edit[2].value \subseteq DOMAIN layer.edits[n].value
<1> DEFINE read == ReadThrough(allowed, layer)
<1>1. /\ IsTree(layer.values) /\ layer.locations \subseteq Seq(Keys)
      /\ DOMAIN layer.edits \subseteq Nat
      /\ \A n \in DOMAIN layer.edits : IsEdit(layer.edits[n])
  BY DEF IsLayer, ToSet
<1>2. CASE allowed = Everything
  <2>1. /\ read = [layer EXCEPT !.edits = InOrder(@)]
        /\ layer = [values |-> layer.values, edits |-> layer.edits,
                    locations |-> layer.locations, stale |-> layer.stale]
    BY <1>2 DEF ReadThrough, IsLayer, LayerOf
  <2>2. read = [values |-> layer.values, edits |-> InOrder(layer.edits),
                locations |-> layer.locations, stale |-> layer.stale]
    BY <2>1
  <2> HIDE DEF read
  <2>3. /\ read.values = layer.values /\ read.edits = InOrder(layer.edits)
        /\ read.locations = layer.locations
    BY <2>2
  <2>4. \A edit \in InOrder(layer.edits) :
          edit = <<edit[1], edit[2]>> /\ edit[1] \in Nat /\ IsEdit(edit[2])
    BY <1>1 DEF InOrder
  <2> QED BY <1>1, <1>2, <2>3, <2>4 DEF IsRead, read
<1>3. CASE allowed # Everything
  <2> DEFINE made == UNION {{<<n, e>> : e \in ProjectEdit(allowed, layer.edits[n])} :
                              n \in DOMAIN layer.edits}
  <2>1. read = LayerOf(Project(allowed, layer.values), made,
                       Known(allowed, layer.locations), FALSE)
    BY <1>3 DEF ReadThrough, Filtered
  <2> HIDE DEF read
  <2>2. /\ read.values = Project(allowed, layer.values) /\ read.edits = made
        /\ read.locations = Known(allowed, layer.locations)
    BY <2>1 DEF LayerOf
  <2>3. ASSUME NEW edit \in made
        PROVE  /\ edit = <<edit[1], edit[2]>> /\ edit[1] \in Nat /\ IsEdit(edit[2])
               /\ Selected(allowed, edit[2].path)
               /\ \E n \in DOMAIN layer.edits :
                    DOMAIN edit[2].value \subseteq DOMAIN layer.edits[n].value
    <3>1. PICK n \in DOMAIN layer.edits :
            \E e \in ProjectEdit(allowed, layer.edits[n]) : edit = <<n, e>>
      OBVIOUS
    <3>2. PICK e \in ProjectEdit(allowed, layer.edits[n]) : edit = <<n, e>>
      BY <3>1
    <3>3. /\ IsEdit(e) /\ Selected(allowed, e.path)
          /\ DOMAIN e.value \subseteq DOMAIN layer.edits[n].value
      BY <1>1, ProjectedEdit
    <3> QED BY <1>1, <3>2, <3>3
  <2>4. IsTree(read.values)
    <3>1. IsTree(Project(allowed, layer.values))
      BY <1>1, ProjectIsTree
    <3> QED BY <2>2, <3>1
  <2>5. read.locations \subseteq Seq(Keys)
    BY <1>1, <2>2 DEF Known
  <2> HIDE DEF made
  <2> QED BY <1>3, <2>2, <2>3, <2>4, <2>5 DEF IsRead, read
<1> QED BY <1>2, <1>3

-----------------------------------------------------------------------------
(* The walk of mergeMap.                                                    *)

\* On the way from a path to what a tree has below it comes a child.
LEMMA ChildOnWay ==
  ASSUME NEW t, IsTree(t), NEW q \in Seq(Keys), NEW p \in DOMAIN t, IsStrictPrefix(q, p)
  PROVE  \E x \in Children(t, q) : IsPrefix(x, p)
<1>1. p \in Paths /\ p \in Seq(Keys)
  BY DEF IsTree, IsPart, Paths
<1>2. PICK x \in Paths : IsStrictPrefix(q, x) /\ IsPrefix(x, p) /\ Len(x) = Len(q) + 1
  BY <1>1, OneKeyBelow
<1>3. x \in DOMAIN t
  BY <1>1, <1>2, TreeAbove DEF IsMap
<1> QED BY <1>2, <1>3 DEF Children, Below

\* What is at a child, and above it.
LEMMA ChildIsBelow ==
  ASSUME NEW t, IsTree(t), NEW q \in Seq(Keys), NEW x \in Children(t, q)
  PROVE  /\ x \in DOMAIN t /\ x \in Paths /\ Len(x) = Len(q) + 1 /\ IsStrictPrefix(q, x)
         /\ \A y \in Seq(Keys) : IsStrictPrefix(y, x) => IsPrefix(y, q)
<1>1. x \in DOMAIN t /\ x \in Paths /\ Len(x) = Len(q) + 1 /\ IsStrictPrefix(q, x)
  BY DEF Children, Below, IsTree, IsPart
<1>2. ASSUME NEW y \in Seq(Keys), IsStrictPrefix(y, x)
      PROVE  IsPrefix(y, q)
  <2>1. x \in Seq(Keys) /\ IsPrefix(q, x) /\ IsPrefix(y, x) /\ y # x
    BY <1>1, <1>2 DEF Paths, IsStrictPrefix
  <2>2. Len(y) <= Len(x) /\ Len(y) # Len(x)
    BY <2>1, PrefixOrders
  <2>3. Len(y) <= Len(q)
    BY <1>1, <2>1, <2>2
  <2>4. IsPrefix(q, y) => q = y
    BY <2>3, PrefixOrders
  <2> QED BY <2>1, <2>4, PrefixOrders
<1> QED BY <1>1, <1>2

LEMMA PathwiseAt ==
  ASSUME NEW v, IsTree(v), NEW t, IsTree(t)
  PROVE  /\ IsPart(Pathwise(v, t)) /\ DOMAIN Pathwise(v, t) \subseteq DOMAIN v \cup DOMAIN t
         /\ \A p : At(Pathwise(v, t), p) =
              IF p \in DOMAIN t THEN At(t, p)
              ELSE IF \A q \in Above(p) : ~IsScalar(t, q) /\ ~NewVariant(v, t, q)
                     THEN At(v, p) ELSE "nothing"
<1> DEFINE kept(p) == p \notin DOMAIN t
                      /\ \A q \in Above(p) : ~IsScalar(t, q) /\ ~NewVariant(v, t, q)
           k == [p \in {p \in DOMAIN v : kept(p)} |-> v[p]]
           w == Pathwise(v, t)
<1>1. w = Over(t, k)
  BY DEF Pathwise
<1>2. DOMAIN k = {p \in DOMAIN v : kept(p)} /\ \A p \in DOMAIN k : k[p] = v[p]
  OBVIOUS
<1> HIDE DEF k, w
<1>3. /\ DOMAIN w = DOMAIN t \cup DOMAIN k /\ w = [p \in DOMAIN w |-> w[p]]
      /\ \A p \in DOMAIN w : w[p] = IF p \in DOMAIN t THEN t[p] ELSE k[p]
  BY <1>1 DEF Over
<1>4. /\ DOMAIN v \subseteq Paths /\ \A p \in DOMAIN v : v[p] \in Scalars \cup {"map"}
      /\ DOMAIN t \subseteq Paths /\ \A p \in DOMAIN t : t[p] \in Scalars \cup {"map"}
  BY DEF IsTree, IsPart
<1>5. DOMAIN k \subseteq DOMAIN v
  BY <1>2
<1>6. \A p \in DOMAIN w : w[p] \in Scalars \cup {"map"}
  BY <1>2, <1>3, <1>4, <1>5
<1>7. IsPart(w)
  BY <1>3, <1>4, <1>5, <1>6 DEF IsPart
<1>8. ASSUME NEW p, p \in DOMAIN t
      PROVE  At(w, p) = At(t, p)
  BY <1>3, <1>8 DEF At
<1>9. ASSUME NEW p, kept(p)
      PROVE  At(w, p) = At(v, p)
  BY <1>2, <1>3, <1>9 DEF At
<1>10. ASSUME NEW p, p \notin DOMAIN t, ~kept(p)
       PROVE  At(w, p) = "nothing"
  BY <1>2, <1>3, <1>10 DEF At
<1> QED BY <1>3, <1>5, <1>7, <1>8, <1>9, <1>10 DEF w

\* What a merger has while mergeMap walks: v is what it had before, t what it merges.
Walked(w, v, t, ps) ==
  \A p \in Paths :
    At(w, p) = IF \E q \in ps : IsPrefix(q, p) THEN At(v, p) ELSE At(Pathwise(v, t), p)

\* What mergeMap has yet to come to, each below nothing else, and below objects that are
\* no other variants.
Ahead(v, t, ps) ==
  /\ ps \subseteq DOMAIN t
  /\ \A p \in ps : \A q \in Above(p) : IsMap(v, q) /\ ~NewVariant(v, t, q)
  /\ \A p, q \in ps : IsPrefix(p, q) => p = q

\* Above what it has yet to come to, the merger has objects as well; and there is a
\* discriminator changes only where the OneOf it tells is no variant of before.
LEMMA AheadAreMaps ==
  ASSUME NEW v, IsTree(v), NEW t, IsTree(t), NEW w, IsTree(w), NEW ps,
         Walked(w, v, t, ps), Ahead(v, t, ps), NEW p \in ps
  PROVE  /\ At(w, p) = At(v, p) /\ At(w, Append(p, Disc)) = At(v, Append(p, Disc))
         /\ \A r \in Above(p) :
              /\ IsMap(w, r) /\ IsMap(t, r)
              /\ LET d == Append(r, Disc)
                 IN  At(w, d) # At(v, d) => At(t, d) \notin {"nothing", At(v, d)}
<1>1. /\ Disc \in Keys /\ ps \subseteq Paths /\ \A q \in Paths : q \in Seq(Keys)
      /\ p \in Paths /\ p \in DOMAIN t
  BY MergeLayersAssumption DEF Ahead, IsTree, IsPart, Paths
<1>2. Append(p, Disc) \in Paths /\ IsPrefix(p, p) /\ IsPrefix(p, Append(p, Disc))
  BY <1>1, AppendIsBelow, PrefixOrders DEF IsStrictPrefix
<1>3. At(w, p) = At(v, p) /\ At(w, Append(p, Disc)) = At(v, Append(p, Disc))
  BY <1>1, <1>2 DEF Walked
<1>4. ASSUME NEW r \in Above(p)
      PROVE  /\ IsMap(w, r) /\ IsMap(t, r)
             /\ LET d == Append(r, Disc)
                IN  At(w, d) # At(v, d) => At(t, d) \notin {"nothing", At(v, d)}
  <2> DEFINE d == Append(r, Disc)
  <2>1. r \in Paths /\ IsPrefix(r, p) /\ r # p
    BY <1>1, <1>4, AboveIsPrefix, AboveOrders DEF Paths
  <2>2. \A q \in ps : ~IsPrefix(q, r)
    <3>1. SUFFICES ASSUME NEW q \in ps, IsPrefix(q, r) PROVE FALSE
      OBVIOUS
    <3>2. q = p
      BY <1>1, <2>1, <3>1, PrefixOrders DEF Ahead
    <3> QED BY <1>1, <2>1, <3>1, <3>2, PrefixOrders
  <2>3. IsMap(t, r)
    BY <1>1, <1>4 DEF IsTree
  <2>4. IsMap(w, r)
    <3>1. At(w, r) = At(t, r)
      BY <2>1, <2>2, <2>3, PathwiseAt DEF Walked, IsMap
    <3> QED BY <2>3, <3>1, AtTells DEF IsTree
  <2>5. /\ d \in Paths /\ \A q \in Seq(Keys) : IsStrictPrefix(q, d) => IsPrefix(q, r)
    BY <1>1, <2>1, AppendIsBelow
  <2> HIDE DEF d
  <2>6. At(w, d) # At(v, d) => At(t, d) \notin {"nothing", At(v, d)}
    <3>1. CASE \E q \in ps : IsPrefix(q, d)
      BY <2>5, <3>1 DEF Walked
    <3>2. CASE (\A q \in ps : ~IsPrefix(q, d)) /\ d \in DOMAIN t
      <4>1. At(w, d) = At(t, d)
        BY <2>5, <3>2, PathwiseAt DEF Walked
      <4>2. At(t, d) # "nothing"
        BY <3>2, AtTells DEF IsTree
      <4> QED BY <4>1, <4>2
    <3>3. CASE (\A q \in ps : ~IsPrefix(q, d)) /\ d \notin DOMAIN t
      <4>1. ASSUME NEW q \in Above(d) PROVE q \in Above(p)
        <5>1. q \in Paths /\ IsPrefix(q, r)
          BY <1>1, <2>5, <4>1, AboveIsPrefix DEF Paths
        <5> QED BY <1>1, <1>4, <2>1, <5>1, AboveOrders
      <4>2. \A q \in Above(d) : ~IsScalar(t, q) /\ ~NewVariant(v, t, q)
        BY <1>1, <4>1 DEF Ahead, IsTree, IsMap, IsScalar
      <4>3. At(w, d) = At(v, d)
        BY <2>5, <3>3, <4>2, PathwiseAt DEF Walked
      <4> QED BY <4>3
    <3> QED BY <3>1, <3>2, <3>3
  <2> QED BY <2>3, <2>4, <2>6 DEF d
<1> QED BY <1>3, <1>4

\* Which OneOf a discriminator tells is as it was before the layer: the shortest path above
\* at which it were not would hold a new variant, where mergeMap does not go on.
LEMMA VariantsStay ==
  ASSUME NEW v, IsTree(v), NEW t, IsTree(t), NEW w, IsTree(w), NEW ps,
         Walked(w, v, t, ps), Ahead(v, t, ps), NEW p \in ps
  PROVE  Switches(w, t, p) <=> NewVariant(v, t, p)
<1> DEFINE changed(r) == At(w, Append(r, Disc)) # At(v, Append(r, Disc))
           d == Append(p, Disc)
<1>1. /\ At(w, d) = At(v, d)
      /\ \A r \in Above(p) :
           changed(r) => At(t, Append(r, Disc)) \notin {"nothing", At(v, Append(r, Disc))}
  BY AheadAreMaps
<1>2. (d \in DOMAIN t /\ At(w, d) # t[d]) <=> At(t, d) \notin {"nothing", At(v, d)}
  <2>1. /\ At(t, d) = "nothing" <=> d \notin DOMAIN t
        /\ d \in DOMAIN t => At(t, d) = t[d]
    BY AtTells DEF IsTree
  <2> HIDE DEF d
  <2> QED BY <1>1, <2>1
<1>3. ASSUME NEW union \in Unions, union.path = p, NEW r \in DOMAIN union.variants, changed(r),
             \A x \in DOMAIN union.variants \cap Above(r) :
               union.variants[x] = At(v, Append(x, Disc))
      PROVE  FALSE
  <2>1. DOMAIN union.variants \subseteq Above(p)
    BY <1>3, MergeLayersAssumption DEF IsUnionField
  <2>2. PICK outer \in Unions :
          /\ outer.path = r
          /\ outer.variants =
               [q \in DOMAIN union.variants \cap Above(r) |-> union.variants[q]]
    BY <1>3, MergeLayersAssumption DEF IsUnionField
  <2>3. \A x \in DOMAIN outer.variants : outer.variants[x] = At(v, Append(x, Disc))
    BY <1>3, <2>2
  <2>4. NewVariant(v, t, r)
    BY <1>1, <1>3, <2>1, <2>2, <2>3 DEF NewVariant
  <2> QED BY <1>3, <2>1, <2>4 DEF Ahead
<1>4. ASSUME NEW union \in Unions, union.path = p
      PROVE  (\A r \in DOMAIN union.variants : union.variants[r] = At(v, Append(r, Disc)))
               <=> \A r \in DOMAIN union.variants : At(w, Append(r, Disc)) = union.variants[r]
  <2> DEFINE names == DOMAIN union.variants
  <2>1. ASSUME \A r \in names : union.variants[r] = At(v, Append(r, Disc))
        PROVE  \A r \in names : At(w, Append(r, Disc)) = union.variants[r]
    BY <1>3, <1>4, <2>1
  <2>2. ASSUME \A r \in names : At(w, Append(r, Disc)) = union.variants[r]
        PROVE  \A r \in names : union.variants[r] = At(v, Append(r, Disc))
    <3> DEFINE T == {Len(r) : r \in {r \in names : changed(r)}}
    <3>1. names \subseteq Above(p) /\ p \in Paths
      BY <1>4, MergeLayersAssumption DEF IsUnionField
    <3>2. \A r \in names : r \in Paths /\ r \in Seq(Keys) /\ Len(r) \in Nat
      BY <3>1, AboveIsPrefix DEF Paths
    <3>3. T = {}
      <4>1. SUFFICES ASSUME T # {} PROVE FALSE
        OBVIOUS
      <4>2. T \in SUBSET Nat
        BY <3>2
      <4>3. PICK n \in T : \A k \in T : n <= k
        <5> HIDE DEF T
        <5> QED BY <4>1, <4>2, LeastNatural
      <4>4. PICK r \in names : changed(r) /\ n = Len(r)
        BY <4>3
      <4>5. ASSUME NEW x \in names \cap Above(r)
            PROVE  union.variants[x] = At(v, Append(x, Disc))
        <5>1. Len(x) < Len(r)
          BY <3>2, <4>5, AboveOrders, PrefixOrders
        <5>2. Len(x) \notin T
          <6> HIDE DEF T
          <6> QED BY <3>2, <4>3, <4>4, <5>1
        <5>3. ~changed(x)
          BY <4>5, <5>2
        <5> QED BY <2>2, <4>5, <5>3
      <4> QED BY <1>3, <1>4, <4>4, <4>5
    <3>4. \A r \in names : ~changed(r)
      BY <3>3
    <3> QED BY <2>2, <3>4
  <2> QED BY <2>1, <2>2
<1>5. ASSUME Switches(w, t, p) PROVE NewVariant(v, t, p)
  <2>1. PICK union \in Unions :
          /\ union.path = p
          /\ \A r \in DOMAIN union.variants : At(w, Append(r, Disc)) = union.variants[r]
    BY <1>5 DEF Switches, IsUnion
  <2>2. \A r \in DOMAIN union.variants : union.variants[r] = At(v, Append(r, Disc))
    BY <1>4, <2>1
  <2>3. At(t, d) \notin {"nothing", At(v, d)}
    BY <1>2, <1>5 DEF Switches
  <2> QED BY <2>1, <2>2, <2>3 DEF NewVariant
<1>6. ASSUME NewVariant(v, t, p) PROVE Switches(w, t, p)
  <2>1. PICK union \in Unions :
          /\ union.path = p
          /\ \A r \in DOMAIN union.variants : union.variants[r] = At(v, Append(r, Disc))
    BY <1>6 DEF NewVariant
  <2>2. \A r \in DOMAIN union.variants : At(w, Append(r, Disc)) = union.variants[r]
    BY <1>4, <2>1
  <2>3. d \in DOMAIN t /\ At(w, d) # t[d]
    BY <1>2, <1>6 DEF NewVariant
  <2> QED BY <2>1, <2>2, <2>3 DEF Switches, IsUnion
<1> QED BY <1>5, <1>6

\* Where a tree has nothing on the way down, it has no other variant either.
LEMMA NothingOnWay ==
  ASSUME NEW v, NEW t, IsTree(t), NEW q \in Seq(Keys), NEW r \in Paths,
         \A x \in Children(t, q) : ~IsPrefix(x, r),
         NEW y \in Paths, IsPrefix(y, r), IsStrictPrefix(q, y)
  PROVE  y \notin DOMAIN t /\ ~NewVariant(v, t, y)
<1> DEFINE d == Append(y, Disc)
<1>1. y \in Seq(Keys) /\ r \in Seq(Keys) /\ DOMAIN t \subseteq Paths
  BY DEF Paths, IsTree, IsPart
<1>2. ASSUME NEW x \in Children(t, q), IsPrefix(x, y) PROVE FALSE
  <2>1. x \in Seq(Keys)
    BY <1>2, ChildIsBelow DEF Paths
  <2> QED BY <1>1, <1>2, <2>1, PrefixOrders
<1>3. y \notin DOMAIN t
  BY <1>2, ChildOnWay
<1>4. /\ d \in Paths /\ d \in Seq(Keys) /\ IsPrefix(y, d) /\ Len(d) = Len(y) + 1
      /\ \A x \in Seq(Keys) : IsStrictPrefix(x, d) => IsPrefix(x, y)
  BY <1>1, MergeLayersAssumption, AppendIsBelow DEF IsStrictPrefix, Paths
<1> HIDE DEF d
<1>5. d \notin DOMAIN t
  <2>1. SUFFICES ASSUME d \in DOMAIN t PROVE FALSE
    OBVIOUS
  <2>2. IsPrefix(q, y) /\ q # y /\ Len(q) < Len(y)
    BY <1>1, PrefixOrders DEF IsStrictPrefix
  <2>3. IsPrefix(q, d) /\ q # d
    BY <1>1, <1>4, <2>2, PrefixOrders
  <2>4. PICK x \in Children(t, q) : IsPrefix(x, d)
    BY <2>1, <2>3, ChildOnWay DEF IsStrictPrefix
  <2>5. x \in Seq(Keys) /\ Len(x) = Len(q) + 1
    BY <2>4, ChildIsBelow DEF Paths
  <2>6. x # d
    BY <1>1, <1>4, <2>2, <2>5
  <2> QED BY <1>2, <1>4, <2>4, <2>5, <2>6 DEF IsStrictPrefix
<1>6. ~NewVariant(v, t, y)
  BY <1>5 DEF NewVariant, d, At
<1> QED BY <1>3, <1>6

LEMMA WalkBegins ==
  ASSUME NEW v, IsTree(v), NEW t, IsTree(t), NEW root \in Seq(Keys), Len(root) = 0
  PROVE  LET ps == Children(t, root) IN Walked(v, v, t, ps) /\ Ahead(v, t, ps)
<1> DEFINE ps == Children(t, root)
<1>1. \A p \in Paths : p \in Seq(Keys) /\ Len(p) # 0 /\ IsStrictPrefix(root, p)
  <2>1. \A p \in Paths : p \in Seq(Keys) /\ Len(p) # 0
    BY DEF Paths
  <2>2. ASSUME NEW p \in Paths PROVE IsPrefix(root, p) /\ root # p
    <3>1. p \in Seq(Keys) /\ Len(root) <= Len(p) /\ \A i \in 1 .. Len(root) : root[i] = p[i]
      BY <2>1
    <3>2. IsPrefix(root, p)
      BY <3>1, PrefixByKeys
    <3>3. Len(root) # Len(p)
      BY <2>1
    <3> QED BY <3>2, <3>3
  <2> QED BY <2>1, <2>2 DEF IsStrictPrefix
<1>2. ASSUME NEW x \in ps
      PROVE  x \in DOMAIN t /\ x \in Paths /\ x \in Seq(Keys) /\ Len(x) = 1
  <2>1. x \in DOMAIN t /\ x \in Paths /\ Len(x) = Len(root) + 1
    BY <1>2, ChildIsBelow
  <2> QED BY <1>1, <2>1
<1>3. ASSUME NEW p \in ps, NEW q \in Above(p) PROVE FALSE
  <2>1. p \in Seq(Keys) /\ q \in Seq(Keys) /\ Len(p) = 1 /\ IsPrefix(q, p) /\ q # p
        /\ Len(q) # 0
    BY <1>1, <1>2, <1>3, AboveIsPrefix DEF IsStrictPrefix
  <2>2. Len(q) <= Len(p) /\ Len(q) # Len(p)
    BY <2>1, PrefixOrders
  <2> QED BY <2>1, <2>2
<1>4. ASSUME NEW p \in ps, NEW q \in ps, IsPrefix(p, q) PROVE p = q
  BY <1>2, <1>4, PrefixOrders
<1>5. ASSUME NEW p \in Paths, \A q \in ps : ~IsPrefix(q, p)
      PROVE  At(v, p) = At(Pathwise(v, t), p)
  <2>1. \A y \in Paths : IsPrefix(y, p) => y \notin DOMAIN t /\ ~NewVariant(v, t, y)
    BY <1>1, <1>5, NothingOnWay
  <2>2. IsPrefix(p, p) /\ \A y \in Above(p) : y \in Paths /\ IsPrefix(y, p)
    BY <1>1, PrefixOrders, AboveIsPrefix DEF IsStrictPrefix
  <2>3. p \notin DOMAIN t /\ \A y \in Above(p) : ~IsScalar(t, y) /\ ~NewVariant(v, t, y)
    BY <2>1, <2>2 DEF IsScalar
  <2> QED BY <2>3, PathwiseAt
<1>6. ps \subseteq DOMAIN t
  BY <1>2
<1> HIDE DEF ps
<1> QED BY <1>3, <1>4, <1>5, <1>6 DEF ps, Walked, Ahead

\* What mergeMap goes on with, or writes over, says the same of what was there before.
LEMMA GoesOnAsBefore ==
  ASSUME NEW v, IsTree(v), NEW t, IsTree(t), NEW w, IsTree(w), NEW ps,
         Walked(w, v, t, ps), Ahead(v, t, ps), NEW p \in ps
  PROVE  GoesOn(w, t, p) <=> IsMap(v, p) /\ IsMap(t, p) /\ ~NewVariant(v, t, p)
<1>1. At(w, p) = At(v, p)
  BY AheadAreMaps
<1>2. IsMap(w, p) <=> IsMap(v, p)
  BY <1>1, AtTells DEF IsTree
<1> QED BY <1>2, VariantsStay DEF GoesOn

LEMMA WalkGoesOn ==
  ASSUME NEW v, IsTree(v), NEW t, IsTree(t), NEW w, IsTree(w), NEW ps,
         Walked(w, v, t, ps), Ahead(v, t, ps), NEW p \in ps, GoesOn(w, t, p)
  PROVE  LET qs == (ps \ {p}) \cup Children(t, p)
         IN  Walked(w, v, t, qs) /\ Ahead(v, t, qs)
<1> DEFINE new == Children(t, p)
           qs == (ps \ {p}) \cup new
<1>1. /\ ps \subseteq Paths /\ ps \subseteq DOMAIN t
      /\ \A q \in Paths : q \in Seq(Keys) /\ IsPrefix(q, q)
      /\ \A q, r \in ps : IsPrefix(q, r) => q = r
  BY PrefixOrders DEF Ahead, IsTree, IsPart, Paths
<1>2. IsMap(v, p) /\ IsMap(t, p) /\ ~NewVariant(v, t, p)
  BY GoesOnAsBefore
<1>3. ASSUME NEW x \in new
      PROVE  /\ x \in DOMAIN t /\ x \in Paths /\ x \in Seq(Keys) /\ Len(x) = Len(p) + 1
             /\ IsPrefix(p, x) /\ p # x
             /\ \A y \in Seq(Keys) : IsPrefix(y, x) /\ y # x => IsPrefix(y, p)
  BY <1>1, <1>3, ChildIsBelow DEF Paths, IsStrictPrefix
<1>4. ASSUME NEW x \in new, NEW y \in Above(x)
      PROVE  IsMap(v, y) /\ ~NewVariant(v, t, y)
  <2>1. y \in Paths /\ IsPrefix(y, x) /\ y # x
    BY <1>3, <1>4, AboveIsPrefix DEF IsStrictPrefix, Paths
  <2>2. y = p \/ y \in Above(p)
    BY <1>1, <1>3, <1>4, <2>1, AboveOrders
  <2> QED BY <1>2, <2>2 DEF Ahead
<1>5. ASSUME NEW x \in qs, NEW y \in qs, IsPrefix(x, y)
      PROVE  x = y
  <2>1. CASE x \in new /\ y \in new
    BY <1>3, <1>5, <2>1, PrefixOrders
  <2>2. CASE x \in new /\ y \in ps \ {p}
    <3>1. IsPrefix(p, y)
      BY <1>1, <1>3, <1>5, <2>2, PrefixOrders
    <3> QED BY <1>1, <2>2, <3>1
  <2>3. CASE x \in ps \ {p} /\ y \in new
    <3>1. CASE x = y
      BY <3>1
    <3>2. CASE x # y
      <4>1. IsPrefix(x, p)
        BY <1>1, <1>3, <1>5, <2>3, <3>2
      <4> QED BY <1>1, <2>3, <4>1
    <3> QED BY <3>1, <3>2
  <2>4. CASE x \in ps \ {p} /\ y \in ps \ {p}
    BY <1>1, <1>5, <2>4
  <2> QED BY <1>5, <2>1, <2>2, <2>3, <2>4
<1>6. Ahead(v, t, qs)
  <2>1. qs \subseteq DOMAIN t
    BY <1>1, <1>3
  <2>2. \A x \in qs : \A y \in Above(x) : IsMap(v, y) /\ ~NewVariant(v, t, y)
    BY <1>4 DEF Ahead
  <2> HIDE DEF qs
  <2> QED BY <1>5, <2>1, <2>2 DEF Ahead
<1>7. ASSUME NEW r \in Paths
      PROVE  At(w, r) = IF \E q \in qs : IsPrefix(q, r) THEN At(v, r)
                        ELSE At(Pathwise(v, t), r)
  <2>1. CASE \E q \in qs : IsPrefix(q, r)
    <3>1. \E q \in ps : IsPrefix(q, r)
      <4>1. PICK q \in qs : IsPrefix(q, r)
        BY <2>1
      <4>2. CASE q \in new
        BY <1>1, <1>3, <1>7, <4>1, <4>2, PrefixOrders
      <4>3. CASE q \in ps
        BY <4>1, <4>3
      <4> QED BY <4>2, <4>3
    <3> QED BY <1>7, <2>1, <3>1 DEF Walked
  <2>2. CASE (\A q \in qs : ~IsPrefix(q, r)) /\ ~IsPrefix(p, r)
    <3>1. \A q \in ps : ~IsPrefix(q, r)
      BY <2>2
    <3> QED BY <1>7, <2>2, <3>1 DEF Walked
  <2>3. CASE (\A q \in qs : ~IsPrefix(q, r)) /\ IsPrefix(p, r)
    <3>1. At(w, r) = At(v, r)
      BY <1>7, <2>3 DEF Walked
    <3>2. CASE r = p
      <4>1. At(v, r) = "map" /\ At(t, r) = "map"
        BY <1>2, <3>2 DEF At, IsMap
      <4> QED BY <1>1, <2>3, <3>1, <3>2, <4>1, PathwiseAt
    <3>3. CASE r # p
      <4>1. \A x \in Children(t, p) : ~IsPrefix(x, r)
        BY <2>3
      <4>2. p \in Seq(Keys) /\ p \in Paths /\ r \in Seq(Keys)
        BY <1>1, <1>7
      <4>3. \A y \in Paths : IsPrefix(y, r) /\ IsStrictPrefix(p, y) =>
              y \notin DOMAIN t /\ ~NewVariant(v, t, y)
        BY <1>7, <4>1, <4>2, NothingOnWay
      <4>4. r \notin DOMAIN t
        BY <1>1, <1>7, <2>3, <3>3, <4>3 DEF IsStrictPrefix
      <4>5. ASSUME NEW y \in Above(r)
            PROVE  ~IsScalar(t, y) /\ ~NewVariant(v, t, y)
        <5>1. y \in Paths /\ IsPrefix(y, r)
          BY <1>7, <4>2, <4>5, AboveIsPrefix DEF IsStrictPrefix, Paths
        <5>2. y \in Above(p) \/ y = p \/ IsStrictPrefix(p, y)
          BY <1>7, <2>3, <4>2, <4>5, <5>1, AboveOrders DEF IsStrictPrefix
        <5>3. CASE y \in Above(p)
          BY <1>1, <5>3 DEF Ahead, IsTree, IsMap, IsScalar
        <5>4. CASE y = p
          BY <1>2, <5>4 DEF IsMap, IsScalar
        <5>5. CASE IsStrictPrefix(p, y)
          BY <4>3, <5>1, <5>5 DEF IsScalar
        <5> QED BY <5>2, <5>3, <5>4, <5>5
      <4> QED BY <2>3, <3>1, <4>4, <4>5, PathwiseAt
    <3> QED BY <3>2, <3>3
  <2> QED BY <2>1, <2>2, <2>3
<1> HIDE DEF qs
<1> QED BY <1>6, <1>7 DEF Walked, qs

LEMMA WalkWritesOver ==
  ASSUME NEW v, IsTree(v), NEW t, IsTree(t), NEW w, IsTree(w), NEW ps,
         Walked(w, v, t, ps), Ahead(v, t, ps), NEW p \in ps, ~GoesOn(w, t, p), NEW new,
         \A r \in Paths : At(new, r) = IF IsPrefix(p, r) THEN At(t, r) ELSE At(w, r)
  PROVE  Walked(new, v, t, ps \ {p}) /\ Ahead(v, t, ps \ {p})
<1>1. Ahead(v, t, ps \ {p})
  BY DEF Ahead
<1>2. ~IsMap(v, p) \/ ~IsMap(t, p) \/ NewVariant(v, t, p)
  BY GoesOnAsBefore
<1>3. ps \subseteq Paths /\ p \in DOMAIN t
  BY DEF Ahead, IsTree, IsPart
<1>4. ASSUME NEW r \in Paths
      PROVE  At(new, r) = IF \E q \in ps \ {p} : IsPrefix(q, r) THEN At(v, r)
                          ELSE At(Pathwise(v, t), r)
  <2>1. CASE ~IsPrefix(p, r)
    <3>1. (\E q \in ps \ {p} : IsPrefix(q, r)) <=> \E q \in ps : IsPrefix(q, r)
      BY <2>1
    <3> QED BY <1>4, <2>1, <3>1 DEF Walked
  <2>2. CASE IsPrefix(p, r)
    <3>1. ASSUME NEW q \in ps \ {p}, IsPrefix(q, r) PROVE FALSE
      <4>1. IsPrefix(p, q) \/ IsPrefix(q, p)
        BY <1>3, <1>4, <2>2, <3>1, PrefixOrders DEF Paths
      <4> QED BY <3>1, <4>1 DEF Ahead
    <3>2. At(t, r) = At(Pathwise(v, t), r)
      <4>1. CASE r \in DOMAIN t
        BY <4>1, PathwiseAt
      <4>2. CASE r \notin DOMAIN t
        <5>1. At(t, r) = "nothing"
          BY <4>2 DEF At
        <5>2. p \in Above(r)
          BY <1>3, <1>4, <2>2, <4>2, AboveOrders
        <5>3. CASE IsScalar(t, p) \/ NewVariant(v, t, p)
          BY <4>2, <5>1, <5>2, <5>3, PathwiseAt
        <5>4. CASE ~IsMap(v, p)
          <6>1. r \notin DOMAIN v
            BY <5>2, <5>4 DEF IsTree
          <6>2. At(v, r) = "nothing"
            BY <6>1 DEF At
          <6> QED BY <4>2, <5>1, <6>2, PathwiseAt
        <5> QED BY <1>2, <1>3, <5>3, <5>4 DEF IsMap, IsScalar
      <4> QED BY <4>1, <4>2
    <3> QED BY <1>4, <2>2, <3>1, <3>2
  <2> QED BY <2>1, <2>2
<1> QED BY <1>1, <1>4 DEF Walked

-----------------------------------------------------------------------------
(* The invariants, at each step.                                            *)

\* The last layer, and what a filtered one is made of.
LEMMA LastLayer ==
  ASSUME TypeOK, ReadInv, layers # <<>>
  PROVE  /\ Len(layers) \in Nat /\ Len(layers) \in DOMAIN layers
         /\ Layer = layers[Len(layers)] /\ IsRead(Layer)
         /\ last.layer \in Inputs /\ last.allowed \in SUBSET Seq(Keys) /\ IsLayer(last.layer)
         /\ ~Rejected(last.allowed) /\ Layer = ReadThrough(last.allowed, last.layer)
         /\ walk \subseteq DOMAIN Layer.values /\ edits \subseteq Layer.edits
<1>1. layers \in Seq(ToSet(layers)) /\ \A i \in DOMAIN layers : IsRead(layers[i])
  BY DEF TypeOK
<1>2. Len(layers) \in Nat /\ Len(layers) \in DOMAIN layers
  BY <1>1
<1>3. Layer = layers[Len(layers)] /\ IsRead(Layer)
  BY <1>1, <1>2 DEF Layer, Last
<1>4. /\ last.layer \in Inputs /\ last.allowed \in Selections \cup {Everything}
      /\ ~Rejected(last.allowed) /\ Layer = ReadThrough(last.allowed, last.layer)
      /\ walk \subseteq DOMAIN Layer.values /\ edits \subseteq Layer.edits
  BY DEF ReadInv
<1>5. Everything \in SUBSET Seq(Keys)
  BY DEF Everything
<1>6. last.allowed \in SUBSET Seq(Keys) /\ IsLayer(last.layer)
  BY <1>4, <1>5, MergeLayersAssumption
<1> QED BY <1>2, <1>3, <1>4, <1>6

\* WalkInv, which TLC checks on the paths that there are, for every path.
LEMMA WalkedWithin ==
  ASSUME NEW v, IsTree(v), NEW t, IsTree(t), NEW w, IsTree(w), NEW ps,
         \A p \in DOMAIN v \cup DOMAIN t \cup DOMAIN w :
           At(w, p) = IF \E q \in ps : IsPrefix(q, p) THEN At(v, p)
                      ELSE At(Pathwise(v, t), p)
  PROVE  Walked(w, v, t, ps)
<1>1. SUFFICES ASSUME NEW p \in Paths
               PROVE  At(w, p) = IF \E q \in ps : IsPrefix(q, p) THEN At(v, p)
                                 ELSE At(Pathwise(v, t), p)
  BY DEF Walked
<1>2. CASE p \in DOMAIN v \cup DOMAIN t \cup DOMAIN w
  BY <1>2
<1>3. CASE p \notin DOMAIN v \cup DOMAIN t \cup DOMAIN w
  <2>1. At(v, p) = "nothing" /\ At(w, p) = "nothing" /\ p \notin DOMAIN t
    BY <1>3 DEF At
  <2>2. At(Pathwise(v, t), p) = "nothing"
    BY <2>1, PathwiseAt
  <2> QED BY <2>1, <2>2
<1> QED BY <1>2, <1>3

LEMMA WalkIs ==
  ASSUME TypeOK, ReadInv, WalkInv, layers # <<>>
  PROVE  /\ Ahead(base.values, Layer.values, walk)
         /\ walk # {} => edits = Layer.edits
         /\ edits = Layer.edits => Walked(merger.values, base.values, Layer.values, walk)
<1>1. IsTree(base.values) /\ IsTree(merger.values) /\ IsTree(Layer.values)
  BY LastLayer DEF TypeOK, IsMerger, IsRead
<1>2. walk \subseteq DOMAIN Layer.values
  BY LastLayer
<1>3. Ahead(base.values, Layer.values, walk)
  BY <1>2 DEF WalkInv, Ahead
<1>4. ASSUME edits = Layer.edits
      PROVE  Walked(merger.values, base.values, Layer.values, walk)
  <2>1. \A p \in DOMAIN base.values \cup DOMAIN Layer.values \cup DOMAIN merger.values :
          At(merger.values, p) =
            IF \E q \in walk : IsPrefix(q, p) THEN At(base.values, p)
            ELSE At(Pathwise(base.values, Layer.values), p)
    BY <1>4 DEF WalkInv
  <2> QED BY <1>1, <2>1, WalkedWithin
<1>5. walk # {} => edits = Layer.edits
  BY DEF WalkInv
<1> QED BY <1>3, <1>4, <1>5

LEMMA IsWalk ==
  ASSUME IsTree(base.values), IsTree(merger.values), IsTree(Layer.values),
         Ahead(base.values, Layer.values, walk), walk # {} => edits = Layer.edits,
         edits = Layer.edits => Walked(merger.values, base.values, Layer.values, walk)
  PROVE  WalkInv
<1>1. /\ DOMAIN base.values \subseteq Paths /\ DOMAIN merger.values \subseteq Paths
      /\ DOMAIN Layer.values \subseteq Paths
  BY DEF IsTree, IsPart
<1>2. edits = Layer.edits =>
        \A p \in DOMAIN base.values \cup DOMAIN Layer.values \cup DOMAIN merger.values :
          At(merger.values, p) =
            IF \E q \in walk : IsPrefix(q, p) THEN At(base.values, p)
            ELSE At(Pathwise(base.values, Layer.values), p)
  BY <1>1 DEF Walked
<1> QED BY <1>2 DEF WalkInv, Ahead

LEMMA NoMergerIsMerger ==
  /\ IsMerger(NoMerger) /\ NoMerger.failed = FALSE
  /\ DOMAIN NoMerger.values = {} /\ DOMAIN NoMerger.origins = {}
<1>1. /\ NoMerger.values = NoTree /\ NoMerger.failed = FALSE
      /\ NoMerger.origins = [p \in {} |-> <<>>]
  BY DEF NoMerger
<1>2. DOMAIN NoMerger.origins = {} /\ NoMerger.origins \in [{} -> Seq(Origin) \ {<<>>}]
  BY <1>1
<1>3. NoMerger = [values |-> NoMerger.values, origins |-> NoMerger.origins,
                  failed |-> NoMerger.failed]
  BY DEF NoMerger
<1> QED BY <1>1, <1>2, <1>3, NoTreeIsTree DEF IsMerger

LEMMA Begins == Init => IInv
<1> SUFFICES ASSUME Init PROVE IInv
  OBVIOUS
<1>1. /\ layers = <<>> /\ last = NoSource /\ walk = {} /\ edits = {}
      /\ merger = NoMerger /\ base = NoMerger
  BY DEF Init
<1>2. /\ IsMerger(merger) /\ IsMerger(base) /\ ~base.failed
      /\ DOMAIN merger.values = {} /\ DOMAIN base.values = {}
      /\ DOMAIN merger.origins = {} /\ DOMAIN base.origins = {}
  BY <1>1, NoMergerIsMerger
<1>3. layers \in Seq(ToSet(layers)) /\ DOMAIN layers = {}
  BY <1>1
<1>4. TypeOK
  BY <1>2, <1>3 DEF TypeOK
<1>5. ReadInv /\ WalkInv
  BY <1>1 DEF ReadInv, WalkInv, Applied
<1>6. OriginsGrow /\ OriginsExplainValues /\ ChangesAreRecorded /\ RestUntouched
  BY <1>2 DEF OriginsGrow, OriginsExplainValues, ChangesAreRecorded, RestUntouched
<1> QED BY <1>4, <1>5, <1>6 DEF IInv

\* apply begins: nothing of the new layer is there yet.
LEMMA ApplyNextKeeps ==
  ASSUME IInv, NEW layer \in Inputs, NEW allowed \in Selections \cup {Everything},
         ApplyNext(layer, allowed)
  PROVE  IInv'
<1> DEFINE read == ReadThrough(allowed, layer)
<1>1. /\ TypeOK /\ ReadInv /\ WalkInv /\ OriginsGrow
      /\ OriginsExplainValues /\ ChangesAreRecorded /\ RestUntouched
  BY DEF IInv
<1>2. /\ ~merger.failed /\ ~Rejected(allowed)
      /\ layers' = Append(layers, read) /\ last' = [layer |-> layer, allowed |-> allowed]
      /\ walk' = Children(read.values, <<>>) /\ edits' = read.edits
      /\ base' = merger /\ merger' = merger
  BY DEF ApplyNext
<1>3. IsRead(read)
  <2>1. allowed \in SUBSET Seq(Keys) /\ IsLayer(layer)
    <3>1. Everything \in SUBSET Seq(Keys)
      BY DEF Everything
    <3> QED BY <3>1, MergeLayersAssumption
  <2> QED BY <2>1, ReadIsLayer
<1> HIDE DEF read
<1>4. /\ layers \in Seq(ToSet(layers)) /\ \A i \in DOMAIN layers : IsRead(layers[i])
      /\ IsMerger(merger) /\ \A p \in DOMAIN merger.origins : Last(merger.origins[p])[1] \in DOMAIN layers
  BY <1>1 DEF TypeOK
<1>5. /\ layers' \in Seq(ToSet(layers')) /\ layers' # <<>> /\ Last(layers') = read
      /\ DOMAIN layers \subseteq DOMAIN layers'
      /\ \A i \in DOMAIN layers : layers'[i] = layers[i]
      /\ \A i \in DOMAIN layers' : IsRead(layers'[i])
  <2> DEFINE S == ToSet(layers) \cup {read}
  <2>1. layers \in Seq(S) /\ read \in S
    BY <1>4
  <2> HIDE DEF S
  <2>2. /\ layers' \in Seq(S) /\ Len(layers') = Len(layers) + 1
        /\ layers'[Len(layers) + 1] = read
        /\ \A i \in DOMAIN layers : layers'[i] = layers[i]
        /\ DOMAIN layers' = 1 .. Len(layers) + 1 /\ DOMAIN layers = 1 .. Len(layers)
    BY <1>2, <2>1
  <2>3. layers' # <<>> /\ Last(layers') = read
    BY <2>1, <2>2 DEF Last
  <2>4. layers' \in Seq(ToSet(layers'))
    BY <2>2 DEF ToSet
  <2>5. \A i \in DOMAIN layers' : IsRead(layers'[i])
    BY <1>3, <1>4, <2>1, <2>2
  <2> QED BY <2>2, <2>3, <2>4, <2>5
<1>6. TypeOK'
  BY <1>2, <1>4, <1>5 DEF TypeOK
<1>7. Layer' = read
  BY <1>5 DEF Layer
<1>8. ReadInv'
  <2>1. last'.layer = layer /\ last'.allowed = allowed
    BY <1>2
  <2>2. Layer' = ReadThrough(last'.allowed, last'.layer)
    BY <1>7, <2>1 DEF read
  <2>3. walk' \subseteq DOMAIN Layer'.values /\ edits' \subseteq Layer'.edits
    BY <1>2, <1>7 DEF Children, Below
  <2> QED BY <1>2, <1>5, <2>1, <2>2, <2>3 DEF ReadInv
<1>9. WalkInv'
  <2>1. IsTree(merger.values) /\ IsTree(read.values)
    BY <1>3, <1>4 DEF IsMerger, IsRead
  <2>2. /\ Ahead(merger.values, read.values, walk')
        /\ Walked(merger.values, merger.values, read.values, walk')
    <3>1. <<>> \in Seq(Keys) /\ Len(<<>>) = 0
      OBVIOUS
    <3> QED BY <1>2, <2>1, <3>1, WalkBegins
  <2>3. /\ DOMAIN merger.values \subseteq Paths /\ DOMAIN read.values \subseteq Paths
        /\ base'.values = merger.values /\ merger'.values = merger.values
        /\ Layer'.values = read.values
    BY <1>2, <1>7, <2>1 DEF IsTree, IsPart
  <2>4. \A p \in DOMAIN base'.values \cup DOMAIN Layer'.values \cup DOMAIN merger'.values :
          At(merger'.values, p) =
            IF \E q \in walk' : IsPrefix(q, p) THEN At(base'.values, p)
            ELSE At(Pathwise(base'.values, Layer'.values), p)
    BY <2>2, <2>3 DEF Walked
  <2>5. /\ \A p \in walk' : \A q \in Above(p) :
             IsMap(base'.values, q) /\ ~NewVariant(base'.values, Layer'.values, q)
        /\ \A p, q \in walk' : IsPrefix(p, q) => p = q
    BY <2>2, <2>3 DEF Ahead
  <2>6. edits' = Layer'.edits
    BY <1>2, <1>7
  <2> QED BY <2>4, <2>5, <2>6 DEF WalkInv
<1>10. OriginsGrow'
  BY <1>1, <1>2 DEF OriginsGrow, OriginsExplainValues
<1>11. OriginsExplainValues'
  BY <1>1, <1>2, <1>4, <1>5 DEF OriginsExplainValues
<1>12. ChangesAreRecorded' /\ RestUntouched'
  BY <1>2 DEF ChangesAreRecorded, RestUntouched
<1> QED BY <1>6, <1>8, <1>9, <1>10, <1>11, <1>12 DEF IInv

\* What mergeMap does at one path, as the invariants see it: t is what it merges, given are
\* the paths that it writes.
LEMMA MergeKeyDoes ==
  ASSUME IInv, NEW p \in walk, MergeKey(p)
  PROVE  LET t == Layer.values
             i == Len(layers)
             over == ~GoesOn(merger.values, t, p)
             given == IF over THEN From(DOMAIN t, p) ELSE {p}
         IN  /\ IsMerger(merger') /\ merger'.failed = merger.failed
             /\ \A r \in Paths :
                  At(merger'.values, r) =
                    IF over /\ IsPrefix(p, r) THEN At(t, r) ELSE At(merger.values, r)
             /\ Gains(merger'.origins, merger.origins, given)
             /\ Wrote(merger'.origins, given, i, "set", Layer.locations)
             /\ \A r \in given : Said(merger'.origins, r, i, "set")
             /\ \A r \in DOMAIN merger.origins \ given :
                  IF over /\ p \in DOMAIN merger.values /\ IsPrefix(p, r)
                    THEN Said(merger'.origins, r, i, "replaced")
                    ELSE merger'.origins[r] = merger.origins[r]
<1> DEFINE t == Layer.values
           i == Len(layers)
           over == ~GoesOn(merger.values, t, p)
           given == IF over THEN From(DOMAIN t, p) ELSE {p}
<1>1. TypeOK /\ ReadInv /\ WalkInv
  BY DEF IInv
<1>2. layers # <<>>
  BY <1>1 DEF ReadInv, Applied
<1>3. /\ i \in Nat /\ IsRead(Layer) /\ IsMerger(merger) /\ IsMerger(base)
      /\ IsTree(t) /\ IsTree(merger.values) /\ IsTree(base.values)
      /\ Layer.locations \in SUBSET Seq(Keys) /\ walk \subseteq DOMAIN t
  BY <1>1, <1>2, LastLayer DEF TypeOK, IsRead, IsMerger
<1>4. merger' = MergeAt(merger, t, p, i, Layer.locations)
  BY DEF MergeKey
<1>5. /\ Ahead(base.values, t, walk) /\ Walked(merger.values, base.values, t, walk)
  BY <1>1, <1>2, WalkIs
<1>6. \A r \in Above(p) : IsMap(merger.values, r)
  BY <1>3, <1>5, AheadAreMaps
<1>7. p \in DOMAIN t /\ p \in Paths /\ IsPrefix(p, p)
  BY <1>3, PrefixOrders DEF IsTree, IsPart, Paths
<1> HIDE DEF t, i
<1>8. CASE ~over
  <2>1. given = {p}
    BY <1>8
  <2>2. /\ IsMerger(merger') /\ merger'.failed = merger.failed
        /\ merger'.values = merger.values
        /\ Gains(merger'.origins, merger.origins, {p}) /\ Said(merger'.origins, p, i, "set")
        /\ Wrote(merger'.origins, {p}, i, "set", Layer.locations)
        /\ \A r \in DOMAIN merger.origins : r # p => merger'.origins[r] = merger.origins[r]
    BY <1>3, <1>4, <1>7, <1>8, GoingOn
  <2> HIDE DEF given, over
  <2> QED BY <1>8, <2>1, <2>2 DEF t, i, over, given
<1>9. CASE over
  <2>1. given = From(DOMAIN t, p)
    BY <1>9
  <2>2. /\ IsMerger(merger') /\ merger'.failed = merger.failed
        /\ \A r \in Paths :
             At(merger'.values, r) = IF IsPrefix(p, r) THEN At(t, r) ELSE At(merger.values, r)
        /\ Gains(merger'.origins, merger.origins, From(DOMAIN t, p))
        /\ Wrote(merger'.origins, From(DOMAIN t, p), i, "set", Layer.locations)
        /\ \A r \in From(DOMAIN t, p) : Said(merger'.origins, r, i, "set")
        /\ \A r \in DOMAIN merger.origins \ From(DOMAIN t, p) :
             IF p \in DOMAIN merger.values /\ IsPrefix(p, r) /\ p # r
               THEN Said(merger'.origins, r, i, "replaced")
               ELSE merger'.origins[r] = merger.origins[r]
    BY <1>3, <1>4, <1>6, <1>7, <1>9, Overwriting
  <2>3. p \in From(DOMAIN t, p)
    BY <1>7 DEF From
  <2> HIDE DEF given, over
  <2>4. \A r \in DOMAIN merger.origins \ given : r # p
    BY <2>1, <2>3
  <2> QED BY <1>9, <2>1, <2>2, <2>4 DEF t, i, over, given
<1> QED BY <1>8, <1>9

LEMMA MergeKeyKeeps ==
  ASSUME IInv, NEW p \in walk, MergeKey(p)
  PROVE  IInv'
<1> DEFINE t == Layer.values
           i == Len(layers)
           v == base.values
           over == ~GoesOn(merger.values, t, p)
           given == IF over THEN From(DOMAIN t, p) ELSE {p}
<1>1. /\ TypeOK /\ ReadInv /\ WalkInv /\ OriginsGrow
      /\ OriginsExplainValues /\ ChangesAreRecorded /\ RestUntouched
  BY DEF IInv
<1>2. /\ layers # <<>>
  BY <1>1 DEF ReadInv, Applied
<1>3. /\ layers' = layers /\ last' = last /\ base' = base /\ edits' = edits
      /\ walk' = (walk \ {p}) \cup IF over THEN {} ELSE Children(t, p)
  BY DEF MergeKey
<1>4. Layer' = Layer
  BY <1>3 DEF Layer
<1>5. /\ i \in Nat /\ i \in DOMAIN layers /\ Layer = layers[i] /\ IsRead(Layer)
      /\ IsMerger(merger) /\ IsMerger(base)
      /\ IsTree(t) /\ IsTree(merger.values) /\ IsTree(v) /\ walk \subseteq DOMAIN t
      /\ DOMAIN t \subseteq Paths /\ DOMAIN v \subseteq Paths
      /\ DOMAIN merger.values \subseteq Paths
  BY <1>1, <1>2, LastLayer DEF TypeOK, IsRead, IsMerger, IsTree, IsPart
<1>6. /\ IsMerger(merger') /\ merger'.failed = merger.failed
      /\ \A r \in Paths :
           At(merger'.values, r) =
             IF over /\ IsPrefix(p, r) THEN At(t, r) ELSE At(merger.values, r)
      /\ Gains(merger'.origins, merger.origins, given)
      /\ \A r \in given : Said(merger'.origins, r, i, "set")
      /\ \A r \in DOMAIN merger.origins \ given :
           IF over /\ p \in DOMAIN merger.values /\ IsPrefix(p, r)
             THEN Said(merger'.origins, r, i, "replaced")
             ELSE merger'.origins[r] = merger.origins[r]
  BY MergeKeyDoes
<1>7. /\ p \in Paths /\ IsPrefix(p, p) /\ given \subseteq DOMAIN t
      /\ over => \A r : r \in given <=> r \in DOMAIN t /\ IsPrefix(p, r)
  BY <1>5, PrefixOrders DEF Paths, From
<1>8. /\ Ahead(v, t, walk) /\ Walked(merger.values, v, t, walk) /\ edits = Layer.edits
      /\ At(merger.values, p) = At(v, p)
      /\ \A r \in Paths : IsPrefix(p, r) => At(merger.values, r) = At(v, r)
  BY <1>1, <1>2, <1>5, WalkIs, AheadAreMaps DEF Walked
<1>9. over => ~IsMap(merger.values, p) \/ ~IsMap(t, p) \/ Switches(merger.values, t, p)
  BY DEF GoesOn
<1>10. ~over => IsMap(merger.values, p) /\ IsMap(t, p)
  BY DEF GoesOn
<1>11. /\ IsTree(merger'.values) /\ DOMAIN merger'.values \subseteq Paths
  BY <1>6 DEF IsMerger, IsTree, IsPart
<1> HIDE DEF over, given
<1>12. DOMAIN merger'.origins = DOMAIN merger.origins \cup given
  BY <1>6 DEF Gains
<1>13. TypeOK'
  <2>1. ASSUME NEW r \in DOMAIN merger'.origins
        PROVE  Last(merger'.origins[r])[1] \in DOMAIN layers'
    <3>1. CASE r \in given
      BY <1>3, <1>5, <1>6, <3>1 DEF Said
    <3>2. CASE r \notin given
      <4>1. r \in DOMAIN merger.origins /\ Last(merger.origins[r])[1] \in DOMAIN layers
        BY <1>1, <1>12, <2>1, <3>2 DEF TypeOK
      <4> QED BY <1>3, <1>5, <1>6, <3>2, <4>1 DEF Said
    <3> QED BY <3>1, <3>2
  <2> QED BY <1>1, <1>3, <1>6, <2>1 DEF TypeOK
<1>14. ReadInv'
  <2>1. Children(t, p) \subseteq DOMAIN t
    BY DEF Children, Below
  <2>2. walk' \subseteq DOMAIN Layer.values
    BY <1>3, <1>5, <2>1
  <2>3. edits \subseteq Layer.edits
    BY <1>8
  <2> QED BY <1>1, <1>2, <1>3, <1>4, <2>2, <2>3 DEF ReadInv
<1>15. WalkInv'
  <2>1. Walked(merger'.values, v, t, walk') /\ Ahead(v, t, walk')
    <3>1. CASE ~over
      <4>1. /\ Walked(merger.values, v, t, walk') /\ Ahead(v, t, walk')
        BY <1>3, <1>5, <1>8, <3>1, WalkGoesOn DEF over
      <4>2. \A r \in Paths : At(merger'.values, r) = At(merger.values, r)
        BY <1>6, <3>1
      <4> QED BY <4>1, <4>2 DEF Walked
    <3>2. CASE over
      <4>1. walk' = walk \ {p}
        BY <1>3, <3>2
      <4>2. \A r \in Paths :
              At(merger'.values, r) =
                IF IsPrefix(p, r) THEN At(t, r) ELSE At(merger.values, r)
        BY <1>6, <3>2
      <4>3. ~GoesOn(merger.values, t, p)
        BY <3>2 DEF over
      <4>4. /\ IsTree(v) /\ IsTree(t) /\ IsTree(merger.values)
            /\ Walked(merger.values, v, t, walk) /\ Ahead(v, t, walk)
        BY <1>5, <1>8
      <4> DEFINE new == merger'.values
      <4>5. \A r \in Paths :
              At(new, r) = IF IsPrefix(p, r) THEN At(t, r) ELSE At(merger.values, r)
        BY <4>2
      <4> HIDE DEF new, t, v
      <4>6. Walked(new, v, t, walk \ {p}) /\ Ahead(v, t, walk \ {p})
        BY <4>3, <4>4, <4>5, WalkWritesOver
      <4> QED BY <4>1, <4>6 DEF new
    <3> QED BY <3>1, <3>2
  <2>2. \A r \in DOMAIN v \cup DOMAIN t \cup DOMAIN merger'.values :
          At(merger'.values, r) = IF \E q \in walk' : IsPrefix(q, r) THEN At(v, r)
                                  ELSE At(Pathwise(v, t), r)
    BY <1>5, <1>11, <2>1 DEF Walked
  <2>3. /\ \A q \in walk' : \A r \in Above(q) : IsMap(v, r) /\ ~NewVariant(v, t, r)
        /\ \A q, r \in walk' : IsPrefix(q, r) => q = r
    BY <2>1 DEF Ahead
  <2> QED BY <1>3, <1>4, <1>8, <2>2, <2>3 DEF WalkInv
<1>16. OriginsGrow'
  BY <1>1, <1>3, <1>12 DEF OriginsGrow
<1>17. OriginsExplainValues'
  <2>1. SUFFICES ASSUME ~merger.failed PROVE OriginsExplainValues'
    BY <1>6 DEF OriginsExplainValues
  <2>2. ASSUME NEW r \in DOMAIN merger'.values, IsScalar(merger'.values, r)
        PROVE  /\ r \in DOMAIN merger'.origins
               /\ LET origin == Last(merger'.origins[r])
                  IN  Supplies(layers[origin[1]], origin[2], r, merger'.values[r])
    <3>1. /\ r \in Paths /\ At(merger'.values, r) = merger'.values[r]
          /\ At(merger'.values, r) \notin {"nothing", "map"}
      BY <1>11, <2>2, AtTells DEF IsTree
    <3>2. CASE over /\ IsPrefix(p, r)
      <4>1. At(t, r) = merger'.values[r] /\ r \in DOMAIN t
        BY <1>5, <1>6, <3>1, <3>2, AtTells DEF IsTree
      <4>2. r \in given
        BY <1>7, <3>2, <4>1
      <4> QED BY <1>5, <1>6, <1>12, <4>1, <4>2 DEF Said, Supplies
    <3>3. CASE ~(over /\ IsPrefix(p, r))
      <4>1. At(merger.values, r) = merger'.values[r]
        BY <1>6, <3>1, <3>3
      <4>2. r \in DOMAIN merger.values /\ IsScalar(merger.values, r)
            /\ merger.values[r] = merger'.values[r]
        BY <1>5, <3>1, <4>1, AtTells DEF IsTree
      <4>3. /\ r \in DOMAIN merger.origins
            /\ LET origin == Last(merger.origins[r])
               IN  Supplies(layers[origin[1]], origin[2], r, merger.values[r])
        BY <1>1, <2>1, <4>2 DEF OriginsExplainValues
      <4>4. r \notin given
        BY <1>7, <1>10, <3>3, <4>2 DEF given, IsMap, IsScalar
      <4>5. merger'.origins[r] = merger.origins[r]
        BY <1>6, <3>3, <4>3, <4>4
      <4> QED BY <1>12, <4>2, <4>3, <4>5
    <3> QED BY <3>2, <3>3
  <2>3. ASSUME NEW r \in DOMAIN merger'.origins, r \notin DOMAIN merger'.values
        PROVE  Last(merger'.origins[r])[2] # "set"
    <3>1. r \in Paths /\ At(merger'.values, r) = "nothing"
      BY <1>6, <2>3 DEF IsMerger, At
    <3>2. r \notin given
      <4>1. SUFFICES ASSUME r \in given PROVE FALSE
        OBVIOUS
      <4>2. r \in DOMAIN t /\ At(t, r) # "nothing"
        BY <1>5, <1>7, <4>1, AtTells DEF IsTree
      <4>3. CASE over
        BY <1>6, <1>7, <3>1, <4>1, <4>2, <4>3
      <4>4. CASE ~over
        <5>1. At(merger.values, p) = "map"
          BY <1>5, <1>10, <4>4, AtTells DEF IsTree
        <5> QED BY <1>6, <1>7, <3>1, <4>1, <4>4, <5>1 DEF given
      <4> QED BY <4>3, <4>4
    <3>3. r \in DOMAIN merger.origins
      BY <1>12, <2>3, <3>2
    <3>4. CASE over /\ p \in DOMAIN merger.values /\ IsPrefix(p, r)
      BY <1>6, <3>2, <3>3, <3>4 DEF Said
    <3>5. CASE ~(over /\ p \in DOMAIN merger.values /\ IsPrefix(p, r))
      <4>1. merger'.origins[r] = merger.origins[r]
        BY <1>6, <3>2, <3>3, <3>5
      <4>2. r \notin DOMAIN merger.values
        <5>1. SUFFICES ASSUME r \in DOMAIN merger.values PROVE FALSE
          OBVIOUS
        <5>2. At(merger.values, r) # "nothing"
          BY <1>5, <5>1, AtTells DEF IsTree
        <5>3. over /\ IsPrefix(p, r)
          BY <1>6, <3>1, <5>2
        <5>4. p \notin DOMAIN merger.values
          BY <3>5, <5>3
        <5> QED BY <1>5, <1>7, <5>1, <5>3, <5>4, TreeAbove DEF IsMap
      <4> QED BY <1>1, <2>1, <3>3, <4>1, <4>2 DEF OriginsExplainValues
    <3> QED BY <3>4, <3>5
  <2> QED BY <1>3, <2>2, <2>3 DEF OriginsExplainValues
<1>18. ChangesAreRecorded'
  <2>1. SUFFICES ASSUME ~merger.failed, NEW r \in DOMAIN v \cup DOMAIN merger'.values
        PROVE  \/ At(v, r) = At(merger'.values, r)
               \/ r \in DOMAIN merger'.origins /\ Last(merger'.origins[r])[1] = i
               \/ IsMap(merger'.values, r) /\ \E edit \in Layer.edits : r \in Above(edit[2].path)
               \/ IsMap(v, r) /\ r \notin DOMAIN base.origins
    BY <1>3, <1>4, <1>6 DEF ChangesAreRecorded
  <2>2. r \in Paths
    BY <1>5, <1>11
  <2>3. CASE over /\ IsPrefix(p, r)
    <3>1. CASE r \in DOMAIN t
      BY <1>6, <1>7, <1>12, <2>3, <3>1 DEF Said
    <3>2. CASE r \notin DOMAIN t
      <4>1. At(merger'.values, r) = "nothing"
        BY <1>6, <2>2, <2>3, <3>2 DEF At
      <4>2. r \in DOMAIN v
        BY <1>11, <2>1, <4>1, AtTells DEF IsTree
      <4>3. p \in DOMAIN merger.values
        <5>1. At(merger.values, r) # "nothing"
          BY <1>5, <1>8, <2>2, <2>3, <4>2, AtTells DEF IsTree
        <5>2. r \in DOMAIN merger.values
          BY <1>5, <5>1, AtTells DEF IsTree
        <5> QED BY <1>5, <1>7, <2>3, <5>2, TreeAbove DEF IsMap
      <4>4. CASE r \in DOMAIN merger.origins
        BY <1>6, <1>7, <1>12, <2>3, <3>2, <4>3, <4>4 DEF Said
      <4>5. CASE r \notin DOMAIN merger.origins
        BY <1>1, <4>2, <4>5 DEF OriginsGrow, IsMap, IsScalar
      <4> QED BY <4>4, <4>5
    <3> QED BY <3>1, <3>2
  <2>4. CASE ~(over /\ IsPrefix(p, r))
    <3>1. At(merger'.values, r) = At(merger.values, r)
      BY <1>6, <2>2, <2>4
    <3>2. /\ r \in DOMAIN merger'.values <=> r \in DOMAIN merger.values
          /\ IsMap(merger'.values, r) <=> IsMap(merger.values, r)
      BY <1>5, <1>11, <3>1, AtTells DEF IsTree
    <3>3. \/ At(v, r) = At(merger.values, r)
          \/ r \in DOMAIN merger.origins /\ Last(merger.origins[r])[1] = i
          \/ IsMap(merger.values, r) /\ \E edit \in Layer.edits : r \in Above(edit[2].path)
          \/ IsMap(v, r) /\ r \notin DOMAIN base.origins
      BY <1>1, <2>1, <3>2 DEF ChangesAreRecorded
    <3>4. ASSUME r \in DOMAIN merger.origins, Last(merger.origins[r])[1] = i
          PROVE  r \in DOMAIN merger'.origins /\ Last(merger'.origins[r])[1] = i
      BY <1>6, <1>12, <2>4, <3>4 DEF Said
    <3> QED BY <3>1, <3>2, <3>3, <3>4
  <2> QED BY <2>3, <2>4
<1>19. RestUntouched'
  <2> DEFINE allowed == last.allowed
             touches(w, r) ==
               /\ Leads(allowed, r) /\ IsMap(w, r)
               /\ \E q \in Below(GivenPaths(last.layer), r) : Selected(allowed, q)
  <2>1. SUFFICES ASSUME allowed # Everything, ~merger.failed,
                        NEW r \in DOMAIN v \cup DOMAIN merger'.values, ~Selected(allowed, r)
                 PROVE  At(merger'.values, r) = At(v, r) \/ touches(merger'.values, r)
    BY <1>3, <1>6 DEF RestUntouched
  <2>2. r \in Paths
    BY <1>5, <1>11
  <2>3. CASE over /\ IsPrefix(p, r)
    <3>1. /\ allowed \in SUBSET Seq(Keys) /\ IsLayer(last.layer) /\ ~Rejected(allowed)
          /\ Layer = ReadThrough(allowed, last.layer)
      BY <1>1, <1>2, LastLayer
    <3>2. t = Project(allowed, last.layer.values)
      BY <2>1, <3>1, ReadIsLayer
    <3>3. \A q \in DOMAIN t :
            ~Selected(allowed, q) =>
              /\ IsMap(t, q) /\ Leads(allowed, q)
              /\ \E x \in Below(DOMAIN last.layer.values, q) : Selected(allowed, x)
      <4>1. IsTree(last.layer.values)
        BY <3>1 DEF IsLayer
      <4> HIDE DEF t, allowed
      <4> QED BY <3>1, <3>2, <4>1, ProjectIsTree
    <3>4. ~Selected(allowed, p)
      BY <1>7, <2>1, <2>2, <2>3, <3>1, SelectedBelow
    <3>5. CASE r \in DOMAIN t
      <4>1. IsMap(merger'.values, r)
        <5>1. At(t, r) = "map"
          BY <1>5, <2>1, <3>3, <3>5, AtTells DEF IsTree
        <5> QED BY <1>6, <1>11, <2>2, <2>3, <5>1, AtTells DEF IsTree
      <4>2. \E q \in Below(GivenPaths(last.layer), r) : Selected(allowed, q)
        BY <2>1, <3>3, <3>5 DEF GivenPaths, Below
      <4> QED BY <2>1, <3>3, <3>5, <4>1, <4>2
    <3>6. CASE r \notin DOMAIN t
      <4>1. At(merger'.values, r) = "nothing"
        BY <1>6, <2>2, <2>3, <3>6 DEF At
      <4>2. CASE r \notin DOMAIN v
        BY <4>1, <4>2 DEF At
      <4>3. CASE r \in DOMAIN v
        <5>1. r \in DOMAIN merger.values
          <6>1. At(merger.values, r) # "nothing"
            BY <1>5, <1>8, <2>2, <2>3, <4>3, AtTells DEF IsTree
          <6> QED BY <1>5, <6>1, AtTells DEF IsTree
        <5>2. r # p /\ p \in DOMAIN t
          BY <1>5, <3>6
        <5>3. IsMap(merger.values, p) /\ IsMap(t, p)
          BY <1>5, <1>7, <2>3, <3>3, <3>4, <5>1, <5>2, TreeAbove
        <5>4. Switches(merger.values, t, p)
          BY <1>9, <2>3, <5>3
        <5>5. PICK union \in Unions : union.path = p
          BY <5>4 DEF Switches, IsUnion
        <5>6. Append(p, Disc) \in DOMAIN t
          BY <5>4 DEF Switches
        <5>7. Selected(allowed, Append(p, Disc)) \/ Leads(allowed, Append(p, Disc))
          BY <3>3, <5>6
        <5> QED BY <3>1, <3>4, <5>5, <5>7 DEF Rejected
      <4> QED BY <4>2, <4>3
    <3> QED BY <3>5, <3>6
  <2>4. CASE ~(over /\ IsPrefix(p, r))
    <3>1. At(merger'.values, r) = At(merger.values, r)
      BY <1>6, <2>2, <2>4
    <3>2. /\ r \in DOMAIN merger'.values <=> r \in DOMAIN merger.values
          /\ IsMap(merger'.values, r) <=> IsMap(merger.values, r)
      BY <1>5, <1>11, <3>1, AtTells DEF IsTree
    <3>3. At(merger.values, r) = At(v, r) \/ touches(merger.values, r)
      BY <1>1, <2>1, <3>2 DEF RestUntouched
    <3> QED BY <3>1, <3>2, <3>3
  <2> QED BY <2>3, <2>4
<1> QED BY <1>13, <1>14, <1>15, <1>16, <1>17, <1>18, <1>19 DEF IInv

\* What is written by an edit, and what it makes and leaves; the layer has an edit e there.
LEMMA MakeEditKeeps ==
  ASSUME IInv, NEW edit \in edits, MakeEdit(edit[1], edit[2])
  PROVE  IInv'
<1> DEFINE e == edit[2]
           i == Len(layers)
           v == base.values
           made == Made(merger, e)
           written == Written(e)
<1>1. /\ TypeOK /\ ReadInv /\ WalkInv /\ OriginsGrow
      /\ OriginsExplainValues /\ ChangesAreRecorded /\ RestUntouched
  BY DEF IInv
<1>2. /\ layers # <<>>
  BY <1>1 DEF ReadInv, Applied
<1>3. /\ layers' = layers /\ last' = last /\ base' = base /\ walk' = walk /\ walk = {}
      /\ merger' = Edit(merger, e, i, Layer.locations)
      /\ edits' = IF merger'.failed THEN {} ELSE edits \ {<<edit[1], e>>}
  BY DEF MakeEdit
<1>4. Layer' = Layer
  BY <1>3 DEF Layer
<1>5. /\ i \in Nat /\ i \in DOMAIN layers /\ Layer = layers[i] /\ IsRead(Layer)
      /\ IsMerger(merger) /\ IsMerger(base) /\ IsTree(merger.values) /\ IsTree(v)
      /\ DOMAIN v \subseteq Paths /\ DOMAIN merger.values \subseteq Paths
      /\ Layer.locations \in SUBSET Seq(Keys) /\ edits \subseteq Layer.edits
  BY <1>1, <1>2, LastLayer DEF TypeOK, IsRead, IsMerger, IsTree, IsPart
<1>6. /\ edit \in Layer.edits /\ edit = <<edit[1], e>> /\ IsEdit(e)
  BY <1>5 DEF IsRead
<1>7. edits' \subseteq edits /\ edit \notin edits'
  BY <1>3, <1>6
<1>8. ReadInv'
  <2>1. edits' \subseteq Layer.edits
    BY <1>5, <1>7
  <2> QED BY <1>1, <1>2, <1>3, <1>4, <2>1 DEF ReadInv
<1>9. WalkInv'
  BY <1>3, <1>4, <1>6, <1>7 DEF WalkInv
<1> HIDE DEF e, i, v, made, written
<1>10. CASE Failing(merger, e)
  <2>1. /\ IsMerger(merger') /\ merger'.failed
        /\ merger'.values = merger.values /\ merger'.origins = merger.origins
    BY <1>3, <1>5, <1>10, EditFails
  <2>2. TypeOK'
    BY <1>1, <1>3, <2>1 DEF TypeOK
  <2>3. OriginsGrow'
    BY <1>1, <1>3, <2>1 DEF OriginsGrow
  <2>4. OriginsExplainValues' /\ ChangesAreRecorded' /\ RestUntouched'
    BY <2>1 DEF OriginsExplainValues, ChangesAreRecorded, RestUntouched
  <2> QED BY <1>8, <1>9, <2>2, <2>3, <2>4 DEF IInv
<1>11. CASE ~Failing(merger, e)
  <2>1. /\ IsMerger(merger') /\ merger'.failed = merger.failed
        /\ \A r \in Paths :
             At(merger'.values, r) = IF IsPrefix(e.path, r) THEN At(e.value, r)
                                     ELSE IF r \in made THEN "map"
                                     ELSE At(merger.values, r)
        /\ Gains(merger'.origins, merger.origins, written)
        /\ \A r \in written : Said(merger'.origins, r, i, e.kind)
        /\ \A r \in DOMAIN merger.origins \ written :
             IF IsPrefix(e.path, r) /\ e.path # r
               THEN Said(merger'.origins, r, i, e.kind)
               ELSE merger'.origins[r] = merger.origins[r]
    BY <1>3, <1>5, <1>6, <1>11, Editing DEF made, written
  <2>2. DOMAIN merger'.origins = DOMAIN merger.origins \cup written
    BY <2>1 DEF Gains
  <2>3. ~merger.failed
    BY <1>11 DEF Failing
  <2>4. /\ e.path \in Paths /\ e.kind \in {"replace", "delete"} /\ e.path \in written
        /\ IsPart(e.value) /\ written \subseteq Paths
        /\ \A r \in written : IsPrefix(e.path, r)
        /\ e.kind = "replace" => e.path \in DOMAIN e.value /\ written = DOMAIN e.value
        /\ e.kind = "delete" => DOMAIN e.value = {} /\ written = {e.path}
    BY <1>6, EditParts DEF written, IsBranch, Written
  <2>5. \A r \in made : e.kind = "replace" /\ r \in Above(e.path)
    BY DEF made, Made
  <2>6. IsTree(merger'.values) /\ DOMAIN merger'.values \subseteq Paths
    BY <2>1 DEF IsMerger, IsTree, IsPart
  <2>7. TypeOK'
    <3>1. ASSUME NEW r \in DOMAIN merger'.origins
          PROVE  Last(merger'.origins[r])[1] \in DOMAIN layers'
      <4>1. CASE Said(merger'.origins, r, i, e.kind)
        BY <1>3, <1>5, <4>1 DEF Said
      <4>2. CASE ~Said(merger'.origins, r, i, e.kind)
        <5>1. r \in DOMAIN merger.origins /\ merger'.origins[r] = merger.origins[r]
          BY <2>1, <2>2, <3>1, <4>2
        <5>2. Last(merger.origins[r])[1] \in DOMAIN layers
          BY <1>1, <5>1 DEF TypeOK
        <5> QED BY <1>3, <5>1, <5>2
      <4> QED BY <4>1, <4>2
    <3> QED BY <1>1, <1>3, <2>1, <3>1 DEF TypeOK
  <2>8. OriginsGrow'
    BY <1>1, <1>3, <2>2 DEF OriginsGrow
  <2>9. OriginsExplainValues'
    <3>1. ASSUME NEW r \in DOMAIN merger'.values, IsScalar(merger'.values, r)
          PROVE  /\ r \in DOMAIN merger'.origins
                 /\ LET origin == Last(merger'.origins[r])
                    IN  Supplies(layers[origin[1]], origin[2], r, merger'.values[r])
      <4>1. /\ r \in Paths /\ At(merger'.values, r) = merger'.values[r]
            /\ At(merger'.values, r) \notin {"nothing", "map"}
        BY <2>6, <3>1, AtTells DEF IsTree
      <4>2. CASE IsPrefix(e.path, r)
        <5>1. At(e.value, r) = merger'.values[r] /\ r \in DOMAIN e.value
          BY <2>1, <2>4, <4>1, <4>2, AtTells
        <5>2. r \in written /\ e.kind = "replace"
          BY <2>4, <5>1
        <5>3. Said(merger'.origins, r, i, "replace")
          BY <2>1, <5>2
        <5>4. Supplies(layers[i], "replace", r, merger'.values[r])
          BY <1>5, <1>6, <5>1 DEF Supplies, e
        <5> QED BY <2>2, <5>2, <5>3, <5>4 DEF Said
      <4>3. CASE ~IsPrefix(e.path, r)
        <5>1. At(merger.values, r) = merger'.values[r]
          BY <2>1, <4>1, <4>3
        <5>2. r \in DOMAIN merger.values /\ IsScalar(merger.values, r)
              /\ merger.values[r] = merger'.values[r]
          BY <1>5, <4>1, <5>1, AtTells DEF IsTree
        <5>3. /\ r \in DOMAIN merger.origins
              /\ LET origin == Last(merger.origins[r])
                 IN  Supplies(layers[origin[1]], origin[2], r, merger.values[r])
          BY <1>1, <2>3, <5>2 DEF OriginsExplainValues
        <5>4. merger'.origins[r] = merger.origins[r]
          BY <2>1, <2>4, <4>3, <5>3
        <5> QED BY <2>2, <5>2, <5>3, <5>4
      <4> QED BY <4>2, <4>3
    <3>2. ASSUME NEW r \in DOMAIN merger'.origins, r \notin DOMAIN merger'.values
          PROVE  Last(merger'.origins[r])[2] # "set"
      <4>1. r \in Paths /\ At(merger'.values, r) = "nothing"
        BY <2>1, <3>2 DEF IsMerger, At
      <4>2. CASE Said(merger'.origins, r, i, e.kind)
        BY <2>4, <4>2 DEF Said
      <4>3. CASE ~Said(merger'.origins, r, i, e.kind)
        <5>1. /\ r \in DOMAIN merger.origins /\ merger'.origins[r] = merger.origins[r]
              /\ ~IsPrefix(e.path, r)
          BY <2>1, <2>2, <2>4, <3>2, <4>3
        <5>2. At(merger.values, r) = "nothing"
          BY <2>1, <4>1, <5>1
        <5>3. r \notin DOMAIN merger.values
          BY <1>5, <5>2, AtTells DEF IsTree
        <5> QED BY <1>1, <2>3, <5>1, <5>3 DEF OriginsExplainValues
      <4> QED BY <4>2, <4>3
    <3> QED BY <1>3, <3>1, <3>2 DEF OriginsExplainValues
  <2>10. ChangesAreRecorded'
    <3>1. SUFFICES ASSUME NEW r \in DOMAIN v \cup DOMAIN merger'.values
          PROVE  \/ At(v, r) = At(merger'.values, r)
                 \/ r \in DOMAIN merger'.origins /\ Last(merger'.origins[r])[1] = i
                 \/ IsMap(merger'.values, r) /\ \E x \in Layer.edits : r \in Above(x[2].path)
                 \/ IsMap(v, r) /\ r \notin DOMAIN base.origins
      BY <1>3, <1>4 DEF ChangesAreRecorded, i, v
    <3>2. r \in Paths
      BY <1>5, <2>6
    <3>3. CASE r \in DOMAIN merger'.origins /\ Said(merger'.origins, r, i, e.kind)
      BY <3>3 DEF Said
    <3>4. CASE r \in made /\ ~IsPrefix(e.path, r)
      <4>1. IsMap(merger'.values, r)
        BY <2>1, <2>6, <3>2, <3>4, AtTells DEF IsTree
      <4> QED BY <1>6, <2>5, <3>4, <4>1 DEF e
    <3>5. CASE IsPrefix(e.path, r) /\ ~(r \in DOMAIN merger'.origins
                                         /\ Said(merger'.origins, r, i, e.kind))
      <4>1. r \notin written /\ r \notin DOMAIN merger.origins
        BY <2>1, <2>2, <2>4, <3>5
      <4>2. r \notin DOMAIN e.value
        BY <2>4, <4>1
      <4>3. At(merger'.values, r) = "nothing"
        BY <2>1, <3>2, <3>5, <4>2 DEF At
      <4>4. r \in DOMAIN v
        BY <2>6, <3>1, <4>3, AtTells DEF IsTree
      <4> QED BY <1>1, <4>1, <4>4 DEF OriginsGrow, IsMap, IsScalar, v
    <3>6. CASE ~IsPrefix(e.path, r) /\ r \notin made
      <4>1. At(merger'.values, r) = At(merger.values, r)
        BY <2>1, <3>2, <3>6
      <4>2. /\ r \in DOMAIN merger'.values <=> r \in DOMAIN merger.values
            /\ IsMap(merger'.values, r) <=> IsMap(merger.values, r)
        BY <1>5, <2>6, <4>1, AtTells DEF IsTree
      <4>3. \/ At(v, r) = At(merger.values, r)
            \/ r \in DOMAIN merger.origins /\ Last(merger.origins[r])[1] = i
            \/ IsMap(merger.values, r) /\ \E x \in Layer.edits : r \in Above(x[2].path)
            \/ IsMap(v, r) /\ r \notin DOMAIN base.origins
        BY <1>1, <2>3, <3>1, <4>2 DEF ChangesAreRecorded, i, v
      <4>4. ASSUME r \in DOMAIN merger.origins
            PROVE  r \in DOMAIN merger'.origins /\ merger'.origins[r] = merger.origins[r]
        BY <2>1, <2>2, <2>4, <3>6, <4>4
      <4> QED BY <4>1, <4>2, <4>3, <4>4
    <3> QED BY <3>3, <3>4, <3>5, <3>6
  <2>11. RestUntouched'
    <3> DEFINE allowed == last.allowed
               touches(w, r) ==
                 /\ Leads(allowed, r) /\ IsMap(w, r)
                 /\ \E q \in Below(GivenPaths(last.layer), r) : Selected(allowed, q)
    <3>1. SUFFICES ASSUME allowed # Everything, NEW r \in DOMAIN v \cup DOMAIN merger'.values,
                          ~Selected(allowed, r)
                   PROVE  At(merger'.values, r) = At(v, r) \/ touches(merger'.values, r)
      BY <1>3 DEF RestUntouched, v
    <3>2. r \in Paths
      BY <1>5, <2>6
    <3>3. /\ allowed \in SUBSET Seq(Keys) /\ IsLayer(last.layer)
          /\ Layer = ReadThrough(allowed, last.layer)
      BY <1>1, <1>2, LastLayer
    <3>4. /\ Selected(allowed, e.path)
          /\ \E n \in DOMAIN last.layer.edits :
               DOMAIN e.value \subseteq DOMAIN last.layer.edits[n].value
      BY <1>6, <3>1, <3>3, ReadIsLayer DEF e
    <3>5. ~IsPrefix(e.path, r)
      BY <2>4, <3>1, <3>2, <3>3, <3>4, SelectedBelow
    <3>6. CASE r \in made
      <4>1. r \in Above(e.path) /\ e.path \in DOMAIN e.value
        BY <2>4, <2>5, <3>6
      <4>2. IsPrefix(r, e.path) /\ r # e.path
        BY <2>4, <3>2, <4>1, AboveOrders
      <4>3. Leads(allowed, r)
        BY <2>4, <3>1, <3>2, <3>3, <3>4, <4>2, SelectedBelow
      <4>4. IsMap(merger'.values, r)
        BY <2>1, <2>6, <3>2, <3>5, <3>6, AtTells DEF IsTree
      <4>5. e.path \in Below(GivenPaths(last.layer), r)
        BY <3>4, <4>1, <4>2 DEF GivenPaths, Below, IsStrictPrefix
      <4> QED BY <3>4, <4>3, <4>4, <4>5
    <3>7. CASE r \notin made
      <4>1. At(merger'.values, r) = At(merger.values, r)
        BY <2>1, <3>2, <3>5, <3>7
      <4>2. /\ r \in DOMAIN merger'.values <=> r \in DOMAIN merger.values
            /\ IsMap(merger'.values, r) <=> IsMap(merger.values, r)
        BY <1>5, <2>6, <4>1, AtTells DEF IsTree
      <4>3. At(merger.values, r) = At(v, r) \/ touches(merger.values, r)
        BY <1>1, <2>3, <3>1, <4>2 DEF RestUntouched, v
      <4> QED BY <4>1, <4>2, <4>3
    <3> QED BY <3>6, <3>7
  <2> QED BY <1>8, <1>9, <2>7, <2>8, <2>9, <2>10, <2>11 DEF IInv
<1> QED BY <1>10, <1>11

-----------------------------------------------------------------------------

\* Whatever layers the sources return, filtered or not, and whatever OneOfs are within one
\* another: a merger is a tree whose provenance explains it, at every step of apply.
THEOREM Inductive == Spec => []IInv
<1>1. Init => IInv
  BY Begins
<1>2. IInv /\ [Next]_vars => IInv'
  <2> SUFFICES ASSUME IInv, [Next]_vars PROVE IInv'
    OBVIOUS
  <2>1. ASSUME NEW layer \in Inputs, NEW allowed \in Filters, ApplyNext(layer, allowed)
        PROVE  IInv'
    <3>1. allowed \in Selections \cup {Everything}
      BY DEF Filters
    <3> QED BY <2>1, <3>1, ApplyNextKeeps
  <2>2. ASSUME NEW p \in walk, MergeKey(p)
        PROVE  IInv'
    BY <2>2, MergeKeyKeeps
  <2>3. ASSUME NEW edit \in edits, MakeEdit(edit[1], edit[2])
        PROVE  IInv'
    BY <2>3, MakeEditKeeps
  <2>4. CASE UNCHANGED vars
    <3>1. /\ merger' = merger /\ layers' = layers /\ last' = last /\ walk' = walk
          /\ edits' = edits /\ base' = base
      BY <2>4 DEF vars
    <3>2. Layer' = Layer
      BY <3>1 DEF Layer
    <3>3. TypeOK' /\ ReadInv' /\ OriginsGrow'
      BY <3>1, <3>2 DEF IInv, TypeOK, ReadInv, OriginsGrow, Applied
    <3>4. WalkInv'
      BY <3>1, <3>2 DEF IInv, WalkInv
    <3>5. OriginsExplainValues'
      BY <3>1 DEF IInv, OriginsExplainValues
    <3>6. ChangesAreRecorded'
      BY <3>1, <3>2 DEF IInv, ChangesAreRecorded
    <3>7. RestUntouched'
      BY <3>1 DEF IInv, RestUntouched
    <3> QED BY <3>3, <3>4, <3>5, <3>6, <3>7 DEF IInv
  <2> QED BY <2>1, <2>2, <2>3, <2>4 DEF Next
<1> QED BY <1>1, <1>2, PTL DEF Spec

\* The last origin of a value names a layer that gives it, and that of a path that is gone
\* says how it went (Explain, xconf.go, of what merger.add and invalidate record).
THEOREM ValuesAreExplained == Spec => []OriginsExplainValues
<1>1. IInv => OriginsExplainValues
  BY DEF IInv
<1> QED BY <1>1, Inductive, PTL

\* Every change that a layer makes is recorded in its name, step by step.
THEOREM EveryChangeIsRecorded == Spec => []ChangesAreRecorded
<1>1. IInv => ChangesAreRecorded
  BY DEF IInv
<1> QED BY <1>1, Inductive, PTL

\* The walk of mergeMap, in any order, comes to what Pathwise says of each path.
THEOREM OrderMakesNoDifference == Spec => []MergeIsPathwise
<1>1. IInv => MergeIsPathwise
  <2> SUFFICES ASSUME IInv, layers # <<>>, walk = {}, edits = Layer.edits
               PROVE  merger.values = Pathwise(base.values, Layer.values)
    BY DEF MergeIsPathwise
  <2> DEFINE v == base.values
             t == Layer.values
             w == merger.values
  <2>1. TypeOK /\ ReadInv /\ WalkInv
    BY DEF IInv
  <2>2. IsTree(v) /\ IsTree(t) /\ IsTree(w)
    BY <2>1, LastLayer DEF TypeOK, IsMerger, IsRead
  <2>3. \A p \in Paths : At(w, p) = At(Pathwise(v, t), p)
    BY <2>1, WalkIs DEF Walked
  <2> HIDE DEF v, t, w
  <2>4. IsPart(w) /\ IsPart(Pathwise(v, t))
    BY <2>2, PathwiseAt DEF IsTree
  <2>5. w = Pathwise(v, t)
    BY <2>3, <2>4, SameTree DEF IsPart
  <2> QED BY <2>5 DEF v, t, w
<1> QED BY <1>1, Inductive, PTL

\* "excluded siblings remain intact" (docs/sources.md:42), for any selection that
\* validate does not refuse.
THEOREM SiblingsStayIntact == Spec => []RestUntouched
<1>1. IInv => RestUntouched
  BY DEF IInv
<1> QED BY <1>1, Inductive, PTL
=============================================================================
