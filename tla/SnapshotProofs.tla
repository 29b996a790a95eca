--------------------------- MODULE SnapshotProofs ---------------------------
(***************************************************************************)
(* Facts about module Snapshots: what a load computes is a configuration,   *)
(* and the value of every path comes from the last source that sets it.     *)
(***************************************************************************)
EXTENDS Snapshots, WellFoundedInduction, TLAPS

\* A non-empty set of naturals has a least element: what stands in for induction.
LEMMA LeastNatural ==
  ASSUME NEW T \in SUBSET Nat, T # {}
  PROVE  \E m \in T : \A k \in T : m <= k
<1>1. \E x \in T : \A y \in T : <<y, x>> \notin OpToRel(<, Nat)
  BY WFMin, NatLessThanWellFounded
<1>2. ASSUME NEW x \in T, NEW y \in T, <<y, x>> \notin OpToRel(<, Nat)
      PROVE  x <= y
  BY <1>2 DEF OpToRel
<1> QED BY <1>1, <1>2

\* Max is the greatest element of a set of sources.
LEMMA MaxIsGreatest ==
  ASSUME NEW n \in Nat, NEW S \in SUBSET (1..n), S # {}
  PROVE  Max(S) \in S /\ \A i \in S : i <= Max(S)
<1> DEFINE T == {m \in Nat : \A i \in S : i <= m}
<1>1. n \in T
  OBVIOUS
<1>2. PICK m \in T : \A k \in T : m <= k
  <2>1. T \subseteq Nat
    OBVIOUS
  <2> HIDE DEF T
  <2> QED BY <1>1, <2>1, LeastNatural
<1>3. m \in Nat /\ \A i \in S : i \in Nat /\ i >= 1 /\ i <= m
  OBVIOUS
<1>4. m \in S
  <2> SUFFICES ASSUME m \notin S PROVE FALSE
    OBVIOUS
  <2>1. m # 0
    <3>1. PICK i \in S : TRUE
      OBVIOUS
    <3> QED BY <3>1, <1>3
  <2>2. m - 1 \in T
    BY <2>1, <1>3
  <2> QED BY <2>2, <1>2, <1>3
<1>5. \A i \in S : m >= i
  BY <1>3
<1> HIDE DEF T
<1> QED BY <1>4, <1>5, <1>3 DEF Max

LEMMA MinIsLeast ==
  ASSUME NEW S \in SUBSET Nat, S # {}
  PROVE  Min(S) \in S /\ \A i \in S : Min(S) <= i
BY LeastNatural DEF Min

\* Merging yields a configuration, and a path's value is that of the source of
\* highest priority among those that set it (loader.load, merger.apply).
LEMMA LastWriterWins ==
  ASSUME NEW n \in Nat, NEW layers \in [1..n -> Layer]
  PROVE  /\ Merged(layers) \in Values
         /\ \A p \in Path, i \in 1..n :
              /\ layers[i].fields[p] # Absent
              /\ \A j \in 1..n : j > i => layers[j].fields[p] = Absent
              => Merged(layers)[p] = layers[i].fields[p]
<1>1. ASSUME NEW p \in Path
      PROVE  Writers(layers, p) \in SUBSET (1..n)
  BY DEF Writers
<1>2. ASSUME NEW p \in Path, Writers(layers, p) # {}
      PROVE  /\ Max(Writers(layers, p)) \in Writers(layers, p)
             /\ Max(Writers(layers, p)) \in 1..n
             /\ \A i \in Writers(layers, p) : i <= Max(Writers(layers, p))
  BY <1>1, <1>2, MaxIsGreatest
<1>3. ASSUME NEW i \in 1..n, NEW p \in Path
      PROVE  layers[i].fields[p] \in Field \cup {Absent}
  BY DEF Layer, Values
<1>4. Merged(layers) \in Values
  <2> SUFFICES ASSUME NEW p \in Path
               PROVE  (IF Writers(layers, p) = {} THEN Absent
                       ELSE layers[Max(Writers(layers, p))].fields[p])
                      \in Field \cup {Absent}
    BY DEF Merged, Values
  <2> QED BY <1>2, <1>3
<1>5. ASSUME NEW p \in Path, NEW i \in 1..n, layers[i].fields[p] # Absent,
             \A j \in 1..n : j > i => layers[j].fields[p] = Absent
      PROVE  Merged(layers)[p] = layers[i].fields[p]
  <2>1. i \in Writers(layers, p)
    BY <1>5 DEF Writers
  <2>2. \A j \in Writers(layers, p) : j \in 1..n /\ layers[j].fields[p] # Absent
    BY DEF Writers
  <2>3. Max(Writers(layers, p)) = i
    BY <1>2, <2>1, <2>2, <1>5
  <2> QED BY <2>1, <2>3 DEF Merged
<1> QED BY <1>4, <1>5
=============================================================================
