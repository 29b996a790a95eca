----------------------------- MODULE MCRuntime -----------------------------
(***************************************************************************)
(* Instances of module Runtime for TLC.  Two paths: source 1 sets p, source *)
(* 2 sets q, which the schema requires.  A rejected q, an unreadable store, *)
(* a stale empty layer (what Resilient returns before its first success)    *)
(* and a change of revision alone are among the contents.                   *)
(***************************************************************************)
EXTENDS RuntimeInvariant

CONSTANTS p, q, a, b, bad

MCPath == {p, q}
MCField == {a, b, bad}
MCRevision == {1, 2}

MCVerdict ==
  [v \in Values |-> IF v[q] = Absent THEN "invalid"
                    ELSE IF bad \in {v[p], v[q]} THEN "unbakeable" ELSE "valid"]

LayerOf(pv, qv, revision, stale) ==
  [fields |-> [x \in MCPath |-> IF x = p THEN pv ELSE qv],
   revision |-> revision, stale |-> stale]

\* p from source 1; source 2 sets q and may override p.
Healthy == {LayerOf(Absent, a, 1, FALSE), LayerOf(b, a, 2, FALSE)}
Empty == LayerOf(Absent, Absent, 1, TRUE)

\* Failures of every kind.
MCContents ==
  [s \in 1..2 |-> IF s = 1 THEN {LayerOf(a, Absent, 1, FALSE), Unreadable}
                  ELSE Healthy \cup {Empty}]

\* One source that sets both paths; it can fail, go stale, or change revision.
MCOneSource ==
  [s \in {1} |-> {LayerOf(a, a, 1, FALSE), LayerOf(b, a, 1, FALSE), Unreadable}]

\* One source that may hold Open: empty and stale, unreadable, or healthy.
MCHeld == [s \in {1} |-> {Empty, LayerOf(a, a, 1, FALSE), Unreadable}]

\* Subscribers are interchangeable in module Runtime and in module Feed.
MCSymmetry == Permutations(Subscribers)
=============================================================================
