---------------------------- MODULE MergeInputs ----------------------------
(* Layers over an object a of two fields, one of them a list, and a OneOf u: *)
(* besides its discriminator d it has a field a, which in the variant x is  *)
(* a OneOf itself.                                                          *)
EXTENDS Trees

a == <<"a">>
aa == <<"a", "a">>
ab == <<"a", "b">>
u == <<"u">>
ud == <<"u", "d">>
ua == <<"u", "a">>
uad == <<"u", "a", "d">>
uaa == <<"u", "a", "a">>

\* What may be at an object: nothing, a scalar, or a map of some of its fields.
Object(p, fields) ==
  {NoTree, p :> "x"} \cup {(p :> "map") @@ f : f \in fields}

Optional(p, values) == {NoTree} \cup {p :> v : v \in values}
Both(S, T) == {s @@ t : s \in S, t \in T}

ATrees == Object(a, Both(Optional(aa, {"x"}), Optional(ab, {"x"})))
InnerTrees == Object(ua, Both(Optional(uad, {"x", "y"}), Optional(uaa, {"x"})))
UTrees == Object(u, Both(Optional(ud, {"x", "y"}), InnerTrees))
AllTrees == ATrees \cup UTrees

\* Every layer has locations here: for all of it, for a, and for a field of u.
Located == {<<>>, a, ua}

Edits ==
  {DeleteEdit(p) : p \in {a, aa, u, ua, uad}}
  \cup {ReplaceEdit(p, p :> "x") : p \in {a, ab, ud, uad}}
  \cup {ReplaceEdit(a, (a :> "map") @@ (ab :> "y")), ReplaceEdit(u, u :> "map")}

Pairs == {<<DeleteEdit(u), ReplaceEdit(ua, ua :> "x")>>,
          <<ReplaceEdit(ab, ab :> "y"), DeleteEdit(aa)>>}

\* Values alone, edits alone, and values whose own edits undo a part of them.
SomeLayers(stale) ==
  LET Layer(t, edits) == LayerOf(t, edits, Located, stale)
      values == (a :> "map") @@ (aa :> "x") @@ (u :> "map") @@ (ua :> "x")
  IN  {Layer(t, <<>>) : t \in AllTrees} \cup {Layer(NoTree, <<e>>) : e \in Edits}
      \cup {Layer(values, es) :
              es \in Pairs \cup {<<e>> : e \in {DeleteEdit(aa), DeleteEdit(u)}}}
=============================================================================
