-------------------------------- MODULE Yaml --------------------------------
(***************************************************************************)
(* Decode of contrib/decoders/yaml.  The parser makes a graph of the nodes  *)
(* of a document: an alias points to an earlier node, which may be one that *)
(* holds it.  walk turns the graph into a tree, within a budget of nodes    *)
(* (100000 in the code) and a limit of nesting (128).                       *)
(***************************************************************************)
EXTENDS Documents, TLC

\* A node has a kind - "map", "list", "alias", "refused", or the value of a scalar - and
\* entries: their keys, None for one that is no string, and their nodes.
Mapping(keys, nodes) == [kind |-> "map", keys |-> keys, nodes |-> nodes]
List(nodes) ==
  [kind |-> "list", keys |-> [i \in DOMAIN nodes |-> ToString(i - 1)], nodes |-> nodes]
Alias(node) == [kind |-> "alias", keys |-> <<>>, nodes |-> <<node>>]
Leaf(value) == [kind |-> value, keys |-> <<>>, nodes |-> <<>>]

\* The tree so far, how many nodes may still be visited, and how deep.
Walking(in) ==
  [tree |-> NoTree, budget |-> in.budget, nesting |-> in.nesting, failed |-> FALSE]

\* Mutants: an alias costs nothing; or is no deeper than what holds it; the last of two
\* equal keys counts.
EnterAliasFree(walked, node, path, depth) ==
  IF walked.failed \/ walked.budget = 0 \/ depth > walked.nesting \/ node.kind = "refused"
    THEN [walked EXCEPT !.failed = TRUE]
    ELSE [walked EXCEPT !.budget = IF node.kind = "alias" THEN @ ELSE @ - 1,
                        !.tree = (path :> node.kind) @@ @]
DepthOfHolder(node, depth) == IF node.kind = "alias" THEN depth ELSE depth + 1
KeyOfAny(walked, node, i, path) == node.kind # "map" \/ node.keys[i] # None

Enter(walked, node, path, depth) ==
  IF walked.failed \/ walked.budget = 0 \/ depth > walked.nesting \/ node.kind = "refused"
    THEN [walked EXCEPT !.failed = TRUE]
    ELSE [walked EXCEPT !.budget = @ - 1, !.tree = (path :> node.kind) @@ @]

Depth(node, depth) == depth + 1

\* A key is a string that the mapping does not have yet.
KeyIsGood(walked, node, i, path) ==
  node.kind # "map" \/ (node.keys[i] # None /\ Append(path, node.keys[i]) \notin DOMAIN walked.tree)

RECURSIVE Walk(_, _, _, _, _)
Walk(walked, n, path, depth, graph) ==
  LET node == graph[n]
      entered == Enter(walked, node, path, depth)
      below == Depth(node, depth)
      Entry(acc, i) ==
        IF acc.failed \/ ~KeyIsGood(acc, node, i, path) THEN [acc EXCEPT !.failed = TRUE]
        ELSE Walk(acc, node.nodes[i], Append(path, node.keys[i]), below, graph)
  IN  IF entered.failed THEN entered
      ELSE IF node.kind = "alias" THEN Walk(entered, node.nodes[1], path, below, graph)
      ELSE FoldLeft(Entry, entered, [i \in DOMAIN node.nodes |-> i])

\* The root of the only document is node 1.
DecodeYaml(in) ==
  LET walked == Walk(Walking(in), 1, <<>>, 0, in.graph)
  IN  IF in.documents # 1 \/ walked.failed \/ walked.tree[<<>>] # "map" THEN Refused
      ELSE LayerFrom(walked.tree)

-----------------------------------------------------------------------------
(* The tree a document stands for, said by the ways through its graph: a    *)
(* way takes an entry of every node it comes to, and has a path.            *)

Ways(graph, nesting) ==
  LET Extend(w) == {[steps |-> Append(w.steps, i), node |-> graph[w.node].nodes[i],
                     path |-> IF graph[w.node].kind = "alias" THEN w.path
                              ELSE Append(w.path, graph[w.node].keys[i])] :
                       i \in DOMAIN graph[w.node].nodes}
      ways[d \in 0 .. nesting + 1] ==
        IF d = 0 THEN {[steps |-> <<>>, node |-> 1, path |-> <<>>]}
        ELSE UNION {Extend(w) : w \in ways[d - 1]}
  IN  UNION {ways[d] : d \in 0 .. nesting + 1}

DueYaml(in) ==
  LET ways == Ways(in.graph, in.nesting)
      Kind(w) == in.graph[w.node].kind
      KeysOf(w) == in.graph[w.node].keys
      ends == {w \in ways : Kind(w) # "alias"}
      wrong ==
        \/ in.documents # 1 \/ in.graph[1].kind # "map"
        \/ \E w \in ways : Len(w.steps) > in.nesting \/ Kind(w) = "refused"
        \/ Cardinality(ways) > in.budget
        \/ \E w \in ways : Kind(w) = "map" /\ (None \in ToSet(KeysOf(w)) \/ ~IsInjective(KeysOf(w)))
  IN  IF wrong THEN Refused
      ELSE LayerFrom([p \in {w.path : w \in ends} |-> Kind(CHOOSE w \in ends : w.path = p)])
=============================================================================
