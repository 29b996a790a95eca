------------------------------ MODULE Bindings ------------------------------
(***************************************************************************)
(* decode of contrib/sources/env, second half, which env, dotenv, envfile,  *)
(* flags and the prefixes of Consul share: explicit bindings are added to   *)
(* the names of the schema, and the variables that are set become a layer.  *)
(*                                                                          *)
(* The text of a variable is a word; Json are the words that are one JSON   *)
(* value.                                                                   *)
(***************************************************************************)
EXTENDS SchemaFields, Documents

CONSTANT Json

\* As JSON pointers: one is the other, or begins with it and a slash.
Overlap(p, q) == IsPrefix(p, q) \/ IsPrefix(q, p)

-----------------------------------------------------------------------------
\* An explicit binding takes after the binding its path has so far.
Bind(bound, name, path) ==
  LET same == {n \in DOMAIN bound : bound[n].path = path}
      new == IF same = {} THEN [path |-> path, container |-> FALSE, ambiguous |-> FALSE]
             ELSE bound[CHOOSE n \in same : TRUE]
  IN  (name :> new) @@ bound

\* They are made in the order of a Go map, which is any order.
BindAll(bound, binds, order) ==
  FoldLeft(LAMBDA acc, name : Bind(acc, name, binds[name]), bound, order)

Orders(binds) == SetToSeqs(DOMAIN binds)

-----------------------------------------------------------------------------
\* options are the prefix, strictness, explicit bindings and separators of a source.
NoOptions == [prefix |-> <<>>, strict |-> FALSE, binds |-> [n \in {} |-> <<>>],
              splits |-> [n \in {} |-> ""]]

\* What a variable contributes: a value; nothing, which leaves it unset; or an error.
Unset == [is |-> "unset"]

\* Mutants: an empty container is an error; only what is below an assigned path
\* overlaps it.
FromJsonStrict(raw) == IF raw \in Json THEN Decoded(raw) ELSE Refused
OverlapsBelow(assigned, path) == \E p \in assigned : IsPrefix(p, path)

FromJson(raw) ==
  IF raw = "" THEN Unset ELSE IF raw \in Json THEN Decoded(raw) ELSE Refused

Encode(binding, name, raw, options) ==
  IF binding.ambiguous THEN Refused
  ELSE IF name \in DOMAIN options.splits
    THEN IF options.splits[name] = "" THEN Refused ELSE Parts(raw)
  ELSE IF binding.container THEN FromJson(raw) ELSE Text(raw)

Overlaps(assigned, path) == \E p \in assigned : Overlap(p, path)

\* Assigning makes the objects missing above a path; it fails at something else there.
Assign(acc, path, value) ==
  IF acc.failed \/ Overlaps(acc.assigned, path) \/ \E q \in Above(path) : IsScalar(acc.values, q)
    THEN [acc EXCEPT !.failed = TRUE]
    ELSE [acc EXCEPT !.assigned = @ \cup {path},
                     !.values = (path :> value) @@ [q \in Above(path) |-> "map"] @@ Without(@, path)]

NothingAssigned == [assigned |-> {}, values |-> NoTree, failed |-> FALSE]

\* One variable: an unknown one is an error only to a strict source whose prefix it has.
Take(acc, bound, name, raw, options) ==
  IF name \notin DOMAIN bound
    THEN IF options.strict /\ options.prefix # <<>> /\ IsPrefix(options.prefix, name)
           THEN [acc EXCEPT !.failed = TRUE] ELSE acc
    ELSE LET value == Encode(bound[name], name, raw, options)
         IN  IF value = Unset THEN acc
             ELSE IF value = Refused THEN [acc EXCEPT !.failed = TRUE]
             ELSE Assign(acc, bound[name].path, value)

\* decode.  Variables are taken in the order of their names, whichever that is.
Decode(schema, vars, options, order) ==
  LET visited == Visited(schema, options.prefix)
      bound == BindAll(visited.bound, options.binds, order)
      done == FoldSet(LAMBDA n, acc : Take(acc, bound, n, vars[n], options),
                      NothingAssigned, DOMAIN vars)
  IN  IF visited.failed \/ <<>> \in Range(options.binds) \/ done.failed THEN Refused
      ELSE LayerFrom(done.values)

-----------------------------------------------------------------------------
(* What a layer of variables ought to be, said of the schema and the        *)
(* variables alone: no order, no table of bindings.                         *)

\* The tree with these values.
TreeOf(f) == f @@ [q \in UNION {Above(p) : p \in DOMAIN f} |-> "map"]

Due(schema, vars, options) ==
  LET fields == FieldsOf(schema)
      Named(f, n) == EnvName(options.prefix, f.path) = n
      Auto(n) == {f.path : f \in {g \in fields : Named(g, n)}}
      PathsOf(n) == IF n \in DOMAIN options.binds THEN {options.binds[n]} ELSE Auto(n)
      PathOf(n) == CHOOSE p \in PathsOf(n) : TRUE
      Kinds(p) == {f.container : f \in {g \in fields : g.path = p}}
      known == {n \in DOMAIN vars : PathsOf(n) # {}}
      split(n) == n \in DOMAIN options.splits
      inJson(n) == ~split(n) /\ Kinds(PathOf(n)) = {TRUE}
      set == {n \in known : ~(inJson(n) /\ vars[n] = "")}
      Value(n) == IF split(n) THEN Parts(vars[n])
                  ELSE IF inJson(n) THEN Decoded(vars[n]) ELSE Text(vars[n])
      paths == {PathOf(n) : n \in set}
      wrong ==
        \/ \E f, g \in fields : f.path # g.path /\ EnvName(<<>>, f.path) = EnvName(<<>>, g.path)
        \/ <<>> \in Range(options.binds)
        \/ /\ options.strict /\ options.prefix # <<>>
           /\ \E n \in DOMAIN vars \ known : IsPrefix(options.prefix, n)
        \/ \E n \in known : Kinds(PathOf(n)) = BOOLEAN
        \/ \E n \in known : split(n) /\ options.splits[n] = ""
        \/ \E n \in set : inJson(n) /\ vars[n] \notin Json
        \/ \E m, n \in set : m # n /\ Overlap(PathOf(m), PathOf(n))
  IN  IF wrong THEN Refused
      ELSE LayerFrom(TreeOf([p \in paths |-> Value(CHOOSE n \in set : PathOf(n) = p)]))
=============================================================================
