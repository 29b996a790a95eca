---------------------------- MODULE SchemaFields ----------------------------
(***************************************************************************)
(* decode of contrib/sources/env, first half: the names that the fields of  *)
(* a schema have as environment variables.  A document is a function from   *)
(* the names of its schemas - those inline and those of its defs - to their *)
(* fields; a name of the environment is the sequence of its words, of which *)
(* snake makes one or more from every key.                                  *)
(***************************************************************************)
EXTENDS Naturals, SequencesExt, FiniteSetsExt

CONSTANT Snake   \* snake: the words of each key

Root == "root"

\* A field, and the schemas below it: of its object, of the definition it refers to, or
\* of its variants in the order of their keys.  Everything but a scalar is written in
\* JSON.
Field(name, container, subs) ==
  [name |-> name, container |-> container, computed |-> FALSE, subs |-> subs]
Scalar(name) == Field(name, FALSE, <<>>)
Computed(name) == [Scalar(name) EXCEPT !.computed = TRUE]

EnvName(prefix, path) == prefix \o FlattenSeq([i \in DOMAIN path |-> Snake[path[i]]])

\* What visit knows: a binding for each name, or that two paths have the same name.
NoBindings == [bound |-> [n \in {} |-> <<>>], failed |-> FALSE]

\* Mutant: the third variant forgets what the first two disagreed about.
BindFieldForgets(visited, name, path, field) ==
  LET known == name \in DOMAIN visited.bound
      old == visited.bound[name]
      new == [path |-> path, container |-> field.container,
              ambiguous |-> known /\ old.container # field.container]
  IN  IF known /\ old.path # path THEN [visited EXCEPT !.failed = TRUE]
      ELSE [visited EXCEPT !.bound = (name :> new) @@ @]

\* A name found again at the same path, in another variant, is ambiguous if one of the
\* two fields is written in JSON and the other one is not.
BindField(visited, name, path, field) ==
  LET known == name \in DOMAIN visited.bound
      old == visited.bound[name]
      new == [path |-> path, container |-> field.container,
              ambiguous |-> known /\ (old.ambiguous \/ old.container # field.container)]
  IN  IF known /\ old.path # path THEN [visited EXCEPT !.failed = TRUE]
      ELSE [visited EXCEPT !.bound = (name :> new) @@ @]

\* visit: every field that is not computed, and what is below it; a schema that is being
\* visited is not entered again.
RECURSIVE Visit(_, _, _, _, _, _)
Visit(schema, sc, prefix, path, stack, visited) ==
  LET Descend(field, q, acc) ==
        FoldLeft(LAMBDA a, sub : Visit(schema, sub, prefix, q, stack \cup {sc}, a),
                 acc, field.subs)
      VisitField(acc, field) ==
        LET q == Append(path, field.name)
        IN  IF acc.failed \/ field.computed THEN acc
            ELSE Descend(field, q, BindField(acc, EnvName(prefix, q), q, field))
  IN  IF visited.failed \/ sc \in stack THEN visited
      ELSE FoldLeft(VisitField, visited, schema[sc])

Visited(schema, prefix) == Visit(schema, Root, prefix, <<>>, {}, NoBindings)

-----------------------------------------------------------------------------
(* The same seen from the fields: a chain leads from the root to a field    *)
(* through schemas each of which it enters once.                            *)

Chains(schema) ==
  LET steps == UNION {{<<sc, field>> : field \in ToSet(schema[sc])} : sc \in DOMAIN schema}
      Leads(c) == /\ \A i \in DOMAIN c : ~c[i][2].computed
                  /\ c[1][1] = Root
                  /\ \A i \in 1 .. Len(c) - 1 : c[i + 1][1] \in ToSet(c[i][2].subs)
                  /\ \A i, j \in DOMAIN c : c[i][1] = c[j][1] => i = j
  IN  {c \in UNION {[1..n -> steps] : n \in 1 .. Cardinality(DOMAIN schema)} : Leads(c)}

\* Every path a value may be bound to by name, and whether it is written in JSON there.
FieldsOf(schema) ==
  {[path |-> [i \in DOMAIN c |-> c[i][2].name], container |-> Last(c)[2].container] :
     c \in Chains(schema)}
=============================================================================
