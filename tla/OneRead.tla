------------------------------ MODULE OneRead -------------------------------
(***************************************************************************)
(* The sources whose Read - New for pflag, Decode for yaml - is one pass    *)
(* over what it is given: it keeps no state, and all that may differ is the *)
(* order of a Go map.  Such a Read is one step.  What it is given may       *)
(* change once (input.later), and be read again.                            *)
(***************************************************************************)
EXTENDS Variables, Fields, Yaml

CONSTANT Inputs   \* what the sources may be given

VARIABLES
  input,     \* what the source is given
  before,    \* history: what it was given first, and what it made of it
  outcome    \* what Read has returned, or None

vars == <<input, before, outcome>>

Init == input \in Inputs /\ before = None /\ outcome = None

Return(result) == outcome' = result /\ UNCHANGED <<input, before>>

DocumentSources == {"file", "fs", "s3", "vault", "consul"}

ReadVariables ==
  \/ /\ input.source = "env"
     /\ \E order \in Orders(input.options.binds) : Return(ReadEnv(input, order))
  \/ /\ input.source = "dotenv"
     /\ \E order \in Orders(input.options.binds) : Return(ReadDotenv(input, order))
  \/ /\ input.source = "flags"
     /\ \E order \in Orders(input.binds) : Return(ReadFlags(input, order))
  \/ /\ input.source = "prefix"
     /\ \E order \in SetToSeqs({input.pairs[i].key : i \in Visible(input)}) :
          Return(ReadPrefix(input, order))

ReadFields ==
  \/ /\ input.source = "kubernetes"
     /\ \E order \in Orders(KeyBindings(input, ObjectOf(input))) :
          Return(ReadObject(input, order))
  \/ /\ input.source = "pflag"
     /\ \E order \in Orders(input.binds) : Return(NewPflag(input, order))

ReadDocuments == input.source \in DocumentSources /\ Return(ReadDocument(input))

ReadYaml == input.source = "yaml" /\ Return(DecodeYaml(input))

Read ==
  /\ outcome = None
  /\ ReadVariables \/ ReadFields \/ ReadDocuments \/ ReadYaml

Later ==
  /\ outcome # None /\ before = None /\ input.later # None
  /\ before' = [input |-> input, outcome |-> outcome]
  /\ input' = input.later /\ outcome' = None

Next == Read \/ Later

Spec == Init /\ [][Next]_vars

-----------------------------------------------------------------------------
\* A layer without its revision.
Content(result) == IF result.is = "layer" THEN LayerFrom(result.values) ELSE result

Of(in) ==
  CASE in.source = "env" -> DueEnv(in)
    [] in.source = "dotenv" ->
         IF ReadFile(in).is = "layer" THEN DueEnv(in) ELSE ReadFile(in)
    [] in.source = "flags" -> DueFlags(in)
    [] in.source = "prefix" -> DuePrefix(in)
    [] in.source = "kubernetes" -> DueObject(in)
    [] in.source = "pflag" -> DuePflag(in)

\* The layer of a source that binds names to fields is what its variables, flags or keys
\* and the schema say, whatever the order in which Go goes over them; and a Read fails
\* if and only if there is a reason.
BoundAsDue ==
  outcome # None /\ input.source \notin DocumentSources \cup {"yaml"} =>
    Content(outcome) = Of(input)

\* "Containers use JSON unless `env.Split` is configured" (README.md:200), whatever name
\* they are bound to.
ContainersAreJson ==
  outcome # None =>
    (input.source = "env" /\ outcome.is = "layer" =>
      \A f \in {f \in FieldsOf(input.schema) : f.container} :
        LET set == DOMAIN outcome.values
        IN  f.path \in set /\ Below(set, f.path) = {} =>
              outcome.values[f.path].is \in {"json", "list"})

\* A YAML document becomes the tree its graph stands for, or is refused as too large or
\* too deep: neither an alias within the node it points to nor one that multiplies what
\* it points to gets past the limits.
YamlIsUnfolded == outcome # None /\ input.source = "yaml" => outcome = DueYaml(input)

\* A document is whole, within the limit, absent only if it is, and refused only for a
\* reason - an ended context, an error of the store, its size or its text: see Documents.
DocumentsAreWhole ==
  outcome # None /\ input.source \in DocumentSources => DocumentIsWhole(input, outcome)

\* Two Reads of an S3 object or of a Consul prefix, whose contents change in between: two
\* layers with the same revision have the same values; and answers of the prefix that
\* differ in ignored keys alone have the same revision, "Ignored keys contribute no
\* values, locations or layer revision" (docs/sources.md:236).  Of the other sources the
\* inputs hold one Read each; a version of Vault may come back for other values.
RevisionTells ==
  before # None /\ outcome # None =>
    /\ LET old == before.outcome
       IN  old.is = "layer" /\ outcome.is = "layer" /\ old.revision = outcome.revision =>
             old.values = outcome.values
    /\ input.source = "prefix" /\ VisiblePairs(before.input) = VisiblePairs(input)
         /\ ~(before.outcome = Refused \/ outcome = Refused)
         => before.outcome = outcome
=============================================================================
