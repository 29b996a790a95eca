------------------------------ MODULE MCLayers ------------------------------
(***************************************************************************)
(* What one Read of a source makes of what it is given (OneRead), and what  *)
(* load makes of the layers that its sources return (MergeLayers).  A        *)
(* behaviour is of one of the two, which the initial state chooses; the     *)
(* other does nothing.                                                      *)
(***************************************************************************)
EXTENDS SourceInputs, MergeInputs, MergeLayers

CONSTANT Readings   \* Inputs of OneRead

VARIABLES
  part,                    \* "read" or "merge"; fixed
  input, before, outcome   \* of OneRead

readVars == <<input, before, outcome>>
allVars == <<part, readVars, vars>>

Reading == INSTANCE OneRead WITH Inputs <- Readings

PartsInit ==
  /\ Init   \* of MergeLayers
  /\ \/ part = "read" /\ Reading!Init
     \/ part = "merge" /\ input = None /\ before = None /\ outcome = None

ReadStep == part = "read" /\ Reading!Next /\ UNCHANGED <<part, vars>>
MergeStep == part = "merge" /\ Next /\ UNCHANGED <<part, readVars>>

PartsNext == ReadStep \/ MergeStep

PartsSpec == PartsInit /\ [][PartsNext]_allVars

-----------------------------------------------------------------------------
(* The layers of MergeLayers: healthy ones; and, for AllowPaths around a     *)
(* Resilient source that is failing, stale ones.                            *)

HealthyLayers == SomeLayers(FALSE)
StaleLayers == {LayerOf(t, <<>>, Located, s) : t \in AllTrees, s \in BOOLEAN}
SelectionsDef ==
  {{}, {a}, {aa}, {ab, u}, {aa, ua}, {ud}, {ua, a, ab}, {uad}, {uaa}, {Append(ab, "0")}}

\* The second OneOf is a field of the variant x of the first one.
UnionsDef ==
  {[path |-> u, variants |-> [q \in {} |-> "x"]], [path |-> ua, variants |-> (u :> "x")]}
ListsDef == {ab}
KeysDef == {"a", "b", "d", "u", "0"}
ScalarsDef == {"x", "y"}

-----------------------------------------------------------------------------
\* The layer of bound names is what the names and the schema say: see OneRead.
BoundAsDue == part = "read" => Reading!BoundAsDue

\* Containers that env takes from JSON are JSON: see OneRead.
ContainersAreJson == part = "read" => Reading!ContainersAreJson

\* A YAML document becomes the tree it stands for, or is refused: see OneRead.
YamlIsUnfolded == part = "read" => Reading!YamlIsUnfolded

\* A document is whole, within the limit, and absent only if it is: see Documents.
DocumentsAreWhole == part = "read" => Reading!DocumentsAreWhole

\* A revision tells layers apart, and no more than layers: see OneRead.
RevisionTells == part = "read" => Reading!RevisionTells
=============================================================================
