----------------------------- MODULE Snapshots -----------------------------
(***************************************************************************)
(* The data the runtime passes around (xconf.go, runtime.go): the layer a   *)
(* source returns, the snapshot a load builds from a sequence of layers,    *)
(* and the events subscribers receive.                                      *)
(*                                                                          *)
(* A layer's tree of values is abstracted to the fields of one flat object: *)
(* each path either carries a value or is absent from the layer.  That is   *)
(* enough to tell apart what the runtime compares: effective values, which  *)
(* sources wrote a path, source revisions, and which sources are stale.     *)
(***************************************************************************)
EXTENDS Naturals, Sequences, SequencesExt

CONSTANTS Path,        \* paths of the configuration
          Field,       \* values a path can hold
          Absent,      \* what a layer says of a path it does not set
          Revision,    \* source revisions
          Verdict      \* what baking a configuration yields

Values == [Path -> Field \cup {Absent}]

ASSUME SnapshotsAssumption ==
  /\ Absent \notin Field
  /\ Verdict \in [Values -> {"valid", "invalid", "unbakeable"}]

Layer == [fields : Values, revision : Revision, stale : BOOLEAN]

(***************************************************************************)
(* Sources later in the order win, path by path.                            *)
(***************************************************************************)
Writers(layers, p) == {i \in DOMAIN layers : layers[i].fields[p] # Absent}

Merged(layers) ==
  [p \in Path |-> IF Writers(layers, p) = {} THEN Absent
                  ELSE layers[Max(Writers(layers, p))].fields[p]]

Degraded(layers) == {i \in DOMAIN layers : layers[i].stale}

(***************************************************************************)
(* The outcome of load and build once every source has been read: no error, *)
(* a DegradedError (a stale layer may be the cause, so recovery may help),  *)
(* or a plain rejection.  An engine failure is never wrapped.               *)
(***************************************************************************)
BuildError(layers) ==
  LET verdict == Verdict[Merged(layers)]
  IN  CASE verdict = "valid" -> "none"
        [] verdict = "invalid" /\ Degraded(layers) # {} -> "degraded"
        [] OTHER -> "rejected"

Snapshot(version, layers) ==
  [version   |-> version,
   values    |-> Merged(layers),
   origins   |-> [p \in Path |-> Writers(layers, p)],
   revisions |-> [i \in DOMAIN layers |-> layers[i].revision],
   degraded  |-> Degraded(layers)]

(***************************************************************************)
(* Reload keeps the version when nothing but the version differs: degraded  *)
(* sources are compared by name, never by error text.                       *)
(***************************************************************************)
SameSnapshot(old, next) == [old EXCEPT !.version = next.version] = next

ChangedPaths(old, next) == {p \in Path : old.values[p] # next.values[p]}

Event(snapshot, failed, changed) ==
  [snapshot |-> snapshot, err |-> failed, changed |-> changed]

NoEvent == [snapshot |-> [version |-> 0], err |-> FALSE, changed |-> {}]
=============================================================================
