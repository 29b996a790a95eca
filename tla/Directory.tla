----------------------------- MODULE Directory ------------------------------
(***************************************************************************)
(* Read of contrib/sources/directory on a projected volume.  The kubelet    *)
(* writes a new generation, swaps the ..data link to it, and then removes   *)
(* the old one file by file.  Read pins the generation ..data names, reads  *)
(* the files one by one, and starts again if ..data has moved meanwhile.    *)
(*                                                                          *)
(* Generations are numbered in the order of their creation; their names are *)
(* not used again.  The value of a file is the number of its generation.    *)
(* Left out: a directory without ..data, whose files are unrelated; errors  *)
(* of the file system other than absence; the limits.                       *)
(***************************************************************************)
EXTENDS Naturals

CONSTANTS Files,
          Bound,            \* the files that are bound, when bindings are given
          Attempts,         \* 4 in the code
          MaxGenerations    \* bound: generations after the first

DirectoryAssumption ==
  /\ Bound \subseteq Files
  /\ Attempts \in Nat \ {0} /\ MaxGenerations \in Nat

VARIABLES
  link,       \* the generation ..data names
  whole,      \* per generation: its files, as written
  left,       \* the files left of the old generation
  gone,       \* its directory has been removed
  nilBindings,  \* s.bindings == nil: all visible files; fixed
  pc,         \* where Read is
  attempt, gen,
  names,      \* files this attempt has still to read
  layer,      \* the files it has read, each with the generation it was read from
  readErr,    \* s.read has failed
  began       \* history: the generation ..data named when Read was called

volumeVars == <<link, whole, left, gone>>
readVars == <<pc, attempt, gen, names, layer, readErr, began>>
vars == <<volumeVars, nilBindings, readVars>>

NoLayer == [f \in {} |-> 0]
Ended == {"idle", "done", "error", "repeated"}

Init ==
  /\ link = 1 /\ whole \in [{1} -> SUBSET Files] /\ left = {} /\ gone = TRUE
  /\ nilBindings \in BOOLEAN
  /\ pc = "idle" /\ attempt = 0 /\ gen = 0 /\ names = {} /\ layer = NoLayer
  /\ readErr = FALSE /\ began = 1

-----------------------------------------------------------------------------
(* The volume.                                                              *)

Exists(g) == g = link \/ (g = link - 1 /\ ~gone)
Present(g) == IF g = link THEN whole[g] ELSE IF g = link - 1 THEN left ELSE {}

Swap ==
  /\ gone /\ link <= MaxGenerations
  /\ link' = link + 1
  /\ \E fs \in SUBSET Files : whole' = [g \in 1..link' |-> IF g = link' THEN fs ELSE whole[g]]
  /\ left' = whole[link] /\ gone' = FALSE
  /\ UNCHANGED <<nilBindings, readVars>>

RemoveOld ==
  /\ ~gone
  /\ IF left = {} THEN gone' = TRUE /\ UNCHANGED left
                  ELSE gone' = FALSE /\ \E f \in left : left' = left \ {f}
  /\ UNCHANGED <<link, whole, nilBindings, readVars>>

-----------------------------------------------------------------------------
(* Read.                                                                    *)

Call ==
  /\ pc \in Ended /\ pc' = "attempt"
  /\ attempt' = 0 /\ began' = link
  /\ UNCHANGED <<volumeVars, nilBindings, gen, names, layer, readErr>>

\* The context is looked at before every attempt and every file.
GiveUp ==
  /\ pc \in {"attempt", "files"} /\ pc' = "idle"
  /\ UNCHANGED <<volumeVars, nilBindings, attempt, gen, names, layer, readErr, began>>

Pin ==
  /\ pc = "attempt" /\ attempt < Attempts
  /\ gen' = link /\ pc' = "list"
  /\ layer' = NoLayer /\ readErr' = FALSE
  /\ UNCHANGED <<volumeVars, nilBindings, attempt, names, began>>

List ==
  /\ pc = "list"
  /\ IF nilBindings /\ ~Exists(gen)
       THEN readErr' = TRUE /\ pc' = "after" /\ names' = {}
       ELSE /\ names' = IF nilBindings THEN Present(gen) ELSE Bound
            /\ pc' = "files" /\ UNCHANGED readErr
  /\ UNCHANGED <<volumeVars, nilBindings, attempt, gen, layer, began>>

\* A file that is not there contributes nothing.
ReadFile ==
  /\ pc = "files"
  /\ \E f \in names :
       /\ names' = names \ {f}
       /\ layer' = IF f \in Present(gen)
                     THEN [x \in DOMAIN layer \cup {f} |-> IF x = f THEN gen ELSE layer[x]]
                     ELSE layer
  /\ UNCHANGED <<volumeVars, nilBindings, pc, attempt, gen, readErr, began>>

AllRead ==
  /\ pc = "files" /\ names = {} /\ pc' = "after"
  /\ UNCHANGED <<volumeVars, nilBindings, attempt, gen, names, layer, readErr, began>>

\* Mutants: an error of s.read is returned at once; the generation is not compared.
AfterError ==
  /\ pc = "after"
  /\ IF gen # link /\ ~readErr
       THEN pc' = "attempt" /\ attempt' = attempt + 1
       ELSE pc' = (IF readErr THEN "error" ELSE "done") /\ UNCHANGED attempt
  /\ UNCHANGED <<volumeVars, nilBindings, gen, names, layer, readErr, began>>

AfterUnchecked ==
  /\ pc = "after"
  /\ pc' = (IF readErr THEN "error" ELSE "done")
  /\ UNCHANGED <<volumeVars, nilBindings, attempt, gen, names, layer, readErr, began>>

\* What was read of a generation that is not current any more counts for nothing, and
\* neither does an error.
After ==
  /\ pc = "after"
  /\ IF gen # link
       THEN pc' = "attempt" /\ attempt' = attempt + 1
       ELSE pc' = (IF readErr THEN "error" ELSE "done") /\ UNCHANGED attempt
  /\ UNCHANGED <<volumeVars, nilBindings, gen, names, layer, readErr, began>>

ChangedRepeatedly ==
  /\ pc = "attempt" /\ attempt = Attempts
  /\ pc' = "repeated"
  /\ UNCHANGED <<volumeVars, nilBindings, attempt, gen, names, layer, readErr, began>>

-----------------------------------------------------------------------------
Next ==
  \/ Swap \/ RemoveOld
  \/ Call \/ GiveUp \/ Pin \/ List \/ ReadFile \/ AllRead \/ After \/ ChangedRepeatedly

Spec == Init /\ [][Next]_vars

-----------------------------------------------------------------------------
Selected(g) == IF nilBindings THEN whole[g] ELSE whole[g] \cap Bound

\* "Projected Kubernetes volumes are read from one pinned ..data generation"
\* (directory.go:41): a layer holds every selected file of one generation that was
\* current during the Read, and nothing of another.  And Read fails only if the volume
\* was swapped during each of its attempts, never because a generation was half removed.
OneGeneration ==
  /\ pc = "done" => \E g \in began..link : layer = [f \in Selected(g) |-> g]
  /\ pc # "error"
  /\ pc = "repeated" => link - began >= Attempts

-----------------------------------------------------------------------------
(* The inductive invariant behind it.                                       *)

TypeOK ==
  /\ link \in Nat \ {0} /\ whole \in [1..link -> SUBSET Files]
  /\ left \subseteq Files /\ gone \in BOOLEAN /\ nilBindings \in BOOLEAN
  /\ pc \in Ended \cup {"attempt", "list", "files", "after"}
  /\ attempt \in 0..Attempts /\ gen \in 0..link /\ names \subseteq Files
  /\ readErr \in BOOLEAN /\ began \in 1..link

\* Each attempt that was in vain saw ..data move: what it pinned is younger than began by
\* as many generations.  As long as ..data still names what is pinned, the files read are
\* the selected ones but those still to read, and s.read cannot have failed.
AttemptInv ==
  /\ pc = "attempt" => began + attempt <= link
  /\ pc \in {"list", "files", "after"} => attempt < Attempts /\ began + attempt <= gen
  /\ pc = "list" => layer = NoLayer /\ ~readErr
  /\ pc = "files" => ~readErr /\ (nilBindings \/ names \subseteq Bound)
  /\ pc \in {"files", "after"} /\ gen = link =>
       ~readErr /\ layer = [f \in Selected(gen) \ names |-> gen]
  /\ pc = "after" => names = {}

IInv == TypeOK /\ AttemptInv /\ OneGeneration
=============================================================================
