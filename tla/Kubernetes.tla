----------------------------- MODULE Kubernetes -----------------------------
(***************************************************************************)
(* Watch of contrib/sources/kubernetes: a list of the collection finds its  *)
(* resourceVersion, a watch starts from it.  Bookmarks and events of other  *)
(* objects are the stream's progress.                                       *)
(***************************************************************************)
EXTENDS StreamLoop

List ==
  /\ pc = "connect" /\ up
  /\ base' = rev /\ pc' = "stream"
  /\ UNCHANGED <<polled, storeVars, stream, sent, started, stopVars, runtimeVars>>

WatchOpens ==
  /\ pc = "stream" /\ up
  /\ stream' = "open" /\ sent' = base /\ pc' = "opened"
  /\ UNCHANGED <<polled, storeVars, base, started, stopVars, runtimeVars>>

\* Mutant: an object without metadata is passed over.
MalformedIgnored ==
  /\ pc = "select" /\ stream = "open" /\ up /\ sent < own
  /\ sent' = own
  /\ UNCHANGED <<polled, storeVars, stream, base, pc, started, stopVars, runtimeVars>>

\* An event whose object has no metadata ends the stream as an error event does.
Malformed ==
  /\ pc = "select" /\ stream = "open" /\ up /\ sent < own
  /\ stream' = "none" /\ pc' = "backoff"
  /\ Invalidate
  /\ UNCHANGED <<polled, storeVars, sent, base, started, stopVars>>

Registering == List \/ WatchOpens \/ RegisterFails({"connect", "stream"}, cancelled)

Goroutine == Loop \/ Malformed \/ Registering \/ Started \/ Resumed(cancelled)

Next == Environment \/ Goroutine

Spec == Init /\ [][Next]_vars /\ LoopFairness(Goroutine)
=============================================================================
