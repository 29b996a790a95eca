-------------------------------- MODULE Etcd --------------------------------
(***************************************************************************)
(* Watch of contrib/sources/etcd: a get finds the store's revision, a watch *)
(* starts from its successor and is confirmed by the server.                *)
(***************************************************************************)
EXTENDS StreamLoop

\* A linearizable get of the key; its header holds the revision of the store.
Get ==
  /\ pc = "connect" /\ up
  /\ base' = rev /\ pc' = "stream"
  /\ UNCHANGED <<polled, storeVars, stream, sent, started, stopVars, runtimeVars>>

\* Mutant: the watch starts one revision too late.
WatchCreatedSkipsOne ==
  /\ pc = "stream" /\ up
  /\ stream' = "open" /\ sent' = base + 1 /\ pc' = "opened"
  /\ UNCHANGED <<polled, storeVars, base, started, stopVars, runtimeVars>>

\* The creation acknowledgement arrives in time.
WatchCreated ==
  /\ pc = "stream" /\ up
  /\ stream' = "open" /\ sent' = base /\ pc' = "opened"
  /\ UNCHANGED <<polled, storeVars, base, started, stopVars, runtimeVars>>

Registering == Get \/ WatchCreated \/ RegisterFails({"connect", "stream"}, cancelled)

Goroutine == Loop \/ Registering \/ Started \/ Resumed(cancelled)

Next == Environment \/ Goroutine

Spec == Init /\ [][Next]_vars /\ LoopFairness(Goroutine)
=============================================================================
