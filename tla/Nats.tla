-------------------------------- MODULE Nats --------------------------------
(***************************************************************************)
(* Watch of contrib/sources/nats.  A KV watcher first delivers the last     *)
(* entry of the key, and delivers through Updates, a channel the client's   *)
(* callback fills: the callback waits while the channel is full, and the    *)
(* client closes Updates only after the callback has returned.              *)
(***************************************************************************)
EXTENDS StreamLoop

CONSTANT Capacity   \* of the channel Updates

NatsAssumption == Capacity \in Nat \ {0}

VARIABLES updates,  \* entries in the channel
          callback  \* the client's callback has an entry to put there

natsVars == <<updates, callback>>
allVars == <<vars, natsVars>>

NatsInit == Init /\ updates = 0 /\ callback = FALSE

-----------------------------------------------------------------------------
(* The client.                                                              *)

Deliver ==
  /\ stream = "open" /\ up /\ sent < own /\ ~callback
  /\ sent' \in sent + 1 .. own
  /\ callback' = TRUE
  /\ UNCHANGED <<polled, storeVars, stream, base, pc, started, stopVars, runtimeVars,
                 updates>>

Enqueue ==
  /\ callback /\ updates < Capacity
  /\ callback' = FALSE /\ updates' = updates + 1
  /\ UNCHANGED vars

-----------------------------------------------------------------------------
(* The source.                                                              *)

\* bucket.Watch succeeds; the new watcher starts with the key's last entry.
WatchKey ==
  /\ pc = "connect" /\ up
  /\ stream' = "open" /\ sent' = 0 /\ pc' = "opened"
  /\ updates' = 0 /\ callback' = FALSE
  /\ UNCHANGED <<polled, storeVars, base, started, stopVars, runtimeVars>>

\* Mutant: a deleted key's entry is passed over.
ReceiveUpdateSilently ==
  /\ pc = "select" /\ updates > 0
  /\ updates' = updates - 1
  /\ UNCHANGED <<vars, callback>>

\* An entry of the key.  The nil that follows the first one notifies nothing and is
\* left out.
ReceiveUpdate ==
  /\ pc = "select" /\ updates > 0
  /\ updates' = updates - 1
  /\ Invalidate
  /\ UNCHANGED <<polled, storeVars, streamVars, pc, started, stopVars, callback>>

UpdatesClosed == stream # "open" /\ updates = 0 /\ ~callback

LostWatcher == pc = "select" /\ UpdatesClosed /\ Lost /\ UNCHANGED natsVars

\* Mutants: the deferred call does not drain, or does not stop the watcher.
StopWatcherOnly ==
  /\ pc = "leave"
  /\ stream' = "none" /\ pc' = "exited"
  /\ UNCHANGED <<polled, storeVars, sent, base, started, stopVars, runtimeVars, natsVars>>

DrainOnly ==
  /\ pc = "leave" /\ pc' = "drain"
  /\ UNCHANGED <<polled, storeVars, streamVars, started, stopVars, runtimeVars, natsVars>>

\* Deferred: stop the watcher, if there is one, then drain Updates until it is
\* closed, to release a callback that waits.
StopWatcher ==
  /\ pc = "leave"
  /\ pc' = IF stream = "none" THEN "exited" ELSE "drain"
  /\ stream' = "none"
  /\ UNCHANGED <<polled, storeVars, sent, base, started, stopVars, runtimeVars, natsVars>>

Drain ==
  /\ pc = "drain" /\ updates > 0
  /\ updates' = updates - 1
  /\ UNCHANGED <<vars, callback>>

Drained ==
  /\ pc = "drain" /\ UpdatesClosed
  /\ pc' = "exited"
  /\ UNCHANGED <<polled, storeVars, streamVars, started, stopVars, runtimeVars, natsVars>>

-----------------------------------------------------------------------------
\* Whether its context has ended or not, the goroutine notifies of a registration that
\* failed or succeeded; it sees the end at the wait or the select that follows.
Registering == WatchKey \/ (RegisterFails({"connect"}, FALSE) /\ UNCHANGED natsVars)
Leaving == StopWatcher \/ Drain \/ Drained
Timed == Tick \/ Retry \/ StopReturns \/ Started \/ Resumed(FALSE)
Client == Deliver \/ Enqueue
Goroutine ==
  Registering \/ ReceiveUpdate \/ LostWatcher \/ Leaving \/ (Timed /\ UNCHANGED natsVars)

Next == Client \/ Goroutine \/ ((Environment \/ Exit) /\ UNCHANGED natsVars)

\* A goroutine whose registrations go on to fail, or whose streams go on to end, can
\* leave only now and then, between two attempts.  It comes by an ended context each
\* time, which a select that chooses among its ready cases does not forever pass over.
Spec ==
  /\ NatsInit /\ [][Next]_allVars
  /\ WF_allVars(Client) /\ WF_allVars(Goroutine) /\ SF_vars(Exit) /\ WF_vars(Take)

-----------------------------------------------------------------------------
\* A change of the key is announced, or its entry is on its way to the loop.
UpdatesCover ==
  pc = "select" /\ updates = 0 /\ ~callback /\ own <= sent => own <= announced

\* A goroutine that has ended leaves no watcher, and no callback of the client
\* waiting for a reader that is gone.
NoCallbackStuck == pc \in {"failed", "exited"} => stream = "none" /\ ~callback

\* A callback belongs to a watcher, or to the draining of one that was stopped.
CallbackInv ==
  /\ updates \in Nat /\ callback \in BOOLEAN
  /\ pc = "drain" => stream = "none"
  /\ stream = "none" /\ pc # "drain" => ~callback

NatsInv == LoopInv /\ CallbackInv /\ UpdatesCover
=============================================================================
