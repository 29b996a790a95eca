------------------------------- MODULE Memory -------------------------------
(***************************************************************************)
(* Memory of sources.go: a layer and its watchers behind one mutex.  Set    *)
(* stores and calls every notify with the mutex held; the stop of a watcher *)
(* needs the mutex too.  Each watcher is the token of a runtime.            *)
(***************************************************************************)
EXTENDS Naturals

CONSTANTS Setters, Watchers, None,
          MaxSets   \* bound: calls of Set

MemoryAssumption == None \notin Setters /\ MaxSets \in Nat

VARIABLES
  mu,        \* the Set that holds the mutex, None when it is free
  layer,     \* the layer, as the number of the Set that stored it
  sets,      \* calls of Set so far
  storing,   \* per Set: the layer it brings, 0 when it is idle
  toNotify,  \* the watchers the loop of Set has still to call
  watchers,  \* the registered watchers
  stopping,  \* per watcher: "new", "on", "stop" (called), "off" (returned)
  owed,      \* history: stored since the watcher's last notification
  token, read  \* per runtime: a Read is due, and the layer the last one returned

vars == <<mu, layer, sets, storing, toNotify, watchers, stopping, owed, token, read>>

Init ==
  /\ mu = None /\ layer = 0 /\ sets = 0
  /\ storing = [s \in Setters |-> 0] /\ toNotify = {} /\ watchers = {}
  /\ stopping = [w \in Watchers |-> "new"] /\ owed = [w \in Watchers |-> FALSE]
  /\ token = [w \in Watchers |-> FALSE] /\ read = [w \in Watchers |-> 0]

-----------------------------------------------------------------------------
\* Set clones its argument before it takes the mutex.
CallSet(s) ==
  /\ storing[s] = 0 /\ sets < MaxSets
  /\ sets' = sets + 1 /\ storing' = [storing EXCEPT ![s] = sets']
  /\ UNCHANGED <<mu, layer, toNotify, watchers, stopping, owed, token, read>>

\* Mutant: the loop runs after the mutex was released.
StoreUnlocks(s) ==
  /\ storing[s] # 0 /\ mu = None /\ toNotify = {}
  /\ layer' = storing[s]
  /\ storing' = [storing EXCEPT ![s] = 0]
  /\ toNotify' = watchers
  /\ owed' = [w \in Watchers |-> owed[w] \/ stopping[w] # "new"]
  /\ UNCHANGED <<mu, sets, watchers, stopping, token, read>>

\* The layer is stored and the loop over the watchers begins.
Store(s) ==
  /\ storing[s] # 0 /\ mu = None
  /\ mu' = s /\ layer' = storing[s]
  /\ toNotify' = watchers
  /\ owed' = [w \in Watchers |-> owed[w] \/ stopping[w] # "new"]
  /\ UNCHANGED <<sets, storing, watchers, stopping, token, read>>

\* Mutant: the loop ends at the first watcher.
CallNotifyOnce(w) ==
  /\ w \in toNotify
  /\ toNotify' = {}
  /\ token' = [token EXCEPT ![w] = TRUE] /\ owed' = [owed EXCEPT ![w] = FALSE]
  /\ UNCHANGED <<mu, layer, sets, storing, watchers, stopping, read>>

\* The loop goes over a map, in any order.
CallNotify(w) ==
  /\ w \in toNotify
  /\ toNotify' = toNotify \ {w}
  /\ token' = [token EXCEPT ![w] = TRUE] /\ owed' = [owed EXCEPT ![w] = FALSE]
  /\ UNCHANGED <<mu, layer, sets, storing, watchers, stopping, read>>

\* Mutant: no deferred Unlock.
SetReturnsLocked(s) ==
  /\ mu = s /\ toNotify = {} /\ storing[s] # 0
  /\ storing' = [storing EXCEPT ![s] = 0]
  /\ UNCHANGED <<mu, layer, sets, toNotify, watchers, stopping, owed, token, read>>

SetReturns(s) ==
  /\ mu = s /\ toNotify = {}
  /\ mu' = None /\ storing' = [storing EXCEPT ![s] = 0]
  /\ UNCHANGED <<layer, sets, toNotify, watchers, stopping, owed, token, read>>

\* The runtime reads after it has registered; that first read is due.
Watch(w) ==
  /\ stopping[w] = "new" /\ mu = None
  /\ stopping' = [stopping EXCEPT ![w] = "on"]
  /\ watchers' = watchers \cup {w}
  /\ token' = [token EXCEPT ![w] = TRUE]
  /\ UNCHANGED <<mu, layer, sets, storing, toNotify, owed, read>>

\* The run loop takes its token, and Read takes the mutex.
Read(w) ==
  /\ token[w] /\ mu = None
  /\ token' = [token EXCEPT ![w] = FALSE] /\ read' = [read EXCEPT ![w] = layer]
  /\ UNCHANGED <<mu, layer, sets, storing, toNotify, watchers, stopping, owed>>

CallStop(w) ==
  /\ stopping[w] = "on"
  /\ stopping' = [stopping EXCEPT ![w] = "stop"]
  /\ UNCHANGED <<mu, layer, sets, storing, toNotify, watchers, owed, token, read>>

StopReturns(w) ==
  /\ stopping[w] = "stop" /\ mu = None
  /\ stopping' = [stopping EXCEPT ![w] = "off"]
  /\ watchers' = watchers \ {w}
  /\ UNCHANGED <<mu, layer, sets, storing, toNotify, owed, token, read>>

-----------------------------------------------------------------------------
Setting == \E s \in Setters : Store(s) \/ SetReturns(s)
Stopping == \E w \in Watchers : CallStop(w) \/ StopReturns(w)

Next ==
  \/ \E s \in Setters : CallSet(s)
  \/ Setting
  \/ \E w \in Watchers : CallNotify(w) \/ Watch(w) \/ Read(w)
  \/ Stopping

\* Set runs; the mutex is obtained in the end, as the calls of Set are bounded.
Runs(w) == CallNotify(w) \/ Read(w)
Spec ==
  /\ Init /\ [][Next]_vars
  /\ WF_vars(Setting)
  /\ \A w \in Watchers : WF_vars(Runs(w)) /\ WF_vars(StopReturns(w))

-----------------------------------------------------------------------------
\* Between two calls of Set every registered runtime has read the layer, or is about
\* to: however Set, Watch, stop and Read interleave, no update is missed.
NobodyMissesASet ==
  mu = None => \A w \in watchers : token[w] \/ read[w] = layer

TypeOK ==
  /\ mu \in Setters \cup {None}
  /\ watchers \in SUBSET Watchers
  /\ stopping \in [Watchers -> {"new", "on", "stop", "off"}]
  /\ owed \in [Watchers -> BOOLEAN] /\ token \in [Watchers -> BOOLEAN]
  /\ DOMAIN read = Watchers

\* The mutex is free only when everybody was called; a watcher that the loop has
\* called, or that came later, has read the layer or is about to.
CalledInv ==
  /\ toNotify \in SUBSET watchers /\ (mu = None => toNotify = {})
  /\ \A w \in Watchers : w \in watchers <=> stopping[w] \in {"on", "stop"}
  /\ \A w \in watchers \ toNotify : token[w] \/ read[w] = layer

IInv == TypeOK /\ CalledInv

\* Memory as the Watcher of each of several runtimes (see module Watcher).
Phase(w) == CASE stopping[w] = "on" -> "on" [] stopping[w] = "stop" -> "ending"
              [] OTHER -> stopping[w]
=============================================================================
