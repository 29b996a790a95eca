------------------------------ MODULE MCWatches ------------------------------
(***************************************************************************)
(* Watch of every kind of source, with the runtime that it notifies.  A     *)
(* behaviour is that of one kind, which the initial state chooses; what     *)
(* belongs to the others alone is None throughout.                          *)
(***************************************************************************)
EXTENDS Naturals

CONSTANTS None,
          MaxRevisions, Capacity,      \* of Etcd, Kubernetes and Nats
          MaxChanges,                  \* of Consul
          MaxVersions,                 \* of Polling
          Setters, Watchers, MaxSets   \* of Memory

VARIABLES
  source,   \* "etcd", "kubernetes", "nats", "consul", "memory" or "polling"; fixed
  pc, cancelled, stopping, up, announced, owed, token, read,  \* of several of them
  polled, rev, own, stream, sent, base, started,
  updates, callback,
  idx, content, last, index, failed,
  mu, layer, sets, storing, toNotify, watchers,
  stored, exists, broken, ticks, reading, got, shown, degraded

streamVars == <<polled, rev, own, stream, sent, base, started>>
natsVars == <<updates, callback>>
consulVars == <<idx, content, last, index, failed>>
memoryVars == <<mu, layer, sets, storing, toNotify, watchers>>
pollingVars == <<stored, exists, broken, ticks, reading, got, shown, degraded>>
vars == <<source, pc, cancelled, stopping, up, announced, owed, token, read,
          streamVars, natsVars, consulVars, memoryVars, pollingVars>>

Etcd == INSTANCE Etcd WITH MaxChanges <- MaxRevisions
Kubernetes == INSTANCE Kubernetes WITH MaxChanges <- MaxRevisions
Nats == INSTANCE Nats WITH MaxChanges <- MaxRevisions
Consul == INSTANCE Consul
Memory == INSTANCE Memory
Polling == INSTANCE Polling WITH MaxChanges <- MaxVersions

ASSUME WatchesAssumption ==
  /\ Etcd!StreamLoopAssumption /\ Nats!NatsAssumption /\ Consul!ConsulAssumption
  /\ Memory!MemoryAssumption /\ Polling!PollingAssumption

-----------------------------------------------------------------------------
NoStream ==
  /\ polled = None /\ rev = None /\ own = None /\ stream = None /\ sent = None
  /\ base = None /\ started = None
NoNats == updates = None /\ callback = None
NoConsul == idx = None /\ content = None /\ last = None /\ index = None /\ failed = None
NoMemory ==
  /\ mu = None /\ layer = None /\ sets = None /\ storing = None /\ toNotify = None
  /\ watchers = None
NoPolling ==
  /\ stored = None /\ exists = None /\ broken = None /\ ticks = None
  /\ reading = None /\ got = None /\ shown = None /\ degraded = None

Init ==
  \/ /\ \/ source = "etcd" /\ Etcd!Init /\ NoNats
        \/ source = "kubernetes" /\ Kubernetes!Init /\ NoNats
        \/ source = "nats" /\ Nats!NatsInit
     /\ owed = None /\ NoConsul /\ NoMemory /\ NoPolling
  \/ /\ source = "consul" /\ Consul!Init
     /\ owed = None /\ NoStream /\ NoNats /\ NoMemory /\ NoPolling
  \/ /\ source = "memory" /\ Memory!Init
     /\ pc = None /\ cancelled = None /\ up = None /\ announced = None
     /\ NoStream /\ NoNats /\ NoConsul /\ NoPolling
  \/ /\ source = "polling" /\ Polling!Init
     /\ up = None /\ announced = None /\ read = None
     /\ NoStream /\ NoNats /\ NoConsul /\ NoMemory

StreamStep ==
  /\ \/ source = "etcd" /\ Etcd!Next /\ UNCHANGED natsVars
     \/ source = "kubernetes" /\ Kubernetes!Next /\ UNCHANGED natsVars
     \/ source = "nats" /\ Nats!Next
  /\ UNCHANGED <<source, owed, consulVars, memoryVars, pollingVars>>

ConsulStep ==
  /\ source = "consul" /\ Consul!Next
  /\ UNCHANGED <<source, owed, streamVars, natsVars, memoryVars, pollingVars>>

MemoryStep ==
  /\ source = "memory" /\ Memory!Next
  /\ UNCHANGED <<source, pc, cancelled, up, announced, streamVars, natsVars, consulVars,
                 pollingVars>>

PollingStep ==
  /\ source = "polling" /\ Polling!Next
  /\ UNCHANGED <<source, up, announced, read, streamVars, natsVars, consulVars, memoryVars>>

Next == StreamStep \/ ConsulStep \/ MemoryStep \/ PollingStep

\* The fairness of each source's own Spec.
EtcdFairness ==
  /\ WF_(Etcd!vars)(source = "etcd" /\ Etcd!Goroutine)
  /\ WF_(Etcd!vars)(source = "etcd" /\ Etcd!Exit)
  /\ WF_(Etcd!vars)(source = "etcd" /\ Etcd!Take)

KubernetesFairness ==
  /\ WF_(Kubernetes!vars)(source = "kubernetes" /\ Kubernetes!Goroutine)
  /\ WF_(Kubernetes!vars)(source = "kubernetes" /\ Kubernetes!Exit)
  /\ WF_(Kubernetes!vars)(source = "kubernetes" /\ Kubernetes!Take)

NatsFairness ==
  /\ WF_(Nats!allVars)(source = "nats" /\ Nats!Client)
  /\ WF_(Nats!allVars)(source = "nats" /\ Nats!Goroutine)
  /\ SF_(Nats!vars)(source = "nats" /\ Nats!Exit)
  /\ WF_(Nats!vars)(source = "nats" /\ Nats!Take)

ConsulFairness ==
  /\ WF_(Consul!vars)(source = "consul" /\ Consul!Loop)
  /\ WF_(Consul!vars)(source = "consul" /\ Consul!Take)

MemoryFairness ==
  /\ WF_(Memory!vars)(source = "memory" /\ Memory!Setting)
  /\ \A w \in Watchers :
       /\ WF_(Memory!vars)(source = "memory" /\ Memory!Runs(w))
       /\ WF_(Memory!vars)(source = "memory" /\ Memory!StopReturns(w))

PollingFairness ==
  /\ WF_(Polling!vars)(source = "polling" /\ Polling!Tick)
  /\ WF_(Polling!vars)(source = "polling" /\ Polling!TakeTick)
  /\ WF_(Polling!vars)(source = "polling" /\ Polling!Take)
  /\ WF_(Polling!vars)(source = "polling" /\ Polling!Read)
  /\ WF_(Polling!vars)(source = "polling" /\ Polling!Show)
  /\ WF_(Polling!vars)(source = "polling" /\ Polling!Exit)
  /\ WF_(Polling!vars)(source = "polling" /\ Polling!StopReturns)

Spec ==
  /\ Init /\ [][Next]_vars
  /\ EtcdFairness /\ KubernetesFairness /\ NatsFairness
  /\ ConsulFairness /\ MemoryFairness /\ PollingFairness

-----------------------------------------------------------------------------
Streaming == source \in {"etcd", "kubernetes", "nats"}

\* Whatever changed has been announced, or will be without another change: while a
\* source waits it has overlooked nothing.  See StreamCovers, UpdatesCover,
\* WaitsOnlyWhenCurrent and NobodyMissesASet.
NothingOverlooked ==
  /\ source \in {"etcd", "kubernetes"} => Etcd!StreamCovers
  /\ source = "nats" => Nats!UpdatesCover
  /\ source = "consul" => Consul!WaitsOnlyWhenCurrent
  /\ source = "memory" => Memory!NobodyMissesASet

\* A Watch that failed and a goroutine that ended leave no stream, and no callback of a
\* client that waits for ever.
NothingLeft ==
  /\ source \in {"etcd", "kubernetes"} => Etcd!NoStreamLeft
  /\ source = "nats" => Nats!NoCallbackStuck

\* Whatever a change, a failure or a recovery of a polled source meets of a rebuild -
\* before its Read, after it, or after the token was taken - the runtime does not come to
\* rest with another layer than the source's: neither does a source that cannot be read
\* pass for one that is absent, nor one that is absent for what it held.  "Optional
\* suppresses only ErrNotFound" (sources.go:102).
QuietIsCurrent == source = "polling" => Polling!QuietIsCurrent

\* Every source is a Watcher as the runtime needs it (xconf.go:73): every change is
\* announced, and nothing is announced after stop has returned.
Contract(w) == INSTANCE Watcher WITH
  phase <- CASE Streaming -> Etcd!Phase [] source = "consul" -> Consul!Phase
             [] source = "memory" -> Memory!Phase(w) [] source = "polling" -> Polling!Phase,
  owed <- CASE Streaming -> Etcd!Owed [] source = "consul" -> Consul!Owed
            [] source = "memory" -> owed[w] [] source = "polling" -> owed,
  token <- IF source = "memory" THEN token[w] ELSE token

KeepsContract ==
  /\ \A w \in Watchers : Contract(w)!Init
  /\ [][\A w \in Watchers : [Contract(w)!Next]_(Contract(w)!vars)]_vars

ImplementsWatcher == KeepsContract /\ \A w \in Watchers : Contract(w)!Fairness

\* "skipped history does not leave stale configuration" (docs/sources.md:264), "recovery
\* invalidates even if the index is unchanged" (docs/sources.md:198): once a source can be
\* read for good, the runtime ends up with what it holds, whatever failed before.
Settled == CASE Streaming -> Etcd!Settled [] source = "consul" -> Consul!Settled
             [] source = "polling" -> Polling!Settled [] source = "memory" -> FALSE
Current == CASE Streaming -> Etcd!Current [] source = "consul" -> Consul!Current
             [] source = "polling" -> Polling!Current [] source = "memory" -> TRUE

ReadsLatest == <>[]Settled => <>[]Current

\* stop returns, though the goroutine waits for the client of the store, or Set holds
\* the mutex while it notifies.
StopEnds ==
  /\ \A w \in Watchers :
       (source = "memory" /\ stopping[w] = "stop") ~> (source = "memory" /\ stopping[w] = "off")
  /\ (source # "memory" /\ stopping = "waiting") ~> (source # "memory" /\ stopping = "returned")

-----------------------------------------------------------------------------
\* The inductive invariant is that of the chosen source.
IInv ==
  \/ source \in {"etcd", "kubernetes"} /\ Etcd!LoopInv /\ Etcd!StreamCovers /\ pc # "drain"
  \/ source = "nats" /\ Nats!NatsInv
  \/ source = "consul" /\ Consul!IInv
  \/ source = "memory" /\ Memory!IInv
  \/ source = "polling" /\ Polling!IInv
=============================================================================
