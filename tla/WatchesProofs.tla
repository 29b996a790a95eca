---------------------------- MODULE WatchesProofs ----------------------------
(***************************************************************************)
(* The Watches of every kind of source, for any number of changes, of        *)
(* entries in the channel, of setters and of watchers: those of              *)
(* contrib/sources/etcd, kubernetes, nats and consul, and Memory and Poll of *)
(* sources.go.  Each source has its own inductive invariant; MCWatches runs  *)
(* one of them at a time.                                                    *)
(***************************************************************************)
EXTENDS MCWatches, TLAPS

\* The loop that the etcd, Kubernetes and NATS sources share.
Stream == INSTANCE StreamLoop WITH MaxChanges <- MaxRevisions

-----------------------------------------------------------------------------
(* The shared loop.                                                         *)

LEMMA StreamInit == Stream!Init => Stream!LoopInv /\ Stream!StreamCovers
<1> SUFFICES ASSUME Stream!Init PROVE Stream!LoopInv /\ Stream!StreamCovers
  OBVIOUS
<1>1. /\ own = 0 /\ rev = 0 /\ sent = 0 /\ base = 0 /\ announced = 0
      /\ started = FALSE /\ cancelled = FALSE /\ token = FALSE
      /\ stream = "none" /\ stopping = "no" /\ pc = "connect"
  BY DEF Stream!Init
<1>2. /\ started \in BOOLEAN /\ cancelled \in BOOLEAN /\ token \in BOOLEAN /\ ~started
      /\ stopping = "no" /\ stream = "none" /\ pc = "connect"
  BY <1>1
<1>3. /\ own \in Nat /\ rev \in Nat /\ sent \in Nat /\ base \in Nat /\ announced \in Nat
      /\ own <= rev /\ sent <= rev /\ base <= rev /\ announced <= rev
  BY <1>1
<1> QED BY <1>2, <1>3 DEF Stream!LoopInv, Stream!StreamCovers

LEMMA StreamStutter ==
  /\ Stream!LoopInv /\ UNCHANGED Stream!vars => Stream!LoopInv'
  /\ Stream!StreamCovers /\ UNCHANGED Stream!vars => Stream!StreamCovers'
BY DEF Stream!LoopInv, Stream!StreamCovers, Stream!vars, Stream!storeVars,
       Stream!streamVars, Stream!stopVars, Stream!runtimeVars

LEMMA EnvironmentLoopInv ==
  ASSUME Stream!LoopInv, Stream!Environment
  PROVE  Stream!LoopInv'
<1> USE DEF Stream!LoopInv, Stream!vars, Stream!storeVars, Stream!streamVars,
            Stream!stopVars, Stream!runtimeVars, Stream!Invalidate
<1>1. CASE Stream!Change
  BY <1>1 DEF Stream!Change
<1>2. CASE Stream!Outage
  BY <1>2 DEF Stream!Outage
<1>3. CASE Stream!StreamEnds
  BY <1>3 DEF Stream!StreamEnds
<1>4. CASE Stream!Cancel
  BY <1>4 DEF Stream!Cancel
<1>5. CASE Stream!Take
  BY <1>5 DEF Stream!Take
<1>6. CASE Stream!Stop
  BY <1>6 DEF Stream!Stop
<1> QED BY <1>1, <1>2, <1>3, <1>4, <1>5, <1>6 DEF Stream!Environment

LEMMA LoopLoopInv ==
  ASSUME Stream!LoopInv, Stream!Loop
  PROVE  Stream!LoopInv'
<1> USE DEF Stream!LoopInv, Stream!vars, Stream!storeVars, Stream!streamVars,
            Stream!stopVars, Stream!runtimeVars, Stream!Invalidate
<1>1. CASE Stream!Receive
  BY <1>1 DEF Stream!Receive
<1>2. CASE Stream!Progress
  BY <1>2 DEF Stream!Progress
<1>3. CASE Stream!Tick
  BY <1>3 DEF Stream!Tick
<1>4. CASE Stream!Lost
  BY <1>4 DEF Stream!Lost
<1>5. CASE Stream!Retry
  BY <1>5 DEF Stream!Retry
<1>6. CASE Stream!Exit
  BY <1>6 DEF Stream!Exit
<1>7. CASE Stream!Release
  BY <1>7 DEF Stream!Release
<1>8. CASE Stream!StopReturns
  BY <1>8 DEF Stream!StopReturns
<1> QED BY <1>1, <1>2, <1>3, <1>4, <1>5, <1>6, <1>7, <1>8 DEF Stream!Loop

LEMMA RegisteringLoopInv ==
  ASSUME Stream!LoopInv,
         NEW states, states \subseteq {"connect", "stream"}, NEW leaves \in BOOLEAN,
         Stream!RegisterFails(states, leaves) \/ Stream!Started \/ Stream!Resumed(leaves)
  PROVE  Stream!LoopInv'
<1> USE DEF Stream!LoopInv, Stream!vars, Stream!storeVars, Stream!streamVars,
            Stream!stopVars, Stream!runtimeVars, Stream!Invalidate
<1>1. CASE Stream!RegisterFails(states, leaves)
  <2>1. CASE started /\ leaves
    BY <1>1, <2>1 DEF Stream!RegisterFails
  <2>2. CASE started /\ ~leaves
    <3>1. /\ pc \in states /\ pc' = "backoff" /\ token' = TRUE /\ announced' = rev
          /\ UNCHANGED <<own, rev, stream, sent, base, started, cancelled, stopping>>
      BY <1>1, <2>2 DEF Stream!RegisterFails
    <3> QED BY <2>2, <3>1
  <2>3. CASE ~started
    BY <1>1, <2>3 DEF Stream!RegisterFails
  <2> QED BY <2>1, <2>2, <2>3
<1>2. CASE Stream!Started
  BY <1>2 DEF Stream!Started
<1>3. CASE Stream!Resumed(leaves)
  <2>1. CASE leaves
    BY <1>3, <2>1 DEF Stream!Resumed
  <2>2. CASE ~leaves
    <3>1. /\ pc = "opened" /\ pc' = "select" /\ token' = TRUE /\ announced' = rev
          /\ UNCHANGED <<own, rev, stream, sent, base, started, cancelled, stopping>>
      BY <1>3, <2>2 DEF Stream!Resumed
    <3> QED BY <1>3, <3>1 DEF Stream!Resumed
  <2> QED BY <2>1, <2>2
<1> QED BY <1>1, <1>2, <1>3

-----------------------------------------------------------------------------
\* The sources of this loop as Watchers.
StreamContract == INSTANCE Watcher WITH phase <- Stream!Phase, owed <- Stream!Owed

LEMMA ContractOfStream ==
  ASSUME NEW w, Streaming, source' = source,
         [StreamContract!Next]_(StreamContract!vars)
  PROVE  [Contract(w)!Next]_(Contract(w)!vars)
<1>1. /\ source \in {"etcd", "kubernetes", "nats"}
      /\ source' \in {"etcd", "kubernetes", "nats"}
  BY DEF Streaming
<1>2. CASE StreamContract!Next
  BY <1>1, <1>2
     DEF Streaming, Etcd!Phase, Etcd!Owed, Stream!Phase, Stream!Owed,
         StreamContract!Next, StreamContract!Register, StreamContract!Refuse,
         StreamContract!Change, StreamContract!Notify, StreamContract!Take,
         StreamContract!End, StreamContract!StopReturns,
         Contract!Next, Contract!Register, Contract!Refuse, Contract!Change,
         Contract!Notify, Contract!Take, Contract!End, Contract!StopReturns
<1>3. CASE UNCHANGED StreamContract!vars
  BY <1>1, <1>3
     DEF Streaming, Etcd!Phase, Etcd!Owed, Stream!Phase, Stream!Owed,
         StreamContract!vars, Contract!vars
<1> QED BY <1>2, <1>3

LEMMA EnvironmentKeepsContract ==
  ASSUME Stream!LoopInv, Stream!LoopInv', Stream!Environment
  PROVE  [StreamContract!Next]_(StreamContract!vars)
<1> USE DEF Stream!LoopInv, Stream!vars, Stream!storeVars, Stream!streamVars,
            Stream!stopVars, Stream!runtimeVars, Stream!Phase, Stream!Owed,
            StreamContract!Next, StreamContract!vars
<1>1. CASE Stream!Change
  <2>1. started' = started /\ announced' = announced /\ token' = token
        /\ Stream!Phase' = Stream!Phase
    BY <1>1 DEF Stream!Change
  <2>2. CASE own' = own
    BY <2>1, <2>2
  <2>3. CASE own' # own
    <3>1. announced' < own'
      BY <1>1, <2>3 DEF Stream!Change
    <3>2. CASE started
      BY <2>1, <3>1, <3>2 DEF StreamContract!Change
    <3>3. CASE ~started
      BY <2>1, <3>3
    <3> QED BY <3>2, <3>3
  <2> QED BY <2>2, <2>3
<1>2. CASE Stream!Outage
  BY <1>2 DEF Stream!Outage
<1>3. CASE Stream!StreamEnds
  BY <1>3 DEF Stream!StreamEnds
<1>4. CASE Stream!Cancel
  BY <1>4 DEF Stream!Cancel, StreamContract!End
<1>5. CASE Stream!Take
  BY <1>5 DEF Stream!Take, StreamContract!Take
<1>6. CASE Stream!Stop
  BY <1>6 DEF Stream!Stop, StreamContract!End
<1> QED BY <1>1, <1>2, <1>3, <1>4, <1>5, <1>6 DEF Stream!Environment

\* A notification of the goroutine that leaves it running.
LEMMA NotifyKeepsContract ==
  ASSUME Stream!LoopInv, Stream!LoopInv', started, Stream!Invalidate,
         stopping # "returned", pc # "failed", pc' # "failed",
         UNCHANGED <<own, rev, started, cancelled, stopping>>
  PROVE  [StreamContract!Next]_(StreamContract!vars)
<1>1. Stream!Phase \in {"on", "ending"} /\ Stream!Phase' = Stream!Phase
  BY DEF Stream!Phase
<1>2. token' = TRUE /\ Stream!Owed' = FALSE
  BY DEF Stream!Invalidate, Stream!Owed, Stream!LoopInv
<1> QED BY <1>1, <1>2 DEF StreamContract!Next, StreamContract!Notify

\* A step of the goroutine that notifies nobody.
LEMMA QuietKeepsContract ==
  ASSUME UNCHANGED <<own, started, cancelled, stopping, announced, token>>,
         pc # "failed", pc' # "failed"
  PROVE  UNCHANGED StreamContract!vars
BY DEF Stream!Phase, Stream!Owed, StreamContract!vars

LEMMA LoopKeepsContract ==
  ASSUME Stream!LoopInv, Stream!LoopInv', Stream!Loop
  PROVE  [StreamContract!Next]_(StreamContract!vars)
<1> USE DEF Stream!storeVars, Stream!streamVars, Stream!stopVars, Stream!runtimeVars
<1>1. CASE Stream!Receive
  BY <1>1, NotifyKeepsContract DEF Stream!Receive, Stream!LoopInv
<1>2. CASE Stream!Progress
  BY <1>2, QuietKeepsContract DEF Stream!Progress
<1>3. CASE Stream!Tick
  BY <1>3, NotifyKeepsContract DEF Stream!Tick, Stream!LoopInv
<1>4. CASE Stream!Lost
  BY <1>4, NotifyKeepsContract DEF Stream!Lost, Stream!LoopInv
<1>5. CASE Stream!Retry
  BY <1>5, QuietKeepsContract DEF Stream!Retry
<1>6. CASE Stream!Exit
  BY <1>6, QuietKeepsContract DEF Stream!Exit
<1>7. CASE Stream!Release
  BY <1>7, QuietKeepsContract DEF Stream!Release
<1>8. CASE Stream!StopReturns
  <2>1. Stream!Phase = "ending" /\ Stream!Phase' = "off"
    BY <1>8 DEF Stream!StopReturns, Stream!Phase, Stream!LoopInv
  <2>2. token' = token /\ Stream!Owed' = Stream!Owed
    BY <1>8 DEF Stream!StopReturns, Stream!Owed
  <2> QED BY <2>1, <2>2 DEF StreamContract!Next, StreamContract!StopReturns
<1> QED BY <1>1, <1>2, <1>3, <1>4, <1>5, <1>6, <1>7, <1>8 DEF Stream!Loop

LEMMA RegisteringKeepsContract ==
  ASSUME Stream!LoopInv, Stream!LoopInv',
         NEW states, states \subseteq {"connect", "stream"}, NEW leaves \in BOOLEAN,
         Stream!RegisterFails(states, leaves) \/ Stream!Started \/ Stream!Resumed(leaves)
  PROVE  [StreamContract!Next]_(StreamContract!vars)
<1> USE DEF Stream!storeVars, Stream!streamVars, Stream!stopVars, Stream!runtimeVars
<1>1. CASE Stream!RegisterFails(states, leaves)
  <2>1. CASE started /\ leaves
    BY <1>1, <2>1, QuietKeepsContract DEF Stream!RegisterFails
  <2>2. CASE started /\ ~leaves
    BY <1>1, <2>2, NotifyKeepsContract DEF Stream!RegisterFails, Stream!LoopInv
  <2>3. CASE ~started
    <3>1. Stream!Phase = "new" /\ Stream!Phase' = "off"
      BY <1>1, <2>3 DEF Stream!RegisterFails, Stream!Phase, Stream!LoopInv
    <3>2. token' = token /\ Stream!Owed' = Stream!Owed
      BY <1>1, <2>3 DEF Stream!RegisterFails, Stream!Owed
    <3> QED BY <3>1, <3>2 DEF StreamContract!Next, StreamContract!Refuse
  <2> QED BY <2>1, <2>2, <2>3
<1>2. CASE Stream!Started
  <2>1. Stream!Phase = "new" /\ Stream!Phase' \in {"on", "ending"}
    BY <1>2 DEF Stream!Started, Stream!Phase, Stream!LoopInv
  <2>2. token' = TRUE /\ Stream!Owed' \in BOOLEAN
    BY <1>2 DEF Stream!Started, Stream!Invalidate, Stream!Owed, Stream!LoopInv
  <2> QED BY <2>1, <2>2 DEF StreamContract!Next, StreamContract!Register
<1>3. CASE Stream!Resumed(leaves)
  <2>1. CASE leaves
    BY <1>3, <2>1, QuietKeepsContract DEF Stream!Resumed
  <2>2. CASE ~leaves
    BY <1>3, <2>2, NotifyKeepsContract DEF Stream!Resumed, Stream!LoopInv
  <2> QED BY <2>1, <2>2
<1> QED BY <1>1, <1>2, <1>3

-----------------------------------------------------------------------------
(* etcd and Kubernetes.                                                     *)

LEMMA EnvironmentCovers ==
  ASSUME Stream!LoopInv, Stream!StreamCovers, Stream!Environment
  PROVE  Stream!StreamCovers'
<1> USE DEF Stream!LoopInv, Stream!StreamCovers, Stream!storeVars, Stream!streamVars,
            Stream!stopVars, Stream!runtimeVars
<1>1. CASE Stream!Change
  BY <1>1 DEF Stream!Change
<1>2. CASE Stream!Outage
  BY <1>2 DEF Stream!Outage
<1>3. CASE Stream!StreamEnds
  BY <1>3 DEF Stream!StreamEnds
<1>4. CASE Stream!Cancel
  BY <1>4 DEF Stream!Cancel
<1>5. CASE Stream!Take
  BY <1>5 DEF Stream!Take
<1>6. CASE Stream!Stop
  BY <1>6 DEF Stream!Stop
<1> QED BY <1>1, <1>2, <1>3, <1>4, <1>5, <1>6 DEF Stream!Environment

LEMMA LoopCovers ==
  ASSUME Stream!LoopInv, Stream!StreamCovers, Stream!Loop
  PROVE  Stream!StreamCovers' /\ (pc # "drain" => pc' # "drain")
<1> USE DEF Stream!LoopInv, Stream!StreamCovers, Stream!storeVars, Stream!streamVars,
            Stream!stopVars, Stream!runtimeVars, Stream!Invalidate
<1>1. CASE Stream!Receive
  BY <1>1 DEF Stream!Receive
<1>2. CASE Stream!Progress
  BY <1>2 DEF Stream!Progress
<1>3. CASE Stream!Tick
  BY <1>3 DEF Stream!Tick
<1>4. CASE Stream!Lost
  BY <1>4 DEF Stream!Lost
<1>5. CASE Stream!Retry
  BY <1>5 DEF Stream!Retry
<1>6. CASE Stream!Exit
  BY <1>6 DEF Stream!Exit
<1>7. CASE Stream!Release
  BY <1>7 DEF Stream!Release
<1>8. CASE Stream!StopReturns
  BY <1>8 DEF Stream!StopReturns
<1> QED BY <1>1, <1>2, <1>3, <1>4, <1>5, <1>6, <1>7, <1>8 DEF Stream!Loop

LEMMA RegisteringCovers ==
  ASSUME Stream!LoopInv, Stream!StreamCovers,
         NEW states, NEW leaves \in BOOLEAN,
         Stream!RegisterFails(states, leaves) \/ Stream!Started \/ Stream!Resumed(leaves)
  PROVE  Stream!StreamCovers' /\ (pc # "drain" => pc' # "drain")
<1> USE DEF Stream!LoopInv, Stream!StreamCovers, Stream!storeVars, Stream!streamVars,
            Stream!stopVars, Stream!runtimeVars, Stream!Invalidate
<1>1. CASE Stream!RegisterFails(states, leaves)
  <2>1. pc' \in {"leave", "backoff", "failed"}
    BY <1>1 DEF Stream!RegisterFails
  <2> QED BY <2>1
<1>2. CASE Stream!Started
  BY <1>2 DEF Stream!Started
<1>3. CASE Stream!Resumed(leaves)
  <2>1. CASE leaves
    BY <1>3, <2>1 DEF Stream!Resumed
  <2>2. CASE ~leaves
    BY <1>3, <2>2 DEF Stream!Resumed
  <2> QED BY <2>1, <2>2
<1> QED BY <1>1, <1>2, <1>3

\* The steps of the two sources, in terms of the loop they share.
LEMMA EtcdCases ==
  ASSUME Etcd!Next
  PROVE  \/ Stream!Environment \/ Stream!Loop
         \/ Stream!RegisterFails({"connect", "stream"}, cancelled)
         \/ Stream!Started \/ Stream!Resumed(cancelled)
         \/ Etcd!Get \/ Etcd!WatchCreated
<1>1. CASE Etcd!Environment
  BY <1>1
     DEF Etcd!Environment, Etcd!Change, Etcd!Outage, Etcd!StreamEnds, Etcd!Cancel,
         Etcd!Take, Etcd!Stop,
         Stream!Environment, Stream!Change, Stream!Outage, Stream!StreamEnds,
         Stream!Cancel, Stream!Take, Stream!Stop,
         Etcd!storeVars, Etcd!streamVars, Etcd!stopVars, Etcd!runtimeVars,
         Stream!storeVars, Stream!streamVars, Stream!stopVars, Stream!runtimeVars
<1>2. CASE Etcd!Loop
  BY <1>2
     DEF Etcd!Loop, Etcd!Receive, Etcd!Progress, Etcd!Tick, Etcd!Lost, Etcd!Retry,
         Etcd!Exit, Etcd!Release, Etcd!StopReturns, Etcd!Invalidate,
         Stream!Loop, Stream!Receive, Stream!Progress, Stream!Tick, Stream!Lost,
         Stream!Retry, Stream!Exit, Stream!Release, Stream!StopReturns, Stream!Invalidate,
         Etcd!storeVars, Etcd!streamVars, Etcd!stopVars, Etcd!runtimeVars,
         Stream!storeVars, Stream!streamVars, Stream!stopVars, Stream!runtimeVars
<1>3. CASE \/ Etcd!RegisterFails({"connect", "stream"}, cancelled)
           \/ Etcd!Started \/ Etcd!Resumed(cancelled)
  BY <1>3
     DEF Etcd!RegisterFails, Etcd!Started, Etcd!Resumed, Etcd!Invalidate,
         Stream!RegisterFails, Stream!Started, Stream!Resumed, Stream!Invalidate,
         Etcd!storeVars, Etcd!streamVars, Etcd!stopVars, Etcd!runtimeVars,
         Stream!storeVars, Stream!streamVars, Stream!stopVars, Stream!runtimeVars
<1> QED BY <1>1, <1>2, <1>3 DEF Etcd!Next, Etcd!Goroutine, Etcd!Registering

LEMMA KubernetesCases ==
  ASSUME Kubernetes!Next
  PROVE  \/ Stream!Environment \/ Stream!Loop
         \/ Stream!RegisterFails({"connect", "stream"}, cancelled)
         \/ Stream!Started \/ Stream!Resumed(cancelled)
         \/ Etcd!Get \/ Etcd!WatchCreated \/ Kubernetes!Malformed
<1>1. CASE Kubernetes!Environment
  BY <1>1
     DEF Kubernetes!Environment, Kubernetes!Change, Kubernetes!Outage,
         Kubernetes!StreamEnds, Kubernetes!Cancel, Kubernetes!Take, Kubernetes!Stop,
         Stream!Environment, Stream!Change, Stream!Outage, Stream!StreamEnds,
         Stream!Cancel, Stream!Take, Stream!Stop,
         Kubernetes!storeVars, Kubernetes!streamVars, Kubernetes!stopVars,
         Kubernetes!runtimeVars,
         Stream!storeVars, Stream!streamVars, Stream!stopVars, Stream!runtimeVars
<1>2. CASE Kubernetes!Loop
  BY <1>2
     DEF Kubernetes!Loop, Kubernetes!Receive, Kubernetes!Progress, Kubernetes!Tick,
         Kubernetes!Lost, Kubernetes!Retry, Kubernetes!Exit, Kubernetes!Release,
         Kubernetes!StopReturns, Kubernetes!Invalidate,
         Stream!Loop, Stream!Receive, Stream!Progress, Stream!Tick, Stream!Lost,
         Stream!Retry, Stream!Exit, Stream!Release, Stream!StopReturns, Stream!Invalidate,
         Kubernetes!storeVars, Kubernetes!streamVars, Kubernetes!stopVars,
         Kubernetes!runtimeVars,
         Stream!storeVars, Stream!streamVars, Stream!stopVars, Stream!runtimeVars
<1>3. CASE \/ Kubernetes!RegisterFails({"connect", "stream"}, cancelled)
           \/ Kubernetes!Started \/ Kubernetes!Resumed(cancelled)
  BY <1>3
     DEF Kubernetes!RegisterFails, Kubernetes!Started, Kubernetes!Resumed,
         Kubernetes!Invalidate,
         Stream!RegisterFails, Stream!Started, Stream!Resumed, Stream!Invalidate,
         Kubernetes!storeVars, Kubernetes!streamVars, Kubernetes!stopVars,
         Kubernetes!runtimeVars,
         Stream!storeVars, Stream!streamVars, Stream!stopVars, Stream!runtimeVars
<1>4. CASE Kubernetes!List \/ Kubernetes!WatchOpens
  BY <1>4
     DEF Kubernetes!List, Kubernetes!WatchOpens, Etcd!Get, Etcd!WatchCreated,
         Kubernetes!storeVars, Kubernetes!streamVars, Kubernetes!stopVars,
         Kubernetes!runtimeVars,
         Etcd!storeVars, Etcd!streamVars, Etcd!stopVars, Etcd!runtimeVars
<1> QED
  BY <1>1, <1>2, <1>3, <1>4
     DEF Kubernetes!Next, Kubernetes!Goroutine, Kubernetes!Registering

LEMMA StreamSourcesNext ==
  ASSUME Stream!LoopInv, Stream!StreamCovers, pc # "drain",
         Etcd!Next \/ Kubernetes!Next
  PROVE  /\ Stream!LoopInv' /\ Stream!StreamCovers' /\ pc' # "drain"
         /\ [StreamContract!Next]_(StreamContract!vars)
<1>1. CASE Stream!Environment
  <2>1. Stream!LoopInv' /\ Stream!StreamCovers'
    BY <1>1, EnvironmentLoopInv, EnvironmentCovers
  <2>2. pc' = pc
    BY <1>1
       DEF Stream!Environment, Stream!Change, Stream!Outage, Stream!StreamEnds,
           Stream!Cancel, Stream!Take, Stream!Stop
  <2> QED BY <1>1, <2>1, <2>2, EnvironmentKeepsContract
<1>2. CASE Stream!Loop
  BY <1>2, LoopLoopInv, LoopCovers, LoopKeepsContract
<1>3. CASE \/ Stream!RegisterFails({"connect", "stream"}, cancelled)
           \/ Stream!Started \/ Stream!Resumed(cancelled)
  <2>1. cancelled \in BOOLEAN
    BY DEF Stream!LoopInv
  <2>2. Stream!LoopInv' /\ Stream!StreamCovers' /\ pc' # "drain"
    BY <1>3, <2>1, RegisteringLoopInv, RegisteringCovers
  <2> QED BY <1>3, <2>1, <2>2, RegisteringKeepsContract
<1>4. CASE Etcd!Get \/ Etcd!WatchCreated
  <2>1. Stream!LoopInv'
    BY <1>4
       DEF Etcd!Get, Etcd!WatchCreated, Stream!LoopInv,
           Etcd!storeVars, Etcd!streamVars, Etcd!stopVars, Etcd!runtimeVars
  <2>2. pc' \in {"stream", "opened"}
    BY <1>4 DEF Etcd!Get, Etcd!WatchCreated
  <2>3. UNCHANGED StreamContract!vars
    BY <1>4, QuietKeepsContract
       DEF Etcd!Get, Etcd!WatchCreated,
           Etcd!storeVars, Etcd!streamVars, Etcd!stopVars, Etcd!runtimeVars
  <2> QED BY <2>1, <2>2, <2>3 DEF Stream!StreamCovers
<1>5. CASE Kubernetes!Malformed
  <2>1. /\ pc = "select" /\ pc' = "backoff" /\ stream' = "none" /\ Stream!Invalidate
        /\ UNCHANGED <<own, rev, sent, base, started, cancelled, stopping>>
    BY <1>5
       DEF Kubernetes!Malformed, Kubernetes!Invalidate, Stream!Invalidate,
           Kubernetes!storeVars, Kubernetes!stopVars
  <2>2. Stream!LoopInv' /\ Stream!StreamCovers'
    BY <2>1 DEF Stream!LoopInv, Stream!StreamCovers, Stream!Invalidate
  <2>3. started /\ stopping # "returned"
    BY <2>1 DEF Stream!LoopInv
  <2> QED BY <2>1, <2>2, <2>3, NotifyKeepsContract
<1> QED BY <1>1, <1>2, <1>3, <1>4, <1>5, EtcdCases, KubernetesCases

-----------------------------------------------------------------------------
(* NATS.                                                                    *)

LEMMA NatsInitInv == Nats!NatsInit => Nats!NatsInv
<1> SUFFICES ASSUME Nats!NatsInit PROVE Nats!NatsInv
  OBVIOUS
<1>1. Stream!Init /\ updates = 0 /\ callback = FALSE
  BY DEF Nats!NatsInit, Nats!Init, Stream!Init
<1>2. Stream!LoopInv
  BY <1>1, StreamInit
<1>3. pc = "connect"
  BY <1>1 DEF Stream!Init
<1> QED
  BY <1>1, <1>2, <1>3
     DEF Stream!LoopInv, Nats!NatsInv, Nats!LoopInv, Nats!CallbackInv, Nats!UpdatesCover

LEMMA NatsCases ==
  ASSUME Nats!Next
  PROVE  \/ Nats!Deliver \/ Nats!Enqueue \/ Nats!WatchKey \/ Nats!ReceiveUpdate
         \/ Nats!StopWatcher \/ Nats!Drain \/ Nats!Drained
         \/ /\ updates' = updates /\ callback' = callback
            /\ \/ Stream!Environment \/ (Stream!Lost /\ Nats!UpdatesClosed)
               \/ Stream!Tick \/ Stream!Retry \/ Stream!Exit \/ Stream!StopReturns
               \/ Stream!RegisterFails({"connect"}, FALSE)
               \/ Stream!Started \/ Stream!Resumed(FALSE)
<1> USE DEF Nats!storeVars, Nats!streamVars, Nats!stopVars, Nats!runtimeVars,
            Stream!storeVars, Stream!streamVars, Stream!stopVars, Stream!runtimeVars,
            Nats!natsVars
<1>1. CASE Nats!Environment /\ UNCHANGED Nats!natsVars
  <2>1. Stream!Environment
    BY <1>1
       DEF Nats!Environment, Nats!Change, Nats!Outage, Nats!StreamEnds, Nats!Cancel,
           Nats!Take, Nats!Stop,
           Stream!Environment, Stream!Change, Stream!Outage, Stream!StreamEnds,
           Stream!Cancel, Stream!Take, Stream!Stop
  <2>2. updates' = updates /\ callback' = callback
    BY <1>1
  <2> QED BY <2>1, <2>2
<1>2. CASE /\ Nats!Tick \/ Nats!Retry \/ Nats!Exit \/ Nats!StopReturns
           /\ UNCHANGED Nats!natsVars
  BY <1>2
     DEF Nats!Tick, Nats!Retry, Nats!Exit, Nats!StopReturns, Nats!Invalidate,
         Stream!Tick, Stream!Retry, Stream!Exit, Stream!StopReturns, Stream!Invalidate
<1>3. CASE /\ Nats!RegisterFails({"connect"}, FALSE) \/ Nats!Started \/ Nats!Resumed(FALSE)
           /\ UNCHANGED Nats!natsVars
  BY <1>3
     DEF Nats!RegisterFails, Nats!Started, Nats!Resumed, Nats!Invalidate,
         Stream!RegisterFails, Stream!Started, Stream!Resumed, Stream!Invalidate
<1>4. CASE Nats!LostWatcher
  BY <1>4
     DEF Nats!LostWatcher, Nats!Lost, Nats!Invalidate, Stream!Lost, Stream!Invalidate
<1> QED
  BY <1>1, <1>2, <1>3, <1>4
     DEF Nats!Next, Nats!Client, Nats!Goroutine, Nats!Registering, Nats!Leaving, Nats!Timed

\* What a step of the client, or one that belongs to this source alone, does to the loop.
LEMMA NatsOwnSteps ==
  ASSUME Stream!LoopInv, Nats!CallbackInv,
         \/ Nats!Deliver \/ Nats!Enqueue \/ Nats!WatchKey \/ Nats!ReceiveUpdate
         \/ Nats!StopWatcher \/ Nats!Drain \/ Nats!Drained
  PROVE  /\ Stream!LoopInv' /\ Nats!CallbackInv'
         /\ [StreamContract!Next]_(StreamContract!vars)
<1> USE DEF Nats!storeVars, Nats!streamVars, Nats!stopVars, Nats!runtimeVars,
            Nats!natsVars, Nats!vars
<1>1. CASE Nats!ReceiveUpdate
  <2>1. /\ pc = "select" /\ pc' = pc /\ Stream!Invalidate /\ updates' = updates - 1
        /\ updates > 0
        /\ UNCHANGED <<own, rev, sent, base, stream, started, cancelled, stopping, callback>>
    BY <1>1 DEF Nats!ReceiveUpdate, Nats!Invalidate, Stream!Invalidate
  <2>2. Stream!LoopInv'
    BY <2>1 DEF Stream!LoopInv, Stream!Invalidate
  <2>3. Nats!CallbackInv'
    BY <2>1 DEF Nats!CallbackInv
  <2>4. started /\ stopping # "returned"
    BY <2>1 DEF Stream!LoopInv
  <2> QED BY <2>1, <2>2, <2>3, <2>4, NotifyKeepsContract
<1>2. CASE \/ Nats!Deliver \/ Nats!Enqueue \/ Nats!WatchKey
           \/ Nats!StopWatcher \/ Nats!Drain \/ Nats!Drained
  <2>1. Stream!LoopInv'
    BY <1>2
       DEF Nats!Deliver, Nats!Enqueue, Nats!WatchKey, Nats!StopWatcher, Nats!Drain,
           Nats!Drained, Stream!LoopInv, Nats!CallbackInv
  <2>2. Nats!CallbackInv'
    <3>1. CASE Nats!Deliver
      BY <3>1 DEF Nats!Deliver, Nats!CallbackInv, Stream!LoopInv
    <3>5. CASE Nats!Enqueue
      <4>1. /\ updates' = updates + 1 /\ callback' = FALSE
            /\ pc' = pc /\ stream' = stream
        BY <3>5 DEF Nats!Enqueue
      <4>2. updates' \in Nat
        BY <4>1 DEF Nats!CallbackInv
      <4>3. callback' \in BOOLEAN /\ ~callback'
        BY <4>1
      <4> QED BY <4>1, <4>2, <4>3 DEF Nats!CallbackInv
    <3>6. CASE Nats!WatchKey
      BY <3>6 DEF Nats!WatchKey, Nats!CallbackInv
    <3>2. CASE Nats!StopWatcher
      BY <3>2 DEF Nats!StopWatcher, Nats!CallbackInv
    <3>3. CASE Nats!Drain
      BY <3>3 DEF Nats!Drain, Nats!CallbackInv
    <3>4. CASE Nats!Drained
      BY <3>4 DEF Nats!Drained, Nats!UpdatesClosed, Nats!CallbackInv
    <3> QED BY <1>2, <3>1, <3>2, <3>3, <3>4, <3>5, <3>6
  <2>3. /\ UNCHANGED <<own, started, cancelled, stopping, announced, token>>
        /\ pc = "failed" <=> pc' = "failed"
    BY <1>2
       DEF Nats!Deliver, Nats!Enqueue, Nats!WatchKey, Nats!StopWatcher, Nats!Drain,
           Nats!Drained
  <2>4. UNCHANGED StreamContract!vars
    BY <2>3 DEF Stream!Phase, Stream!Owed, StreamContract!vars
  <2> QED BY <2>1, <2>2, <2>4
<1> QED BY <1>1, <1>2

LEMMA NatsSharedSteps ==
  ASSUME Stream!LoopInv, Nats!CallbackInv, updates' = updates, callback' = callback,
         \/ Stream!Environment \/ (Stream!Lost /\ Nats!UpdatesClosed)
         \/ Stream!Tick \/ Stream!Retry \/ Stream!Exit \/ Stream!StopReturns
         \/ Stream!RegisterFails({"connect"}, FALSE)
         \/ Stream!Started \/ Stream!Resumed(FALSE)
  PROVE  /\ Stream!LoopInv' /\ Nats!CallbackInv'
         /\ [StreamContract!Next]_(StreamContract!vars)
<1>1. Stream!LoopInv'
  BY EnvironmentLoopInv, LoopLoopInv, RegisteringLoopInv DEF Stream!Loop
<1>2. [StreamContract!Next]_(StreamContract!vars)
  BY <1>1, EnvironmentKeepsContract, LoopKeepsContract, RegisteringKeepsContract
     DEF Stream!Loop
<1>3. CASE Stream!Environment
  <2>1. pc' = pc /\ (stream' = "none" <=> stream = "none")
    BY <1>3
       DEF Stream!Environment, Stream!Change, Stream!Outage, Stream!StreamEnds,
           Stream!Cancel, Stream!Take, Stream!Stop, Stream!streamVars, Stream!LoopInv
  <2> QED BY <1>1, <1>2, <2>1 DEF Nats!CallbackInv
<1>4. CASE Stream!Lost /\ Nats!UpdatesClosed
  <2>1. pc' = "backoff" /\ ~callback
    BY <1>4 DEF Stream!Lost, Nats!UpdatesClosed
  <2> QED BY <1>1, <1>2, <2>1 DEF Nats!CallbackInv
<1>5. CASE \/ Stream!Tick \/ Stream!Retry \/ Stream!Exit \/ Stream!StopReturns
           \/ Stream!RegisterFails({"connect"}, FALSE)
           \/ Stream!Started \/ Stream!Resumed(FALSE)
  <2>1. stream' = stream /\ pc' # "drain" /\ pc # "drain"
    BY <1>5
       DEF Stream!Tick, Stream!Retry, Stream!Exit, Stream!StopReturns,
           Stream!RegisterFails, Stream!Started, Stream!Resumed, Stream!streamVars
  <2> QED BY <1>1, <1>2, <2>1 DEF Nats!CallbackInv
<1> QED BY <1>3, <1>4, <1>5

\* A change of the key that was delivered and has left the channel has been announced.
LEMMA NatsUpdatesCover ==
  ASSUME Stream!LoopInv, Nats!CallbackInv, Nats!UpdatesCover, Nats!Next
  PROVE  Nats!UpdatesCover'
<1> USE DEF Stream!LoopInv, Nats!CallbackInv, Nats!UpdatesCover,
            Nats!storeVars, Nats!streamVars, Nats!stopVars, Nats!runtimeVars,
            Nats!natsVars, Nats!vars,
            Stream!storeVars, Stream!streamVars, Stream!stopVars, Stream!runtimeVars
<1>1. CASE Nats!Deliver \/ Nats!Enqueue \/ Nats!WatchKey
  BY <1>1 DEF Nats!Deliver, Nats!Enqueue, Nats!WatchKey
<1>2. CASE Nats!ReceiveUpdate
  BY <1>2 DEF Nats!ReceiveUpdate, Nats!Invalidate
<1>3. CASE Nats!StopWatcher \/ Nats!Drain \/ Nats!Drained
  BY <1>3 DEF Nats!StopWatcher, Nats!Drain, Nats!Drained
<1>4. CASE Stream!Environment /\ updates' = updates /\ callback' = callback
  <2>1. Stream!Change \/ UNCHANGED <<pc, own, sent, announced>>
    BY <1>4
       DEF Stream!Environment, Stream!Outage, Stream!StreamEnds, Stream!Cancel,
           Stream!Take, Stream!Stop
  <2>2. CASE Stream!Change
    BY <1>4, <2>2 DEF Stream!Change
  <2>3. CASE UNCHANGED <<pc, own, sent, announced>>
    BY <1>4, <2>3
  <2> QED BY <2>1, <2>2, <2>3
<1>5. CASE Stream!Tick /\ updates' = updates /\ callback' = callback
  BY <1>5 DEF Stream!Tick, Stream!Invalidate
<1>6. CASE Stream!Started /\ updates' = updates /\ callback' = callback
  BY <1>6 DEF Stream!Started, Stream!Invalidate
<1>7. CASE Stream!Resumed(FALSE) /\ updates' = updates /\ callback' = callback
  BY <1>7 DEF Stream!Resumed, Stream!Invalidate
<1>8. CASE \/ Stream!Lost \/ Stream!Retry \/ Stream!Exit \/ Stream!StopReturns
           \/ Stream!RegisterFails({"connect"}, FALSE)
  <2>1. pc' # "select"
    BY <1>8
       DEF Stream!Lost, Stream!Retry, Stream!Exit, Stream!StopReturns,
           Stream!RegisterFails
  <2> QED BY <2>1
<1> QED BY <1>1, <1>2, <1>3, <1>4, <1>5, <1>6, <1>7, <1>8, NatsCases

LEMMA NatsNext ==
  ASSUME Nats!NatsInv, Nats!Next
  PROVE  Nats!NatsInv' /\ [StreamContract!Next]_(StreamContract!vars)
<1>1. Stream!LoopInv /\ Nats!CallbackInv /\ Nats!UpdatesCover
  BY DEF Nats!NatsInv, Nats!LoopInv, Stream!LoopInv
<1>2. /\ Stream!LoopInv' /\ Nats!CallbackInv'
      /\ [StreamContract!Next]_(StreamContract!vars)
  <2>1. CASE \/ Nats!Deliver \/ Nats!Enqueue \/ Nats!WatchKey \/ Nats!ReceiveUpdate
             \/ Nats!StopWatcher \/ Nats!Drain \/ Nats!Drained
    BY <1>1, <2>1, NatsOwnSteps
  <2>2. CASE /\ updates' = updates /\ callback' = callback
             /\ \/ Stream!Environment \/ (Stream!Lost /\ Nats!UpdatesClosed)
                \/ Stream!Tick \/ Stream!Retry \/ Stream!Exit \/ Stream!StopReturns
                \/ Stream!RegisterFails({"connect"}, FALSE)
                \/ Stream!Started \/ Stream!Resumed(FALSE)
    BY <1>1, <2>2, NatsSharedSteps
  <2> QED BY <2>1, <2>2, NatsCases
<1>3. Nats!UpdatesCover'
  BY <1>1, NatsUpdatesCover
<1>4. Nats!LoopInv'
  BY <1>2 DEF Nats!LoopInv, Stream!LoopInv
<1> QED BY <1>2, <1>3, <1>4 DEF Nats!NatsInv

-----------------------------------------------------------------------------
(* Consul.                                                                  *)

\* The larger of two indices.
LEMMA MaxOfTwo ==
  ASSUME NEW m \in Nat, NEW n \in Nat
  PROVE  /\ Consul!Max({m, n}) \in {m, n}
         /\ Consul!Max({m, n}) >= m /\ Consul!Max({m, n}) >= n
<1>1. \E x \in {m, n} : \A y \in {m, n} : x >= y
  <2>1. CASE m >= n
    BY <2>1
  <2>2. CASE n >= m
    BY <2>2
  <2> QED BY <2>1, <2>2
<1>2. Consul!Max({m, n}) = CHOOSE x \in {m, n} : \A y \in {m, n} : x >= y
  BY DEF Consul!Max
<1>3. /\ Consul!Max({m, n}) \in {m, n}
      /\ \A y \in {m, n} : Consul!Max({m, n}) >= y
  BY <1>1, <1>2
<1> QED BY <1>3

LEMMA ConsulInitInv == Consul!Init => Consul!IInv
<1> SUFFICES ASSUME Consul!Init PROVE Consul!IInv
  OBVIOUS
<1>1. /\ up \in BOOLEAN /\ idx = 2 /\ content = 0 /\ pc = "watch" /\ last = 0 /\ index = 0
      /\ failed \in BOOLEAN /\ cancelled \in BOOLEAN /\ token \in BOOLEAN
      /\ stopping = "no" /\ announced = 0
  BY DEF Consul!Init
<1> QED
  BY <1>1
     DEF Consul!IInv, Consul!TypeOK, Consul!StopInv, Consul!IndexInv, Consul!AnswerInv,
         Consul!WaitsOnlyWhenCurrent

LEMMA ConsulStutter == Consul!IInv /\ UNCHANGED Consul!vars => Consul!IInv'
<1> SUFFICES ASSUME Consul!IInv, UNCHANGED Consul!vars PROVE Consul!IInv'
  OBVIOUS
<1>1. UNCHANGED <<up, idx, content, pc, last, index, failed, cancelled, stopping, announced,
                  token>>
  BY DEF Consul!vars, Consul!storeVars, Consul!loopVars, Consul!stopVars,
         Consul!runtimeVars
<1> QED
  BY <1>1
     DEF Consul!IInv, Consul!TypeOK, Consul!StopInv, Consul!Started, Consul!IndexInv,
         Consul!AnswerInv, Consul!WaitsOnlyWhenCurrent

LEMMA ConsulTypeOK ==
  ASSUME Consul!TypeOK, Consul!StopInv, Consul!Next
  PROVE  Consul!TypeOK' /\ Consul!StopInv'
<1> USE DEF Consul!TypeOK, Consul!StopInv, Consul!Started, Consul!Invalidate,
            Consul!storeVars, Consul!loopVars, Consul!stopVars, Consul!runtimeVars
<1>1. CASE Consul!Write
  BY <1>1 DEF Consul!Write
<1>2. CASE Consul!Restore
  BY <1>2 DEF Consul!Restore
<1>3. CASE Consul!Outage
  BY <1>3 DEF Consul!Outage
<1>4. CASE Consul!Take
  BY <1>4 DEF Consul!Take
<1>5. CASE Consul!Cancel
  BY <1>5 DEF Consul!Cancel
<1>6. CASE Consul!Baseline
  BY <1>6 DEF Consul!Baseline
<1>7. CASE Consul!Refused
  BY <1>7 DEF Consul!Refused
<1>8. CASE Consul!Query
  BY <1>8 DEF Consul!Query
<1>9. CASE Consul!Return
  BY <1>9 DEF Consul!Return
<1>10. CASE Consul!Answer
  <2>1. /\ pc = "answer" /\ pc' = "limit" /\ failed' = FALSE
        /\ UNCHANGED <<up, content, cancelled, stopping>>
    BY <1>10 DEF Consul!Answer
  <2>2. announced' \in {announced, content} /\ token' \in BOOLEAN
    <3>1. CASE failed \/ last # index
      BY <1>10, <3>1 DEF Consul!Answer
    <3>2. CASE ~(failed \/ last # index)
      BY <1>10, <3>2 DEF Consul!Answer
    <3> QED BY <3>1, <3>2
  <2>3. failed' \in BOOLEAN
    BY <2>1
  <2>4. announced' \in 0 .. content'
    <3>1. content' = content
      BY <2>1
    <3> QED BY <2>2, <3>1
  <2> QED BY <2>1, <2>2, <2>3, <2>4
<1>11. CASE Consul!Error
  BY <1>11 DEF Consul!Error
<1>12. CASE Consul!Retry
  BY <1>12 DEF Consul!Retry
<1>13. CASE Consul!Exit
  BY <1>13 DEF Consul!Exit
<1>14. CASE Consul!Stop
  BY <1>14 DEF Consul!Stop
<1>15. CASE Consul!StopReturns
  BY <1>15 DEF Consul!StopReturns
<1> QED
  BY <1>1, <1>2, <1>3, <1>4, <1>5, <1>6, <1>7, <1>8, <1>9, <1>10, <1>11, <1>12, <1>13,
     <1>14, <1>15 DEF Consul!Next, Consul!Loop

\* The indices: a write moves the store's beyond every one seen, a restore back to one
\* that is not the last answer's.
LEMMA ConsulIndexInv ==
  ASSUME Consul!IInv, Consul!Next
  PROVE  Consul!IndexInv' /\ Consul!AnswerInv' /\ Consul!WaitsOnlyWhenCurrent'
<1> USE DEF Consul!IInv, Consul!TypeOK, Consul!IndexInv, Consul!AnswerInv,
            Consul!WaitsOnlyWhenCurrent, Consul!Invalidate, Consul!Answers,
            Consul!storeVars, Consul!loopVars, Consul!stopVars, Consul!runtimeVars
<1>1. CASE Consul!Write
  BY <1>1 DEF Consul!Write
<1>2. CASE Consul!Restore
  BY <1>2 DEF Consul!Restore
<1>3. CASE Consul!Outage
  BY <1>3 DEF Consul!Outage
<1>4. CASE Consul!Take
  BY <1>4 DEF Consul!Take
<1>5. CASE Consul!Cancel
  BY <1>5 DEF Consul!Cancel
<1>6. CASE Consul!Baseline
  <2>1. last' \in {idx, 0} /\ index' = Consul!Max({last', 1}) /\ pc' = "limit"
        /\ UNCHANGED <<idx, content>> /\ announced' = content
    BY <1>6 DEF Consul!Baseline
  <2>2. last' \in Nat /\ index' \in {last', 1}
    BY <2>1, MaxOfTwo
  <2> QED BY <2>1, <2>2
<1>7. CASE Consul!Refused
  BY <1>7 DEF Consul!Refused
<1>8. CASE Consul!Query
  BY <1>8 DEF Consul!Query
<1>9. CASE Consul!Return
  BY <1>9 DEF Consul!Return
<1>10. CASE Consul!Answer
  <2> DEFINE next == Consul!Max({last, 1})
  <2>1. next \in {last, 1} /\ next >= last /\ next >= 1
    BY MaxOfTwo
  <2>2. /\ pc = "answer" /\ pc' = "limit" /\ UNCHANGED <<idx, content, last>>
        /\ index' = IF next < index THEN 0 ELSE next
    BY <1>10 DEF Consul!Answer
  <2>3. CASE failed \/ last # index
    <3>1. announced' = content
      BY <1>10, <2>3 DEF Consul!Answer
    <3> HIDE DEF next
    <3> QED BY <2>1, <2>2, <3>1
  <2>4. CASE ~(failed \/ last # index)
    <3>1. announced' = announced
      BY <1>10, <2>4 DEF Consul!Answer
    <3> HIDE DEF next
    <3> QED BY <2>1, <2>2, <2>4, <3>1
  <2> QED BY <2>3, <2>4
<1>11. CASE Consul!Error
  BY <1>11 DEF Consul!Error
<1>12. CASE Consul!Retry
  BY <1>12 DEF Consul!Retry
<1>13. CASE Consul!Exit
  BY <1>13 DEF Consul!Exit
<1>14. CASE Consul!Stop
  BY <1>14 DEF Consul!Stop
<1>15. CASE Consul!StopReturns
  BY <1>15 DEF Consul!StopReturns
<1> QED
  BY <1>1, <1>2, <1>3, <1>4, <1>5, <1>6, <1>7, <1>8, <1>9, <1>10, <1>11, <1>12, <1>13,
     <1>14, <1>15 DEF Consul!Next, Consul!Loop

LEMMA ConsulNext == Consul!IInv /\ Consul!Next => Consul!IInv'
BY ConsulTypeOK, ConsulIndexInv DEF Consul!IInv

\* The source as a Watcher.
ConsulContract == INSTANCE Watcher WITH phase <- Consul!Phase, owed <- Consul!Owed

LEMMA ContractOfConsul ==
  ASSUME NEW w, source = "consul", source' = source,
         [ConsulContract!Next]_(ConsulContract!vars)
  PROVE  [Contract(w)!Next]_(Contract(w)!vars)
<1>1. CASE ConsulContract!Next
  BY <1>1
     DEF Streaming,
         ConsulContract!Next, ConsulContract!Register, ConsulContract!Refuse,
         ConsulContract!Change, ConsulContract!Notify, ConsulContract!Take,
         ConsulContract!End, ConsulContract!StopReturns,
         Contract!Next, Contract!Register, Contract!Refuse, Contract!Change,
         Contract!Notify, Contract!Take, Contract!End, Contract!StopReturns
<1>2. CASE UNCHANGED ConsulContract!vars
  BY <1>2 DEF Streaming, ConsulContract!vars, Contract!vars
<1> QED BY <1>1, <1>2

\* A step that notifies the runtime, and one that notifies nobody.
LEMMA ConsulNotifies ==
  ASSUME Consul!TypeOK, Consul!StopInv, Consul!Invalidate, Consul!Started, Consul!Started',
         pc # "exited", UNCHANGED <<content, cancelled, stopping>>
  PROVE  ConsulContract!Next
<1>1. /\ Consul!Phase \in {"on", "ending"} /\ Consul!Phase' = Consul!Phase
  BY DEF Consul!Phase, Consul!Started, Consul!StopInv, Consul!TypeOK
<1>2. token' = TRUE /\ Consul!Owed' = FALSE
  BY DEF Consul!Invalidate, Consul!Owed
<1> QED BY <1>1, <1>2 DEF ConsulContract!Next, ConsulContract!Notify

LEMMA ConsulIsQuiet ==
  ASSUME UNCHANGED <<content, cancelled, stopping, announced, token>>,
         pc' = pc \/ (Consul!Started /\ Consul!Started')
  PROVE  UNCHANGED ConsulContract!vars
BY DEF Consul!Phase, Consul!Started, Consul!Owed, ConsulContract!vars

LEMMA ConsulKeepsContract ==
  ASSUME Consul!IInv, Consul!Next
  PROVE  [ConsulContract!Next]_(ConsulContract!vars)
<1> USE DEF Consul!storeVars, Consul!loopVars, Consul!stopVars, Consul!runtimeVars
<1>0. Consul!TypeOK /\ Consul!StopInv
  BY DEF Consul!IInv
<1>1. CASE Consul!Write \/ Consul!Restore
  <2>1. /\ content' = content + 1
        /\ UNCHANGED <<pc, cancelled, stopping, announced, token>>
    BY <1>1 DEF Consul!Write, Consul!Restore
  <2>2. Consul!Phase' = Consul!Phase
    BY <2>1 DEF Consul!Phase
  <2>3. announced' # content'
    BY <1>0, <2>1 DEF Consul!TypeOK
  <2>4. CASE Consul!Started
    <3>1. Consul!Phase # "new" /\ Consul!Owed' = TRUE
      BY <2>1, <2>3, <2>4 DEF Consul!Phase, Consul!Started, Consul!Owed
    <3> QED BY <2>1, <2>2, <3>1 DEF ConsulContract!Next, ConsulContract!Change
  <2>5. CASE ~Consul!Started
    BY <2>1, <2>2, <2>5 DEF Consul!Started, Consul!Owed, ConsulContract!vars
  <2> QED BY <2>4, <2>5
<1>2. CASE Consul!Outage
  BY <1>2, ConsulIsQuiet DEF Consul!Outage, Consul!Started
<1>3. CASE Consul!Take
  BY <1>3
     DEF Consul!Take, Consul!Phase, Consul!Started, Consul!Owed, ConsulContract!Next,
         ConsulContract!Take
<1>4. CASE Consul!Cancel
  BY <1>0, <1>4
     DEF Consul!Cancel, Consul!TypeOK, Consul!Phase, Consul!Started, Consul!Owed,
         ConsulContract!Next, ConsulContract!End, ConsulContract!vars
<1>5. CASE Consul!Baseline
  <2>1. Consul!Phase = "new" /\ Consul!Phase' = "on"
    BY <1>0, <1>5 DEF Consul!Baseline, Consul!Phase, Consul!StopInv, Consul!Started
  <2>2. token' = TRUE /\ Consul!Owed' \in BOOLEAN
    BY <1>5 DEF Consul!Baseline, Consul!Invalidate, Consul!Owed
  <2> QED BY <2>1, <2>2 DEF ConsulContract!Next, ConsulContract!Register
<1>6. CASE Consul!Refused
  <2>1. Consul!Phase = "new" /\ Consul!Phase' = "off"
    BY <1>0, <1>6 DEF Consul!Refused, Consul!Phase, Consul!StopInv, Consul!Started
  <2>2. token' = token /\ Consul!Owed' = Consul!Owed
    BY <1>6 DEF Consul!Refused, Consul!Owed, Consul!Started
  <2> QED BY <2>1, <2>2 DEF ConsulContract!Next, ConsulContract!Refuse
<1>7. CASE Consul!Query \/ Consul!Return \/ Consul!Retry \/ Consul!Exit
  BY <1>7, ConsulIsQuiet
     DEF Consul!Query, Consul!Return, Consul!Retry, Consul!Exit, Consul!Started
<1>8. CASE Consul!Answer
  <2>1. /\ pc = "answer" /\ pc' = "limit"
        /\ UNCHANGED <<content, cancelled, stopping>>
    BY <1>8 DEF Consul!Answer
  <2>2. CASE failed \/ last # index
    BY <1>0, <1>8, <2>1, <2>2, ConsulNotifies DEF Consul!Answer, Consul!Started
  <2>3. CASE ~(failed \/ last # index)
    BY <1>8, <2>1, <2>3, ConsulIsQuiet DEF Consul!Answer, Consul!Started
  <2> QED BY <2>2, <2>3
<1>9. CASE Consul!Error
  BY <1>0, <1>9, ConsulNotifies DEF Consul!Error, Consul!Started
<1>10. CASE Consul!Stop
  BY <1>0, <1>10
     DEF Consul!Stop, Consul!TypeOK, Consul!StopInv, Consul!Phase, Consul!Started,
         Consul!Owed, ConsulContract!Next, ConsulContract!End, ConsulContract!vars
<1>11. CASE Consul!StopReturns
  <2>1. Consul!Phase = "ending" /\ Consul!Phase' = "off"
    BY <1>0, <1>11 DEF Consul!StopReturns, Consul!Phase, Consul!StopInv, Consul!Started
  <2>2. token' = token /\ Consul!Owed' = Consul!Owed
    BY <1>11 DEF Consul!StopReturns, Consul!Owed, Consul!Started
  <2> QED BY <2>1, <2>2 DEF ConsulContract!Next, ConsulContract!StopReturns
<1> QED
  BY <1>1, <1>2, <1>3, <1>4, <1>5, <1>6, <1>7, <1>8, <1>9, <1>10, <1>11
     DEF Consul!Next, Consul!Loop

-----------------------------------------------------------------------------
(* Memory.                                                                  *)

LEMMA MemoryInitInv == Memory!Init => Memory!IInv
BY DEF Memory!Init, Memory!IInv, Memory!TypeOK, Memory!CalledInv

LEMMA MemoryStutter == Memory!IInv /\ UNCHANGED Memory!vars => Memory!IInv'
BY DEF Memory!vars, Memory!IInv, Memory!TypeOK, Memory!CalledInv

LEMMA MemoryNext ==
  ASSUME Memory!IInv, Memory!Next
  PROVE  Memory!IInv'
<1> USE DEF Memory!IInv, Memory!TypeOK, Memory!CalledInv
<1>0. None \notin Setters
  BY WatchesAssumption DEF Memory!MemoryAssumption
<1>1. CASE \E s \in Setters : Memory!CallSet(s)
  BY <1>1 DEF Memory!CallSet
<1>2. CASE \E s \in Setters : Memory!Store(s)
  BY <1>0, <1>2 DEF Memory!Store
<1>3. CASE \E s \in Setters : Memory!SetReturns(s)
  BY <1>3 DEF Memory!SetReturns
<1>4. ASSUME NEW w \in Watchers, Memory!CallNotify(w)
      PROVE  Memory!IInv'
  BY <1>4 DEF Memory!CallNotify
<1>5. ASSUME NEW w \in Watchers, Memory!Watch(w)
      PROVE  Memory!IInv'
  BY <1>5 DEF Memory!Watch
<1>6. ASSUME NEW w \in Watchers, Memory!Read(w)
      PROVE  Memory!IInv'
  BY <1>6 DEF Memory!Read
<1>7. ASSUME NEW w \in Watchers, Memory!CallStop(w)
      PROVE  Memory!IInv'
  BY <1>7 DEF Memory!CallStop
<1>8. ASSUME NEW w \in Watchers, Memory!StopReturns(w)
      PROVE  Memory!IInv'
  BY <1>8 DEF Memory!StopReturns
<1> QED
  BY <1>1, <1>2, <1>3, <1>4, <1>5, <1>6, <1>7, <1>8
     DEF Memory!Next, Memory!Setting, Memory!Stopping

LEMMA MemoryNobodyMisses == Memory!IInv => Memory!NobodyMissesASet
BY DEF Memory!IInv, Memory!CalledInv, Memory!NobodyMissesASet

\* Memory as the Watcher of one runtime.
MemoryContract(w) == INSTANCE Watcher WITH
  phase <- Memory!Phase(w), owed <- owed[w], token <- token[w]

LEMMA ContractOfMemory ==
  ASSUME NEW w, source = "memory", source' = source,
         [MemoryContract(w)!Next]_(MemoryContract(w)!vars)
  PROVE  [Contract(w)!Next]_(Contract(w)!vars)
<1>1. CASE MemoryContract(w)!Next
  BY <1>1
     DEF Streaming,
         MemoryContract!Next, MemoryContract!Register, MemoryContract!Refuse,
         MemoryContract!Change, MemoryContract!Notify, MemoryContract!Take,
         MemoryContract!End, MemoryContract!StopReturns,
         Contract!Next, Contract!Register, Contract!Refuse, Contract!Change,
         Contract!Notify, Contract!Take, Contract!End, Contract!StopReturns
<1>2. CASE UNCHANGED MemoryContract(w)!vars
  BY <1>2 DEF Streaming, MemoryContract!vars, Contract!vars
<1> QED BY <1>1, <1>2

LEMMA MemoryKeepsContract ==
  ASSUME NEW w \in Watchers, Memory!IInv, Memory!IInv', Memory!Next
  PROVE  [MemoryContract(w)!Next]_(MemoryContract(w)!vars)
<1> USE DEF Memory!IInv, Memory!TypeOK, Memory!CalledInv, Memory!Phase
<1>1. CASE \E s \in Setters : Memory!CallSet(s) \/ Memory!SetReturns(s)
  BY <1>1 DEF Memory!CallSet, Memory!SetReturns, MemoryContract!vars
<1>2. CASE \E s \in Setters : Memory!Store(s)
  <2>1. /\ owed'[w] = (owed[w] \/ stopping[w] # "new")
        /\ stopping' = stopping /\ token' = token
    BY <1>2 DEF Memory!Store
  <2>2. CASE stopping[w] = "new"
    BY <2>1, <2>2 DEF MemoryContract!vars
  <2>3. CASE stopping[w] # "new"
    BY <2>1, <2>3 DEF MemoryContract!Next, MemoryContract!Change
  <2> QED BY <2>2, <2>3
<1>3. ASSUME NEW v \in Watchers, v # w,
             \/ Memory!CallNotify(v) \/ Memory!Watch(v) \/ Memory!Read(v)
             \/ Memory!CallStop(v) \/ Memory!StopReturns(v)
      PROVE  UNCHANGED MemoryContract(w)!vars
  <2>1. owed'[w] = owed[w] /\ token'[w] = token[w] /\ stopping'[w] = stopping[w]
    BY <1>3
       DEF Memory!CallNotify, Memory!Watch, Memory!Read, Memory!CallStop,
           Memory!StopReturns
  <2> QED BY <2>1 DEF MemoryContract!vars
<1>4. CASE Memory!CallNotify(w)
  <2>1. /\ token'[w] = TRUE /\ owed'[w] = FALSE /\ stopping' = stopping
        /\ stopping[w] \in {"on", "stop"}
    BY <1>4 DEF Memory!CallNotify
  <2> QED BY <2>1 DEF MemoryContract!Next, MemoryContract!Notify
<1>5. CASE Memory!Watch(w)
  <2>1. /\ token'[w] = TRUE /\ owed'[w] \in BOOLEAN
        /\ stopping[w] = "new" /\ stopping'[w] = "on"
    BY <1>5 DEF Memory!Watch
  <2> QED BY <2>1 DEF MemoryContract!Next, MemoryContract!Register
<1>6. CASE Memory!Read(w)
  <2>1. token'[w] = FALSE /\ owed' = owed /\ stopping' = stopping
    BY <1>6 DEF Memory!Read
  <2> QED BY <2>1 DEF MemoryContract!Next, MemoryContract!Take
<1>7. CASE Memory!CallStop(w)
  <2>1. /\ stopping[w] = "on" /\ stopping'[w] = "stop"
        /\ owed' = owed /\ token' = token
    BY <1>7 DEF Memory!CallStop
  <2> QED BY <2>1 DEF MemoryContract!Next, MemoryContract!End
<1>8. CASE Memory!StopReturns(w)
  <2>1. /\ stopping[w] = "stop" /\ stopping'[w] = "off"
        /\ owed' = owed /\ token' = token
    BY <1>8 DEF Memory!StopReturns
  <2> QED BY <2>1 DEF MemoryContract!Next, MemoryContract!StopReturns
<1> QED
  BY <1>1, <1>2, <1>3, <1>4, <1>5, <1>6, <1>7, <1>8
     DEF Memory!Next, Memory!Setting, Memory!Stopping

-----------------------------------------------------------------------------
(* Poll and Optional.                                                       *)

LEMMA PollingInitInv == Polling!Init => Polling!IInv
<1> SUFFICES ASSUME Polling!Init PROVE Polling!IInv
  OBVIOUS
<1>1. MaxVersions \in Nat
  BY WatchesAssumption DEF Polling!PollingAssumption
<1>2. /\ stored = 0 /\ pc = "new" /\ stopping = "no" /\ ~owed /\ ~token
      /\ reading = "no" /\ got = MaxVersions + 1
      /\ exists \in BOOLEAN /\ broken \in BOOLEAN /\ cancelled \in BOOLEAN
      /\ owed \in BOOLEAN /\ token \in BOOLEAN /\ degraded \in BOOLEAN
  BY DEF Polling!Init, Polling!Empty
<1> QED BY <1>1, <1>2 DEF Polling!IInv, Polling!Failed, Polling!QuietIsCurrent

LEMMA PollingStutter == Polling!IInv /\ UNCHANGED Polling!vars => Polling!IInv'
BY DEF Polling!IInv, Polling!QuietIsCurrent, Polling!Held, Polling!vars,
       Polling!storeVars, Polling!rebuildVars, Polling!runtimeVars

\* What Read returns is a version, the empty layer, or an error, and is told from both.
LEMMA HeldType ==
  ASSUME Polling!IInv
  PROVE  /\ Polling!Held \in 0 .. Polling!Failed
         /\ Polling!Held = Polling!Failed <=> broken
<1> USE WatchesAssumption
    DEF Polling!IInv, Polling!PollingAssumption, Polling!Held, Polling!Failed, Polling!Empty
<1>1. CASE broken
  BY <1>1
<1>2. CASE ~broken /\ exists
  BY <1>2
<1>3. CASE ~broken /\ ~exists
  BY <1>3
<1> QED BY <1>1, <1>2, <1>3

PollingContract == INSTANCE Watcher WITH phase <- Polling!Phase

LEMMA PollingNext ==
  ASSUME Polling!IInv, Polling!Next
  PROVE  Polling!IInv'
<1> USE DEF Polling!IInv, Polling!QuietIsCurrent, Polling!storeVars, Polling!rebuildVars,
            Polling!runtimeVars
<1>1. CASE Polling!Change
  <2>1. /\ stored' \in 0 .. MaxVersions /\ exists' \in BOOLEAN /\ broken' \in BOOLEAN
        /\ UNCHANGED <<pc, cancelled, stopping, token, reading, got, degraded>>
    BY <1>1, WatchesAssumption DEF Polling!Change, Polling!PollingAssumption
  <2>2. CASE pc = "new"
    <3>1. owed' = FALSE
      BY <1>1, <2>2 DEF Polling!Change
    <3> QED BY <2>1, <2>2, <3>1 DEF Polling!Failed
  <2>3. CASE pc # "new"
    <3>1. owed' = TRUE
      BY <1>1, <2>3 DEF Polling!Change
    <3> QED BY <2>1, <2>3, <3>1 DEF Polling!Failed
  <2> QED BY <2>2, <2>3
<1>2. CASE \/ Polling!Cancel \/ Polling!Watch \/ Polling!Stop \/ Polling!Tick
           \/ Polling!TakeTick \/ Polling!Exit \/ Polling!StopReturns \/ Polling!Take
           \/ Polling!Read \/ Polling!Show
  <2>1. UNCHANGED <<stored, exists, broken>>
    BY <1>2
       DEF Polling!Cancel, Polling!Watch, Polling!Stop, Polling!Tick, Polling!TakeTick,
           Polling!Exit, Polling!StopReturns, Polling!Take, Polling!Read, Polling!Show
  <2>2. Polling!Held' = Polling!Held
    BY <2>1 DEF Polling!Held
  <2>3. CASE Polling!Cancel
    BY <2>1, <2>2, <2>3 DEF Polling!Cancel
  <2>4. CASE Polling!Watch
    BY <2>1, <2>2, <2>4 DEF Polling!Watch
  <2>5. CASE Polling!Stop
    BY <2>1, <2>2, <2>5 DEF Polling!Stop
  <2>6. CASE Polling!Tick
    BY <2>1, <2>2, <2>6 DEF Polling!Tick
  <2>7. CASE Polling!TakeTick
    BY <2>1, <2>2, <2>7 DEF Polling!TakeTick
  <2>8. CASE Polling!Exit
    BY <2>1, <2>2, <2>8 DEF Polling!Exit
  <2>9. CASE Polling!StopReturns
    BY <2>1, <2>2, <2>9 DEF Polling!StopReturns
  <2>10. CASE Polling!Take
    BY <2>1, <2>2, <2>10 DEF Polling!Take
  <2>11. CASE Polling!Read
    <3>1. got' = Polling!Held /\ got' \in 0 .. Polling!Failed
      BY <2>11, HeldType DEF Polling!Read
    <3> QED BY <2>1, <2>2, <2>11, <3>1 DEF Polling!Read
  <2>12. CASE Polling!Show
    <3>1. CASE cancelled
      BY <2>1, <2>2, <2>12, <3>1 DEF Polling!Show
    <3>2. CASE ~cancelled /\ got = Polling!Failed
      BY <2>1, <2>2, <2>12, <3>2 DEF Polling!Show
    <3>3. CASE ~cancelled /\ got # Polling!Failed
      BY <2>1, <2>2, <2>12, <3>3 DEF Polling!Show
    <3> QED BY <3>1, <3>2, <3>3
  <2> QED BY <1>2, <2>3, <2>4, <2>5, <2>6, <2>7, <2>8, <2>9, <2>10, <2>11, <2>12
<1> QED BY <1>1, <1>2 DEF Polling!Next

LEMMA ContractOfPolling ==
  ASSUME NEW w, source = "polling", source' = source,
         [PollingContract!Next]_(PollingContract!vars)
  PROVE  [Contract(w)!Next]_(Contract(w)!vars)
<1>1. CASE PollingContract!Next
  BY <1>1
     DEF Streaming,
         PollingContract!Next, PollingContract!Register, PollingContract!Refuse,
         PollingContract!Change, PollingContract!Notify, PollingContract!Take,
         PollingContract!End, PollingContract!StopReturns,
         Contract!Next, Contract!Register, Contract!Refuse, Contract!Change,
         Contract!Notify, Contract!Take, Contract!End, Contract!StopReturns
<1>2. CASE UNCHANGED PollingContract!vars
  BY <1>2 DEF Streaming, PollingContract!vars, Contract!vars
<1> QED BY <1>1, <1>2

LEMMA PollingKeepsContract ==
  ASSUME Polling!IInv, Polling!Next
  PROVE  [PollingContract!Next]_(PollingContract!vars)
<1> USE DEF Polling!IInv, Polling!Phase, Polling!storeVars, Polling!rebuildVars,
            Polling!runtimeVars, PollingContract!Next, PollingContract!vars
<1>1. CASE Polling!Change
  <2>1. owed' = (pc # "new") /\ UNCHANGED <<pc, cancelled, stopping, token>>
    BY <1>1 DEF Polling!Change
  <2>2. CASE pc = "new"
    BY <2>1, <2>2
  <2>3. CASE pc # "new"
    <3>1. Polling!Phase # "new" /\ owed' = TRUE /\ Polling!Phase' = Polling!Phase
      BY <2>1, <2>3
    <3> QED BY <2>1, <3>1 DEF PollingContract!Change
  <2> QED BY <2>2, <2>3
<1>2. CASE Polling!Cancel
  BY <1>2 DEF Polling!Cancel, PollingContract!End
<1>3. CASE Polling!Watch
  BY <1>3 DEF Polling!Watch, PollingContract!Register
<1>4. CASE Polling!Stop
  BY <1>4 DEF Polling!Stop, PollingContract!End
<1>5. CASE Polling!Tick
  BY <1>5 DEF Polling!Tick
<1>6. CASE Polling!TakeTick
  BY <1>6 DEF Polling!TakeTick, PollingContract!Notify
<1>7. CASE Polling!Exit
  BY <1>7 DEF Polling!Exit
<1>8. CASE Polling!StopReturns
  BY <1>8 DEF Polling!StopReturns, PollingContract!StopReturns
<1>9. CASE Polling!Take
  BY <1>9 DEF Polling!Take, PollingContract!Take
<1>10. CASE Polling!Read \/ Polling!Show
  BY <1>10 DEF Polling!Read, Polling!Show
<1> QED
  BY <1>1, <1>2, <1>3, <1>4, <1>5, <1>6, <1>7, <1>8, <1>9, <1>10 DEF Polling!Next

-----------------------------------------------------------------------------
(* The chosen source.                                                       *)

\* The invariant of the loop does not depend on which of its sources names it.
LEMMA OneLoop ==
  /\ Etcd!LoopInv <=> Stream!LoopInv
  /\ Etcd!StreamCovers <=> Stream!StreamCovers
  /\ Nats!NatsInv => Stream!LoopInv
BY DEF Etcd!LoopInv, Etcd!StreamCovers, Nats!NatsInv, Nats!LoopInv, Stream!LoopInv,
       Stream!StreamCovers

LEMMA OneLoopAfter ==
  /\ Etcd!LoopInv' <=> Stream!LoopInv'
  /\ Etcd!StreamCovers' <=> Stream!StreamCovers'
BY DEF Etcd!LoopInv, Etcd!StreamCovers, Stream!LoopInv, Stream!StreamCovers

LEMMA InitIInv == Init => IInv
<1> SUFFICES ASSUME Init PROVE IInv
  OBVIOUS
<1>1. CASE source \in {"etcd", "kubernetes"} /\ (Etcd!Init \/ Kubernetes!Init)
  <2>1. Stream!Init
    BY <1>1 DEF Etcd!Init, Kubernetes!Init, Stream!Init
  <2>2. pc # "drain"
    BY <2>1 DEF Stream!Init
  <2> QED BY <1>1, <2>1, <2>2, StreamInit, OneLoop DEF IInv
<1>2. CASE source = "nats" /\ Nats!NatsInit
  BY <1>2, NatsInitInv DEF IInv
<1>3. CASE source = "consul" /\ Consul!Init
  BY <1>3, ConsulInitInv DEF IInv
<1>4. CASE source = "memory" /\ Memory!Init
  BY <1>4, MemoryInitInv DEF IInv
<1>5. CASE source = "polling" /\ Polling!Init
  BY <1>5, PollingInitInv DEF IInv
<1> QED BY <1>1, <1>2, <1>3, <1>4, <1>5 DEF Init

LEMMA StutterIInv == IInv /\ UNCHANGED vars => IInv'
<1> SUFFICES ASSUME IInv, UNCHANGED vars PROVE IInv'
  OBVIOUS
<1>1. source' = source /\ pc' = pc
  BY DEF vars
<1>2. CASE source \in {"etcd", "kubernetes"} /\ Etcd!LoopInv /\ Etcd!StreamCovers
           /\ pc # "drain"
  <2>1. UNCHANGED Stream!vars
    BY DEF vars, streamVars, Stream!vars, Stream!storeVars, Stream!streamVars,
           Stream!stopVars, Stream!runtimeVars
  <2> QED BY <1>1, <1>2, <2>1, StreamStutter, OneLoop, OneLoopAfter DEF IInv
<1>3. CASE source = "nats" /\ Nats!NatsInv
  <2>1. UNCHANGED <<own, rev, sent, base, announced, started, cancelled, token, stream,
                    stopping, pc, updates, callback>>
    BY DEF vars, streamVars, natsVars
  <2>2. Nats!NatsInv'
    BY <1>3, <2>1
       DEF Nats!NatsInv, Nats!LoopInv, Nats!CallbackInv, Nats!UpdatesCover
  <2> QED BY <1>1, <1>3, <2>2 DEF IInv
<1>4. CASE source = "consul" /\ Consul!IInv
  <2>1. UNCHANGED Consul!vars
    BY DEF vars, consulVars, Consul!vars, Consul!storeVars, Consul!loopVars,
           Consul!stopVars, Consul!runtimeVars
  <2> QED BY <1>1, <1>4, <2>1, ConsulStutter DEF IInv
<1>5. CASE source = "memory" /\ Memory!IInv
  <2>1. UNCHANGED Memory!vars
    BY DEF vars, memoryVars, Memory!vars
  <2> QED BY <1>1, <1>5, <2>1, MemoryStutter DEF IInv
<1>6. CASE source = "polling" /\ Polling!IInv
  <2>1. UNCHANGED Polling!vars
    BY DEF vars, pollingVars, Polling!vars, Polling!storeVars, Polling!rebuildVars,
           Polling!runtimeVars
  <2> QED BY <1>1, <1>6, <2>1, PollingStutter DEF IInv
<1> QED BY <1>2, <1>3, <1>4, <1>5, <1>6 DEF IInv

\* A step of the source keeps its invariant, and is one that the contract of a Watcher
\* allows, or none at all.
LEMMA NextIInv ==
  ASSUME IInv, Next
  PROVE  /\ IInv'
         /\ \A w \in Watchers : [Contract(w)!Next]_(Contract(w)!vars)
<1>1. CASE StreamStep /\ source \in {"etcd", "kubernetes"}
  <2>1. /\ Etcd!Next \/ Kubernetes!Next
        /\ source' = source
    BY <1>1 DEF StreamStep
  <2>2. Stream!LoopInv /\ Stream!StreamCovers /\ pc # "drain"
    BY <1>1, OneLoop DEF IInv
  <2>3. /\ Stream!LoopInv' /\ Stream!StreamCovers' /\ pc' # "drain"
        /\ [StreamContract!Next]_(StreamContract!vars)
    BY <2>1, <2>2, StreamSourcesNext
  <2>4. IInv'
    BY <1>1, <2>1, <2>3, OneLoopAfter DEF IInv
  <2> QED BY <1>1, <2>1, <2>3, <2>4, ContractOfStream DEF Streaming
<1>2. CASE StreamStep /\ source = "nats"
  <2>1. Nats!Next /\ source' = source
    BY <1>2 DEF StreamStep
  <2>2. Nats!NatsInv
    BY <1>2 DEF IInv
  <2>3. Nats!NatsInv' /\ [StreamContract!Next]_(StreamContract!vars)
    BY <2>1, <2>2, NatsNext
  <2>4. IInv'
    BY <1>2, <2>1, <2>3 DEF IInv
  <2> QED BY <1>2, <2>1, <2>3, <2>4, ContractOfStream DEF Streaming
<1>3. CASE ConsulStep
  <2>1. source = "consul" /\ source' = source /\ Consul!Next
    BY <1>3 DEF ConsulStep
  <2>2. Consul!IInv
    BY <2>1 DEF IInv
  <2>3. IInv'
    BY <2>1, <2>2, ConsulNext DEF IInv
  <2> QED BY <2>1, <2>2, <2>3, ConsulKeepsContract, ContractOfConsul
<1>4. CASE MemoryStep
  <2>1. source = "memory" /\ source' = source /\ Memory!Next
    BY <1>4 DEF MemoryStep
  <2>2. Memory!IInv /\ Memory!IInv'
    BY <2>1, MemoryNext DEF IInv
  <2>3. IInv'
    BY <2>1, <2>2 DEF IInv
  <2> QED BY <2>1, <2>2, <2>3, MemoryKeepsContract, ContractOfMemory
<1>5. CASE PollingStep
  <2>1. source = "polling" /\ source' = source /\ Polling!Next
    BY <1>5 DEF PollingStep
  <2>2. Polling!IInv
    BY <2>1 DEF IInv
  <2>3. Polling!IInv'
    BY <2>1, <2>2, PollingNext
  <2>4. IInv'
    BY <2>1, <2>3 DEF IInv
  <2> QED BY <2>1, <2>2, <2>3, <2>4, PollingKeepsContract, ContractOfPolling
<1>6. StreamStep => source \in {"etcd", "kubernetes", "nats"}
  BY DEF StreamStep
<1> QED BY <1>1, <1>2, <1>3, <1>4, <1>5, <1>6 DEF Next

-----------------------------------------------------------------------------
(* Theorems.                                                                *)

\* The inductive invariant of whichever source the behaviour is of.
THEOREM Inductive == Spec => []IInv
<1>1. Init => IInv
  BY InitIInv
<1>2. IInv /\ [Next]_vars => IInv'
  BY NextIInv, StutterIInv
<1> QED BY <1>1, <1>2, PTL DEF Spec

\* While a Watch waits it has overlooked no change: every one has been announced, or is
\* still to be delivered (Watch of etcd.go, kubernetes.go, nats.go, consul.go, and
\* Memory).
THEOREM NothingIsOverlooked == Spec => []NothingOverlooked
<1>1. IInv => NothingOverlooked
  BY OneLoop, MemoryNobodyMisses
     DEF IInv, NothingOverlooked, Nats!NatsInv, Consul!IInv
<1> QED BY <1>1, Inductive, PTL

\* A Watch that failed and a goroutine that ended leave no stream and no callback of a
\* client behind.
THEOREM NothingIsLeft == Spec => []NothingLeft
<1>1. IInv => NothingLeft
  <2>1. Etcd!LoopInv => Etcd!NoStreamLeft
    BY DEF Etcd!LoopInv, Etcd!NoStreamLeft
  <2>2. Nats!NatsInv => Nats!NoCallbackStuck
    BY DEF Nats!NatsInv, Nats!LoopInv, Nats!CallbackInv, Nats!NoCallbackStuck
  <2> QED BY <2>1, <2>2 DEF IInv, NothingLeft
<1> QED BY <1>1, Inductive, PTL

\* However a polled source's changes, failures and recoveries fall between the steps of
\* a rebuild, the runtime does not come to rest with another layer than the source's: a
\* source that cannot be read does not pass for one that is absent (Optional, Poll and
\* the token of the runtime).
THEOREM QuietPollsAreCurrent == Spec => []QuietIsCurrent
<1>1. IInv => QuietIsCurrent
  BY DEF IInv, QuietIsCurrent, Polling!IInv
<1> QED BY <1>1, Inductive, PTL

LEMMA InitKeepsContract ==
  ASSUME NEW w \in Watchers, Init
  PROVE  Contract(w)!Init
<1>1. CASE source = "consul" /\ Consul!Init
  BY <1>1
     DEF Streaming, Contract!Init, Consul!Init, Consul!Phase, Consul!Owed, Consul!Started
<1>2. CASE source = "memory" /\ Memory!Init
  BY <1>2 DEF Streaming, Contract!Init, Memory!Init, Memory!Phase
<1>3. CASE source = "polling" /\ Polling!Init
  BY <1>3 DEF Streaming, Contract!Init, Polling!Init, Polling!Phase
<1>4. CASE /\ source \in {"etcd", "kubernetes", "nats"}
           /\ Etcd!Init \/ Kubernetes!Init \/ Nats!NatsInit
  <2>1. pc = "connect" /\ stopping = "no" /\ ~started /\ token = FALSE
    BY <1>4 DEF Etcd!Init, Kubernetes!Init, Nats!NatsInit, Nats!Init
  <2> QED BY <1>4, <2>1 DEF Streaming, Contract!Init, Etcd!Phase, Etcd!Owed
<1> QED BY <1>1, <1>2, <1>3, <1>4 DEF Init

\* Every source keeps the contract of a Watcher (xconf.go:73), step by step: a change
\* once Watch has registered is owed until the runtime is notified, a stop ends the
\* notifications, and nothing else happens.
THEOREM WatchersKeepContract == Spec => KeepsContract
<1>1. Init => \A w \in Watchers : Contract(w)!Init
  BY InitKeepsContract
<1>2. IInv /\ [Next]_vars
        => [\A w \in Watchers : [Contract(w)!Next]_(Contract(w)!vars)]_vars
  BY NextIInv
<1> QED BY <1>1, <1>2, Inductive, PTL DEF Spec, KeepsContract
=============================================================================
