---------------------------- MODULE RuntimeProofs ----------------------------
(***************************************************************************)
(* Safety of module Runtime, for any number of sources, callers, closers    *)
(* and subscribers and any configuration values.                            *)
(*                                                                          *)
(* IInv (module RuntimeInvariant) is inductive.  The argument: a thread's   *)
(* place and its load agree (LoadInv); before Open succeeds only Open's     *)
(* goroutine works (PhaseInv); hence whoever rebuilds has the gate or is    *)
(* Open itself (GateInv), rebuilds exclude one another, and what a load has *)
(* read stays newer than what was accepted (FreshInv).  Under mu at most    *)
(* one thread publishes to channels that are open and drained (PublishInv), *)
(* so whoever publish has served holds the current snapshot (KnowsInv), and *)
(* once run's deferred calls are done nothing registers again (ShutdownInv).*)
(* A reading that has become outdated while its load is at work is notified *)
(* already, or known to be, so that no build can hide it (InvalidationInv). *)
(*                                                                          *)
(* There is one lemma per part, with one step per action of Next.           *)
(***************************************************************************)
EXTENDS RuntimeInvariant, SnapshotProofs

\* What SMT needs to know of the variables' types.
USE RuntimeAssumption DEF Source, Thread

-----------------------------------------------------------------------------
\* What load and build make of readable layers is a snapshot, and not the missing one.
LEMMA SnapshotTyped ==
  ASSUME NEW n \in Nat \ {0}, NEW layers \in [Source -> Layer]
  PROVE  /\ Snapshot(n, layers) \in SnapshotType
         /\ Snapshot(n, layers).version = n
         /\ Snapshot(n, layers) # NoSnapshot
<1>1. Merged(layers) \in Values
  BY LastWriterWins
<1>2. [p \in Path |-> Writers(layers, p)] \in [Path -> SUBSET Source]
  BY DEF Writers
<1>3. [i \in DOMAIN layers |-> layers[i].revision] \in [Source -> Revision]
  BY DEF Layer
<1>4. Degraded(layers) \in SUBSET Source
  BY DEF Degraded
<1>5. Snapshot(n, layers) \in SnapshotType
  BY <1>1, <1>2, <1>3, <1>4 DEF Snapshot, SnapshotType
<1>6. Snapshot(n, layers).version = n
  BY DEF Snapshot
<1>7. NoSnapshot.version = 0
  BY DEF NoSnapshot, NoEvent
<1> QED BY <1>5, <1>6, <1>7

\* A load that has read every source has one layer for each.
LEMMA LayersTyped ==
  ASSUME TypeOK, NEW t \in Thread, Len(got[t]) = NumSources
  PROVE  Layers(t) \in [Source -> Layer]
<1>1. got[t] \in Seq(Reading)
  BY DEF TypeOK, ThreadTypeOK
<1>2. DOMAIN got[t] = Source
  BY <1>1
<1>3. \A i \in Source : got[t][i] \in Reading
  BY <1>1, <1>2
<1> QED BY <1>2, <1>3 DEF Layers, Reading

\* ... and one generation for each.
LEMMA GotGens ==
  ASSUME TypeOK, NEW t \in Thread, Len(got[t]) = NumSources
  PROVE  [s \in Source |-> got[t][s].gen] \in [Source -> 0..MaxChanges]
<1>1. got[t] \in Seq(Reading)
  BY DEF TypeOK, ThreadTypeOK
<1>2. \A i \in Source : got[t][i] \in Reading
  BY <1>1
<1> QED BY <1>2 DEF Reading

\* Once Open has succeeded the current snapshot is whole.
LEMMA OpenedTyped ==
  ASSUME TypeOK, Opened
  PROVE  current \in SnapshotType /\ current.version \in Nat \ {0}
BY DEF TypeOK, StateTypeOK, Opened, SnapshotType

-----------------------------------------------------------------------------
\* TypeOK holds initially; the next lemmas show each group of actions preserves it.
LEMMA InitTypeOK == Init => TypeOK
<1> SUFFICES ASSUME Init PROVE TypeOK
  OBVIOUS
<1>1. SourceTypeOK
  <2>1. \A s \in Source : store[s] \in [gen : {0}, content : Layer \cup {Unreadable}]
    BY DEF Init
  <2>2. \A s \in Source : store[s] \in [gen : 0..MaxChanges, content : Layer \cup {Unreadable}]
    BY <2>1
  <2>3. store = [s \in Source |-> store[s]]
    BY DEF Init
  <2>4. store \in [Source -> [gen : 0..MaxChanges, content : Layer \cup {Unreadable}]]
    BY <2>2, <2>3
  <2>5. stops \in Seq(Watched)
    BY DEF Init
  <2>6. pend = {} /\ dirty = FALSE /\ rootDone = FALSE
    BY DEF Init
  <2> QED BY <2>4, <2>5, <2>6 DEF SourceTypeOK
<1>2. ThreadTypeOK
  <2>1. pc \in [Thread -> Label]
    BY DEF Init, Label
  <2>2. got \in [Thread -> Seq(Reading)]
    BY DEF Init
  <2>3. err \in [Thread -> Outcome]
    BY DEF Init, Outcome
  <2>4. ctxDone = {} /\ gate = Nobody /\ mu = Nobody
    BY DEF Init
  <2> QED BY <2>1, <2>2, <2>3, <2>4 DEF ThreadTypeOK
<1>3. StateTypeOK
  <2>1. current = NoSnapshot /\ failed = FALSE /\ closed = FALSE
    BY DEF Init
  <2>2. accepted \in [Source -> 0..MaxChanges]
    BY DEF Init
  <2> QED BY <2>1, <2>2 DEF StateTypeOK
<1>4. SubscriberTypeOK
  BY DEF Init, SubscriberTypeOK
<1>5. CallTypeOK
  BY DEF Init, CallTypeOK
<1> QED BY <1>1, <1>2, <1>3, <1>4, <1>5 DEF TypeOK

\* Reading, checking the context and baking: an unreadable store adds nothing to a load.
LEMMA LoadTypeOK ==
  ASSUME TypeOK, LoadInv, NEW t \in Thread, Load(t)
  PROVE  TypeOK'
<1> USE DEF sourceVars, loadVars, stateVars, publishVars, subscriberVars, callVars, Goto
<1>1. SourceTypeOK'
  BY DEF Load, BeginRead, EndRead, Bake, TypeOK, SourceTypeOK
<1>2. ThreadTypeOK'
  <2>1. CASE BeginRead(t)
    BY <2>1 DEF BeginRead, Label, Outcome, TypeOK, ThreadTypeOK
  <2>2. CASE EndRead(t)
    <3> DEFINE s == Len(got[t]) + 1
    <3>1. s \in Source
      BY <2>2 DEF EndRead, LoadInv, TypeOK, ThreadTypeOK
    <3>2. store[s].content # Unreadable => store[s] \in Reading
      BY <3>1 DEF TypeOK, SourceTypeOK, Reading
    <3> HIDE DEF s
    <3>3. \/ got' = got
          \/ got' = [got EXCEPT ![t] = Append(@, store[s])] /\ store[s] \in Reading
      BY <3>2, <2>2 DEF EndRead, s
    <3>4. got' \in [Thread -> Seq(Reading)]
      <4>1. got \in [Thread -> Seq(Reading)] /\ got[t] \in Seq(Reading)
        BY DEF TypeOK, ThreadTypeOK
      <4>2. store[s] \in Reading => Append(got[t], store[s]) \in Seq(Reading)
        BY <4>1
      <4> QED BY <3>3, <4>1, <4>2
    <3> QED BY <3>4, <2>2 DEF EndRead, Label, Outcome, TypeOK, ThreadTypeOK
  <2>3. CASE Bake(t)
    <3>1. BuildError(Layers(t)) \in Outcome
      BY DEF BuildError, Outcome
    <3>2. err' \in [Thread -> Outcome]
      BY <3>1, <2>3 DEF Bake, TypeOK, ThreadTypeOK, Outcome
    <3> QED BY <3>2, <2>3 DEF Bake, TypeOK, ThreadTypeOK, Label
  <2> QED BY <2>1, <2>2, <2>3 DEF Load
<1>3. StateTypeOK'
  BY DEF Load, BeginRead, EndRead, Bake, TypeOK, StateTypeOK
<1>4. SubscriberTypeOK'
  BY DEF Load, BeginRead, EndRead, Bake, TypeOK, SubscriberTypeOK
<1>5. CallTypeOK'
  BY DEF Load, BeginRead, EndRead, Bake, TypeOK, CallTypeOK
<1> QED BY <1>1, <1>2, <1>3, <1>4, <1>5 DEF TypeOK

\* Stores, notifications and contexts.
LEMMA EnvironmentTypeOK ==
  ASSUME TypeOK, Environment
  PROVE  TypeOK'
<1> USE DEF sourceVars, loadVars, stateVars, publishVars, subscriberVars, callVars,
            Change, Notify, CancelOpenContext, CancelCall, AfterRootCancel
<1>1. SourceTypeOK'
  <2>1. ASSUME NEW s \in Source, Change(s) PROVE SourceTypeOK'
    <3>1. PICK content \in Contents[s] :
            store' = [store EXCEPT ![s] = [gen |-> @.gen + 1, content |-> content]]
      BY <2>1
    <3>2. content \in Layer \cup {Unreadable}
      OBVIOUS
    <3>3. store[s].gen + 1 \in 0..MaxChanges
      BY <2>1 DEF TypeOK, SourceTypeOK
    <3>4. store' \in [Source -> [gen : 0..MaxChanges, content : Layer \cup {Unreadable}]]
      BY <3>1, <3>2, <3>3 DEF TypeOK, SourceTypeOK
    <3> QED BY <2>1, <3>4 DEF TypeOK, SourceTypeOK
  <2>2. ASSUME NEW s \in Source, Notify(s) PROVE SourceTypeOK'
    BY <2>2 DEF TypeOK, SourceTypeOK
  <2>3. CASE CancelOpenContext
    BY <2>3 DEF TypeOK, SourceTypeOK
  <2>4. ASSUME NEW t \in Callers, CancelCall(t) \/ AfterRootCancel(t) PROVE SourceTypeOK'
    BY <2>4 DEF TypeOK, SourceTypeOK
  <2> QED BY <2>1, <2>2, <2>3, <2>4 DEF Environment
<1>2. ThreadTypeOK'
  BY DEF Environment, TypeOK, ThreadTypeOK
<1>3. StateTypeOK'
  BY DEF Environment, TypeOK, StateTypeOK
<1>4. SubscriberTypeOK'
  BY DEF Environment, TypeOK, SubscriberTypeOK
<1>5. CallTypeOK'
  BY DEF Environment, TypeOK, CallTypeOK
<1> QED BY <1>1, <1>2, <1>3, <1>4, <1>5 DEF TypeOK

\* Open, up to its first snapshot.
LEMMA OpeningTypeOK ==
  ASSUME TypeOK, LoadInv, Opening
  PROVE  TypeOK'
<1> USE DEF sourceVars, loadVars, stateVars, publishVars, subscriberVars, callVars, Goto, StartLoad
<1>1. SourceTypeOK'
  <2>1. CASE RegisterWatcher
    <3>1. Min(Unwatched) \in Watched
      BY <2>1, MinIsLeast DEF RegisterWatcher, Unwatched
    <3>2. Append(stops, Min(Unwatched)) \in Seq(Watched)
      BY <3>1 DEF TypeOK, SourceTypeOK
    <3> QED BY <2>1, <3>2 DEF RegisterWatcher, TypeOK, SourceTypeOK
  <2>2. CASE ~RegisterWatcher
    BY <2>2 DEF Opening, FirstLoad, HoldOpen, RetryOpen, FailOpen, FinishOpen,
         OpenFailed, TypeOK, SourceTypeOK
  <2> QED BY <2>1, <2>2
<1>2. ThreadTypeOK'
  <2>1. <<>> \in Seq(Reading)
    OBVIOUS
  <2>2. got' \in [Thread -> Seq(Reading)]
    BY <2>1 DEF Opening, RegisterWatcher, FirstLoad, HoldOpen, RetryOpen, FailOpen,
         FinishOpen, OpenFailed, TypeOK, ThreadTypeOK
  <2>3. pc' \in [Thread -> Label]
    BY DEF Opening, RegisterWatcher, FirstLoad, HoldOpen, RetryOpen, FailOpen,
         FinishOpen, OpenFailed, TypeOK, ThreadTypeOK, Label
  <2>4. err' \in [Thread -> Outcome] /\ UNCHANGED <<ctxDone, gate, mu>>
    BY DEF Opening, RegisterWatcher, FirstLoad, HoldOpen, RetryOpen, FailOpen,
         FinishOpen, OpenFailed, TypeOK, ThreadTypeOK, Outcome
  <2> QED BY <2>2, <2>3, <2>4 DEF TypeOK, ThreadTypeOK
<1>3. StateTypeOK'
  <2>1. CASE FinishOpen
    <3>1. Len(got[Run]) = NumSources
      BY <2>1 DEF FinishOpen, LoadInv
    <3>2. Snapshot(1, Layers(Run)) \in SnapshotType
      BY <3>1, LayersTyped, SnapshotTyped
    <3>3. accepted' \in [Source -> 0..MaxChanges]
      BY <2>1, <3>1, GotGens DEF FinishOpen
    <3> QED BY <3>2, <3>3, <2>1 DEF FinishOpen, TypeOK, StateTypeOK
  <2>2. CASE ~FinishOpen
    BY <2>2 DEF Opening, RegisterWatcher, FirstLoad, HoldOpen, RetryOpen, FailOpen,
         OpenFailed, TypeOK, StateTypeOK
  <2> QED BY <2>1, <2>2
<1>4. SubscriberTypeOK'
  BY DEF Opening, RegisterWatcher, FirstLoad, HoldOpen, RetryOpen, FailOpen, FinishOpen,
         OpenFailed, TypeOK, SubscriberTypeOK
<1>5. CallTypeOK'
  BY DEF Opening, RegisterWatcher, FirstLoad, HoldOpen, RetryOpen, FailOpen, FinishOpen,
         OpenFailed, TypeOK, CallTypeOK
<1> QED BY <1>1, <1>2, <1>3, <1>4, <1>5 DEF TypeOK

\* The run loop and its deferred calls.
LEMMA LoopTypeOK ==
  ASSUME TypeOK, Loop
  PROVE  TypeOK'
<1> USE DEF sourceVars, loadVars, stateVars, publishVars, subscriberVars, callVars, Goto
<1>1. SourceTypeOK'
  <2>1. Front(stops) \in Seq(Watched) \/ stops = <<>>
    BY DEF TypeOK, SourceTypeOK, Front
  <2> QED
    BY <2>1 DEF Loop, Debounce, DebounceExpires, LeaveLoop, StopWatcher, Shutdown,
         TypeOK, SourceTypeOK
<1>2. ThreadTypeOK'
  BY DEF Loop, Debounce, DebounceExpires, LeaveLoop, StopWatcher, Shutdown,
         TypeOK, ThreadTypeOK, Label
<1>3. StateTypeOK'
  BY DEF Loop, Debounce, DebounceExpires, LeaveLoop, StopWatcher, Shutdown,
         TypeOK, StateTypeOK
<1>4. SubscriberTypeOK'
  BY DEF Loop, Debounce, DebounceExpires, LeaveLoop, StopWatcher, Shutdown,
         TypeOK, SubscriberTypeOK
<1>5. CallTypeOK'
  BY DEF Loop, Debounce, DebounceExpires, LeaveLoop, StopWatcher, Shutdown,
         TypeOK, CallTypeOK
<1> QED BY <1>1, <1>2, <1>3, <1>4, <1>5 DEF TypeOK

\* Reload apart from its commit.
LEMMA ReloadTypeOK ==
  ASSUME TypeOK, NEW t \in Thread,
         \/ EnterReload(t) \/ WinGate(t) \/ GiveUpGate(t) \/ ReleaseGate(t)
         \/ (t \in Callers /\ CallReload(t))
  PROVE  TypeOK'
<1> USE DEF sourceVars, loadVars, stateVars, publishVars, subscriberVars, callVars, Goto,
            EnterReload, WinGate, GiveUpGate, ReleaseGate, CallReload, Leave, StartLoad
<1>1. SourceTypeOK'
  BY DEF TypeOK, SourceTypeOK
<1>2. ThreadTypeOK'
  <2>1. <<>> \in Seq(Reading)
    OBVIOUS
  <2>2. got' \in [Thread -> Seq(Reading)]
    <3>1. got' = got \/ got' = [got EXCEPT ![t] = <<>>]
      OBVIOUS
    <3>2. got \in [Thread -> Seq(Reading)]
      BY DEF TypeOK, ThreadTypeOK
    <3> QED BY ONLY <2>1, <3>1, <3>2
  <2>3. pc' \in [Thread -> Label]
    <3>1. \E l \in {"idle", "select", "gate", "load", "enter"} : pc' = [pc EXCEPT ![t] = l]
      BY DEF Home
    <3>2. pc \in [Thread -> Label]
      BY DEF TypeOK, ThreadTypeOK
    <3> QED BY ONLY <3>1, <3>2 DEF Label
  <2>4. err' \in [Thread -> Outcome]
    BY DEF TypeOK, ThreadTypeOK, Outcome
  <2>5. ctxDone' \subseteq Callers /\ mu' = mu /\ gate' \in Thread \cup Closers \cup {Nobody}
    BY DEF TypeOK, ThreadTypeOK
  <2> QED BY <2>2, <2>3, <2>4, <2>5 DEF TypeOK, ThreadTypeOK
<1>3. StateTypeOK'
  BY DEF TypeOK, StateTypeOK
<1>4. SubscriberTypeOK'
  BY DEF TypeOK, SubscriberTypeOK
<1>5. CallTypeOK'
  <2>1. Gens \in [Source -> 0..MaxChanges]
    BY DEF Gens, TypeOK, SourceTypeOK
  <2>2. [s \in Source |-> 0] \in [Source -> 0..MaxChanges]
    OBVIOUS
  <2>3. floor \in [Callers -> [Source -> 0..MaxChanges]] /\ reloads \in [Callers -> 0..MaxReloads]
    BY DEF TypeOK, CallTypeOK
  <2>4. \/ floor' = [floor EXCEPT ![t] = Gens]
        \/ floor' = [u \in Callers |-> IF u = t THEN [s \in Source |-> 0] ELSE floor[u]]
        \/ floor' = floor
    OBVIOUS
  <2>5. floor' \in [Callers -> [Source -> 0..MaxChanges]]
    <3> DEFINE z == [s \in Source |-> 0]
    <3>1. z \in [Source -> 0..MaxChanges]
      BY <2>2
    <3>2. \/ floor' = [floor EXCEPT ![t] = Gens]
          \/ floor' = [u \in Callers |-> IF u = t THEN z ELSE floor[u]]
          \/ floor' = floor
      BY <2>4
    <3> HIDE DEF z
    <3> QED BY ONLY <2>1, <2>3, <3>1, <3>2
  <2>6. CASE CallReload(t) /\ t \in Callers
    <3>1. reloads[t] + 1 \in 0..MaxReloads
      BY <2>3, <2>6
    <3>2. reloads' = [reloads EXCEPT ![t] = @ + 1] /\ closer' = closer
      BY <2>6
    <3> QED BY <3>1, <3>2, <2>3, <2>5 DEF TypeOK, CallTypeOK
  <2>7. CASE ~(CallReload(t) /\ t \in Callers)
    <3>1. reloads' = reloads /\ closer' = closer
      BY <2>7
    <3> QED BY <3>1, <2>5 DEF TypeOK, CallTypeOK
  <2> QED BY <2>6, <2>7
<1> QED BY <1>1, <1>2, <1>3, <1>4, <1>5 DEF TypeOK

\* An event made of a whole snapshot is an event.
LEMMA EventTyped ==
  ASSUME NEW s \in SnapshotType, NEW e \in BOOLEAN, NEW c \in SUBSET Path
  PROVE  Event(s, e, c) \in EventType
BY DEF Event, EventType

\* Reload's decision under mu: what becomes current is whole.
LEMMA CommitTypeOK ==
  ASSUME TypeOK, LoadInv, NEW t \in Thread, Commit(t)
  PROVE  TypeOK'
<1> USE DEF sourceVars, loadVars, stateVars, publishVars, subscriberVars, callVars, Goto
<1>1. SourceTypeOK'
  BY DEF Commit, TypeOK, SourceTypeOK
<1>2. current \in SnapshotType /\ current.version + 1 \in Nat \ {0}
  BY OpenedTyped DEF Commit
<1>3. err[t] = "none" => Len(got[t]) = NumSources
  BY DEF Commit, LoadInv
<1>4. ThreadTypeOK'
  BY DEF Commit, CommitClosed, CommitFailure, CommitSame, CommitNew, Publish, NoPublish,
         TypeOK, ThreadTypeOK, Label, Outcome
<1>5. StateTypeOK' /\ message' \in EventType \cup {NoEvent}
  <2>1. CASE CommitClosed(t)
    BY <2>1 DEF CommitClosed, NoPublish, TypeOK, StateTypeOK, SubscriberTypeOK
  <2>2. CASE CommitFailure(t)
    BY <2>2, <1>2, EventTyped DEF CommitFailure, Publish, TypeOK, StateTypeOK
  <2>3. CASE CommitSame(t)
    <3>1. accepted' \in [Source -> 0..MaxChanges]
      BY <2>3, <1>3, GotGens DEF CommitSame, Accept
    <3>2. Event(current, FALSE, {}) \in EventType
      BY <1>2, EventTyped
    <3>3. message' = Event(current, FALSE, {}) \/ message' = message
      BY <2>3 DEF CommitSame, Publish, NoPublish
    <3>4. message' \in EventType \cup {NoEvent}
      BY <3>2, <3>3 DEF TypeOK, SubscriberTypeOK
    <3> QED BY <2>3, <3>1, <3>4 DEF CommitSame, TypeOK, StateTypeOK
  <2>4. CASE CommitNew(t)
    <3> DEFINE next == Snapshot(current.version + 1, Layers(t))
    <3>1. accepted' \in [Source -> 0..MaxChanges]
      BY <2>4, <1>3, GotGens DEF CommitNew, Accept
    <3>2. next \in SnapshotType
      BY <2>4, <1>2, <1>3, LayersTyped, SnapshotTyped DEF CommitNew
    <3>3. ChangedPaths(current, next) \in SUBSET Path
      BY DEF ChangedPaths
    <3>4. /\ current' = next
          /\ message' = Event(next, FALSE, ChangedPaths(current, next))
          /\ failed' = FALSE /\ closed' = closed
      BY <2>4 DEF CommitNew, Publish
    <3> HIDE DEF next
    <3>5. message' \in EventType
      BY <3>2, <3>3, <3>4, EventTyped
    <3> QED BY <3>1, <3>2, <3>4, <3>5 DEF TypeOK, StateTypeOK
  <2> QED BY <2>1, <2>2, <2>3, <2>4 DEF Commit
<1>6. targets' \subseteq Subscribers
  BY DEF Commit, CommitClosed, CommitFailure, CommitSame, CommitNew, Publish, NoPublish,
         Registered, TypeOK, SubscriberTypeOK
<1>7. SubscriberTypeOK'
  BY <1>5, <1>6 DEF Commit, TypeOK, SubscriberTypeOK
<1>8. CallTypeOK'
  BY DEF Commit, TypeOK, CallTypeOK
<1> QED BY <1>1, <1>4, <1>5, <1>7, <1>8 DEF TypeOK

\* publish sends events only.
LEMMA PublishTypeOK ==
  ASSUME TypeOK, PublishInv, NEW t \in Thread,
         (\E s \in Subscribers : Drain(t, s)) \/ Send(t) \/ FinishPublish(t)
  PROVE  TypeOK'
<1> USE DEF sourceVars, loadVars, stateVars, publishVars, subscriberVars, callVars, Goto,
            Drain, Send, FinishPublish
<1>1. SourceTypeOK'
  BY DEF TypeOK, SourceTypeOK
<1>2. ThreadTypeOK'
  BY DEF TypeOK, ThreadTypeOK, Label
<1>3. StateTypeOK'
  BY DEF TypeOK, StateTypeOK
<1>4. SubscriberTypeOK'
  <2>1. <<>> \in Seq(EventType) /\ (message # NoEvent => <<message>> \in Seq(EventType))
    BY DEF TypeOK, SubscriberTypeOK
  <2>2. pc[t] = "publish" => message # NoEvent
    BY DEF PublishInv
  <2>3. \/ buf' = buf
        \/ \E s \in Subscribers : buf' = [buf EXCEPT ![s] = <<>>]
        \/ \E s \in Subscribers : buf' = [buf EXCEPT ![s] = <<message>>] /\ message # NoEvent
    BY <2>2 DEF TypeOK, SubscriberTypeOK
  <2>4. buf \in [Subscribers -> Seq(EventType)]
    BY DEF TypeOK, SubscriberTypeOK
  <2>5. buf' \in [Subscribers -> Seq(EventType)]
    BY ONLY <2>1, <2>3, <2>4
  <2> QED BY <2>5 DEF TypeOK, SubscriberTypeOK
<1>5. CallTypeOK'
  BY DEF TypeOK, CallTypeOK
<1> QED BY <1>1, <1>2, <1>3, <1>4, <1>5 DEF TypeOK

\* Subscribing, receiving and unsubscribing.
LEMMA SubscriptionTypeOK ==
  ASSUME TypeOK, NEW s \in Subscribers, Subscription(s)
  PROVE  TypeOK'
<1> USE DEF sourceVars, loadVars, stateVars, publishVars, subscriberVars, callVars,
            Subscription, Subscribe, CancelSubscription, Unsubscribe, Receive
<1>1. SourceTypeOK'
  BY DEF TypeOK, SourceTypeOK
<1>2. ThreadTypeOK'
  BY DEF TypeOK, ThreadTypeOK
<1>3. StateTypeOK'
  BY DEF TypeOK, StateTypeOK
<1>4. SubscriberTypeOK'
  <2>1. Opened => <<Event(current, FALSE, {})>> \in Seq(EventType)
    <3> DEFINE e == Event(current, FALSE, {})
    <3>1. Opened => e \in EventType
      BY OpenedTyped, EventTyped
    <3> HIDE DEF e
    <3>2. Opened => <<e>> \in Seq(EventType)
      BY ONLY <3>1
    <3> QED BY <3>2 DEF e
  <2>2. <<>> \in Seq(EventType) /\ (buf[s] # <<>> => Head(buf[s]) \in EventType)
    BY DEF TypeOK, SubscriberTypeOK
  <2>3. buf' \in [Subscribers -> Seq(EventType)]
    <3> DEFINE m == <<Event(current, FALSE, {})>>
    <3>1. \/ buf' = buf
          \/ buf' = [buf EXCEPT ![s] = <<>>]
          \/ buf' = [buf EXCEPT ![s] = m] /\ m \in Seq(EventType)
      BY <2>1
    <3>2. buf \in [Subscribers -> Seq(EventType)]
      BY DEF TypeOK, SubscriberTypeOK
    <3> HIDE DEF m
    <3> QED BY ONLY <2>2, <3>1, <3>2
  <2>4. seen' \in [Subscribers -> EventType \cup {NoEvent}]
    BY <2>2 DEF TypeOK, SubscriberTypeOK
  <2> QED BY <2>3, <2>4 DEF TypeOK, SubscriberTypeOK
<1>5. CallTypeOK'
  BY DEF TypeOK, CallTypeOK
<1> QED BY <1>1, <1>2, <1>3, <1>4, <1>5 DEF TypeOK

\* Close.
LEMMA ClosingTypeOK ==
  ASSUME TypeOK, NEW c \in Closers, Closing(c)
  PROVE  TypeOK'
<1> USE DEF sourceVars, loadVars, stateVars, publishVars, subscriberVars, callVars,
            Closing, Close, CloseTakesGate, CloseReturns
<1>1. SourceTypeOK'
  BY DEF TypeOK, SourceTypeOK
<1>2. ThreadTypeOK'
  BY DEF TypeOK, ThreadTypeOK
<1>3. StateTypeOK'
  BY DEF TypeOK, StateTypeOK
<1>4. SubscriberTypeOK'
  BY DEF TypeOK, SubscriberTypeOK
<1>5. CallTypeOK'
  BY DEF TypeOK, CallTypeOK
<1> QED BY <1>1, <1>2, <1>3, <1>4, <1>5 DEF TypeOK

-----------------------------------------------------------------------------
\* Every step of the runtime belongs to one of the groups the lemmas treat.
LEMMA NextCases ==
  ASSUME Next
  PROVE  \/ Environment \/ Opening \/ Loop
         \/ \E t \in Thread :
              \/ Load(t) \/ Commit(t)
              \/ EnterReload(t) \/ WinGate(t) \/ GiveUpGate(t) \/ ReleaseGate(t)
              \/ (t \in Callers /\ CallReload(t))
              \/ (\E s \in Subscribers : Drain(t, s)) \/ Send(t) \/ FinishPublish(t)
         \/ \E s \in Subscribers : Subscription(s)
         \/ \E c \in Closers : Closing(c)
         \/ UNCHANGED vars
BY DEF Next, Reload, Finished

\* Every step preserves TypeOK.
LEMMA NextTypeOK ==
  ASSUME TypeOK, LoadInv, PublishInv, [Next]_vars
  PROVE  TypeOK'
<1>1. CASE UNCHANGED vars
  <2>1. SourceTypeOK'
    BY <1>1 DEF vars, sourceVars, TypeOK, SourceTypeOK
  <2>2. ThreadTypeOK'
    BY <1>1 DEF vars, loadVars, publishVars, callVars, TypeOK, ThreadTypeOK
  <2>3. StateTypeOK'
    BY <1>1 DEF vars, stateVars, TypeOK, StateTypeOK
  <2>4. SubscriberTypeOK'
    BY <1>1 DEF vars, subscriberVars, publishVars, TypeOK, SubscriberTypeOK
  <2>5. CallTypeOK'
    BY <1>1 DEF vars, callVars, TypeOK, CallTypeOK
  <2> QED BY <2>1, <2>2, <2>3, <2>4, <2>5 DEF TypeOK
<1>2. CASE Next
  BY <1>1, <1>2, NextCases, EnvironmentTypeOK, OpeningTypeOK, LoopTypeOK, LoadTypeOK,
     ReloadTypeOK, CommitTypeOK, PublishTypeOK, SubscriptionTypeOK, ClosingTypeOK
<1> QED BY <1>1, <1>2

\* Once Open has succeeded the runtime keeps having a snapshot.
LEMMA OpenedForGood ==
  ASSUME TypeOK, LoadInv, Next
  PROVE  (Opened => Opened') /\ (~Opened => (Opened' <=> FinishOpen))
<1> USE DEF stateVars
<1>1. CASE \E t \in Thread : Commit(t)
  <2>1. PICK t \in Thread : Commit(t)
    BY <1>1
  <2>2. Opened
    BY <2>1 DEF Commit
  <2>3. CASE CommitNew(t)
    <3>1. Len(got[t]) = NumSources
      BY <2>1, <2>3 DEF Commit, CommitNew, LoadInv
    <3>2. current.version + 1 \in Nat \ {0}
      BY <2>2, OpenedTyped
    <3>3. current' = Snapshot(current.version + 1, Layers(t))
      BY <2>3 DEF CommitNew
    <3>4. current' # NoSnapshot
      BY <3>1, <3>2, <3>3, LayersTyped, SnapshotTyped
    <3> QED BY <2>2, <3>4 DEF Opened, NoSnapshot
  <2>4. CASE ~CommitNew(t)
    BY <2>1, <2>2, <2>4 DEF Commit, CommitClosed, CommitFailure, CommitSame, Opened, NoSnapshot
  <2> QED BY <2>3, <2>4
<1>2. CASE FinishOpen
  <2>1. Len(got[Run]) = NumSources
    BY <1>2 DEF FinishOpen, LoadInv
  <2>2. Layers(Run) \in [Source -> Layer]
    BY <2>1, LayersTyped
  <2>3. Snapshot(1, Layers(Run)) # NoSnapshot
    BY <2>2, SnapshotTyped
  <2>4. current' = Snapshot(1, Layers(Run)) /\ ~Opened
    BY <1>2 DEF FinishOpen
  <2> QED BY <1>2, <2>3, <2>4 DEF Opened, NoSnapshot
<1>3. CASE ~FinishOpen /\ ~(\E t \in Thread : Commit(t))
  <2>1. current' = current
    <3>1. Environment => current' = current
      BY DEF Environment, Change, Notify, CancelOpenContext, CancelCall, AfterRootCancel
    <3>2. Opening => current' = current
      BY <1>3 DEF Opening, RegisterWatcher, FirstLoad, HoldOpen, RetryOpen, FailOpen, OpenFailed
    <3>3. Loop => current' = current
      BY DEF Loop, Debounce, DebounceExpires, LeaveLoop, StopWatcher, Shutdown
    <3>4. \A t \in Thread :
            \/ Load(t) \/ EnterReload(t) \/ WinGate(t) \/ GiveUpGate(t) \/ ReleaseGate(t)
            \/ (t \in Callers /\ CallReload(t))
            \/ (\E s \in Subscribers : Drain(t, s)) \/ Send(t) \/ FinishPublish(t)
            => current' = current
      BY DEF Load, BeginRead, EndRead, Bake, EnterReload, WinGate, GiveUpGate, ReleaseGate,
             CallReload, Drain, Send, FinishPublish
    <3>5. \A s \in Subscribers : Subscription(s) => current' = current
      BY DEF Subscription, Subscribe, CancelSubscription, Unsubscribe, Receive
    <3>6. \A c \in Closers : Closing(c) => current' = current
      BY DEF Closing, Close, CloseTakesGate, CloseReturns
    <3>7. UNCHANGED vars => current' = current
      BY DEF vars
    <3> QED BY <1>3, NextCases, <3>1, <3>2, <3>3, <3>4, <3>5, <3>6, <3>7
  <2> QED BY <1>3, <2>1 DEF Opened, NoSnapshot
<1> QED BY <1>1, <1>2, <1>3

\* A commit takes its thread to publish or release, and nobody else anywhere.
LEMMA CommitFrame ==
  ASSUME NEW t \in Thread, Commit(t)
  PROVE  /\ pc[t] = "built" /\ Opened
         /\ \E l \in {"publish", "release"} : pc' = [pc EXCEPT ![t] = l]
         /\ gate' = gate /\ closer' = closer
BY DEF Commit, CommitClosed, CommitFailure, CommitSame, CommitNew, Publish, NoPublish, Goto

-----------------------------------------------------------------------------
\* A thread's place and its load keep agreeing.
LEMMA NextLoadInv ==
  ASSUME TypeOK, LoadInv, Next
  PROVE  LoadInv'
<1> USE DEF loadVars, Goto, Label
<1>1. /\ pc \in [Thread -> Label] /\ got \in [Thread -> Seq(Reading)]
      /\ err \in [Thread -> Outcome]
  BY DEF TypeOK, ThreadTypeOK
<1>2. CASE Environment
  BY <1>2 DEF Environment, Change, Notify, CancelOpenContext, CancelCall, AfterRootCancel, LoadInv
<1>3. CASE Opening
  BY <1>1, <1>3 DEF Opening, RegisterWatcher, FirstLoad, HoldOpen, RetryOpen, FailOpen,
       FinishOpen, OpenFailed, StartLoad, LoadInv
<1>4. CASE Loop
  BY <1>1, <1>4 DEF Loop, Debounce, DebounceExpires, LeaveLoop, StopWatcher, Shutdown, LoadInv
<1>5. ASSUME NEW t \in Thread, Load(t) PROVE LoadInv'
  <2>1. CASE BeginRead(t)
    BY <1>1, <2>1 DEF BeginRead, LoadInv
  <2>2. CASE EndRead(t)
    <3>1. CASE got' = got
      BY <1>1, <2>2, <3>1 DEF EndRead, LoadInv
    <3>2. CASE got' # got
      <4> DEFINE r == store[Len(got[t]) + 1]
      <4>1. /\ got' = [got EXCEPT ![t] = Append(@, r)]
            /\ pc' = [pc EXCEPT ![t] = "load"] /\ err' = err /\ pc[t] = "read"
        BY <2>2, <3>2 DEF EndRead
      <4> HIDE DEF r
      <4>2. Len(got'[t]) = Len(got[t]) + 1 /\ Len(got[t]) \in Nat
        BY <1>1, <4>1
      <4> QED BY <1>1, <4>1, <4>2 DEF LoadInv
    <3> QED BY <3>1, <3>2
  <2>3. CASE Bake(t)
    BY <1>1, <2>3 DEF Bake, LoadInv
  <2> QED BY <1>5, <2>1, <2>2, <2>3 DEF Load
<1>6. ASSUME NEW t \in Thread, Commit(t) PROVE LoadInv'
  BY <1>1, <1>6 DEF Commit, CommitClosed, CommitFailure, CommitSame, CommitNew, Publish,
       NoPublish, LoadInv
<1>7. ASSUME NEW t \in Thread, EnterReload(t) \/ WinGate(t) \/ GiveUpGate(t) \/ ReleaseGate(t)
      PROVE LoadInv'
  BY <1>1, <1>7 DEF EnterReload, WinGate, GiveUpGate, ReleaseGate, Leave, Home, StartLoad, LoadInv
<1>8. ASSUME NEW t \in Callers, CallReload(t) PROVE LoadInv'
  BY <1>1, <1>8 DEF CallReload, LoadInv
<1>9. ASSUME NEW t \in Thread,
             (\E s \in Subscribers : Drain(t, s)) \/ Send(t) \/ FinishPublish(t)
      PROVE LoadInv'
  BY <1>1, <1>9 DEF Drain, Send, FinishPublish, LoadInv
<1>10. ASSUME NEW s \in Subscribers, Subscription(s) PROVE LoadInv'
  BY <1>10 DEF Subscription, Subscribe, CancelSubscription, Unsubscribe, Receive, LoadInv
<1>11. ASSUME NEW c \in Closers, Closing(c) PROVE LoadInv'
  BY <1>11 DEF Closing, Close, CloseTakesGate, CloseReturns, LoadInv
<1>12. CASE UNCHANGED vars
  BY <1>12 DEF vars, LoadInv
<1> QED BY NextCases, <1>2, <1>3, <1>4, <1>5, <1>6, <1>7, <1>8, <1>9, <1>10, <1>11, <1>12

\* Callers stay out until Open has succeeded, and Open is never re-entered.
LEMMA NextPhaseInv ==
  ASSUME TypeOK, LoadInv, PhaseInv, Next
  PROVE  PhaseInv'
<1> USE DEF Goto
<1>1. pc \in [Thread -> Label]
  BY DEF TypeOK, ThreadTypeOK
<1>2. CASE FinishOpen
  <2>1. pc' = [pc EXCEPT ![Run] = "select"] /\ ~Opened
    BY <1>2 DEF FinishOpen
  <2>2. Opened'
    BY <1>2, OpenedForGood
  <2> QED BY <1>1, <2>1, <2>2 DEF PhaseInv
<1> DEFINE Pcs == /\ pc'[Run] # "idle"
                  /\ \A t \in Callers :
                       pc'[t] \notin {"watch", "hold", "select", "debounce", "stop", "done"}
                  /\ Opened => pc'[Run] \notin {"watch", "hold"}
                  /\ ~Opened =>
                       /\ pc'[Run] \in {"watch", "hold", "load", "read", "built", "stop", "done"}
                       /\ \A t \in Callers : pc'[t] = "idle"
<1>3. CASE ~FinishOpen
  <2>1. Environment => Pcs
    BY DEF Environment, Change, Notify, CancelOpenContext, CancelCall, AfterRootCancel, PhaseInv
  <2>2. Opening => Pcs
    BY <1>1, <1>3 DEF Opening, RegisterWatcher, FirstLoad, HoldOpen, RetryOpen, FailOpen,
         OpenFailed, StartLoad, PhaseInv
  <2>3. Loop => Pcs
    BY <1>1 DEF Loop, Debounce, DebounceExpires, LeaveLoop, StopWatcher, Shutdown, PhaseInv
  <2>4. \A t \in Thread : Load(t) => Pcs
    BY <1>1 DEF Load, BeginRead, EndRead, Bake, PhaseInv
  <2>5. \A t \in Thread : Commit(t) => Pcs
    BY <1>1, CommitFrame DEF PhaseInv
  <2>6. \A t \in Thread :
          EnterReload(t) \/ WinGate(t) \/ GiveUpGate(t) \/ ReleaseGate(t) => Pcs
    BY <1>1 DEF EnterReload, WinGate, GiveUpGate, ReleaseGate, Leave, Home, StartLoad, PhaseInv
  <2>7. \A t \in Callers : CallReload(t) => Pcs
    BY <1>1 DEF CallReload, PhaseInv
  <2>8. \A t \in Thread :
          (\E s \in Subscribers : Drain(t, s)) \/ Send(t) \/ FinishPublish(t) => Pcs
    BY <1>1 DEF Drain, Send, FinishPublish, PhaseInv
  <2>9. \A s \in Subscribers : Subscription(s) => Pcs
    BY DEF Subscription, Subscribe, CancelSubscription, Unsubscribe, Receive, PhaseInv
  <2>10. \A c \in Closers : Closing(c) => Pcs
    BY DEF Closing, Close, CloseTakesGate, CloseReturns, PhaseInv
  <2>11. UNCHANGED vars => Pcs
    BY DEF vars, PhaseInv
  <2>12. Pcs
    BY NextCases, <2>1, <2>2, <2>3, <2>4, <2>5, <2>6, <2>7, <2>8, <2>9, <2>10, <2>11
  <2>13. Opened' <=> Opened
    BY OpenedForGood, <1>3
  <2> QED BY <2>12, <2>13 DEF PhaseInv
<1> QED BY <1>2, <1>3

\* The gate stays with the thread that rebuilds, or the Close that took it.
LEMMA NextGateInv ==
  ASSUME TypeOK, LoadInv, PhaseInv, GateInv, Next
  PROVE  GateInv'
<1> USE DEF Goto, Rebuilding
<1>1. pc \in [Thread -> Label] /\ closer \in [Closers -> {"idle", "wait", "gate", "returned"}]
  BY DEF TypeOK, ThreadTypeOK, CallTypeOK
<1>2. CASE FinishOpen
  BY <1>1, <1>2 DEF FinishOpen, GateInv, PhaseInv, callVars, publishVars
<1> DEFINE Holds == /\ \A t \in Thread : pc'[t] \in Rebuilding => gate' = t \/ (t = Run /\ ~Opened)
                    /\ \A c \in Closers : closer'[c] = "gate" => gate' = c
<1>3. CASE ~FinishOpen
  <2>1. Environment => Holds
    BY DEF Environment, Change, Notify, CancelOpenContext, CancelCall, AfterRootCancel, GateInv
  <2>2. Opening => Holds
    BY <1>1, <1>3 DEF Opening, RegisterWatcher, FirstLoad, HoldOpen, RetryOpen, FailOpen,
         OpenFailed, StartLoad, PhaseInv, GateInv
  <2>3. Loop => Holds
    BY <1>1 DEF Loop, Debounce, DebounceExpires, LeaveLoop, StopWatcher, Shutdown, GateInv
  <2>4. \A t \in Thread : Load(t) => Holds
    BY <1>1 DEF Load, BeginRead, EndRead, Bake, GateInv
  <2>5. \A t \in Thread : Commit(t) => Holds
    BY <1>1, CommitFrame DEF GateInv
  <2>6. \A t \in Thread :
          EnterReload(t) \/ WinGate(t) \/ GiveUpGate(t) \/ ReleaseGate(t) => Holds
    BY <1>1 DEF EnterReload, WinGate, GiveUpGate, ReleaseGate, Leave, Home, StartLoad,
         PhaseInv, GateInv
  <2>7. \A t \in Callers : CallReload(t) => Holds
    BY <1>1 DEF CallReload, GateInv
  <2>8. \A t \in Thread :
          (\E s \in Subscribers : Drain(t, s)) \/ Send(t) \/ FinishPublish(t) => Holds
    BY <1>1 DEF Drain, Send, FinishPublish, GateInv
  <2>9. \A s \in Subscribers : Subscription(s) => Holds
    BY DEF Subscription, Subscribe, CancelSubscription, Unsubscribe, Receive, GateInv
  <2>10. \A c \in Closers : Closing(c) => Holds
    BY <1>1 DEF Closing, Close, CloseTakesGate, CloseReturns, PhaseInv, GateInv
  <2>11. UNCHANGED vars => Holds
    BY DEF vars, GateInv
  <2>12. Holds
    BY NextCases, <2>1, <2>2, <2>3, <2>4, <2>5, <2>6, <2>7, <2>8, <2>9, <2>10, <2>11
  <2>13. Opened' <=> Opened
    BY OpenedForGood, <1>3
  <2> QED BY <2>12, <2>13 DEF GateInv
<1> QED BY <1>2, <1>3

\* Only the thread that publishes holds mu, and what it drained stays drained.
LEMMA NextPublishInv ==
  ASSUME TypeOK, LoadInv, PhaseInv, GateInv, PublishInv, Next
  PROVE  PublishInv'
<1> USE DEF Goto
<1>1. /\ pc \in [Thread -> Label] /\ mu \in Thread \cup {Nobody}
      /\ chan \in [Subscribers -> {"none", "open", "closed"}]
      /\ buf \in [Subscribers -> Seq(EventType)]
      /\ draining \in Subscribers \cup {Nobody} /\ targets \subseteq Subscribers
  BY DEF TypeOK, ThreadTypeOK, SubscriberTypeOK
<1>2. Environment => PublishInv'
  BY DEF Environment, Change, Notify, CancelOpenContext, CancelCall, AfterRootCancel,
         PublishInv, Registered, publishVars, subscriberVars
<1>3. Opening => PublishInv'
  BY <1>1 DEF Opening, RegisterWatcher, FirstLoad, HoldOpen, RetryOpen, FailOpen, FinishOpen,
         OpenFailed, StartLoad, PublishInv, Registered, publishVars, subscriberVars
<1>4. Loop => PublishInv'
  BY <1>1 DEF Loop, Debounce, DebounceExpires, LeaveLoop, StopWatcher, Shutdown,
         PublishInv, Registered, publishVars, subscriberVars
<1>5. \A t \in Thread : Load(t) => PublishInv'
  BY <1>1 DEF Load, BeginRead, EndRead, Bake, PublishInv, Registered, publishVars, subscriberVars
<1>6. \A t \in Callers : CallReload(t) => PublishInv'
  BY <1>1 DEF CallReload, PublishInv, Registered, publishVars, subscriberVars
<1>7. \A t \in Thread :
        EnterReload(t) \/ WinGate(t) \/ GiveUpGate(t) \/ ReleaseGate(t) => PublishInv'
  BY <1>1 DEF EnterReload, WinGate, GiveUpGate, ReleaseGate, Leave, Home, StartLoad,
         PublishInv, Registered, publishVars, subscriberVars
<1>8. ASSUME NEW t \in Thread, Commit(t) PROVE PublishInv'
  <2>1. /\ mu = Nobody /\ pc[t] = "built" /\ targets = {} /\ draining = Nobody
        /\ chan' = chan /\ buf' = buf /\ draining' = draining
    BY <1>8 DEF Commit, PublishInv, subscriberVars
  <2>2. CASE NoPublish(t)
    BY <1>1, <2>1, <2>2 DEF NoPublish, PublishInv
  <2>3. CASE \E e \in EventType : Publish(t, e)
    <3>1. PICK e \in EventType : Publish(t, e)
      BY <2>3
    <3>2. e # NoEvent
      BY DEF EventType, SnapshotType, NoEvent
    <3> QED BY <1>1, <2>1, <3>1, <3>2 DEF Publish, PublishInv, Registered
  <2>4. current \in SnapshotType /\ current.version + 1 \in Nat \ {0}
    BY <1>8, OpenedTyped DEF Commit
  <2>5. NoPublish(t) \/ \E e \in EventType : Publish(t, e)
    <3>1. Event(current, TRUE, {}) \in EventType /\ Event(current, FALSE, {}) \in EventType
      BY <2>4, EventTyped
    <3>2. CommitNew(t) => \E e \in EventType : Publish(t, e)
      <4> SUFFICES ASSUME CommitNew(t) PROVE \E e \in EventType : Publish(t, e)
        OBVIOUS
      <4> DEFINE next == Snapshot(current.version + 1, Layers(t))
      <4>1. Len(got[t]) = NumSources
        BY <1>8 DEF Commit, CommitNew, LoadInv
      <4>2. next \in SnapshotType
        BY <4>1, <2>4, LayersTyped, SnapshotTyped
      <4>3. Publish(t, Event(next, FALSE, ChangedPaths(current, next)))
        BY DEF CommitNew
      <4>4. ChangedPaths(current, next) \in SUBSET Path
        BY DEF ChangedPaths
      <4> HIDE DEF next
      <4>5. Event(next, FALSE, ChangedPaths(current, next)) \in EventType
        BY <4>2, <4>4, EventTyped
      <4> QED BY <4>3, <4>5
    <3> QED BY <1>8, <3>1, <3>2 DEF Commit, CommitClosed, CommitFailure, CommitSame
  <2> QED BY <2>2, <2>3, <2>5
<1>9. ASSUME NEW t \in Thread, NEW s \in Subscribers, Drain(t, s) PROVE PublishInv'
  BY <1>1, <1>9 DEF Drain, PublishInv, Registered
<1>10. ASSUME NEW t \in Thread, Send(t) PROVE PublishInv'
  BY <1>1, <1>10 DEF Send, PublishInv, Registered
<1>11. ASSUME NEW t \in Thread, FinishPublish(t) PROVE PublishInv'
  BY <1>1, <1>11 DEF FinishPublish, PublishInv, Registered, subscriberVars
<1>12. ASSUME NEW s \in Subscribers, Subscription(s) PROVE PublishInv'
  BY <1>1, <1>12 DEF Subscription, Subscribe, CancelSubscription, Unsubscribe, Receive,
         PublishInv, Registered, publishVars
<1>13. ASSUME NEW c \in Closers, Closing(c) PROVE PublishInv'
  BY <1>13 DEF Closing, Close, CloseTakesGate, CloseReturns, PublishInv, Registered,
         publishVars, subscriberVars
<1>14. UNCHANGED vars => PublishInv'
  BY DEF vars, publishVars, subscriberVars, PublishInv, Registered
<1> QED BY NextCases, <1>2, <1>3, <1>4, <1>5, <1>6, <1>7, <1>8, <1>9, <1>10, <1>11, <1>12,
           <1>13, <1>14

\* GateInv and PhaseInv together exclude two rebuilds at a time.
LEMMA OneAtATime ==
  ASSUME PhaseInv, GateInv
  PROVE  OneRebuildAtATime
BY DEF PhaseInv, GateInv, OneRebuildAtATime, Rebuilding

\* Stopping watchers and closing channels is never undone.
LEMMA NextShutdownInv ==
  ASSUME TypeOK, LoadInv, PhaseInv, PublishInv, ShutdownInv, Next
  PROVE  ShutdownInv'
<1> USE DEF Goto
<1>1. /\ pc \in [Thread -> Label] /\ stops \in Seq(Watched)
      /\ chan \in [Subscribers -> {"none", "open", "closed"}]
  BY DEF TypeOK, SourceTypeOK, ThreadTypeOK, SubscriberTypeOK
<1>2. (Opened => Opened') /\ (~Opened => (Opened' <=> FinishOpen))
  BY OpenedForGood
<1>3. Environment => ShutdownInv'
  BY <1>2 DEF Environment, Change, Notify, CancelOpenContext, CancelCall, AfterRootCancel,
         ShutdownInv, Registered, publishVars, subscriberVars, stateVars, sourceVars
<1>4. ASSUME Opening PROVE ShutdownInv'
  <2>1. CASE RegisterWatcher
    <3>1. \/ stops' = stops
          \/ \E w \in Watched : stops' = Append(stops, w)
      <4>1. Unwatched # {} => Min(Unwatched) \in Watched
        BY MinIsLeast DEF Unwatched
      <4> QED BY <2>1, <4>1 DEF RegisterWatcher
    <3>2. ToSet(stops) \subseteq ToSet(stops')
      <4>1. ASSUME NEW w \in Watched, stops' = Append(stops, w)
            PROVE ToSet(stops) \subseteq ToSet(stops')
        BY <1>1, <4>1 DEF ToSet
      <4> QED BY <3>1, <4>1
    <3>3. pend' = pend /\ pc[Run] = "watch" /\ (rootDone => rootDone')
          /\ (pc' = pc \/ (rootDone' /\ pc' = [pc EXCEPT ![Run] = "stop"]))
          /\ chan' = chan /\ closed' = closed /\ mu' = mu
      BY <2>1 DEF RegisterWatcher, sourceVars, stateVars, publishVars, subscriberVars
    <3> QED BY <1>1, <1>2, <3>2, <3>3 DEF ShutdownInv, Registered
  <2>2. CASE ~RegisterWatcher
    BY <1>1, <1>2, <1>4, <2>2 DEF Opening, FirstLoad, HoldOpen, RetryOpen, FailOpen,
       FinishOpen, OpenFailed, StartLoad, ShutdownInv, Registered,
       publishVars, subscriberVars, stateVars, sourceVars
  <2> QED BY <2>1, <2>2
<1>5. ASSUME Loop PROVE ShutdownInv'
  <2>1. CASE StopWatcher
    <3>1. /\ stops # <<>> /\ stops' = Front(stops) /\ pend' = pend \ {Last(stops)}
          /\ pc[Run] = "stop" /\ pc' = pc /\ rootDone' = rootDone
          /\ chan' = chan /\ closed' = closed /\ mu' = mu
      BY <2>1 DEF StopWatcher, stateVars, publishVars, subscriberVars
    <3>2. ToSet(stops) \subseteq ToSet(Front(stops)) \cup {Last(stops)}
      <4>1. ASSUME NEW i \in DOMAIN stops
            PROVE stops[i] = Last(stops) \/ stops[i] \in ToSet(Front(stops))
        <5>1. CASE i = Len(stops)
          BY <5>1 DEF Last
        <5>2. CASE i # Len(stops)
          <6>1. i \in 1..(Len(stops) - 1) /\ Len(stops) \in Nat
            BY <1>1, <5>2
          <6>2. DOMAIN Front(stops) = 1..(Len(stops) - 1) /\ Front(stops)[i] = stops[i]
            BY <1>1, <6>1 DEF Front
          <6> QED BY <6>1, <6>2 DEF ToSet
        <5> QED BY <5>1, <5>2
      <4> QED BY <4>1 DEF ToSet
    <3> QED BY <1>1, <1>2, <3>1, <3>2 DEF ShutdownInv, Registered
  <2>2. CASE Shutdown
    BY <1>1, <1>2, <2>2 DEF Shutdown, ShutdownInv, Registered, sourceVars, publishVars
  <2>3. CASE Debounce \/ DebounceExpires \/ LeaveLoop
    BY <1>1, <1>2, <2>3 DEF Debounce, DebounceExpires, LeaveLoop, ShutdownInv, Registered,
         publishVars, subscriberVars, stateVars, sourceVars
  <2> QED BY <1>5, <2>1, <2>2, <2>3 DEF Loop
<1>6. \A t \in Thread : Load(t) => ShutdownInv'
  BY <1>1, <1>2 DEF Load, BeginRead, EndRead, Bake, ShutdownInv, Registered,
       publishVars, subscriberVars, stateVars, sourceVars
<1>7. \A t \in Callers : CallReload(t) => ShutdownInv'
  BY <1>1, <1>2 DEF CallReload, ShutdownInv, Registered,
       publishVars, subscriberVars, stateVars, sourceVars
<1>8. \A t \in Thread :
        EnterReload(t) \/ WinGate(t) \/ GiveUpGate(t) \/ ReleaseGate(t) => ShutdownInv'
  BY <1>1, <1>2 DEF EnterReload, WinGate, GiveUpGate, ReleaseGate, Leave, Home, StartLoad,
       ShutdownInv, Registered, publishVars, subscriberVars, stateVars, sourceVars
<1>9. ASSUME NEW t \in Thread, Commit(t) PROVE ShutdownInv'
  <2>1. /\ chan' = chan /\ pend' = pend /\ stops' = stops /\ rootDone' = rootDone
        /\ closed' = closed
    BY <1>9 DEF Commit, CommitClosed, CommitFailure, CommitSame, CommitNew, sourceVars,
       subscriberVars, stateVars
  <2>2. \E l \in {"publish", "release"} : pc' = [pc EXCEPT ![t] = l]
    BY <1>9 DEF Commit, CommitClosed, CommitFailure, CommitSame, CommitNew, Publish, NoPublish
  <2>3. mu' = mu \/ ~closed
    BY <1>9 DEF Commit, CommitClosed, CommitFailure, CommitSame, CommitNew, NoPublish
  <2>4. /\ pc'[Run] \in {"stop", "done"} => pc[Run] \in {"stop", "done"}
        /\ pc'[Run] = "done" => pc[Run] = "done"
    BY <1>1, <2>2
  <2> QED BY <1>2, <2>1, <2>3, <2>4 DEF ShutdownInv, Registered
<1>10. \A t \in Thread :
         (\E s \in Subscribers : Drain(t, s)) \/ Send(t) \/ FinishPublish(t) => ShutdownInv'
  BY <1>1, <1>2 DEF Drain, Send, FinishPublish, ShutdownInv, Registered,
       subscriberVars, stateVars, sourceVars
<1>11. ASSUME NEW s \in Subscribers, Subscription(s) PROVE ShutdownInv'
  <2>1. /\ pend' = pend /\ stops' = stops /\ rootDone' = rootDone /\ closed' = closed
        /\ mu' = mu /\ pc' = pc
    BY <1>11 DEF Subscription, Subscribe, CancelSubscription, Unsubscribe, Receive,
       publishVars, stateVars, sourceVars
  <2>2. Registered' \subseteq Registered \/ (Opened /\ ~rootDone)
    BY <1>1, <1>11 DEF Subscription, Subscribe, CancelSubscription, Unsubscribe, Receive,
       Registered
  <2> QED BY <1>2, <2>1, <2>2 DEF ShutdownInv
<1>12. \A c \in Closers : Closing(c) => ShutdownInv'
  BY <1>1, <1>2 DEF Closing, Close, CloseTakesGate, CloseReturns, ShutdownInv, Registered,
       publishVars, subscriberVars, stateVars, sourceVars
<1>13. UNCHANGED vars => ShutdownInv'
  BY <1>2 DEF vars, publishVars, subscriberVars, stateVars, sourceVars, ShutdownInv, Registered
<1> QED BY NextCases, <1>3, <1>4, <1>5, <1>6, <1>7, <1>8, <1>9, <1>10, <1>11, <1>12, <1>13

\* Every step keeps the channels that publish is done with on the current snapshot.
LEMMA NextKnowsInv ==
  ASSUME TypeOK, LoadInv, PhaseInv, PublishInv, ShutdownInv, KnowsInv, Next
  PROVE  KnowsInv'
<1>1. /\ mu \in Thread \cup {Nobody}
      /\ chan \in [Subscribers -> {"none", "open", "closed"}]
      /\ buf \in [Subscribers -> Seq(EventType)]
      /\ seen \in [Subscribers -> EventType \cup {NoEvent}]
      /\ draining \in Subscribers \cup {Nobody} /\ targets \subseteq Subscribers
  BY DEF TypeOK, ThreadTypeOK, SubscriberTypeOK
\* The steps that leave alone what KnowsInv speaks of.
<1> DEFINE Same == UNCHANGED <<mu, message, current, failed, chan, targets, buf, seen>>
<1>2. Same => KnowsInv'
  BY DEF KnowsInv, Registered, Latest
<1>3. Environment => Same
  BY DEF Environment, Change, Notify, CancelOpenContext, CancelCall, AfterRootCancel,
         publishVars, subscriberVars, stateVars
<1>4. Opening /\ ~FinishOpen => Same
  BY DEF Opening, RegisterWatcher, FirstLoad, HoldOpen, RetryOpen, FailOpen, OpenFailed,
         publishVars, subscriberVars, stateVars
<1>5. ASSUME FinishOpen PROVE KnowsInv'
  <2>1. /\ Registered = {} /\ chan' = chan /\ mu' = mu
        /\ \A t \in Thread : pc[t] # "publish"
    BY <1>5 DEF FinishOpen, ShutdownInv, PhaseInv, subscriberVars, publishVars
  <2>2. Registered' = {} /\ mu' = Nobody
    BY <1>1, <2>1 DEF Registered, PublishInv
  <2> QED BY <2>2 DEF KnowsInv
<1>6. Debounce \/ DebounceExpires \/ LeaveLoop \/ StopWatcher => Same
  BY DEF Debounce, DebounceExpires, LeaveLoop, StopWatcher, publishVars, subscriberVars, stateVars
<1>7. ASSUME Shutdown PROVE KnowsInv'
  <2>1. Registered' = {} /\ mu' = Nobody
    BY <1>1, <1>7 DEF Shutdown, Registered, publishVars
  <2> QED BY <2>1 DEF KnowsInv
<1>8. \A t \in Thread : Load(t) \/ EnterReload(t) \/ WinGate(t) \/ GiveUpGate(t) \/ ReleaseGate(t)
                          \/ (t \in Callers /\ CallReload(t)) => Same
  BY DEF Load, BeginRead, EndRead, Bake, EnterReload, WinGate, GiveUpGate, ReleaseGate,
         CallReload, publishVars, subscriberVars, stateVars
<1>9. ASSUME NEW t \in Thread, Commit(t) PROVE KnowsInv'
  <2>1. mu = Nobody /\ targets = {} /\ UNCHANGED <<chan, buf, seen>>
    BY <1>9 DEF Commit, PublishInv, subscriberVars
  <2>2. CASE \E e \in {message'} :
               Publish(t, e) /\ e.snapshot = current' /\ (e.err => failed')
    <3>1. targets' = Registered' /\ message'.snapshot = current' /\ (message'.err => failed')
      BY <2>1, <2>2 DEF Publish, Registered
    <3> QED BY <3>1 DEF KnowsInv
  <2>3. CASE NoPublish(t) /\ current' = current /\ failed' = failed
    BY <2>1, <2>3 DEF NoPublish, KnowsInv, Registered, Latest
  <2>4. CASE CommitClosed(t)
    BY <2>3, <2>4 DEF CommitClosed, stateVars
  <2>5. CASE CommitFailure(t)
    <3>1. message' = Event(current, TRUE, {}) /\ current' = current /\ failed' = TRUE
          /\ Publish(t, message')
      BY <2>5 DEF CommitFailure, Publish
    <3> QED BY <2>2, <3>1 DEF Event
  <2>6. CASE CommitSame(t)
    <3>1. failed => Publish(t, message') /\ message' = Event(current, FALSE, {})
      BY <2>6 DEF CommitSame, Publish
    <3>2. current' = current /\ failed' = FALSE
      BY <2>6 DEF CommitSame
    <3>3. ~failed => NoPublish(t)
      BY <2>6 DEF CommitSame
    <3>4. failed \in BOOLEAN
      BY DEF TypeOK, StateTypeOK
    <3>5. failed => message'.snapshot = current' /\ (message'.err => failed')
      BY <3>1, <3>2 DEF Event
    <3> QED BY <2>2, <2>3, <3>1, <3>2, <3>3, <3>4, <3>5
  <2>7. CASE CommitNew(t)
    <3>1. /\ message' = Event(current', FALSE, ChangedPaths(current, current'))
          /\ Publish(t, message')
      BY <2>7 DEF CommitNew, Publish
    <3> QED BY <2>2, <3>1 DEF Event
  <2> QED BY <1>9, <2>4, <2>5, <2>6, <2>7 DEF Commit
<1>10. ASSUME NEW t \in Thread, NEW s \in Subscribers, Drain(t, s) PROVE KnowsInv'
  <2>1. /\ s \in targets /\ buf' = [buf EXCEPT ![s] = <<>>]
        /\ UNCHANGED <<mu, message, current, failed, chan, targets, seen>>
    BY <1>10 DEF Drain, stateVars
  <2>2. \A x \in Registered' \ targets' : x \in Registered \ targets /\ Latest(x)' = Latest(x)
    BY <1>1, <2>1 DEF Registered, Latest
  <2> QED BY <2>1, <2>2 DEF KnowsInv
<1>11. ASSUME NEW t \in Thread, Send(t) PROVE KnowsInv'
  <2>1. PICK d \in targets :
          /\ buf' = [buf EXCEPT ![d] = <<message>>] /\ targets' = targets \ {d}
          /\ UNCHANGED <<mu, message, current, failed, chan, seen>>
    BY <1>11 DEF Send, PublishInv, stateVars
  <2>2. mu # Nobody
    BY <2>1 DEF PublishInv
  <2>3. Latest(d)' = message
    BY <1>1, <2>1 DEF Latest
  <2>4. \A x \in Registered' \ targets' :
          x = d \/ (x \in Registered \ targets /\ Latest(x)' = Latest(x))
    BY <1>1, <2>1 DEF Registered, Latest
  <2> QED BY <2>1, <2>2, <2>3, <2>4 DEF KnowsInv
<1>12. ASSUME NEW t \in Thread, FinishPublish(t) PROVE KnowsInv'
  BY <1>12 DEF FinishPublish, KnowsInv, Registered, Latest, stateVars, subscriberVars
<1>13. ASSUME NEW s \in Subscribers, Subscribe(s) PROVE KnowsInv'
  <2>1. UNCHANGED <<mu, message, current, failed, targets, seen>> /\ mu = Nobody
    BY <1>13 DEF Subscribe, stateVars, publishVars
  <2>2. \A x \in Registered' \ targets' :
          \/ x \in Registered \ targets /\ Latest(x)' = Latest(x)
          \/ Latest(x)' = Event(current, FALSE, {})
    <3>1. CASE chan' = [chan EXCEPT ![s] = "closed"] /\ buf' = buf
      BY <1>1, <2>1, <3>1 DEF Registered, Latest
    <3>2. CASE /\ chan' = [chan EXCEPT ![s] = "open"]
               /\ buf' = [buf EXCEPT ![s] = <<Event(current, FALSE, {})>>]
      <4> DEFINE e == Event(current, FALSE, {})
      <4>1. buf' = [buf EXCEPT ![s] = <<e>>]
        BY <3>2
      <4> HIDE DEF e
      <4>2. Latest(s)' = e
        BY <1>1, <4>1 DEF Latest
      <4>3. \A x \in Registered' \ targets' :
              x = s \/ (x \in Registered \ targets /\ Latest(x)' = Latest(x))
        BY <1>1, <2>1, <3>2, <4>1 DEF Registered, Latest
      <4> QED BY <4>2, <4>3 DEF e
    <3> QED BY <1>13, <3>1, <3>2 DEF Subscribe
  <2>3. Event(current, FALSE, {}).snapshot = current /\ Event(current, FALSE, {}).err = FALSE
    BY DEF Event
  <2> QED BY <2>1, <2>2, <2>3 DEF KnowsInv
<1>14. ASSUME NEW s \in Subscribers, CancelSubscription(s) \/ Unsubscribe(s) PROVE KnowsInv'
  <2>1. UNCHANGED <<mu, message, current, failed, targets, buf, seen>>
    BY <1>14 DEF CancelSubscription, Unsubscribe, stateVars, publishVars
  <2>2. \A x \in Registered' \ targets' : x \in Registered \ targets /\ Latest(x)' = Latest(x)
    BY <1>1, <1>14, <2>1 DEF CancelSubscription, Unsubscribe, Registered, Latest
  <2> QED BY <2>1, <2>2 DEF KnowsInv
<1>15. ASSUME NEW s \in Subscribers, Receive(s) PROVE KnowsInv'
  <2>1. /\ UNCHANGED <<mu, message, current, failed, targets, chan>> /\ buf[s] # <<>>
        /\ seen' = [seen EXCEPT ![s] = Head(buf[s])] /\ buf' = [buf EXCEPT ![s] = <<>>]
    BY <1>15 DEF Receive, stateVars, publishVars
  <2>2. \A x \in Registered' \ targets' : x \in Registered \ targets /\ Latest(x)' = Latest(x)
    BY <1>1, <2>1 DEF Registered, Latest
  <2> QED BY <2>1, <2>2 DEF KnowsInv
<1>16. \A c \in Closers : Closing(c) => Same
  BY DEF Closing, Close, CloseTakesGate, CloseReturns, publishVars, subscriberVars, stateVars
<1>17. UNCHANGED vars => Same
  BY DEF vars, publishVars, subscriberVars, stateVars
<1> HIDE DEF Same
<1> QED BY NextCases, <1>2, <1>3, <1>4, <1>5, <1>6, <1>7, <1>8, <1>9, <1>10, <1>11, <1>12,
           <1>13, <1>14, <1>15, <1>16, <1>17 DEF Loop, Subscription

\* Accepting a build moves every source forward: the build is at least as new.
LEMMA AcceptMovesForward ==
  ASSUME TypeOK, LoadInv, FreshInv, Next
  PROVE  \A s \in Source : accepted[s] <= accepted'[s]
<1>1. accepted \in [Source -> 0..MaxChanges]
  BY DEF TypeOK, StateTypeOK
<1>2. CASE FinishOpen
  <2>1. /\ pc[Run] = "built" /\ Len(got[Run]) = NumSources
        /\ accepted' = [s \in Source |-> got[Run][s].gen]
    BY <1>2 DEF FinishOpen, LoadInv
  <2> QED BY <1>2, <2>1 DEF FreshInv
<1>3. ASSUME NEW t \in Thread, Commit(t), CommitSame(t) \/ CommitNew(t)
      PROVE  \A s \in Source : accepted[s] <= accepted'[s]
  <2>1. /\ pc[t] = "built" /\ Len(got[t]) = NumSources
        /\ accepted' = [s \in Source |-> got[t][s].gen]
    BY <1>3 DEF Commit, CommitSame, CommitNew, Accept, LoadInv
  <2> QED BY <2>1 DEF FreshInv
<1>4. ASSUME NEW t \in Thread, Commit(t), CommitClosed(t) \/ CommitFailure(t)
      PROVE  accepted' = accepted
  BY <1>4 DEF CommitClosed, CommitFailure, stateVars
<1>5. Environment => accepted' = accepted
  BY DEF Environment, Change, Notify, CancelOpenContext, CancelCall, AfterRootCancel, stateVars
<1>6. Opening /\ ~FinishOpen => accepted' = accepted
  BY DEF Opening, RegisterWatcher, FirstLoad, HoldOpen, RetryOpen, FailOpen, OpenFailed, stateVars
<1>7. Loop => accepted' = accepted
  BY DEF Loop, Debounce, DebounceExpires, LeaveLoop, StopWatcher, Shutdown, stateVars
<1>8. \A t \in Thread :
        \/ Load(t) \/ EnterReload(t) \/ WinGate(t) \/ GiveUpGate(t) \/ ReleaseGate(t)
        \/ (t \in Callers /\ CallReload(t))
        \/ (\E s \in Subscribers : Drain(t, s)) \/ Send(t) \/ FinishPublish(t)
        => accepted' = accepted
  BY DEF Load, BeginRead, EndRead, Bake, EnterReload, WinGate, GiveUpGate, ReleaseGate,
         CallReload, Drain, Send, FinishPublish, stateVars
<1>9. \A s \in Subscribers : Subscription(s) => accepted' = accepted
  BY DEF Subscription, Subscribe, CancelSubscription, Unsubscribe, Receive, stateVars
<1>10. \A c \in Closers : Closing(c) => accepted' = accepted
  BY DEF Closing, Close, CloseTakesGate, CloseReturns, stateVars
<1>11. UNCHANGED vars => accepted' = accepted
  BY DEF vars, stateVars
<1>12. CASE accepted' = accepted
  BY <1>1, <1>12
<1>13. CASE \E t \in Thread : Commit(t)
  BY <1>3, <1>4, <1>12, <1>13 DEF Commit
<1> QED BY NextCases, <1>2, <1>5, <1>6, <1>7, <1>8, <1>9, <1>10, <1>11, <1>12, <1>13

\* Generations are natural numbers, those of a load included.
LEMMA GensTyped ==
  ASSUME TypeOK, NEW s \in Source
  PROVE  /\ store[s].gen \in Nat /\ accepted[s] \in Nat
         /\ \A t \in Callers : floor[t][s] \in Nat
         /\ \A t \in Thread : s <= Len(got[t]) => got[t][s] \in Reading /\ got[t][s].gen \in Nat
<1>1. store[s].gen \in Nat
  BY DEF TypeOK, SourceTypeOK
<1>2. accepted[s] \in Nat
  BY DEF TypeOK, StateTypeOK
<1>3. \A t \in Callers : floor[t][s] \in Nat
  BY DEF TypeOK, CallTypeOK
<1>4. ASSUME NEW t \in Thread, s <= Len(got[t])
      PROVE got[t][s] \in Reading /\ got[t][s].gen \in Nat
  <2>1. got[t] \in Seq(Reading)
    BY DEF TypeOK, ThreadTypeOK
  <2>2. got[t][s] \in Reading
    BY <2>1, <1>4
  <2> QED BY <2>2 DEF Reading
<1> QED BY <1>1, <1>2, <1>3, <1>4

\* What a load holds stays between what was accepted and what is stored.
LEMMA NextFreshInv ==
  ASSUME TypeOK, LoadInv, PhaseInv, GateInv, FreshInv, Next
  PROVE  FreshInv'
<1> USE DEF Goto, Label
<1>1. /\ pc \in [Thread -> Label] /\ got \in [Thread -> Seq(Reading)]
      /\ store \in [Source -> [gen : 0..MaxChanges, content : Layer \cup {Unreadable}]]
      /\ err \in [Thread -> Outcome]
      /\ accepted \in [Source -> 0..MaxChanges]
      /\ floor \in [Callers -> [Source -> 0..MaxChanges]]
  BY DEF TypeOK, SourceTypeOK, ThreadTypeOK, StateTypeOK, CallTypeOK
<1>2. OneRebuildAtATime
  BY OneAtATime
\* The steps that leave alone what FreshInv speaks of, or end a call.
<1> DEFINE Same == /\ UNCHANGED <<store, got, accepted, floor>>
                   /\ \A t \in Thread :
                        /\ pc'[t] \in {"load", "read", "built"} => pc[t] \in {"load", "read", "built"}
                        /\ pc'[t] \in {"publish", "release"} =>
                             pc[t] \in {"publish", "release"} /\ err'[t] = err[t]
<1>3. Same => FreshInv'
  BY DEF FreshInv, ReloadSeesPriorWrites
<1>4. ASSUME NEW s \in Source, Change(s) PROVE FreshInv'
  <2>1. /\ \A x \in Source : store[x].gen <= store'[x].gen /\ store[x].gen \in Nat /\ store'[x].gen \in Nat
        /\ UNCHANGED <<pc, got, err, accepted, floor>>
    BY <1>1, <1>4 DEF Change, loadVars, stateVars, callVars
  <2>2. \A x \in Source : accepted'[x] <= store'[x].gen
    <3> TAKE x \in Source
    <3>1. accepted[x] <= store[x].gen
      BY DEF FreshInv
    <3>2. accepted[x] \in Nat
      BY GensTyped
    <3> QED BY <2>1, <3>1, <3>2
  <2>3. \A t \in Callers, x \in Source : floor'[t][x] <= store'[x].gen
    <3> TAKE t \in Callers, x \in Source
    <3>1. floor[t][x] <= store[x].gen
      BY DEF FreshInv
    <3>2. floor[t][x] \in Nat
      BY GensTyped
    <3> QED BY <2>1, <3>1, <3>2
  <2>4. \A t \in Thread, x \in Source :
          pc[t] \in {"load", "read", "built"} /\ x <= Len(got[t]) => got[t][x].gen <= store'[x].gen
    BY <2>1, GensTyped DEF FreshInv
  <2> QED BY <2>1, <2>2, <2>3, <2>4 DEF FreshInv, ReloadSeesPriorWrites
<1>5. Environment /\ (\A s \in Source : ~Change(s)) => Same
  BY DEF Environment, Notify, CancelOpenContext, CancelCall, AfterRootCancel,
         sourceVars, loadVars, stateVars, callVars
<1>6. ASSUME NEW t \in Thread, StartLoad(t), UNCHANGED <<store, accepted, floor>>
      PROVE FreshInv'
  <2>1. /\ got'[t] = <<>> /\ pc'[t] = "load"
        /\ \A u \in Thread \ {t} : got'[u] = got[u] /\ pc'[u] = pc[u] /\ err'[u] = err[u]
    BY <1>1, <1>6 DEF StartLoad
  <2>2. \A s \in Source : ~(s <= Len(got'[t]))
    BY <2>1
  <2>3. \A u \in Thread : pc'[u] \in {"load", "read", "built"} =>
          \A s \in Source : s <= Len(got'[u]) =>
            /\ accepted'[s] <= got'[u][s].gen /\ got'[u][s].gen <= store'[s].gen
            /\ u \in Callers => floor'[u][s] <= got'[u][s].gen
    BY <1>6, <2>1, <2>2 DEF FreshInv
  <2>4. ReloadSeesPriorWrites'
    BY <1>6, <2>1 DEF FreshInv, ReloadSeesPriorWrites
  <2> QED BY <1>6, <2>3, <2>4 DEF FreshInv
<1>7. FirstLoad \/ RetryOpen => FreshInv'
  BY <1>6 DEF FirstLoad, RetryOpen, sourceVars, stateVars, callVars
<1>8. RegisterWatcher \/ HoldOpen \/ FailOpen \/ OpenFailed => Same
  BY <1>1 DEF RegisterWatcher, HoldOpen, FailOpen, OpenFailed, sourceVars, loadVars,
       stateVars, callVars
<1>9. ASSUME FinishOpen PROVE FreshInv'
  <2>1. /\ Len(got[Run]) = NumSources /\ pc[Run] = "built"
        /\ accepted' = [s \in Source |-> got[Run][s].gen]
        /\ pc' = [pc EXCEPT ![Run] = "select"] /\ UNCHANGED <<store, floor>>
        /\ \A t \in Callers : pc[t] = "idle"
    BY <1>9 DEF FinishOpen, LoadInv, PhaseInv, sourceVars, callVars
  <2>2. \A s \in Source : accepted'[s] <= store[s].gen
    BY <2>1 DEF FreshInv
  <2> QED BY <1>1, <2>1, <2>2 DEF FreshInv, ReloadSeesPriorWrites
<1>10. Loop => Same
  BY <1>1 DEF Loop, Debounce, DebounceExpires, LeaveLoop, StopWatcher, Shutdown, sourceVars,
       loadVars, stateVars, callVars
<1>11. \A t \in Thread : BeginRead(t) \/ Bake(t) => Same
  BY <1>1 DEF BeginRead, Bake, sourceVars, stateVars, callVars
<1>12. ASSUME NEW t \in Thread, EndRead(t) PROVE FreshInv'
  <2>1. CASE got' = got
    BY <1>1, <1>3, <1>12, <2>1 DEF EndRead, sourceVars, stateVars, callVars
  <2>2. CASE got' # got
    <3> DEFINE n == Len(got[t]) + 1
    <3>1. /\ got' = [got EXCEPT ![t] = Append(@, store[n])]
          /\ pc' = [pc EXCEPT ![t] = "load"] /\ err' = err /\ pc[t] = "read"
          /\ UNCHANGED <<store, accepted, floor>>
      BY <1>12, <2>2 DEF EndRead, sourceVars, stateVars, callVars
    <3>2. got[t] \in Seq(Reading) /\ n \in Nat
      BY <1>1
    <3> DEFINE r == store[n]
    <3>3. got'[t] = Append(got[t], r)
      BY <1>1, <3>1
    <3> HIDE DEF r
    <3>4. \A x \in Source : x <= Len(got'[t]) =>
            \/ x = n /\ got'[t][x] = r
            \/ x <= Len(got[t]) /\ got'[t][x] = got[t][x]
      BY <3>2, <3>3
    <3>5. \A x \in Source : x <= Len(got'[t]) =>
            /\ accepted[x] <= got'[t][x].gen /\ got'[t][x].gen <= store[x].gen
            /\ t \in Callers => floor[t][x] <= got'[t][x].gen
      <4>1. ASSUME NEW x \in Source, x = n, got'[t][x] = r
            PROVE /\ accepted[x] <= got'[t][x].gen /\ got'[t][x].gen <= store[x].gen
                  /\ t \in Callers => floor[t][x] <= got'[t][x].gen
        BY <4>1, GensTyped DEF FreshInv, r
      <4>2. ASSUME NEW x \in Source, x <= Len(got[t]), got'[t][x] = got[t][x]
            PROVE /\ accepted[x] <= got'[t][x].gen /\ got'[t][x].gen <= store[x].gen
                  /\ t \in Callers => floor[t][x] <= got'[t][x].gen
        BY <3>1, <4>2 DEF FreshInv
      <4> QED BY <3>4, <4>1, <4>2
    <3> QED BY <1>1, <3>1, <3>5 DEF FreshInv, ReloadSeesPriorWrites
  <2> QED BY <2>1, <2>2
<1>13. ASSUME NEW t \in Thread, WinGate(t) PROVE FreshInv'
  BY <1>6, <1>13 DEF WinGate, sourceVars, stateVars, callVars
<1>14. ASSUME NEW t \in Thread, Leave(t), UNCHANGED <<store, accepted>> PROVE FreshInv'
  <2>1. /\ \A u \in Callers, s \in Source : floor'[u][s] = floor[u][s] \/ floor'[u][s] = 0
        /\ \A u \in Thread \ {t} : pc'[u] = pc[u] /\ got'[u] = got[u] /\ err'[u] = err[u]
                                 /\ (u \in Callers => floor'[u] = floor[u])
        /\ pc'[t] \in {"select", "idle"}
    BY <1>1, <1>14 DEF Leave, Home, TypeOK, ThreadTypeOK
  <2>2. \A u \in Callers, s \in Source : floor'[u][s] <= store'[s].gen
    BY <1>14, <2>1, GensTyped DEF FreshInv
  <2>3. \A u \in Thread : pc'[u] \in {"load", "read", "built"} =>
          \A s \in Source : s <= Len(got'[u]) =>
            /\ accepted'[s] <= got'[u][s].gen /\ got'[u][s].gen <= store'[s].gen
            /\ u \in Callers => floor'[u][s] <= got'[u][s].gen
    BY <1>14, <2>1 DEF FreshInv
  <2>4. ReloadSeesPriorWrites'
    BY <1>14, <2>1 DEF FreshInv, ReloadSeesPriorWrites
  <2> QED BY <1>14, <2>2, <2>3, <2>4 DEF FreshInv
<1>15. \A t \in Thread : EnterReload(t) => FreshInv'
  <2>1. \A t \in Thread : EnterReload(t) /\ rootDone => Leave(t) /\ UNCHANGED <<store, accepted>>
    BY DEF EnterReload, sourceVars, stateVars
  <2>2. \A t \in Thread : EnterReload(t) /\ ~rootDone => Same
    BY <1>1 DEF EnterReload, sourceVars, stateVars, loadVars
  <2> HIDE DEF Same
  <2> QED BY <1>3, <1>14, <2>1, <2>2
<1>16. \A t \in Thread : GiveUpGate(t) \/ ReleaseGate(t) => FreshInv'
  BY <1>14 DEF GiveUpGate, ReleaseGate, sourceVars, stateVars
<1>17. ASSUME NEW t \in Callers, CallReload(t) PROVE FreshInv'
  <2>1. /\ floor' = [floor EXCEPT ![t] = Gens] /\ pc[t] = "idle"
        /\ pc' = [pc EXCEPT ![t] = "enter"] /\ UNCHANGED <<store, got, err, accepted>>
    BY <1>17 DEF CallReload, sourceVars, loadVars, stateVars
  <2>2. \A s \in Source : Gens[s] = store[s].gen /\ store[s].gen \in Nat
    BY <1>1 DEF Gens
  <2>3. \A s \in Source : floor'[t][s] = store[s].gen
    BY <1>1, <2>1, <2>2
  <2>4. \A u \in Callers \ {t} : floor'[u] = floor[u]
    BY <1>1, <2>1
  <2>5. pc'[t] = "enter" /\ \A u \in Thread \ {t} : pc'[u] = pc[u]
    BY <1>1, <2>1
  <2>6. \A u \in Callers, s \in Source : floor'[u][s] <= store'[s].gen
    BY <2>1, <2>2, <2>3, <2>4 DEF FreshInv
  <2>7. \A u \in Thread : pc'[u] \in {"load", "read", "built"} =>
          \A s \in Source : s <= Len(got'[u]) =>
            /\ accepted'[s] <= got'[u][s].gen /\ got'[u][s].gen <= store'[s].gen
            /\ u \in Callers => floor'[u][s] <= got'[u][s].gen
    BY <2>1, <2>4, <2>5 DEF FreshInv
  <2>8. ReloadSeesPriorWrites'
    BY <2>1, <2>4, <2>5 DEF FreshInv, ReloadSeesPriorWrites
  <2> QED BY <2>1, <2>6, <2>7, <2>8 DEF FreshInv
<1>18. ASSUME NEW t \in Thread, Commit(t) PROVE FreshInv'
  <2>1. /\ pc[t] = "built" /\ UNCHANGED <<store, got, floor>>
        /\ \A u \in Thread \ {t} : pc'[u] = pc[u] /\ err'[u] = err[u]
        /\ pc'[t] \in {"publish", "release"}
    BY <1>1, <1>18 DEF Commit, CommitClosed, CommitFailure, CommitSame, CommitNew, Publish,
         NoPublish, sourceVars, callVars, TypeOK, ThreadTypeOK
  <2>2. \A u \in Thread \ {t} : pc[u] \notin Rebuilding
    BY <1>2, <2>1 DEF OneRebuildAtATime, Rebuilding
  <2>3. CASE CommitClosed(t) \/ CommitFailure(t)
    <3>1. accepted' = accepted
      BY <2>3 DEF CommitClosed, CommitFailure, stateVars
    <3>2. err'[t] # "none"
      BY <2>3 DEF CommitClosed, CommitFailure, TypeOK, ThreadTypeOK
    <3> QED BY <2>1, <2>2, <3>1, <3>2 DEF FreshInv, ReloadSeesPriorWrites, Rebuilding
  <2>4. CASE CommitSame(t) \/ CommitNew(t)
    <3>1. Len(got[t]) = NumSources
      BY <2>1, <2>4 DEF CommitSame, CommitNew, LoadInv
    <3>2. accepted' = [s \in Source |-> got[t][s].gen]
      BY <2>4 DEF CommitSame, CommitNew, Accept
    <3>3. \A s \in Source :
            /\ accepted'[s] <= store[s].gen
            /\ t \in Callers => floor[t][s] <= accepted'[s]
      BY <2>1, <3>1, <3>2 DEF FreshInv
    <3>4. ReloadSeesPriorWrites'
      <4> SUFFICES ASSUME NEW u \in Callers, pc'[u] \in {"publish", "release"}, NEW s \in Source
                   PROVE floor'[u][s] <= accepted'[s]
        BY DEF ReloadSeesPriorWrites
      <4>1. u = t
        BY <2>1, <2>2 DEF Rebuilding
      <4> QED BY <2>1, <3>3, <4>1
    <3>5. \A u \in Thread : pc'[u] \notin {"load", "read", "built"}
      BY <2>1, <2>2 DEF Rebuilding
    <3>6. \A u \in Callers, s \in Source : floor'[u][s] <= store'[s].gen
      BY <2>1 DEF FreshInv
    <3>7. \A s \in Source : accepted'[s] <= store'[s].gen
      BY <2>1, <3>3
    <3> QED BY <3>4, <3>5, <3>6, <3>7 DEF FreshInv
  <2> QED BY <1>18, <2>3, <2>4 DEF Commit
<1>19. \A t \in Thread :
         (\E s \in Subscribers : Drain(t, s)) \/ Send(t) \/ FinishPublish(t) => Same
  BY <1>1 DEF Drain, Send, FinishPublish, sourceVars, loadVars, stateVars, callVars
<1>20. \A s \in Subscribers : Subscription(s) => Same
  BY DEF Subscription, Subscribe, CancelSubscription, Unsubscribe, Receive, sourceVars,
         loadVars, stateVars, callVars
<1>21. \A c \in Closers : Closing(c) => Same
  BY DEF Closing, Close, CloseTakesGate, CloseReturns, sourceVars, loadVars, stateVars, callVars
<1>22. UNCHANGED vars => Same
  BY DEF vars, sourceVars, loadVars, stateVars, callVars
<1> HIDE DEF Same
<1>23. Environment => FreshInv'
  BY <1>3, <1>4, <1>5
<1>24. Opening => FreshInv'
  BY <1>3, <1>7, <1>8, <1>9 DEF Opening
<1>25. \A t \in Thread : Load(t) => FreshInv'
  BY <1>3, <1>11, <1>12 DEF Load
<1> QED BY NextCases, <1>3, <1>10, <1>13, <1>15, <1>16, <1>17, <1>18, <1>19, <1>20, <1>21,
           <1>22, <1>23, <1>24, <1>25

\* A cancelled runtime stays cancelled.
LEMMA CancelledForGood ==
  ASSUME Next
  PROVE  rootDone => rootDone'
<1>1. Environment \/ Opening \/ Loop => (rootDone => rootDone')
  BY DEF Environment, Change, Notify, CancelOpenContext, CancelCall, AfterRootCancel, Opening,
         RegisterWatcher, FirstLoad, HoldOpen, RetryOpen, FailOpen, FinishOpen, OpenFailed,
         Loop, Debounce, DebounceExpires, LeaveLoop, StopWatcher, Shutdown
<1>2. \A t \in Thread :
        \/ Load(t) \/ Commit(t) \/ EnterReload(t) \/ WinGate(t) \/ GiveUpGate(t)
        \/ ReleaseGate(t) \/ (t \in Callers /\ CallReload(t))
        \/ (\E s \in Subscribers : Drain(t, s)) \/ Send(t) \/ FinishPublish(t)
        => (rootDone => rootDone')
  BY DEF Load, BeginRead, EndRead, Bake, Commit, EnterReload, WinGate, GiveUpGate, ReleaseGate,
         CallReload, Drain, Send, FinishPublish
<1>3. \A s \in Subscribers : Subscription(s) => (rootDone => rootDone')
  BY DEF Subscription, Subscribe, CancelSubscription, Unsubscribe, Receive
<1>4. \A c \in Closers : Closing(c) => (rootDone => rootDone')
  BY DEF Closing, Close, CloseTakesGate, CloseReturns
<1>5. UNCHANGED vars => (rootDone => rootDone')
  BY DEF vars
<1> QED BY NextCases, <1>1, <1>2, <1>3, <1>4, <1>5

\* A change is forgotten by no step: it is notified, the notification is the token, the
\* token takes the run goroutine to the gate and to another load, and no load that is
\* accepted meanwhile has missed it without that.
LEMMA NextInvalidationInv ==
  ASSUME TypeOK, LoadInv, PhaseInv, GateInv, FreshInv, ShutdownInv, InvalidationInv, Next
  PROVE  InvalidationInv'
<1> USE DEF Goto, Label
<1>1. /\ pc \in [Thread -> Label] /\ got \in [Thread -> Seq(Reading)]
      /\ store \in [Source -> [gen : 0..MaxChanges, content : Layer \cup {Unreadable}]]
      /\ err \in [Thread -> Outcome] /\ accepted \in [Source -> 0..MaxChanges]
  BY DEF TypeOK, SourceTypeOK, ThreadTypeOK, StateTypeOK
<1>2. CASE rootDone'
  BY <1>2 DEF InvalidationInv, NoLostInvalidation, OnItsWay
<1>3. CASE ~rootDone'
  <2>1. ~rootDone /\ ~closed /\ pc[Run] \notin {"stop", "done"}
    BY <1>3, CancelledForGood DEF InvalidationInv, ShutdownInv
  <2>2. Opened => Opened'
    BY OpenedForGood
\* What every step leaves as it is but those of Open.
  <2> DEFINE Kept == /\ closed' = closed /\ stops' = stops
                     /\ (pc[Run] = "watch" => pc'[Run] = "watch")
\* The steps that leave alone what a change leads to.
  <2> DEFINE Calm == /\ UNCHANGED <<store, pend, dirty, failed, accepted>> /\ Kept
                     /\ \A s \in Watched : RunWillSee(s) => RunWillSee(s)'
                     /\ \A t \in Thread : pc'[t] \in {"load", "read", "built"} =>
                          \/ got'[t] = <<>>
                          \/ pc[t] \in {"load", "read", "built"} /\ got'[t] = got[t]
\* The steps after which the run goroutine reads every source again.
  <2> DEFINE Anew == /\ Kept
                     /\ \/ pc'[Run] \in {"watch", "debounce", "enter", "gate"}
                        \/ pc'[Run] = "load" /\ got'[Run] = <<>>
  <2>3. Calm => InvalidationInv'
    <3> SUFFICES ASSUME Calm PROVE InvalidationInv'
      OBVIOUS
    <3>1. \A s \in Watched : OnItsWay(s) => OnItsWay(s)'
      BY <2>1 DEF OnItsWay
    <3>2. NoLostInvalidation'
      BY <2>1, <2>2 DEF InvalidationInv, NoLostInvalidation
    <3>3. \A t \in Thread, s \in Watched :
            pc'[t] \in {"load", "read", "built"} /\ s <= Len(got'[t]) =>
              got'[t][s].gen = store'[s].gen \/ OnItsWay(s)'
      BY <3>1 DEF InvalidationInv
    <3> QED BY <2>1, <3>2, <3>3 DEF InvalidationInv
  <2>4. Anew => InvalidationInv'
    <3> SUFFICES ASSUME Anew PROVE InvalidationInv'
      OBVIOUS
    <3>1. \A s \in Watched : RunWillSee(s)'
      BY DEF RunWillSee
    <3> QED BY <2>1, <3>1 DEF InvalidationInv, NoLostInvalidation, OnItsWay
  <2>5. ASSUME NEW x \in Source, Change(x) PROVE InvalidationInv'
    <3>1. /\ UNCHANGED <<closed, stops, pc, dirty, failed, accepted, got, err, rootDone>>
          /\ Opened' = Opened
          /\ pend' = IF x \in ToSet(stops) THEN pend \cup {x} ELSE pend
      BY <2>5 DEF Change, loadVars, stateVars, Opened, NoSnapshot
    <3>2. \A s \in Source \ {x} : store'[s] = store[s]
      BY <1>1, <2>5 DEF Change
    <3>3. \A s \in Watched : OnItsWay(s) => OnItsWay(s)'
      <4> SUFFICES ASSUME NEW s \in Watched, OnItsWay(s) PROVE OnItsWay(s)'
        OBVIOUS
      <4>1. CASE s = x
        BY <2>1, <3>1, <4>1 DEF OnItsWay, RunWillSee, InvalidationInv
      <4>2. CASE s # x
        BY <3>1, <3>2, <4>2 DEF OnItsWay, RunWillSee
      <4> QED BY <4>1, <4>2
    <3>4. x \in Watched => OnItsWay(x)'
      BY <2>1, <3>1 DEF OnItsWay, RunWillSee, InvalidationInv
    <3>5. \A t \in Thread, s \in Watched :
            pc'[t] \in {"load", "read", "built"} /\ s <= Len(got'[t]) =>
              got'[t][s].gen = store'[s].gen \/ OnItsWay(s)'
      BY <3>1, <3>2, <3>3, <3>4 DEF InvalidationInv
    <3>6. NoLostInvalidation'
      BY <3>1, <3>2, <3>3, <3>4 DEF InvalidationInv, NoLostInvalidation, OnItsWay
    <3> QED BY <2>1, <3>1, <3>5, <3>6 DEF InvalidationInv
  <2>6. ASSUME NEW x \in Source, Notify(x) PROVE InvalidationInv'
    <3>1. dirty' /\ UNCHANGED <<closed, stops, pc>>
      BY <2>6 DEF Notify, stateVars
    <3> QED BY <2>1, <3>1 DEF InvalidationInv, NoLostInvalidation, OnItsWay
  <2>7. CancelOpenContext \/ (\E t \in Callers : CancelCall(t) \/ AfterRootCancel(t)) => Calm
    BY <1>3 DEF CancelOpenContext, CancelCall, AfterRootCancel, sourceVars, loadVars, stateVars, RunWillSee
  <2>8. RegisterWatcher => InvalidationInv'
    <3> SUFFICES ASSUME RegisterWatcher PROVE InvalidationInv'
      OBVIOUS
    <3>1. pc'[Run] = "watch" /\ closed' = closed
      BY <1>3 DEF RegisterWatcher, stateVars
    <3> QED BY <2>1, <3>1 DEF InvalidationInv, NoLostInvalidation, OnItsWay, RunWillSee
  <2>9. FirstLoad => InvalidationInv'
    <3> SUFFICES ASSUME FirstLoad PROVE InvalidationInv'
      OBVIOUS
    <3>1. /\ Watched \subseteq ToSet(stops) /\ stops' = stops /\ closed' = closed
          /\ pc'[Run] = "load" /\ got'[Run] = <<>>
      BY <1>1 DEF FirstLoad, StartLoad, Unwatched, stateVars
    <3>2. \A s \in Watched : RunWillSee(s)'
      BY <3>1 DEF RunWillSee
    <3> QED BY <2>1, <3>1, <3>2 DEF InvalidationInv, NoLostInvalidation, OnItsWay
  <2>10. HoldOpen => InvalidationInv'
    <3> SUFFICES ASSUME HoldOpen PROVE InvalidationInv'
      OBVIOUS
    <3>1. /\ pc[Run] = "built" /\ err[Run] = "degraded" /\ pc' = [pc EXCEPT ![Run] = "hold"]
          /\ UNCHANGED <<store, pend, stops, dirty, failed, closed, accepted, got>>
      BY DEF HoldOpen, sourceVars, loadVars, stateVars
    <3>2. \A s \in Watched : OnItsWay(s) => OnItsWay(s)'
      BY <1>1, <2>1, <3>1 DEF OnItsWay, RunWillSee
    <3>3. pc'[Run] = "hold" /\ \A t \in Thread \ {Run} : pc'[t] = pc[t]
      BY <1>1, <3>1
    <3> QED BY <2>1, <2>2, <3>1, <3>2, <3>3 DEF InvalidationInv, NoLostInvalidation, OnItsWay
  <2>11. RetryOpen => Anew
    BY <1>1 DEF RetryOpen, StartLoad, stateVars
  <2>12. ASSUME NEW t \in Thread, pc[t] = "built", err[t] = "none",
                accepted' = [s \in Source |-> got[t][s].gen],
                Opened', UNCHANGED <<store, pend, dirty, closed, stops>>,
                t # Run => UNCHANGED <<got, err>> /\ pc'[Run] = pc[Run],
                pc[Run] = "watch" => pc'[Run] = "watch",
                \A u \in Thread : pc'[u] \notin {"load", "read", "built"},
                Opened => \A s \in Source : accepted[s] <= got[t][s].gen
                                            /\ got[t][s].gen <= store[s].gen
         PROVE  InvalidationInv'
    <3>1. Len(got[t]) = NumSources
      BY <2>12 DEF LoadInv
    <3>2. ASSUME NEW s \in Watched
          PROVE  accepted'[s] = store'[s].gen \/ s \in pend' \/ dirty' \/ RunWillSee(s)'
      <4>1. got[t][s].gen = store[s].gen \/ s \in pend \/ dirty \/ RunWillSee(s)
        BY <2>1, <2>12, <3>1 DEF InvalidationInv, OnItsWay
      <4>2. CASE got[t][s].gen = store[s].gen
        BY <2>12, <4>2
      <4>3. CASE s \in pend \/ dirty
        BY <2>12, <4>3
      <4>4. CASE RunWillSee(s) /\ t = Run
        <5>1. pc[Run] = "built" /\ err[Run] = "none" /\ s <= Len(got[Run])
          <6>1. t = Run /\ s <= NumSources
            BY <4>4
          <6> QED BY <2>12, <3>1, <6>1
        <5>2. got[Run][s].gen = store[s].gen
          BY <4>4, <5>1 DEF RunWillSee
        <5> QED BY <2>12, <4>4, <5>2
      <4>5. CASE RunWillSee(s) /\ t # Run
        <5>1. UNCHANGED <<got, err, store>> /\ pc'[Run] = pc[Run]
          BY <2>12, <4>5
        <5> QED BY <4>5, <5>1 DEF RunWillSee
      <4> QED BY <4>1, <4>2, <4>3, <4>4, <4>5
    <3> QED BY <2>1, <2>12, <3>2 DEF InvalidationInv, NoLostInvalidation
  <2>13. FinishOpen => InvalidationInv'
    <3> SUFFICES ASSUME FinishOpen PROVE InvalidationInv'
      OBVIOUS
    <3>1. /\ pc[Run] = "built" /\ err[Run] = "none" /\ ~Opened
          /\ accepted' = [s \in Source |-> got[Run][s].gen]
          /\ UNCHANGED <<store, pend, dirty, closed, stops>>
          /\ pc' = [pc EXCEPT ![Run] = "select"]
          /\ \A t \in Callers : pc[t] = "idle"
      BY DEF FinishOpen, sourceVars, PhaseInv
    <3>2. Opened'
      BY OpenedForGood
    <3>3. \A u \in Thread : pc'[u] \notin {"load", "read", "built"}
      BY <1>1, <3>1
    <3>4. pc[Run] = "watch" => pc'[Run] = "watch"
      BY <3>1
    <3>5. Run \in Thread
      OBVIOUS
    <3> HIDE DEF Thread
    <3> QED BY <2>12, <3>1, <3>2, <3>3, <3>4, <3>5
  <2>14. Opening => InvalidationInv'
    BY <1>3, <2>1, <2>4, <2>8, <2>9, <2>10, <2>11, <2>13 DEF Opening, FailOpen, OpenFailed
  <2>15. Debounce \/ DebounceExpires => Anew
    BY <1>1 DEF Debounce, DebounceExpires, stateVars
  <2>16. Loop => InvalidationInv'
    BY <2>1, <2>4, <2>15 DEF Loop, LeaveLoop, StopWatcher, Shutdown
  <2>17. ASSUME NEW t \in Thread, BeginRead(t) \/ Bake(t) PROVE Calm
    <3>1. /\ UNCHANGED <<store, pend, stops, dirty, failed, closed, accepted, got>>
          /\ pc[t] = "load" /\ \E l \in {"read", "built"} : pc' = [pc EXCEPT ![t] = l]
          /\ t = Run => pc'[t] = "read" \/ BuildError(Layers(t)) = err'[t]
          /\ t # Run => err'[Run] = err[Run]
      BY <1>1, <2>1, <2>17 DEF BeginRead, Bake, Cancelled, sourceVars, stateVars
    <3>2. \A s \in Watched : RunWillSee(s) => RunWillSee(s)'
      BY <1>1, <3>1 DEF RunWillSee
    <3> QED BY <1>1, <3>1, <3>2
  <2>18. ASSUME NEW t \in Thread, EndRead(t), got' = got PROVE Calm
    <3>1. /\ UNCHANGED <<store, pend, stops, dirty, failed, closed, accepted>>
          /\ pc[t] = "read" /\ \E l \in {"load", "built"} : pc' = [pc EXCEPT ![t] = l]
      BY <2>18 DEF EndRead, sourceVars, stateVars
    <3>2. t # Run => err'[Run] = err[Run] /\ pc'[Run] = pc[Run]
      BY <1>1, <2>18 DEF EndRead
    <3>3. t = Run => pc'[Run] = "load" \/ (pc'[Run] = "built" /\ err'[Run] = "unreadable")
      BY <1>1, <2>1, <2>18 DEF EndRead, Cancelled
    <3>4. \A s \in Watched : RunWillSee(s) => RunWillSee(s)'
      BY <2>18, <3>1, <3>2, <3>3 DEF RunWillSee
    <3> QED BY <1>1, <2>18, <3>1, <3>4
  <2>19. ASSUME NEW t \in Thread, EndRead(t), got' # got PROVE InvalidationInv'
    <3> DEFINE n == Len(got[t]) + 1
    <3>1. /\ got' = [got EXCEPT ![t] = Append(@, store[n])] /\ err' = err
          /\ pc' = [pc EXCEPT ![t] = "load"] /\ pc[t] = "read"
          /\ UNCHANGED <<store, pend, stops, dirty, failed, closed, accepted>>
      BY <2>19 DEF EndRead, sourceVars, stateVars
    <3>2. got[t] \in Seq(Reading) /\ n \in Nat
      BY <1>1
    <3> DEFINE r == store[n]
    <3>3. got'[t] = Append(got[t], r)
      BY <1>1, <3>1
    <3> HIDE DEF r
    <3>4. \A s \in Source : s <= Len(got'[t]) =>
            \/ s = n /\ got'[t][s] = r
            \/ s <= Len(got[t]) /\ got'[t][s] = got[t][s]
      BY <3>2, <3>3
    <3>5. \A s \in Watched : s = n /\ got'[t][s] = r => got'[t][s].gen = store'[s].gen
      BY <3>1 DEF r
    <3>6. \A u \in Thread \ {t} : got'[u] = got[u] /\ pc'[u] = pc[u]
      BY <1>1, <3>1
    <3>7. pc'[t] = "load"
      BY <1>1, <3>1
    <3> HIDE DEF n
    <3>8. \A s \in Watched : RunWillSee(s) => RunWillSee(s)'
      <4> SUFFICES ASSUME NEW s \in Watched, RunWillSee(s) PROVE RunWillSee(s)'
        OBVIOUS
      <4>1. CASE t # Run
        BY <3>1, <3>6, <4>1 DEF RunWillSee
      <4>2. CASE t = Run
        <5>1. Len(got[Run]) >= s => got[Run][s].gen = store[s].gen
          BY <3>1, <4>2 DEF RunWillSee
        <5>2. s <= Len(got'[Run]) => got'[Run][s].gen = store'[s].gen
          BY <3>1, <3>4, <3>5, <4>2, <5>1
        <5>3. Len(got'[Run]) >= s => s <= Len(got'[Run])
          OBVIOUS
        <5> QED BY <3>7, <4>2, <5>2, <5>3 DEF RunWillSee
      <4> QED BY <4>1, <4>2
    <3>9. \A s \in Watched : OnItsWay(s) => OnItsWay(s)'
      BY <2>1, <3>1, <3>8 DEF OnItsWay
    <3>10. ASSUME NEW u \in Thread, NEW s \in Watched,
                  pc'[u] \in {"load", "read", "built"}, s <= Len(got'[u])
           PROVE  got'[u][s].gen = store'[s].gen \/ OnItsWay(s)'
      <4>1. CASE u # t
        BY <3>1, <3>6, <3>9, <3>10, <4>1 DEF InvalidationInv
      <4>2. CASE u = t
        BY <3>1, <3>4, <3>5, <3>9, <3>10, <4>2 DEF InvalidationInv
      <4> QED BY <4>1, <4>2
    <3>11. NoLostInvalidation'
      BY <2>1, <2>2, <3>1, <3>8 DEF InvalidationInv, NoLostInvalidation
    <3>12. pc[Run] # "watch" => pc'[Run] # "watch"
      BY <3>6, <3>7
    <3>13. pc[Run] = "watch" => t # Run
      BY <3>1
    <3> QED BY <2>1, <3>1, <3>6, <3>10, <3>11, <3>13 DEF InvalidationInv
  <2>20. ASSUME NEW t \in Thread, Commit(t) PROVE InvalidationInv'
    <3>1. /\ pc[t] = "built" /\ UNCHANGED <<store, pend, stops, dirty, got>>
          /\ \E l \in {"publish", "release"} : pc' = [pc EXCEPT ![t] = l]
          /\ Opened /\ Opened'
      BY <2>2, <2>20, CommitFrame DEF Commit, sourceVars
    <3>2. \A u \in Thread : pc'[u] \notin {"load", "read", "built"}
      BY <1>1, <3>1, OneAtATime DEF OneRebuildAtATime, Rebuilding
    <3>3. CASE CommitFailure(t)
      BY <2>1, <3>1, <3>2, <3>3, CommitFrame DEF CommitFailure, InvalidationInv,
         NoLostInvalidation, PhaseInv
    <3>4. CASE CommitSame(t) \/ CommitNew(t)
      <4>1. /\ err[t] = "none" /\ accepted' = [s \in Source |-> got[t][s].gen]
            /\ err' = err /\ closed' = closed
        BY <3>4 DEF CommitSame, CommitNew, Accept
      <4>2. Len(got[t]) = NumSources
        BY <3>1, <4>1 DEF LoadInv
      <4>3. \A s \in Source : accepted[s] <= got[t][s].gen /\ got[t][s].gen <= store[s].gen
        BY <3>1, <4>2 DEF FreshInv
      <4>4. t # Run => pc'[Run] = pc[Run]
        BY <1>1, <3>1
      <4>5. pc[Run] # "watch"
        BY <3>1 DEF PhaseInv
      <4> QED BY <2>12, <3>1, <3>2, <4>1, <4>3, <4>4, <4>5
    <3> QED BY <2>1, <2>20, <3>3, <3>4 DEF Commit, CommitClosed
  <2>21. ASSUME NEW t \in Thread, EnterReload(t) \/ WinGate(t) PROVE InvalidationInv'
    <3>1. CASE t = Run
      BY <1>1, <2>1, <2>4, <2>21, <3>1 DEF EnterReload, WinGate, StartLoad, stateVars
    <3>2. CASE t # Run
      BY <1>1, <2>1, <2>3, <2>21, <3>2 DEF EnterReload, WinGate, StartLoad, sourceVars, loadVars,
         stateVars, RunWillSee
    <3> QED BY <3>1, <3>2
  <2>22. \A t \in Thread : GiveUpGate(t) \/ ReleaseGate(t) => Calm
    <3> SUFFICES ASSUME NEW t \in Thread, GiveUpGate(t) \/ ReleaseGate(t) PROVE Calm
      OBVIOUS
    <3>1. /\ UNCHANGED <<store, pend, stops, dirty, failed, closed, accepted>>
          /\ pc' = [pc EXCEPT ![t] = Home(t)] /\ got' = [got EXCEPT ![t] = <<>>]
          /\ err' = [err EXCEPT ![t] = "none"] /\ pc[t] \in {"gate", "release"}
          /\ pc[t] = "gate" => t # Run
      BY <2>1 DEF GiveUpGate, ReleaseGate, Leave, Cancelled, sourceVars, stateVars
    <3>2. \A s \in Watched : RunWillSee(s) => RunWillSee(s)'
      BY <1>1, <3>1 DEF RunWillSee
    <3>3. \A u \in Thread : pc'[u] \in {"load", "read", "built"} =>
            got'[u] = got[u] /\ pc'[u] = pc[u]
      BY <1>1, <3>1 DEF Home
    <3>4. pc[Run] = "watch" => pc'[Run] = "watch"
      BY <1>1, <3>1
    <3> QED BY <3>1, <3>2, <3>3, <3>4
  <2>23. \A t \in Callers : CallReload(t) => Calm
    BY <1>1 DEF CallReload, sourceVars, loadVars, stateVars, RunWillSee
  <2>24. \A t \in Thread :
           (\E s \in Subscribers : Drain(t, s)) \/ Send(t) \/ FinishPublish(t) => Calm
    BY <1>1 DEF Drain, Send, FinishPublish, sourceVars, loadVars, stateVars, RunWillSee
  <2>25. \A s \in Subscribers : Subscription(s) => Calm
    BY DEF Subscription, Subscribe, CancelSubscription, Unsubscribe, Receive, sourceVars,
           loadVars, stateVars, RunWillSee
  <2>26. \A c \in Closers : Closing(c) => Calm
    BY DEF Closing, Close, CloseTakesGate, CloseReturns, sourceVars, loadVars, stateVars,
           RunWillSee
  <2>27. UNCHANGED vars => Calm
    BY DEF vars, sourceVars, loadVars, stateVars, RunWillSee
  <2> HIDE DEF Calm
  <2>28. \A t \in Thread : Load(t) => InvalidationInv'
    BY <2>3, <2>17, <2>18, <2>19 DEF Load
  <2>29. Environment => InvalidationInv'
    BY <2>3, <2>5, <2>6, <2>7 DEF Environment
  <2> QED BY NextCases, <2>3, <2>14, <2>16, <2>20, <2>21, <2>22, <2>23, <2>24, <2>25, <2>26,
             <2>27, <2>28, <2>29
<1> QED BY <1>2, <1>3

-----------------------------------------------------------------------------
(* The inductive invariant, and what follows from it.                       *)

\* The inductive invariant: it holds initially, ...
LEMMA InitIInv == Init => IInv
<1> SUFFICES ASSUME Init PROVE IInv
  OBVIOUS
<1>1. /\ pc = [t \in Thread |-> IF t = Run THEN "watch" ELSE "idle"]
      /\ mu = Nobody /\ gate = Nobody /\ targets = {} /\ draining = Nobody
      /\ pend = {} /\ stops = <<>> /\ closed = FALSE
      /\ ~Opened /\ chan = [s \in Subscribers |-> "none"]
      /\ closer = [c \in Closers |-> "idle"]
  BY DEF Init, Opened
<1>2. /\ accepted = [s \in Source |-> 0] /\ \A s \in Source : store[s].gen = 0
      /\ floor = [t \in Callers |-> [s \in Source |-> 0]]
  BY DEF Init
<1>3. TypeOK
  BY InitTypeOK
<1>4. LoadInv
  BY <1>1 DEF LoadInv
<1>5. PhaseInv
  BY <1>1 DEF PhaseInv
<1>6. GateInv
  BY <1>1 DEF GateInv, Rebuilding
<1>7. PublishInv
  BY <1>1 DEF PublishInv
<1>8. FreshInv
  BY <1>1, <1>2 DEF FreshInv, ReloadSeesPriorWrites
<1>9. Registered = {}
  BY <1>1 DEF Registered
<1>10. KnowsInv
  BY <1>1, <1>9 DEF KnowsInv
<1>11. ShutdownInv
  BY <1>1, <1>9 DEF ShutdownInv, ToSet
<1>12. InvalidationInv
  BY <1>1 DEF InvalidationInv, NoLostInvalidation, RunWillSee
<1> QED BY <1>3, <1>4, <1>5, <1>6, <1>7, <1>8, <1>10, <1>11, <1>12 DEF IInv

\* ... is preserved by every step, ...
LEMMA NextIInv == IInv /\ [Next]_vars => IInv'
<1> SUFFICES ASSUME IInv, [Next]_vars PROVE IInv'
  OBVIOUS
<1>1. CASE Next
  BY <1>1, NextTypeOK, NextLoadInv, NextPhaseInv, NextGateInv, NextPublishInv, NextFreshInv,
     NextKnowsInv, NextShutdownInv, NextInvalidationInv DEF IInv
<1>2. CASE UNCHANGED vars
  <2> USE <1>2 DEF vars, sourceVars, loadVars, stateVars, publishVars, subscriberVars, callVars,
                   IInv
  <2>1. TypeOK'
    BY NextTypeOK
  <2>2. LoadInv'
    BY DEF LoadInv
  <2>3. PhaseInv'
    BY DEF PhaseInv, Opened
  <2>4. GateInv'
    BY DEF GateInv, Opened
  <2>5. PublishInv'
    BY DEF PublishInv, Registered
  <2>6. FreshInv'
    BY DEF FreshInv, ReloadSeesPriorWrites
  <2>7. KnowsInv'
    BY DEF KnowsInv, Registered, Latest
  <2>8. ShutdownInv'
    BY DEF ShutdownInv, Registered, Opened
  <2>9. InvalidationInv'
    BY DEF InvalidationInv, NoLostInvalidation, OnItsWay, RunWillSee, Opened
  <2> QED BY <2>1, <2>2, <2>3, <2>4, <2>5, <2>6, <2>7, <2>8, <2>9
<1> QED BY <1>1, <1>2

\* The inductive invariant holds throughout: rebuilds own the gate and read forward,
\* publications own mu and leave every channel they have passed on the current snapshot,
\* and what run's deferred calls have ended stays ended.
THEOREM Inductive == Spec => []IInv
<1> QED BY InitIInv, NextIInv, PTL DEF Spec

\* In every state each variable has its type; in particular whatever is current or
\* sent is a whole snapshot, built from readable layers only.
THEOREM TypeCorrect == Spec => []TypeOK
<1>1. IInv => TypeOK
  BY DEF IInv
<1> QED BY <1>1, Inductive, PTL

\* Rebuilds are serialized by the gate, and Open's by there being nothing to reload.
THEOREM Serialized == Spec => []OneRebuildAtATime
<1>1. IInv => OneRebuildAtATime
  BY OneAtATime DEF IInv
<1> QED BY <1>1, Inductive, PTL

\* No accepted build is older, in any source, than one accepted before.
THEOREM NeverRegresses == Spec => AcceptedNeverRegresses
<1>1. IInv /\ [Next]_vars => [\A s \in Source : accepted[s] <= accepted'[s]]_vars
  BY AcceptMovesForward DEF IInv
<1> QED BY <1>1, Inductive, PTL DEF Spec, AcceptedNeverRegresses

\* A Reload that succeeds has accepted every write made before it was called.
THEOREM ReloadIsFresh == Spec => []ReloadSeesPriorWrites
<1>1. IInv => ReloadSeesPriorWrites
  BY DEF IInv, FreshInv
<1> QED BY <1>1, Inductive, PTL

\* Whatever becomes of notifications, of the token and of loads at work, a change of a
\* watched source that no accepted build has seen is on its way to the run goroutine,
\* unless a failure stands that subscribers were told of, or the runtime ends.
THEOREM NothingIsForgotten == Spec => []NoLostInvalidation
<1>1. IInv => NoLostInvalidation
  BY DEF IInv, InvalidationInv
<1> QED BY <1>1, Inductive, PTL

\* publish never waits for a receiver and never sends on a closed channel.
THEOREM SendsNeverBlock == Spec => []SendNeverBlocks
<1>1. IInv => SendNeverBlocks
  BY DEF IInv, PublishInv, SendNeverBlocks, Registered
<1> QED BY <1>1, Inductive, PTL

\* Between publications every registered subscriber holds the current snapshot.
THEOREM SubscribersKnowCurrent == Spec => []SubscriberKnowsCurrent
<1>1. IInv => SubscriberKnowsCurrent
  BY DEF IInv, PublishInv, KnowsInv, SubscriberKnowsCurrent
<1> QED BY <1>1, Inductive, PTL

\* run leaves no watcher, no pending notification and no open channel behind.
THEOREM NothingIsLeft == Spec => []NothingLeftBehind
<1>1. IInv => NothingLeftBehind
  BY DEF IInv, ShutdownInv, NothingLeftBehind, ToSet
<1> QED BY <1>1, Inductive, PTL

\* What was current when run ended stays so, whoever was still reloading.
THEOREM ClosedIsQuiet == Spec => QuietAfterShutdown
<1> DEFINE A == closed => UNCHANGED <<current, failed, accepted, mu, message>>
<1>1. IInv /\ [Next]_vars => [A]_vars
  <2> SUFFICES ASSUME IInv, Next, closed
               PROVE UNCHANGED <<current, failed, accepted, mu, message>>
    BY DEF vars, stateVars, publishVars
  <2> DEFINE Same == UNCHANGED <<current, failed, accepted, mu, message>>
  <2>1. Opened /\ mu = Nobody /\ \A t \in Thread : pc[t] # "publish"
    BY DEF IInv, ShutdownInv, PublishInv
  <2>2. Environment => Same
    BY DEF Environment, Change, Notify, CancelOpenContext, CancelCall, AfterRootCancel,
           stateVars, publishVars
  <2>3. Opening => Same
    BY <2>1 DEF Opening, RegisterWatcher, FirstLoad, HoldOpen, RetryOpen, FailOpen, FinishOpen,
           OpenFailed, stateVars, publishVars
  <2>4. Loop => Same
    BY DEF Loop, Debounce, DebounceExpires, LeaveLoop, StopWatcher, Shutdown,
           stateVars, publishVars
  <2>5. \A t \in Thread :
          \/ Load(t) \/ EnterReload(t) \/ WinGate(t) \/ GiveUpGate(t) \/ ReleaseGate(t)
          \/ (t \in Callers /\ CallReload(t))
          => Same
    BY DEF Load, BeginRead, EndRead, Bake, EnterReload, WinGate, GiveUpGate, ReleaseGate,
           CallReload, stateVars, publishVars
  <2>6. \A t \in Thread : Commit(t) => Same
    BY DEF Commit, CommitClosed, CommitFailure, CommitSame, CommitNew, NoPublish, stateVars
  <2>7. \A t \in Thread :
          (\E s \in Subscribers : Drain(t, s)) \/ Send(t) \/ FinishPublish(t) => Same
    BY <2>1 DEF Drain, Send, FinishPublish
  <2>8. \A s \in Subscribers : Subscription(s) => Same
    BY DEF Subscription, Subscribe, CancelSubscription, Unsubscribe, Receive,
           stateVars, publishVars
  <2>9. \A c \in Closers : Closing(c) => Same
    BY DEF Closing, Close, CloseTakesGate, CloseReturns, stateVars, publishVars
  <2>10. UNCHANGED vars => Same
    BY DEF vars, stateVars, publishVars
  <2> QED BY NextCases, <2>2, <2>3, <2>4, <2>5, <2>6, <2>7, <2>8, <2>9, <2>10
<1> QED BY <1>1, Inductive, PTL DEF Spec, QuietAfterShutdown
=============================================================================
