----------------------------- MODULE FeedProofs -----------------------------
(***************************************************************************)
(* What subscribers are promised, for any number of sources, callers,       *)
(* closers and subscribers: module Runtime implements module Feed, step by  *)
(* step, and whoever receives every event can replay Event.Changed.         *)
(*                                                                          *)
(* Both rest on IInv (module RuntimeProofs) and on ReplayInv, which follows *)
(* each subscriber's events: what it read last, what its channel holds, and *)
(* what publish is about to put there.                                      *)
(***************************************************************************)
EXTENDS RuntimeProofs

USE RuntimeAssumption DEF Source, Thread

-----------------------------------------------------------------------------
\* The steps that no subscriber can notice, now or later.
Unnoticed ==
  UNCHANGED <<current, failed, chan, targets, draining, message, buf, seen, missed>>

\* The steps of the runtime, by what they mean to subscribers.
LEMMA FeedCases ==
  ASSUME Next
  PROVE  \/ Unnoticed \/ FinishOpen \/ Shutdown
         \/ \E t \in Thread :
              \/ Commit(t) \/ Send(t) \/ FinishPublish(t)
              \/ \E s \in Subscribers : Drain(t, s)
         \/ \E s \in Subscribers : Subscribe(s) \/ Unsubscribe(s) \/ Receive(s)
<1> USE DEF stateVars, publishVars, subscriberVars
<1>1. Environment => Unnoticed
  BY DEF Environment, Change, Notify, CancelOpenContext, CancelCall, AfterRootCancel, Unnoticed
<1>2. Opening => Unnoticed \/ FinishOpen
  BY DEF Opening, RegisterWatcher, FirstLoad, HoldOpen, RetryOpen, FailOpen, OpenFailed, Unnoticed
<1>3. Loop => Unnoticed \/ Shutdown
  BY DEF Loop, Debounce, DebounceExpires, LeaveLoop, StopWatcher, Unnoticed
<1>4. \A t \in Thread :
        \/ Load(t) \/ EnterReload(t) \/ WinGate(t) \/ GiveUpGate(t) \/ ReleaseGate(t)
        \/ (t \in Callers /\ CallReload(t))
        => Unnoticed
  BY DEF Load, BeginRead, EndRead, Bake, EnterReload, WinGate, GiveUpGate, ReleaseGate,
         CallReload, Unnoticed
<1>5. \A s \in Subscribers :
        Subscription(s) => Unnoticed \/ Subscribe(s) \/ Unsubscribe(s) \/ Receive(s)
  BY DEF Subscription, CancelSubscription, Unnoticed
<1>6. \A c \in Closers : Closing(c) => Unnoticed
  BY DEF Closing, Close, CloseTakesGate, CloseReturns, Unnoticed
<1>7. UNCHANGED vars => Unnoticed
  BY DEF vars, Unnoticed
<1> QED BY NextCases, <1>1, <1>2, <1>3, <1>4, <1>5, <1>6, <1>7

\* A snapshot differs from itself nowhere.
LEMMA NothingChanged == \A c : ChangedPaths(c, c) = {}
BY DEF ChangedPaths

\* What is published is a whole event, and no event is the missing one.
LEMMA EventsAreWhole ==
  /\ \A e \in EventType : /\ e # NoEvent /\ e.snapshot # NoSnapshot
                          /\ e.snapshot.version \in Nat
  /\ NoEvent.snapshot = NoSnapshot /\ NoSnapshot.version = 0
BY DEF EventType, SnapshotType, NoSnapshot, NoEvent

\* What a commit means to subscribers: a failure and a recovery announce the current
\* snapshot, other values the next version, anything else is silent.
LEMMA CommitCases ==
  ASSUME IInv, NEW t \in Thread, Commit(t)
  PROVE  /\ Opened /\ targets = {} /\ draining = Nobody
         /\ UNCHANGED <<chan, draining, buf, seen, missed>>
         /\ \/ UNCHANGED <<current, targets, message>> /\ failed' = failed
            \/ /\ targets' = Registered
               /\ \/ /\ current' = current /\ message' = Event(current, TRUE, {})
                     /\ failed' = TRUE
                  \/ /\ current' = current /\ message' = Event(current, FALSE, {})
                     /\ failed /\ failed' = FALSE
                  \/ /\ current'.version = current.version + 1
                     /\ ~SameSnapshot(current, current')
                     /\ message' = Event(current', FALSE, ChangedPaths(current, current'))
                     /\ failed' = FALSE
<1>1. mu = Nobody /\ Opened
  BY DEF Commit
<1>2. targets = {} /\ draining = Nobody
  BY <1>1 DEF IInv, PublishInv
<1>3. UNCHANGED <<chan, draining, buf, seen, missed>>
  BY DEF Commit, subscriberVars
<1>4. CASE CommitClosed(t)
  BY <1>1, <1>2, <1>3, <1>4 DEF CommitClosed, NoPublish, stateVars
<1>5. CASE CommitFailure(t)
  BY <1>1, <1>2, <1>3, <1>5 DEF CommitFailure, Publish
<1>6. CASE CommitSame(t)
  BY <1>1, <1>2, <1>3, <1>6 DEF CommitSame, Publish, NoPublish, IInv, TypeOK, StateTypeOK
<1>7. CASE CommitNew(t)
  <2> DEFINE next == Snapshot(current.version + 1, Layers(t))
  <2>1. next.version = current.version + 1
    BY DEF Snapshot
  <2> HIDE DEF next
  <2>2. /\ current' = next /\ ~SameSnapshot(current, next) /\ failed' = FALSE
        /\ message' = Event(next, FALSE, ChangedPaths(current, next))
        /\ targets' = Registered
    BY <1>7 DEF CommitNew, Publish, next
  <2> QED BY <1>1, <1>2, <1>3, <2>1, <2>2
<1> QED BY <1>4, <1>5, <1>6, <1>7 DEF Commit

-----------------------------------------------------------------------------
(* Each subscriber's events follow on one another.                          *)

\* ReplayInv for one subscriber.
Replays(s) ==
  /\ chan[s] = "none" => seen[s] = NoEvent /\ buf[s] = <<>>
  /\ seen[s].snapshot # NoSnapshot =>
       /\ Opened /\ seen[s].snapshot.version <= current.version
       /\ buf[s] # <<>> =>
            /\ seen[s].snapshot.version <= Head(buf[s]).snapshot.version
            /\ s \notin missed =>
                 Head(buf[s]).changed = ChangedPaths(seen[s].snapshot, Head(buf[s]).snapshot)
  /\ buf[s] # <<>> => Head(buf[s]).snapshot.version <= current.version
  /\ s \in targets /\ (s # draining \/ s \notin missed) /\ Latest(s).snapshot # NoSnapshot =>
       message.changed = ChangedPaths(Latest(s).snapshot, message.snapshot)

\* What the variables of one subscriber are.
LEMMA SubscriberTyped ==
  ASSUME IInv, NEW s \in Subscribers
  PROVE  /\ seen[s] \in EventType \cup {NoEvent} /\ seen[s].snapshot.version \in Nat
         /\ buf[s] # <<>> => /\ Head(buf[s]) \in EventType
                             /\ Head(buf[s]).snapshot.version \in Nat
         /\ current.version \in Nat /\ current.version >= 0
         /\ Opened => current \in SnapshotType
<1>1. /\ buf[s] \in Seq(EventType) /\ seen[s] \in EventType \cup {NoEvent}
      /\ current \in SnapshotType \cup {NoSnapshot}
  BY DEF IInv, TypeOK, SubscriberTypeOK, StateTypeOK
<1>2. buf[s] # <<>> => Head(buf[s]) \in EventType
  BY <1>1
<1> QED BY <1>1, <1>2, EventsAreWhole DEF SnapshotType, Opened

\* Only Commit, Drain, Send, Subscribe and Receive touch what ReplayInv speaks of; every
\* other step leaves a part of the subscribers as they were.
LEMMA NextReplayInv ==
  ASSUME IInv, ReplayInv, Next
  PROVE  ReplayInv'
<1> SUFFICES ASSUME NEW s \in Subscribers PROVE Replays(s)'
  BY DEF ReplayInv, Replays
<1>1. Replays(s)
  BY DEF ReplayInv, Replays
<1>2. /\ chan \in [Subscribers -> {"none", "open", "closed"}]
      /\ buf \in [Subscribers -> Seq(EventType)]
      /\ seen \in [Subscribers -> EventType \cup {NoEvent}]
      /\ message \in EventType \cup {NoEvent}
      /\ targets \subseteq Subscribers /\ draining \in Subscribers \cup {Nobody}
  BY DEF IInv, TypeOK, SubscriberTypeOK
<1>3. CASE Unnoticed
  BY <1>1, <1>3 DEF Unnoticed, Replays, Latest, Opened
<1>4. CASE FinishOpen
  <2>1. ~Opened /\ UNCHANGED <<chan, buf, seen, missed, message, targets, draining>>
    BY <1>4 DEF FinishOpen, publishVars, subscriberVars
  <2>2. seen[s].snapshot = NoSnapshot /\ buf[s] = <<>>
    BY <1>1, <2>1, SubscriberTyped, EventsAreWhole DEF Replays, Opened, EventType, SnapshotType
  <2>3. targets = {}
    <3>1. \A t \in Thread : pc[t] # "publish"
      BY <2>1 DEF IInv, PhaseInv
    <3> QED BY <3>1 DEF IInv, PublishInv, TypeOK, ThreadTypeOK
  <2> QED BY <1>1, <2>1, <2>2, <2>3 DEF Replays, Latest
<1>5. CASE Shutdown
  <2>1. /\ UNCHANGED <<current, buf, seen, missed, message, targets, draining>>
        /\ chan'[s] = "none" => chan[s] = "none"
    BY <1>2, <1>5 DEF Shutdown, publishVars
  <2> QED BY <1>1, <2>1 DEF Replays, Latest, Opened
<1>6. ASSUME NEW t \in Thread, Commit(t) PROVE Replays(s)'
  <2>1. /\ Opened /\ targets = {} /\ draining = Nobody
        /\ UNCHANGED <<chan, draining, buf, seen, missed>>
    BY <1>6, CommitCases
  <2>2. Opened' /\ current.version \in Nat
    BY <2>1, OpenedForGood, SubscriberTyped DEF IInv
  <2>3. CASE UNCHANGED <<current, targets, message>>
    BY <1>1, <2>1, <2>3 DEF Replays, Latest, Opened
  <2>4. CASE /\ targets' = Registered
             /\ \/ current' = current
                \/ current'.version = current.version + 1
             /\ message'.changed = ChangedPaths(current, current')
             /\ message'.snapshot = current'
    <3>1. \A n \in Nat : n <= current.version => n <= current'.version
      BY <2>2, <2>4
    <3>2. s \in targets' => Latest(s).snapshot = current
      BY <2>1, <2>4 DEF IInv, KnowsInv
    <3>3. Latest(s)' = Latest(s)
      BY <2>1 DEF Latest
    <3>4. s \in targets' => message'.changed = ChangedPaths(Latest(s)'.snapshot, message'.snapshot)
      BY <2>4, <3>2, <3>3
    <3> QED BY <1>1, <2>1, <2>2, <3>1, <3>4, SubscriberTyped DEF Replays
  <2>5. \/ UNCHANGED <<current, targets, message>>
        \/ /\ targets' = Registered
           /\ \/ current' = current
              \/ current'.version = current.version + 1
           /\ message'.changed = ChangedPaths(current, current')
           /\ message'.snapshot = current'
    <3>1. current' = current => ChangedPaths(current, current') = {}
      BY NothingChanged
    <3>2. message' = Event(current, TRUE, {}) =>
            message'.changed = {} /\ message'.snapshot = current
      BY DEF Event
    <3>3. message' = Event(current, FALSE, {}) =>
            message'.changed = {} /\ message'.snapshot = current
      BY DEF Event
    <3>4. message' = Event(current', FALSE, ChangedPaths(current, current')) =>
            message'.changed = ChangedPaths(current, current') /\ message'.snapshot = current'
      BY DEF Event
    <3> HIDE DEF Source, Thread
    <3> QED BY <1>6, <3>1, <3>2, <3>3, <3>4, CommitCases
  <2> QED BY <2>3, <2>4, <2>5
<1>7. ASSUME NEW t \in Thread, NEW x \in Subscribers, Drain(t, x) PROVE Replays(s)'
  <2>1. /\ draining = Nobody /\ draining' = x /\ buf' = [buf EXCEPT ![x] = <<>>]
        /\ missed' = IF buf[x] = <<>> THEN missed ELSE missed \cup {x}
        /\ UNCHANGED <<current, message, targets, chan, seen>>
    BY <1>7 DEF Drain, stateVars
  <2>2. CASE s = x
    BY <1>1, <1>2, <2>1, <2>2 DEF Replays, Latest, Opened
  <2>3. CASE s # x
    <3>1. buf'[s] = buf[s] /\ (s \in missed' <=> s \in missed) /\ s # draining
      BY <1>2, <2>1, <2>3
    <3> QED BY <1>1, <2>1, <2>3, <3>1 DEF Replays, Latest, Opened
  <2> QED BY <2>2, <2>3
<1>8. ASSUME NEW t \in Thread, Send(t) PROVE Replays(s)'
  <2>1. /\ draining # Nobody /\ buf[draining] = <<>>
        /\ buf' = [buf EXCEPT ![draining] = <<message>>]
        /\ targets' = targets \ {draining} /\ draining' = Nobody /\ pc[t] = "publish"
        /\ UNCHANGED <<current, message, chan, seen, missed>>
    BY <1>8 DEF Send, stateVars
  <2>2. mu # Nobody
    BY <2>1 DEF IInv, PublishInv
  <2>3. message.snapshot = current /\ draining \in targets /\ chan[draining] = "open"
    BY <2>1, <2>2 DEF IInv, KnowsInv, PublishInv, Registered
  <2>4. CASE s = draining
    <3>1. buf'[s] = <<message>> /\ buf'[s] # <<>> /\ Head(buf'[s]) = message /\ s \notin targets'
      BY <1>2, <2>1, <2>4
    <3>2. s \notin missed /\ seen[s].snapshot # NoSnapshot =>
            message.changed = ChangedPaths(seen[s].snapshot, message.snapshot)
      BY <1>1, <2>1, <2>3, <2>4 DEF Replays, Latest
    <3> QED BY <1>1, <2>1, <2>3, <2>4, <3>1, <3>2, SubscriberTyped DEF Replays, Opened
  <2>5. CASE s # draining
    <3>1. buf'[s] = buf[s] /\ (s \in targets' <=> s \in targets)
      BY <1>2, <2>1, <2>5
    <3> QED BY <1>1, <2>1, <2>5, <3>1 DEF Replays, Latest, Opened
  <2> QED BY <2>4, <2>5
<1>9. ASSUME NEW t \in Thread, FinishPublish(t) PROVE Replays(s)'
  BY <1>1, <1>9 DEF FinishPublish, stateVars, subscriberVars, Replays, Latest, Opened
<1>10. ASSUME NEW x \in Subscribers, Subscribe(x) PROVE Replays(s)'
  <2>1. /\ chan[x] = "none" /\ Opened /\ targets = {}
        /\ UNCHANGED <<current, targets, draining, message, seen, missed>>
        /\ \/ chan' = [chan EXCEPT ![x] = "closed"] /\ buf' = buf
           \/ /\ chan' = [chan EXCEPT ![x] = "open"]
              /\ buf' = [buf EXCEPT ![x] = <<Event(current, FALSE, {})>>]
    BY <1>10 DEF Subscribe, stateVars, publishVars, IInv, PublishInv
  <2>2. CASE s = x
    <3>1. seen'[s] = NoEvent /\ chan'[s] # "none"
      BY <1>1, <1>2, <2>1, <2>2 DEF Replays
    <3>2. buf'[s] # <<>> => Head(buf'[s]).snapshot.version <= current'.version
      <4>1. CASE buf' = buf
        BY <1>1, <2>1, <4>1 DEF Replays
      <4>2. CASE buf' = [buf EXCEPT ![x] = <<Event(current, FALSE, {})>>]
        <5>1. Head(buf'[s]) = Event(current, FALSE, {})
          BY <1>2, <2>2, <4>2
        <5> QED BY <2>1, <5>1, SubscriberTyped DEF Event
      <4> QED BY <2>1, <4>1, <4>2
    <3> QED BY <2>1, <3>1, <3>2, EventsAreWhole DEF Replays
  <2>3. CASE s # x
    <3>1. buf'[s] = buf[s] /\ chan'[s] = chan[s]
      BY <1>2, <2>1, <2>3
    <3> QED BY <1>1, <2>1, <3>1 DEF Replays, Latest, Opened
  <2> QED BY <2>2, <2>3
<1>11. ASSUME NEW x \in Subscribers, Unsubscribe(x) PROVE Replays(s)'
  <2>1. /\ UNCHANGED <<current, buf, seen, missed, message, targets, draining>>
        /\ chan'[s] = "none" => chan[s] = "none"
    BY <1>2, <1>11 DEF Unsubscribe, stateVars, publishVars
  <2> QED BY <1>1, <2>1 DEF Replays, Latest, Opened
<1>12. ASSUME NEW x \in Subscribers, Receive(x) PROVE Replays(s)'
  <2>1. /\ buf[x] # <<>> /\ seen' = [seen EXCEPT ![x] = Head(buf[x])]
        /\ buf' = [buf EXCEPT ![x] = <<>>] /\ missed' = missed \ {x}
        /\ UNCHANGED <<current, message, targets, draining, chan>>
    BY <1>12 DEF Receive, stateVars, publishVars
  <2>2. CASE s = x
    <3>1. /\ buf'[s] = <<>> /\ seen'[s] = Head(buf[s]) /\ chan[s] # "none"
          /\ Latest(s)' = Latest(s)
      BY <1>1, <1>2, <2>1, <2>2 DEF Latest, Replays
    <3>2. s # draining
      BY <2>1, <2>2 DEF IInv, PublishInv
    <3>3. Head(buf[s]).snapshot.version <= current.version /\ Head(buf[s]) \in EventType
      BY <1>1, <2>1, <2>2, SubscriberTyped DEF Replays
    <3>4. Opened
      BY <3>3, EventsAreWhole DEF Opened, EventType, SnapshotType
    <3> QED BY <1>1, <2>1, <3>1, <3>2, <3>3, <3>4 DEF Replays, Opened
  <2>3. CASE s # x
    <3>1. buf'[s] = buf[s] /\ seen'[s] = seen[s] /\ (s \in missed' <=> s \in missed)
      BY <1>2, <2>1, <2>3
    <3> QED BY <1>1, <2>1, <3>1 DEF Replays, Latest, Opened
  <2> QED BY <2>2, <2>3
<1> QED BY FeedCases, <1>3, <1>4, <1>5, <1>6, <1>7, <1>8, <1>9, <1>10, <1>11, <1>12

LEMMA InitReplayInv == Init => ReplayInv
BY EventsAreWhole DEF Init, ReplayInv, Latest

\* The invariant that the promise to subscribers rests on.
THEOREM FeedInductive == Spec => []FeedInv
<1>1. FeedInv /\ [Next]_vars => ReplayInv'
  <2>1. FeedInv /\ UNCHANGED vars => ReplayInv'
    BY DEF FeedInv, ReplayInv, Latest, Opened, vars, stateVars, publishVars, subscriberVars
  <2> QED BY <2>1, NextReplayInv DEF FeedInv
<1>2. FeedInv /\ [Next]_vars => FeedInv'
  BY <1>1, NextIInv DEF FeedInv
<1>3. Init => FeedInv
  BY InitIInv, InitReplayInv DEF FeedInv
<1> QED BY <1>2, <1>3, PTL DEF Spec

\* No subscriber's versions go back, and one that missed nothing can replay Changed.
THEOREM EventsReplay == Spec => ReceivedEventsReplay
<1> DEFINE A == \A s \in Subscribers :
                  LET old == seen[s].snapshot
                      new == seen'[s].snapshot
                  IN  seen'[s] # seen[s] /\ old # NoSnapshot =>
                        /\ old.version <= new.version
                        /\ s \notin missed => seen'[s].changed = ChangedPaths(old, new)
<1>1. FeedInv /\ [Next]_vars => [A]_vars
  <2> SUFFICES ASSUME FeedInv, Next, NEW s \in Subscribers, seen'[s] # seen[s],
                      seen[s].snapshot # NoSnapshot
               PROVE  /\ seen[s].snapshot.version <= seen'[s].snapshot.version
                      /\ s \notin missed =>
                           seen'[s].changed = ChangedPaths(seen[s].snapshot, seen'[s].snapshot)
    OBVIOUS
  <2>1. Receive(s)
    <3>1. ~Unnoticed /\ ~FinishOpen /\ ~Shutdown
      BY DEF Unnoticed, FinishOpen, Shutdown, subscriberVars
    <3>2. \A t \in Thread : ~Commit(t) /\ ~Send(t) /\ ~FinishPublish(t)
      BY DEF Commit, Send, FinishPublish, subscriberVars
    <3>3. \A t \in Thread, x \in Subscribers : ~Drain(t, x) /\ ~Subscribe(x) /\ ~Unsubscribe(x)
      BY DEF Drain, Subscribe, Unsubscribe
    <3>4. PICK x \in Subscribers : Receive(x)
      BY FeedCases, <3>1, <3>2, <3>3
    <3>5. x = s
      BY <3>4 DEF Receive, FeedInv, IInv, TypeOK, SubscriberTypeOK
    <3> QED BY <3>4, <3>5
  <2>2. seen'[s] = Head(buf[s]) /\ buf[s] # <<>>
    BY <2>1 DEF Receive, FeedInv, IInv, TypeOK, SubscriberTypeOK
  <2> QED BY <2>2 DEF FeedInv, ReplayInv
<1> QED BY <1>1, FeedInductive, PTL DEF Spec, ReceivedEventsReplay

-----------------------------------------------------------------------------
(* Module Runtime implements module Feed.                                   *)

\* Feed speaks of snapshots and events in the words of Runtime.
LEMMA SameWords ==
  /\ Promise!NoEvent = NoEvent
  /\ \A n, f, c : Promise!Event(n, f, c) = Event(n, f, c)
  /\ \A old, next : Promise!ChangedPaths(old, next) = ChangedPaths(old, next)
  /\ \A old, next : Promise!SameSnapshot(old, next) <=> SameSnapshot(old, next)
BY DEF Promise!NoEvent, NoEvent, Promise!Event, Event, Promise!ChangedPaths, ChangedPaths,
       Promise!SameSnapshot, SameSnapshot

\* What the mailbox of a subscriber is when nothing is being published.
LEMMA QuietMailbox ==
  ASSUME targets = {}, draining = Nobody
  PROVE  /\ Owed = {}
         /\ \A s \in Subscribers : Reached(s) = IF buf[s] = <<>> THEN NoEvent ELSE Head(buf[s])
BY RuntimeAssumption DEF Owed, Reached

\* Steps that no subscriber notices are stutters.
LEMMA UnnoticedStutters == Unnoticed => UNCHANGED Promise!vars
BY DEF Unnoticed, Promise!vars, Registered, Owed, Reached

\* The first snapshot, which Open returns: nobody is subscribed yet.
LEMMA OpenStarts ==
  ASSUME FeedInv, FinishOpen
  PROVE  Promise!Start
<1>1. UNCHANGED <<failed, chan, buf, seen, message, targets, draining>> /\ ~Opened
  BY DEF FinishOpen, publishVars, subscriberVars
<1>2. current'.version = 1
  BY DEF FinishOpen, Snapshot
<1> QED BY <1>1, <1>2, SameWords
        DEF Promise!Start, Promise!Started, Opened, NoSnapshot, Registered, Owed, Reached

\* A commit announces its outcome, or nothing.
LEMMA CommitAnnounces ==
  ASSUME FeedInv, NEW t \in Thread, Commit(t)
  PROVE  [Promise!Next]_Promise!vars
<1> DEFINE Told(e) == /\ targets' = Registered /\ message' = e
<1>1. /\ Opened /\ targets = {} /\ draining = Nobody
      /\ UNCHANGED <<chan, draining, buf, seen, missed>>
  BY CommitCases DEF FeedInv
<1>2. CASE UNCHANGED <<current, targets, message, failed>>
  BY <1>1, <1>2, UnnoticedStutters DEF Unnoticed
<1>3. ASSUME NEW e, Told(e) PROVE Promise!Announce(e)
  <2>1. Owed = {} /\ Registered' = Registered /\ Owed' = Registered
    BY <1>1, <1>3 DEF Owed, Registered
  <2>2. [s \in Subscribers |-> Reached(s)]' = [s \in Subscribers |-> Reached(s)]
    BY <1>1 DEF Reached
  <2> QED BY <1>1, <1>3, <2>1, <2>2, SameWords
          DEF Promise!Announce, Promise!Started, Opened, NoSnapshot
<1>4. CASE current' = current /\ Told(Event(current, TRUE, {})) /\ failed' = TRUE
  BY <1>3, <1>4, SameWords DEF Promise!Fail, Promise!Next
<1>5. CASE current' = current /\ Told(Event(current, FALSE, {})) /\ failed /\ failed' = FALSE
  BY <1>3, <1>5, SameWords DEF Promise!Recover, Promise!Next
<1>6. CASE /\ current'.version = current.version + 1 /\ ~SameSnapshot(current, current')
           /\ Told(Event(current', FALSE, ChangedPaths(current, current'))) /\ failed' = FALSE
  BY <1>3, <1>6, SameWords DEF Promise!Advance, Promise!Next
<1> QED BY <1>2, <1>4, <1>5, <1>6, CommitCases DEF FeedInv

\* From the moment its channel is drained a subscriber has been reached.
LEMMA DrainOverwrites ==
  ASSUME FeedInv, NEW t \in Thread, NEW x \in Subscribers, Drain(t, x)
  PROVE  Promise!Overwrite(x)
<1>1. /\ draining = Nobody /\ draining' = x /\ buf' = [buf EXCEPT ![x] = <<>>]
      /\ x \in targets
      /\ UNCHANGED <<current, failed, message, targets, chan, seen>>
  BY DEF Drain, stateVars
<1>2. Owed = targets /\ Owed' = targets \ {x} /\ x \in Owed
  BY <1>1, RuntimeAssumption DEF Owed, FeedInv, IInv, TypeOK, SubscriberTypeOK
<1>3. \A s \in Subscribers : Reached(s)' = IF s = x THEN message ELSE Reached(s)
  <2> SUFFICES ASSUME NEW s \in Subscribers
               PROVE Reached(s)' = IF s = x THEN message ELSE Reached(s)
    OBVIOUS
  <2>1. s # draining
    BY <1>1, RuntimeAssumption
  <2>2. s # x => buf'[s] = buf[s]
    BY <1>1 DEF FeedInv, IInv, TypeOK, SubscriberTypeOK
  <2> QED BY <1>1, <2>1, <2>2 DEF Reached
<1>4. [s \in Subscribers |-> Reached(s)]'
        = [[s \in Subscribers |-> Reached(s)] EXCEPT ![x] = message]
  BY <1>3
<1>5. Registered' = Registered
  BY <1>1 DEF Registered
<1>6. Owed' = {} <=> Owed = {x}
  BY <1>2
<1> QED BY <1>1, <1>2, <1>4, <1>5, <1>6, SameWords DEF Promise!Overwrite

\* The send that follows, and the end of the publication, change nothing more.
LEMMA SendStutters ==
  ASSUME FeedInv, NEW t \in Thread, Send(t) \/ FinishPublish(t)
  PROVE  UNCHANGED Promise!vars
<1>1. CASE Send(t)
  <2>1. /\ draining # Nobody /\ buf[draining] = <<>>
        /\ buf' = [buf EXCEPT ![draining] = <<message>>]
        /\ targets' = targets \ {draining} /\ draining' = Nobody
        /\ UNCHANGED <<current, failed, message, chan, seen>>
    BY <1>1 DEF Send, stateVars
  <2>2. Owed' = Owed
    BY <2>1, RuntimeAssumption DEF Owed, FeedInv, IInv, TypeOK, SubscriberTypeOK
  <2>3. \A s \in Subscribers : Reached(s)' = Reached(s)
    <3> SUFFICES ASSUME NEW s \in Subscribers PROVE Reached(s)' = Reached(s)
      OBVIOUS
    <3>1. s # draining'
      BY <2>1, RuntimeAssumption
    <3>2. IF s = draining THEN buf'[s] = <<message>> ELSE buf'[s] = buf[s]
      BY <2>1 DEF FeedInv, IInv, TypeOK, SubscriberTypeOK
    <3> QED BY <2>1, <3>1, <3>2 DEF Reached
  <2> QED BY <2>1, <2>2, <2>3 DEF Promise!vars, Registered
<1>2. CASE FinishPublish(t)
  <2>1. /\ targets = {} /\ UNCHANGED <<current, failed, chan, buf, seen, targets, draining>>
    BY <1>2 DEF FinishPublish, stateVars, subscriberVars
  <2>2. draining = Nobody /\ draining' = Nobody
    BY <2>1 DEF FeedInv, IInv, PublishInv
  <2>3. Owed = {} /\ Owed' = {}
    BY <2>1 DEF Owed
  <2>4. \A s \in Subscribers : Reached(s)' = Reached(s)
    BY <2>1, <2>2, RuntimeAssumption DEF Reached
  <2> QED BY <2>1, <2>3, <2>4 DEF Promise!vars, Registered
<1> QED BY <1>1, <1>2

\* Between publications subscribers come and go: a subscription that is refused, its
\* context or the runtime having ended, is nobody's news.
LEMMA SubscribeJoins ==
  ASSUME FeedInv, NEW x \in Subscribers, Subscribe(x)
  PROVE  Promise!Join(x) \/ UNCHANGED Promise!vars
<1>1. /\ chan[x] = "none" /\ Opened /\ targets = {} /\ draining = Nobody
      /\ buf[x] = <<>> /\ seen[x] = NoEvent
      /\ UNCHANGED <<current, failed, targets, draining, message, seen>>
      /\ chan \in [Subscribers -> {"none", "open", "closed"}]
      /\ buf \in [Subscribers -> Seq(EventType)]
  BY DEF Subscribe, stateVars, publishVars, FeedInv, ReplayInv, IInv, PublishInv, TypeOK,
         SubscriberTypeOK
<1>2. CASE chan' = [chan EXCEPT ![x] = "closed"] /\ buf' = buf
  <2>1. Registered' = Registered
    BY <1>1, <1>2 DEF Registered
  <2> QED BY <1>1, <1>2, <2>1 DEF Promise!vars, Owed, Reached
<1>3. CASE /\ chan' = [chan EXCEPT ![x] = "open"]
           /\ buf' = [buf EXCEPT ![x] = <<Event(current, FALSE, {})>>]
  <2>1. x \notin Registered /\ Registered' = Registered \cup {x}
    BY <1>1, <1>3 DEF Registered
  <2>2. Owed = {} /\ Owed' = {}
    BY <1>1 DEF Owed
  <2>3. \A s \in Subscribers :
          Reached(s)' = IF s = x THEN Event(current, FALSE, {}) ELSE Reached(s)
    <3> SUFFICES ASSUME NEW s \in Subscribers
                 PROVE Reached(s)' = IF s = x THEN Event(current, FALSE, {}) ELSE Reached(s)
      OBVIOUS
    <3>1. buf'[s] = IF s = x THEN <<Event(current, FALSE, {})>> ELSE buf[s]
      BY <1>1, <1>3
    <3>2. \A e : <<e>> # <<>> /\ Head(<<e>>) = e
      OBVIOUS
    <3>3. s # draining' /\ s # draining
      BY <1>1, RuntimeAssumption
    <3> QED BY <3>1, <3>2, <3>3 DEF Reached
  <2>4. Reached(x) = NoEvent
    BY <1>1, RuntimeAssumption DEF Reached
  <2>5. [s \in Subscribers |-> Reached(s)]'
          = [[s \in Subscribers |-> Reached(s)] EXCEPT ![x] = Event(current, FALSE, {})]
    BY <2>3
  <2> QED BY <1>1, <2>1, <2>2, <2>4, <2>5, SameWords
          DEF Promise!Join, Promise!Started, Opened, NoSnapshot
<1> QED BY <1>2, <1>3 DEF Subscribe

LEMMA UnsubscribeQuits ==
  ASSUME FeedInv, NEW x \in Subscribers, Unsubscribe(x)
  PROVE  Promise!Quit({x})
<1>1. /\ chan[x] = "open" /\ chan' = [chan EXCEPT ![x] = "closed"] /\ targets = {}
      /\ UNCHANGED <<current, failed, targets, draining, message, buf, seen>>
      /\ chan \in [Subscribers -> {"none", "open", "closed"}]
  BY DEF Unsubscribe, stateVars, publishVars, FeedInv, IInv, PublishInv, TypeOK, SubscriberTypeOK
<1>2. x \in Registered /\ Registered' = Registered \ {x}
  BY <1>1 DEF Registered
<1>3. Owed = {} /\ Owed' = {}
  BY <1>1 DEF Owed
<1>4. \A s \in Subscribers : Reached(s)' = Reached(s)
  BY <1>1 DEF Reached
<1> QED BY <1>1, <1>2, <1>3, <1>4 DEF Promise!Quit

LEMMA ShutdownQuits ==
  ASSUME FeedInv, Shutdown
  PROVE  Promise!Quit(Registered)
<1>1. /\ targets = {} /\ UNCHANGED <<current, failed, targets, draining, message, buf, seen>>
      /\ \A s \in Subscribers : chan'[s] # "open"
  BY DEF Shutdown, publishVars, FeedInv, IInv, PublishInv
<1>2. Registered' = Registered \ Registered
  BY <1>1 DEF Registered
<1>3. Owed = {} /\ Owed' = {}
  BY <1>1 DEF Owed
<1>4. \A s \in Subscribers : Reached(s)' = Reached(s)
  BY <1>1 DEF Reached
<1> QED BY <1>1, <1>2, <1>3, <1>4 DEF Promise!Quit

\* A subscriber reads its mailbox, never while publish is between drain and send.
LEMMA ReceiveReads ==
  ASSUME FeedInv, NEW x \in Subscribers, Receive(x)
  PROVE  Promise!Read(x)
<1>1. /\ buf[x] # <<>> /\ seen' = [seen EXCEPT ![x] = Head(buf[x])]
      /\ buf' = [buf EXCEPT ![x] = <<>>]
      /\ UNCHANGED <<current, failed, message, targets, draining, chan>>
      /\ buf \in [Subscribers -> Seq(EventType)]
  BY DEF Receive, stateVars, publishVars, FeedInv, IInv, TypeOK, SubscriberTypeOK
<1>2. x # draining
  BY <1>1 DEF FeedInv, IInv, PublishInv
<1>3. Reached(x) = Head(buf[x]) /\ Reached(x) # NoEvent
  BY <1>1, <1>2, EventsAreWhole DEF Reached
<1>4. \A s \in Subscribers : Reached(s)' = IF s = x THEN NoEvent ELSE Reached(s)
  <2> SUFFICES ASSUME NEW s \in Subscribers
               PROVE Reached(s)' = IF s = x THEN NoEvent ELSE Reached(s)
    OBVIOUS
  <2>1. buf'[s] = IF s = x THEN <<>> ELSE buf[s]
    BY <1>1
  <2> QED BY <1>1, <1>2, <2>1 DEF Reached
<1>5. [s \in Subscribers |-> Reached(s)]'
        = [[s \in Subscribers |-> Reached(s)] EXCEPT ![x] = NoEvent]
  BY <1>4
<1>6. Registered' = Registered /\ Owed' = Owed
  BY <1>1 DEF Registered, Owed
<1> QED BY <1>1, <1>3, <1>5, <1>6, SameWords DEF Promise!Read

LEMMA StepImplementsFeed == FeedInv /\ [Next]_vars => [Promise!Next]_Promise!vars
<1> SUFFICES ASSUME FeedInv, [Next]_vars PROVE [Promise!Next]_Promise!vars
  OBVIOUS
<1>1. CASE UNCHANGED vars
  <2>1. Unnoticed
    BY <1>1 DEF vars, stateVars, publishVars, subscriberVars, Unnoticed
  <2> QED BY <2>1, UnnoticedStutters
<1>2. CASE FinishOpen
  BY <1>2, OpenStarts DEF Promise!Next
<1>3. CASE Shutdown
  <2>1. Registered \in SUBSET Subscribers
    BY DEF Registered
  <2> QED BY <1>3, <2>1, ShutdownQuits DEF Promise!Next
<1>4. ASSUME NEW t \in Thread, NEW x \in Subscribers, Drain(t, x)
      PROVE  Promise!Next
  BY <1>4, DrainOverwrites DEF Promise!Next
<1>5. ASSUME NEW x \in Subscribers, Subscribe(x) \/ Unsubscribe(x) \/ Receive(x)
      PROVE  [Promise!Next]_Promise!vars
  <2>1. {x} \in SUBSET Subscribers
    OBVIOUS
  <2> QED BY <1>5, <2>1, SubscribeJoins, UnsubscribeQuits, ReceiveReads DEF Promise!Next
<1> QED BY FeedCases, UnnoticedStutters, CommitAnnounces, SendStutters,
           <1>1, <1>2, <1>3, <1>4, <1>5

LEMMA InitImplementsFeed == Init => Promise!Init
<1> SUFFICES ASSUME Init PROVE Promise!Init
  OBVIOUS
<1>1. /\ targets = {} /\ message = NoEvent /\ failed = FALSE /\ current = NoSnapshot
      /\ chan = [s \in Subscribers |-> "none"] /\ buf = [s \in Subscribers |-> <<>>]
      /\ seen = [s \in Subscribers |-> NoEvent] /\ draining = Nobody
  BY DEF Init
<1>2. Registered = {}
  BY <1>1 DEF Registered
<1>3. Owed = {} /\ \A s \in Subscribers : Reached(s) = NoEvent
  BY <1>1, QuietMailbox
<1> QED BY <1>1, <1>2, <1>3, SameWords DEF Promise!Init, Promise!Nothing, NoSnapshot

\* Whatever sources, callers and subscribers there are, a runtime keeps to what module
\* Feed says of its subscribers.
THEOREM Implements == Spec => ImplementsFeed
BY InitImplementsFeed, StepImplementsFeed, FeedInductive, PTL DEF Spec, ImplementsFeed, Promise!Spec
=============================================================================
