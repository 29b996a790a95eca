------------------------- MODULE RuntimeProperties -------------------------
(***************************************************************************)
(* What runtime.go promises, stated over module Runtime.                    *)
(***************************************************************************)
EXTENDS Runtime

SnapshotType ==
  [version : Nat \ {0}, values : Values, origins : [Path -> SUBSET Source],
   revisions : [Source -> Revision], degraded : SUBSET Source]

EventType ==
  [snapshot : SnapshotType, err : BOOLEAN, changed : SUBSET Path]

Reading == [gen : 0..MaxChanges, content : Layer]

Label == {"watch", "hold", "select", "debounce", "stop", "done", "idle", "enter",
          "gate", "load", "read", "built", "publish", "release"}

Outcome == {"none", "cancelled", "unreadable", "rejected", "degraded", "closed"}

SourceTypeOK ==
  /\ store \in [Source -> [gen : 0..MaxChanges, content : Layer \cup {Unreadable}]]
  /\ pend \subseteq Source /\ stops \in Seq(Watched)
  /\ dirty \in BOOLEAN /\ rootDone \in BOOLEAN

ThreadTypeOK ==
  /\ pc \in [Thread -> Label]
  /\ ctxDone \subseteq Callers
  /\ got \in [Thread -> Seq(Reading)]
  /\ err \in [Thread -> Outcome]
  /\ gate \in Thread \cup Closers \cup {Nobody}
  /\ mu \in Thread \cup {Nobody}

StateTypeOK ==
  /\ current \in SnapshotType \cup {NoSnapshot}
  /\ failed \in BOOLEAN /\ closed \in BOOLEAN
  /\ accepted \in [Source -> 0..MaxChanges]

SubscriberTypeOK ==
  /\ chan \in [Subscribers -> {"none", "open", "closed"}]
  /\ subDone \subseteq Subscribers /\ missed \subseteq Subscribers
  /\ buf \in [Subscribers -> Seq(EventType)]
  /\ seen \in [Subscribers -> EventType \cup {NoEvent}]
  /\ message \in EventType \cup {NoEvent}
  /\ targets \subseteq Subscribers /\ draining \in Subscribers \cup {Nobody}

CallTypeOK ==
  /\ closer \in [Closers -> {"idle", "wait", "gate", "returned"}]
  /\ floor \in [Callers -> [Source -> 0..MaxChanges]]
  /\ reloads \in [Callers -> 0..MaxReloads]

\* Every variable has its type: a load never holds an unreadable store's content,
\* and what is published always carries a whole snapshot.
TypeOK ==
  SourceTypeOK /\ ThreadTypeOK /\ StateTypeOK /\ SubscriberTypeOK /\ CallTypeOK

-----------------------------------------------------------------------------
(* Serialization.                                                           *)

\* "Reloads ... are serialized" (docs/runtime.md:11): from the first Read to the
\* end of the publication no two threads are inside a rebuild, Open's included.
Rebuilding == {"load", "read", "built", "publish", "release"}
OneRebuildAtATime ==
  \A t, u \in Thread : pc[t] \in Rebuilding /\ pc[u] \in Rebuilding => t = u

\* A rebuild is never published over one that read a store later: for every
\* source, what the accepted build saw only gets newer.
AcceptedNeverRegresses ==
  [][\A s \in Source : accepted[s] <= accepted'[s]]_vars

\* A Reload that returns no error has accepted everything written to any store
\* before the call: it never returns another call's earlier work.
ReloadSeesPriorWrites ==
  \A t \in Callers :
    pc[t] \in {"publish", "release"} /\ err[t] = "none" =>
      \A s \in Source : floor[t][s] <= accepted[s]

-----------------------------------------------------------------------------
(* Invalidation.                                                            *)

\* The run goroutine is bound to Read source s again, holds what s still has
\* (Open, held by a degraded load, included), or is about to report a failure.
RunWillSee(s) ==
  \/ pc[Run] \in {"watch", "debounce", "enter", "gate"}
  \/ /\ pc[Run] \in {"load", "read", "built", "hold"}
     /\ Len(got[Run]) >= s => got[Run][s].gen = store[s].gen
  \/ pc[Run] = "built" /\ err[Run] \notin {"none", "degraded"}

\* "changes during a rebuild schedule another pass" (docs/runtime.md:12): a
\* change of a watched source that no accepted build has seen is on its way - as
\* a notification, as the token, or in the run goroutine - unless a failure stands
\* that subscribers were told of, or the runtime is going down.
NoLostInvalidation ==
  \A s \in Watched :
    \/ Opened /\ accepted[s] = store[s].gen
    \/ s \in pend \/ dirty \/ RunWillSee(s)
    \/ failed \/ rootDone

-----------------------------------------------------------------------------
(* Publication.                                                             *)

\* publish holds mu while it sends, so a send that blocked would stop every
\* method of the runtime, and one on a closed channel would panic.
SendNeverBlocks ==
  draining # Nobody =>
    buf[draining] = <<>> /\ chan[draining] = "open" /\ mu # Nobody

\* What subscriber s has received last, or will when it looks.
Latest(s) == IF buf[s] = <<>> THEN seen[s] ELSE Head(buf[s])

\* Between publications, what each registered subscriber holds or will receive
\* next is the current snapshot, and it is told of a failure only while the last
\* rebuild did fail: a recovery is published even if the snapshot is the same.
SubscriberKnowsCurrent ==
  mu = Nobody =>
    \A s \in Registered :
      Latest(s).snapshot = current /\ (Latest(s).err => failed)

\* Versions never go back for a subscriber, and one that had no event replaced
\* can replay Event.Changed: outside those paths nothing has changed since the
\* event it received before, inside all have.
ReceivedEventsReplay ==
  [][\A s \in Subscribers :
       LET old == seen[s].snapshot
           new == seen'[s].snapshot
       IN  seen'[s] # seen[s] /\ old # NoSnapshot =>
             /\ old.version <= new.version
             /\ s \notin missed => seen'[s].changed = ChangedPaths(old, new)]_vars

\* The runtime implements module Feed: an announcement is made when Reload commits
\* and reaches a subscriber when its channel is drained, from when on the send
\* cannot fail.
Reached(s) == IF s = draining THEN message
              ELSE IF buf[s] = <<>> THEN NoEvent ELSE Head(buf[s])
Owed == targets \ {draining}

Promise == INSTANCE Feed WITH
  Member <- Subscribers, snapshot <- current, failing <- failed,
  members <- Registered, owed <- Owed,
  news <- IF Owed = {} THEN NoEvent ELSE message,
  mailbox <- [s \in Subscribers |-> Reached(s)], heard <- seen

\* Runtime implements Feed.  Event's doc (runtime.go:17) and docs/runtime.md:15:
\* the current snapshot at once, then the latest event in place of an unread one,
\* joining and leaving never tearing a publication.
ImplementsFeed == Promise!Spec

-----------------------------------------------------------------------------
(* Shutdown.                                                                *)

\* Once run has ended, no watcher is registered or may still notify and every
\* subscription is closed, however Open, Close and Reload calls interleaved.
NothingLeftBehind ==
  pc[Run] = "done" => stops = <<>> /\ pend = {} /\ Registered = {} /\ rootDone

\* After shutdown a rebuild still in flight publishes nothing.
QuietAfterShutdown ==
  [][closed => UNCHANGED <<current, failed, accepted, mu, message>>]_vars

\* "Close cancels reads/watchers and waits for shutdown" (runtime.go:157): when
\* Close has returned, no source is being read.
NoReadAfterClose ==
  (\E c \in Closers : closer[c] = "returned") => \A t \in Thread : pc[t] # "read"

-----------------------------------------------------------------------------
(* Progress.                                                                *)

StoresValid ==
  /\ \A s \in Source : store[s].content # Unreadable
  /\ Verdict[Merged([s \in Source |-> store[s].content])] = "valid"

\* current was built from what the stores hold, and every subscriber knows it.
Converged ==
  /\ Opened /\ accepted = Gens
  /\ SameSnapshot(current, Snapshot(0, [s \in Source |-> store[s].content]))
  /\ \A s \in Registered : seen[s].snapshot = current

\* When every source is watched, once the stores have settled on a valid
\* configuration the runtime ends up with it, a held Open included, whatever
\* failed or was cancelled on the way - unless the runtime is ended.
Converges ==
  <>[](StoresValid /\ ~rootDone) => <>[](Converged \/ rootDone)

\* Close returns, and so does every Reload, whoever else reloads or closes.
CallsEnd ==
  /\ \A c \in Closers : closer[c] = "wait" ~> closer[c] = "returned"
  /\ \A t \in Callers : pc[t] = "enter" ~> pc[t] = "idle"
=============================================================================
