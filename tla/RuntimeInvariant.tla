-------------------------- MODULE RuntimeInvariant --------------------------
(***************************************************************************)
(* The inductive invariant of module Runtime, in parts: what its safety     *)
(* properties rest on and module RuntimeProofs proves.                      *)
(***************************************************************************)
EXTENDS RuntimeProperties

\* Where a thread is, and how far its load is.
LoadInv ==
  \A t \in Thread :
    /\ pc[t] \in {"load", "read"} => err[t] = "none" /\ Len(got[t]) <= NumSources
    /\ pc[t] = "read" => Len(got[t]) < NumSources
    /\ pc[t] = "built" /\ err[t] = "none" => Len(got[t]) = NumSources

\* Before Open succeeds only the goroutine of Open is at work; after, it is past Open.
PhaseInv ==
  /\ pc[Run] # "idle"
  /\ \A t \in Callers : pc[t] \notin {"watch", "hold", "select", "debounce", "stop", "done"}
  /\ Opened => pc[Run] \notin {"watch", "hold"}
  /\ ~Opened => /\ pc[Run] \in {"watch", "hold", "load", "read", "built", "stop", "done"}
                /\ \A t \in Callers : pc[t] = "idle"

\* Rebuilds hold the gate, except those of Open.
GateInv ==
  /\ \A t \in Thread : pc[t] \in Rebuilding => gate = t \/ (t = Run /\ ~Opened)
  /\ \A c \in Closers : closer[c] = "gate" => gate = c

\* mu is held exactly while publishing, by one thread, with something to send; the
\* channels it has yet to serve are open, and the one it drained is empty.
PublishInv ==
  /\ \A t \in Thread : pc[t] = "publish" <=> mu = t
  /\ mu # Nobody => message # NoEvent /\ targets \subseteq Registered
  /\ mu = Nobody => targets = {}
  /\ draining # Nobody => draining \in targets /\ buf[draining] = <<>>

\* A build is never older than what was accepted before it, than what the caller
\* could have written before its call, nor newer than the stores.
FreshInv ==
  /\ \A s \in Source : accepted[s] <= store[s].gen
  /\ \A t \in Callers, s \in Source : floor[t][s] <= store[s].gen
  /\ \A t \in Thread : pc[t] \in {"load", "read", "built"} =>
       \A s \in Source : s <= Len(got[t]) =>
         /\ accepted[s] <= got[t][s].gen /\ got[t][s].gen <= store[s].gen
         /\ t \in Callers => floor[t][s] <= got[t][s].gen
  /\ ReloadSeesPriorWrites

\* Registered channels that publish has served, or need not serve, lead to current.
KnowsInv ==
  /\ mu # Nobody => message.snapshot = current /\ (message.err => failed)
  /\ \A s \in Registered \ targets :
       Latest(s).snapshot = current /\ (Latest(s).err => failed)

\* What run's deferred calls achieve stays achieved.
ShutdownInv ==
  /\ closed => Opened /\ mu = Nobody
  /\ pend \subseteq ToSet(stops)
  /\ pc[Run] \in {"stop", "done"} => rootDone
  /\ pc[Run] = "done" => stops = <<>> /\ Registered = {}
  /\ ~Opened => Registered = {}

\* A change that no accepted build has seen, and no load at work, is on its way.
OnItsWay(s) == s \in pend \/ dirty \/ RunWillSee(s) \/ rootDone

\* Once Open is past Watch every change owes a notification; and what a load at work
\* has read is either still current or known to be outdated, so that accepting it,
\* after a failure too, forgets nothing.
InvalidationInv ==
  /\ closed => rootDone
  /\ pc[Run] = "watch" \/ rootDone \/ Watched \subseteq ToSet(stops)
  /\ \A t \in Thread, s \in Watched :
       pc[t] \in {"load", "read", "built"} /\ s <= Len(got[t]) =>
         got[t][s].gen = store[s].gen \/ OnItsWay(s)
  /\ NoLostInvalidation

\* The whole: a rebuild owns the gate and reads forward, a publication owns mu and
\* leaves every channel it has passed on the current snapshot, what run's deferred
\* calls have ended stays ended, and changes are seen or on their way.
IInv ==
  /\ TypeOK /\ LoadInv /\ PhaseInv /\ GateInv /\ PublishInv
  /\ FreshInv /\ KnowsInv /\ ShutdownInv /\ InvalidationInv

\* What a subscriber reads next, or may be sent, follows on what it read last: versions
\* do not go back, and unless an event was replaced in between, Changed says what has
\* become different.  Whoever has not subscribed has received nothing.
ReplayInv ==
  \A s \in Subscribers :
    /\ chan[s] = "none" => seen[s] = NoEvent /\ buf[s] = <<>>
    /\ seen[s].snapshot # NoSnapshot =>
         /\ Opened /\ seen[s].snapshot.version <= current.version
         /\ buf[s] # <<>> =>
              /\ seen[s].snapshot.version <= Head(buf[s]).snapshot.version
              /\ s \notin missed =>
                   Head(buf[s]).changed = ChangedPaths(seen[s].snapshot, Head(buf[s]).snapshot)
    /\ buf[s] # <<>> => Head(buf[s]).snapshot.version <= current.version
    /\ s \in targets /\ (s # draining \/ s \notin missed) /\ Latest(s).snapshot # NoSnapshot =>
         message.changed = ChangedPaths(Latest(s).snapshot, message.snapshot)

\* What the implementation of module Feed rests on.
FeedInv == IInv /\ ReplayInv
=============================================================================
