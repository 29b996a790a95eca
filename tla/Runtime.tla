------------------------------ MODULE Runtime ------------------------------
(***************************************************************************)
(* runtime.go together with loader.load (xconf.go): a runtime opens over    *)
(* its sources, rebuilds on invalidation and on demand, publishes snapshots *)
(* to subscribers, and shuts down.                                          *)
(*                                                                          *)
(* Threads are goroutines.  Run is the goroutine that calls Open and, once  *)
(* Open succeeds, the loop started by `go r.run()`; Callers call Reload;    *)
(* Closers call Close.  A subscriber is one channel with its receiver and   *)
(* its unsubscribing goroutine.  Each source has a store that changes by    *)
(* itself; the sources in Watched notify the runtime after a change.        *)
(*                                                                          *)
(* A step is what runs between two points where another goroutine can be    *)
(* observed: a channel operation, a lock, a context check, the beginning    *)
(* and the end of a Read.                                                   *)
(***************************************************************************)
EXTENDS Snapshots

CONSTANTS NumSources,   \* sources, numbered by increasing priority
          Watched,      \* the sources that are Watchers
          Contents,     \* what each source's store may hold
          Unreadable,   \* a store whose Read fails
          Run,          \* the goroutine of Open and run
          Callers, Closers, Subscribers,
          Nobody,       \* holder of a free lock
          MaxChanges,   \* bound: changes of one store
          MaxReloads    \* bound: Reload calls of one caller

Source == 1..NumSources
Thread == Callers \cup {Run}

ASSUME RuntimeAssumption ==
  /\ NumSources \in Nat
  /\ Watched \subseteq Source
  /\ Contents \in [Source -> SUBSET (Layer \cup {Unreadable})]
  /\ Unreadable \notin Layer
  /\ Run \notin Callers
  /\ Thread \cap Closers = {}
  /\ Nobody \notin Thread \cup Closers \cup Subscribers
  /\ MaxChanges \in Nat /\ MaxReloads \in Nat

VARIABLES
  store,      \* per source: its content and how often it has changed (gen)
  pend,       \* sources whose watcher has yet to call notify
  stops,      \* r.stops: registered watchers, in registration order
  dirty,      \* r.dirty holds its token
  rootDone,   \* r.ctx is cancelled
  pc,         \* where each thread is
  ctxDone,    \* callers whose context, or the readCtx made of it, is cancelled
  got,        \* what each thread's load has read so far
  err,        \* the outcome of each thread's load
  gate,       \* r.gate: who sent the token it holds
  mu,         \* r.mu: which thread publishes while holding it
  current, failed, closed,           \* the fields of Runtime
  chan,       \* per subscriber: not made, registered, or closed
  subDone,    \* subscribers whose context is cancelled
  buf,        \* the channel's buffer, of capacity 1
  seen,       \* the last event the subscriber received
  missed,     \* subscribers that had an event replaced since they last received
  message, targets, draining,        \* publish: event, channels left, channel drained
  closer,     \* where each Close call is
  accepted,   \* history: the gens of the last build Reload or Open accepted
  floor,      \* history: the gens when the caller's Reload began
  reloads     \* calls made, for MaxReloads

sourceVars == <<store, pend>>
loadVars == <<got, err>>
stateVars == <<current, failed, closed, accepted>>
publishVars == <<mu, message, targets, draining>>
subscriberVars == <<chan, subDone, buf, seen, missed>>
callVars == <<ctxDone, floor, reloads>>
vars == <<sourceVars, stops, dirty, rootDone, pc, loadVars, gate, stateVars,
          publishVars, subscriberVars, closer, callVars>>

Goto(t, label) == pc' = [pc EXCEPT ![t] = label]

NoSnapshot == NoEvent.snapshot
Opened == current # NoSnapshot
Registered == {s \in Subscribers : chan[s] = "open"}
Gens == [s \in Source |-> store[s].gen]

\* The context a thread's load runs under.  Cancelling r.ctx reaches its
\* children before cancel returns, so Run sees it at once; a caller's readCtx is
\* cancelled by an AfterFunc, a goroutine of its own.
Cancelled(t) == IF t = Run THEN rootDone ELSE t \in ctxDone

Home(t) == IF t = Run THEN "select" ELSE "idle"

Init ==
  /\ store \in [Source -> [gen : {0}, content : Layer \cup {Unreadable}]]
  /\ \A s \in Source : store[s].content \in Contents[s]
  /\ pend = {} /\ stops = <<>> /\ dirty = FALSE /\ rootDone = FALSE
  /\ pc = [t \in Thread |-> IF t = Run THEN "watch" ELSE "idle"]
  /\ ctxDone = {}
  /\ got = [t \in Thread |-> <<>>] /\ err = [t \in Thread |-> "none"]
  /\ gate = Nobody /\ mu = Nobody
  /\ current = NoSnapshot /\ failed = FALSE /\ closed = FALSE
  /\ chan = [s \in Subscribers |-> "none"] /\ subDone = {}
  /\ buf = [s \in Subscribers |-> <<>>]
  /\ seen = [s \in Subscribers |-> NoEvent] /\ missed = {}
  /\ message = NoEvent /\ targets = {} /\ draining = Nobody
  /\ closer = [c \in Closers |-> "idle"]
  /\ accepted = [s \in Source |-> 0]
  /\ floor = [t \in Callers |-> [s \in Source |-> 0]]
  /\ reloads = [t \in Callers |-> 0]

-----------------------------------------------------------------------------
(* The world outside: stores, watchers' goroutines, contexts.               *)

\* A store changes, possibly to the content it already had (a poll tick).  The
\* watcher of a registered source owes a notification from then on.
Change(s) ==
  /\ store[s].gen < MaxChanges
  /\ \E content \in Contents[s] :
       store' = [store EXCEPT ![s] = [gen |-> @.gen + 1, content |-> content]]
  /\ pend' = IF s \in ToSet(stops) THEN pend \cup {s} ELSE pend
  /\ UNCHANGED <<stops, dirty, rootDone, pc, loadVars, gate, stateVars,
                 publishVars, subscriberVars, closer, callVars>>

\* Mutant: an unbuffered r.dirty, whose send is dropped when nobody waits for it.
NotifyUnbuffered(s) ==
  /\ s \in pend
  /\ pend' = pend \ {s}
  /\ dirty' = (dirty \/ pc[Run] \in {"hold", "select", "debounce"})
  /\ UNCHANGED <<store, stops, rootDone, pc, loadVars, gate, stateVars,
                 publishVars, subscriberVars, closer, callVars>>

\* r.invalidate: the send is dropped when the token is already there.
Notify(s) ==
  /\ s \in pend
  /\ pend' = pend \ {s}
  /\ dirty' = TRUE
  /\ UNCHANGED <<store, stops, rootDone, pc, loadVars, gate, stateVars,
                 publishVars, subscriberVars, closer, callVars>>

\* The context given to Open ends.
CancelOpenContext ==
  /\ ~rootDone
  /\ rootDone' = TRUE
  /\ UNCHANGED <<sourceVars, stops, dirty, pc, loadVars, gate, stateVars,
                 publishVars, subscriberVars, closer, callVars>>

\* A caller gives up, or the AfterFunc that Reload registered once it had the
\* gate passes the runtime's cancellation on.
CancelCall(t) ==
  /\ pc[t] # "idle" /\ t \notin ctxDone
  /\ ctxDone' = ctxDone \cup {t}
  /\ UNCHANGED <<sourceVars, stops, dirty, rootDone, pc, loadVars, gate, stateVars,
                 publishVars, subscriberVars, closer, floor, reloads>>

AfterRootCancel(t) ==
  /\ rootDone /\ pc[t] \in {"load", "read", "built"} /\ t \notin ctxDone
  /\ ctxDone' = ctxDone \cup {t}
  /\ UNCHANGED <<sourceVars, stops, dirty, rootDone, pc, loadVars, gate, stateVars,
                 publishVars, subscriberVars, closer, floor, reloads>>

-----------------------------------------------------------------------------
(* loader.load and build, under the gate or inside Open.                    *)

\* Mutant: `continue` where the context check should return.
BeginReadContinues(t) ==
  /\ pc[t] = "load" /\ Len(got[t]) < NumSources
  /\ IF Cancelled(t) THEN UNCHANGED pc ELSE Goto(t, "read")
  /\ UNCHANGED <<sourceVars, stops, dirty, rootDone, loadVars, gate, stateVars,
                 publishVars, subscriberVars, closer, callVars>>

\* The context check before each Read.
BeginRead(t) ==
  /\ pc[t] = "load" /\ Len(got[t]) < NumSources
  /\ IF Cancelled(t)
       THEN Goto(t, "built") /\ err' = [err EXCEPT ![t] = "cancelled"]
       ELSE Goto(t, "read") /\ UNCHANGED err
  /\ UNCHANGED <<sourceVars, stops, dirty, rootDone, got, gate, stateVars,
                 publishVars, subscriberVars, closer, callVars>>

\* Read returns what the store holds now, or fails because the store cannot be
\* read, or may fail because its context has ended meanwhile.
EndRead(t) ==
  /\ pc[t] = "read"
  /\ LET s == Len(got[t]) + 1
     IN  \/ /\ store[s].content # Unreadable
            /\ got' = [got EXCEPT ![t] = Append(@, store[s])]
            /\ Goto(t, "load") /\ UNCHANGED err
         \/ /\ store[s].content = Unreadable
            /\ err' = [err EXCEPT ![t] = "unreadable"]
            /\ Goto(t, "built") /\ UNCHANGED got
         \/ /\ Cancelled(t)
            /\ err' = [err EXCEPT ![t] = "cancelled"]
            /\ Goto(t, "built") /\ UNCHANGED got
  /\ UNCHANGED <<sourceVars, stops, dirty, rootDone, gate, stateVars,
                 publishVars, subscriberVars, closer, callVars>>

Layers(t) == [i \in DOMAIN got[t] |-> got[t][i].content]

\* All sources are read: the last context check, baking, the typed check.
Bake(t) ==
  /\ pc[t] = "load" /\ Len(got[t]) = NumSources
  /\ err' = [err EXCEPT ![t] = IF Cancelled(t) THEN "cancelled"
                               ELSE BuildError(Layers(t))]
  /\ Goto(t, "built")
  /\ UNCHANGED <<sourceVars, stops, dirty, rootDone, got, gate, stateVars,
                 publishVars, subscriberVars, closer, callVars>>

StartLoad(t) ==
  /\ Goto(t, "load")
  /\ got' = [got EXCEPT ![t] = <<>>]
  /\ err' = [err EXCEPT ![t] = "none"]

-----------------------------------------------------------------------------
(* Open.                                                                    *)

Unwatched == Watched \ ToSet(stops)

\* Mutant: a Watch that fails ends Open at once.
RegisterWatcherReturns ==
  /\ pc[Run] = "watch" /\ Unwatched # {}
  /\ \/ stops' = Append(stops, Min(Unwatched)) /\ UNCHANGED <<rootDone, pc>>
     \/ rootDone' = TRUE /\ Goto(Run, "done") /\ UNCHANGED stops
  /\ UNCHANGED <<sourceVars, dirty, loadVars, gate, stateVars,
                 publishVars, subscriberVars, closer, callVars>>

\* Watch is called on the Watchers in source order; one that fails aborts Open.
RegisterWatcher ==
  /\ pc[Run] = "watch" /\ Unwatched # {}
  /\ \/ stops' = Append(stops, Min(Unwatched)) /\ UNCHANGED <<rootDone, pc>>
     \/ rootDone' = TRUE /\ Goto(Run, "stop") /\ UNCHANGED stops
  /\ UNCHANGED <<sourceVars, dirty, loadVars, gate, stateVars,
                 publishVars, subscriberVars, closer, callVars>>

FirstLoad ==
  /\ pc[Run] = "watch" /\ Unwatched = {}
  /\ StartLoad(Run)
  /\ UNCHANGED <<sourceVars, stops, dirty, rootDone, gate, stateVars,
                 publishVars, subscriberVars, closer, callVars>>

\* A load rejected while a source is degraded holds Open until a notification.
HoldOpen ==
  /\ pc[Run] = "built" /\ ~Opened /\ err[Run] = "degraded" /\ ~rootDone
  /\ Goto(Run, "hold")
  /\ UNCHANGED <<sourceVars, stops, dirty, rootDone, loadVars, gate, stateVars,
                 publishVars, subscriberVars, closer, callVars>>

RetryOpen ==
  /\ pc[Run] = "hold" /\ dirty
  /\ dirty' = FALSE
  /\ StartLoad(Run)
  /\ UNCHANGED <<sourceVars, stops, rootDone, gate, stateVars,
                 publishVars, subscriberVars, closer, callVars>>

FailOpen ==
  /\ \/ pc[Run] = "hold" /\ rootDone
     \/ pc[Run] = "built" /\ ~Opened /\ (rootDone \/ err[Run] \notin {"none", "degraded"})
  /\ rootDone' = TRUE
  /\ Goto(Run, "stop")
  /\ UNCHANGED <<sourceVars, stops, dirty, loadVars, gate, stateVars,
                 publishVars, subscriberVars, closer, callVars>>

FinishOpen ==
  /\ pc[Run] = "built" /\ ~Opened /\ err[Run] = "none" /\ ~rootDone
  /\ current' = Snapshot(1, Layers(Run))
  /\ accepted' = [s \in Source |-> got[Run][s].gen]
  /\ got' = [got EXCEPT ![Run] = <<>>]
  /\ Goto(Run, "select")
  /\ UNCHANGED <<sourceVars, stops, dirty, rootDone, err, gate, failed, closed,
                 publishVars, subscriberVars, closer, callVars>>

-----------------------------------------------------------------------------
(* The run loop.                                                            *)

Debounce ==
  /\ pc[Run] = "select" /\ dirty
  /\ dirty' = FALSE
  /\ Goto(Run, "debounce")
  /\ UNCHANGED <<sourceVars, stops, rootDone, loadVars, gate, stateVars,
                 publishVars, subscriberVars, closer, callVars>>

\* The 20 ms timer fires; a token that arrived meanwhile is drained.
DebounceExpires ==
  /\ pc[Run] = "debounce"
  /\ dirty' = FALSE
  /\ Goto(Run, "enter")
  /\ UNCHANGED <<sourceVars, stops, rootDone, loadVars, gate, stateVars,
                 publishVars, subscriberVars, closer, callVars>>

LeaveLoop ==
  /\ pc[Run] \in {"select", "debounce"} /\ rootDone
  /\ Goto(Run, "stop")
  /\ UNCHANGED <<sourceVars, stops, dirty, rootDone, loadVars, gate, stateVars,
                 publishVars, subscriberVars, closer, callVars>>

\* Mutant: the loop over stops never shortens them.
StopWatcherAgain ==
  /\ pc[Run] = "stop" /\ stops # <<>>
  /\ pend' = pend \ {Last(stops)}
  /\ UNCHANGED <<store, stops, dirty, rootDone, pc, loadVars, gate, stateVars,
                 publishVars, subscriberVars, closer, callVars>>

\* Stops run in reverse order; each waits for its watcher's callbacks to end.
StopWatcher ==
  /\ pc[Run] = "stop" /\ stops # <<>>
  /\ stops' = Front(stops)
  /\ pend' = pend \ {Last(stops)}
  /\ UNCHANGED <<store, dirty, rootDone, pc, loadVars, gate, stateVars,
                 publishVars, subscriberVars, closer, callVars>>

\* Open returns its error.
OpenFailed ==
  /\ pc[Run] = "stop" /\ stops = <<>> /\ ~Opened
  /\ Goto(Run, "done")
  /\ UNCHANGED <<sourceVars, stops, dirty, rootDone, loadVars, gate, stateVars,
                 publishVars, subscriberVars, closer, callVars>>

\* Mutant: the channels are left open.
ShutdownKeepsChannels ==
  /\ pc[Run] = "stop" /\ stops = <<>> /\ Opened
  /\ mu = Nobody
  /\ closed' = TRUE
  /\ Goto(Run, "done")
  /\ UNCHANGED <<sourceVars, stops, dirty, rootDone, loadVars, gate, current, failed,
                 accepted, publishVars, subscriberVars, closer, callVars>>

\* The last deferred calls of run: close every channel, then r.done.
Shutdown ==
  /\ pc[Run] = "stop" /\ stops = <<>> /\ Opened
  /\ mu = Nobody
  /\ closed' = TRUE
  /\ chan' = [s \in Subscribers |-> IF chan[s] = "open" THEN "closed" ELSE chan[s]]
  /\ Goto(Run, "done")
  /\ UNCHANGED <<sourceVars, stops, dirty, rootDone, loadVars, gate, current, failed,
                 accepted, publishVars, subDone, buf, seen, missed, closer, callVars>>

-----------------------------------------------------------------------------
(* Reload, by the run loop and by callers.                                  *)

CallReload(t) ==
  /\ pc[t] = "idle" /\ Opened /\ reloads[t] < MaxReloads
  /\ Goto(t, "enter")
  /\ floor' = [floor EXCEPT ![t] = Gens]
  /\ reloads' = [reloads EXCEPT ![t] = @ + 1]
  /\ UNCHANGED <<sourceVars, stops, dirty, rootDone, loadVars, gate, stateVars,
                 publishVars, subscriberVars, closer, ctxDone>>

\* The call is over; its context is forgotten.
Leave(t) ==
  /\ Goto(t, Home(t))
  /\ got' = [got EXCEPT ![t] = <<>>]
  /\ err' = [err EXCEPT ![t] = "none"]
  /\ ctxDone' = ctxDone \ {t}
  /\ floor' = [u \in Callers |-> IF u = t THEN [s \in Source |-> 0] ELSE floor[u]]

EnterReload(t) ==
  /\ pc[t] = "enter"
  /\ IF rootDone
       THEN Leave(t)
       ELSE Goto(t, "gate") /\ UNCHANGED <<loadVars, ctxDone, floor>>
  /\ UNCHANGED <<sourceVars, stops, dirty, rootDone, gate, stateVars,
                 publishVars, subscriberVars, closer, reloads>>

\* Mutant: Reload does not go through the gate.
WinGateUngated(t) ==
  /\ pc[t] = "gate"
  /\ gate' = t
  /\ StartLoad(t)
  /\ UNCHANGED <<sourceVars, stops, dirty, rootDone, stateVars,
                 publishVars, subscriberVars, closer, callVars>>

\* select takes any branch that is ready, so the gate may be won after the
\* runtime or the caller's context was cancelled.
WinGate(t) ==
  /\ pc[t] = "gate" /\ gate = Nobody
  /\ gate' = t
  /\ StartLoad(t)
  /\ UNCHANGED <<sourceVars, stops, dirty, rootDone, stateVars,
                 publishVars, subscriberVars, closer, callVars>>

GiveUpGate(t) ==
  /\ pc[t] = "gate" /\ (rootDone \/ Cancelled(t))
  /\ Leave(t)
  /\ UNCHANGED <<sourceVars, stops, dirty, rootDone, gate, stateVars,
                 publishVars, subscriberVars, closer, reloads>>

\* publish(e) begins: mu is held until every registered channel has it.
Publish(t, e) ==
  /\ mu' = t /\ message' = e /\ targets' = Registered
  /\ Goto(t, "publish")

NoPublish(t) ==
  /\ Goto(t, "release")
  /\ UNCHANGED <<mu, message, targets>>

Accept(t) == accepted' = [s \in Source |-> got[t][s].gen]

\* What Reload decides under mu once its build is over.  It looks at the context
\* once more before it takes mu: a cancellation since the load's own last check is
\* seen, or comes too late.
CommitClosed(t) ==
  /\ closed \/ rootDone
  /\ err' = [err EXCEPT ![t] = "closed"]
  /\ NoPublish(t)
  /\ UNCHANGED stateVars

\* Mutants: a failure is recorded but not returned; the runtime's end is not checked.
CommitFailureSwallowed(t) ==
  /\ ~closed /\ ~rootDone
  /\ err[t] # "none" \/ Cancelled(t)
  /\ err' = [err EXCEPT ![t] = "none"]
  /\ failed' = TRUE
  /\ Publish(t, Event(current, TRUE, {}))
  /\ UNCHANGED <<current, closed, accepted>>

CommitFailureLate(t) ==
  /\ err[t] # "none" \/ Cancelled(t)
  /\ err' = [err EXCEPT ![t] = IF @ = "none" THEN "cancelled" ELSE @]
  /\ failed' = TRUE
  /\ Publish(t, Event(current, TRUE, {}))
  /\ UNCHANGED <<current, closed, accepted>>

CommitFailure(t) ==
  /\ ~closed /\ ~rootDone
  /\ err[t] # "none" \/ Cancelled(t)
  /\ err' = [err EXCEPT ![t] = IF @ = "none" THEN "cancelled" ELSE @]
  /\ failed' = TRUE
  /\ Publish(t, Event(current, TRUE, {}))
  /\ UNCHANGED <<current, closed, accepted>>

\* Mutant: a recovery that changes nothing is not published.
CommitSameSilent(t) ==
  /\ ~closed /\ ~rootDone
  /\ err[t] = "none"
  /\ SameSnapshot(current, Snapshot(0, Layers(t)))
  /\ failed' = FALSE
  /\ NoPublish(t)
  /\ Accept(t)
  /\ UNCHANGED <<err, current, closed>>

CommitSame(t) ==
  /\ ~closed /\ ~rootDone
  /\ err[t] = "none"
  /\ SameSnapshot(current, Snapshot(0, Layers(t)))
  /\ failed' = FALSE
  /\ IF failed THEN Publish(t, Event(current, FALSE, {})) ELSE NoPublish(t)
  /\ Accept(t)
  /\ UNCHANGED <<err, current, closed>>

\* Mutant: current is replaced before the changed paths are computed.
CommitNewFirst(t) ==
  /\ ~closed /\ ~rootDone
  /\ err[t] = "none"
  /\ LET next == Snapshot(current.version + 1, Layers(t))
     IN  /\ ~SameSnapshot(current, next)
         /\ current' = next
         /\ Publish(t, Event(next, FALSE, ChangedPaths(next, next)))
  /\ failed' = FALSE
  /\ Accept(t)
  /\ UNCHANGED <<err, closed>>

CommitNew(t) ==
  /\ ~closed /\ ~rootDone
  /\ err[t] = "none"
  /\ LET next == Snapshot(current.version + 1, Layers(t))
     IN  /\ ~SameSnapshot(current, next)
         /\ current' = next
         /\ Publish(t, Event(next, FALSE, ChangedPaths(current, next)))
  /\ failed' = FALSE
  /\ Accept(t)
  /\ UNCHANGED <<err, closed>>

Commit(t) ==
  /\ pc[t] = "built" /\ Opened
  /\ mu = Nobody
  /\ \/ CommitClosed(t)
     \/ CommitFailure(t)
     \/ CommitSame(t)
     \/ CommitNew(t)
  /\ UNCHANGED <<sourceVars, stops, dirty, rootDone, got, gate, draining,
                 subscriberVars, closer, callVars>>

\* Mutant: the unread event is left in the channel.
DrainNothing(t, s) ==
  /\ pc[t] = "publish" /\ draining = Nobody /\ s \in targets
  /\ draining' = s
  /\ UNCHANGED <<sourceVars, stops, dirty, rootDone, pc, loadVars, gate, stateVars,
                 mu, message, targets, subscriberVars, closer, callVars>>

\* publish visits the channels in any order: it empties the buffer...
Drain(t, s) ==
  /\ pc[t] = "publish" /\ draining = Nobody /\ s \in targets
  /\ draining' = s
  /\ buf' = [buf EXCEPT ![s] = <<>>]
  /\ missed' = IF buf[s] = <<>> THEN missed ELSE missed \cup {s}
  /\ UNCHANGED <<sourceVars, stops, dirty, rootDone, pc, loadVars, gate, stateVars,
                 mu, message, targets, chan, subDone, seen, closer, callVars>>

\* ... and sends, which blocks while the buffer is full.
Send(t) ==
  /\ pc[t] = "publish" /\ draining # Nobody
  /\ buf[draining] = <<>>
  /\ buf' = [buf EXCEPT ![draining] = <<message>>]
  /\ targets' = targets \ {draining}
  /\ draining' = Nobody
  /\ UNCHANGED <<sourceVars, stops, dirty, rootDone, pc, loadVars, gate, stateVars,
                 mu, message, chan, subDone, seen, missed, closer, callVars>>

FinishPublish(t) ==
  /\ pc[t] = "publish" /\ targets = {}
  /\ mu' = Nobody /\ message' = NoEvent
  /\ Goto(t, "release")
  /\ UNCHANGED <<sourceVars, stops, dirty, rootDone, loadVars, gate, stateVars,
                 targets, draining, subscriberVars, closer, callVars>>

\* Mutant: the run loop drains r.dirty after its rebuild as well.
ReleaseGateDrains(t) ==
  /\ pc[t] = "release"
  /\ gate' = Nobody
  /\ dirty' = (dirty /\ t # Run)
  /\ Leave(t)
  /\ UNCHANGED <<sourceVars, stops, rootDone, stateVars,
                 publishVars, subscriberVars, closer, reloads>>

ReleaseGate(t) ==
  /\ pc[t] = "release"
  /\ gate' = Nobody
  /\ Leave(t)
  /\ UNCHANGED <<sourceVars, stops, dirty, rootDone, stateVars,
                 publishVars, subscriberVars, closer, reloads>>

-----------------------------------------------------------------------------
(* Subscribe, the receiver, and the goroutine that unsubscribes.            *)

\* Mutants: Subscribe, and the unsubscribing goroutine, do not take mu.
SubscribeUnlocked(s) ==
  /\ chan[s] = "none" /\ Opened
  /\ IF closed \/ rootDone \/ s \in subDone
       THEN chan' = [chan EXCEPT ![s] = "closed"] /\ UNCHANGED buf
       ELSE /\ chan' = [chan EXCEPT ![s] = "open"]
            /\ buf' = [buf EXCEPT ![s] = <<Event(current, FALSE, {})>>]
  /\ UNCHANGED <<sourceVars, stops, dirty, rootDone, pc, loadVars, gate, stateVars,
                 publishVars, subDone, seen, missed, closer, callVars>>

UnsubscribeUnlocked(s) ==
  /\ chan[s] = "open" /\ (s \in subDone \/ rootDone)
  /\ chan' = [chan EXCEPT ![s] = "closed"]
  /\ UNCHANGED <<sourceVars, stops, dirty, rootDone, pc, loadVars, gate, stateVars,
                 publishVars, subDone, buf, seen, missed, closer, callVars>>

Subscribe(s) ==
  /\ chan[s] = "none" /\ Opened
  /\ mu = Nobody
  /\ IF closed \/ rootDone \/ s \in subDone
       THEN chan' = [chan EXCEPT ![s] = "closed"] /\ UNCHANGED buf
       ELSE /\ chan' = [chan EXCEPT ![s] = "open"]
            /\ buf' = [buf EXCEPT ![s] = <<Event(current, FALSE, {})>>]
  /\ UNCHANGED <<sourceVars, stops, dirty, rootDone, pc, loadVars, gate, stateVars,
                 publishVars, subDone, seen, missed, closer, callVars>>

CancelSubscription(s) ==
  /\ Opened /\ s \notin subDone
  /\ subDone' = subDone \cup {s}
  /\ UNCHANGED <<sourceVars, stops, dirty, rootDone, pc, loadVars, gate, stateVars,
                 publishVars, chan, buf, seen, missed, closer, callVars>>

Unsubscribe(s) ==
  /\ chan[s] = "open" /\ (s \in subDone \/ rootDone)
  /\ mu = Nobody
  /\ chan' = [chan EXCEPT ![s] = "closed"]
  /\ UNCHANGED <<sourceVars, stops, dirty, rootDone, pc, loadVars, gate, stateVars,
                 publishVars, subDone, buf, seen, missed, closer, callVars>>

\* A closed channel still yields what its buffer holds.
Receive(s) ==
  /\ buf[s] # <<>>
  /\ seen' = [seen EXCEPT ![s] = Head(buf[s])]
  /\ buf' = [buf EXCEPT ![s] = <<>>]
  /\ missed' = missed \ {s}
  /\ UNCHANGED <<sourceVars, stops, dirty, rootDone, pc, loadVars, gate, stateVars,
                 publishVars, chan, subDone, closer, callVars>>

-----------------------------------------------------------------------------
(* Close: cancel, wait for run to end, then pass through the gate.          *)

Close(c) ==
  /\ closer[c] = "idle" /\ Opened
  /\ rootDone' = TRUE
  /\ closer' = [closer EXCEPT ![c] = "wait"]
  /\ UNCHANGED <<sourceVars, stops, dirty, pc, loadVars, gate, stateVars,
                 publishVars, subscriberVars, callVars>>

CloseTakesGate(c) ==
  /\ closer[c] = "wait" /\ pc[Run] = "done"
  /\ gate = Nobody
  /\ gate' = c
  /\ closer' = [closer EXCEPT ![c] = "gate"]
  /\ UNCHANGED <<sourceVars, stops, dirty, rootDone, pc, loadVars, stateVars,
                 publishVars, subscriberVars, callVars>>

CloseReturns(c) ==
  /\ closer[c] = "gate"
  /\ gate' = Nobody
  /\ closer' = [closer EXCEPT ![c] = "returned"]
  /\ UNCHANGED <<sourceVars, stops, dirty, rootDone, pc, loadVars, stateVars,
                 publishVars, subscriberVars, callVars>>

-----------------------------------------------------------------------------
\* Everything has ended: no thread or Close call waits.
Finished ==
  /\ pc[Run] = "done"
  /\ \A t \in Callers : pc[t] = "idle"
  /\ \A c \in Closers : closer[c] \in {"idle", "returned"}
  /\ UNCHANGED vars

Environment ==
  \/ \E s \in Source : Change(s) \/ Notify(s)
  \/ CancelOpenContext
  \/ \E t \in Callers : CancelCall(t) \/ AfterRootCancel(t)

Opening ==
  \/ RegisterWatcher \/ FirstLoad \/ HoldOpen \/ RetryOpen \/ FailOpen
  \/ FinishOpen \/ OpenFailed

Loop == Debounce \/ DebounceExpires \/ LeaveLoop \/ StopWatcher \/ Shutdown

Load(t) == BeginRead(t) \/ EndRead(t) \/ Bake(t)

Reload(t) ==
  \/ EnterReload(t) \/ WinGate(t) \/ GiveUpGate(t) \/ Commit(t)
  \/ (\E s \in Subscribers : Drain(t, s)) \/ Send(t) \/ FinishPublish(t)
  \/ ReleaseGate(t)

Subscription(s) ==
  Subscribe(s) \/ CancelSubscription(s) \/ Unsubscribe(s) \/ Receive(s)

Closing(c) == Close(c) \/ CloseTakesGate(c) \/ CloseReturns(c)

Next ==
  \/ Environment \/ Opening \/ Loop
  \/ \E t \in Thread : Load(t) \/ Reload(t)
  \/ \E t \in Callers : CallReload(t)
  \/ \E s \in Subscribers : Subscription(s)
  \/ \E c \in Closers : Closing(c)
  \/ Finished

Spec == Init /\ [][Next]_vars

-----------------------------------------------------------------------------
(* Fairness: goroutines are scheduled, timers fire, Reads return (a Source   *)
(* must honor its context), watchers call notify, receivers receive.  The    *)
(* gate is a channel, whose blocked senders are served first come first      *)
(* served.  Nothing obliges a store to change, anyone to call Reload,        *)
(* Subscribe or Close, or a context to end.                                  *)
Fairness ==
  /\ \A s \in Source : WF_vars(Notify(s))
  /\ WF_vars(Opening) /\ WF_vars(Loop)
  /\ \A t \in Thread : WF_vars(Load(t)) /\ WF_vars(Reload(t)) /\ SF_vars(WinGate(t))
  /\ \A s \in Subscribers : WF_vars(Unsubscribe(s)) /\ WF_vars(Receive(s))
  /\ \A c \in Closers : SF_vars(CloseTakesGate(c)) /\ WF_vars(CloseReturns(c))

FairSpec == Spec /\ Fairness
=============================================================================
