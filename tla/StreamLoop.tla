----------------------------- MODULE StreamLoop -----------------------------
(***************************************************************************)
(* What the Watch goroutines of the etcd, Kubernetes and NATS sources have  *)
(* in common: a stream of the remote store's changes, a loop that turns     *)
(* them into notifications, and reconnection when the stream ends.  How the *)
(* stream is opened is each source's own.                                   *)
(*                                                                          *)
(* The store counts its revisions; some are changes of the watched key.     *)
(* The runtime is reduced to its token and to what its last Read returned.  *)
(* Delays are left out: a timer fires some time after it was set.           *)
(***************************************************************************)
EXTENDS Naturals

CONSTANT MaxChanges   \* bound: revisions of the store

StreamLoopAssumption == MaxChanges \in Nat

VARIABLES
  polled,      \* s.interval > 0, fixed
  up,          \* the store answers
  rev, own,    \* the store's revision, and the one that last changed the key
  stream,      \* the stream of the goroutine: none, open, or ended by the other side
  sent,        \* the revision up to which the stream has delivered
  base,        \* the revision found by the query that precedes the stream
  pc,          \* where Watch or its goroutine is
  started,     \* Watch has returned, its goroutine runs
  cancelled,   \* the context, or stop, has ended the goroutine's context
  stopping,    \* where the stop function is
  announced,   \* history: rev at the last notification
  token, read  \* the runtime: a Read is due, and what revision the last one saw

storeVars == <<up, rev, own>>
streamVars == <<stream, sent, base>>
stopVars == <<cancelled, stopping>>
runtimeVars == <<announced, token, read>>
vars == <<polled, storeVars, streamVars, pc, started, stopVars, runtimeVars>>

Init ==
  /\ polled \in BOOLEAN
  /\ up = TRUE /\ rev = 0 /\ own = 0
  /\ stream = "none" /\ sent = 0 /\ base = 0
  /\ pc = "connect" /\ started = FALSE
  /\ cancelled = FALSE /\ stopping = "no"
  /\ announced = 0 /\ token = FALSE /\ read = 0

Invalidate == token' = TRUE /\ announced' = rev /\ UNCHANGED read

-----------------------------------------------------------------------------
(* The store, the network, the contexts, and the runtime.                   *)

Change ==
  /\ rev < MaxChanges
  /\ rev' = rev + 1
  /\ own' \in {own, rev'}
  /\ UNCHANGED <<polled, up, streamVars, pc, started, stopVars, runtimeVars>>

\* An outage ends the stream.  One that leaves it open is considered only with
\* reconciliation polling, which is there to detect it.
Outage ==
  /\ up' = ~up
  /\ \/ stream' = IF stream = "open" /\ up THEN "ended" ELSE stream
     \/ polled /\ UNCHANGED stream
  /\ UNCHANGED <<polled, rev, own, sent, base, pc, started, stopVars, runtimeVars>>

\* The other side ends the stream: time-outs, compaction, expired revisions.
StreamEnds ==
  /\ stream = "open" /\ stream' = "ended"
  /\ UNCHANGED <<polled, storeVars, sent, base, pc, started, stopVars, runtimeVars>>

Cancel ==
  /\ ~cancelled /\ cancelled' = TRUE
  /\ UNCHANGED <<polled, storeVars, streamVars, pc, started, stopping, runtimeVars>>

\* The runtime takes its token and reads the key; a Read that fails changes nothing.
Take ==
  /\ token /\ token' = FALSE
  /\ read' = IF up THEN rev ELSE read
  /\ UNCHANGED <<polled, storeVars, streamVars, pc, started, stopVars, announced>>

-----------------------------------------------------------------------------
(* Registration, by Watch itself or again by its goroutine.  The etcd and   *)
(* Kubernetes goroutines then look at their context and leave if it has     *)
(* ended (leaves is cancelled); that of NATS does not (leaves is FALSE).    *)

\* An error: Watch returns it; the goroutine leaves, if it does so here for an ended
\* context, or notifies and tries again later.
RegisterFails(states, leaves) ==
  /\ pc \in states
  /\ \/ ~started /\ pc' = "failed" /\ UNCHANGED runtimeVars
     \/ started /\ leaves /\ pc' = "leave" /\ UNCHANGED runtimeVars
     \/ started /\ ~leaves /\ pc' = "backoff" /\ Invalidate
  /\ UNCHANGED <<polled, storeVars, streamVars, started, stopVars>>

\* The stream is open: Watch returns, and Open goes on to its first read...
Started ==
  /\ pc = "opened" /\ ~started
  /\ started' = TRUE /\ pc' = "select"
  /\ Invalidate
  /\ UNCHANGED <<polled, storeVars, streamVars, stopVars>>

\* Mutant: the goroutine takes the new stream for a continuation of the old one.
ResumedSilently(leaves) ==
  /\ pc = "opened" /\ started
  /\ pc' = IF leaves THEN "leave" ELSE "select"
  /\ UNCHANGED <<polled, storeVars, streamVars, started, stopVars, runtimeVars>>

\* ... or the goroutine notifies, to cover what no stream has told it, unless it leaves.
Resumed(leaves) ==
  /\ pc = "opened" /\ started
  /\ \/ leaves /\ pc' = "leave" /\ UNCHANGED runtimeVars
     \/ ~leaves /\ pc' = "select" /\ Invalidate
  /\ UNCHANGED <<polled, storeVars, streamVars, started, stopVars>>

-----------------------------------------------------------------------------
(* The select of the loop, and the wait before the next attempt.            *)

\* A change of the key; the stream may deliver several at once.
Receive ==
  /\ pc = "select" /\ stream = "open" /\ up /\ sent < own
  /\ sent' \in sent + 1 .. own
  /\ Invalidate
  /\ UNCHANGED <<polled, storeVars, stream, base, pc, started, stopVars>>

\* Progress without a change of the key: nothing to notify.
Progress ==
  /\ pc = "select" /\ stream = "open" /\ up /\ own <= sent /\ sent < rev
  /\ sent' = rev
  /\ UNCHANGED <<polled, storeVars, stream, base, pc, started, stopVars, runtimeVars>>

Tick ==
  /\ pc = "select" /\ polled
  /\ Invalidate
  /\ UNCHANGED <<polled, storeVars, streamVars, pc, started, stopVars>>

Lost ==
  /\ pc = "select" /\ stream = "ended"
  /\ stream' = "none" /\ pc' = "backoff"
  /\ Invalidate
  /\ UNCHANGED <<polled, storeVars, sent, base, started, stopVars>>

Retry ==
  /\ pc = "backoff" /\ pc' = "connect"
  /\ UNCHANGED <<polled, storeVars, streamVars, started, stopVars, runtimeVars>>

Exit ==
  /\ pc \in {"select", "backoff"} /\ cancelled
  /\ pc' = "leave"
  /\ UNCHANGED <<polled, storeVars, streamVars, started, stopVars, runtimeVars>>

\* Mutant: no deferred release.
ReleaseNothing ==
  /\ pc = "leave" /\ pc' = "exited"
  /\ UNCHANGED <<polled, storeVars, streamVars, started, stopVars, runtimeVars>>

\* Deferred: the stream that is still there is released.
Release ==
  /\ pc = "leave" /\ pc' = "exited"
  /\ stream' = "none"
  /\ UNCHANGED <<polled, storeVars, sent, base, started, stopVars, runtimeVars>>

Stop ==
  /\ started /\ stopping = "no"
  /\ stopping' = "waiting" /\ cancelled' = TRUE
  /\ UNCHANGED <<polled, storeVars, streamVars, pc, started, runtimeVars>>

\* Mutant: stop does not wait for the goroutine.
StopReturnsAtOnce ==
  /\ stopping = "waiting"
  /\ stopping' = "returned"
  /\ UNCHANGED <<polled, storeVars, streamVars, pc, started, cancelled, runtimeVars>>

StopReturns ==
  /\ stopping = "waiting" /\ pc = "exited"
  /\ stopping' = "returned"
  /\ UNCHANGED <<polled, storeVars, streamVars, pc, started, cancelled, runtimeVars>>

-----------------------------------------------------------------------------
Environment == Change \/ Outage \/ StreamEnds \/ Cancel \/ Take \/ Stop
Loop == Receive \/ Progress \/ Tick \/ Lost \/ Retry \/ Exit \/ Release \/ StopReturns

\* The goroutine of Watch runs, and timers fire; an open stream delivers.
\* A select that has several ready cases does not forever leave out the same one.
LoopFairness(goroutine) ==
  WF_vars(goroutine) /\ WF_vars(Exit) /\ WF_vars(Take)

-----------------------------------------------------------------------------
(* Properties of the sources that use this loop.                            *)

\* A change of the key that the stream will not deliver any more - it came before
\* the stream, or the stream has delivered it - has been announced.
StreamCovers == pc = "select" /\ own <= sent => own <= announced

\* A Watch that failed or a goroutine that ended leaves no stream, and stop
\* returns only then.
NoStreamLeft ==
  /\ pc \in {"failed", "exited"} => stream = "none"
  /\ stopping = "returned" => pc = "exited"

\* What every step keeps: no history is ahead of the store, a stream is there only
\* between its opening and its release, and stop belongs to a goroutine.
LoopInv ==
  /\ own \in Nat /\ rev \in Nat /\ sent \in Nat /\ base \in Nat /\ announced \in Nat
  /\ own <= rev /\ sent <= rev /\ base <= rev /\ announced <= rev
  /\ started \in BOOLEAN /\ cancelled \in BOOLEAN /\ token \in BOOLEAN
  /\ stream \in {"none", "open", "ended"} /\ stopping \in {"no", "waiting", "returned"}
  /\ ~started => pc \in {"connect", "stream", "opened", "failed"}
  /\ started => pc \in {"connect", "stream", "opened", "select", "backoff", "leave", "drain",
                        "exited"}
  /\ pc \in {"connect", "stream", "backoff", "failed", "exited"} => stream = "none"
  /\ stopping # "no" => started /\ cancelled
  /\ stopping = "returned" => pc = "exited"

\* The sources as Watchers (see module Watcher).
Phase == IF pc = "failed" \/ stopping = "returned" THEN "off"
         ELSE IF ~started THEN "new" ELSE IF cancelled THEN "ending" ELSE "on"
Owed == started /\ announced < own

\* The store answers for good, and the runtime has seen the last change of the key.
Settled == up /\ started /\ ~cancelled
Current == own <= read
=============================================================================
