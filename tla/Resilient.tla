------------------------------ MODULE Resilient ------------------------------
(***************************************************************************)
(* The Resilient wrapper of sources.go: one wrapped source shared by the    *)
(* runtimes that watch it.  Read turns an error into the last good layer;   *)
(* each Watch call starts a goroutine that registers the inner watcher and, *)
(* while the source fails, invalidates its runtime with a growing delay.    *)
(*                                                                          *)
(* Layers are the gen of the inner source's content, 0 being the empty one. *)
(* A runtime is reduced to what the wrapper sees of it: it Reads when its   *)
(* dirty token is set and when somebody calls Reload, one Read at a time    *)
(* (module Runtime), and shows what its last accepted Read returned.  Reads *)
(* of different runtimes are concurrent.                                    *)
(***************************************************************************)
EXTENDS Naturals, FiniteSets

CONSTANTS Runtimes,
          Watchable,   \* the inner source is a Watcher
          Lo, Hi,      \* Backoff(min, max)
          MaxChanges,  \* bound: changes of the inner content
          MaxCalls     \* bound: Reload calls whose context ends

ASSUME ResilientAssumption ==
  /\ Watchable \in BOOLEAN
  /\ Lo \in Nat \ {0} /\ Hi \in Nat /\ Lo <= Hi
  /\ MaxChanges \in Nat /\ MaxCalls \in Nat

VARIABLES
  up, gen,        \* the inner source: readable, and its content
  last, failing,  \* resilient.last, resilient.failing
  wakes, wake,    \* r.wakes, and the wake channels that hold their token
  loop,           \* where each Watch goroutine is
  unregistered,   \* goroutines that have yet to register the inner watcher
  inner,          \* runtimes whose inner watcher is registered
  delay,
  ctxDone,        \* Watch goroutines whose context is cancelled
  stopping,       \* where the stop function is
  dirty,          \* runtimes whose token is set
  reading,        \* what the inner Read returned, until the wrapper records it
  shown,          \* the layer in each runtime's snapshot
  calls           \* for MaxCalls

innerVars == <<up, gen>>
stateVars == <<last, failing, wake>>
loopVars == <<loop, unregistered, inner, delay>>
stopVars == <<ctxDone, stopping, wakes>>
readVars == <<reading, shown, calls>>
vars == <<innerVars, stateVars, loopVars, stopVars, dirty, readVars>>

NoRead == [outcome |-> "none", gen |-> 0, discarded |-> FALSE]
Good(g, discarded) == [outcome |-> "good", gen |-> g, discarded |-> discarded]
Failure(discarded) == [outcome |-> "error", gen |-> 0, discarded |-> discarded]

Init ==
  /\ up \in BOOLEAN /\ gen = 1
  /\ last = 0 /\ failing = FALSE /\ wakes = {} /\ wake = {}
  /\ loop = [r \in Runtimes |-> "none"]
  /\ unregistered = {} /\ inner = {} /\ delay = [r \in Runtimes |-> Lo]
  /\ ctxDone = {} /\ stopping = [r \in Runtimes |-> "no"]
  /\ dirty = {}
  /\ reading = [r \in Runtimes |-> NoRead]
  /\ shown = [r \in Runtimes |-> [gen |-> 0, stale |-> FALSE]]
  /\ calls = 0

Goto(r, label) == loop' = [loop EXCEPT ![r] = label]

-----------------------------------------------------------------------------
(* The inner source, and its watcher once registered.                       *)

Outage ==
  /\ up' = ~up
  /\ UNCHANGED <<gen, stateVars, loopVars, stopVars, dirty, readVars>>

Change ==
  /\ gen <= MaxChanges
  /\ gen' = gen + 1
  /\ UNCHANGED <<up, stateVars, loopVars, stopVars, dirty, readVars>>

InnerNotify(r) ==
  /\ r \in inner
  /\ dirty' = dirty \cup {r}
  /\ UNCHANGED <<innerVars, stateVars, loopVars, stopVars, readVars>>

-----------------------------------------------------------------------------
(* Read.                                                                    *)

Fetched == IF up THEN Good(gen, FALSE) ELSE Failure(FALSE)

\* The runtime's loop consumes its token and reloads.
RunReads(r) ==
  /\ r \in dirty /\ reading[r] = NoRead
  /\ dirty' = dirty \ {r}
  /\ reading' = [reading EXCEPT ![r] = Fetched]
  /\ UNCHANGED <<innerVars, stateVars, loopVars, stopVars, shown, calls>>

\* A Reload call whose context ends during or after the Read of this source: the
\* Read may fail for that reason alone, and Reload drops what it returned.
CallReads(r) ==
  /\ loop[r] # "none" /\ calls < MaxCalls /\ reading[r] = NoRead
  /\ calls' = calls + 1
  /\ \/ up /\ reading' = [reading EXCEPT ![r] = Good(gen, TRUE)]
     \/ reading' = [reading EXCEPT ![r] = Failure(TRUE)]
  /\ UNCHANGED <<innerVars, stateVars, loopVars, stopVars, dirty, shown>>

Show(r, layer) ==
  shown' = IF reading[r].discarded THEN shown ELSE [shown EXCEPT ![r] = layer]

RecordGood(r) ==
  /\ reading[r].outcome = "good"
  /\ last' = reading[r].gen /\ failing' = FALSE
  /\ Show(r, [gen |-> reading[r].gen, stale |-> FALSE])
  /\ reading' = [reading EXCEPT ![r] = NoRead]
  /\ UNCHANGED <<innerVars, wake, loopVars, stopVars, dirty, calls>>

\* Mutants: no loop is woken; the last good layer is not returned.
RecordFailureWakesNone(r) ==
  /\ reading[r].outcome = "error"
  /\ failing' = TRUE
  /\ Show(r, [gen |-> last, stale |-> TRUE])
  /\ reading' = [reading EXCEPT ![r] = NoRead]
  /\ UNCHANGED <<innerVars, last, wake, loopVars, stopVars, dirty, calls>>

RecordFailureEmpty(r) ==
  /\ reading[r].outcome = "error"
  /\ failing' = TRUE
  /\ wake' = wake \cup wakes
  /\ Show(r, [gen |-> 0, stale |-> TRUE])
  /\ reading' = [reading EXCEPT ![r] = NoRead]
  /\ UNCHANGED <<innerVars, last, loopVars, stopVars, dirty, calls>>

\* An error wakes every Watch goroutine and yields the last good layer.
RecordFailure(r) ==
  /\ reading[r].outcome = "error"
  /\ failing' = TRUE
  /\ wake' = wake \cup wakes
  /\ Show(r, [gen |-> last, stale |-> TRUE])
  /\ reading' = [reading EXCEPT ![r] = NoRead]
  /\ UNCHANGED <<innerVars, last, loopVars, stopVars, dirty, calls>>

-----------------------------------------------------------------------------
(* Watch.                                                                   *)

\* The runtime registers the wrapper and, unless it is already, owes itself the
\* initial Read.
Watch(r) ==
  /\ loop[r] = "none"
  /\ wakes' = wakes \cup {r}
  /\ unregistered' = IF Watchable THEN unregistered \cup {r} ELSE unregistered
  /\ Goto(r, "top")
  /\ dirty' = dirty \cup {r}
  /\ UNCHANGED <<innerVars, stateVars, inner, delay, ctxDone, stopping, readVars>>

\* Registration of the inner watcher succeeds, and the runtime is invalidated to
\* cover what changed before it.
Register(r) ==
  /\ loop[r] = "top" /\ r \in unregistered
  /\ unregistered' = unregistered \ {r}
  /\ inner' = inner \cup {r}
  /\ delay' = [delay EXCEPT ![r] = Lo]
  /\ dirty' = dirty \cup {r}
  /\ UNCHANGED <<innerVars, stateVars, loop, stopVars, readVars>>

RegisterFails(r) ==
  /\ loop[r] = "top" /\ r \in unregistered
  /\ Goto(r, "backoff")
  /\ UNCHANGED <<innerVars, stateVars, unregistered, inner, delay, stopVars,
                 dirty, readVars>>

\* stale() decides between waiting for a wake and retrying after the delay.
CheckStale(r) ==
  /\ loop[r] = "top" /\ r \notin unregistered
  /\ IF failing
       THEN Goto(r, "retry") /\ UNCHANGED delay
       ELSE Goto(r, "idle") /\ delay' = [delay EXCEPT ![r] = Lo]
  /\ UNCHANGED <<innerVars, stateVars, unregistered, inner, stopVars, dirty, readVars>>

Woken(r) ==
  /\ loop[r] = "idle" /\ r \in wake
  /\ wake' = wake \ {r}
  /\ Goto(r, "top")
  /\ UNCHANGED <<innerVars, last, failing, unregistered, inner, delay, stopVars,
                 dirty, readVars>>

\* Mutants: the delay has no cap; the runtime is not invalidated.
TimerFiresUncapped(r) ==
  /\ loop[r] \in {"backoff", "retry"}
  /\ dirty' = IF loop[r] = "retry" THEN dirty \cup {r} ELSE dirty
  /\ delay' = [delay EXCEPT ![r] = IF @ < Hi THEN 2 * @ ELSE Hi]
  /\ Goto(r, "top")
  /\ UNCHANGED <<innerVars, stateVars, unregistered, inner, stopVars, readVars>>

TimerFiresSilently(r) ==
  /\ loop[r] \in {"backoff", "retry"}
  /\ delay' = [delay EXCEPT ![r] = IF 2 * @ < Hi THEN 2 * @ ELSE Hi]
  /\ Goto(r, "top")
  /\ UNCHANGED <<innerVars, stateVars, unregistered, inner, stopVars, dirty, readVars>>

\* The timer fires; only a loop that has registered invalidates the runtime.
TimerFires(r) ==
  /\ loop[r] \in {"backoff", "retry"}
  /\ dirty' = IF loop[r] = "retry" THEN dirty \cup {r} ELSE dirty
  /\ delay' = [delay EXCEPT ![r] = IF 2 * @ < Hi THEN 2 * @ ELSE Hi]
  /\ Goto(r, "top")
  /\ UNCHANGED <<innerVars, stateVars, unregistered, inner, stopVars, readVars>>

\* Mutant: the waits for a timer do not watch the context.
ExitIdle(r) ==
  /\ loop[r] = "idle" /\ r \in ctxDone
  /\ Goto(r, "exited")
  /\ UNCHANGED <<innerVars, stateVars, unregistered, inner, delay, stopVars,
                 dirty, readVars>>

Exit(r) ==
  /\ loop[r] \in {"idle", "backoff", "retry"} /\ r \in ctxDone
  /\ Goto(r, "exited")
  /\ UNCHANGED <<innerVars, stateVars, unregistered, inner, delay, stopVars,
                 dirty, readVars>>

-----------------------------------------------------------------------------
(* stop, and the runtime's context, which the goroutine's derives from.     *)

CancelContext(r) ==
  /\ loop[r] # "none" /\ r \notin ctxDone
  /\ ctxDone' = ctxDone \cup {r}
  /\ UNCHANGED <<innerVars, stateVars, loopVars, stopping, wakes, dirty, readVars>>

Stop(r) ==
  /\ loop[r] # "none" /\ stopping[r] = "no"
  /\ stopping' = [stopping EXCEPT ![r] = "waiting"]
  /\ ctxDone' = ctxDone \cup {r}
  /\ UNCHANGED <<innerVars, stateVars, loopVars, wakes, dirty, readVars>>

\* Mutant: stop does not wait for the goroutine.
StopUnlinksEarly(r) ==
  /\ stopping[r] = "waiting"
  /\ wakes' = wakes \ {r}
  /\ stopping' = [stopping EXCEPT ![r] = "unlinked"]
  /\ UNCHANGED <<innerVars, stateVars, loopVars, ctxDone, dirty, readVars>>

StopUnlinks(r) ==
  /\ stopping[r] = "waiting" /\ loop[r] = "exited"
  /\ wakes' = wakes \ {r}
  /\ stopping' = [stopping EXCEPT ![r] = "unlinked"]
  /\ UNCHANGED <<innerVars, stateVars, loopVars, ctxDone, dirty, readVars>>

\* Mutant: the inner watcher is not stopped.
StopInnerForgotten(r) ==
  /\ stopping[r] = "unlinked"
  /\ stopping' = [stopping EXCEPT ![r] = "stopped"]
  /\ UNCHANGED <<innerVars, stateVars, loopVars, ctxDone, wakes, dirty, readVars>>

\* stopInner, which waits for the inner watcher's callbacks.
StopInner(r) ==
  /\ stopping[r] = "unlinked"
  /\ inner' = inner \ {r}
  /\ stopping' = [stopping EXCEPT ![r] = "stopped"]
  /\ UNCHANGED <<innerVars, stateVars, loop, unregistered, delay, ctxDone, wakes,
                 dirty, readVars>>

-----------------------------------------------------------------------------
Read(r) == RunReads(r) \/ RecordGood(r) \/ RecordFailure(r)

Loop(r) ==
  \/ Register(r) \/ RegisterFails(r) \/ CheckStale(r) \/ Woken(r)
  \/ TimerFires(r) \/ Exit(r)

Stopping(r) == StopUnlinks(r) \/ StopInner(r)

Next ==
  \/ Outage \/ Change
  \/ \E r \in Runtimes :
       \/ InnerNotify(r) \/ CallReads(r) \/ Read(r)
       \/ Watch(r) \/ Loop(r)
       \/ CancelContext(r) \/ Stop(r) \/ Stopping(r)

Spec == Init /\ [][Next]_vars

(* Goroutines run, timers fire and Reads return.  Exit is strongly fair: a    *)
(* loop that comes back to its select with the context cancelled finds the    *)
(* fresh timer not ready.  Nothing obliges the inner Watch to ever succeed;   *)
(* RegisteringSpec adds that it does when tried again and again.              *)
FairSpec ==
  /\ Spec
  /\ \A r \in Runtimes : /\ WF_vars(Read(r)) /\ WF_vars(Loop(r)) /\ SF_vars(Exit(r))
                         /\ WF_vars(Stopping(r))

RegisteringSpec == FairSpec /\ \A r \in Runtimes : SF_vars(Register(r))

-----------------------------------------------------------------------------
(* Properties.                                                              *)

\* Every variable has its type; in particular the delay stays between min and max,
\* and a loop that waits for a failure has forgotten the earlier ones: min again.
TypeOK ==
  /\ up \in BOOLEAN /\ gen \in 1..MaxChanges + 1
  /\ last \in 0..gen /\ failing \in BOOLEAN
  /\ wakes \subseteq Runtimes /\ wake \subseteq Runtimes
  /\ loop \in [Runtimes -> {"none", "top", "idle", "backoff", "retry", "exited"}]
  /\ unregistered \subseteq Runtimes /\ inner \subseteq Runtimes
  /\ delay \in [Runtimes -> Lo..Hi]
  /\ \A r \in Runtimes : loop[r] = "idle" => delay[r] = Lo
  /\ ctxDone \subseteq Runtimes
  /\ stopping \in [Runtimes -> {"no", "waiting", "unlinked", "stopped"}]
  /\ dirty \subseteq Runtimes
  /\ reading \in [Runtimes -> [outcome : {"none", "good", "error"}, gen : 0..gen,
                               discarded : BOOLEAN]]
  /\ shown \in [Runtimes -> [gen : 0..gen, stale : BOOLEAN]]
  /\ calls \in 0..MaxCalls

\* A failing Read that lands between a loop's stale() and its wait is not lost:
\* a loop that waits while the source fails has its wake token.
NoLostWakeup ==
  \A r \in Runtimes : loop[r] = "idle" /\ failing => r \in wake

\* A loop at work has its channel among the wakes, from Watch until it has exited; what
\* stop has released stays released.  With TypeOK this is inductive.
LinkInv ==
  \A r \in Runtimes :
    /\ loop[r] \in {"top", "idle", "backoff", "retry"} => r \in wakes
    /\ stopping[r] \in {"unlinked", "stopped"} => loop[r] = "exited" /\ r \notin wakes
    /\ stopping[r] = "stopped" => r \notin inner

IInv == TypeOK /\ LinkInv /\ NoLostWakeup

\* When stop has returned, the goroutine has ended, the inner watcher it may have
\* registered meanwhile is released, Read no longer wakes it, and nothing invalidates
\* the runtime any more.
StopIsFinal ==
  [][\A r \in Runtimes :
       /\ stopping'[r] = "stopped" => loop'[r] = "exited" /\ r \notin wakes' \cup inner'
       /\ stopping[r] = "stopped" /\ r \notin dirty => r \notin dirty']_vars

\* What one runtime shows never goes back to an older layer, stale or not: the
\* last good layer is the newest one its Reads returned.
ShownNeverRegresses ==
  [][\A r \in Runtimes : shown[r].gen <= shown'[r].gen]_vars

\* A Watch goroutine at work, whose runtime depends on it for its retries.
Watching(r) == loop[r] # "none" /\ r \notin ctxDone

\* "While stale, the wrapper invalidates the runtime with exponential backoff
\* until a Read succeeds" (sources.go:153).
RetriedWhileFailing ==
  \A r \in Runtimes :
    Watching(r) /\ failing ~> r \in dirty \/ ~failing \/ ~Watching(r)

\* "becoming stale or recovering publishes an event" (README.md:162): once the
\* source can be read for good, no runtime stays degraded...
Recovers == <>[](\A r \in Runtimes : ~shown[r].stale \/ ~Watching(r))
RecoveryShown == <>[]up => Recovers

\* ... which holds as long as no Reload discards what it has read.
RecoveryShownUndisturbed == <>[](up /\ calls = 0) => Recovers

\* stop returns, whatever the loop is doing.
StopEnds == \A r \in Runtimes : stopping[r] = "waiting" ~> stopping[r] = "stopped"
=============================================================================
