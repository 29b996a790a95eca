------------------------------ MODULE Polling -------------------------------
(***************************************************************************)
(* Poll and Optional of sources.go over a source that cannot be watched:    *)
(* files, HTTP documents, S3 objects, Vault secrets and directories.  The   *)
(* goroutine of Watch notifies at every tick; Optional hands Watch on and   *)
(* turns ErrNotFound, and no other error, into an empty layer.              *)
(***************************************************************************)
EXTENDS Naturals

CONSTANT MaxChanges   \* bound: changes of the source

PollingAssumption == MaxChanges \in Nat

VARIABLES
  stored,     \* the source: how often it changed, whether it exists and whether it can be read
  exists, broken,
  pc,         \* the goroutine of Watch: "new", "select", "exited"
  cancelled,  \* its context has ended
  stopping,   \* the stop function: "no", "waiting", "returned"
  ticks,      \* the ticker's channel holds a tick
  owed,       \* history: changed since the last notification
  token,      \* the runtime: a rebuild is due;
  reading,    \* "no", "begun", "done": its rebuild has not begun, is to Read, has read;
  got,        \* what Read returned: a version, the empty layer or an error;
  shown,      \* what its snapshot shows of the source: a version, or the empty layer;
  degraded    \* the Read of its last rebuild failed

Empty == MaxChanges + 1    \* the layer Optional returns for ErrNotFound
Failed == MaxChanges + 2   \* any other error

storeVars == <<stored, exists, broken>>
rebuildVars == <<reading, got, shown, degraded>>
runtimeVars == <<token, rebuildVars>>
vars == <<storeVars, pc, cancelled, stopping, ticks, owed, runtimeVars>>

Init ==
  /\ stored = 0 /\ exists \in BOOLEAN /\ broken = FALSE
  /\ pc = "new" /\ cancelled = FALSE /\ stopping = "no" /\ ticks = FALSE
  /\ owed = FALSE /\ token = FALSE
  /\ reading = "no" /\ got = Empty /\ shown = Empty /\ degraded = FALSE

-----------------------------------------------------------------------------
\* The source changes, appears or disappears, becomes unreadable or recovers.
Change ==
  /\ stored < MaxChanges /\ stored' = stored + 1
  /\ exists' \in BOOLEAN /\ broken' \in BOOLEAN
  /\ owed' = (pc # "new")
  /\ UNCHANGED <<pc, cancelled, stopping, ticks, runtimeVars>>

\* Watch starts the goroutine; Open's first read comes next.
Watch ==
  /\ pc = "new" /\ pc' = "select"
  /\ token' = TRUE
  /\ UNCHANGED <<storeVars, cancelled, stopping, ticks, owed, rebuildVars>>

\* time.Ticker drops the tick a slow receiver has not taken.
Tick ==
  /\ pc = "select" /\ ticks' = TRUE
  /\ UNCHANGED <<storeVars, pc, cancelled, stopping, owed, runtimeVars>>

\* Mutant: a tick counts only when the last read succeeded.
TakeTickWhenHealthy ==
  /\ pc = "select" /\ ticks /\ ticks' = FALSE
  /\ token' = (token \/ ~degraded) /\ owed' = (owed /\ degraded)
  /\ UNCHANGED <<storeVars, pc, cancelled, stopping, rebuildVars>>

TakeTick ==
  /\ pc = "select" /\ ticks /\ ticks' = FALSE
  /\ token' = TRUE /\ owed' = FALSE
  /\ UNCHANGED <<storeVars, pc, cancelled, stopping, rebuildVars>>

Exit ==
  /\ pc = "select" /\ cancelled /\ pc' = "exited"
  /\ UNCHANGED <<storeVars, cancelled, stopping, ticks, owed, runtimeVars>>

-----------------------------------------------------------------------------
(* The runtime.                                                             *)

\* The loop takes its token before it rebuilds.
Take ==
  /\ token /\ token' = FALSE
  /\ reading = "no" /\ reading' = "begun"
  /\ UNCHANGED <<storeVars, pc, cancelled, stopping, ticks, owed, got, shown, degraded>>

\* Mutant: Optional suppresses every error.
ReadSuppressed ==
  /\ reading = "begun" /\ reading' = "done"
  /\ got' = IF broken \/ ~exists THEN Empty ELSE stored
  /\ UNCHANGED <<storeVars, pc, cancelled, stopping, ticks, owed, token, shown, degraded>>

\* What Read of Optional(Poll(source)) returns now: Poll caches nothing.
Held == CASE broken -> Failed
          [] ~broken /\ exists -> stored
          [] ~broken /\ ~exists -> Empty

Read ==
  /\ reading = "begun" /\ reading' = "done"
  /\ got' = Held
  /\ UNCHANGED <<storeVars, pc, cancelled, stopping, ticks, owed, token, shown, degraded>>

\* Mutant: what was notified during the rebuild counts as read.
ShowClears ==
  /\ reading = "done" /\ reading' = "no"
  /\ degraded' = (got = Failed) /\ shown' = IF got = Failed THEN shown ELSE got
  /\ token' = FALSE
  /\ UNCHANGED <<storeVars, pc, cancelled, stopping, ticks, owed, got>>

\* The rebuild ends.  The runtime keeps what it shows when the Read failed; when it is
\* being closed it drops the result.
Show ==
  /\ reading = "done" /\ reading' = "no"
  /\ \/ degraded' = (got = Failed) /\ shown' = IF got = Failed THEN shown ELSE got
     \/ cancelled /\ UNCHANGED <<shown, degraded>>
  /\ UNCHANGED <<storeVars, pc, cancelled, stopping, ticks, owed, token, got>>

-----------------------------------------------------------------------------
(* The end.                                                                 *)

Cancel ==
  /\ ~cancelled /\ cancelled' = TRUE
  /\ UNCHANGED <<storeVars, pc, stopping, ticks, owed, runtimeVars>>

Stop ==
  /\ pc # "new" /\ stopping = "no"
  /\ stopping' = "waiting" /\ cancelled' = TRUE
  /\ UNCHANGED <<storeVars, pc, ticks, owed, runtimeVars>>

\* Mutant: stop does not wait for the goroutine.
StopReturnsAtOnce ==
  /\ stopping = "waiting"
  /\ stopping' = "returned"
  /\ UNCHANGED <<storeVars, pc, cancelled, ticks, owed, runtimeVars>>

StopReturns ==
  /\ stopping = "waiting" /\ pc = "exited"
  /\ stopping' = "returned"
  /\ UNCHANGED <<storeVars, pc, cancelled, ticks, owed, runtimeVars>>

-----------------------------------------------------------------------------
Next ==
  \/ Change \/ Cancel \/ Watch \/ Stop
  \/ Tick \/ TakeTick \/ Exit \/ StopReturns \/ Take \/ Read \/ Show

\* The ticker ticks, the goroutine takes ticks, the runtime reads.
Spec ==
  /\ Init /\ [][Next]_vars
  /\ WF_vars(Tick) /\ WF_vars(TakeTick)
  /\ WF_vars(Take) /\ WF_vars(Read) /\ WF_vars(Show) /\ WF_vars(Exit) /\ WF_vars(StopReturns)

-----------------------------------------------------------------------------
\* With no notification and no rebuild due, the runtime shows what the source holds,
\* or knows that it could not be read.
QuietIsCurrent ==
  pc # "new" /\ ~cancelled /\ ~owed /\ ~token /\ reading = "no" /\ ~degraded
    => shown = Held

\* So does the rebuild that has read and is about to end; stop belongs to a goroutine.
IInv ==
  /\ stored \in 0 .. MaxChanges /\ got \in 0 .. Failed
  /\ pc \in {"new", "select", "exited"} /\ stopping \in {"no", "waiting", "returned"}
  /\ reading \in {"no", "begun", "done"}
  /\ exists \in BOOLEAN /\ broken \in BOOLEAN /\ cancelled \in BOOLEAN
  /\ owed \in BOOLEAN /\ token \in BOOLEAN /\ degraded \in BOOLEAN
  /\ (pc = "new" => ~owed /\ ~token /\ reading = "no")
  /\ (stopping # "no" => cancelled /\ pc # "new")
  /\ (stopping = "returned" => pc = "exited")
  /\ (~owed /\ ~token /\ reading = "done" => got = Held)
  /\ QuietIsCurrent

\* Poll as a Watcher (see module Watcher).
Phase == CASE pc = "new" -> "new" [] stopping = "returned" -> "off"
           [] OTHER -> IF cancelled THEN "ending" ELSE "on"

\* The source can be read for good, and the runtime shows what it holds.
Settled == pc = "select" /\ ~cancelled /\ ~broken
Current == shown = IF exists THEN stored ELSE Empty
=============================================================================
