------------------------------- MODULE Consul -------------------------------
(***************************************************************************)
(* Watch of contrib/sources/consul: a loop of blocking queries, each        *)
(* waiting for the index to differ from the one it names.                   *)
(*                                                                          *)
(* The store is its index and a count of its changes: a write moves the     *)
(* index to that of its entry in the servers' log, a snapshot restored on   *)
(* the servers moves it back.  Assumed: the index of the last answer does   *)
(* not come back for other content before a query has seen it gone, and     *)
(* index 1, which belongs to the first entry of the log, is never that of a *)
(* key.  The runtime is reduced to its token and to what its last Read      *)
(* returned; delays are left out, and so is wait = 0, which watches nothing.*)
(***************************************************************************)
EXTENDS Integers, FiniteSetsExt

CONSTANT MaxChanges   \* bound: writes and restores

ConsulAssumption == MaxChanges \in Nat

VARIABLES
  up,            \* the servers answer
  idx, content,  \* the store
  pc,            \* where Watch or its goroutine is
  last,          \* meta.LastIndex of the last answer
  index, failed, \* variables of the goroutine
  cancelled, stopping,
  announced,     \* history: content at the last notification
  token, read    \* the runtime: a Read is due, and the content the last one saw

storeVars == <<up, idx, content>>
loopVars == <<last, index, failed>>
stopVars == <<cancelled, stopping>>
runtimeVars == <<announced, token, read>>
vars == <<storeVars, pc, loopVars, stopVars, runtimeVars>>

Init ==
  /\ up \in BOOLEAN /\ idx = 2 /\ content = 0
  /\ pc = "watch" /\ last = 0 /\ index = 0 /\ failed = FALSE
  /\ cancelled = FALSE /\ stopping = "no"
  /\ announced = 0 /\ token = FALSE /\ read = 0

Invalidate == token' = TRUE /\ announced' = content /\ UNCHANGED read
Started == pc \notin {"watch", "refused"}

-----------------------------------------------------------------------------
(* The store, and the runtime.                                              *)

Write ==
  /\ content < MaxChanges
  /\ content' = content + 1 /\ idx' = content + 3
  /\ UNCHANGED <<up, pc, loopVars, stopVars, runtimeVars>>

Restore ==
  /\ content < MaxChanges
  /\ content' = content + 1 /\ idx' \in (2 .. idx - 1) \ {last}
  /\ UNCHANGED <<up, pc, loopVars, stopVars, runtimeVars>>

\* An outage interrupts the query that waits; one that begins and ends between
\* two queries goes unnoticed and is left out.
Outage ==
  /\ up' = ~up
  /\ up => pc \in {"watch", "query"}
  /\ pc' = IF up /\ pc = "query" THEN "broken" ELSE pc
  /\ UNCHANGED <<idx, content, loopVars, stopVars, runtimeVars>>

Take ==
  /\ token /\ token' = FALSE
  /\ read' = IF up THEN content ELSE read
  /\ UNCHANGED <<storeVars, pc, loopVars, stopVars, announced>>

Cancel ==
  /\ ~cancelled /\ cancelled' = TRUE
  /\ UNCHANGED <<storeVars, pc, loopVars, stopping, runtimeVars>>

-----------------------------------------------------------------------------
(* Watch.                                                                   *)

\* LastIndex of an answer: the store's, or zero from a server that is at fault.
Answers == {idx, 0}

\* Mutant: the first query waits for the index after the next one.
BaselineNext ==
  /\ pc = "watch" /\ up /\ ~cancelled
  /\ last' \in Answers /\ index' = Max({last', 1}) + 1
  /\ pc' = "limit"
  /\ Invalidate
  /\ UNCHANGED <<storeVars, failed, stopVars>>

\* The baseline query.
Baseline ==
  /\ pc = "watch" /\ up /\ ~cancelled
  /\ last' \in Answers /\ index' = Max({last', 1})
  /\ pc' = "limit"
  /\ Invalidate
  /\ UNCHANGED <<storeVars, failed, stopVars>>

Refused ==
  /\ pc = "watch" /\ pc' = "refused"
  /\ UNCHANGED <<storeVars, loopVars, stopVars, runtimeVars>>

\* The rate limiter lets the next query go.
Query ==
  /\ pc = "limit" /\ pc' = "query"
  /\ UNCHANGED <<storeVars, loopVars, stopVars, runtimeVars>>

\* get returns: an answer, because the index differs or because the wait is over, or
\* an error - the network, an ACL-filtered view, too many keys.
Return ==
  /\ \/ pc = "query" /\ up /\ last' \in Answers
        /\ pc' = (IF cancelled THEN "exited" ELSE "answer")
     \/ pc \in {"query", "broken"} /\ UNCHANGED last
        /\ pc' = (IF cancelled THEN "exited" ELSE "error")
  /\ UNCHANGED <<storeVars, index, failed, stopVars, runtimeVars>>

\* Mutants: an index that moved back is not remembered; a recovery is not notified.
AnswerKeepsIndex ==
  /\ pc = "answer" /\ pc' = "limit"
  /\ IF failed \/ last # index THEN Invalidate ELSE UNCHANGED runtimeVars
  /\ failed' = FALSE
  /\ index' = Max({last, 1, index})
  /\ UNCHANGED <<storeVars, last, stopVars>>

AnswerOnChangeOnly ==
  /\ pc = "answer" /\ pc' = "limit"
  /\ IF last # index THEN Invalidate ELSE UNCHANGED runtimeVars
  /\ failed' = FALSE
  /\ index' = IF Max({last, 1}) < index THEN 0 ELSE Max({last, 1})
  /\ UNCHANGED <<storeVars, last, stopVars>>

\* An index that has moved back restarts the query from zero.
Answer ==
  /\ pc = "answer" /\ pc' = "limit"
  /\ IF failed \/ last # index THEN Invalidate ELSE UNCHANGED runtimeVars
  /\ failed' = FALSE
  /\ index' = IF Max({last, 1}) < index THEN 0 ELSE Max({last, 1})
  /\ UNCHANGED <<storeVars, last, stopVars>>

Error ==
  /\ pc = "error" /\ pc' = "backoff"
  /\ failed' = TRUE
  /\ Invalidate
  /\ UNCHANGED <<storeVars, last, index, stopVars>>

Retry ==
  /\ pc = "backoff" /\ pc' = "limit"
  /\ UNCHANGED <<storeVars, loopVars, stopVars, runtimeVars>>

\* The limiter and the timer end with the context.
Exit ==
  /\ pc \in {"limit", "backoff"} /\ cancelled
  /\ pc' = "exited"
  /\ UNCHANGED <<storeVars, loopVars, stopVars, runtimeVars>>

Stop ==
  /\ Started /\ stopping = "no"
  /\ stopping' = "waiting" /\ cancelled' = TRUE
  /\ UNCHANGED <<storeVars, pc, loopVars, runtimeVars>>

\* Mutant: stop does not wait for the goroutine.
StopReturnsAtOnce ==
  /\ stopping = "waiting"
  /\ stopping' = "returned"
  /\ UNCHANGED <<storeVars, pc, loopVars, cancelled, runtimeVars>>

StopReturns ==
  /\ stopping = "waiting" /\ pc = "exited"
  /\ stopping' = "returned"
  /\ UNCHANGED <<storeVars, pc, loopVars, cancelled, runtimeVars>>

-----------------------------------------------------------------------------
Loop == Query \/ Return \/ Answer \/ Error \/ Retry \/ Exit \/ StopReturns

Next ==
  \/ Write \/ Restore \/ Outage \/ Take \/ Cancel
  \/ Baseline \/ Refused \/ Loop \/ Stop

\* Queries end within their time-out, timers fire, the runtime reads.
Spec == Init /\ [][Next]_vars /\ WF_vars(Loop) /\ WF_vars(Take)

-----------------------------------------------------------------------------
\* While the store's index is the one the next query names - so that the query
\* would wait - there is nothing it has not announced.
WaitsOnlyWhenCurrent ==
  pc \in {"limit", "query", "backoff"} /\ idx = index => announced = content

\* An index was the store's before: what the goroutine names, and what it was answered,
\* is not ahead of the writes.
IndexInv ==
  /\ idx \in 2 .. content + 2 /\ last \in 0 .. content + 2 /\ index \in 0 .. content + 2
  /\ pc \in {"answer", "exited"} \/ index \in {0, 1, last}

\* An answer that brings no new index brings no news.
AnswerInv == pc = "answer" /\ last = index /\ idx = index => announced = content

TypeOK ==
  /\ content \in Nat /\ announced \in 0 .. content
  /\ up \in BOOLEAN /\ token \in BOOLEAN /\ failed \in BOOLEAN /\ cancelled \in BOOLEAN
  /\ pc \in {"watch", "refused", "limit", "query", "broken", "answer", "error", "backoff",
            "exited"}
  /\ stopping \in {"no", "waiting", "returned"}

StopInv ==
  /\ stopping # "no" => Started /\ cancelled
  /\ stopping = "returned" => pc = "exited"

IInv == TypeOK /\ StopInv /\ IndexInv /\ AnswerInv /\ WaitsOnlyWhenCurrent

\* The source as a Watcher (see module Watcher).
Phase == IF pc = "refused" \/ stopping = "returned" THEN "off"
         ELSE IF pc = "watch" THEN "new" ELSE IF cancelled THEN "ending" ELSE "on"
Owed == Started /\ announced # content

\* The servers answer for good, and the runtime has seen what they hold.
Settled == up /\ Started /\ ~cancelled
Current == read = content
=============================================================================
