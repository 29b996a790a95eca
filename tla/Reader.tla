------------------------------- MODULE Reader -------------------------------
(***************************************************************************)
(* Read of contrib/sources/reader: the reader that open returned is read to *)
(* its end while the end of the context, in a goroutine of its own, closes  *)
(* it; whoever comes first closes, once.  A reader that is closed returns   *)
(* from a Read that waits, and may wait for ever if it is not.              *)
(***************************************************************************)
EXTENDS Naturals

CONSTANTS Limit,    \* MaxBytes
          MaxSize   \* bound: bytes of a document

ReaderAssumption == Limit \in Nat \ {0} /\ MaxSize \in Nat

VARIABLES
  size,       \* bytes of the document, fixed
  cancelled,  \* the context
  reader,     \* "none", "open", "closed"
  closes,     \* calls of its Close
  pc,         \* the Read
  after,      \* the AfterFunc: "none", "armed", "stopped", "started", "closing", "finished"
  once,       \* closeReader: "new", "busy", "done"
  got,        \* bytes read
  data,       \* document.Read: "unread", "reading", "whole", "failed"
  closeErr,   \* what Close returned
  result      \* what Read returned

vars == <<size, cancelled, reader, closes, pc, after, once, got, data, closeErr, result>>

Init ==
  /\ size \in 0..MaxSize
  /\ cancelled = FALSE /\ reader = "none" /\ closes = 0
  /\ pc = "called" /\ after = "none" /\ once = "new"
  /\ got = 0 /\ data = "unread" /\ closeErr = FALSE /\ result = "none"

Return(r) == pc' = "returned" /\ result' = r

Cancel ==
  /\ ~cancelled /\ cancelled' = TRUE
  /\ UNCHANGED <<size, reader, closes, pc, after, once, got, data, closeErr, result>>

-----------------------------------------------------------------------------
\* The context is looked at; then open returns a reader, or an error with or without one.
Refuse ==
  /\ pc = "called" /\ cancelled
  /\ Return("error")
  /\ UNCHANGED <<size, cancelled, reader, closes, after, once, got, data, closeErr>>

Enter ==
  /\ pc = "called" /\ ~cancelled /\ pc' = "open"
  /\ UNCHANGED <<size, cancelled, reader, closes, after, once, got, data, closeErr, result>>

OpenFails ==
  /\ pc = "open"
  /\ Return("error")
  /\ \/ UNCHANGED <<reader, closes>>
     \/ reader' = "closed" /\ closes' = 1
  /\ UNCHANGED <<size, cancelled, after, once, got, data, closeErr>>

Open ==
  /\ pc = "open" /\ pc' = "arm" /\ reader' = "open"
  /\ UNCHANGED <<size, cancelled, closes, after, once, got, data, closeErr, result>>

\* context.AfterFunc.
Arm ==
  /\ pc = "arm" /\ pc' = "read"
  /\ after' = "armed"
  /\ UNCHANGED <<size, cancelled, reader, closes, once, got, data, closeErr, result>>

\* document.Read: it looks at the context before and after, and reads one byte more
\* than the limit to tell a document that exceeds it.
ReadBegins ==
  /\ pc = "read" /\ data = "unread"
  /\ IF cancelled THEN data' = "failed" /\ pc' = "stop"
                  ELSE data' = "reading" /\ UNCHANGED pc
  /\ UNCHANGED <<size, cancelled, reader, closes, after, once, got, closeErr, result>>

ReadByte ==
  /\ pc = "read" /\ data = "reading" /\ reader = "open"
  /\ got < size /\ got <= Limit /\ got' = got + 1
  /\ UNCHANGED <<size, cancelled, reader, closes, pc, after, once, data, closeErr, result>>

\* Mutant: the rest of a document that exceeds the limit is cut off.
ReadEndsAtLimit ==
  /\ pc = "read" /\ data = "reading" /\ reader = "open"
  /\ got = size \/ got = Limit
  /\ data' = (IF cancelled THEN "failed" ELSE "whole") /\ pc' = "stop"
  /\ UNCHANGED <<size, cancelled, reader, closes, after, once, got, closeErr, result>>

ReadEnds ==
  /\ pc = "read" /\ data = "reading" /\ reader = "open"
  /\ got = size \/ got > Limit
  /\ data' = (IF cancelled \/ got > Limit THEN "failed" ELSE "whole") /\ pc' = "stop"
  /\ UNCHANGED <<size, cancelled, reader, closes, after, once, got, closeErr, result>>

\* The reader fails, or was closed.
ReadFails ==
  /\ pc = "read" /\ data = "reading"
  /\ data' = "failed" /\ pc' = "stop"
  /\ UNCHANGED <<size, cancelled, reader, closes, after, once, got, closeErr, result>>

\* Mutant: what stop says is not heeded.
StopUnheeded ==
  /\ pc = "stop" /\ pc' = "close"
  /\ after' = IF after = "armed" THEN "stopped" ELSE after
  /\ UNCHANGED <<size, cancelled, reader, closes, once, got, data, closeErr, result>>

\* stop keeps the function from running, or finds it running and waits.
Stop ==
  /\ pc = "stop"
  /\ IF after = "armed" THEN after' = "stopped" /\ pc' = "close"
                        ELSE after' = after /\ pc' = "wait"
  /\ UNCHANGED <<size, cancelled, reader, closes, once, got, data, closeErr, result>>

Wait ==
  /\ pc = "wait" /\ after = "finished" /\ pc' = "close"
  /\ UNCHANGED <<size, cancelled, reader, closes, after, once, got, data, closeErr, result>>

\* closeReader is a sync.Once: the first to come closes, others wait until it has.
BeginClose ==
  /\ once = "new" /\ once' = "busy"
  /\ closes' = closes + 1

EndClose ==
  /\ once' = "done" /\ reader' = "closed" /\ closeErr' \in BOOLEAN

Close ==
  /\ pc = "close" /\ BeginClose /\ pc' = "closing"
  /\ UNCHANGED <<size, cancelled, reader, after, got, data, closeErr, result>>

Closed ==
  /\ pc = "closing" /\ EndClose /\ pc' = "check"
  /\ UNCHANGED <<size, cancelled, closes, after, got, data, result>>

CloseAgain ==
  /\ pc = "close" /\ once = "done" /\ pc' = "check"
  /\ UNCHANGED <<size, cancelled, reader, closes, after, once, got, data, closeErr, result>>

\* The context first, then the error of document.Read, then that of Close.
Finish ==
  /\ pc = "check"
  /\ Return(IF cancelled \/ data # "whole" \/ closeErr THEN "error" ELSE "layer")
  /\ UNCHANGED <<size, cancelled, reader, closes, after, once, got, data, closeErr>>

-----------------------------------------------------------------------------
(* The goroutine of the AfterFunc.                                          *)

AfterStarts ==
  /\ after = "armed" /\ cancelled /\ after' = "started"
  /\ UNCHANGED <<size, cancelled, reader, closes, pc, once, got, data, closeErr, result>>

\* Mutant: the function does not close the reader, which Read does when it is done.
AfterLeavesOpen ==
  /\ after = "started" /\ after' = "finished"
  /\ UNCHANGED <<size, cancelled, reader, closes, pc, once, got, data, closeErr, result>>

AfterCloses ==
  /\ after = "started" /\ BeginClose /\ after' = "closing"
  /\ UNCHANGED <<size, cancelled, reader, pc, got, data, closeErr, result>>

AfterClosed ==
  /\ after = "closing" /\ EndClose /\ after' = "finished"
  /\ UNCHANGED <<size, cancelled, closes, pc, got, data, result>>

-----------------------------------------------------------------------------
After == AfterStarts \/ AfterCloses \/ AfterClosed
Closing == Close \/ Closed \/ CloseAgain
Opening == Refuse \/ Enter \/ OpenFails \/ Open \/ Arm
Running == Opening \/ ReadBegins \/ Stop \/ Wait \/ Closing \/ Finish

Next == Cancel \/ After \/ Running \/ ReadByte \/ ReadEnds \/ ReadFails

\* Both goroutines run; a read of the reader is sure to return only if it is closed.
Spec ==
  /\ Init /\ [][Next]_vars
  /\ WF_vars(After) /\ WF_vars(Running)
  /\ WF_vars(reader = "closed" /\ ReadFails)

-----------------------------------------------------------------------------
\* A reader that open returned is closed once, before Read returns and never after,
\* whichever goroutine closes it.
ClosedOnce ==
  /\ closes <= 1
  /\ pc = "returned" =>
       /\ reader \in {"none", "closed"} /\ after \in {"none", "stopped", "finished"}
       /\ closes = IF reader = "none" THEN 0 ELSE 1

\* A layer comes of a whole document within the limit, from a reader that closed well:
\* a Read that was cut short by the limit or by a close does not pass for a short
\* document.
LayerIsWhole ==
  result = "layer" => got = size /\ size <= Limit /\ ~closeErr

-----------------------------------------------------------------------------
(* The inductive invariant behind both.                                     *)

TypeOK ==
  /\ size \in Nat /\ got \in Nat
  /\ cancelled \in BOOLEAN /\ closeErr \in BOOLEAN
  /\ reader \in {"none", "open", "closed"} /\ closes \in Nat
  /\ pc \in {"called", "open", "arm", "read", "stop", "wait", "close", "closing", "check",
             "returned"}
  /\ after \in {"none", "armed", "stopped", "started", "closing", "finished"}
  /\ once \in {"new", "busy", "done"}
  /\ data \in {"unread", "reading", "whole", "failed"}
  /\ result \in {"none", "error", "layer"}

\* The Once has one winner, Read or the AfterFunc: while Read has still to stop the
\* AfterFunc only that one can close, and when Read goes on to close, the AfterFunc has
\* been stopped before it began, or has finished.
OnceInv ==
  /\ pc \in {"called", "open"} => reader = "none"
  /\ pc = "arm" => reader = "open"
  /\ pc \in {"called", "open", "arm"} => closes = 0 /\ once = "new" /\ after = "none"
  /\ pc \in {"read", "stop", "wait", "close", "closing", "check"} =>
       /\ closes = IF once = "new" THEN 0 ELSE 1
       /\ reader = IF once = "done" THEN "closed" ELSE "open"
  /\ pc \in {"read", "stop"} => after \in {"armed", "started", "closing", "finished"}
  /\ pc = "wait" => after \in {"started", "closing", "finished"}
  /\ pc \in {"close", "closing", "check"} => after \in {"stopped", "finished"}
  /\ pc # "returned" =>
       /\ after = "finished" => once = "done"
       /\ after \in {"armed", "started"} => once = "new"
       /\ after = "closing" => once = "busy"
       /\ pc = "close" /\ after = "stopped" => once = "new"
       /\ pc = "closing" => once = "busy" /\ after = "stopped"
       /\ pc = "check" => once = "done"

\* What passes for whole was read to the end.
WholeInv ==
  /\ data = "whole" => got = size /\ got <= Limit
  /\ data = "whole" => pc \notin {"called", "open", "arm", "read"}
  /\ pc # "returned" => result = "none"

IInv == TypeOK /\ OnceInv /\ WholeInv /\ ClosedOnce /\ LayerIsWhole
=============================================================================
