------------------------------ MODULE Watcher ------------------------------
(***************************************************************************)
(* What a Watcher promises (xconf.go): "Notifications invalidate the whole  *)
(* layer.  stop must release resources and wait for callbacks to finish."   *)
(* The runtime relies on it (pend and Notify of module Runtime): whatever   *)
(* changes once Watch has registered is followed by a notification, and     *)
(* none comes after stop has returned.                                      *)
(***************************************************************************)
VARIABLES phase,  \* "new", "on", "ending" (its context has ended), "off"
          owed,   \* something has changed since the last notification
          token   \* set by notify, taken by the runtime before it reads

vars == <<phase, owed, token>>

Init == phase = "new" /\ owed = FALSE /\ token = FALSE

\* Watch returns; Open's own first read comes after it.
Register ==
  /\ phase = "new" /\ phase' \in {"on", "ending"}
  /\ owed' \in BOOLEAN /\ token' = TRUE

Refuse == phase = "new" /\ phase' = "off" /\ UNCHANGED <<owed, token>>

Change == phase # "new" /\ owed' = TRUE /\ UNCHANGED <<phase, token>>

\* A notification may also come for no reason.
Notify ==
  /\ phase \in {"on", "ending"}
  /\ token' = TRUE /\ owed' = FALSE
  /\ UNCHANGED phase

Take == token' = FALSE /\ UNCHANGED <<phase, owed>>

End == phase = "on" /\ phase' = "ending" /\ UNCHANGED <<owed, token>>

StopReturns == phase = "ending" /\ phase' = "off" /\ UNCHANGED <<owed, token>>

Next == Register \/ Refuse \/ Change \/ Notify \/ Take \/ End \/ StopReturns

Fairness == WF_vars(owed /\ phase = "on" /\ Notify)

Spec == Init /\ [][Next]_vars /\ Fairness
=============================================================================
