-------------------------------- MODULE Feed --------------------------------
(***************************************************************************)
(* What the runtime promises its subscribers, without threads, locks or     *)
(* channels: the outcome of each rebuild is announced to the members, each  *)
(* of whom has one mailbox that a newer announcement overwrites.            *)
(***************************************************************************)
EXTENDS Snapshots

CONSTANT Member

VARIABLES snapshot,   \* the current snapshot
          failing,    \* the last rebuild failed
          members,    \* who is subscribed
          news,       \* the announcement under way, NoEvent when there is none
          owed,       \* the members it has not reached
          mailbox,    \* what each member will read next, or NoEvent
          heard       \* what each member read last, or NoEvent

vars == <<snapshot, failing, members, news, owed, mailbox, heard>>

Nothing == [m \in Member |-> NoEvent]
Started == snapshot # NoEvent.snapshot

Init ==
  /\ snapshot = NoEvent.snapshot /\ failing = FALSE
  /\ members = {} /\ owed = {} /\ news = NoEvent
  /\ mailbox = Nothing /\ heard = Nothing

Start ==
  /\ ~Started
  /\ snapshot'.version = 1
  /\ UNCHANGED <<failing, members, news, owed, mailbox, heard>>

-----------------------------------------------------------------------------
\* Announcements follow one another and go to the members of the moment.
Announce(e) ==
  /\ Started /\ owed = {}
  /\ owed' = members
  /\ news' = IF members = {} THEN NoEvent ELSE e
  /\ UNCHANGED <<members, mailbox, heard>>

\* A failure keeps the snapshot; so does the recovery from one.
Fail ==
  /\ Announce(Event(snapshot, TRUE, {}))
  /\ failing' = TRUE /\ UNCHANGED snapshot

Recover ==
  /\ failing
  /\ Announce(Event(snapshot, FALSE, {}))
  /\ failing' = FALSE /\ UNCHANGED snapshot

\* Any other snapshot is the next version, announced with what it changes.
Advance ==
  /\ snapshot'.version = snapshot.version + 1
  /\ ~SameSnapshot(snapshot, snapshot')
  /\ Announce(Event(snapshot', FALSE, ChangedPaths(snapshot, snapshot')))
  /\ failing' = FALSE

-----------------------------------------------------------------------------
\* The announcement takes the place of what the member has not read.
Overwrite(m) ==
  /\ m \in owed
  /\ mailbox' = [mailbox EXCEPT ![m] = news]
  /\ owed' = owed \ {m}
  /\ news' = IF owed = {m} THEN NoEvent ELSE news
  /\ UNCHANGED <<snapshot, failing, members, heard>>

Read(m) ==
  /\ mailbox[m] # NoEvent
  /\ heard' = [heard EXCEPT ![m] = mailbox[m]]
  /\ mailbox' = [mailbox EXCEPT ![m] = NoEvent]
  /\ UNCHANGED <<snapshot, failing, members, news, owed>>

\* Nobody joins or leaves in the middle of an announcement.  Whoever joins is
\* told the current snapshot, and joins once.
Join(m) ==
  /\ Started /\ owed = {}
  /\ m \notin members /\ mailbox[m] = NoEvent /\ heard[m] = NoEvent
  /\ members' = members \cup {m}
  /\ mailbox' = [mailbox EXCEPT ![m] = Event(snapshot, FALSE, {})]
  /\ UNCHANGED <<snapshot, failing, news, owed, heard>>

Quit(gone) ==
  /\ owed = {} /\ gone \subseteq members
  /\ members' = members \ gone
  /\ UNCHANGED <<snapshot, failing, news, owed, mailbox, heard>>

Next ==
  \/ Start \/ Fail \/ Recover \/ Advance
  \/ \E m \in Member : Overwrite(m) \/ Read(m) \/ Join(m)
  \/ \E gone \in SUBSET Member : Quit(gone)

Spec == Init /\ [][Next]_vars
=============================================================================
