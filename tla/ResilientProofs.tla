--------------------------- MODULE ResilientProofs ---------------------------
(***************************************************************************)
(* What the Resilient wrapper of sources.go guarantees for any number of    *)
(* runtimes that share it, any Backoff and any inner source: no wake-up is  *)
(* lost and stop is final; and, when one runtime uses it, that what the     *)
(* runtime shows never goes back.                                           *)
(***************************************************************************)
EXTENDS Resilient, TLAPS

\* The steps one by one, by what they are steps of.
LEMMA NextCases ==
  ASSUME Next
  PROVE  \/ Outage \/ Change
         \/ \E r \in Runtimes :
              \/ InnerNotify(r) \/ RunReads(r) \/ CallReads(r)
              \/ RecordGood(r) \/ RecordFailure(r)
              \/ Watch(r) \/ Register(r) \/ RegisterFails(r) \/ CheckStale(r)
              \/ Woken(r) \/ TimerFires(r) \/ Exit(r)
              \/ CancelContext(r) \/ Stop(r) \/ StopUnlinks(r) \/ StopInner(r)
BY DEF Next, Read, Loop, Stopping

\* What a Read returns, and the records it is kept in.
LEMMA ReadTyped ==
  ASSUME TypeOK, NEW discarded \in BOOLEAN
  PROVE  /\ Good(gen, discarded) \in [outcome : {"none", "good", "error"}, gen : 0..gen,
                                      discarded : BOOLEAN]
         /\ Failure(discarded) \in [outcome : {"none", "good", "error"}, gen : 0..gen,
                                    discarded : BOOLEAN]
         /\ Fetched \in [outcome : {"none", "good", "error"}, gen : 0..gen,
                         discarded : BOOLEAN]
         /\ NoRead \in [outcome : {"none", "good", "error"}, gen : 0..gen,
                        discarded : BOOLEAN]
BY ResilientAssumption DEF TypeOK, Good, Failure, Fetched, NoRead

LEMMA InitIInv == Init => IInv
<1> SUFFICES ASSUME Init PROVE IInv
  OBVIOUS
<1> USE ResilientAssumption DEF Init
<1>1. TypeOK
  <2>1. /\ up \in BOOLEAN /\ gen \in 1..MaxChanges + 1 /\ last \in 0..gen /\ calls \in 0..MaxCalls
        /\ 0 \in 0..gen /\ Lo \in Lo..Hi
    OBVIOUS
  <2>2. reading \in [Runtimes -> [outcome : {"none", "good", "error"}, gen : 0..gen,
                                  discarded : BOOLEAN]]
    BY <2>1 DEF NoRead
  <2>3. shown \in [Runtimes -> [gen : 0..gen, stale : BOOLEAN]]
    BY <2>1
  <2>4. delay \in [Runtimes -> Lo..Hi] /\ \A r \in Runtimes : loop[r] # "idle"
    BY <2>1
  <2> QED BY <2>1, <2>2, <2>3, <2>4 DEF TypeOK
<1>2. LinkInv /\ NoLostWakeup
  BY DEF LinkInv, NoLostWakeup
<1> QED BY <1>1, <1>2 DEF IInv

LEMMA NextTypeOK ==
  ASSUME TypeOK, Next
  PROVE  TypeOK'
<1> USE ResilientAssumption DEF TypeOK, innerVars, stateVars, loopVars, stopVars, readVars
<1>1. CASE Outage
  BY <1>1 DEF Outage
<1>2. CASE Change
  <2>1. /\ gen' \in 1..MaxChanges + 1 /\ 0..gen \subseteq 0..gen' /\ 0..gen' = 0..(gen + 1)
        /\ UNCHANGED <<up, stateVars, loopVars, stopVars, dirty, readVars>>
    BY <1>2 DEF Change
  <2>2. reading \in [Runtimes -> [outcome : {"none", "good", "error"}, gen : 0..gen',
                                  discarded : BOOLEAN]]
    BY <2>1
  <2>3. shown \in [Runtimes -> [gen : 0..gen', stale : BOOLEAN]]
    BY <2>1
  <2>4. last \in 0..gen'
    BY <2>1
  <2> QED BY <2>1, <2>2, <2>3, <2>4
<1>3. ASSUME NEW r \in Runtimes, InnerNotify(r) PROVE TypeOK'
  BY <1>3 DEF InnerNotify
<1>4. ASSUME NEW r \in Runtimes, RunReads(r) \/ CallReads(r) PROVE TypeOK'
  <2>1. CASE RunReads(r)
    BY <2>1, ReadTyped DEF RunReads
  <2>2. CASE CallReads(r)
    <3>1. PICK read \in [outcome : {"none", "good", "error"}, gen : 0..gen, discarded : BOOLEAN] :
            reading' = [reading EXCEPT ![r] = read]
      BY <2>2, ReadTyped DEF CallReads
    <3>2. calls' \in 0..MaxCalls
      BY <2>2 DEF CallReads
    <3> QED BY <2>2, <3>1, <3>2 DEF CallReads
  <2> QED BY <1>4, <2>1, <2>2
<1>5. ASSUME NEW r \in Runtimes, RecordGood(r) \/ RecordFailure(r) PROVE TypeOK'
  <2>1. ASSUME NEW layer \in [gen : 0..gen, stale : BOOLEAN], Show(r, layer)
        PROVE  shown' \in [Runtimes -> [gen : 0..gen, stale : BOOLEAN]]
    BY <2>1 DEF Show
  <2>2. CASE RecordGood(r)
    <3>1. reading[r].gen \in 0..gen
      OBVIOUS
    <3> QED BY <2>1, <2>2, <3>1, ReadTyped DEF RecordGood
  <2>3. CASE RecordFailure(r)
    BY <2>1, <2>3, ReadTyped DEF RecordFailure
  <2> QED BY <1>5, <2>2, <2>3
<1>6. ASSUME NEW r \in Runtimes, Watch(r) PROVE TypeOK'
  BY <1>6 DEF Watch, Goto
<1>7. ASSUME NEW r \in Runtimes,
             Register(r) \/ RegisterFails(r) \/ CheckStale(r) \/ Woken(r) \/ Exit(r)
      PROVE  TypeOK'
  <2>1. CASE Register(r)
    BY <2>1 DEF Register
  <2>2. CASE RegisterFails(r) \/ Exit(r)
    BY <2>2 DEF RegisterFails, Exit, Goto
  <2>3. CASE CheckStale(r)
    <3>1. CASE failing
      BY <2>3, <3>1 DEF CheckStale, Goto
    <3>2. CASE ~failing
      <4>1. /\ loop' = [loop EXCEPT ![r] = "idle"] /\ delay' = [delay EXCEPT ![r] = Lo]
            /\ UNCHANGED <<innerVars, stateVars, unregistered, inner, stopVars, dirty, readVars>>
        BY <2>3, <3>2 DEF CheckStale, Goto
      <4>2. delay' \in [Runtimes -> Lo..Hi] /\ \A x \in Runtimes : loop'[x] = "idle" => delay'[x] = Lo
        BY <4>1
      <4> QED BY <4>1, <4>2
    <3> QED BY <3>1, <3>2
  <2>4. CASE Woken(r)
    BY <2>4 DEF Woken, Goto
  <2> QED BY <1>7, <2>1, <2>2, <2>3, <2>4
<1>8. ASSUME NEW r \in Runtimes, TimerFires(r) PROVE TypeOK'
  BY <1>8 DEF TimerFires, Goto
<1>9. ASSUME NEW r \in Runtimes,
             CancelContext(r) \/ Stop(r) \/ StopUnlinks(r) \/ StopInner(r)
      PROVE  TypeOK'
  BY <1>9 DEF CancelContext, Stop, StopUnlinks, StopInner
<1> HIDE DEF TypeOK
<1> QED BY NextCases, <1>1, <1>2, <1>3, <1>4, <1>5, <1>6, <1>7, <1>8, <1>9

LEMMA NextLinkInv ==
  ASSUME TypeOK, LinkInv, Next
  PROVE  LinkInv'
<1> SUFFICES ASSUME NEW x \in Runtimes
             PROVE  /\ loop'[x] \in {"top", "idle", "backoff", "retry"} => x \in wakes'
                    /\ stopping'[x] \in {"unlinked", "stopped"} =>
                         loop'[x] = "exited" /\ x \notin wakes'
                    /\ stopping'[x] = "stopped" => x \notin inner'
  BY DEF LinkInv
<1> USE DEF TypeOK, LinkInv, innerVars, stateVars, loopVars, stopVars, readVars
<1>1. CASE Outage \/ Change
  BY <1>1 DEF Outage, Change
<1>2. ASSUME NEW r \in Runtimes,
             \/ InnerNotify(r) \/ RunReads(r) \/ CallReads(r) \/ RecordGood(r)
             \/ RecordFailure(r) \/ CancelContext(r)
      PROVE  UNCHANGED <<loop, wakes, stopping, inner>>
  BY <1>2 DEF InnerNotify, RunReads, CallReads, RecordGood, RecordFailure, CancelContext
<1>3. ASSUME NEW r \in Runtimes, Watch(r)
      PROVE  /\ loop[r] = "none" /\ loop' = [loop EXCEPT ![r] = "top"]
             /\ wakes' = wakes \cup {r} /\ UNCHANGED <<stopping, inner>>
  BY <1>3 DEF Watch, Goto
<1>4. ASSUME NEW r \in Runtimes, Register(r)
      PROVE  loop[r] = "top" /\ inner' = inner \cup {r} /\ UNCHANGED <<loop, wakes, stopping>>
  BY <1>4 DEF Register
<1>5. ASSUME NEW r \in Runtimes,
             RegisterFails(r) \/ CheckStale(r) \/ Woken(r) \/ TimerFires(r) \/ Exit(r)
      PROVE  /\ loop[r] \in {"top", "idle", "backoff", "retry"}
             /\ \E label \in {"top", "idle", "backoff", "retry", "exited"} :
                  loop' = [loop EXCEPT ![r] = label]
             /\ UNCHANGED <<wakes, stopping, inner>>
  BY <1>5 DEF RegisterFails, CheckStale, Woken, TimerFires, Exit, Goto
<1>6. ASSUME NEW r \in Runtimes, Stop(r)
      PROVE  stopping' = [stopping EXCEPT ![r] = "waiting"] /\ UNCHANGED <<loop, wakes, inner>>
  BY <1>6 DEF Stop
<1>7. ASSUME NEW r \in Runtimes, StopUnlinks(r)
      PROVE  /\ loop[r] = "exited" /\ wakes' = wakes \ {r}
             /\ stopping' = [stopping EXCEPT ![r] = "unlinked"] /\ UNCHANGED <<loop, inner>>
  BY <1>7 DEF StopUnlinks
<1>8. ASSUME NEW r \in Runtimes, StopInner(r)
      PROVE  /\ stopping[r] = "unlinked" /\ inner' = inner \ {r}
             /\ stopping' = [stopping EXCEPT ![r] = "stopped"] /\ UNCHANGED <<loop, wakes>>
  BY <1>8 DEF StopInner
<1> QED BY NextCases, <1>1, <1>2, <1>3, <1>4, <1>5, <1>6, <1>7, <1>8

LEMMA NextNoLostWakeup ==
  ASSUME TypeOK, LinkInv, NoLostWakeup, Next
  PROVE  NoLostWakeup'
<1> SUFFICES ASSUME NEW x \in Runtimes, loop'[x] = "idle", failing' PROVE x \in wake'
  BY DEF NoLostWakeup
<1> USE DEF TypeOK, innerVars, stateVars, loopVars, stopVars, readVars
<1>1. loop[x] = "idle" /\ failing => x \in wake
  BY DEF NoLostWakeup
<1>2. CASE Outage \/ Change
  BY <1>1, <1>2 DEF Outage, Change
<1>3. ASSUME NEW r \in Runtimes,
             \/ InnerNotify(r) \/ RunReads(r) \/ CallReads(r) \/ Register(r)
             \/ CancelContext(r) \/ Stop(r) \/ StopUnlinks(r) \/ StopInner(r)
      PROVE  UNCHANGED <<loop, failing, wake>>
  BY <1>3 DEF InnerNotify, RunReads, CallReads, Register, CancelContext, Stop, StopUnlinks,
              StopInner
<1>4. ASSUME NEW r \in Runtimes, RecordGood(r) PROVE ~failing'
  BY <1>4 DEF RecordGood
<1>5. ASSUME NEW r \in Runtimes, RecordFailure(r) PROVE x \in wake'
  BY <1>5 DEF RecordFailure, LinkInv
<1>6. ASSUME NEW r \in Runtimes, CheckStale(r) PROVE x \in wake'
  BY <1>1, <1>6 DEF CheckStale, Goto
<1>7. ASSUME NEW r \in Runtimes, Woken(r) PROVE x \in wake'
  BY <1>1, <1>7 DEF Woken, Goto
<1>8. ASSUME NEW r \in Runtimes, Watch(r) \/ RegisterFails(r) \/ TimerFires(r) \/ Exit(r)
      PROVE  x \in wake'
  <2>1. UNCHANGED <<failing, wake>> /\ loop[x] = loop'[x]
    BY <1>8 DEF Watch, RegisterFails, TimerFires, Exit, Goto
  <2> QED BY <1>1, <2>1
<1> QED BY NextCases, <1>1, <1>2, <1>3, <1>4, <1>5, <1>6, <1>7, <1>8

-----------------------------------------------------------------------------
(* The theorems.                                                            *)

\* The invariant of the wrapper, whoever shares it.
THEOREM Inductive == Spec => []IInv
<1>1. IInv /\ UNCHANGED vars => IInv'
  BY DEF IInv, TypeOK, LinkInv, NoLostWakeup, vars, innerVars, stateVars, loopVars, stopVars,
         readVars
<1>2. IInv /\ [Next]_vars => IInv'
  BY <1>1, NextTypeOK, NextLinkInv, NextNoLostWakeup DEF IInv
<1> QED BY <1>2, InitIInv, PTL DEF Spec

\* A Read that fails between a loop's look at failing and its wait is noticed.
THEOREM NothingIsLost == Spec => []NoLostWakeup
<1>1. IInv => NoLostWakeup
  BY DEF IInv
<1> QED BY <1>1, Inductive, PTL

\* When stop returns the goroutine has ended, and the runtime is left alone for good.
THEOREM StopsForGood == Spec => StopIsFinal
<1> DEFINE A == \A r \in Runtimes :
                  /\ stopping'[r] = "stopped" => loop'[r] = "exited" /\ r \notin wakes' \cup inner'
                  /\ stopping[r] = "stopped" /\ r \notin dirty => r \notin dirty'
<1>1. IInv' => \A r \in Runtimes :
        stopping'[r] = "stopped" => loop'[r] = "exited" /\ r \notin wakes' \cup inner'
  BY DEF IInv, LinkInv
<1>2. ASSUME IInv, Next, NEW x \in Runtimes, stopping[x] = "stopped", x \notin dirty
      PROVE  x \notin dirty'
  <2> USE DEF innerVars, stateVars, loopVars, stopVars, readVars
  <2>1. loop[x] = "exited" /\ x \notin inner
    BY <1>2 DEF IInv, LinkInv
  <2>2. CASE Outage \/ Change
    BY <1>2, <2>2 DEF Outage, Change
  <2>3. ASSUME NEW r \in Runtimes,
               \/ CallReads(r) \/ RecordGood(r) \/ RecordFailure(r) \/ RegisterFails(r)
               \/ CheckStale(r) \/ Woken(r) \/ Exit(r) \/ CancelContext(r) \/ Stop(r)
               \/ StopUnlinks(r) \/ StopInner(r)
        PROVE  UNCHANGED dirty
    BY <2>3 DEF CallReads, RecordGood, RecordFailure, RegisterFails, CheckStale, Woken, Exit,
                CancelContext, Stop, StopUnlinks, StopInner
  <2>4. ASSUME NEW r \in Runtimes,
               InnerNotify(r) \/ RunReads(r) \/ Watch(r) \/ Register(r) \/ TimerFires(r)
        PROVE  x \notin dirty'
    BY <1>2, <2>1, <2>4 DEF InnerNotify, RunReads, Watch, Register, TimerFires
  <2> QED BY <1>2, <2>2, <2>3, <2>4, NextCases
<1>3. IInv /\ IInv' /\ [Next]_vars => [A]_vars
  BY <1>1, <1>2
<1> QED BY <1>3, Inductive, PTL DEF Spec, StopIsFinal

\* A runtime that has the wrapper to itself never goes back to an older layer.  Two that
\* share it may: their Reads are concurrent, and the later one to record may have begun
\* first.
THEOREM OneRuntimeMovesForward ==
  ASSUME NEW only, Runtimes = {only}
  PROVE  Spec => ShownNeverRegresses
<1> DEFINE Forward == /\ shown[only].gen <= last
                      /\ reading[only].outcome = "good" => last <= reading[only].gen
           A == \A r \in Runtimes : shown[r].gen <= shown'[r].gen
<1>1. only \in Runtimes
  OBVIOUS
<1>2. Init => Forward
  BY <1>1 DEF Init, NoRead
<1>3. ASSUME IInv, Forward, [Next]_vars
      PROVE  Forward' /\ shown[only].gen <= shown'[only].gen
  <2> USE DEF innerVars, stateVars, loopVars, stopVars, readVars
  <2>1. /\ shown \in [Runtimes -> [gen : 0..gen, stale : BOOLEAN]] /\ gen \in Nat
        /\ last \in 0..gen /\ last \in Nat /\ shown[only].gen \in Nat
        /\ reading \in [Runtimes -> [outcome : {"none", "good", "error"}, gen : 0..gen,
                                     discarded : BOOLEAN]]
        /\ reading[only].gen \in Nat
    BY <1>1, <1>3, ResilientAssumption DEF IInv, TypeOK
  <2>2. CASE UNCHANGED <<last, shown, reading>>
    BY <1>3, <2>1, <2>2
  <2>3. CASE RunReads(only) \/ CallReads(only)
    <3>1. UNCHANGED <<last, shown>>
      BY <2>3 DEF RunReads, CallReads
    <3>2. reading'[only].outcome = "good" => reading'[only].gen = gen
      BY <2>1, <2>3, <1>1 DEF RunReads, CallReads, Fetched, Good, Failure
    <3> QED BY <1>3, <2>1, <3>1, <3>2
  <2>4. CASE RecordGood(only)
    <3>1. /\ last' = reading[only].gen /\ last <= last' /\ reading'[only].outcome = "none"
          /\ shown'[only].gen \in {shown[only].gen, reading[only].gen}
      BY <1>1, <1>3, <2>1, <2>4 DEF RecordGood, Show, NoRead
    <3> QED BY <1>3, <2>1, <3>1
  <2>5. CASE RecordFailure(only)
    <3>1. /\ last' = last /\ reading'[only].outcome = "none"
          /\ shown'[only].gen \in {shown[only].gen, last}
      BY <1>1, <2>1, <2>5 DEF RecordFailure, Show, NoRead
    <3> QED BY <1>3, <2>1, <3>1
  <2>6. CASE UNCHANGED vars
    BY <2>2, <2>6 DEF vars
  <2>7. CASE Next
    <3>1. Outage \/ Change => UNCHANGED <<last, shown, reading>>
      BY DEF Outage, Change
    <3>2. ASSUME NEW r \in Runtimes,
                 \/ InnerNotify(r) \/ Watch(r) \/ Register(r) \/ RegisterFails(r)
                 \/ CheckStale(r) \/ Woken(r) \/ TimerFires(r) \/ Exit(r)
                 \/ CancelContext(r) \/ Stop(r) \/ StopUnlinks(r) \/ StopInner(r)
          PROVE  UNCHANGED <<last, shown, reading>>
      BY <3>2 DEF InnerNotify, Watch, Register, RegisterFails, CheckStale, Woken, TimerFires,
                  Exit, CancelContext, Stop, StopUnlinks, StopInner
    <3> QED BY <2>2, <2>3, <2>4, <2>5, <2>7, <3>1, <3>2, NextCases
  <2> QED BY <1>3, <2>6, <2>7
<1>4. IInv /\ Forward /\ [Next]_vars => [A]_vars
  BY <1>3
<1>5. IInv /\ Forward /\ [Next]_vars => Forward'
  BY <1>3
<1> HIDE DEF Forward
<1> QED BY <1>2, <1>4, <1>5, Inductive, PTL DEF Spec, ShownNeverRegresses
=============================================================================
