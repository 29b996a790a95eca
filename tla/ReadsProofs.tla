----------------------------- MODULE ReadsProofs -----------------------------
(***************************************************************************)
(* The Reads of several steps, for any number of callers, versions, files,  *)
(* generations, attempts and bytes: those of contrib/sources/http,          *)
(* contrib/sources/directory, contrib/sources/reader and                     *)
(* contrib/sources/envfile.  Each source has its own inductive invariant;   *)
(* MCReads runs one of them at a time.                                      *)
(***************************************************************************)
EXTENDS MCReads, FiniteSetTheorems, SequenceTheorems, TLAPS

-----------------------------------------------------------------------------
(* Reader.                                                                  *)

LEMMA ReaderInit == Reader!Init => Reader!IInv
<1> SUFFICES ASSUME Reader!Init PROVE Reader!IInv
  OBVIOUS
<1>1. size \in Nat
  BY ReadsAssumption DEF Reader!ReaderAssumption, Reader!Init
<1>2. Reader!TypeOK
  BY <1>1 DEF Reader!Init, Reader!TypeOK
<1>3. Reader!OnceInv
  BY DEF Reader!Init, Reader!OnceInv
<1>4. Reader!WholeInv
  BY DEF Reader!Init, Reader!WholeInv
<1>5. Reader!ClosedOnce /\ Reader!LayerIsWhole
  BY DEF Reader!Init, Reader!ClosedOnce, Reader!LayerIsWhole
<1> QED BY <1>2, <1>3, <1>4, <1>5 DEF Reader!IInv

LEMMA ReaderStutter == Reader!IInv /\ UNCHANGED Reader!vars => Reader!IInv'
BY DEF Reader!vars, Reader!IInv, Reader!TypeOK, Reader!OnceInv, Reader!WholeInv,
       Reader!ClosedOnce, Reader!LayerIsWhole

LEMMA ReaderNext ==
  ASSUME Reader!IInv, Reader!Next
  PROVE  Reader!IInv'
<1> USE ReadsAssumption
    DEF Reader!ReaderAssumption, Reader!IInv, Reader!TypeOK, Reader!OnceInv, Reader!WholeInv,
        Reader!ClosedOnce, Reader!LayerIsWhole
<1>1. CASE Reader!Cancel
  BY <1>1 DEF Reader!Cancel
<1>2. CASE Reader!AfterStarts
  BY <1>2 DEF Reader!AfterStarts
<1>3. CASE Reader!AfterCloses
  BY <1>3 DEF Reader!AfterCloses, Reader!BeginClose
<1>4. CASE Reader!AfterClosed
  BY <1>4 DEF Reader!AfterClosed, Reader!EndClose
<1>5. CASE Reader!Opening
  BY <1>5 DEF Reader!Opening, Reader!Refuse, Reader!Enter, Reader!OpenFails, Reader!Open,
              Reader!Arm, Reader!Return
<1>6. CASE Reader!ReadBegins
  BY <1>6 DEF Reader!ReadBegins
<1>7. CASE Reader!ReadByte
  BY <1>7 DEF Reader!ReadByte
<1>8. CASE Reader!ReadEnds
  BY <1>8 DEF Reader!ReadEnds
<1>9. CASE Reader!ReadFails
  BY <1>9 DEF Reader!ReadFails
<1>10. CASE Reader!Stop
  BY <1>10 DEF Reader!Stop
<1>11. CASE Reader!Wait
  BY <1>11 DEF Reader!Wait
<1>12. CASE Reader!Close
  BY <1>12 DEF Reader!Close, Reader!BeginClose
<1>13. CASE Reader!Closed
  BY <1>13 DEF Reader!Closed, Reader!EndClose
<1>14. CASE Reader!CloseAgain
  BY <1>14 DEF Reader!CloseAgain
<1>15. CASE Reader!Finish
  BY <1>15 DEF Reader!Finish, Reader!Return
<1> QED BY <1>1, <1>2, <1>3, <1>4, <1>5, <1>6, <1>7, <1>8, <1>9, <1>10, <1>11, <1>12, <1>13,
           <1>14, <1>15
        DEF Reader!Next, Reader!After, Reader!Running, Reader!Closing

-----------------------------------------------------------------------------
(* Http.                                                                    *)

LEMMA HttpInit == Http!Init => Http!IInv
<1> SUFFICES ASSUME Http!Init PROVE Http!IInv
  OBVIOUS
<1>1. Http!TypeOK
  BY ReadsAssumption DEF Http!HttpAssumption, Http!Init, Http!TypeOK, Http!NoAnswer,
                         Http!Answer, Http!Error
<1>2. \A c \in Callers : Http!AnswerInv(c)
  BY DEF Http!Init, Http!AnswerInv
<1>3. Http!ReadsAreCurrent /\ Http!ValidatorIsOfCached
  BY DEF Http!Init, Http!ReadsAreCurrent, Http!ValidatorIsOfCached, Http!Error
<1> QED BY <1>1, <1>2, <1>3 DEF Http!IInv

LEMMA HttpStutter == Http!IInv /\ UNCHANGED Http!vars => Http!IInv'
BY DEF Http!vars, Http!serverVars, Http!cacheVars, Http!IInv, Http!TypeOK, Http!AnswerInv,
       Http!ReadsAreCurrent, Http!ValidatorIsOfCached

\* What a Read that returns needs to show: a result of its time, and, if it has touched the
\* cache, that it did so under the gate and left the validator of what is cached.
LEMMA HttpReturn ==
  ASSUME Http!IInv, NEW c \in Callers, NEW r, Http!Return(c, r), Http!Done(c),
         pc[c] # "idle", r \in [is : {"error", "gone", "document"}, version : Nat],
         r.is # "error" => r.version \in began[c] .. version,
         cached' \in 0..version, etag' \in Nat,
         \/ UNCHANGED <<cached, etag>> /\ pc[c] # "validators"
         \/ pc[c] \in {"served", "validators"} /\ etag' \in {0, cached'},
         UNCHANGED <<version, kind, tagged, sent, began>>
  PROVE  Http!IInv'
<1>1. /\ Http!TypeOK /\ Http!ReadsAreCurrent /\ Http!ValidatorIsOfCached
      /\ \A x \in Callers : Http!AnswerInv(x)
  BY DEF Http!IInv
<1>2. /\ answer' = [answer EXCEPT ![c] = Http!NoAnswer] /\ pc' = [pc EXCEPT ![c] = "idle"]
      /\ result' = [result EXCEPT ![c] = r] /\ gate' = IF gate = c THEN None ELSE gate
  BY DEF Http!Return, Http!Done
<1>3. Http!NoAnswer \in [status : {"none", "200", "304", "404", "500"}, version : Nat,
                         garbled : BOOLEAN, tag : Nat]
  BY DEF Http!NoAnswer, Http!Answer
<1>4. Http!TypeOK'
  BY <1>1, <1>2, <1>3 DEF Http!TypeOK
<1>5. ASSUME NEW x \in Callers
      PROVE  /\ x # c => pc'[x] = pc[x] /\ result'[x] = result[x] /\ answer'[x] = answer[x]
             /\ x = c => pc'[x] = "idle" /\ result'[x] = r
  BY <1>1, <1>2 DEF Http!TypeOK
<1>6. ASSUME NEW x \in Callers PROVE Http!AnswerInv(x)'
  <2>1. CASE x = c \/ pc[x] \in {"idle", "gate"}
    BY <1>5, <2>1 DEF Http!AnswerInv
  <2>2. CASE x # c /\ pc[x] \notin {"idle", "gate"}
    <3>1. pc[x] \in {"request", "served", "validators"}
      BY <1>1, <2>2 DEF Http!TypeOK
    <3>2. gate = x /\ ~(pc[c] \in {"served", "validators"})
      BY <1>1, <2>2, <3>1 DEF Http!AnswerInv
    <3>3. UNCHANGED <<cached, etag, gate>>
      BY <1>2, <2>2, <3>2
    <3>4. Http!AnswerInv(x)
      BY <1>1
    <3> QED BY <1>5, <2>2, <3>2, <3>3, <3>4 DEF Http!AnswerInv
  <2> QED BY <2>1, <2>2
<1>7. Http!ReadsAreCurrent'
  BY <1>1, <1>5 DEF Http!ReadsAreCurrent
<1>8. Http!ValidatorIsOfCached'
  <2> SUFFICES ASSUME \A x \in Callers : pc'[x] # "validators" PROVE etag' \in {0, cached'}
    BY DEF Http!ValidatorIsOfCached
  <2>1. CASE UNCHANGED <<cached, etag>> /\ pc[c] # "validators"
    <3>1. \A x \in Callers : pc[x] # "validators"
      BY <1>5, <2>1
    <3> QED BY <1>1, <2>1, <3>1 DEF Http!ValidatorIsOfCached
  <2> QED BY <2>1
<1> QED BY <1>4, <1>6, <1>7, <1>8 DEF Http!IInv

\* A step in which the Read of c goes on without returning: c is in flight afterwards, or
\* takes the gate, and nobody else is.
LEMMA HttpGoesOn ==
  ASSUME Http!IInv, Http!TypeOK', NEW c \in Callers, NEW label \in {"request", "served", "validators"},
         pc' = [pc EXCEPT ![c] = label], gate' = c, gate \in {c, None},
         \A x \in Callers : x # c => answer'[x] = answer[x] /\ sent'[x] = sent[x],
         UNCHANGED <<version, began, result>>,
         label # "validators" => UNCHANGED <<cached, etag>>,
         Http!AnswerInv(c)', pc[c] # "validators"
  PROVE  Http!IInv'
<1>1. /\ Http!TypeOK /\ Http!ReadsAreCurrent /\ Http!ValidatorIsOfCached
      /\ \A x \in Callers : Http!AnswerInv(x)
  BY DEF Http!IInv
<1>2. ASSUME NEW x \in Callers
      PROVE  pc'[x] = IF x = c THEN label ELSE pc[x]
  BY <1>1 DEF Http!TypeOK
<1>3. ASSUME NEW x \in Callers, x # c PROVE pc[x] \in {"idle", "gate"}
  <2>1. gate # x
    BY <1>3, ReadsAssumption DEF Http!HttpAssumption
  <2> QED BY <1>1, <2>1 DEF Http!AnswerInv, Http!TypeOK
<1>4. ASSUME NEW x \in Callers PROVE Http!AnswerInv(x)'
  <2>1. CASE x # c
    BY <1>2, <1>3, <2>1 DEF Http!AnswerInv
  <2> QED BY <2>1
<1>5. Http!ReadsAreCurrent'
  BY <1>1, <1>2 DEF Http!ReadsAreCurrent
<1>6. Http!ValidatorIsOfCached'
  <2> SUFFICES ASSUME \A x \in Callers : pc'[x] # "validators" PROVE etag' \in {0, cached'}
    BY DEF Http!ValidatorIsOfCached
  <2>1. \A x \in Callers : pc[x] # "validators"
    BY <1>3
  <2> QED BY <1>1, <1>2, <2>1 DEF Http!ValidatorIsOfCached
<1> QED BY <1>4, <1>5, <1>6 DEF Http!IInv

\* A caller's own step leaves the others where they were; what it changes of the cache no
\* other Read in flight relies on, for there is none.
LEMMA HttpNext ==
  ASSUME Http!IInv, Http!Next
  PROVE  Http!IInv'
<1> USE DEF Http!serverVars, Http!cacheVars
<1>1. /\ Http!TypeOK /\ Http!ReadsAreCurrent /\ Http!ValidatorIsOfCached
      /\ \A c \in Callers : Http!AnswerInv(c)
  BY DEF Http!IInv
<1>2. CASE Http!Publish
  <2>1. /\ version' = version + 1 /\ kind' \in Http!Kinds /\ tagged' \in BOOLEAN
        /\ UNCHANGED <<gate, cached, etag, pc, sent, answer, began, result>>
    BY <1>2 DEF Http!Publish
  <2>2. /\ version' \in Nat \ {0} /\ 0..version \subseteq 0..version'
        /\ \A c \in Callers : began[c]..version \subseteq began'[c]..version'
    BY <1>1, <2>1 DEF Http!TypeOK
  <2>3. Http!TypeOK'
    BY <1>1, <2>1, <2>2 DEF Http!TypeOK
  <2>4. ASSUME NEW c \in Callers PROVE Http!AnswerInv(c)'
    <3>1. Http!AnswerInv(c)
      BY <1>1
    <3> QED BY <3>1, <2>1, <2>2 DEF Http!AnswerInv
  <2>5. Http!ReadsAreCurrent' /\ Http!ValidatorIsOfCached'
    BY <1>1, <2>1, <2>2 DEF Http!ReadsAreCurrent, Http!ValidatorIsOfCached
  <2> QED BY <2>3, <2>4, <2>5 DEF Http!IInv
<1>3. ASSUME NEW c \in Callers, Http!Call(c) PROVE Http!IInv'
  <2>1. /\ pc[c] = "idle" /\ pc' = [pc EXCEPT ![c] = "gate"]
        /\ began' = [began EXCEPT ![c] = version]
        /\ UNCHANGED <<version, kind, tagged, gate, cached, etag, sent, answer, result>>
    BY <1>3 DEF Http!Call
  <2>2. Http!TypeOK'
    BY <1>1, <2>1 DEF Http!TypeOK
  <2>3. ASSUME NEW x \in Callers
        PROVE  /\ x # c => pc'[x] = pc[x] /\ began'[x] = began[x]
               /\ x = c => pc'[x] = "gate"
    BY <1>1, <2>1 DEF Http!TypeOK
  <2>4. ASSUME NEW x \in Callers PROVE Http!AnswerInv(x)'
    <3>1. Http!AnswerInv(x)
      BY <1>1
    <3> QED BY <3>1, <2>1, <2>3 DEF Http!AnswerInv
  <2>5. Http!ReadsAreCurrent'
    BY <1>1, <2>1, <2>3 DEF Http!ReadsAreCurrent
  <2>6. Http!ValidatorIsOfCached'
    BY <1>1, <2>1, <2>3 DEF Http!ValidatorIsOfCached
  <2> QED BY <2>2, <2>4, <2>5, <2>6 DEF Http!IInv
<1>4. ASSUME NEW c \in Callers, Http!Enter(c) PROVE Http!IInv'
  <2>1. /\ pc[c] = "gate" /\ gate = None /\ gate' = c /\ pc' = [pc EXCEPT ![c] = "request"]
        /\ sent' = [sent EXCEPT ![c] = IF cached = 0 THEN 0 ELSE etag]
        /\ UNCHANGED <<version, kind, tagged, cached, etag, answer, began, result>>
    BY <1>4 DEF Http!Enter
  <2>2. Http!TypeOK'
    BY <1>1, <2>1 DEF Http!TypeOK
  <2>3. pc'[c] = "request" /\ sent'[c] = IF cached = 0 THEN 0 ELSE etag
    BY <1>1, <2>1 DEF Http!TypeOK
  <2>4. Http!AnswerInv(c)'
    BY <2>1, <2>3 DEF Http!AnswerInv
  <2>5. \A x \in Callers : x # c => answer'[x] = answer[x] /\ sent'[x] = sent[x]
    BY <1>1, <2>1 DEF Http!TypeOK
  <2> QED BY <2>1, <2>2, <2>4, <2>5, HttpGoesOn
<1>5. ASSUME NEW c \in Callers, Http!GiveUp(c) PROVE Http!IInv'
  <2>1. Http!Error \in [is : {"error", "gone", "document"}, version : Nat] /\ Http!Error.is = "error"
    BY DEF Http!Error
  <2>2. cached' \in 0..version /\ etag' \in Nat /\ UNCHANGED <<cached, etag>>
    BY <1>1, <1>5 DEF Http!GiveUp, Http!TypeOK
  <2>3. /\ Http!Return(c, Http!Error) /\ Http!Done(c) /\ pc[c] \notin {"idle", "validators"}
        /\ UNCHANGED <<version, kind, tagged, sent, began>>
    BY <1>5 DEF Http!GiveUp, Http!Done
  <2> QED BY <2>1, <2>2, <2>3, HttpReturn
<1>6. ASSUME NEW c \in Callers, Http!Serve(c) PROVE Http!IInv'
  <2> DEFINE tag == IF tagged THEN version ELSE 0
  <2>1. PICK a : /\ answer' = [answer EXCEPT ![c] = a]
                 /\ \/ a = Http!Answer("404", version, FALSE, 0)
                    \/ sent[c] # 0 /\ sent[c] = tag /\ a = Http!Answer("304", 0, FALSE, 0)
                    \/ a = Http!Answer("200", version, kind = "garbled", tag)
                    \/ a = Http!Answer("500", 0, FALSE, 0)
                    \/ cached = 0 /\ a = Http!Answer("304", 0, FALSE, 0)
    BY <1>6 DEF Http!Serve
  <2>2. /\ pc[c] = "request" /\ pc' = [pc EXCEPT ![c] = "served"]
        /\ UNCHANGED <<version, kind, tagged, gate, cached, etag, sent, began, result>>
    BY <1>6 DEF Http!Serve
  <2>3. /\ a \in [status : {"none", "200", "304", "404", "500"}, version : Nat,
                  garbled : BOOLEAN, tag : Nat]
        /\ a.status = "304" => cached = 0 \/ (sent[c] # 0 /\ sent[c] = tag)
        /\ a.status \in {"200", "404"} => a.version = version
        /\ a.status = "200" => a.tag = tag
    <3>1. version \in Nat /\ tag \in Nat /\ (kind = "garbled") \in BOOLEAN
      BY <1>1 DEF Http!TypeOK
    <3> HIDE DEF tag
    <3>2. CASE a = Http!Answer("404", version, FALSE, 0)
      BY <3>1, <3>2 DEF Http!Answer
    <3>3. CASE a = Http!Answer("500", 0, FALSE, 0)
      BY <3>3 DEF Http!Answer
    <3>4. CASE a = Http!Answer("200", version, kind = "garbled", tag)
      <4>1. PICK garbled \in BOOLEAN : a = Http!Answer("200", version, garbled, tag)
        BY <3>1, <3>4
      <4> QED BY <3>1, <4>1 DEF Http!Answer
    <3>5. CASE /\ a = Http!Answer("304", 0, FALSE, 0)
               /\ cached = 0 \/ (sent[c] # 0 /\ sent[c] = tag)
      BY <3>1, <3>5 DEF Http!Answer
    <3> QED BY <2>1, <3>2, <3>3, <3>4, <3>5
  <2>4. Http!TypeOK'
    BY <1>1, <2>1, <2>2, <2>3 DEF Http!TypeOK
  <2>5. gate = c /\ sent[c] = IF cached = 0 THEN 0 ELSE etag
    BY <1>1, <2>2 DEF Http!AnswerInv
  <2>6. \A x \in Callers : pc[x] # "validators"
    BY <1>1, <2>2, <2>5 DEF Http!AnswerInv
  <2>7. a.status = "304" => cached = 0 \/ cached = version
    BY <1>1, <2>3, <2>5, <2>6 DEF Http!ValidatorIsOfCached
  <2>8. version \in began[c]..version
    BY <1>1 DEF Http!TypeOK
  <2>9. pc'[c] = "served" /\ answer'[c] = a
    BY <1>1, <2>1, <2>2 DEF Http!TypeOK
  <2>10. Http!AnswerInv(c)'
    BY <2>2, <2>3, <2>5, <2>7, <2>8, <2>9 DEF Http!AnswerInv
  <2>11. \A x \in Callers : x # c => answer'[x] = answer[x] /\ sent'[x] = sent[x]
    BY <1>1, <2>1, <2>2 DEF Http!TypeOK
  <2> QED BY <2>2, <2>4, <2>5, <2>10, <2>11, HttpGoesOn
<1>7. ASSUME NEW c \in Callers,
             \/ Http!NotModified(c) \/ Http!NotFound(c) \/ Http!OtherStatus(c)
             \/ Http!Undecodable(c)
      PROVE  Http!IInv'
  <2>1. /\ pc[c] = "served" /\ Http!AnswerInv(c) /\ Http!Done(c)
        /\ UNCHANGED <<version, kind, tagged, sent, began>>
    BY <1>1, <1>7 DEF Http!NotModified, Http!NotFound, Http!OtherStatus, Http!Undecodable
  <2>2. PICK r : /\ Http!Return(c, r)
                 /\ \/ r = Http!Error
                    \/ answer[c].status = "304" /\ cached # 0 /\ r = Http!Document(cached)
                    \/ answer[c].status = "404" /\ r = Http!Gone(answer[c].version)
    BY <1>7 DEF Http!NotModified, Http!NotFound, Http!OtherStatus, Http!Undecodable
  <2>3. /\ r \in [is : {"error", "gone", "document"}, version : Nat]
        /\ r.is # "error" => r.version \in began[c]..version
    BY <1>1, <2>1, <2>2
       DEF Http!TypeOK, Http!AnswerInv, Http!Error, Http!Document, Http!Gone
  <2>4. UNCHANGED <<cached, etag>> \/ (cached' = 0 /\ etag' = 0)
    BY <1>7 DEF Http!NotModified, Http!NotFound, Http!OtherStatus, Http!Undecodable
  <2>5. cached' \in 0..version /\ etag' \in Nat
    BY <1>1, <2>4 DEF Http!TypeOK
  <2> QED BY <2>1, <2>2, <2>3, <2>4, <2>5, HttpReturn
<1>8. ASSUME NEW c \in Callers, Http!StoreDocument(c) PROVE Http!IInv'
  <2>1. /\ pc[c] = "served" /\ answer[c].status = "200" /\ cached' = answer[c].version
        /\ pc' = [pc EXCEPT ![c] = "validators"]
        /\ UNCHANGED <<version, kind, tagged, gate, etag, sent, answer, began, result>>
    BY <1>8 DEF Http!StoreDocument
  <2>2. /\ gate = c /\ answer[c].version \in began[c]..version
        /\ answer[c].tag \in {0, answer[c].version}
    BY <1>1, <2>1 DEF Http!AnswerInv
  <2>3. cached' \in 0..version
    BY <1>1, <2>1, <2>2 DEF Http!TypeOK
  <2>4. Http!TypeOK'
    BY <1>1, <2>1, <2>3 DEF Http!TypeOK
  <2>5. pc'[c] = "validators"
    BY <1>1, <2>1 DEF Http!TypeOK
  <2>6. Http!AnswerInv(c)'
    BY <2>1, <2>2, <2>5 DEF Http!AnswerInv
  <2> QED BY <2>1, <2>2, <2>4, <2>6, HttpGoesOn
<1>9. ASSUME NEW c \in Callers, Http!StoreValidators(c) PROVE Http!IInv'
  <2>1. /\ pc[c] = "validators" /\ etag' = answer[c].tag /\ cached' = cached
        /\ Http!Return(c, Http!Document(answer[c].version)) /\ Http!Done(c)
        /\ UNCHANGED <<version, kind, tagged, sent, began>>
    BY <1>9 DEF Http!StoreValidators
  <2>2. /\ cached = answer[c].version /\ cached \in began[c]..version
        /\ answer[c].tag \in {0, cached}
    BY <1>1, <2>1 DEF Http!AnswerInv
  <2>3. cached' \in 0..version /\ cached \in Nat /\ etag' \in Nat
    BY <1>1, <2>1, <2>2 DEF Http!TypeOK
  <2>4. /\ Http!Document(answer[c].version) \in [is : {"error", "gone", "document"}, version : Nat]
        /\ Http!Document(answer[c].version).version = cached
    BY <2>2, <2>3 DEF Http!Document
  <2> QED BY <2>1, <2>2, <2>3, <2>4, HttpReturn
<1> QED BY <1>2, <1>3, <1>4, <1>5, <1>6, <1>7, <1>8, <1>9 DEF Http!Next, Http!Reading

-----------------------------------------------------------------------------
(* Directory.                                                               *)

LEMMA DirectoryInit == Directory!Init => Directory!IInv
<1> SUFFICES ASSUME Directory!Init PROVE Directory!IInv
  OBVIOUS
<1>1. 1..1 = {1} /\ Attempts \in Nat \ {0}
  BY ReadsAssumption DEF Directory!DirectoryAssumption
<1>2. Directory!TypeOK
  <2>1. /\ link \in Nat \ {0} /\ whole \in [1..link -> SUBSET Files]
        /\ attempt \in 0..Attempts /\ gen \in 0..link /\ began \in 1..link
    BY <1>1 DEF Directory!Init
  <2> QED BY <2>1 DEF Directory!Init, Directory!TypeOK, Directory!Ended
<1>3. Directory!AttemptInv /\ Directory!OneGeneration
  BY DEF Directory!Init, Directory!AttemptInv, Directory!OneGeneration
<1> QED BY <1>2, <1>3 DEF Directory!IInv

LEMMA DirectoryStutter == Directory!IInv /\ UNCHANGED Directory!vars => Directory!IInv'
<1> SUFFICES ASSUME Directory!IInv, UNCHANGED Directory!vars PROVE Directory!IInv'
  OBVIOUS
<1> USE DEF Directory!vars, Directory!volumeVars, Directory!readVars
<1>1. Directory!TypeOK'
  BY DEF Directory!IInv, Directory!TypeOK
<1>2. Directory!AttemptInv'
  BY DEF Directory!IInv, Directory!AttemptInv, Directory!Selected
<1>3. Directory!OneGeneration'
  BY DEF Directory!IInv, Directory!OneGeneration, Directory!Selected
<1> QED BY <1>1, <1>2, <1>3 DEF Directory!IInv

\* What the kubelet does to the volume leaves every generation that there was as it was
\* written, and can only take ..data further.
LEMMA VolumeMoves ==
  ASSUME Directory!TypeOK, Directory!Swap \/ Directory!RemoveOld
  PROVE  /\ Directory!TypeOK' /\ link' \in Nat /\ link <= link'
         /\ \A g \in 1..link : whole'[g] = whole[g]
         /\ UNCHANGED <<nilBindings, pc, attempt, gen, names, layer, readErr, began>>
<1> USE DEF Directory!TypeOK, Directory!volumeVars, Directory!readVars
<1>1. CASE Directory!Swap
  <2>1. PICK fs \in SUBSET Files :
          whole' = [g \in 1..link' |-> IF g = link' THEN fs ELSE whole[g]]
    BY <1>1 DEF Directory!Swap
  <2>2. /\ link' = link + 1 /\ left' = whole[link] /\ gone' = FALSE
        /\ UNCHANGED <<nilBindings, pc, attempt, gen, names, layer, readErr, began>>
    BY <1>1 DEF Directory!Swap
  <2>3. /\ whole' \in [1..link' -> SUBSET Files] /\ left' \subseteq Files
        /\ gen' \in 0..link' /\ began' \in 1..link' /\ link' \in Nat \ {0}
        /\ \A g \in 1..link : whole'[g] = whole[g]
    BY <2>1, <2>2
  <2>4. Directory!TypeOK'
    BY <2>2, <2>3
  <2>5. link <= link'
    BY <2>2
  <2> QED BY <2>2, <2>3, <2>4, <2>5
<1>2. CASE Directory!RemoveOld
  <2>1. /\ left' \subseteq left /\ gone' \in BOOLEAN
        /\ UNCHANGED <<link, whole, nilBindings, pc, attempt, gen, names, layer, readErr, began>>
    BY <1>2 DEF Directory!RemoveOld
  <2>2. Directory!TypeOK'
    BY <2>1
  <2> QED BY <2>1, <2>2
<1> QED BY <1>1, <1>2

LEMMA DirectoryNext ==
  ASSUME Directory!IInv, Directory!Next
  PROVE  Directory!IInv'
<1> USE DEF Directory!volumeVars, Directory!readVars
<1>1. Directory!TypeOK /\ Directory!AttemptInv /\ Directory!OneGeneration
  BY DEF Directory!IInv
<1>2. Attempts \in Nat \ {0} /\ Bound \subseteq Files
  BY ReadsAssumption DEF Directory!DirectoryAssumption
<1>3. CASE Directory!Swap \/ Directory!RemoveOld
  <2>1. /\ Directory!TypeOK' /\ link' \in Nat /\ link <= link'
        /\ \A g \in 1..link : whole'[g] = whole[g]
        /\ UNCHANGED <<nilBindings, pc, attempt, gen, names, layer, readErr, began>>
    BY <1>1, <1>3, VolumeMoves
  <2>2. /\ link \in Nat \ {0} /\ gen \in 0..link /\ began \in 1..link /\ attempt \in Nat
        /\ \A g \in 1..link : Directory!Selected(g)' = Directory!Selected(g)
    <3>1. /\ link \in Nat \ {0} /\ gen \in 0..link /\ began \in 1..link /\ attempt \in 0..Attempts
      BY <1>1 DEF Directory!TypeOK
    <3>2. \A g \in 1..link : Directory!Selected(g)' = Directory!Selected(g)
      BY <2>1 DEF Directory!Selected
    <3> QED BY <1>2, <3>1, <3>2
  <2>3. gen' = link' => gen = link
    BY <2>1, <2>2
  <2>4. pc \in {"list", "files", "after"} => gen \in 1..link
    BY <1>1, <2>2 DEF Directory!AttemptInv
  <2>5. Directory!AttemptInv'
    <3>1. pc' = "attempt" => began' + attempt' <= link'
      BY <1>1, <2>1, <2>2 DEF Directory!AttemptInv
    <3>2. pc' \in {"files", "after"} /\ gen' = link' =>
            ~readErr' /\ layer' = [f \in Directory!Selected(gen)' \ names' |-> gen']
      BY <1>1, <2>1, <2>2, <2>3, <2>4 DEF Directory!AttemptInv
    <3> QED BY <1>1, <2>1, <3>1, <3>2 DEF Directory!AttemptInv, Directory!NoLayer
  <2>6. Directory!OneGeneration'
    <3>1. pc' = "done" => \E g \in began'..link' : layer' = [f \in Directory!Selected(g)' |-> g]
      <4> SUFFICES ASSUME pc' = "done"
                   PROVE \E g \in began'..link' : layer' = [f \in Directory!Selected(g)' |-> g]
        OBVIOUS
      <4>1. PICK g \in began..link : layer = [f \in Directory!Selected(g) |-> g]
        BY <1>1, <2>1 DEF Directory!OneGeneration
      <4>2. g \in 1..link /\ g \in began'..link'
        BY <2>1, <2>2
      <4> QED BY <2>1, <2>2, <4>1, <4>2
    <3>2. pc' = "repeated" => link' - began' >= Attempts
      <4>1. pc = "repeated" => link - began >= Attempts
        BY <1>1 DEF Directory!OneGeneration
      <4>2. link \in Nat /\ link' \in Nat /\ began \in Nat /\ Attempts \in Nat
        BY <1>2, <2>1, <2>2
      <4>3. link <= link' /\ began' = began /\ pc' = pc
        BY <2>1
      <4>4. \A m, n \in Nat : m - began >= Attempts /\ m <= n => n - began >= Attempts
        BY <4>2
      <4> QED BY <4>1, <4>2, <4>3, <4>4
    <3> QED BY <1>1, <2>1, <3>1, <3>2 DEF Directory!OneGeneration
  <2> QED BY <2>1, <2>5, <2>6 DEF Directory!IInv
<1>4. CASE Directory!Call \/ Directory!GiveUp
  <2>1. /\ UNCHANGED <<link, whole, left, gone, nilBindings, gen, names, layer, readErr>>
        /\ \/ pc' = "attempt" /\ attempt' = 0 /\ began' = link
           \/ pc' = "idle" /\ UNCHANGED <<attempt, began>>
    BY <1>4 DEF Directory!Call, Directory!GiveUp
  <2>2. Directory!TypeOK'
    BY <1>1, <1>2, <2>1 DEF Directory!TypeOK, Directory!Ended
  <2>3. Directory!AttemptInv' /\ Directory!OneGeneration'
    BY <1>1, <2>1 DEF Directory!TypeOK, Directory!AttemptInv, Directory!OneGeneration
  <2> QED BY <2>2, <2>3 DEF Directory!IInv
<1>5. CASE Directory!Pin
  <2>1. /\ attempt < Attempts /\ began + attempt <= link /\ gen' = link /\ pc' = "list"
        /\ layer' = Directory!NoLayer /\ readErr' = FALSE
        /\ UNCHANGED <<link, whole, left, gone, nilBindings, attempt, names, began>>
    BY <1>1, <1>5 DEF Directory!Pin, Directory!AttemptInv
  <2>2. Directory!TypeOK'
    <3>1. link \in Nat /\ gen' \in 0..link'
      BY <1>1, <2>1 DEF Directory!TypeOK
    <3> QED BY <1>1, <2>1, <3>1 DEF Directory!TypeOK
  <2>3. Directory!AttemptInv'
    BY <2>1 DEF Directory!AttemptInv, Directory!NoLayer
  <2>4. Directory!OneGeneration'
    BY <2>1 DEF Directory!OneGeneration
  <2> QED BY <2>2, <2>3, <2>4 DEF Directory!IInv
<1>6. CASE Directory!List
  <2>1. /\ pc = "list" /\ layer = Directory!NoLayer /\ ~readErr
        /\ attempt < Attempts /\ began + attempt <= gen
        /\ UNCHANGED <<link, whole, left, gone, nilBindings, attempt, gen, layer, began>>
    BY <1>1, <1>6 DEF Directory!List, Directory!AttemptInv
  <2>2. CASE nilBindings /\ ~Directory!Exists(gen)
    <3>1. gen # link /\ readErr' = TRUE /\ pc' = "after" /\ names' = {}
      BY <1>6, <2>2 DEF Directory!List, Directory!Exists
    <3> QED BY <1>1, <2>1, <3>1
            DEF Directory!IInv, Directory!TypeOK, Directory!AttemptInv, Directory!OneGeneration
  <2>3. CASE ~(nilBindings /\ ~Directory!Exists(gen))
    <3>1. /\ names' = (IF nilBindings THEN Directory!Present(gen) ELSE Bound)
          /\ pc' = "files" /\ readErr' = readErr
      BY <1>6, <2>3 DEF Directory!List
    <3>2. names' \subseteq Files
      BY <1>1, <1>2, <3>1 DEF Directory!TypeOK, Directory!Present
    <3>3. gen = link => Directory!Selected(gen) \ names' = {}
      BY <3>1 DEF Directory!Selected, Directory!Present
    <3>4. gen = link => layer' = [f \in Directory!Selected(gen) \ names' |-> gen]
      BY <2>1, <3>3 DEF Directory!NoLayer
    <3>5. Directory!Selected(gen)' = Directory!Selected(gen)
      BY <2>1 DEF Directory!Selected
    <3>6. nilBindings' \/ names' \subseteq Bound
      BY <2>1, <3>1
    <3>7. Directory!AttemptInv'
      BY <2>1, <3>1, <3>4, <3>5, <3>6 DEF Directory!AttemptInv
    <3> QED BY <1>1, <2>1, <3>1, <3>2, <3>7
            DEF Directory!IInv, Directory!TypeOK, Directory!OneGeneration
  <2> QED BY <2>2, <2>3
<1>7. CASE Directory!ReadFile
  <2>1. PICK f \in names :
          /\ names' = names \ {f}
          /\ layer' = IF f \in Directory!Present(gen)
                        THEN [x \in DOMAIN layer \cup {f} |-> IF x = f THEN gen ELSE layer[x]]
                        ELSE layer
    BY <1>7 DEF Directory!ReadFile
  <2>2. /\ pc = "files" /\ ~readErr /\ attempt < Attempts /\ began + attempt <= gen
        /\ UNCHANGED <<link, whole, left, gone, nilBindings, pc, attempt, gen, readErr, began>>
    BY <1>1, <1>7 DEF Directory!ReadFile, Directory!AttemptInv
  <2>3. ASSUME gen = link
        PROVE  layer' = [x \in Directory!Selected(gen) \ names' |-> gen]
    <3>1. layer = [x \in Directory!Selected(gen) \ names |-> gen]
      BY <1>1, <2>2, <2>3 DEF Directory!AttemptInv
    <3>2. Directory!Present(gen) = whole[gen]
      BY <2>3 DEF Directory!Present
    <3>3. f \in Directory!Selected(gen) <=> f \in whole[gen]
      BY <1>1, <2>2 DEF Directory!AttemptInv, Directory!Selected
    <3> QED BY <2>1, <3>1, <3>2, <3>3
  <2>4. Directory!Selected(gen)' = Directory!Selected(gen)
    BY <2>2 DEF Directory!Selected
  <2> QED BY <1>1, <2>1, <2>2, <2>3, <2>4
          DEF Directory!IInv, Directory!TypeOK, Directory!AttemptInv, Directory!OneGeneration
<1>8. CASE Directory!AllRead
  <2>1. /\ pc = "files" /\ names = {} /\ pc' = "after"
        /\ UNCHANGED <<link, whole, left, gone, nilBindings, attempt, gen, names, layer, readErr,
                       began>>
    BY <1>8 DEF Directory!AllRead
  <2>2. Directory!Selected(gen)' = Directory!Selected(gen)
    BY <2>1 DEF Directory!Selected
  <2> QED BY <1>1, <2>1, <2>2
          DEF Directory!IInv, Directory!TypeOK, Directory!AttemptInv, Directory!OneGeneration
<1>9. CASE Directory!After
  <2>1. /\ pc = "after" /\ names = {} /\ attempt < Attempts /\ began + attempt <= gen
        /\ UNCHANGED <<link, whole, left, gone, nilBindings, gen, names, layer, readErr, began>>
    BY <1>1, <1>9 DEF Directory!After, Directory!AttemptInv
  <2>2. /\ attempt \in Nat /\ began \in 1..link /\ gen \in 0..link /\ link \in Nat
    BY <1>1, <1>2 DEF Directory!TypeOK
  <2>3. CASE gen # link
    <3>1. pc' = "attempt" /\ attempt' = attempt + 1
      BY <1>9, <2>3 DEF Directory!After
    <3>2. began + attempt' <= link /\ attempt' \in 0..Attempts
      BY <1>2, <2>1, <2>2, <2>3, <3>1
    <3> QED BY <1>1, <2>1, <3>1, <3>2
            DEF Directory!IInv, Directory!TypeOK, Directory!AttemptInv, Directory!OneGeneration
  <2>4. CASE gen = link
    <3>1. ~readErr /\ layer = [f \in Directory!Selected(gen) |-> gen]
      BY <1>1, <2>1, <2>4 DEF Directory!AttemptInv
    <3>2. pc' = "done" /\ attempt' = attempt
      BY <1>9, <2>4, <3>1 DEF Directory!After
    <3>3. /\ gen \in began'..link' /\ layer' = [f \in Directory!Selected(gen) |-> gen]
          /\ \A g : Directory!Selected(g)' = Directory!Selected(g)
      BY <2>1, <2>2, <2>4, <3>1 DEF Directory!Selected
    <3>4. Directory!OneGeneration'
      <4>1. \E g \in began'..link' : layer' = [f \in Directory!Selected(g)' |-> g]
        BY <3>3
      <4> QED BY <3>2, <4>1 DEF Directory!OneGeneration
    <3>5. Directory!TypeOK' /\ Directory!AttemptInv'
      BY <1>1, <2>1, <3>2 DEF Directory!TypeOK, Directory!AttemptInv, Directory!Ended
    <3> QED BY <3>4, <3>5 DEF Directory!IInv
  <2> QED BY <2>3, <2>4
<1>10. CASE Directory!ChangedRepeatedly
  <2>1. /\ pc = "attempt" /\ attempt = Attempts /\ pc' = "repeated"
        /\ UNCHANGED <<link, whole, left, gone, nilBindings, attempt, gen, names, layer, readErr,
                       began>>
    BY <1>10 DEF Directory!ChangedRepeatedly
  <2>2. link - began >= Attempts
    BY <1>1, <1>2, <2>1 DEF Directory!AttemptInv, Directory!TypeOK
  <2> QED BY <1>1, <2>1, <2>2
          DEF Directory!IInv, Directory!TypeOK, Directory!AttemptInv, Directory!OneGeneration,
              Directory!Ended
<1> QED BY <1>3, <1>4, <1>5, <1>6, <1>7, <1>8, <1>9, <1>10 DEF Directory!Next

-----------------------------------------------------------------------------
(* EnvFile: facts about what is counted and cut off.                        *)

\* Counting is the same inside the instance.
LEMMA SameCounting ==
  /\ \A S : EnvFile!Cardinality(S) = Cardinality(S)
  /\ \A S : EnvFile!IsFiniteSet(S) = IsFiniteSet(S)
BY DEF EnvFile!Cardinality, Cardinality, EnvFile!IsFiniteSet, IsFiniteSet

\* A history only grows.
LEMMA RangeGrows ==
  ASSUME NEW S, NEW s \in Seq(S), NEW x \in S
  PROVE  /\ Append(s, x) \in Seq(S)
         /\ EnvFile!Range(s) \subseteq EnvFile!Range(Append(s, x))
         /\ x \in EnvFile!Range(Append(s, x))
<1>1. /\ Append(s, x) \in Seq(S) /\ Len(Append(s, x)) = Len(s) + 1 /\ Len(s) \in Nat
      /\ \A i \in 1 .. Len(s) : Append(s, x)[i] = s[i]
      /\ Append(s, x)[Len(s) + 1] = x
  OBVIOUS
<1>2. DOMAIN s = 1 .. Len(s) /\ DOMAIN Append(s, x) = 1 .. (Len(s) + 1)
  BY <1>1
<1>3. Len(s) + 1 \in DOMAIN Append(s, x)
  BY <1>1, <1>2
<1> QED BY <1>1, <1>2, <1>3 DEF EnvFile!Range

\* A text without its last characters.
LEMMA FrontProperties ==
  ASSUME NEW S, NEW s \in Seq(S), NEW n \in 0 .. Len(s), NEW m \in 0 .. n
  PROVE  /\ SubSeq(s, 1, n) \in Seq(S) /\ Len(SubSeq(s, 1, n)) = n
         /\ \A i \in 1 .. n : SubSeq(s, 1, n)[i] = s[i]
         /\ SubSeq(SubSeq(s, 1, n), 1, m) = SubSeq(s, 1, m)
<1>1. ASSUME NEW t \in Seq(S), NEW k \in 0 .. Len(t)
      PROVE  /\ SubSeq(t, 1, k) \in Seq(S) /\ Len(SubSeq(t, 1, k)) = k
             /\ \A i \in 1 .. k : SubSeq(t, 1, k)[i] = t[i]
  <2>1. k \in Int /\ \A i \in 1 .. k : t[i] \in S
    OBVIOUS
  <2>2. /\ SubSeq(t, 1, k) \in Seq(S) /\ Len(SubSeq(t, 1, k)) = k
        /\ \A i \in 1 .. k - 1 + 1 : SubSeq(t, 1, k)[i] = t[1 + i - 1]
    BY <2>1, SubSeqProperties
  <2> QED BY <2>1, <2>2
<1>2. m \in 0 .. Len(s) /\ m \in 0 .. Len(SubSeq(s, 1, n)) /\ SubSeq(s, 1, n) \in Seq(S)
  BY <1>1
<1>3. \A i \in 1 .. m : SubSeq(SubSeq(s, 1, n), 1, m)[i] = SubSeq(s, 1, m)[i]
  BY <1>1, <1>2
<1>4. SubSeq(SubSeq(s, 1, n), 1, m) = SubSeq(s, 1, m)
  BY <1>1, <1>2, <1>3, SeqEqual
<1> QED BY <1>1, <1>4

LEMMA ShortSequences ==
  ASSUME NEW S, NEW s \in Seq(S), NEW x \in S, NEW y \in S
  PROVE  /\ Len(s) = 1 /\ s[1] = x => s = <<x>>
         /\ Len(s) = 2 /\ s[1] = x /\ s[2] = y => s = <<x, y>>
<1>1. ASSUME Len(s) = 1, s[1] = x PROVE s = <<x>>
  <2>1. <<x>> \in Seq(S) /\ Len(<<x>>) = Len(s) /\ \A i \in 1 .. Len(s) : <<x>>[i] = s[i]
    BY <1>1
  <2> QED BY <2>1, SeqEqual
<1>2. ASSUME Len(s) = 2, s[1] = x, s[2] = y PROVE s = <<x, y>>
  <2>1. <<x, y>> \in Seq(S) /\ Len(<<x, y>>) = Len(s)
    BY <1>2
  <2>2. \A i \in 1 .. Len(s) : <<x, y>>[i] = s[i]
    BY <1>2
  <2> QED BY <2>1, <2>2, SeqEqual
<1> QED BY <1>1, <1>2

\* What TrimFinalNewline cuts off is the longest end of a line.
LEMMA TrimIsDue ==
  ASSUME NEW text \in Seq(STRING)
  PROVE  EnvFile!Trim(text) = EnvFile!WithoutNewline(text)
<1> DEFINE newlines == {<<>>, <<"LF">>, <<"CR", "LF">>}
           Ends(s) ==
             Len(s) <= Len(text) /\ SubSeq(text, Len(text) - Len(s) + 1, Len(text)) = s
           Longest(s) ==
             Ends(s) /\ \A longer \in newlines : Len(longer) > Len(s) => ~Ends(longer)
           n == Len(text)
<1>1. n \in Nat /\ Len(<<"LF">>) = 1 /\ Len(<<"CR", "LF">>) = 2 /\ Len(<<>>) = 0
  OBVIOUS
<1>2. <<"LF">> # <<>> /\ <<"CR", "LF">> # <<>> /\ <<"LF">> # <<"CR", "LF">>
  BY <1>1
<1>3. Ends(<<>>)
  <2>1. SubSeq(text, n + 1, n) = <<>>
    BY <1>1
  <2> QED BY <1>1, <2>1
<1>4. Ends(<<"LF">>) <=> n >= 1 /\ text[n] = "LF"
  <2>1. ASSUME n >= 1
        PROVE  SubSeq(text, n, n) = <<text[n]>>
    <3>1. \A i \in n .. n : text[i] \in STRING
      BY <1>1, <2>1
    <3>2. /\ SubSeq(text, n, n) \in Seq(STRING) /\ Len(SubSeq(text, n, n)) = 1
          /\ SubSeq(text, n, n)[1] = text[n]
      BY <1>1, <3>1, SubSeqProperties
    <3>3. text[n] \in STRING
      BY <1>1, <2>1
    <3> HIDE DEF n
    <3> QED BY <3>2, <3>3, ShortSequences
  <2>2. n >= 1 => (SubSeq(text, n, n) = <<"LF">> <=> text[n] = "LF")
    <3>1. <<text[n]>> = <<"LF">> <=> text[n] = "LF"
      OBVIOUS
    <3> QED BY <2>1, <3>1
  <2> QED BY <1>1, <2>2
<1>5. Ends(<<"CR", "LF">>) <=> n >= 2 /\ text[n] = "LF" /\ text[n - 1] = "CR"
  <2>1. ASSUME n >= 2
        PROVE  SubSeq(text, n - 1, n) = <<text[n - 1], text[n]>>
    <3>1. n - 1 \in Int /\ \A i \in n - 1 .. n : text[i] \in STRING
      BY <1>1, <2>1
    <3>2. /\ SubSeq(text, n - 1, n) \in Seq(STRING) /\ Len(SubSeq(text, n - 1, n)) = 2
          /\ \A i \in 1 .. 2 : SubSeq(text, n - 1, n)[i] = text[n - 1 + i - 1]
      BY <1>1, <2>1, <3>1, SubSeqProperties
    <3>3. SubSeq(text, n - 1, n)[1] = text[n - 1] /\ SubSeq(text, n - 1, n)[2] = text[n]
      BY <1>1, <3>2
    <3>4. text[n] \in STRING /\ text[n - 1] \in STRING
      BY <1>1, <2>1
    <3> HIDE DEF n
    <3> DEFINE pair == SubSeq(text, n - 1, n)
    <3>5. Len(pair) = 2 /\ pair[1] = text[n - 1] /\ pair[2] = text[n]
            => pair = <<text[n - 1], text[n]>>
      <4>1. pair \in Seq(STRING)
        BY <3>2
      <4> HIDE DEF pair
      <4> QED BY <3>4, <4>1, ShortSequences
    <3> QED BY <3>2, <3>3, <3>5
  <2>2. n >= 2 => (SubSeq(text, n - 1, n) = <<"CR", "LF">> <=> text[n] = "LF" /\ text[n - 1] = "CR")
    <3>1. <<text[n - 1], text[n]>> = <<"CR", "LF">> <=> text[n] = "LF" /\ text[n - 1] = "CR"
      OBVIOUS
    <3> QED BY <2>1, <3>1
  <2> QED BY <1>1, <2>2
<1>6. EnvFile!WithoutNewline(text) = SubSeq(text, 1, n - Len(CHOOSE s \in newlines : Longest(s)))
  BY DEF EnvFile!WithoutNewline
<1>7. text # <<>> <=> n >= 1
  BY <1>1
<1> HIDE DEF Ends
<1>8. CASE n = 0 \/ text[n] # "LF"
  <2>1. ~Ends(<<"LF">>) /\ ~Ends(<<"CR", "LF">>)
    BY <1>1, <1>4, <1>5, <1>8
  <2>2. \A s \in newlines : Longest(s) <=> s = <<>>
    BY <1>1, <1>3, <2>1
  <2>3. (CHOOSE s \in newlines : Longest(s)) = <<>>
    <3> HIDE DEF Longest
    <3> QED BY <2>2
  <2>4. SubSeq(text, 1, n) = text
    BY SubSeqFull
  <2>5. EnvFile!WithoutNewline(text) = text
    <3> HIDE DEF newlines, Longest
    <3>1. n - 0 = n
      BY <1>1
    <3> QED BY <1>1, <1>6, <2>3, <2>4, <3>1
  <2> QED BY <1>1, <1>7, <1>8, <2>5 DEF EnvFile!Trim, EnvFile!Last
<1>9. CASE n >= 1 /\ text[n] = "LF" /\ ~(n >= 2 /\ text[n - 1] = "CR")
  <2>1. Ends(<<"LF">>) /\ ~Ends(<<"CR", "LF">>)
    BY <1>1, <1>4, <1>5, <1>9
  <2>2. \A s \in newlines : Longest(s) <=> s = <<"LF">>
    <3>1. Longest(<<"LF">>)
      BY <1>1, <2>1
    <3>2. ~Longest(<<>>) /\ ~Longest(<<"CR", "LF">>)
      BY <1>1, <2>1
    <3> HIDE DEF Longest
    <3> QED BY <3>1, <3>2, <1>2
  <2>3. (CHOOSE s \in newlines : Longest(s)) = <<"LF">>
    <3> HIDE DEF Longest
    <3> QED BY <2>2
  <2>4. EnvFile!WithoutNewline(text) = SubSeq(text, 1, n - 1)
    BY <1>1, <1>6, <2>3
  <2>5. LET rest == SubSeq(text, 1, n - 1)
        IN  Len(rest) = n - 1 /\ (n >= 2 => rest[n - 1] = text[n - 1])
    <3>1. n - 1 \in 0 .. Len(text) /\ 0 \in 0 .. n - 1 /\ (n >= 2 => n - 1 \in 1 .. n - 1)
      BY <1>1, <1>9
    <3> HIDE DEF n
    <3> QED BY <3>1, FrontProperties
  <2>6. ~(SubSeq(text, 1, n - 1) # <<>> /\ SubSeq(text, 1, n - 1)[n - 1] = "CR")
    BY <1>1, <1>9, <2>5
  <2> QED BY <1>1, <1>7, <1>9, <2>4, <2>5, <2>6 DEF EnvFile!Trim, EnvFile!Last, EnvFile!Front
<1>10. CASE n >= 2 /\ text[n] = "LF" /\ text[n - 1] = "CR"
  <2>1. Ends(<<"CR", "LF">>)
    BY <1>5, <1>10
  <2>2. \A s \in newlines : Longest(s) <=> s = <<"CR", "LF">>
    <3>1. Longest(<<"CR", "LF">>)
      BY <1>1, <2>1
    <3>2. ~Longest(<<>>) /\ ~Longest(<<"LF">>)
      BY <1>1, <2>1
    <3> HIDE DEF Longest
    <3> QED BY <3>1, <3>2, <1>2
  <2>3. (CHOOSE s \in newlines : Longest(s)) = <<"CR", "LF">>
    <3> HIDE DEF Longest
    <3> QED BY <2>2
  <2>4. EnvFile!WithoutNewline(text) = SubSeq(text, 1, n - 2)
    BY <1>1, <1>6, <2>3
  <2>5. LET rest == SubSeq(text, 1, n - 1)
        IN  /\ Len(rest) = n - 1 /\ rest # <<>> /\ rest[n - 1] = "CR"
            /\ SubSeq(rest, 1, n - 2) = SubSeq(text, 1, n - 2)
    <3>1. n - 1 \in 0 .. Len(text) /\ n - 2 \in 0 .. n - 1 /\ n - 1 \in 1 .. n - 1
      BY <1>1, <1>10
    <3>2. /\ Len(SubSeq(text, 1, n - 1)) = n - 1
          /\ SubSeq(text, 1, n - 1)[n - 1] = text[n - 1]
          /\ SubSeq(SubSeq(text, 1, n - 1), 1, n - 2) = SubSeq(text, 1, n - 2)
      <4> HIDE DEF n
      <4> QED BY <3>1, FrontProperties
    <3>3. n - 1 # 0
      BY <1>1, <1>10
    <3>4. SubSeq(text, 1, n - 1) # <<>>
      <4> SUFFICES ASSUME SubSeq(text, 1, n - 1) = <<>> PROVE FALSE
        OBVIOUS
      <4>1. n - 1 = Len(<<>>)
        <5> HIDE DEF n
        <5> QED BY <3>2, Zenon
      <4> QED BY <1>1, <3>3, <4>1, Zenon
    <3> QED BY <1>10, <3>2, <3>4
  <2>6. n - 1 - 1 = n - 2
    BY <1>1
  <2> QED BY <1>1, <1>7, <1>10, <2>4, <2>5, <2>6 DEF EnvFile!Trim, EnvFile!Last, EnvFile!Front
<1> QED BY <1>1, <1>8, <1>9, <1>10

\* The bytes of one more file.
LEMMA OneMoreFile ==
  ASSUME NEW f, NEW n, n \notin DOMAIN f, NEW file, EnvFile!Length(file) \in Nat,
         IsFiniteSet(EnvFile!BytesOf(f)), NEW g,
         g = [m \in DOMAIN f \cup {n} |-> IF m = n THEN file ELSE f[m]]
  PROVE  /\ IsFiniteSet(EnvFile!BytesOf(g))
         /\ Cardinality(EnvFile!BytesOf(g))
              = Cardinality(EnvFile!BytesOf(f)) + EnvFile!Length(file)
<1> DEFINE k == EnvFile!Length(file)
           T == {n} \X (1 .. k)
           numbered == [i \in 1 .. k |-> <<n, i>>]
<1>1. IsFiniteSet(T) /\ Cardinality(T) = k
  <2>1. numbered \in Bijection(1 .. k, T)
    BY DEF Bijection, Injection, Surjection, IsInjective
  <2>2. ExistsBijection(1 .. k, T)
    BY <2>1 DEF ExistsBijection
  <2> HIDE DEF T, k
  <2>3. k \in Nat
    BY DEF k
  <2> QED BY <2>2, <2>3, FS_CountingElements, FS_NatBijection
<1>2. EnvFile!BytesOf(g) = EnvFile!BytesOf(f) \cup T
  <2>1. DOMAIN g = DOMAIN f \cup {n} /\ g[n] = file /\ \A m \in DOMAIN f : g[m] = f[m]
    OBVIOUS
  <2> QED BY <2>1 DEF EnvFile!BytesOf
<1>3. EnvFile!BytesOf(f) \cap T = {}
  BY DEF EnvFile!BytesOf
<1>4. Cardinality(EnvFile!BytesOf(f)) \in Nat
  BY FS_CardinalityType
<1> HIDE DEF T, k
<1>5. k \in Nat
  BY DEF k
<1>6. /\ IsFiniteSet(EnvFile!BytesOf(f) \cup T)
      /\ Cardinality(EnvFile!BytesOf(f) \cup T)
           = Cardinality(EnvFile!BytesOf(f)) + k - Cardinality(EnvFile!BytesOf(f) \cap T)
  BY <1>1, FS_Union
<1>7. Cardinality(EnvFile!BytesOf(f) \cap T) = 0
  BY <1>3, FS_EmptySet
<1>8. Cardinality(EnvFile!BytesOf(f) \cup T) = Cardinality(EnvFile!BytesOf(f)) + k
  BY <1>4, <1>5, <1>6, <1>7
<1> QED BY <1>2, <1>6, <1>8 DEF k

\* The bytes of all files, and of some of them.
LEMMA SomeOfTheBytes ==
  ASSUME NEW f, IsFiniteSet(DOMAIN f), \A n \in DOMAIN f : EnvFile!Length(f[n]) \in Nat,
         NEW g, DOMAIN g \subseteq DOMAIN f, \A n \in DOMAIN g : g[n] = f[n]
  PROVE  /\ IsFiniteSet(EnvFile!BytesOf(f)) /\ IsFiniteSet(EnvFile!BytesOf(g))
         /\ Cardinality(EnvFile!BytesOf(g)) <= Cardinality(EnvFile!BytesOf(f))
<1> DEFINE Of(n) == {n} \X (1 .. EnvFile!Length(f[n]))
           all == [n \in DOMAIN f |-> Of(n)]
           S == {Of(n) : n \in DOMAIN f}
<1>1. ASSUME NEW n \in DOMAIN f PROVE IsFiniteSet(Of(n))
  <2> DEFINE k == EnvFile!Length(f[n])
             numbered == [i \in 1 .. k |-> <<n, i>>]
  <2>1. numbered \in Bijection(1 .. k, Of(n))
    BY DEF Bijection, Injection, Surjection, IsInjective
  <2>2. ExistsBijection(1 .. k, Of(n)) /\ k \in Nat
    BY <1>1, <2>1 DEF ExistsBijection
  <2> HIDE DEF Of, k
  <2> QED BY <2>2, FS_NatBijection
<1>2. IsFiniteSet(S)
  <2>1. all \in Surjection(DOMAIN f, S)
    <3> HIDE DEF Of
    <3> QED BY DEF Surjection
  <2> HIDE DEF S, all
  <2> QED BY <2>1, FS_Surjection
<1>3. IsFiniteSet(UNION S)
  <2>1. \A T \in S : IsFiniteSet(T)
    <3> HIDE DEF Of
    <3> QED BY <1>1
  <2> HIDE DEF S
  <2> QED BY <1>2, <2>1, FS_UNION
<1>4. EnvFile!BytesOf(f) = UNION S
  BY DEF EnvFile!BytesOf
<1>5. EnvFile!BytesOf(g) \subseteq EnvFile!BytesOf(f)
  BY DEF EnvFile!BytesOf
<1> HIDE DEF S
<1> QED BY <1>3, <1>4, <1>5, FS_Subset

LEMMA WasStays ==
  ASSUME UNCHANGED <<conf, seen>>, NEW n PROVE EnvFile!Was(n)' = EnvFile!Was(n)
BY DEF EnvFile!Was, EnvFile!Range, EnvFile!Absent

LEMMA FoundStays ==
  ASSUME UNCHANGED <<conf, seen>>
  PROVE  EnvFile!Found' = EnvFile!Found
BY WasStays DEF EnvFile!Found, EnvFile!SetNames

LEMMA DueStays ==
  ASSUME UNCHANGED conf, NEW f
  PROVE  EnvFile!Due(f)' = EnvFile!Due(f)
<1>1. EnvFile!SetNames' = EnvFile!SetNames
  BY DEF EnvFile!SetNames
<1>2. EnvFile!Wrong(f)' = EnvFile!Wrong(f)
  BY <1>1 DEF EnvFile!Wrong, EnvFile!ValidBinding
<1>3. EnvFile!DueTexts(f)' = EnvFile!DueTexts(f)
  BY <1>1 DEF EnvFile!DueTexts
<1>4. EnvFile!HashOf(f)' = EnvFile!HashOf(f)
  BY DEF EnvFile!HashOf
<1>5. [n \in EnvFile!SetNames |-> conf.binds[n]]' = [n \in EnvFile!SetNames |-> conf.binds[n]]
  BY <1>1
<1> QED BY <1>2, <1>3, <1>4, <1>5 DEF EnvFile!Due, EnvFile!WithRevision

\* A regular file has a text.
LEMMA RegularHasText ==
  ASSUME NEW file \in Contents, EnvFile!Regular(file)
  PROVE  file.text \in Seq(STRING) /\ EnvFile!Length(file) \in Nat
<1>1. file.text \in Seq(STRING)
  BY ReadsAssumption DEF EnvFile!EnvFileAssumption, EnvFile!Regular
<1> QED BY <1>1 DEF EnvFile!Length

\* What was at a path is something that may be there, and what is there now is among it.
LEMMA WasSomething ==
  ASSUME EnvFile!TypeOK, EnvFile!SeenInv, NEW n \in EnvFile!SetNames
  PROVE  /\ EnvFile!Was(n) # {}
         /\ \A c \in EnvFile!Was(n) : EnvFile!Regular(c) => c \in Contents
         /\ conf.vars[n] # "" =>
              /\ conf.vars[n] \in EnvFile!Paths
              /\ files[conf.vars[n]] \in EnvFile!Was(n)
              /\ EnvFile!Was(n) = EnvFile!Range(seen[conf.vars[n]])
<1>1. CASE conf.vars[n] = ""
  <2>1. EnvFile!Was(n) = {EnvFile!Absent}
    BY <1>1 DEF EnvFile!Was
  <2>2. ~EnvFile!Regular(EnvFile!Absent)
    BY DEF EnvFile!Regular, EnvFile!Absent
  <2> QED BY <1>1, <2>1, <2>2
<1>2. CASE conf.vars[n] # ""
  <2>1. conf.vars[n] \in EnvFile!Paths
    BY <1>2 DEF EnvFile!Paths, EnvFile!SetNames
  <2>2. EnvFile!Was(n) = EnvFile!Range(seen[conf.vars[n]])
    BY <1>2 DEF EnvFile!Was
  <2>3. seen[conf.vars[n]] \in Seq(Contents)
    BY <2>1 DEF EnvFile!TypeOK
  <2>4. EnvFile!Range(seen[conf.vars[n]]) \subseteq Contents
    BY <2>3 DEF EnvFile!Range
  <2>5. files[conf.vars[n]] \in EnvFile!Range(seen[conf.vars[n]])
    BY <2>1 DEF EnvFile!SeenInv
  <2> QED BY <1>2, <2>1, <2>2, <2>4, <2>5
<1> QED BY <1>1, <1>2

\* What was found in some files can be completed.
LEMMA Completed ==
  ASSUME EnvFile!TypeOK, EnvFile!SeenInv, NEW g, DOMAIN g \subseteq EnvFile!SetNames,
         \A n \in DOMAIN g : g[n] \in EnvFile!Was(n)
  PROVE  \E f \in EnvFile!Found : \A n \in DOMAIN g : f[n] = g[n]
<1> DEFINE f == [n \in EnvFile!SetNames |->
                   IF n \in DOMAIN g THEN g[n] ELSE CHOOSE c \in EnvFile!Was(n) : TRUE]
<1>1. \A n \in EnvFile!SetNames : f[n] \in EnvFile!Was(n)
  BY WasSomething
<1>2. f \in [EnvFile!SetNames -> UNION {EnvFile!Was(n) : n \in EnvFile!SetNames}]
  BY <1>1
<1>3. f \in EnvFile!Found
  BY <1>1, <1>2 DEF EnvFile!Found
<1>4. \A n \in DOMAIN g : f[n] = g[n]
  OBVIOUS
<1> QED BY <1>3, <1>4

-----------------------------------------------------------------------------
(* What a step does to the result.                                          *)

LEMMA ResultStays ==
  ASSUME EnvFile!LayerIsWhole, UNCHANGED <<conf, result>>, ended => ended',
         result = None \/ UNCHANGED seen
  PROVE  EnvFile!LayerIsWhole'
<1>1. CASE result = None
  BY <1>1 DEF EnvFile!LayerIsWhole
<1>2. CASE UNCHANGED seen
  BY <1>2, FoundStays, DueStays DEF EnvFile!LayerIsWhole, EnvFile!Refused
<1> QED BY <1>1, <1>2

LEMMA Refuses ==
  ASSUME UNCHANGED <<conf, seen>>, result' = EnvFile!Refused,
         ended' \/ \E f \in EnvFile!Found : EnvFile!Wrong(f)
  PROVE  EnvFile!LayerIsWhole'
<1>1. CASE ended'
  BY <1>1 DEF EnvFile!LayerIsWhole, EnvFile!Refused
<1>2. CASE \E f \in EnvFile!Found : EnvFile!Wrong(f)
  <2>1. PICK f \in EnvFile!Found : EnvFile!Wrong(f)
    BY <1>2
  <2>2. result' \in EnvFile!Due(f)
    BY <2>1 DEF EnvFile!Due
  <2>3. f \in EnvFile!Found' /\ result' \in EnvFile!Due(f)'
    BY <2>1, <2>2, FoundStays, DueStays
  <2> QED BY <2>3 DEF EnvFile!LayerIsWhole
<1> QED BY <1>1, <1>2

\* A file that is none, or of which there is no telling, is a reason.
LEMMA IrregularIsWrong ==
  ASSUME EnvFile!TypeOK, EnvFile!SeenInv, NEW n \in EnvFile!SetNames,
         \/ EnvFile!Front(n) \in DOMAIN conf.vars
         \/ \E c \in EnvFile!Was(n) : ~EnvFile!Regular(c)
  PROVE  \E f \in EnvFile!Found : EnvFile!Wrong(f)
<1>1. PICK c \in EnvFile!Was(n) : EnvFile!Front(n) \in DOMAIN conf.vars \/ ~EnvFile!Regular(c)
  BY WasSomething
<1> DEFINE g == [m \in {n} |-> c]
<1>2. DOMAIN g = {n} /\ g[n] = c
  OBVIOUS
<1>3. PICK f \in EnvFile!Found : f[n] = c
  <2> HIDE DEF g
  <2> QED BY <1>2, Completed
<1> QED BY <1>1, <1>3 DEF EnvFile!Wrong

\* And so are files that exceed the limit together.
LEMMA TooMuchIsWrong ==
  ASSUME EnvFile!TypeOK, EnvFile!SeenInv, NEW g, DOMAIN g \subseteq EnvFile!SetNames,
         \A n \in DOMAIN g : g[n] \in EnvFile!Was(n),
         Cardinality(EnvFile!BytesOf(g)) \in Nat,
         Cardinality(EnvFile!BytesOf(g)) > conf.limit
  PROVE  \E f \in EnvFile!Found : EnvFile!Wrong(f)
<1>1. PICK f \in EnvFile!Found : \A n \in DOMAIN g : f[n] = g[n]
  BY Completed
<1>2. DOMAIN f = EnvFile!SetNames /\ \A n \in EnvFile!SetNames : f[n] \in EnvFile!Was(n)
  BY DEF EnvFile!Found
<1> SUFFICES ASSUME \A n \in EnvFile!SetNames : EnvFile!Regular(f[n])
             PROVE  EnvFile!Wrong(f)
  BY DEF EnvFile!Wrong
<1>3. \A n \in DOMAIN f : EnvFile!Length(f[n]) \in Nat
  BY <1>2, WasSomething, RegularHasText
<1>4. IsFiniteSet(DOMAIN f)
  <2>1. IsFiniteSet(DOMAIN conf.binds) /\ DOMAIN f \subseteq DOMAIN conf.binds
    BY <1>2, ReadsAssumption, SameCounting
       DEF EnvFile!EnvFileAssumption, EnvFile!TypeOK, EnvFile!SetNames
  <2> QED BY <2>1, FS_Subset
<1>5. /\ IsFiniteSet(EnvFile!BytesOf(f))
      /\ Cardinality(EnvFile!BytesOf(g)) <= Cardinality(EnvFile!BytesOf(f))
  BY <1>1, <1>2, <1>3, <1>4, SomeOfTheBytes
<1>6. Cardinality(EnvFile!BytesOf(f)) \in Nat /\ conf.limit \in Int
  BY <1>5, FS_CardinalityType, ReadsAssumption DEF EnvFile!EnvFileAssumption, EnvFile!TypeOK
<1>7. Cardinality(EnvFile!BytesOf(f)) > conf.limit
  BY <1>5, <1>6
<1> QED BY <1>7, SameCounting DEF EnvFile!Wrong

-----------------------------------------------------------------------------
(* The steps.                                                               *)

LEMMA EnvFileInit == EnvFile!Init => EnvFile!IInv
<1> SUFFICES ASSUME EnvFile!Init PROVE EnvFile!IInv
  OBVIOUS
<1>1. \A c \in Contents : <<c>> \in Seq(Contents) /\ c \in EnvFile!Range(<<c>>)
  BY DEF EnvFile!Range
<1>2. EnvFile!TypeOK
  BY <1>1 DEF EnvFile!Init, EnvFile!TypeOK
<1>3. EnvFile!SeenInv
  BY <1>1 DEF EnvFile!Init, EnvFile!SeenInv
<1>4. EnvFile!TakenInv /\ EnvFile!LayerIsWhole
  BY DEF EnvFile!Init, EnvFile!TakenInv, EnvFile!LayerIsWhole
<1> QED BY <1>2, <1>3, <1>4 DEF EnvFile!IInv

LEMMA FilesStay ==
  ASSUME EnvFile!TypeOK, EnvFile!SeenInv, UNCHANGED <<conf, files, seen>>
  PROVE  /\ EnvFile!SeenInv' /\ EnvFile!SetNames' = EnvFile!SetNames
         /\ conf' \in Confs /\ files' \in [EnvFile!Paths' -> Contents]
         /\ seen' \in [EnvFile!Paths' -> Seq(Contents)]
<1>1. EnvFile!Paths' = EnvFile!Paths /\ EnvFile!SetNames' = EnvFile!SetNames
  BY DEF EnvFile!Paths, EnvFile!SetNames
<1> QED BY <1>1 DEF EnvFile!TypeOK, EnvFile!SeenInv, EnvFile!Range

\* The name at hand is one that has still to be looked at.
LEMMA NameAtHand ==
  ASSUME EnvFile!TypeOK, todo # {}
  PROVE  /\ EnvFile!Name \in todo
         /\ EnvFile!Name \in DOMAIN conf.vars => EnvFile!Name \in EnvFile!SetNames
BY DEF EnvFile!Name, EnvFile!TypeOK, EnvFile!SetNames

\* What the walk over the names has come to does not depend on the context.
LEMMA TakenStays ==
  ASSUME EnvFile!TypeOK, EnvFile!TakenInv,
         UNCHANGED <<conf, pc, todo, opened, remaining, taken, result>>,
         \A n \in EnvFile!SetNames : EnvFile!Was(n) \subseteq EnvFile!Was(n)'
  PROVE  EnvFile!TakenInv'
<1>1. /\ EnvFile!SetNames' = EnvFile!SetNames /\ EnvFile!Name' = EnvFile!Name
      /\ EnvFile!BytesOf(taken)' = EnvFile!BytesOf(taken)
  BY DEF EnvFile!SetNames, EnvFile!Name, EnvFile!BytesOf, EnvFile!Length
<1>2. pc \in {"name", "open", "read"} => DOMAIN taken \subseteq EnvFile!SetNames
  BY DEF EnvFile!TakenInv
<1>3. ASSUME pc = "read"
      PROVE  opened' \in EnvFile!Range(seen'[conf'.vars[EnvFile!Name']])
  <2>1. EnvFile!Name \in EnvFile!SetNames
    BY <1>3, NameAtHand DEF EnvFile!TakenInv
  <2> QED BY <1>1, <1>3, <2>1 DEF EnvFile!TakenInv, EnvFile!Was
<1>4. ASSUME pc \in {"name", "open", "read"}
      PROVE  /\ conf'.limit > 0 /\ (\A n \in DOMAIN conf.binds : EnvFile!ValidBinding(n))'
             /\ \A n \in DOMAIN taken : EnvFile!Regular(taken[n]) /\ taken[n] \in EnvFile!Was(n)'
  BY <1>2, <1>4 DEF EnvFile!TakenInv, EnvFile!ValidBinding
<1> QED BY <1>1, <1>3, <1>4 DEF EnvFile!TakenInv, EnvFile!Regular

LEMMA EnvFileStutter == EnvFile!IInv /\ UNCHANGED EnvFile!vars => EnvFile!IInv'
<1> SUFFICES ASSUME EnvFile!IInv, UNCHANGED EnvFile!vars PROVE EnvFile!IInv'
  OBVIOUS
<1> USE DEF EnvFile!vars, EnvFile!IInv
<1>1. EnvFile!TypeOK' /\ EnvFile!SeenInv'
  BY FilesStay DEF EnvFile!TypeOK
<1>2. EnvFile!TakenInv'
  BY TakenStays, WasStays
<1>3. EnvFile!LayerIsWhole'
  BY ResultStays
<1> QED BY <1>1, <1>2, <1>3

LEMMA EnvFileCancel == EnvFile!IInv /\ EnvFile!Cancel => EnvFile!IInv'
<1> SUFFICES ASSUME EnvFile!IInv, EnvFile!Cancel PROVE EnvFile!IInv'
  OBVIOUS
<1> USE DEF EnvFile!Cancel, EnvFile!IInv
<1>1. EnvFile!TypeOK' /\ EnvFile!SeenInv'
  BY FilesStay DEF EnvFile!TypeOK
<1>2. EnvFile!TakenInv'
  BY TakenStays, WasStays
<1>3. EnvFile!LayerIsWhole'
  BY ResultStays
<1> QED BY <1>1, <1>2, <1>3

LEMMA EnvFileReplace == EnvFile!IInv /\ EnvFile!Replace => EnvFile!IInv'
<1> SUFFICES ASSUME EnvFile!IInv, EnvFile!Replace PROVE EnvFile!IInv'
  OBVIOUS
<1>1. PICK p \in EnvFile!Paths, c \in Contents :
        /\ files' = [files EXCEPT ![p] = c]
        /\ seen' = [seen EXCEPT ![p] = Append(@, c)]
  BY DEF EnvFile!Replace
<1>2. UNCHANGED <<conf, ended, pc, todo, opened, remaining, taken, result>> /\ result = None
  BY DEF EnvFile!Replace
<1>3. EnvFile!Paths' = EnvFile!Paths
  BY <1>2 DEF EnvFile!Paths
<1>4. \A q \in EnvFile!Paths : seen[q] \in Seq(Contents)
  BY DEF EnvFile!IInv, EnvFile!TypeOK
<1>5. \A q \in EnvFile!Paths :
        /\ seen'[q] \in Seq(Contents)
        /\ EnvFile!Range(seen[q]) \subseteq EnvFile!Range(seen'[q])
        /\ q # p => files'[q] = files[q] /\ seen'[q] = seen[q]
        /\ q = p => files'[q] = c /\ c \in EnvFile!Range(seen'[q])
  <2>1. /\ seen'[p] = Append(seen[p], c) /\ files'[p] = c
        /\ \A q \in EnvFile!Paths : q # p => files'[q] = files[q] /\ seen'[q] = seen[q]
    BY <1>1 DEF EnvFile!IInv, EnvFile!TypeOK
  <2>2. /\ seen'[p] \in Seq(Contents) /\ c \in EnvFile!Range(seen'[p])
        /\ EnvFile!Range(seen[p]) \subseteq EnvFile!Range(seen'[p])
    BY <1>4, <2>1, RangeGrows
  <2> QED BY <1>4, <2>1, <2>2
<1>6. EnvFile!TypeOK'
  <2>1. files' \in [EnvFile!Paths' -> Contents]
    BY <1>1, <1>3 DEF EnvFile!IInv, EnvFile!TypeOK
  <2>2. seen' \in [EnvFile!Paths' -> Seq(Contents)]
    BY <1>1, <1>3, <1>5 DEF EnvFile!IInv, EnvFile!TypeOK
  <2> QED BY <1>2, <2>1, <2>2 DEF EnvFile!IInv, EnvFile!TypeOK
<1>7. EnvFile!SeenInv'
  <2> SUFFICES ASSUME NEW q \in EnvFile!Paths PROVE files'[q] \in EnvFile!Range(seen'[q])
    BY <1>3 DEF EnvFile!SeenInv, EnvFile!Range
  <2> QED BY <1>5 DEF EnvFile!IInv, EnvFile!SeenInv
<1>8. EnvFile!TakenInv'
  <2>1. \A n \in EnvFile!SetNames : EnvFile!Was(n) \subseteq EnvFile!Was(n)'
    <3> SUFFICES ASSUME NEW n \in EnvFile!SetNames
                 PROVE  EnvFile!Was(n) \subseteq EnvFile!Was(n)'
      OBVIOUS
    <3>1. conf.vars[n] # "" => conf.vars[n] \in EnvFile!Paths
      BY DEF EnvFile!Paths, EnvFile!SetNames
    <3>2. EnvFile!Range(seen[conf.vars[n]])' = EnvFile!Range(seen'[conf.vars[n]])
      BY <1>2 DEF EnvFile!Range
    <3> QED BY <1>2, <1>5, <3>1, <3>2 DEF EnvFile!Was, EnvFile!Absent
  <2> QED BY <1>2, <2>1, TakenStays DEF EnvFile!IInv
<1>9. EnvFile!LayerIsWhole'
  BY <1>2, ResultStays DEF EnvFile!IInv
<1> QED BY <1>6, <1>7, <1>8, <1>9 DEF EnvFile!IInv

LEMMA EnvFileCall == EnvFile!IInv /\ EnvFile!Call => EnvFile!IInv'
<1> SUFFICES ASSUME EnvFile!IInv, EnvFile!Call PROVE EnvFile!IInv'
  OBVIOUS
<1>1. UNCHANGED <<conf, files, seen, ended, opened, remaining, taken>> /\ pc = "called"
  BY DEF EnvFile!Call
<1>2. EnvFile!TypeOK' /\ EnvFile!SeenInv'
  BY <1>1, FilesStay
     DEF EnvFile!IInv, EnvFile!TypeOK, EnvFile!Call, EnvFile!Return, EnvFile!Goto
<1>3. CASE ended \/ conf.limit <= 0 \/ \E n \in DOMAIN conf.binds : ~EnvFile!ValidBinding(n)
  <2>1. pc' = "returned" /\ result' = EnvFile!Refused
    BY <1>3 DEF EnvFile!Call, EnvFile!Return
  <2>2. ended' \/ \E f \in EnvFile!Found : EnvFile!Wrong(f)
    <3>1. PICK f \in EnvFile!Found : TRUE
      <4>1. DOMAIN [n \in {} |-> None] = {}
        OBVIOUS
      <4> QED BY <4>1, Completed DEF EnvFile!IInv
    <3> QED BY <1>1, <1>3, <3>1 DEF EnvFile!Wrong
  <2>3. EnvFile!LayerIsWhole'
    BY <1>1, <2>1, <2>2, Refuses
  <2>4. EnvFile!TakenInv'
    BY <2>1 DEF EnvFile!TakenInv
  <2> QED BY <1>2, <2>3, <2>4 DEF EnvFile!IInv
<1>4. CASE ~(ended \/ conf.limit <= 0 \/ \E n \in DOMAIN conf.binds : ~EnvFile!ValidBinding(n))
  <2>1. pc' = "name" /\ result' = result /\ todo' = DOMAIN conf.binds
    BY <1>4 DEF EnvFile!Call, EnvFile!Goto
  <2>2. conf.limit \in Nat /\ conf.limit > 0
    BY <1>4, ReadsAssumption DEF EnvFile!EnvFileAssumption, EnvFile!IInv, EnvFile!TypeOK
  <2>3. DOMAIN taken = {} /\ remaining = conf.limit /\ result = None
    BY <1>1 DEF EnvFile!IInv, EnvFile!TakenInv
  <2>4. /\ EnvFile!BytesOf(taken)' = {} /\ EnvFile!IsFiniteSet(EnvFile!BytesOf(taken)')
        /\ EnvFile!Cardinality(EnvFile!BytesOf(taken)') = 0
    <3>1. EnvFile!BytesOf(taken)' = {}
      BY <1>1, <2>3 DEF EnvFile!BytesOf
    <3> QED BY <3>1, SameCounting, FS_EmptySet
  <2>5. EnvFile!SetNames' \ todo' = {}
    BY <1>1, <2>1 DEF EnvFile!SetNames
  <2>6. (\A n \in DOMAIN conf.binds : EnvFile!ValidBinding(n))'
    BY <1>1, <1>4 DEF EnvFile!ValidBinding
  <2>7. EnvFile!TakenInv'
    BY <1>1, <2>1, <2>2, <2>3, <2>4, <2>5, <2>6 DEF EnvFile!TakenInv
  <2>8. EnvFile!LayerIsWhole'
    BY <1>1, <2>1, ResultStays DEF EnvFile!IInv
  <2> QED BY <1>2, <2>7, <2>8 DEF EnvFile!IInv
<1> QED BY <1>3, <1>4

\* A step to another place of the walk, which takes nothing.
LEMMA GoingOn ==
  ASSUME EnvFile!IInv, UNCHANGED <<conf, files, seen, ended, remaining, taken, result>>,
         pc \in {"name", "open", "read"}, pc' \in {"name", "open", "read"},
         todo' \subseteq todo, EnvFile!SetNames \ todo' = EnvFile!SetNames \ todo,
         pc' \in {"open", "read"} =>
           /\ todo' # {} /\ EnvFile!Name' \in DOMAIN conf.vars
           /\ EnvFile!Front(EnvFile!Name') \notin DOMAIN conf.vars
           /\ conf.vars[EnvFile!Name'] # "",
         pc' = "read" => opened' \in EnvFile!Range(seen[conf.vars[EnvFile!Name']])
  PROVE  EnvFile!IInv'
<1>1. EnvFile!TypeOK' /\ EnvFile!SeenInv' /\ EnvFile!SetNames' = EnvFile!SetNames
  BY FilesStay DEF EnvFile!IInv, EnvFile!TypeOK
<1>2. EnvFile!BytesOf(taken)' = EnvFile!BytesOf(taken)
  BY DEF EnvFile!BytesOf, EnvFile!Length
<1>3. \A n : EnvFile!Was(n)' = EnvFile!Was(n)
  BY WasStays
<1>4. (\A n \in DOMAIN conf.binds : EnvFile!ValidBinding(n))'
  BY DEF EnvFile!IInv, EnvFile!TakenInv, EnvFile!ValidBinding
<1>5. pc' = "read" => (opened \in EnvFile!Range(seen[conf.vars[EnvFile!Name]]))'
  BY DEF EnvFile!Range
<1>6. EnvFile!TakenInv'
  BY <1>1, <1>2, <1>3, <1>4, <1>5 DEF EnvFile!IInv, EnvFile!TakenInv, EnvFile!Regular
<1>7. EnvFile!LayerIsWhole'
  BY ResultStays DEF EnvFile!IInv
<1> QED BY <1>1, <1>6, <1>7 DEF EnvFile!IInv

\* A step that ends the Read with an error.
LEMMA EndsInError ==
  ASSUME EnvFile!IInv, UNCHANGED <<conf, files, seen, ended, remaining, taken>>,
         todo' = todo, pc' = "returned", result' = EnvFile!Refused,
         ended \/ \E f \in EnvFile!Found : EnvFile!Wrong(f)
  PROVE  EnvFile!IInv'
<1>1. EnvFile!TypeOK' /\ EnvFile!SeenInv'
  BY FilesStay DEF EnvFile!IInv, EnvFile!TypeOK
<1>2. EnvFile!TakenInv'
  BY DEF EnvFile!TakenInv
<1>3. EnvFile!LayerIsWhole'
  BY Refuses
<1> QED BY <1>1, <1>2, <1>3 DEF EnvFile!IInv

LEMMA EnvFileSkip == EnvFile!IInv /\ EnvFile!Skip => EnvFile!IInv'
<1> SUFFICES ASSUME EnvFile!IInv, EnvFile!Skip PROVE EnvFile!IInv'
  OBVIOUS
<1>1. EnvFile!SetNames \ (todo \ {EnvFile!Name}) = EnvFile!SetNames \ todo
  BY DEF EnvFile!Skip, EnvFile!SetNames
<1> QED BY <1>1, GoingOn DEF EnvFile!Skip, EnvFile!Goto

LEMMA EnvFileStat == EnvFile!IInv /\ EnvFile!Stat => EnvFile!IInv'
<1> SUFFICES ASSUME EnvFile!IInv, EnvFile!Stat PROVE EnvFile!IInv'
  OBVIOUS
<1> DEFINE n == EnvFile!Name
           path == conf.vars[n]
           bad == \/ EnvFile!Front(n) \in DOMAIN conf.vars
                  \/ path = "" \/ files[path].is \in {"absent", "directory"}
<1>1. /\ UNCHANGED <<conf, files, seen, ended, todo, opened, remaining, taken>>
      /\ pc = "name" /\ todo # {} /\ n \in DOMAIN conf.vars
  BY DEF EnvFile!Stat
<1>2. n \in EnvFile!SetNames
  BY <1>1, NameAtHand DEF EnvFile!IInv
<1>3. CASE bad
  <2>1. pc' = "returned" /\ result' = EnvFile!Refused
    BY <1>3 DEF EnvFile!Stat, EnvFile!Return
  <2>2. \/ EnvFile!Front(n) \in DOMAIN conf.vars
        \/ \E c \in EnvFile!Was(n) : ~EnvFile!Regular(c)
    <3>1. CASE path = ""
      BY <3>1 DEF EnvFile!Was, EnvFile!Absent, EnvFile!Regular
    <3>2. CASE path # "" /\ files[path].is \in {"absent", "directory"}
      <4>1. files[path] \in EnvFile!Was(n)
        BY <1>2, <3>2, WasSomething DEF EnvFile!IInv
      <4> QED BY <3>2, <4>1 DEF EnvFile!Regular
    <3> QED BY <1>3, <3>1, <3>2
  <2>3. \E f \in EnvFile!Found : EnvFile!Wrong(f)
    <3> HIDE DEF n
    <3> QED BY <1>2, <2>2, IrregularIsWrong DEF EnvFile!IInv
  <2> QED BY <1>1, <2>1, <2>3, EndsInError
<1>4. CASE ~bad
  <2>1. pc' = "open" /\ result' = result
    BY <1>4 DEF EnvFile!Stat, EnvFile!Goto
  <2>2. EnvFile!Name' = n
    BY <1>1 DEF EnvFile!Name
  <2> QED BY <1>1, <1>4, <2>1, <2>2, GoingOn
<1> QED BY <1>3, <1>4

LEMMA EnvFileOpen == EnvFile!IInv /\ EnvFile!Open => EnvFile!IInv'
<1> SUFFICES ASSUME EnvFile!IInv, EnvFile!Open PROVE EnvFile!IInv'
  OBVIOUS
<1> DEFINE n == EnvFile!Name
           file == files[conf.vars[n]]
<1>1. /\ UNCHANGED <<conf, files, seen, ended, todo, remaining, taken>>
      /\ pc = "open"
  BY DEF EnvFile!Open
<1>2. /\ todo # {} /\ n \in DOMAIN conf.vars /\ conf.vars[n] # ""
      /\ EnvFile!Front(n) \notin DOMAIN conf.vars
  BY <1>1 DEF EnvFile!IInv, EnvFile!TakenInv
<1>3. n \in EnvFile!SetNames
  BY <1>2, NameAtHand DEF EnvFile!IInv
<1>4. file \in EnvFile!Was(n) /\ EnvFile!Was(n) = EnvFile!Range(seen[conf.vars[n]])
  BY <1>2, <1>3, WasSomething DEF EnvFile!IInv
<1>5. CASE file.is \in {"absent", "unreadable"}
  <2>1. pc' = "returned" /\ result' = EnvFile!Refused
    BY <1>5 DEF EnvFile!Open, EnvFile!Return
  <2>2. ~EnvFile!Regular(file)
    BY <1>5 DEF EnvFile!Regular
  <2>3. \E f \in EnvFile!Found : EnvFile!Wrong(f)
    <3> HIDE DEF n, file
    <3> QED BY <1>3, <1>4, <2>2, IrregularIsWrong DEF EnvFile!IInv
  <2> QED BY <1>1, <2>1, <2>3, EndsInError
<1>6. CASE file.is \notin {"absent", "unreadable"}
  <2>1. pc' = "read" /\ result' = result /\ opened' = file
    BY <1>6 DEF EnvFile!Open, EnvFile!Goto
  <2>2. EnvFile!Name' = n
    BY <1>1 DEF EnvFile!Name
  <2> QED BY <1>1, <1>2, <1>4, <2>1, <2>2, GoingOn
<1> QED BY <1>5, <1>6

LEMMA EnvFileRead == EnvFile!IInv /\ EnvFile!ReadContents => EnvFile!IInv'
<1> SUFFICES ASSUME EnvFile!IInv, EnvFile!ReadContents PROVE EnvFile!IInv'
  OBVIOUS
<1> DEFINE n == EnvFile!Name
           more == [m \in DOMAIN taken \cup {n} |-> IF m = n THEN opened ELSE taken[m]]
           atMost == IF remaining > 1 THEN remaining ELSE 1
           fits == EnvFile!Length(opened) <= atMost /\ EnvFile!Length(opened) <= remaining
           used == Cardinality(EnvFile!BytesOf(taken))
<1>1. UNCHANGED <<conf, files, seen, ended>> /\ pc = "read"
  BY DEF EnvFile!ReadContents, EnvFile!ReadOpened
<1>2. /\ n \in DOMAIN conf.vars /\ conf.vars[n] # "" /\ EnvFile!Front(n) \notin DOMAIN conf.vars
      /\ todo # {} /\ opened \in EnvFile!Range(seen[conf.vars[n]])
      /\ remaining \in Nat /\ conf.limit > 0 /\ DOMAIN taken = EnvFile!SetNames \ todo
      /\ \A m \in DOMAIN conf.binds : EnvFile!ValidBinding(m)
      /\ \A m \in DOMAIN taken :
           /\ EnvFile!Regular(taken[m]) /\ taken[m] \in EnvFile!Was(m)
           /\ EnvFile!Front(m) \notin DOMAIN conf.vars
  BY <1>1 DEF EnvFile!IInv, EnvFile!TakenInv
<1>3. IsFiniteSet(EnvFile!BytesOf(taken)) /\ remaining + used = conf.limit
  BY <1>1, SameCounting DEF EnvFile!IInv, EnvFile!TakenInv
<1>4. used \in Nat
  BY <1>3, FS_CardinalityType
<1>5. n \in todo /\ n \in EnvFile!SetNames
  BY <1>2, NameAtHand DEF EnvFile!IInv
<1>6. opened \in EnvFile!Was(n)
  BY <1>2, <1>5, WasSomething DEF EnvFile!IInv
<1>7. EnvFile!Regular(opened) => opened \in Contents /\ EnvFile!Length(opened) \in Nat
  BY <1>5, <1>6, WasSomething, RegularHasText DEF EnvFile!IInv
<1>8. DOMAIN more \subseteq EnvFile!SetNames /\ \A m \in DOMAIN more : more[m] \in EnvFile!Was(m)
  BY <1>2, <1>5, <1>6
<1>9. EnvFile!Regular(opened) =>
        /\ IsFiniteSet(EnvFile!BytesOf(more))
        /\ Cardinality(EnvFile!BytesOf(more)) = used + EnvFile!Length(opened)
  <2> SUFFICES ASSUME EnvFile!Regular(opened)
               PROVE  /\ IsFiniteSet(EnvFile!BytesOf(more))
                      /\ Cardinality(EnvFile!BytesOf(more)) = used + EnvFile!Length(opened)
    OBVIOUS
  <2>1. n \notin DOMAIN taken
    BY <1>2, <1>5
  <2> HIDE DEF n
  <2> QED BY <1>3, <1>7, <2>1, OneMoreFile
<1>10. CASE ended \/ ~EnvFile!Regular(opened) \/ ~fits
  <2>1. /\ UNCHANGED <<todo, remaining, taken>>
        /\ pc' = "returned" /\ result' = EnvFile!Refused
    BY <1>10 DEF EnvFile!ReadContents, EnvFile!ReadOpened, EnvFile!Return
  <2>2. CASE ended
    BY <1>1, <2>1, <2>2, EndsInError
  <2>3. CASE ~EnvFile!Regular(opened)
    <3>1. \E f \in EnvFile!Found : EnvFile!Wrong(f)
      <4> HIDE DEF n
      <4> QED BY <1>5, <1>6, <2>3, IrregularIsWrong DEF EnvFile!IInv
    <3> QED BY <1>1, <2>1, <3>1, EndsInError
  <2>4. CASE EnvFile!Regular(opened) /\ ~fits
    <3> DEFINE k == EnvFile!Length(opened)
    <3>1. k \in Nat /\ remaining \in Nat /\ used \in Nat /\ conf.limit = remaining + used
      <4>1. k \in Nat
        BY <1>7, <2>4
      <4> HIDE DEF used, k
      <4> QED BY <1>2, <1>3, <1>4, <4>1
    <3> HIDE DEF used, more, k
    <3>2. k > remaining
      <4>1. ~(k <= atMost /\ k <= remaining)
        BY <2>4 DEF k
      <4> QED BY <3>1, <4>1
    <3>3. used + k > conf.limit /\ used + k \in Nat
      BY <3>1, <3>2
    <3>4. \E f \in EnvFile!Found : EnvFile!Wrong(f)
      BY <1>8, <1>9, <2>4, <3>3, TooMuchIsWrong DEF EnvFile!IInv, k
    <3> QED BY <1>1, <2>1, <3>4, EndsInError
  <2> QED BY <1>10, <2>2, <2>3, <2>4
<1>11. CASE ~(ended \/ ~EnvFile!Regular(opened) \/ ~fits)
  <2>1. /\ pc' = "name" /\ result' = result /\ todo' = todo \ {n} /\ taken' = more
        /\ remaining' = remaining - EnvFile!Length(opened)
    BY <1>11 DEF EnvFile!ReadContents, EnvFile!ReadOpened, EnvFile!Goto
  <2>2. EnvFile!SeenInv' /\ EnvFile!SetNames' = EnvFile!SetNames
    BY <1>1, FilesStay DEF EnvFile!IInv
  <2>3. EnvFile!TypeOK'
    <3>1. more \in [DOMAIN more -> Contents]
      BY <1>7, <1>11 DEF EnvFile!IInv, EnvFile!TypeOK
    <3> HIDE DEF more
    <3> QED BY <1>1, <2>1, <3>1, FilesStay DEF EnvFile!IInv, EnvFile!TypeOK
  <2>4. DOMAIN taken' = EnvFile!SetNames \ todo'
    BY <1>2, <1>5, <2>1
  <2>5. \A m \in DOMAIN taken' :
          /\ EnvFile!Regular(taken'[m]) /\ taken'[m] \in EnvFile!Was(m)'
          /\ EnvFile!Front(m) \notin DOMAIN conf.vars
    <3>1. \A m \in DOMAIN more :
            EnvFile!Regular(more[m]) /\ EnvFile!Front(m) \notin DOMAIN conf.vars
      BY <1>2, <1>11
    <3> HIDE DEF more
    <3> QED BY <1>1, <1>8, <2>1, <3>1, WasStays
  <2>6. EnvFile!BytesOf(taken)' = EnvFile!BytesOf(more)
    <3> HIDE DEF more
    <3> QED BY <2>1 DEF EnvFile!BytesOf, EnvFile!Length
  <2>7. /\ EnvFile!IsFiniteSet(EnvFile!BytesOf(taken)') /\ remaining' \in Nat
        /\ remaining' + EnvFile!Cardinality(EnvFile!BytesOf(taken)') = conf.limit
    <3>1. EnvFile!Length(opened) \in Nat /\ EnvFile!Length(opened) <= remaining
      BY <1>7, <1>11
    <3>2. /\ EnvFile!IsFiniteSet(EnvFile!BytesOf(more))
          /\ EnvFile!Cardinality(EnvFile!BytesOf(more)) = used + EnvFile!Length(opened)
      BY <1>9, <1>11, SameCounting
    <3> DEFINE k == EnvFile!Length(opened)
    <3> HIDE DEF used, more, k
    <3>3. remaining - k \in Nat /\ (remaining - k) + (used + k) = conf.limit
      <4>1. remaining \in Nat /\ conf.limit = remaining + used /\ k \in Nat /\ k <= remaining
        BY <1>2, <1>3, <3>1 DEF k
      <4> QED BY <1>4, <4>1
    <3> QED BY <2>1, <2>6, <3>2, <3>3 DEF k
  <2>8. (\A m \in DOMAIN conf.binds : EnvFile!ValidBinding(m))'
    BY <1>1, <1>2 DEF EnvFile!ValidBinding
  <2>9. EnvFile!TakenInv'
    <3>1. result = None
      BY <1>1 DEF EnvFile!IInv, EnvFile!TakenInv
    <3>2. /\ conf'.limit = conf.limit /\ conf'.vars = conf.vars
          /\ \A c : EnvFile!Regular(c)' = EnvFile!Regular(c)
      BY <1>1 DEF EnvFile!Regular
    <3> HIDE DEF more
    <3> QED BY <1>1, <1>2, <2>1, <2>2, <2>4, <2>5, <2>7, <2>8, <3>1, <3>2
            DEF EnvFile!TakenInv
  <2>10. EnvFile!LayerIsWhole'
    BY <1>1, <2>1, ResultStays DEF EnvFile!IInv
  <2> QED BY <2>2, <2>3, <2>9, <2>10 DEF EnvFile!IInv
<1> QED BY <1>10, <1>11

LEMMA EnvFileFinish == EnvFile!IInv /\ EnvFile!Finish => EnvFile!IInv'
<1> SUFFICES ASSUME EnvFile!IInv, EnvFile!Finish PROVE EnvFile!IInv'
  OBVIOUS
<1> DEFINE texts == [n \in DOMAIN taken |->
                       IF conf.trim THEN EnvFile!Trim(taken[n].text) ELSE taken[n].text]
           binds == [n \in DOMAIN taken |-> conf.binds[n]]
<1>1. /\ UNCHANGED <<conf, files, seen, ended, todo, opened, remaining, taken>>
      /\ pc = "name" /\ todo = {} /\ pc' = "returned"
  BY DEF EnvFile!Finish, EnvFile!Return
<1>2. PICK outcome \in Decode(conf.schema, binds, texts) :
        result' = EnvFile!WithRevision(outcome, EnvFile!HashOf(taken))
  BY DEF EnvFile!Finish, EnvFile!Return
<1>3. /\ DOMAIN taken = EnvFile!SetNames /\ conf.limit > 0 /\ remaining \in Nat
      /\ \A n \in DOMAIN conf.binds : EnvFile!ValidBinding(n)
      /\ \A n \in DOMAIN taken :
           /\ EnvFile!Regular(taken[n]) /\ taken[n] \in EnvFile!Was(n)
           /\ EnvFile!Front(n) \notin DOMAIN conf.vars
      /\ EnvFile!IsFiniteSet(EnvFile!BytesOf(taken))
      /\ remaining + EnvFile!Cardinality(EnvFile!BytesOf(taken)) = conf.limit
  BY <1>1 DEF EnvFile!IInv, EnvFile!TakenInv
<1>4. taken \in EnvFile!Found
  <2>1. taken \in [EnvFile!SetNames -> UNION {EnvFile!Was(n) : n \in EnvFile!SetNames}]
    BY <1>3 DEF EnvFile!IInv, EnvFile!TypeOK
  <2> QED BY <1>3, <2>1 DEF EnvFile!Found
<1>5. ~EnvFile!Wrong(taken)
  <2>1. EnvFile!Cardinality(EnvFile!BytesOf(taken)) \in Nat /\ conf.limit \in Int
    BY <1>3, SameCounting, FS_CardinalityType, ReadsAssumption
       DEF EnvFile!EnvFileAssumption, EnvFile!IInv, EnvFile!TypeOK
  <2>2. ~(EnvFile!Cardinality(EnvFile!BytesOf(taken)) > conf.limit)
    BY <1>3, <2>1
  <2> QED BY <1>3, <2>1, <2>2 DEF EnvFile!Wrong
<1>6. texts = EnvFile!DueTexts(taken)
  <2>1. \A n \in DOMAIN taken :
          EnvFile!Trim(taken[n].text) = EnvFile!WithoutNewline(taken[n].text)
    <3> SUFFICES ASSUME NEW n \in DOMAIN taken
                 PROVE  EnvFile!Trim(taken[n].text) = EnvFile!WithoutNewline(taken[n].text)
      OBVIOUS
    <3>1. taken[n].text \in Seq(STRING)
      BY <1>3, RegularHasText DEF EnvFile!IInv, EnvFile!TypeOK
    <3> QED BY <3>1, TrimIsDue
  <2> QED BY <1>3, <2>1 DEF EnvFile!DueTexts
<1>7. result' \in EnvFile!Due(taken)
  <2>1. binds = [n \in EnvFile!SetNames |-> conf.binds[n]]
    BY <1>3
  <2> HIDE DEF binds, texts
  <2> QED BY <1>2, <1>5, <1>6, <2>1 DEF EnvFile!Due
<1>8. EnvFile!LayerIsWhole'
  <2>1. PICK f : f = taken
    OBVIOUS
  <2>2. f \in EnvFile!Found' /\ result' \in EnvFile!Due(f)'
    BY <1>1, <1>4, <1>7, <2>1, FoundStays, DueStays
  <2> QED BY <2>2 DEF EnvFile!LayerIsWhole
<1>9. EnvFile!TypeOK' /\ EnvFile!SeenInv'
  BY <1>1, FilesStay DEF EnvFile!IInv, EnvFile!TypeOK
<1>10. EnvFile!TakenInv'
  BY <1>1 DEF EnvFile!TakenInv
<1> QED BY <1>8, <1>9, <1>10 DEF EnvFile!IInv

LEMMA EnvFileNext ==
  ASSUME EnvFile!IInv, EnvFile!Next
  PROVE  EnvFile!IInv'
BY EnvFileCancel, EnvFileReplace, EnvFileCall, EnvFileSkip, EnvFileStat, EnvFileOpen,
   EnvFileRead, EnvFileFinish DEF EnvFile!Next

-----------------------------------------------------------------------------
(* The theorems.                                                            *)

LEMMA InitIInv == Init => IInv
BY HttpInit, DirectoryInit, ReaderInit, EnvFileInit DEF Init, IInv

LEMMA NextIInv == IInv /\ [Next]_vars => IInv'
<1> SUFFICES ASSUME IInv, [Next]_vars PROVE IInv'
  OBVIOUS
<1>1. CASE HttpStep
  BY <1>1, HttpNext DEF HttpStep, IInv
<1>2. CASE DirectoryStep
  BY <1>2, DirectoryNext DEF DirectoryStep, IInv
<1>3. CASE ReaderStep
  BY <1>3, ReaderNext DEF ReaderStep, IInv
<1>4. CASE EnvFileStep
  BY <1>4, EnvFileNext DEF EnvFileStep, IInv
<1>5. CASE UNCHANGED vars
  <2>1. /\ UNCHANGED Http!vars /\ UNCHANGED Directory!vars
        /\ UNCHANGED Reader!vars /\ UNCHANGED EnvFile!vars
    BY <1>5 DEF vars, httpVars, directoryVars, readerVars, fileVars, Http!vars,
                Http!serverVars, Http!cacheVars, Directory!vars, Directory!volumeVars,
                Directory!readVars, Reader!vars, EnvFile!vars
  <2>2. source' = source
    BY <1>5 DEF vars
  <2>3. CASE source = "http"
    BY <2>1, <2>2, <2>3, HttpStutter DEF IInv
  <2>4. CASE source = "directory"
    BY <2>1, <2>2, <2>4, DirectoryStutter DEF IInv
  <2>5. CASE source = "reader"
    BY <2>1, <2>2, <2>5, ReaderStutter DEF IInv
  <2>6. CASE source = "envfile"
    BY <2>1, <2>2, <2>6, EnvFileStutter DEF IInv
  <2> QED BY <2>3, <2>4, <2>5, <2>6 DEF IInv
<1> QED BY <1>1, <1>2, <1>3, <1>4, <1>5 DEF Next

\* The invariants of the four sources.
THEOREM Inductive == Spec => []IInv
BY InitIInv, NextIInv, PTL DEF Spec

\* Http: what a Read returns the server had during that Read, and a validator belongs to
\* the document that is cached.
THEOREM AnswersAreCurrent == Spec => []ReadsAreCurrent
<1>1. IInv => ReadsAreCurrent
  BY DEF IInv, ReadsAreCurrent, Http!IInv
<1> QED BY <1>1, Inductive, PTL

\* Directory: a layer is one whole generation that was current during the Read, and Read
\* fails only if the volume moved during each attempt.
THEOREM GenerationsAreWhole == Spec => []OneGeneration
<1>1. IInv => OneGeneration
  BY DEF IInv, OneGeneration, Directory!IInv
<1> QED BY <1>1, Inductive, PTL

\* Reader: whoever comes first closes the reader, once, and before Read returns.
THEOREM ReadersAreClosed == Spec => []ClosedOnce
<1>1. IInv => ClosedOnce
  BY DEF IInv, ClosedOnce, Reader!IInv
<1> QED BY <1>1, Inductive, PTL

\* Reader: a layer comes of a document that was read to its end.  EnvFile: a layer comes
\* of whole files, each as it was at some moment of the Read, which do not exceed the
\* limit together, and Read fails only for a reason.
THEOREM LayersAreWhole == Spec => []LayerIsWhole
<1>1. IInv => LayerIsWhole
  BY DEF IInv, LayerIsWhole, Reader!IInv, EnvFile!IInv
<1> QED BY <1>1, Inductive, PTL
=============================================================================
