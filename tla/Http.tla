-------------------------------- MODULE Http --------------------------------
(***************************************************************************)
(* Read of contrib/sources/http: conditional requests with the document of  *)
(* the last answer as cache, behind a gate of capacity one.                 *)
(*                                                                          *)
(* The server is the sequence of its versions; a version is a document, one *)
(* that does not decode, or nothing, and carries a validator or not.  ETag  *)
(* and Last-Modified are one validator, the number of the version it was    *)
(* given for.                                                               *)
(***************************************************************************)
EXTENDS Naturals

CONSTANTS Callers, None,
          MaxVersions   \* bound: versions after the first

HttpAssumption == None \notin Callers /\ MaxVersions \in Nat

Kinds == {"document", "garbled", "missing"}

VARIABLES
  version, kind, tagged,   \* the server
  gate,                    \* the caller in s.gate, None when it is free
  cached, etag,            \* s.cached and the validators; 0: nil, empty
  pc,                      \* per caller: where its Read is
  sent,                    \* per caller: the validator of its request
  answer,                  \* per caller: the answer to its request
  began,                   \* history: the version when its Read was called
  result                   \* per caller: the version its Read returned, or an error

serverVars == <<version, kind, tagged>>
cacheVars == <<cached, etag>>
vars == <<serverVars, gate, cacheVars, pc, sent, answer, began, result>>

Answer(status, v, garbled, tag) ==
  [status |-> status, version |-> v, garbled |-> garbled, tag |-> tag]
NoAnswer == Answer("none", 0, FALSE, 0)
Error == [is |-> "error", version |-> 0]
Gone(v) == [is |-> "gone", version |-> v]
Document(v) == [is |-> "document", version |-> v]

Init ==
  /\ version = 1 /\ kind \in Kinds /\ tagged \in BOOLEAN
  /\ gate = None /\ cached = 0 /\ etag = 0
  /\ pc = [c \in Callers |-> "idle"] /\ sent = [c \in Callers |-> 0]
  /\ answer = [c \in Callers |-> NoAnswer]
  /\ began = [c \in Callers |-> 0] /\ result = [c \in Callers |-> Error]

-----------------------------------------------------------------------------
Publish ==
  /\ version <= MaxVersions /\ version' = version + 1
  /\ kind' \in Kinds /\ tagged' \in BOOLEAN
  /\ UNCHANGED <<gate, cacheVars, pc, sent, answer, began, result>>

Call(c) ==
  /\ pc[c] = "idle"
  /\ pc' = [pc EXCEPT ![c] = "gate"] /\ began' = [began EXCEPT ![c] = version]
  /\ UNCHANGED <<serverVars, gate, cacheVars, sent, answer, result>>

\* Read returns, and its deferred call leaves the gate.
Return(c, r) ==
  /\ result' = [result EXCEPT ![c] = r]
  /\ pc' = [pc EXCEPT ![c] = "idle"]
  /\ gate' = IF gate = c THEN None ELSE gate

\* Mutant: the gate does not look at the context.
GiveUpPastGate(c) ==
  /\ pc[c] = "request" \/ (pc[c] = "served" /\ answer[c].status = "200")
  /\ Return(c, Error)
  /\ answer' = [answer EXCEPT ![c] = NoAnswer]
  /\ UNCHANGED <<serverVars, cacheVars, sent, began>>

\* The time-out of the source or the end of the caller's context, at the gate, in the
\* request or while the body is read.
GiveUp(c) ==
  /\ \/ pc[c] \in {"gate", "request"}
     \/ pc[c] = "served" /\ answer[c].status = "200"
  /\ Return(c, Error)
  /\ answer' = [answer EXCEPT ![c] = NoAnswer]
  /\ UNCHANGED <<serverVars, cacheVars, sent, began>>

\* Mutant: no gate.
EnterUngated(c) ==
  /\ pc[c] = "gate"
  /\ pc' = [pc EXCEPT ![c] = "request"]
  /\ sent' = [sent EXCEPT ![c] = IF cached = 0 THEN 0 ELSE etag]
  /\ UNCHANGED <<serverVars, gate, cacheVars, answer, began, result>>

\* The gate is free; the request is conditional if a document with a validator is cached.
Enter(c) ==
  /\ pc[c] = "gate" /\ gate = None
  /\ gate' = c /\ pc' = [pc EXCEPT ![c] = "request"]
  /\ sent' = [sent EXCEPT ![c] = IF cached = 0 THEN 0 ELSE etag]
  /\ UNCHANGED <<serverVars, cacheVars, answer, began, result>>

\* The server answers; or it fails, or answers 304 though nothing is cached.
Serve(c) ==
  /\ pc[c] = "request"
  /\ pc' = [pc EXCEPT ![c] = "served"]
  /\ LET tag == IF tagged THEN version ELSE 0
         right == CASE kind = "missing" -> Answer("404", version, FALSE, 0)
                    [] kind # "missing" /\ sent[c] # 0 /\ sent[c] = tag
                         -> Answer("304", 0, FALSE, 0)
                    [] OTHER -> Answer("200", version, kind = "garbled", tag)
         fault == Answer("500", 0, FALSE, 0)
         odd == Answer("304", 0, FALSE, 0)
     IN  \E a \in {right, fault} \cup (IF cached = 0 THEN {odd} ELSE {}) :
           answer' = [answer EXCEPT ![c] = a]
  /\ UNCHANGED <<serverVars, gate, cacheVars, sent, began, result>>

Done(c) == answer' = [answer EXCEPT ![c] = NoAnswer]

NotModified(c) ==
  /\ pc[c] = "served" /\ answer[c].status = "304"
  /\ Return(c, IF cached = 0 THEN Error ELSE Document(cached))
  /\ Done(c)
  /\ UNCHANGED <<serverVars, cacheVars, sent, began>>

NotFound(c) ==
  /\ pc[c] = "served" /\ answer[c].status = "404"
  /\ cached' = 0 /\ etag' = 0
  /\ Return(c, Gone(answer[c].version))
  /\ Done(c)
  /\ UNCHANGED <<serverVars, sent, began>>

OtherStatus(c) ==
  /\ pc[c] = "served" /\ answer[c].status = "500"
  /\ Return(c, Error)
  /\ Done(c)
  /\ UNCHANGED <<serverVars, cacheVars, sent, began>>

Undecodable(c) ==
  /\ pc[c] = "served" /\ answer[c].status = "200" /\ answer[c].garbled
  /\ Return(c, Error)
  /\ Done(c)
  /\ UNCHANGED <<serverVars, cacheVars, sent, began>>

\* The body has been read and decoded: it is cached, and then its validators are.
StoreDocument(c) ==
  /\ pc[c] = "served" /\ answer[c].status = "200" /\ ~answer[c].garbled
  /\ cached' = answer[c].version
  /\ pc' = [pc EXCEPT ![c] = "validators"]
  /\ UNCHANGED <<serverVars, gate, etag, sent, answer, began, result>>

\* Mutant: an answer without a validator leaves the old one.
StoreValidatorsIfAny(c) ==
  /\ pc[c] = "validators"
  /\ etag' = IF answer[c].tag = 0 THEN etag ELSE answer[c].tag
  /\ Return(c, Document(answer[c].version))
  /\ Done(c)
  /\ UNCHANGED <<serverVars, cached, sent, began>>

StoreValidators(c) ==
  /\ pc[c] = "validators"
  /\ etag' = answer[c].tag
  /\ Return(c, Document(answer[c].version))
  /\ Done(c)
  /\ UNCHANGED <<serverVars, cached, sent, began>>

-----------------------------------------------------------------------------
Reading(c) ==
  \/ Enter(c) \/ GiveUp(c) \/ Serve(c)
  \/ NotModified(c) \/ NotFound(c) \/ OtherStatus(c) \/ Undecodable(c)
  \/ StoreDocument(c) \/ StoreValidators(c)

Next == Publish \/ \E c \in Callers : Call(c) \/ Reading(c)

\* The time-out makes every Read go on.
Spec == Init /\ [][Next]_vars /\ \A c \in Callers : WF_vars(Reading(c))

-----------------------------------------------------------------------------
\* A Read returns what the server had at some moment of that Read: a document that is
\* answered with 304 is the current one, and no result is older than the call.
ReadsAreCurrent ==
  \A c \in Callers :
    pc[c] = "idle" /\ result[c].is # "error"
      => result[c].version \in began[c] .. version

\* "validators are sent only after a successfully decoded response" (docs/sources.md:76),
\* and they belong to the document that is cached: whenever no Read is half way
\* through storing, the validator is the cached document's, or there is none.
ValidatorIsOfCached ==
  (\A c \in Callers : pc[c] # "validators") => etag \in {0, cached}

-----------------------------------------------------------------------------
(* The inductive invariant behind both.                                     *)

TypeOK ==
  /\ version \in Nat \ {0} /\ kind \in Kinds /\ tagged \in BOOLEAN
  /\ gate \in Callers \cup {None}
  /\ cached \in 0..version /\ etag \in Nat
  /\ pc \in [Callers -> {"idle", "gate", "request", "served", "validators"}]
  /\ sent \in [Callers -> Nat]
  /\ answer \in [Callers -> [status : {"none", "200", "304", "404", "500"}, version : Nat,
                             garbled : BOOLEAN, tag : Nat]]
  /\ began \in [Callers -> 0..version]
  /\ result \in [Callers -> [is : {"error", "gone", "document"}, version : Nat]]

\* From its request to its return a Read holds the gate, so that what the cache held when
\* it asked is what it holds when the answer comes.  What it was told is of its time: the
\* document of a 200 or a 404, and with a 304 the one that is cached.
AnswerInv(c) ==
  LET recent == began[c] .. version
  IN  /\ pc[c] \in {"request", "served", "validators"} => gate = c
      /\ pc[c] \in {"request", "served"} => sent[c] = IF cached = 0 THEN 0 ELSE etag
      /\ pc[c] = "served" =>
           /\ answer[c].status = "304" => cached = 0 \/ cached \in recent
           /\ answer[c].status \in {"200", "404"} => answer[c].version \in recent
           /\ answer[c].status = "200" => answer[c].tag \in {0, answer[c].version}
      /\ pc[c] = "validators" =>
           /\ cached = answer[c].version /\ cached \in recent
           /\ answer[c].tag \in {0, cached}

IInv == TypeOK /\ (\A c \in Callers : AnswerInv(c)) /\ ReadsAreCurrent /\ ValidatorIsOfCached
=============================================================================
