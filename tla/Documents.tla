----------------------------- MODULE Documents ------------------------------
(***************************************************************************)
(* Read of the sources that fetch one document as a whole: file and fs, S3, *)
(* Vault, and a key of Consul (contrib/sources), with internal/document.    *)
(*                                                                          *)
(* A document is a word, of the length of its bytes; those in Broken decode *)
(* to no object.  An input says what the store answers (got), and whether   *)
(* the context is live, has ended when Read is called, or ends meanwhile.   *)
(***************************************************************************)
EXTENDS Trees

CONSTANTS None, Broken

\* Values: text, a number, what a decoder makes of it, a list of its parts, bytes.
Text(raw) == [is |-> "text", raw |-> raw]
Number(raw) == [is |-> "number", raw |-> raw]
Decoded(raw) == [is |-> "json", raw |-> raw]
Parts(raw) == [is |-> "list", raw |-> raw]
Bytes(raw) == [is |-> "bytes", raw |-> raw]

\* What a Read returns.
Refused == [is |-> "error"]
Missing == [is |-> "notfound"]
LayerFrom(values) == [is |-> "layer", values |-> values]
WithRevision(outcome, revision) ==
  IF outcome.is = "layer" THEN outcome @@ [revision |-> revision] ELSE outcome

Given(revision) == <<"given", revision>>
Hash(content) == <<"hash", content>>

\* Mutant: a document of exactly the limit is refused.
WholeBelow(in) == in.ctx = "live" /\ in.limit > 0 /\ Len(in.raw) < in.limit

\* document.Read: the bytes to the end, unless they exceed the limit.
Whole(in) == in.ctx = "live" /\ in.limit > 0 /\ Len(in.raw) <= in.limit

\* document.Decode: a source that knows no revision takes the hash of the bytes.
DecodeDocument(raw, revision) ==
  IF raw \in Broken THEN Refused
  ELSE WithRevision(LayerFrom(<<>> :> Decoded(raw)),
                    IF revision = "" THEN Hash(raw) ELSE Given(revision))

-----------------------------------------------------------------------------
\* file and fs; got is "absent", "error" or "document".
ReadFile(in) ==
  IF in.ctx = "ended" THEN Refused
  ELSE IF in.got = "absent" THEN Missing
  ELSE IF in.got = "error" \/ ~Whole(in) THEN Refused
  ELSE DecodeDocument(in.raw, "")

\* A path that is not valid cannot be opened: "error".
ReadFS(in) == ReadFile(in)

-----------------------------------------------------------------------------
\* Mutants: the version of an unversioned bucket counts; every error is an absence.
RevisionNull(in) == IF in.version = "" THEN in.etag ELSE in.version
AbsentAlways(in) == in.got # "document"

\* The version "null" is overwritten in a bucket that keeps no versions.
RevisionS3(in) == IF in.version \in {"", "null"} THEN in.etag ELSE in.version
AbsentS3(in) == in.got \in {"NoSuchKey", "NoSuchVersion"}

ReadS3(in) ==
  IF AbsentS3(in) THEN Missing
  ELSE IF in.got # "document" \/ ~Whole(in) THEN Refused
  ELSE DecodeDocument(in.raw, RevisionS3(in))

-----------------------------------------------------------------------------
\* Mutant: only a version destroyed for good is absent.
AbsentDestroyed(in) ==
  in.got = "notfound" \/ (in.got = "document" /\ in.state = "destroyed")

\* Without metadata (state None) a secret is what it is, and has no version.  One that
\* is deleted or destroyed is still found.
AbsentVault(in) ==
  in.got = "notfound" \/ (in.got = "document" /\ in.state \in {"deleted", "destroyed"})

\* A secret without data is None; it is encoded again, which bounds it.
ReadVault(in) ==
  IF in.limit <= 0 THEN Refused
  ELSE IF AbsentVault(in) THEN Missing
  ELSE IF in.got # "document" \/ in.raw = None \/ ~Whole(in) THEN Refused
  ELSE DecodeDocument(in.raw, IF in.state = None THEN "" ELSE in.version)

\* An exact key: get refuses an answer that exceeds the limit, before it is decoded.
ReadKey(in) ==
  IF in.limit <= 0 \/ in.got = "error" \/ in.ctx # "live" THEN Refused
  ELSE IF in.got = "absent" THEN Missing
  ELSE IF ~Whole(in) THEN Refused
  ELSE DecodeDocument(in.raw, in.version)

ReadDocument(in) ==
  CASE in.source = "file" -> ReadFile(in)
    [] in.source = "fs" -> ReadFS(in)
    [] in.source = "s3" -> ReadS3(in)
    [] in.source = "vault" -> ReadVault(in)
    [] in.source = "consul" -> ReadKey(in)

-----------------------------------------------------------------------------
(* What a reader of the documents expects of all of them.                   *)

\* The object does not exist: "Only NoSuchKey and NoSuchVersion map to ErrNotFound; a
\* missing bucket or denied access is an error" (docs/sources.md:128), "Missing secrets,
\* deleted versions and destroyed versions map to ErrNotFound" (docs/sources.md:145).
ReallyAbsent(in) ==
  \/ in.got \in {"absent", "notfound", "NoSuchKey", "NoSuchVersion"}
  \/ in.got = "document" /\ in.source = "vault" /\ in.state \in {"deleted", "destroyed"}

\* There is a document, it decodes, and its limit admits it.
Readable(in) == in.raw # None /\ in.raw \notin Broken /\ Len(in.raw) <= in.limit

DocumentIsWhole(in, outcome) ==
  /\ outcome = Missing => ReallyAbsent(in)
  /\ outcome.is = "layer" =>
       /\ ~ReallyAbsent(in) /\ in.got = "document" /\ in.ctx = "live"
       /\ outcome.values = (<<>> :> Decoded(in.raw)) /\ Len(in.raw) <= in.limit
  /\ outcome = Refused =>
       \/ in.ctx # "live" \/ in.limit <= 0
       \/ ~ReallyAbsent(in) /\ (in.got # "document" \/ ~Readable(in))
=============================================================================
