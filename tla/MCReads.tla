------------------------------- MODULE MCReads -------------------------------
(***************************************************************************)
(* Read of the sources whose Read takes several steps: the HTTP document,   *)
(* the projected directory, the reader and the files of envfile.  A          *)
(* behaviour is that of one of them, which the initial state chooses; what  *)
(* belongs to the others alone is None throughout.                          *)
(***************************************************************************)
EXTENDS Naturals, Sequences, TLC

CONSTANTS None,
          Callers, MaxVersions,                      \* of Http
          Files, Bound, Attempts, MaxGenerations,    \* of Directory
          Limit, MaxSize,                            \* of Reader
          Confs, Contents, Decode(_, _, _), MaxReplaced   \* of EnvFile

VARIABLES
  source,                \* "http", "directory", "reader" or "envfile"; fixed
  pc, began, result,                     \* of several of them
  version, kind, tagged, gate, cached, etag, sent, answer,
  link, whole, left, gone, nilBindings, attempt, gen, names, layer, readErr,
  size, cancelled, reader, closes, after, once, got, data, closeErr,
  conf, files, seen, ended, todo, opened, remaining, taken

httpVars == <<version, kind, tagged, gate, cached, etag, sent, answer>>
directoryVars ==
  <<link, whole, left, gone, nilBindings, attempt, gen, names, layer, readErr>>
readerVars == <<size, cancelled, reader, closes, after, once, got, data, closeErr>>
fileVars == <<conf, files, seen, ended, todo, opened, remaining, taken>>
vars == <<source, pc, began, result, httpVars, directoryVars, readerVars, fileVars>>

Http == INSTANCE Http
Directory == INSTANCE Directory
Reader == INSTANCE Reader
EnvFile == INSTANCE EnvFile

ASSUME ReadsAssumption ==
  /\ Http!HttpAssumption /\ Directory!DirectoryAssumption
  /\ Reader!ReaderAssumption /\ EnvFile!EnvFileAssumption

NoHttp ==
  /\ version = None /\ kind = None /\ tagged = None /\ gate = None
  /\ cached = None /\ etag = None /\ sent = None /\ answer = None

NoDirectory ==
  /\ link = None /\ whole = None /\ left = None /\ gone = None /\ nilBindings = None
  /\ attempt = None /\ gen = None /\ names = None /\ layer = None /\ readErr = None

NoReader ==
  /\ size = None /\ cancelled = None /\ reader = None /\ closes = None /\ after = None
  /\ once = None /\ got = None /\ data = None /\ closeErr = None

NoEnvFile ==
  /\ conf = None /\ files = None /\ seen = None /\ ended = None
  /\ todo = None /\ opened = None /\ remaining = None /\ taken = None

Init ==
  \/ source = "http" /\ Http!Init /\ NoDirectory /\ NoReader /\ NoEnvFile
  \/ source = "directory" /\ Directory!Init /\ result = None /\ NoHttp /\ NoReader /\ NoEnvFile
  \/ source = "reader" /\ Reader!Init /\ began = None /\ NoHttp /\ NoDirectory /\ NoEnvFile
  \/ source = "envfile" /\ EnvFile!Init /\ began = None /\ NoHttp /\ NoDirectory /\ NoReader

HttpStep ==
  source = "http" /\ Http!Next /\ UNCHANGED <<source, directoryVars, readerVars, fileVars>>
DirectoryStep ==
  /\ source = "directory" /\ Directory!Next
  /\ UNCHANGED <<source, result, httpVars, readerVars, fileVars>>
ReaderStep ==
  /\ source = "reader" /\ Reader!Next
  /\ UNCHANGED <<source, began, httpVars, directoryVars, fileVars>>
EnvFileStep ==
  /\ source = "envfile" /\ EnvFile!Next
  /\ UNCHANGED <<source, began, httpVars, directoryVars, readerVars>>

Next == HttpStep \/ DirectoryStep \/ ReaderStep \/ EnvFileStep

\* The fairness of each source's own Spec.
Spec ==
  /\ Init /\ [][Next]_vars
  /\ \A c \in Callers : WF_(Http!vars)(source = "http" /\ Http!Reading(c))
  /\ WF_(Reader!vars)(source = "reader" /\ Reader!After)
  /\ WF_(Reader!vars)(source = "reader" /\ Reader!Running)
  /\ WF_(Reader!vars)(source = "reader" /\ reader = "closed" /\ Reader!ReadFails)

-----------------------------------------------------------------------------
(* envfile: files of up to three bytes, and a limit of three for all.        *)

ContentsDef ==
  {[is |-> "file", text |-> text] :
     text \in {<<>>, <<"x", "y", "CR">>, <<"x", "CR", "LF">>, <<"LF">>}}
    \cup [is : {"absent", "directory", "unreadable", "faulty"}]

ConfsDef ==
  LET A == <<"A">>
      B == <<"B">>
      AF == <<"A", "FILE">>
      BF == <<"B", "FILE">>
      Conf(binds, set, trim, limit) ==
        [schema |-> "s", binds |-> binds, vars |-> set, trim |-> trim, limit |-> limit]
      both == (AF :> <<"a">>) @@ (BF :> <<"b">>)
      two == (AF :> "f1") @@ (BF :> "f2")
      one == AF :> "f1"
      same == (BF :> "f1") @@ one
  IN  {Conf(both, set, TRUE, 3) : set \in {two, one, same, (BF :> "") @@ one}}
      \cup {Conf(both, same, FALSE, 3), Conf(both, (A :> "x") @@ one, FALSE, 3),
            Conf(both, (B :> "x") @@ one, FALSE, 3), Conf(both, one, FALSE, 0),
            Conf(A :> <<"a">>, A :> "f1", FALSE, 3), Conf(AF :> <<>>, one, FALSE, 3),
            Conf((AF :> <<"a">>) @@ (BF :> <<"a", "b">>), same, FALSE, 3)}

\* Paths that overlap are refused, whatever is at them.
DecodeDef(schema, binds, texts) ==
  IF \E m, n \in DOMAIN binds : m # n /\ Head(binds[m]) = Head(binds[n])
    THEN {[is |-> "error"]}
    ELSE {[is |-> "layer", values |-> [n \in DOMAIN texts |-> <<binds[n], texts[n]>>]]}

-----------------------------------------------------------------------------
\* 304 is answered with a document that is current, and the validators that a request
\* carries belong to the document they are meant for: see Http.
ReadsAreCurrent ==
  source = "http" => Http!ReadsAreCurrent /\ Http!ValidatorIsOfCached

\* A layer is of one generation of the volume: see Directory.
OneGeneration == source = "directory" => Directory!OneGeneration

\* A reader is closed exactly once: see Reader.
ClosedOnce == source = "reader" => Reader!ClosedOnce

\* A layer comes of a whole document within the limit: see Reader; that of envfile of
\* whole files, whoever replaces them meanwhile, and within one limit: see EnvFile.
LayerIsWhole ==
  /\ source = "reader" => Reader!LayerIsWhole
  /\ source = "envfile" => EnvFile!LayerIsWhole

\* What these rest on, source by source.
IInv ==
  \/ source = "http" /\ Http!IInv
  \/ source = "directory" /\ Directory!IInv
  \/ source = "reader" /\ Reader!IInv
  \/ source = "envfile" /\ EnvFile!IInv

\* Every Read ends: one of Http whoever holds the gate, and one of Reader that waits
\* for its reader once the context has ended.
EveryReadEnds ==
  /\ \A c \in Callers :
       (source = "http" /\ pc[c] = "gate") ~> (source = "http" /\ pc[c] = "idle")
  /\ (source = "reader" /\ cancelled) ~> (source = "reader" /\ pc = "returned")
=============================================================================
