------------------------------ MODULE EnvFile -------------------------------
(***************************************************************************)
(* Read of contrib/sources/envfile: variables NAME_FILE name the files that *)
(* hold the values of fields.  The files are read one after another, within *)
(* one limit for all of them, while others replace or remove them.          *)
(*                                                                          *)
(* A file is replaced as a whole (by a rename), so that one that is open    *)
(* does not change.  A name is a sequence of words, a text one of           *)
(* characters.  Decode is env.Decode (see Bindings), any function of the    *)
(* schema, the bindings and the texts: the outcomes it may have.            *)
(***************************************************************************)
EXTENDS Integers, Sequences, SequencesExt, FiniteSets

CONSTANTS None,
          Confs,            \* configurations: schema, binds, vars, trim, limit
          Contents,         \* what may be at a path
          Decode(_, _, _),
          MaxReplaced       \* bound: replacements of a file during a Read

\* What is at a path: a text, or something else.
Regular(file) == file.is = "file"
Length(file) == Len(file.text)
Absent == [is |-> "absent"]

EnvFileAssumption ==
  /\ MaxReplaced \in Nat
  /\ \A c \in Confs : IsFiniteSet(DOMAIN c.binds) /\ c.limit \in Int
  /\ \A file \in Contents :
       \/ Regular(file) /\ file.text \in Seq(STRING)
       \/ file.is \in {"absent", "directory", "unreadable", "faulty"}

VARIABLES
  conf,       \* the configuration; fixed
  files,      \* what is at the paths
  seen,       \* history: what was at each path since Read was called, in order
  ended,      \* the context
  pc,         \* where Read is
  todo,       \* bound variables it has still to look at
  opened,     \* the file that is open
  remaining, taken, result

vars == <<conf, files, seen, ended, pc, todo, opened, remaining, taken, result>>

Paths == {conf.vars[n] : n \in DOMAIN conf.vars} \ {""}
ValidBinding(n) == Len(n) > 1 /\ Last(n) = "FILE" /\ conf.binds[n] # <<>>

Init ==
  /\ conf \in Confs
  /\ files \in [Paths -> Contents]
  /\ seen = [f \in Paths |-> <<files[f]>>]
  /\ ended = FALSE /\ pc = "called" /\ todo = {} /\ opened = None
  /\ remaining = conf.limit /\ taken = [n \in {} |-> None] /\ result = None

Cancel ==
  /\ ~ended /\ result = None /\ ended' = TRUE
  /\ UNCHANGED <<conf, files, seen, pc, todo, opened, remaining, taken, result>>

Replace ==
  /\ result = None
  /\ \E f \in Paths, c \in Contents :
       /\ Len(seen[f]) <= MaxReplaced /\ c # files[f]
       /\ files' = [files EXCEPT ![f] = c]
       /\ seen' = [seen EXCEPT ![f] = Append(@, c)]
  /\ UNCHANGED <<conf, ended, pc, todo, opened, remaining, taken, result>>

-----------------------------------------------------------------------------
Goto(l) == pc' = l /\ UNCHANGED result
Return(outcome) == pc' = "returned" /\ result' = outcome

Refused == [is |-> "error"]
WithRevision(outcome, revision) ==
  IF outcome.is = "layer"
    THEN [is |-> "layer", values |-> outcome.values, revision |-> revision] ELSE outcome

Call ==
  /\ pc = "called"
  /\ IF ended \/ conf.limit <= 0 \/ \E n \in DOMAIN conf.binds : ~ValidBinding(n)
       THEN Return(Refused) /\ UNCHANGED todo
       ELSE Goto("name") /\ todo' = DOMAIN conf.binds
  /\ UNCHANGED <<conf, files, seen, ended, opened, remaining, taken>>

\* The names are looked at in their order, whichever that is.
Name == CHOOSE n \in todo : TRUE

Skip ==
  /\ pc = "name" /\ todo # {} /\ Name \notin DOMAIN conf.vars
  /\ Goto("name") /\ todo' = todo \ {Name}
  /\ UNCHANGED <<conf, files, seen, ended, opened, remaining, taken>>

\* Mutant: a variable that is set beside its file is passed over.
StatAlone ==
  /\ pc = "name" /\ todo # {} /\ Name \in DOMAIN conf.vars
  /\ LET path == conf.vars[Name]
     IN  IF path = "" \/ files[path].is \in {"absent", "directory"} THEN Return(Refused)
         ELSE Goto("open")
  /\ UNCHANGED <<conf, files, seen, ended, todo, opened, remaining, taken>>

\* The variable without the suffix may not be set too; a regular file must be there.
Stat ==
  /\ pc = "name" /\ todo # {} /\ Name \in DOMAIN conf.vars
  /\ LET path == conf.vars[Name]
     IN  IF \/ Front(Name) \in DOMAIN conf.vars
            \/ path = "" \/ files[path].is \in {"absent", "directory"}
           THEN Return(Refused) ELSE Goto("open")
  /\ UNCHANGED <<conf, files, seen, ended, todo, opened, remaining, taken>>

Open ==
  /\ pc = "open"
  /\ LET file == files[conf.vars[Name]]
     IN  IF file.is \in {"absent", "unreadable"} THEN Return(Refused) /\ UNCHANGED opened
         ELSE Goto("read") /\ opened' = file
  /\ UNCHANGED <<conf, files, seen, ended, todo, remaining, taken>>

\* What is read counts if it fits, and then leaves some of the limit.
ReadOpened(fits, left) ==
  /\ pc = "read"
  /\ IF ended \/ ~Regular(opened) \/ ~fits
       THEN Return(Refused) /\ UNCHANGED <<todo, remaining, taken>>
       ELSE /\ Goto("name") /\ todo' = todo \ {Name} /\ remaining' = left
            /\ taken' = [n \in DOMAIN taken \cup {Name} |->
                           IF n = Name THEN opened ELSE taken[n]]
  /\ opened' = None
  /\ UNCHANGED <<conf, files, seen, ended>>

\* Mutants: a file may be as long as the limit, whatever the others hold; once the limit
\* is used up, no file can be read.
ReadFileAlone == ReadOpened(Length(opened) <= conf.limit, remaining)
ReadFileOfRest ==
  ReadOpened(remaining > 0 /\ Length(opened) <= remaining, remaining - Length(opened))

\* document.Read takes a limit of at least one byte: an empty file still fits when the
\* limit is used up, and one of a byte is found out afterwards.
ReadContents ==
  LET atMost == IF remaining > 1 THEN remaining ELSE 1
  IN  ReadOpened(Length(opened) <= atMost /\ Length(opened) <= remaining,
                 remaining - Length(opened))

\* Mutant: a carriage return is a part of the newline wherever it is the last character.
TrimAny(text) == IF text # <<>> /\ Last(text) \in {"CR", "LF"} THEN Front(text) ELSE text

\* TrimFinalNewline: a line feed goes, and a carriage return before it.
Trim(text) ==
  IF text = <<>> \/ Last(text) # "LF" THEN text
  ELSE LET rest == Front(text)
       IN  IF rest # <<>> /\ Last(rest) = "CR" THEN Front(rest) ELSE rest

\* The revision: the hash of what was read, and where, before newlines are trimmed.
HashOf(found) == [n \in DOMAIN found |-> <<conf.vars[n], found[n].text>>]

Finish ==
  /\ pc = "name" /\ todo = {}
  /\ LET texts == [n \in DOMAIN taken |->
                     IF conf.trim THEN Trim(taken[n].text) ELSE taken[n].text]
         binds == [n \in DOMAIN taken |-> conf.binds[n]]
     IN  \E outcome \in Decode(conf.schema, binds, texts) :
           Return(WithRevision(outcome, HashOf(taken)))
  /\ UNCHANGED <<conf, files, seen, ended, todo, opened, remaining, taken>>

-----------------------------------------------------------------------------
Next == Cancel \/ Replace \/ Call \/ Skip \/ Stat \/ Open \/ ReadContents \/ Finish

Spec == Init /\ [][Next]_vars

-----------------------------------------------------------------------------
(* What Read ought to return when the files it finds are these.             *)

\* The longest end of a line that the text ends with is cut off.
WithoutNewline(text) ==
  LET newlines == {<<>>, <<"LF">>, <<"CR", "LF">>}
      Ends(s) == Len(s) <= Len(text) /\ SubSeq(text, Len(text) - Len(s) + 1, Len(text)) = s
      newline == CHOOSE s \in newlines :
                   Ends(s) /\ \A longer \in newlines : Len(longer) > Len(s) => ~Ends(longer)
  IN  SubSeq(text, 1, Len(text) - Len(newline))

\* The bytes of all the files together.
BytesOf(found) == UNION {{n} \X (1 .. Length(found[n])) : n \in DOMAIN found}

\* The variables that name a file.
SetNames == DOMAIN conf.binds \cap DOMAIN conf.vars

\* A reason to fail.
Wrong(found) ==
  \/ conf.limit <= 0
  \/ \E n \in DOMAIN conf.binds : ~ValidBinding(n)
  \/ \E n \in SetNames : Front(n) \in DOMAIN conf.vars \/ ~Regular(found[n])
  \/ Cardinality(BytesOf(found)) > conf.limit

DueTexts(found) ==
  [n \in SetNames |->
     IF conf.trim THEN WithoutNewline(found[n].text) ELSE found[n].text]

Due(found) ==
  IF Wrong(found) THEN {Refused}
  ELSE {WithRevision(outcome, HashOf(found)) :
          outcome \in Decode(conf.schema, [n \in SetNames |-> conf.binds[n]], DueTexts(found))}

\* What was at the path that a variable names, and whatever Read may have found there.
Was(n) == IF conf.vars[n] = "" THEN {Absent} ELSE Range(seen[conf.vars[n]])
Found ==
  {f \in [SetNames -> UNION {Was(n) : n \in SetNames}] : \A n \in SetNames : f[n] \in Was(n)}

\* A layer has the whole contents of all the files, each as it was at some moment of the
\* Read, and so has its revision; they do not exceed the limit together; and Read fails
\* only for a reason.
LayerIsWhole ==
  result # None => (ended /\ result = Refused) \/ \E f \in Found : result \in Due(f)

-----------------------------------------------------------------------------
(* The inductive invariant behind it.                                       *)

TypeOK ==
  /\ conf \in Confs /\ ended \in BOOLEAN
  /\ files \in [Paths -> Contents] /\ seen \in [Paths -> Seq(Contents)]
  /\ pc \in {"called", "name", "open", "read", "returned"}
  /\ todo \subseteq DOMAIN conf.binds
  /\ taken \in [DOMAIN taken -> Contents]

\* The history ends with what is there.
SeenInv == \A f \in Paths : files[f] \in Range(seen[f])

\* What was taken is of the names that were looked at, whole, and all there was of it is
\* gone from the limit; the file that is open was once at the path.
TakenInv ==
  /\ pc # "returned" => result = None
  /\ pc = "called" => DOMAIN taken = {} /\ remaining = conf.limit
  /\ pc \in {"name", "open", "read"} =>
       /\ conf.limit > 0 /\ \A n \in DOMAIN conf.binds : ValidBinding(n)
       /\ DOMAIN taken = SetNames \ todo
       /\ \A n \in DOMAIN taken :
            Regular(taken[n]) /\ taken[n] \in Was(n) /\ Front(n) \notin DOMAIN conf.vars
       /\ IsFiniteSet(BytesOf(taken)) /\ remaining \in Nat
       /\ remaining + Cardinality(BytesOf(taken)) = conf.limit
  /\ pc \in {"open", "read"} =>
       /\ todo # {} /\ Name \in DOMAIN conf.vars
       /\ Front(Name) \notin DOMAIN conf.vars /\ conf.vars[Name] # ""
  /\ pc = "read" => opened \in Range(seen[conf.vars[Name]])

IInv == TypeOK /\ SeenInv /\ TakenInv /\ LayerIsWhole
=============================================================================
