----------------------------- MODULE Variables ------------------------------
(***************************************************************************)
(* Read of the sources whose input is text by name: env, dotenv and flags   *)
(* (contrib/sources), and the prefixes of Consul.                           *)
(***************************************************************************)
EXTENDS Bindings

-----------------------------------------------------------------------------
(* env and dotenv.                                                          *)

\* Of several entries of a name the last one counts; one without "=" is no variable.
VarsOf(entries) ==
  FoldLeft(LAMBDA vars, e : IF e.value = None THEN vars ELSE (e.name :> e.value) @@ vars,
           [n \in {} |-> ""], entries)

ReadEnv(in, order) ==
  IF in.ctx # "live" THEN Refused
  ELSE Decode(in.schema, VarsOf(in.entries), in.options, order)

\* godotenv parses a file that has been read like any document.
ReadDotenv(in, order) ==
  LET file == ReadFile(in)
  IN  IF file.is # "layer" THEN file
      ELSE WithRevision(Decode(in.schema, VarsOf(in.entries), in.options, order), file.revision)

-----------------------------------------------------------------------------
(* flags.  An argument is --name=value, --name, or a word.                  *)

Equals(name, value) == [is |-> "equals", name |-> name, value |-> value]
Bare(name) == [is |-> "bare", name |-> name]
Word(value) == [is |-> "word", value |-> value]

NoArguments == [vars |-> [n \in {} |-> ""], pending |-> None, failed |-> FALSE]
\* Mutant: the first value of a flag counts.
SetFlagFirst(acc, name, value) ==
  [acc EXCEPT !.vars = @ @@ (name :> value), !.pending = None]

SetFlag(acc, name, value) ==
  [acc EXCEPT !.vars = (name :> value) @@ @, !.pending = None]

\* Mutant: a flag that has no value is passed over.
TakeArgumentSkips(acc, arg, known) ==
  IF acc.failed \/ (arg.is = "word" /\ acc.pending = None)
       \/ (arg.is # "word" /\ arg.name \notin known)
    THEN [acc EXCEPT !.failed = TRUE]
  ELSE IF arg.is = "word" THEN SetFlag(acc, acc.pending, arg.value)
  ELSE IF arg.is = "equals" THEN SetFlag(acc, arg.name, arg.value)
  ELSE [acc EXCEPT !.pending = arg.name]

\* One argument; pending is the flag whose value it must be.
TakeArgument(acc, arg, known) ==
  IF \/ acc.failed
     \/ arg.is = "word" /\ acc.pending = None
     \/ arg.is # "word" /\ (acc.pending # None \/ arg.name \notin known)
    THEN [acc EXCEPT !.failed = TRUE]
  ELSE IF arg.is = "word" THEN SetFlag(acc, acc.pending, arg.value)
  ELSE IF arg.is = "equals" THEN SetFlag(acc, arg.name, arg.value)
  ELSE [acc EXCEPT !.pending = arg.name]

\* The names of the schema are out of the way behind a prefix of their own.
Explicit(binds) == [NoOptions EXCEPT !.prefix = <<"unused">>, !.binds = binds]

ReadFlags(in, order) ==
  LET parsed == FoldLeft(LAMBDA acc, arg : TakeArgument(acc, arg, DOMAIN in.binds),
                         NoArguments, in.args)
  IN  IF in.ctx # "live" \/ parsed.failed \/ parsed.pending # None THEN Refused
      ELSE Decode(in.schema, parsed.vars, Explicit(in.binds), order)

-----------------------------------------------------------------------------
(* A prefix of Consul.  A key is the sequence of its segments behind the    *)
(* prefix; got is "error" for an answer that get refuses.                   *)

\* A pattern is a set of segments, by position; it counts for a key and for what is below.
Matches(pattern, key) ==
  Len(pattern) = Len(key) /\ \A i \in DOMAIN key : key[i] \in pattern[i]

\* Mutant: a pattern counts for the keys it matches alone.
IgnoredItself(ignore, key) == \E pattern \in ignore : Matches(pattern, key)

Ignored(ignore, key) ==
  \E pattern \in ignore, n \in DOMAIN key : Matches(pattern, SubSeq(key, 1, n))

Marker(pair) == Last(pair.key) = "" /\ pair.value = ""

\* Mutant: what is ignored counts for the revision.
TakePairHashed(acc, pair, ignore) ==
  LET hashed == [acc EXCEPT !.revision = @ \cup {<<pair.key, pair.index, pair.value>>}]
  IN  IF acc.failed \/ pair.outside THEN [acc EXCEPT !.failed = TRUE]
      ELSE IF Ignored(ignore, pair.key) \/ Marker(pair) THEN hashed
      ELSE IF "" \in ToSet(pair.key) \/ pair.key \in DOMAIN acc.vars
        THEN [acc EXCEPT !.failed = TRUE]
      ELSE [hashed EXCEPT !.vars = (pair.key :> pair.value) @@ @]

\* One pair.  The revision hashes the selected pairs in the order of their keys: a set.
TakePair(acc, pair, ignore) ==
  IF acc.failed \/ pair.outside THEN [acc EXCEPT !.failed = TRUE]
  ELSE IF Ignored(ignore, pair.key) \/ Marker(pair) THEN acc
  ELSE IF "" \in ToSet(pair.key) \/ pair.key \in DOMAIN acc.vars
    THEN [acc EXCEPT !.failed = TRUE]
  ELSE [acc EXCEPT !.vars = (pair.key :> pair.value) @@ @,
                   !.revision = @ \cup {<<pair.key, pair.index, pair.value>>}]

NoPairs == [vars |-> [n \in {} |-> ""], revision |-> {}, failed |-> FALSE]

\* decodePrefix: every selected key is bound to the path it spells.
ReadPrefix(in, order) ==
  LET taken == FoldLeft(LAMBDA acc, pair : TakePair(acc, pair, in.ignore), NoPairs, in.pairs)
      keys == DOMAIN taken.vars
      decoded == Decode(in.schema, taken.vars, Explicit([k \in keys |-> k]), order)
  IN  IF in.ctx # "live" \/ in.got = "error" \/ taken.failed THEN Refused
      ELSE IF keys = {} THEN Missing
      ELSE WithRevision(decoded, taken.revision)

-----------------------------------------------------------------------------
(* What these layers ought to be.                                           *)

DueEnv(in) ==
  LET set == {i \in DOMAIN in.entries : in.entries[i].value # None}
      Of(n) == Max({i \in set : in.entries[i].name = n})
  IN  IF in.ctx # "live" THEN Refused
      ELSE Due(in.schema, [n \in {in.entries[i].name : i \in set} |-> in.entries[Of(n)].value],
               in.options)

DueFlags(in) ==
  LET Is(i, kind) == i \in DOMAIN in.args /\ in.args[i].is = kind
      flags == {i \in DOMAIN in.args : ~Is(i, "word")}
      Value(i) == IF Is(i, "bare") THEN in.args[i + 1].value ELSE in.args[i].value
      Of(n) == Max({i \in flags : in.args[i].name = n})
  IN  IF \/ in.ctx # "live"
         \/ \E i \in DOMAIN in.args : Is(i, "word") # Is(i - 1, "bare")
         \/ Is(Len(in.args), "bare")
         \/ \E i \in flags : in.args[i].name \notin DOMAIN in.binds
        THEN Refused
        ELSE Due(in.schema, [n \in {in.args[i].name : i \in flags} |-> Value(Of(n))],
                 Explicit(in.binds))

\* The pairs of an answer that count: those with a key that is neither ignored, itself or
\* with all that is below a parent of it, nor a marker of a directory.
Visible(in) ==
  LET Hidden(key) ==
        \E pattern \in in.ignore, parent \in {SubSeq(key, 1, n) : n \in 1 .. Len(key)} :
          Len(parent) = Len(pattern) /\ \A i \in 1 .. Len(parent) : parent[i] \in pattern[i]
  IN  {i \in DOMAIN in.pairs :
         LET pair == in.pairs[i]
         IN  ~Hidden(pair.key) /\ (Last(pair.key) = "" => pair.value # "")}

VisiblePairs(in) == {in.pairs[i] : i \in Visible(in)}

DuePrefix(in) ==
  LET keys == {pair.key : pair \in VisiblePairs(in)}
      Value(k) == (CHOOSE pair \in VisiblePairs(in) : pair.key = k).value
  IN  IF \/ in.ctx # "live" \/ in.got = "error"
         \/ \E i \in DOMAIN in.pairs : in.pairs[i].outside
         \/ \E k \in keys : "" \in ToSet(k)
         \/ \E i, j \in Visible(in) : i # j /\ in.pairs[i].key = in.pairs[j].key
        THEN Refused
      ELSE IF keys = {} THEN Missing
      ELSE Due(in.schema, [k \in keys |-> Value(k)], Explicit([k \in keys |-> k]))
=============================================================================
