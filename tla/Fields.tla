------------------------------- MODULE Fields -------------------------------
(***************************************************************************)
(* The sources that bind the fields of one object: Read of Kubernetes       *)
(* (ConfigMap and Secret), and New of pflag.  Both go over their bindings   *)
(* in the order of a Go map, which is any order.                            *)
(***************************************************************************)
EXTENDS Bindings

\* A conversion that panics; no input should lead to it.
Panics == [is |-> "panic"]

NothingBound == [paths |-> {}, values |-> NoTree, outcome |-> Unset]

\* The check of a path against those of the bindings before it.
Claim(acc, path) ==
  IF path = <<>> \/ Overlaps(acc.paths, path) THEN [acc EXCEPT !.outcome = Refused]
  ELSE [acc EXCEPT !.paths = @ \cup {path}]

\* A value is put below the objects on its way, which are made where nothing is.
Put(acc, path, value) ==
  IF \E q \in Above(path) : IsScalar(acc.values, q) THEN [acc EXCEPT !.outcome = Panics]
  ELSE [acc EXCEPT !.values =
          (path :> value) @@ [q \in Above(path) |-> "map"] @@ Without(@, path)]

Outcome(acc) == IF acc.outcome = Unset THEN LayerFrom(acc.values) ELSE acc.outcome

-----------------------------------------------------------------------------
(* Kubernetes.                                                              *)

\* The values of a ConfigMap are those of Data and of BinaryData.  A Secret has bytes
\* alone, which become text.
ConfigMapValues(in) ==
  [k \in DOMAIN in.data |-> Text(in.data[k])] @@ [k \in DOMAIN in.binary |-> Bytes(in.binary[k])]
SecretValues(in) == [k \in DOMAIN in.binary |-> Text(in.binary[k])]
ObjectOf(in) == IF in.kind = "secret" THEN SecretValues(in) ELSE ConfigMapValues(in)

Clash(in) == in.kind = "configmap" /\ DOMAIN in.data \cap DOMAIN in.binary # {}

Size(object) == FoldFunction(LAMBDA value, sum : sum + Len(value.raw), 0, object)

\* Mutant: the path of a binding whose key is absent is not checked.
BindKeyIfPresent(acc, key, path, object) ==
  IF acc.outcome # Unset \/ key \notin DOMAIN object THEN acc
  ELSE LET claimed == Claim(acc, path)
       IN  IF claimed.outcome # Unset THEN claimed ELSE Put(claimed, path, object[key])

\* A key that is absent contributes nothing, but its path is taken.
BindKey(acc, key, path, object) ==
  LET claimed == Claim(acc, path)
  IN  IF acc.outcome # Unset THEN acc
      ELSE IF claimed.outcome # Unset \/ key \notin DOMAIN object THEN claimed
      ELSE Put(claimed, path, object[key])

\* Without Bindings every key is a field of the root.
KeyBindings(in, object) ==
  IF in.binds = None THEN [k \in DOMAIN object |-> <<k>>] ELSE in.binds

BindKeys(in, object, order) ==
  LET binds == KeyBindings(in, object)
  IN  Outcome(FoldLeft(LAMBDA acc, k : BindKey(acc, k, binds[k], object), NothingBound, order))

\* got is "notfound", "error" or "object"; key is that of Document, or None.
ReadObject(in, order) ==
  LET object == ObjectOf(in)
  IN  IF in.limit <= 0 THEN Refused
      ELSE IF in.got = "notfound" THEN Missing
      ELSE IF in.got = "error" \/ in.ctx # "live" \/ Clash(in) THEN Refused
      ELSE IF in.version = "" \/ Size(object) > in.limit THEN Refused
      ELSE IF in.key = None THEN WithRevision(BindKeys(in, object, order), Given(in.version))
      ELSE IF in.key \notin DOMAIN object THEN Missing
      ELSE DecodeDocument(object[in.key].raw, in.version)

-----------------------------------------------------------------------------
(* pflag.  A flag has a type, a value, and whether it was given.            *)

Types == {"string", "int"}   \* of those that scalar converts

ScalarOf(type, raw) == IF type = "int" THEN Number(raw) ELSE Text(raw)

\* Maps, and values that know their Go value, need no conversion; lists convert what
\* they hold, if anything.
ReadValue(flag) ==
  IF flag.form = "own" THEN Decoded(flag.raw)
  ELSE IF flag.form = "list" /\ flag.raw = "" THEN Parts("")
  ELSE IF flag.type \notin Types THEN Refused
  ELSE IF flag.form = "list" THEN Parts(ScalarOf(flag.type, flag.raw))
  ELSE ScalarOf(flag.type, flag.raw)

\* Mutant: a flag that was not given has its default.
VisitDefaults(in) == DOMAIN in.flags \cap DOMAIN in.binds
\* Visit: the flags that were given.
VisitChanged(in) == {n \in DOMAIN in.flags \cap DOMAIN in.binds : in.flags[n].changed}

ReadFlag(acc, flag, path) ==
  IF acc.outcome # Unset THEN acc
  ELSE IF ReadValue(flag) = Refused THEN [acc EXCEPT !.outcome = Refused]
  ELSE Put(acc, path, ReadValue(flag))

\* All bindings are checked before any flag is looked at.
NewPflag(in, order) ==
  LET claimed == FoldLeft(LAMBDA acc, n :
                            IF acc.outcome # Unset THEN acc ELSE Claim(acc, in.binds[n]),
                          NothingBound, order)
      read == FoldSet(LAMBDA n, acc : ReadFlag(acc, in.flags[n], in.binds[n]),
                      claimed, VisitChanged(in))
  IN  IF DOMAIN in.binds \subseteq DOMAIN in.flags THEN Outcome(read) ELSE Refused

-----------------------------------------------------------------------------
(* What the bound fields of an object ought to be, in no order.             *)

DueFields(object, binds) ==
  LET keys == DOMAIN object \cap DOMAIN binds
      Of(p) == CHOOSE k \in keys : binds[k] = p
  IN  IF \/ <<>> \in Range(binds)
         \/ \E k, l \in DOMAIN binds : k # l /\ Overlap(binds[k], binds[l])
         \/ Refused \in Range(Restrict(object, keys))
        THEN Refused
        ELSE LayerFrom(TreeOf([p \in {binds[k] : k \in keys} |-> object[Of(p)]]))

DueObject(in) ==
  LET object == IF in.kind = "secret" THEN [k \in DOMAIN in.binary |-> Text(in.binary[k])]
                ELSE [k \in DOMAIN in.data \cup DOMAIN in.binary |->
                        IF k \in DOMAIN in.data THEN Text(in.data[k]) ELSE Bytes(in.binary[k])]
      all == [k \in DOMAIN object |-> <<k>>]
  IN  IF in.got = "notfound" /\ in.limit > 0 THEN Missing
      ELSE IF \/ in.limit <= 0 \/ in.got # "object" \/ in.ctx # "live" \/ in.version = ""
              \/ in.kind = "configmap" /\ DOMAIN in.data \cap DOMAIN in.binary # {}
              \/ SumFunction([k \in DOMAIN object |-> Len(object[k].raw)]) > in.limit
        THEN Refused
      ELSE IF in.key # None
        THEN IF in.key \notin DOMAIN object THEN Missing
             ELSE IF object[in.key].raw \in Broken THEN Refused
             ELSE LayerFrom(<<>> :> Decoded(object[in.key].raw))
      ELSE DueFields(object, IF in.binds = None THEN all ELSE in.binds)

\* "Unknown bindings and overlapping schema paths are errors, including bindings to
\* currently unmodified flags" (docs/sources.md:289).
DuePflag(in) ==
  LET given == {n \in DOMAIN in.flags : in.flags[n].changed}
  IN  IF DOMAIN in.binds \subseteq DOMAIN in.flags
        THEN DueFields([n \in given |-> ReadValue(in.flags[n])], in.binds)
        ELSE Refused
=============================================================================
