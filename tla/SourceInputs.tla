---------------------------- MODULE SourceInputs ----------------------------
(* What the sources of OneRead are given.                                    *)
EXTENDS Variables, Fields, Yaml

SnakeDef == [k \in {"a", "b", "aB", "c"} |->
               CASE k = "a" -> <<"A">> [] k = "b" -> <<"B">> [] k = "aB" -> <<"A", "B">>
                 [] k = "c" -> <<"C">>]
JsonDef == {"{}", "[]"}
BrokenDef == {"no"}

A == <<"A">>
B == <<"B">>
AB == <<"A", "B">>
X == <<"X">>
Y == <<"Y">>

-----------------------------------------------------------------------------
(* Schemas: scalars and containers, nested, with names that collide,        *)
(* recursive, with variants that agree and that do not, and computed.       *)

Flat == Root :> <<Scalar("a"), Field("b", TRUE, <<>>)>>
Nested == (Root :> <<Field("a", TRUE, <<"obj">>), Scalar("c")>>)
            @@ ("obj" :> <<Scalar("b"), Scalar("a")>>)
Collides == (Root :> <<Field("a", TRUE, <<"obj">>), Scalar("aB")>>) @@ ("obj" :> <<Scalar("b")>>)
Recursive == (Root :> <<Field("a", TRUE, <<"def">>), Scalar("b")>>)
               @@ ("def" :> <<Scalar("b"), Field("a", TRUE, <<"def">>)>>)
Variants(c1, c2, c3) ==
  (Root :> <<Field("a", TRUE, <<"v1", "v2", "v3">>), Field("b", TRUE, <<>>)>>)
    @@ ("v1" :> <<Field("b", c1, <<>>)>>) @@ ("v2" :> <<Field("b", c2, <<>>)>>)
    @@ ("v3" :> <<Field("b", c3, <<>>)>>)
WithComputed == Root :> <<Computed("a"), Scalar("b")>>

Schemas == {Flat, Nested, Collides, Recursive, WithComputed, Variants(FALSE, TRUE, TRUE),
            Variants(TRUE, TRUE, TRUE), Variants(TRUE, FALSE, FALSE)}

NoFun == [n \in {} |-> <<>>]
SeqsUpTo(S, n) == UNION {[1..m -> S] : m \in 0..n}

-----------------------------------------------------------------------------
(* env: names with and without a prefix, unknown ones, explicit bindings -   *)
(* none of which takes over the name of a field: see run containers -, and   *)
(* separators.                                                              *)

Entries(names) == [name : names, value : {None, "", "x", "{}"}]

Bindings0 == {NoFun, X :> <<"a">>, (X :> <<"a", "b">>) @@ (Y :> <<"b">>), X :> <<>>,
              (X :> <<"c", "c">>) @@ (Y :> <<"c">>)}

PlainOptions == [prefix : {<<>>}, strict : BOOLEAN, binds : Bindings0, splits : {NoFun}]
SplitOptions == [prefix : {<<>>}, strict : {FALSE}, binds : {NoFun},
                 splits : {AB :> ",", B :> ",", B :> ""}]
PrefixOptions == [prefix : {<<"P">>}, strict : BOOLEAN, binds : {NoFun}, splits : {NoFun}]

EnvInputs(source, schemas, options, names, n) ==
  [source : {source}, ctx : {"live", "ended"}, schema : schemas, options : options,
   entries : SeqsUpTo(Entries(names), n), got : {"document"}, raw : {"file"}, limit : {4},
   later : {None}]

AllEnvInputs ==
  EnvInputs("env", Schemas, PlainOptions, {A, AB, X, Y}, 2)
    \cup EnvInputs("env", Schemas, SplitOptions, {A, B, AB}, 2)
    \cup EnvInputs("env", {Flat, Nested}, PrefixOptions,
                   {A, <<"P", "A">>, <<"P", "B">>, <<"P", "Z">>}, 2)

\* Takeover: the scalar a of Flat takes the name of its container b, which gets another one.
TakeoverInputs ==
  EnvInputs("env", {Flat},
            [prefix : {<<>>}, strict : {FALSE}, splits : {NoFun},
             binds : {(B :> <<"a">>) @@ (X :> <<"b">>)}], {B, X}, 2)

\* dotenv: of the file, only whether and how it can be read.
DotenvInputs ==
  LET live == EnvInputs("dotenv", {Flat}, PlainOptions, {A, B}, 1)
  IN  {[in EXCEPT !.ctx = c, !.got = g, !.raw = r] :
         in \in live, c \in {"live", "ended", "ends"}, g \in {"document", "absent", "error"},
         r \in {"file", "no", "large"}}

-----------------------------------------------------------------------------
(* flags and the prefixes of Consul.                                        *)

F == <<"f">>
G == <<"g">>
FlagInputs ==
  [source : {"flags"}, ctx : {"live", "ended"}, schema : {Flat, Nested},
   binds : {F :> <<"a">>, (F :> <<"a">>) @@ (G :> <<"b">>), (F :> <<"a">>) @@ (G :> <<"a", "b">>)},
   args : SeqsUpTo({Equals(F, "x"), Equals(F, "{}"), Equals(G, ""), Bare(F), Bare(G),
                    Word("x"), Word("{}")}, 3),
   later : {None}]

Pair(key, value, index) == [key |-> key, value |-> value, index |-> index, outside |-> FALSE]
PairSet ==
  {Pair(<<"a">>, "x", "1"), Pair(<<"a">>, "{}", "2"), Pair(<<"a", "b">>, "x", "1"),
   Pair(<<"_m">>, "x", "1"), Pair(<<"_m">>, "x", "2"), Pair(<<"_m", "a">>, "x", "1"),
   Pair(<<"a", "">>, "", "1"), Pair(<<"a", "">>, "x", "1"),
   [Pair(<<"b">>, "x", "1") EXCEPT !.outside = TRUE]}

Prefix(pairs, ignore, got, ctx, schema, later) ==
  [source |-> "prefix", ctx |-> ctx, got |-> got, schema |-> schema, ignore |-> ignore,
   pairs |-> pairs, later |-> later]

PrefixInputs ==
  {Prefix(pairs, ignore, "pairs", "live", schema,
          Prefix(other, ignore, "pairs", "live", schema, None)) :
     pairs \in SeqsUpTo(PairSet, 2), other \in SeqsUpTo(PairSet, 2), schema \in {Flat},
     ignore \in {{}, {<<{"_m"}>>}, {<<{"_m"}, {"a", ""}>>, <<{"a"}, {"b", ""}>>}}}
  \cup {Prefix(pairs, {}, "error", ctx, Nested, None) :
          pairs \in SeqsUpTo(PairSet, 1), ctx \in {"live", "ended"}}

-----------------------------------------------------------------------------
(* Kubernetes and pflag.                                                    *)

Partial(keys, values) == UNION {[ks -> values] : ks \in SUBSET keys}

KubernetesInputs ==
  LET Objects == [source : {"kubernetes"}, kind : {"configmap", "secret"}, got : {"object"},
                  ctx : {"live"}, version : {"7"}, limit : {2},
                  data : Partial({"a", "b"}, {"x", "no"}), binary : Partial({"b", "c"}, {"y"}),
                  binds : {None, NoFun, "a" :> <<"p">>, ("a" :> <<"p">>) @@ ("b" :> <<"p", "q">>),
                           ("a" :> <<"p", "r">>) @@ ("b" :> <<"p", "q">>), "a" :> <<>>},
                  key : {None}, later : {None}]
      Object == CHOOSE in \in Objects : in.binds = None /\ in.kind = "configmap" /\
                                        DOMAIN in.data = {"a"} /\ in.binary = NoFun
  IN  Objects
      \cup {[in EXCEPT !.key = k] : in \in {o \in Objects : o.binds = None}, k \in {"a", "b"}}
      \cup {[Object EXCEPT !.got = g, !.ctx = c, !.version = v, !.limit = l] :
              g \in {"object", "notfound", "error"}, c \in {"live", "ended"},
              v \in {"", "7"}, l \in {0, 1, 4}}

Flags ==
  [changed : BOOLEAN, form : {"own", "list", "scalar"}, type : {"string", "int", "text"},
   raw : {"", "1"}]
PflagInputs ==
  [source : {"pflag"}, flags : {("f" :> f) @@ ("g" :> g) : f, g \in Flags},
   binds : {NoFun, "f" :> <<"a">>, ("f" :> <<"a">>) @@ ("g" :> <<"a", "b">>),
            ("f" :> <<"a", "c">>) @@ ("g" :> <<"a", "b">>), "h" :> <<"a">>, "f" :> <<>>},
   later : {None}]

-----------------------------------------------------------------------------
(* Documents.  A store that keeps versions gives each its own; "null" is     *)
(* overwritten; an entity tag is of one content.                            *)

Document(source, got, ctx, raw, limit) ==
  [source |-> source, got |-> got, ctx |-> ctx, raw |-> raw, limit |-> limit,
   version |-> "", etag |-> "", state |-> None, later |-> None]

Contexts == {"live", "ended", "ends"}
Raws == {"{}", "[]", "{a}", "no"}

S3Objects ==
  {[Document("s3", "document", "live", raw, 3) EXCEPT !.version = v, !.etag = e] :
     raw \in Raws, v \in {"", "null", "v1", "v2"}, e \in {"", "e1", "e2"}}
Honest(d1, d2) ==
  d1.raw # d2.raw =>
    /\ d1.version \in {"v1", "v2"} => d1.version # d2.version
    /\ d1.etag # "" => d1.etag # d2.etag

DocumentInputs ==
  {Document(source, got, ctx, raw, limit) :
     source \in {"file", "fs", "consul"}, got \in {"document", "absent", "error"},
     ctx \in Contexts, raw \in Raws, limit \in {0, 2, 3}}
  \cup {Document("s3", got, ctx, raw, limit) :
          got \in {"document", "NoSuchKey", "NoSuchVersion", "NoSuchBucket", "nil"},
          ctx \in Contexts, raw \in Raws, limit \in {0, 2, 3}}
  \cup {[Document("vault", got, ctx, raw, limit) EXCEPT !.state = state, !.version = "3"] :
          got \in {"document", "notfound", "error"}, ctx \in Contexts, raw \in Raws \cup {None},
          limit \in {0, 2, 3}, state \in {None, "kept", "deleted", "destroyed"}}
  \cup {[d[1] EXCEPT !.later = d[2]] : d \in {d \in S3Objects \X S3Objects : Honest(d[1], d[2])}}

-----------------------------------------------------------------------------
(* YAML: a root of two entries, the first of which may hold two more nodes,  *)
(* and aliases of whatever begins before them, including what holds them.   *)

YamlGraphs ==
  LET Leaves(before) == {Leaf("x"), Leaf("refused")} \cup {Alias(n) : n \in before}
      Roots == {Mapping(keys, <<2, 5>>) : keys \in {<<"a", "b">>, <<"a", "a">>, <<None, "b">>}}
      Firsts == {Leaf("x"), List(<<3>>), List(<<3, 4>>), Mapping(<<"a", "b">>, <<3, 4>>),
                 Mapping(<<"a", "a">>, <<3, 4>>), Mapping(<<"a">>, <<3>>), Mapping(<<>>, <<>>)}
  IN  {<<root, n2, n3, n4, n5>> :
         root \in Roots, n2 \in Firsts, n3 \in Leaves({1, 2}) \cup {List(<<>>)},
         n4 \in Leaves({1, 2, 3}) \cup {Mapping(<<>>, <<>>)},
         n5 \in Leaves({1, 2, 3, 4}) \cup {List(<<>>)}}
      \cup {<<leaf>> : leaf \in {Leaf("x"), List(<<>>), Mapping(<<>>, <<>>)}}

\* The nodes of the document; aliases point to such.
WellFormed(graph) ==
  LET held == {1} \cup UNION {ToSet(graph[m].nodes) : m \in {m \in DOMAIN graph : graph[m].kind # "alias"}}
  IN  \A n \in held : graph[n].kind = "alias" => graph[n].nodes[1] \in {m \in held : graph[m].kind # "alias"}

YamlOf(graph, documents, budget, nesting) ==
  [source |-> "yaml", graph |-> graph, documents |-> documents, budget |-> budget,
   nesting |-> nesting, later |-> None]

YamlInputs ==
  {YamlOf(graph, 1, limits[1], limits[2]) :
     graph \in {g \in YamlGraphs : WellFormed(g)}, limits \in {<<6, 3>>, <<10, 2>>, <<10, 4>>}}
  \cup {YamlOf(<<Mapping(<<>>, <<>>)>>, documents, 1, 0) : documents \in 0..2}

InputsDef ==
  UNION {AllEnvInputs, DotenvInputs, FlagInputs, PrefixInputs, KubernetesInputs, PflagInputs,
         DocumentInputs, YamlInputs}
=============================================================================
