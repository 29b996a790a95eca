# A formal model of xconf

xconf assembles one configuration from several sources, validates it against a
schema, and keeps it up to date: a `Runtime` watches the sources, rebuilds the
snapshot when one of them changes, and publishes every new snapshot to its
subscribers. This directory holds TLA+ modules that model that machinery, TLC
configurations that check them on small instances, and TLAPS proofs of nearly all
the safety properties for instances of any size. Every definition is translated from the
Go source; `PROJECT.json` gives, for each, the file and lines.

Contents: 1 Inventory. 2 Modules and the code. 3 Runs. 4 Bounds. 5 Fairness.
6 Assumptions. 7 Proofs. 8 Findings. 9 What is not modelled. 10 Plan.

To repeat the checks: `tlc -config MCRuntime_reload.cfg MCRuntime.tla` (and so for
every run of `PROJECT.json`), and `tlapm` on `SnapshotProofs`, `RuntimeProofs`,
`FeedProofs`, `ResilientProofs`, `ReadsProofs`, `WatchesProofs`, `MergeProofs` and
`FilterProofs`.

## 1. Inventory

| Component | State it keeps | Operations | What is hard | What makes it correct |
|---|---|---|---|---|
| `Runtime` (runtime.go) | `current`, `failed`, `closed`, `subscribers`, `stops`; the channels `gate` (1), `dirty` (1), `done`; `mu` | `Open`, the loop `run`, `Reload`, `publish`, `Subscribe` and its goroutine, `Close`, `invalidate` | callers, the loop, watchers, subscribers and closers are goroutines; contexts end at any moment; channel sends under a lock | rebuilds are serialized and never go back; no notification is forgotten; publish never blocks; subscribers end up on the current snapshot; shutdown leaves nothing and returns |
| loader (xconf.go) | none between calls | `load`: read each source, merge, bake, check | the context may end between reads; a store changes between two reads | the snapshot is what the layers say, with their writers and stale sources |
| `Resilient` (sources.go) | `last`, `failing`, `wakes`; per `Watch` a goroutine with its `delay`, `stopInner` | `Read`, `Watch`, registration in the background, back-off, `stop` | a failure racing the loop's look at `failing`; stop racing the background registration; several runtimes share one wrapper | a failing source is retried until it recovers; the last good layer is the newest; stop releases everything |
| `Memory` (sources.go) | layer, revision, watchers, a mutex | `Set`, `Read`, `Watch`, stop | `Set` notifies with its lock held | every `Set` reaches every registered runtime |
| `Poll`, `Optional` (sources.go) | a ticker goroutine | `Read`, `Watch`, stop | ticks are dropped; errors differ from absence | a change is followed by a notification; only real absence is hidden |
| merge (merge.go) | the tree and the provenance of one load | `apply`, `mergeMap`, edits, `invalidate`, `recordTree` | edits above and below earlier writes; OneOf variants | a path holds what its last writer gave it, and its provenance says so |
| `AllowPaths` (filter.go) | the selection tree, fixed | `Read` (project values and edits), `validate` | an edit above the selection | nothing outside the selection changes; inside, nothing is lost |
| Consul, etcd, Kubernetes, NATS (contrib/sources) | a goroutine per `Watch`, its stream or query index | `Read`, `Watch`, stop | streams break and lose events; registration races changes; stop races reconnection; a client's callback blocks | every change is followed by a notification; stop leaves no stream |
| HTTP source | cached document and its validators, a gate | `Read`, polling | 304 answers, concurrent reads, time-outs at the gate | what is answered from the cache is current |
| directory source | none | `Read` of one generation | the generation is swapped and removed while it is read | a layer never mixes two generations |
| reader source, internal/document | none | `Read` | the end of the context closes the reader while it is read | closed exactly once; a truncated document is an error |
| env, dotenv, flags, pflag; prefixes of Consul; ConfigMaps and Secrets | none between calls | names of fields, explicit bindings, text or JSON, conflicts | the order of Go maps; bindings that take over names; recursive and variant schemas | the layer is what the names and the schema say, whatever the order |
| envfile | none between calls | `Read`: several files within one limit | files are replaced between stat, open and read; the limit is used up exactly | whole files, each as it was at some moment, and a revision of just those |
| file, fs, json, toml, yaml, S3, Vault | none between calls | `Read` of one document | absence against failure; deleted and unversioned objects | a document is whole, absent only if it is, and its revision tells it from others |
| YAML decoder | none | `walk` of the parser's graph | aliases that contain themselves or multiply | the tree the graph stands for, or an error |
| JSON and TOML decoders, parsers | none | conversion of bytes | formats | libraries: not modelled |
| schemapb engine (dependency) | none | `BakeDetailed` | - | external: a verdict on the merged values |

A source's watcher calls `Runtime.invalidate`, which puts a token in `dirty`; the loop
takes it, waits 20 ms, drains what came meanwhile, and calls `Reload`. `Reload` takes
the gate, calls `Source.Read` on every source in turn, merges, bakes, and decides under
`mu` what to publish; `publish` replaces, channel by channel, the event that a
subscriber has not read. `Resilient` sits between a source and the runtime in both
directions: it answers `Read` from its last good layer, and calls the runtime's
`invalidate` to have failing reads repeated. `Close` cancels, waits for the loop, and
passes through the gate to wait for reloads.

## 2. Modules and the code

A step of a model is what runs between two points at which another goroutine can be
observed: a channel operation, a lock, a check of a context, the beginning and the end
of a call of a source. Variables carry the names of the code's fields where they have
one. Operators marked `Mutant:` are wrong versions of the definition that follows them;
no specification uses them, and `PROJECT.json` says which property each one breaks.

### The runtime

`Snapshots` - layers, the snapshot built from them, `SameSnapshot` (the comparison that
keeps a version), `ChangedPaths`, events. A layer is a flat map of paths to values: the
runtime only compares values, writers, revisions and degraded sources. The schema is the
constant `Verdict`, an arbitrary function of the merged values.

`Runtime` - the whole of runtime.go and `loader.load`. `Thread` = the goroutine of
`Open`, which becomes the run loop, and the callers of `Reload`; `pc[t]` is the place:

| pc | code |
|---|---|
| `watch`, `hold` | `openLoader`: registering watchers; held on a degraded load |
| `select`, `debounce`, `stop`, `done` | `run`: its two selects, its deferred calls, after them |
| `enter`, `gate` | `Reload`: its first check; the select on the gate |
| `load`, `read`, `built` | `load`: before a source, in `Read`; the result is there |
| `publish`, `release` | `Reload` with `mu` held; before the gate is given back |

`got[t]`, `err[t]` are the load's layers and error. `ctxDone` separates a caller's
context from the root's: `context.AfterFunc` passes the root's end on in a goroutine of
its own (`AfterRootCancel`), while the loop's own context is a child of the root and
ends with it. `publish` is three actions (`Drain`, `Send`, `FinishPublish`), since
receivers and other goroutines run between them. `accepted`, `floor`, `seen`, `missed`
are history. `store`, `Change` and `Notify` stand for the sources' side.

`RuntimeProperties` states what is promised; `Feed` is the abstract specification of
the subscriptions, without threads, locks or channels: announcements, one mailbox per
member, joining and leaving only between announcements. `ImplementsFeed` is the
refinement: an announcement is made when `Reload` commits, and reaches a member when its
channel is drained. `RuntimeInvariant` is the inductive invariant; `RuntimeProofs`,
`FeedProofs` and `SnapshotProofs` hold the proofs; `MCRuntime` the instances.

### Resilient

`Resilient` - `Read` (`RecordGood`, `RecordFailure`), the goroutine of `Watch` (`top`:
registration or `stale()`; `idle`: waiting for `wake`; `backoff`, `retry`: the two
timers) and `stop` in its three parts. A runtime is what the wrapper sees of it: a token,
one read at a time, and what its last accepted read showed; `CallReads` is a `Reload`
whose context ends and whose result is therefore dropped. Any number of runtimes may
share a wrapper. `MCResilient` holds the instances, with one runtime; `ResilientProofs`
proves the safety properties for any number.

### Watching sources

`Watcher` is the abstract specification of the interface (xconf.go:73): what changes
after `Watch` has returned is followed by a notification, and nothing is notified after
`stop` has returned. It is the assumption `Runtime` makes of its sources (`pend`).

| Module | Code | Particulars |
|---|---|---|
| `StreamLoop` | what the goroutines of etcd, Kubernetes and NATS share | `connect`, `opened`, `select`, `backoff`, deferred release; `sent` is how far the stream has delivered |
| `Etcd` | contrib/sources/etcd | `Get` finds the revision, `WatchCreated` starts at its successor |
| `Kubernetes` | contrib/sources/kubernetes | `List`, `WatchOpens`, `Malformed` events |
| `Nats` | contrib/sources/nats | a watch starts with the last entry; the client's callback, the bounded `Updates`, and the drain; the context is looked at in the back-off and the select only |
| `Consul` | contrib/sources/consul | `Baseline`, blocking queries, an index that moves back or is 0 |
| `Memory` | `Memory` | setters, watchers and stops around one mutex |
| `Polling` | `Poll`, `Optional`, and the Watch of every polled source | ticker; a rebuild in three steps, `Take`, `Read`, `Show`; absence against failure |

A goroutine that registers again behaves in two ways when its context has ended
meanwhile. Those of etcd and Kubernetes check it and leave without a notification
(etcd.go:156, kubernetes.go:308); that of NATS notifies of the failure or of the new
watcher and goes on to its back-off or its select, where it sees the end
(nats.go:131-144). `RegisterFails` and `Resumed` of `StreamLoop` take this as the
parameter `leaves`: `cancelled` in `Etcd` and `Kubernetes`, `FALSE` in `Nats`.

`MCWatches` composes them: the initial state chooses the kind of source, and the
variables of the others are `None`. The disjunction keeps one statement of each property
for all sources - it is the same interface - and one `Watcher` to implement.
`KeepsContract` is the safety half of `ImplementsWatcher`: every step of a source is one
of `Watcher`, for each watcher, or a stutter. `WatchesProofs` proves it.

### Reading sources

`Http` (gate, conditional request, every status, cache and validators in two steps),
`Directory` (the kubelet's swap and removal against pin, list, read, compare, retry),
`Reader` with internal/document (the AfterFunc goroutine against `Read`, a `sync.Once`)
and `EnvFile` (stat, open and read of file after file, while files are replaced) are
state machines. `MCReads` composes the four in the same way as `MCWatches`, and
`ReadsProofs` proves what they promise. What env.Decode makes of the texts of the files
is the constant `Decode` of `EnvFile`, an arbitrary operator: that it makes of them what
is due is a question to `Bindings`, of the next table.

The `Read` of the other sources is one pass over what it is given, without a point at
which anything else matters. Such a `Read` is one step of `OneRead`; what is
nondeterministic about it is the order in which Go iterates over its maps. Its input may
change once, so that the revisions of two layers can be compared.

| Module | Code |
|---|---|
| `SchemaFields` | `decode` of env, first half: `visit`, the names of a schema's fields; names are sequences of words, `snake` is the constant `Snake` |
| `Bindings` | `decode`, second half: explicit bindings, JSON and separators, assignment, overlaps |
| `Variables` | `Read` of env, dotenv and flags, and `decodePrefix` of Consul |
| `Fields` | `Read` of ConfigMaps and Secrets, and pflag's `New` |
| `Documents` | `Read` of file, fs, S3, Vault and an exact key of Consul, with internal/document |
| `Yaml` | `walk` of the YAML decoder over the parser's graph of nodes and aliases |

Each of them states beside the algorithm what it ought to compute, in other terms: `Due`
looks at the schema and the variables as sets, where the code builds a table; `DueYaml`
looks at the ways through a graph, where the code recurs with a budget.

### Merging and filtering

`Trees` (trees as functions from paths), `Merge` (`mergeMap` at one path as `MergeAt`,
`Edit`, provenance with the locations it inherits, OneOfs and those that are fields of a
variant), `Filter` (`validate`, `project`, `projectEdit`, the locations that are kept),
and the machine `MergeLayers`: `load` applies one layer after another, each possibly
through `AllowPaths`. The recursion of `mergeMap` is a set of paths, `walk`, that it has
still to come to: `MergeKey` takes one of them, and puts the children of an object in its
place if `mergeMap` goes down into it. The edits follow one by one (`MakeEdit`). What
holds in the middle of a merge can be stated in this way, and the order of the keys is
any order. `MergeProofs` and `FilterProofs` hold the proofs.

`MergeInputs` chooses the layers, `SourceInputs` what the sources of `OneRead` are given.
`MCLayers` composes `OneRead` and `MergeLayers`: how a layer comes about, and what becomes
of layers; an initial state is of one of the two.

## 3. Runs

Twelve runs; `PROJECT.json` lists the properties of each, and a mutant of the code for
every property, which TLC must find to violate it.

| Run | Instance | What it shows |
|---|---|---|
| reload | two watched sources (unreadable, empty and stale, rejected and valid contents), one change each, run loop, a caller, a closer | rebuilds never overlap; a `Reload` sees what was stored before its call; a change is never forgotten; after shutdown nothing is registered or published |
| publish | one source, one caller, two subscribers that join, read and leave at any moment | `publish` never blocks; subscribers know the current snapshot and can replay `Changed`; `Runtime` implements `Feed`; `FeedInv`, the invariant of the proofs, holds |
| live | one source that may hold `Open`, two changes, a caller, a closer; fairness | what is accepted only gets newer, over two changes; the runtime converges once the store settles; `Close` and `Reload` return |
| closeread | one source, one change, a caller, a closer | violation: finding 1 |
| resilient | one runtime, registration that fails or succeeds, outages, two changes, a discarded read; fairness | `IInv`, the invariant of the proofs, holds; a failure of the wrapped source wakes a loop that is about to wait; `stop` releases everything, nothing is notified after it, and it returns; the shown layer never regresses; a failing source is retried until it recovers |
| unregistered, discarded | one runtime; fairness | violations: findings 2 and 3 |
| watches | each source of `MCWatches` with outages, broken streams, errors, cancellation, stop; fairness | each implements `Watcher`, overlooks nothing, leaves nothing, brings the runtime up to date, and its stop returns, even if its registrations fail again and again; after a rebuild from a polled source the runtime shows what the source holds, unless a failure or a notification says otherwise |
| reads | two concurrent reads of an HTTP source with three versions; a volume swapped up to three times; a document below, at and above the limit; two files of envfile, each replaced meanwhile; fairness | what is read is current, of one generation, and whole, several files within their common limit; a reader is closed once; reads end |
| layers | one `Read` of each of about 107 000 inputs of the other sources; every sequence of three layers out of 46, and one, or a first, layer followed by one filtered by any of ten selections, merged path by path in every order | bound names, documents and YAML graphs become the layer that is due; revisions tell layers apart; merging is what its path-by-path definition says; provenance explains values and changes; filtering loses nothing and touches nothing else |
| filter_stale | stale layers through `AllowPaths` | violation: finding 4 |
| containers | env with a binding that takes over the name of a container | violation: finding 5 |

What the properties look for, in the order of the hazards of `PROJECT.json`:

- *Serialization and freshness.* `OneRebuildAtATime`, `AcceptedNeverRegresses` and
  `ReloadSeesPriorWrites` together say that the gate makes rebuilds a sequence of
  ever newer readings, and that a caller never gets somebody else's earlier work.
- *Invalidation.* `NoLostInvalidation` follows every change of a watched source: it is
  in a watcher, in the token, in the loop's current rebuild, or accepted. `Converges` is
  its liveness: once stores hold a valid configuration for good, `current` is built from
  it, whatever failed before - unless the runtime ends.
- *Publication.* `SendNeverBlocks` is the absence of a deadlock under `mu`.
  `SubscriberKnowsCurrent` and `ReceivedEventsReplay` are what a subscriber relies on;
  `ImplementsFeed` covers joining and leaving in the middle of a publication.
- *Shutdown.* `NothingLeftBehind`, `QuietAfterShutdown`, and `CallsEnd`: `Close` and
  `Reload` return.
- *Resilient.* `NoLostWakeup` is the race of a failing `Read` with `stale()`;
  `RetriedWhileFailing` and `RecoveryShownUndisturbed` are the promise of the wrapper;
  `StopIsFinal` is the race of `stop` with the registration.
- *Watchers.* `NothingOverlooked` is, per source, the invariant behind
  `ImplementsWatcher`: while a source waits, it has announced everything that it
  will not hear of again. `ReadsLatest` takes the runtime's own, failing, reads into
  account: a notification during an outage is not enough. `QuietIsCurrent` is its safety
  half for polled sources, where a rebuild is three steps and anything may happen between
  them: at rest the runtime shows what the source holds, so that a source that cannot be
  read does not pass for an absent one, nor one that has gone for what it held. `StopEnds`
  is at its hardest for NATS, which may go on to register after its context has ended.
- *Reads.* `ReadsAreCurrent` says that 304 never revives an old document, and that the
  validators a request carries belong to the document they are meant for;
  `OneGeneration` that a layer is one whole generation, and that a half-removed
  generation never makes `Read` fail; `LayerIsWhole` that a read cut short by the limit
  or by a close is not taken for a short document, and of envfile that its files are
  whole and within their common limit, even when it is used up exactly, whoever replaces
  them between the stat, the open and the read. `ClosedOnce` is the race of the end of
  the context with the end of `Read`.
- *One pass.* `BoundAsDue` compares the table of bindings that `decode` builds in the
  order of Go maps with what names and schema say: names that collide, fields in several
  variants, recursive definitions, computed fields, empty containers, overlapping paths.
  `YamlIsUnfolded` is about aliases that hold themselves or multiply, `DocumentsAreWhole`
  about absence against failure, and documents that exceed a limit or meet it: none is
  refused without a reason. `RevisionTells` is about the revisions of S3 and of Consul
  prefixes, whose inputs change once between two reads: they must change with the values
  and must not with ignored keys.
- *Layers.* `MergeIsPathwise` compares the walk of `mergeMap` with a definition that looks
  at one path at a time. `RestUntouched` and `SelectedIsWhole` compare filtered with
  unfiltered merging; `ChangesAreRecorded` and `OriginsExplainValues` compare
  provenance with values. Both follow OneOfs within variants, whose paths are OneOfs only
  while the discriminators above say so, and the locations of what is filtered.

`CHECK_DEADLOCK FALSE` stands in `watches`, `reads` and `layers` only: there a behaviour
ends, when the bounds are used up and stop has returned, when a `Read` has returned, or
when all layers are merged. `Runtime` has an explicit final stutter (`Finished`) that is
enabled only when no thread waits, so that TLC's deadlock check is a check of the code.

## 4. Bounds

Every counter that is unbounded in the code is capped by a constant in a guard.

- `MaxChanges` of `Runtime` (1 or 2 per source) - one change during a rebuild and
  another one after it are what the token, the drain and the gate distinguish; later
  changes meet the same states. `MaxReloads` 1 per caller, with the loop as the second
  competitor for the gate and a closer as the third.
- Two subscribers, interchangeable: one that is served and one that is not yet.
- `Resilient`: delays 1 to 3, so that doubling and the cap both happen, and one `Reload`
  whose context ends, with one runtime. Two runtimes over one wrapper are left to the
  proofs.
- Watchers: two revisions of the store for the streams (one lost, one delivered) and
  four changes for Consul, so that an index moves forward, back and forward again;
  three for a polled source, which can break, recover and go in any order;
  `Updates` holds one entry, so that it fills; two setters, two watchers, three `Set`s.
- Reads: two callers, three versions, each with or without validator, decodable or not,
  present or not. `Attempts` is 2 in the configuration and 4 in the code: the property
  that relates it to the swaps is stated for any value, and three swaps exceed it.
  The limit is 1 byte, documents have 0 to 3.
- envfile: two variables and files of up to three bytes, with a limit of three for both,
  so that it is exceeded, met and missed by one; one replacement per file.
- Layers: an object with two fields, one of them a list, and a OneOf with a discriminator
  and a field that is a OneOf again in one variant: the smallest trees with siblings,
  depth, and a variant within a variant. 46 layers: every tree over it, single edits, and
  layers whose edits undo their own values. A filtered source is the last and has one
  layer below it, since filtering looks at nothing but the layer itself.
- One pass: schemas of up to three levels - nested, colliding, recursive, with three
  variants, computed -, two variables or pairs, three arguments, two bindings, which is
  what conflicts and orders need; documents of up to three bytes with limits on either
  side; YAML graphs of five nodes, whose aliases may point to what holds them, with
  budgets and nestings that some of them exceed by one.

## 5. Fairness

Only what the Go runtime or a documented obligation gives:

- Goroutines that can run do (weak fairness of each goroutine's actions); timers fire;
  a `Read` returns, as a `Source` must honour its context (docs/runtime.md).
- The gate is a buffered channel, whose blocked senders are served in order: a
  goroutine waiting for it is not passed over for ever (strong fairness of `WinGate`
  and `CloseTakesGate`). The mutex of `Memory` needs weak fairness only, since the
  calls of `Set` are bounded.
- A `select` chooses uniformly among its ready cases, so it does not forever leave out
  a cancelled context that stays ready (weak fairness of `Exit`; strong in `Resilient`,
  whose loop leaves its select between timers, and in `Nats`, whose goroutine may go from
  a failed registration to a back-off to the next one: `Exit` is enabled only in between.
  Weak fairness is not enough there - TLC then finds a stop that never returns -, and the
  code gives the strong: each time round, the context is ready as soon as the select is
  reached).
- An open stream delivers what it holds while the store answers; a query or request
  ends within its time-out.
- A `Read` of a reader is sure to return only after the reader has been closed.
- Nothing obliges a store to change, a context to end, anybody to call `Reload`, `Stop`
  or `Close`, or an outage to end. Registration of the watcher inside `Resilient` may
  fail for ever in `FairSpec`; the `resilient` run uses `RegisteringSpec`, in which it
  succeeds when tried again and again, and `unregistered` shows the difference.

## 6. Assumptions of the models

- `Runtime`: `Verdict` depends on the merged values only. Error texts, locations and
  decoding are no part of the state. A watcher's callback is the `pend` of its source,
  and its `stop` waits for callbacks - which module `Watcher` and run `watches` justify
  for the sources of the repository.
- Streams: an outage that leaves the stream open without an error (a silent one) is
  considered only with reconciliation polling, which exists to detect it.
- Consul: the index of the last answer does not come back for other content before a
  query has seen it gone, and 1 is never the index of a key. `wait = 0` watches nothing.
  An outage begins before `Watch` or during a query, which it breaks: one between two
  queries that is over before the next one is left out. Its goroutine does not notice
  it, and a `Read` of the runtime that falls into it is not repeated before the next
  change; `ReadsLatest` does not speak of that for Consul.
- Directory: names of generations are not used again (they carry a time stamp); the
  kubelet removes the old generation only after the swap. Directories without `..data`,
  limits, and errors of the file system other than absence are left out.
- HTTP: ETag and Last-Modified are one validator, which identifies the version.
- Merge: lists are scalars. A OneOf that is a field in variants of other OneOfs is one in
  each of them that it lies below: `mergeMap` comes upon it through the schema of the
  variant that is current (merge.go:202). `SelectedIsWhole` and `RestUntouched` do not
  speak of merges that fail.
- Names: `snake` is the constant `Snake`, from keys to words; a prefix is whole words. Two
  fields of a schema with the same name make every source fail that shares `decode`,
  flags, envfile and prefixes of Consul among them, though these look up no such name.
- `BoundAsDue` is checked without bindings that take over the name of another field:
  with them the layer depends on the order of a map, which is finding 5. A path below a
  container, or in a definition that is entered again, is text when it is bound explicitly.
- Documents: a byte is a character; a versioned store never gives two contents one
  version, and an entity tag is of one content. S3's version `null` is not a version.
- YAML: a scalar is good or refused. Forms of floats that YAML allows and JSON does not,
  such as `1.e3`, are refused by the code.
- envfile: files are replaced as wholes (by a rename); `Close` does not fail; the limit
  of 1024 names is left out. The names of the files and the revision are compared as they
  are, not as a hash.

## 7. Proofs

TLAPS checks 9798 obligations in eight modules. The theorems hold for every value of the
constants - any number of sources, callers, subscribers, runtimes, watchers, any
contents, schema, layers and selections, any bound - from the assumptions that the
modules name, all of which TLC evaluates on the instances: `SnapshotsAssumption`,
`RuntimeAssumption`, `ResilientAssumption`, `ReadsAssumption`, `WatchesAssumption` and
`MergeLayersAssumption`. They say no more than what kind of thing a constant is: a
thread is not a closer, `Absent` is not a value, a limit is a number and not 0, a layer
is a tree with edits, a OneOf within variants is as in section 6.

| Module | Theorem | Establishes |
|---|---|---|
| RuntimeProofs | `Inductive`, `TypeCorrect` | `[]IInv`, `[]TypeOK` |
| | `Serialized` | `[]OneRebuildAtATime` |
| | `NeverRegresses` | `AcceptedNeverRegresses` |
| | `ReloadIsFresh` | `[]ReloadSeesPriorWrites` |
| | `NothingIsForgotten` | `[]NoLostInvalidation` |
| | `SendsNeverBlock` | `[]SendNeverBlocks` |
| | `SubscribersKnowCurrent` | `[]SubscriberKnowsCurrent` |
| | `NothingIsLeft`, `ClosedIsQuiet` | `[]NothingLeftBehind`, `QuietAfterShutdown` |
| FeedProofs | `FeedInductive`, `EventsReplay` | `[]FeedInv`, `ReceivedEventsReplay` |
| | `Implements` | `ImplementsFeed`: `Runtime` implements `Feed`, step by step |
| ResilientProofs | `Inductive`, `NothingIsLost` | `[]IInv`, `[]NoLostWakeup` |
| | `StopsForGood` | `StopIsFinal` |
| | `OneRuntimeMovesForward` | `ShownNeverRegresses`, with one runtime over the wrapper |
| WatchesProofs | `Inductive`, `NothingIsOverlooked`, `NothingIsLeft` | `[]IInv`, `[]NothingOverlooked`, `[]NothingLeft` |
| | `QuietPollsAreCurrent` | `[]QuietIsCurrent` |
| | `WatchersKeepContract` | `KeepsContract`: every source implements `Watcher`, step by step |
| ReadsProofs | `Inductive` | `[]IInv` |
| | `AnswersAreCurrent`, `GenerationsAreWhole`, `ReadersAreClosed`, `LayersAreWhole` | `[]ReadsAreCurrent`, `[]OneGeneration`, `[]ClosedOnce`, `[]LayerIsWhole` |
| MergeProofs | `Inductive` | `[]IInv` |
| | `ValuesAreExplained`, `EveryChangeIsRecorded` | `[]OriginsExplainValues`, `[]ChangesAreRecorded` |
| | `OrderMakesNoDifference` | `[]MergeIsPathwise` |
| | `SiblingsStayIntact` | `[]RestUntouched` |
| FilterProofs | `FilterIsInductive` | `[]FilterInv` |
| | `SelectedIsKept` | `[]SelectedIsWhole` |

`SnapshotProofs` holds the lemmas on `Merged` that `RuntimeProofs` rests on.
`ReceivedEventsReplay` promises `Changed` to those subscribers only none of whose events
was overwritten; the others are promised that versions do not go back.

Hardly any of these properties is inductive. Each module has an invariant that is, built
from named parts, and for each part a lemma with one step per action. Before it was
proved, every one was checked by TLC on the instances of the runs: `FeedInv`, which
contains the `IInv` of the runtime, and the `IInv` of `Resilient` are among the
properties of `publish` and `resilient`.

### The runtime

`OneRebuildAtATime` does not say who holds the gate, so a second thread might win it;
`SubscriberKnowsCurrent` does not say what holds in the middle of a publication;
`ReloadSeesPriorWrites` speaks of a load that is over; `NoLostInvalidation` does not say
what a load that has read an old layer will do. `IInv` adds what is missing:

- `TypeOK`, and `LoadInv`: the place of a thread and the length of its load agree, so
  that what is accepted has a layer of every source.
- `PhaseInv`: until `Open` has succeeded only its goroutine works. `Open` reads without
  the gate, and this is why it may.
- `GateInv`: whoever rebuilds has sent the token in the gate, or is `Open`.
  Serialization follows at once.
- `PublishInv`: `mu` is held exactly while publishing; the channels still to be served
  are open, and the one just drained is empty. A send therefore does not block.
- `FreshInv`: accepted <= read <= stored, in every source, for the one load that is on
  its way; and floor <= read for a caller. It needs serialization: a second load could
  be overtaken by what the first one accepts.
- `KnowsInv`: every registered channel that is not still a target leads to `current`.
  Outside of publications there are no targets.
- `ShutdownInv`: what the deferred calls of `run` have done stays done: nobody registers
  once the root context has ended, and nothing commits.
- `InvalidationInv`: watchers are registered from the end of `Open`'s first step until
  the root context ends, and what a load at work has read is current or outdated by a
  change that is on its way - so that accepting it cannot hide the change, even after a
  failure, and the token that the loop took before the debounce is worth the rebuild
  that follows.

Actions are grouped by `NextCases`. `AcceptMovesForward` is the action property behind
`NeverRegresses`.

`FeedInv` adds `ReplayInv`: versions go forward from what a subscriber received, to what
waits for it, to `current`, and the `Changed` of what waits, unless it replaced another
event, is the difference from what it received. With it each step of `Runtime` is one
of `Feed` under the refinement mapping of `RuntimeProperties`: `Reload` commits an
announcement, a drain delivers it, the rest stutters.

### Resilient

`LinkInv` relates what is registered in `wakes` and with the inner source to the places
of the goroutine and of `stop`. `ShownNeverRegresses` is proved for one runtime and is
false for several: the older layer of a read that began earlier may be the one that
`last` keeps.

### Watching and reading

`IInv` of `MCWatches` and `MCReads` is that of the chosen source:

- the stream loops, `LoopInv` and `StreamCovers`: no history is ahead of the store, and
  a stream exists only between its opening and its release. NATS also needs `CallbackInv`
  - a callback belongs to a watcher or to the drain - and `UpdatesCover`;
- Consul, `IndexInv` and `AnswerInv`: an index that the goroutine names was the store's,
  and an answer that brings no new index brings no news;
- `Memory`, `CalledInv`: a watcher that `Set` has called, or that came later, has read
  the layer or owes a read; the mutex is free only when everybody was called;
- polling: a rebuild that has read, with no notification due since it took the token,
  has read what the source holds, which is what makes `QuietIsCurrent` inductive;
- HTTP, `AnswerInv` for every caller: an answer on its way is of a version that the
  server had since the request, and between the two steps that store document and
  validators, the gate keeps others from either;
- the directory, `AttemptInv`: each attempt in vain saw `..data` move, and as long as it
  has not moved nothing that was pinned can be missing;
- the reader, `OnceInv`: exactly one of `Read` and the `AfterFunc` has the `Once`;
- envfile, `SeenInv` and `TakenInv`: what was taken is of the names that were looked at,
  each as it once was at its path, and the bytes taken and `remaining` make up the limit.
  `LayerIsWhole` needs that a failure had a reason too: `Completed` gives, for what was
  taken and the file just looked at, contents of all the files that Read could have found
  and that are wrong. Bytes are counted as elements of a set, since the sum over a
  function would have to be shown by induction; `TrimIsDue` says that what is cut off is
  the longest end of a line.

### Merging

`MergeIsPathwise` is a statement about the end of a walk. `WalkInv` says what holds in
its middle: what is still to come is as it was, everything else as `Pathwise` has it,
and no path of the walk is below another or below something that was overwritten. That
a path of the walk is a OneOf or not must not depend on the keys taken before it: a
discriminator that the walk has changed lies in an object whose OneOf would have been
overwritten as a whole, and the shortest one shows it (`VariantsStay`). `OriginsGrow`
and `TypeOK` - a merger is a tree, its origins are not empty - make `OriginsExplainValues`
and `ChangesAreRecorded` inductive; the lemmas on grafting, cutting and projecting
trees (`Overwriting`, `Editing`, `ProjectedEdit`) are what these and `RestUntouched`
have in common. Where a proof takes a least element of a set of lengths, `LeastNatural`
derives it from the well-foundedness of the natural numbers.

`SelectedIsWhole` compares the merge of a filtered layer with `WithoutFilter`, which the
model does not run: `Unfiltered[n]` is what the layer would have come to without the
filter after `n` of its edits. `projectEdit` makes of one edit any number of parts, of
the same place, so that the two cannot be compared edit by edit. `FilterInv` adds to
`IInv` what can be said at each place:

- `WholeSoFar`: once the parts of `n` places are made, what is selected is as
  `Unfiltered[n]` has it, values and last origins; while some are still to come it is so
  wherever those have nothing above or below (`Pending`), and elsewhere as in
  `Unfiltered[n - 1]` - unless something that is not selected took it away.
- `InPlaces`: edits are made in the order of their places, which is why what is left says
  what was made.
- `WalkOrigins`: during the walk the last origin of a scalar is the new layer's if the
  walk has passed it, and otherwise the one it had. It starts `WholeSoFar` at 0: the
  filtered walk and the whole one may take their keys in different orders.

A part changes what is selected below its path as the whole edit does
(`PartGivesTheSame`), and nothing selected elsewhere (`AgreeElsewhere`); the parts of one
edit do not meet (`PartsMeet`), so that each of them finds what the edit would have found.
`Unfiltered` is a recursive function, and `UnfilteredIs` derives its equation from its
definition: the least number of edits at which it could fail leads to a contradiction. The
three parts of `FilterInv` were checked by TLC with the instance of `layers` first.

### Model-checked only

- Liveness: `Converges`, `CallsEnd`, `RetriedWhileFailing`, `RecoveryShownUndisturbed`,
  `StopEnds`, `ReadsLatest`, `EveryReadEnds`, and the fairness in `ImplementsWatcher`.
  They need ENABLED, which these provers do not treat.
- `BoundAsDue`, `YamlIsUnfolded`, `RevisionTells` and `DocumentsAreWhole`: what `visit`
  and `walk` compute for any schema or graph is an induction over data, which these
  provers cannot instantiate, and the modules state it with RECURSIVE operators, with
  which tlapm loses its SMT backend.

## 8. Findings

Each is the counterexample of a run whose single property states what the repository
says of itself.

1. *closeread* - "Close cancels reads/watchers and waits for shutdown" (runtime.go:157),
   but a `Reload` that passed its check before `Close` may be scheduled after `Close`
   went through the gate: its `select` may take the free gate although `r.ctx` is done,
   and it begins a `Read` after `Close` has returned. It publishes nothing
   (`QuietAfterShutdown`).
2. *unregistered* - "While stale, the wrapper invalidates the runtime with exponential
   backoff until a Read succeeds" (sources.go:153), but not while the registration of
   the inner watcher fails: the loop then retries the registration alone.
3. *discarded* - "A source becoming stale or recovering publishes a normal event"
   (docs/runtime.md:41), but a good `Read` made for a `Reload` whose context ends clears
   `failing`; its result is dropped, retries stop, and the snapshot stays degraded.
   `RecoveryShownUndisturbed` shows that nothing else is needed for the failure.
4. *filter_stale* - "`Layer.Stale` set to the error", "`snapshot.Degraded()` maps each
   stale source name" (docs/runtime.md:33), but `AllowPaths` makes its layer anew without
   `Stale`: `AllowPaths(Resilient(s))` serves old values as healthy ones, and `Open` is
   not held for them.

5. *containers* - "Containers use JSON unless `env.Split` is configured" (README.md:200),
   and a test is called `TestOneOfEncodingCannotDependOnMapIteration` (env_test.go:118).
   With `Bind("B", "a")` and `Bind("X", "b")`, where `B` is the name of the container
   `b`, `decode` goes over the bindings in the order of a Go map and looks up containers
   in the table that it is writing to (env.go:164): `X` is JSON or text, from one `Read`
   to the next.

Seen on the way, and no disagreement with what the repository says: Vault's
`DeletionTime` counts as a deletion even if it lies in the future; a Vault secret whose
metadata is deleted starts again with version 1, so that a revision may come back; two
runtimes that share one `Resilient` take recoveries from each other, for the reason of
finding 3.

## 9. What is not modelled

- Parsing of bytes: JSON, TOML, the YAML parser, godotenv, the text and CSV forms of
  flags. They are libraries and functions of their input. Of the conversion of numbers,
  only whether it is refused.
- `cloneInput` and the mapstructure decoding of Go values; typed accessors; `OpenAs`
  except for its check, which is part of `Verdict`.
- The schemapb engine: external, an arbitrary verdict on merged values.
- The locations that env, flags and the like give to their values; error texts.
- The elements of lists: their origins, and AllowPaths below a list, which it refuses.
- Of json, toml and yaml sources, that they are file sources with a decoder.
- The example program, scripts and build files.

A `Read` of several stores is not atomic and the documentation says so
(docs/runtime.md:26): a snapshot may combine states that never existed together.

## 10. Plan

Order of work: the runtime first, as everything else serves it; then the wrapper that
interferes with it most, `Resilient`; then the sources, as implementations of what the
runtime assumes; then what happens inside a rebuild; then the proofs, in the same order.
Those are done as described above. Left:

- A composition of `Runtime` and `Resilient`, in place of the reduced runtime of
  `Resilient`, for the findings 2 and 3 seen from a subscriber.
