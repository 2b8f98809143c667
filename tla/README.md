# LightBridge Engine: TLA+ models, checks and proofs

LightBridge is a Rust inference engine that runs a mixture-of-experts model
whose experts stay on disk. This directory models its stateful parts in TLA+,
checks them with TLC on small instances and proves the central ones with TLAPS
for every instance. `PROJECT.json` lists components, runs, mutants, the map from
definitions to source lines, hazards, findings and theorems.

## The system

| Part | State | Operations | What is hard | What makes it correct |
|---|---|---|---|---|
| `bridge-cache` expert cache | entries (Loading or Ready, pins, last_used, resident), heat, used and reserved bytes | `get`, `get_or_try_insert`, lease drop, `clear_unpinned`, heat import | loaders run outside the lock; waiters on a condition variable; ephemeral entries | exact accounts below the ceiling, leases pin, one load per key, LRU eviction, no lost wakeup |
| `bridge-kv-gqa` paged KV cache | lengths and page tables per layer | append, reset, rewind, snapshot export and restore | stale rows behind the lengths, page boundaries, atomic restore | readers see exactly the rows appended |
| `bridge-runtime` generation and chat engine | history, position, logits, health; snapshot | complete in session, cancel, export, restore | failure in the middle of a layer, cancellation between tokens, prefix reuse over many calls | the four records of a session stay in step |
| token evaluation (`hy3_scalar.rs`) | leases, streaming phase, rows per layer, position | evaluate, reset | parallel loads of which one fails, sessions competing for the cache | a layer computes on its experts, failures leave nothing behind, no refusal in a cache of the right size |
| `TextStopFilter` | pending text | push, finish | stop sequences cut by chunks | same result as truncation of the whole text |
| `bridge-server` | slots, one worker and one event channel per request | admit, stream, respond, disconnect | slow, stalled and leaving clients; worker panics where they unwind | well-formed streams, slots never leak |
| `bridge-prepare` | data file and manifest, temporaries, backups | write, verify, commit, undo | any file operation fails; the process dies | no mixed pair, no lost pair, all or nothing |
| `bridge-format`, expert reads of `bridge-prepare` | records and bytes of the sidecar, manifest | lay out, validate, open, read | two independent computations of one layout, 64-bit ranges, sources that change | an expert is read exactly or not at all |
| `bridge-io-windows` | none | positioned reads | short reads, cancellation | range checks in `Sidecar`, the rest planned |
| `bridge-gguf` | parsed directory, budgets | read | declared counts, lengths and offsets that are not true, strings that are not UTF-8, 64-bit sums | accepts exactly the valid files and allocates only what they pay for |
| `bridge-gguf-split` | set of shards, merged directory | open a set | any shard may be named, links, contradictory metadata | one set whatever the entry, distinct files |
| `bridge-model-hy3` | configuration, schema, roles | resolve, validate, classify | replicas in later shards, explicit schemas, slabs | accepts exactly the profile's models, an expert has one place |
| opening a model (`hy3_scalar.rs`, `plan` of `bridge-cli`) | options, resident tensors | plan, authenticate, load | four computations of one budget, a path opened again and again | loads what was hashed, fits what was preflighted |
| `Sampler` | candidate, weight and repetition buffers | sample | infinite, tied, underflowing logits; buffers that are reused | draws exactly what settings and logits allow |
| `bridge-tokenizer` | vocabulary | format, parse, encode, decode | tool-call grammar, a prompt that depends on later messages, incremental UTF-8 | answers survive being sent back, sessions continue from what they hold |
| kernels, quantized layouts | none | arithmetic | numerics | not modelled |
| `bridge-cli` | session and heat files | atomic replace | crash, power loss, concurrent writers | a file is one whole export |

How they interact: a server worker (or the command line) calls the chat engine,
which owns sessions and calls the generation loop; each token is evaluated layer
by layer by `hy3_scalar`, which appends to the KV cache and takes leases on the
experts a layer is routed to; the expert cache calls back a loader that reads
from the GGUF file or the prepared sidecar. Text flows back through the stop
filter to the worker's callback and from there into the event channel.

## Modules

| Module | Models | Notes |
|---|---|---|
| `ExpertCache` | `bridge-cache/src/lib.rs` | one action per critical section of the mutex |
| `ExpertCache_proofs` | | proofs about `ExpertCache` |
| `KvLog` | | abstract specification: a log of rows per layer |
| `KvCache` | `bridge-kv-gqa/src/cache.rs` | implements `KvLog` |
| `ChatSession` | `generation.rs`, `chat_engine.rs`, token evaluation in `hy3_scalar.rs` | one step per layer |
| `ChatSession_proofs` | | proofs about `ChatSession` |
| `Inference` | `evaluate_inner`, `rollback_to` in `hy3_scalar.rs`, the streamed layer of `bridge-kernels-reference` | composes `ExpertCache` |
| `Inference_proofs` | | proofs about `Inference`, on those about `ExpertCache` |
| `StopFilter` | `TextStopFilter`, `truncate_at_first_stop` | |
| `Server` | completion route of `bridge-server/src/lib.rs` | the engine is its environment |
| `Server_proofs` | | proofs about `Server` |
| `PrepareCommit` | staging and commit in `bridge-prepare/src/lib.rs` | every file operation is a step |
| `Sidecar` | record layout of `bridge-prepare`, `bridge-format`, sidecar side of `ExpertSource` | sizes scaled down |
| `Sidecar_proofs` | | proofs about `Sidecar` |
| `SessionFiles` | `atomic_write`, `read_bounded` and the commands that use them in `bridge-cli/src/main.rs` | processes, kills, power loss |
| `GgufReader` | `GgufReader::read` of `bridge-gguf`, descriptors of `bridge-core` | one phase of `read` per action |
| `ShardSet` | `open_set` of `bridge-gguf-split` | a pure function of a directory |
| `Hy3Model` | `bridge-model-hy3` without `routing.rs` | extends `GgufReader` for sizes |
| `ModelOpening` | `open_selected`, `load_validated`, `Hy3MemoryBudget`, `validate_options` in `hy3_scalar.rs`, `plan` in `main.rs` | extends `Hy3Model` for schema and sizes |
| `Sampler` | `sampling.rs` | calls that share buffers |
| `ChatTemplate` | `chat.rs`, `assistant.rs`, `complete_in_session` | conversations over several turns |
| `ChatTemplate_proofs` | | proofs about `ChatTemplate` |
| `MCExpertCache`, `MCChatSession`, `MCInference`, `MCServer`, `MCSidecar` | | constants, instances and symmetry for TLC |
| `MCStorage` | | `KvCache`, `PrepareCommit` and `SessionFiles` in one instance |
| `Storage_proofs` | | proofs about `KvCache`, `PrepareCommit` and `SessionFiles`, and about the three in `MCStorage` side by side |
| `Algorithms_proofs` | | proofs about the components of `MCAlgorithms` but the chat format |
| `MCText`, `MCModelFiles`, `MCAlgorithms` | | `StopFilter`, `Sampler`, `ChatTemplate`; `GgufReader`, `ShardSet`, `Hy3Model`, `ModelOpening`; all of them in one instance |

`MCStorage` and `MCAlgorithms` put components that share no state into one
instance: a variable says which of them a behaviour is about, and the others
rest. The states of such a run are the sum of those of its components, never
their product.

### ExpertCache

`entry`, `resident`, `pins`, `heat`, `used` and `reserved` are the fields of
`State`. `last_used` ticks are kept as the order they induce (`older`): a new
tick is larger than all others, so touching a key puts it after every other
Ready key. That two entries never have equal ticks holds by this abstraction and is
no claim about the code's counter. Statistics are left out. `pc` says where a caller of
`get_or_try_insert` is: between turns of its loop (`try`), in the condition
variable (`wait`), or running its loader without the lock (`load`); other values
are what its last call returned. `reserve_capacity` evicts in a loop under the
lock; the model gives its result in one step: `MakesRoom` is the shortest prefix
of the unpinned entries in `last_used` order that makes room, `NoRoom` the case
where none does and every unpinned entry is gone. `heat` saturates at `HeatCap`
as the `u64` does at its maximum. A heat snapshot that is refused for a zero
count has already merged the entries before it, which is the merge of a shorter
snapshot.

### KvCache and KvLog

`lengths` and `pages` are the fields of `PagedKvCache`; a row stands for the keys
and values of all heads of a token. Rewind and reset change only `lengths`. The
snapshot is a record with a binding and an `intact` flag for the digest;
`Damage`, an action of the environment, drops the newest row of a layer and clears
the flag. A restore goes through `new_lazy`, so a cache created eagerly is lazily
backed afterwards. `KvLog` knows only sequences of rows, and `ImplementsLog` maps
the committed rows to them.

### ChatSession

The row a layer stores for a token is the token, and `logits` is the token
sequence they were computed from, so a stale row or stale logits is visible as a
different sequence. `Complete` is the call up to the checks of
`generate_stream`; the loops, a step per layer of a token, the failure of a
layer with the rollback, and the return follow as actions. The streaming text
side is a verdict: continue, break by the callback, a stop sequence, a decoding
error. `Cancel` may happen at any moment.

### Inference

Sessions evaluate tokens against one `ExpertCache`, taken in with `INSTANCE`: its
keys are pairs of layer and expert, its callers pairs of session and route. A
session changes the cache only through the cache's own actions, so what is proved
of `ExpertCache` holds here. `RouteToken` appends the row of a routed layer and
picks any `TopK` different experts; `LoadRoute` asks for one, in any order with
the CPU backend (`par_iter`), one after the other without; `Collect` is the
`collect` into a `Result`, which waits for the loads under way. Leases are
dropped one by one, since each drop takes the cache's lock. An error from a
layer, a load, the completion or the output ends in `Rollback`. The pool may run
another session's evaluation on a worker that waits for its own loads; that only
delays a session, because loaders never wait for the pool. `MaxTokens` bounds
the evaluations of a session.

### StopFilter

Text is a sequence of characters. `Truncated` is the code's other stop function,
used on the whole text, and serves as reference for the incremental one.

### Sampler

A logit is an integer between the two infinities, or NaN; the penalty is a
fraction, top-p is in tenths. The exponential is a power of two that underflows
to zero, so weights are exact integers and ties, empty distributions and
cut-offs on a boundary happen. The random number is any point of the
distribution. `MayDraw`, the reference, says per token whether it may come out,
without sorting or buffers. A sampler is called twice with different logits and
histories, since `repeated` and `candidates` outlive a call.

### ChatTemplate

A text is a sequence of pieces (markers, line ends, words) that stand for the
tokens they are encoded as. `FormatChat` is `format_chat`, `ParseAssistant` is
`parse_assistant_output` with its loops over calls and arguments. A conversation
grows by what the model generates, parsed and appended as a message, and by what
a user or a tool says; `complete_in_session` compares the new prompt with the
tokens the session holds. Two things about the code are visible here:

* reasoning of earlier turns is dropped once a user speaks again, so the session
  then evaluates from the start (`ContinuationReuses` says exactly when);
* `is_first_tool_response` is set once and never again, so a second batch of tool
  responses in a conversation gets no opening marker, as in the model.

The value of an argument is typed. `parse_arguments` hands its text to `serde_json`,
and keeps it as a string where it is no JSON. What `serde_json` does is the constant
`Json`: for each text that is valid JSON, whether it is a string and the text the
value is written as. `format_chat` writes strings bare and encodes everything else.
`ArgumentOf` reads and `CallText` writes accordingly, so a conversation that sends
an answer back may change an argument in two ways, and both are behaviours of the
code:

* a generated `"1"` is the string `1`, is written as `1` and comes back as a number;
* a string whose decoded text holds a mark (`"\u003c/value>"`) ends its envelope.

`ParseStable` therefore says what does hold. Where no value holds a mark that ends
it, its call or the envelope (`WellEnclosed`), every field comes back, and an argument
has the value its own text reads as (`Reread`): it never loses its key, moves to
another call or takes text from its neighbours, and one that reads as itself is
unchanged.

A loop of the parser is a function from the number of its turns to what is read
and left (`Reading`, `ArgumentTurn`, `CallTurn`): every turn that goes on takes a
piece or more, so as many turns as there are pieces end it. Arguments are kept in
the order of their keys, as in a `BTreeMap`; `KeyBefore` compares keys piece by piece
in `PieceOrder`, which is the order of strings for keys of one word, and only that it
is a total order matters for longer ones.

### GgufReader

A file is what it declares: counts, lengths, types and offsets, and its length.
The reader's phases follow `read`: header, metadata under the budgets for
entries, bytes, strings and array elements, alignment, tensor directory, extents.
`CheckedAdd` and `CheckedMul` fail beyond `MaxU64`. A string carries its length and
whether its bytes are UTF-8: `read_string` allocates, reads, and refuses what is not,
for keys, values, array elements and tensor names alike. An alignment is any power of
two of an unsigned number of `U32Bits` bits.

`held` counts the string bytes allocated, also of an entry that is refused later, and
counts a key twice, because the set that finds duplicates keeps a clone of each until
`read` returns. `slots` counts the places taken in the vectors of entries, array
elements and tensors and in that set; the growth strategy and spare capacity of `Vec`
and `HashSet` are the library's and are left out. `MemoryPaidFor` bounds both by what
has been read: strings by twice the metadata bytes and one string of permitted
length, places by the position in the file.

`Acceptable` says what a valid file is without budgets in advance, strides or an
order of checks.

### ShardSet

A directory maps names to files, links, folders or files outside. `Discover` is
`discover_numbered` with `canonicalize` and the split metadata; `DirectoryBuilds`
is `build`. A set opened through one of its shards is compared with the set opened
through every other one.

### Hy3Model

Metadata is a function from keys to a type and a value; a float is its distance
from the profile's value, in tolerances. Validation has three steps: the first
shard's configuration, the later shards, the directory. `Schema` generates the
tensors of a configuration with their names, shapes and types, and is evaluated
for small configurations, at the limit of 16382 tensors and for the selected
model itself. `Conforms` is the reference.

### ModelOpening

`Checks` is the order of `open_selected`, which opens the path for parsing,
hashing and loading anew; another program may rename a file over it at any time.
Resident sizes come from the schema of `Hy3Model`, options run up to and beyond
each limit, and `EvaluateFirst` adds what the first token makes the lazy KV cache
allocate. A file replaced after it was hashed is loaded under the hash of the old
one; the code keeps no handle, no document claims otherwise, and `LoadsAuthentic`
leaves that case out.

### Server

A request is rejected, refused with 429 or admitted with a permit. A streaming
worker sends the opening event, runs the engine with a callback that sends
chunks, and sends the closing events and `[DONE]`; `CanSend` is `blocking_send`:
it waits for room and fails once the receiver is gone. The engine ends at any
time, well or badly, or panics. `Unwinds` says how the program was built: a panic that
unwinds drops the permit and the sender, as in dev and test builds; the release
profile (`Cargo.toml:91`) aborts, and then a panic is the end of the process and of
the behaviour, not a step of it. Safety holds for both; what is claimed to happen
eventually is claimed while the process lives. Clients read, stall or leave; a client sends its
next request when nothing of the last one is left.

### PrepareCommit

The contents of a file are the run that wrote it. `commit_outputs` is one action
per file operation, with a failing alternative for each; `Crash` may come between
any two. Runs are numbered and follow one another (`Start` waits until the runs
before are over): nothing in the code keeps two processes apart, and that case is
listed as a hazard.

### SessionFiles

A process runs one command: it reads the heat file and perhaps a session, runs,
and replaces the session and then the heat through `atomic_write`. Each file
operation is a step, so another process, a kill or a power loss may come between
any two; a metadata look and the read that follows it are two steps as well. A
file has a content now and one that has reached the disk; what was not synced is
torn by a power loss, and renames reach the disk when the file system likes.
Process identifiers are used again, so a temporary name may be taken.

### Sidecar

The data file is its header fields and a sequence of bytes, each of which knows
which model, expert, segment and position it was copied from, so that reading the
wrong bytes is visible; padding is the empty sequence. `CopyRecord` is one turn of
the loop of `prepare_sidecar`, `Valid` is `SidecarManifest::validate`,
`PairMatches` is `Sidecar::open`, and `ReadTight` is `read_tight` down to the
range checks of `PositionedFile`. A hash stands for what was hashed. The header
of 64 bytes, the minimum alignment of 32 and the 64-bit range are constants. The
environment may replace the source file (`handle` keeps what the readers have
open) and may change one byte or one number of a stored pair. A runtime opens
with both verifications on, as the command line does; nobody replaces the source
while it opens.

## Runs

| Run | Instance | Shows |
|---|---|---|
| `expert_cache` | 2 threads, 3 keys of sizes 1, 2, 2 in a capacity of 3, an oversized and an empty one, threshold 2 | `CacheConsistent`, `Accounting`, `LeasesPin`, `AdmissionHysteresis`, `RefusalsJustified`, `EvictsLeastRecent`, `WaitersWake` |
| `chat_session` | 2 layers, context 3, five prompts, 2 new tokens | `SessionConsistent`, `SnapshotsRestorable`, `PromptIsPrefix`, `CallsReturn`, `CancelStopsEvaluation` |
| `chat_session_retry` | the same | violation: `RetriesRun` |
| `inference` | 2 sessions, 2 of 3 experts in parallel, cache for 3, a session retries | `ComputesOnRouted`, `SessionsReusable` |
| `inference_live` | 2 sessions, 2 routed layers of sizes 1 and 2, 1 of 2 experts, cache of 4, context of 1 | `SizedNeverRefuses`, `EvaluationsEnd` |
| `inference_one_expert` | 1 session, cache for 1 expert | violation: `OneExpertSuffices` |
| `server` | 2 clients of which one always reads, 1 slot, channel of 2, 2 chunks | `TypeOK` (with the permits), `StreamsWellFormed`, `BusyOnlyWhenFull`, `LeaversFreeSlots`, `ReadersAnswered` |
| `sidecar` | 2 layers of 2 experts, slabs of 1 or 3 bytes, alignments 1 to 4 | `LayoutAccepted`, `ReadsExactly` |
| `sidecar_replaced` | the same, source replaced at any time | violation: `BoundToSource` |
| `storage` | KV cache of 2 layers, pages of 2 tokens, capacity 3, batches of up to 2; 3 prepare runs over a full, a partial or no old pair; 2 processes, 2 commands, a power loss | `StorageTypeOK`, `ImplementsLog`, `PairNeverMixed`, `NothingLost`, `AllOrNothing`, `FilesWhole` |
| `algorithms` | see below | `FilterExact`, `DrawsExactlyAllowed`, `ContinuationReuses`, `ParseStable`, `AcceptsExactly`, `MemoryPaidFor`, `SetsConsistent`, `ValidatesExactly`, `SchemaSound`, `LoadsAuthentic`, `BudgetsAgree` |
| `opening_budget` | the openings of `algorithms` | violation: `PreflightConservative` |

Several of these are conjunctions of invariants named in the module, about one
thing each: `CacheConsistent` (`TypeOK`, `LoadsDeduplicated`),
`SessionConsistent` (`TypeOK`, `StateInStep`, `LogitsCurrent`), `SessionsReusable`
(`TypeOK`, `SettledBetweenTokens`, `ChecksNeverRefuse`), `ReadsExactly` (`TypeOK`,
`NeverMisreads`, `PreparedReadable`), `FilesWhole` (`NeverTorn`, `ImportsBounded`, `TempsOwned`),
`FilterExact` (`ShowsTruncation`, `HoldsOnlyStopPrefix`), `SetsConsistent`
(`EntryIndependent`, `ShardsDistinct`), `SchemaSound` (`SchemaConsistent`,
`SlabsPartition`), `BudgetsAgree` (`LoadsWhatIsBudgeted`, `PlanConservative`,
`PreflightCovers`).

The instances of `algorithms`: stop filters over 2 characters, every set of up to
2 stop sequences of length up to 3, text of up to 6; samplers over 3 tokens;
conversations of up to 4 messages from 5 option sets, and every answer of the
grammar with one piece cut, moved, inserted or exchanged, with values that are
numbers, numbers written otherwise, quoted numbers and a quoted mark (`JsonReadings`);
GGUF files of up to two entries and three tensors around every limit, with strings
that are UTF-8 and that are not, keys of the maximum length, and alignments up to
and beyond the largest (`U32Bits` is 11, since TLC's integers have no room for 64-bit
sums; `MaxU64` is scaled with it); directories of two shards with every
combination of files, links and contradictory metadata; models of two blocks with
one key, tensor or role off; openings with options and memories up to, at and
beyond each limit.

Bounds. The cache instance is too small for all keys, so eviction, refusal and
waiting all happen. The KV capacity is not a multiple of the page size, so a last
page is partial and batches cross a boundary. The chat prompts contain a prefix,
its continuation, a different conversation, an empty prompt and one that does not
fit. In the inference instances sessions share some experts and evict others, and
one of them evaluates again after a failure. The channel is shorter than a stream,
so workers block. A third prepare run starts from what two failed or crashed ones
left. Two commands are enough for a file to be replaced between a look and a read
and for a temporary name to be taken by a dead process. Two stop sequences over
two characters already nest, overlap each other and overlap themselves. Slabs of
one and three bytes need padding or none under the alignments used, and the
largest layout does not fit `MaxOffset`; a manifest is changed by one number,
since two well-chosen changes amount to another manifest. Three tokens give
top-k and top-p something to keep and something to cut, with ties on either side.
Two shards contradict each other in every way more of them could.

Fairness. `ExpertCache`: a thread that can take its turn does, and loaders
return: they read one record of a local file. `ChatSession`: the loops wait for
nobody. `Inference`: evaluations run on threads of their own or on the pool, and
ends are claimed for finitely many tokens only: a caller woken from the condition
variable may find the expert gone and being loaded again, as often as others keep
asking for it. `Server`: workers run on threads of their own and generation is bounded
by `max_new_tokens`; only clients declared attentive are assumed to read.
Condition-variable wakeups, clients' requests, disconnects and cancellations are
never assumed to happen. The storage and algorithm instances make no liveness
claim and state no fairness. `CHECK_DEADLOCK FALSE` is set where a finite story
ends: a filter that has finished, a file that is read, sessions without tokens
left, runs that are all over, an opened sidecar.

## Findings

* `chat_session_retry`: `docs/STATUS.md` says that after a failed expert "retry
  starts from a clean committed position". That holds for
  `Hy3ScalarModel::evaluate_token`. A chat session is poisoned as well, and a
  repeated call is refused, because its history is still a prefix of the prompt
  and the session is therefore not reset.

* `sidecar_replaced`: the architecture document says the manifest binds the
  sidecar to its source by hash. `prepare_sidecar` copies from readers opened
  before the paths are opened again for hashing; a file renamed over the source
  in between gets its hash into the manifest of the old file's experts.

* `inference_one_expert`: `validate_options` asks for a cache of "at least one
  complete expert", but a layer leases all its experts at once; with more than
  one expert per token such a cache cannot evaluate any. `inference_live` gives
  the size that is enough: top-k of the largest experts for each session that
  may run at the same time.

* `opening_budget`: `docs/STATUS.md` calls the startup memory preflight
  conservative. `Hy3MemoryBudget::for_validated` counts the smaller of page and
  context for the first KV page, but `PagedKvCache` allocates whole pages; with
  pages longer than the context a model is opened whose first token takes more
  than the memory that was checked. The `plan` command counts the whole page, so
  what it lets pass does fit (`PlanConservative`).

The layout proof also makes a boundary explicit: `validate_options` accepts any
power of two, the format demands at least 32, so a smaller alignment is refused
only after the whole copy (`LayoutAccepted` allows exactly that).

## Proofs

`ExpertCache_proofs` proves, for all finite sets of keys and threads, all sizes,
capacities and thresholds allowed by `ConfigAssumption` (what
`CacheConfig::validate` enforces), that `IndInv` is inductive. No conjunct is
inductive alone: accounts stay exact only because a Loading entry has one loader
(`LoadsDeduplicated`), publishing adds the size that was reserved only because
calls past the size checks fit (`CallsSized`, `EntriesFit`), and removing an
ephemeral entry is harmless only because pins equal leases (`LeasesPin`). `Bytes`
is the cardinality of a set of pairs, so that additivity over disjoint sets
follows from the library's theorems on finite sets. One lemma per conjunct goes
through the actions; `Invariance` combines them, and `TypeCorrect`,
`CeilingHolds`, `LeasesProtect`, `LoadsShared` and `AdmissionHolds` follow.

Its second half proves that refusals are justified (`RefusalsSound`: all unpinned
entries form an eviction prefix, and even that did not make room) and that
eviction is least recently used and minimal (`EvictionIsLru`: without its latest
member the evicted set would still be a prefix, so it cannot have made room). That
`older` is a total order of the Ready entries (`RecencyHolds`) is a lemma for it.
`ConsistencyHolds` collects what the run checks as `CacheConsistent`.

`Inference_proofs` takes these results over for the cache the sessions share: it
instantiates `ExpertCache_proofs` with pairs of a session and a route for threads,
shows that the options make an acceptable configuration (`ConfigHolds`) and that
every step of a session is a step of the cache or leaves it alone (`CacheFollows`);
so a behaviour of the sessions is one of the cache (`CacheServesSessions`). Its own
invariant `Inv` says, by the phase a session is in, which calls are out and which
leases are held (`Leased`) and how many rows each layer has (`Rows`). For every
number of sessions, layers and experts, a layer then computes on exactly what the
router chose (`ComputationSound`), and a session is fit for its next token
wherever the last one failed (`SessionsRecover`). `SizedCacheServes` turns the
accounts of the cache around: an entry that cannot be evicted is loading or
leased, so a caller bears it; a caller bears one entry (`OneLease`), and the one
that asks bears none, so the entries fewer than the callers leave room for one more
(`FewFixed`, `RoomForAll`).

`ChatSession_proofs` proves, for every vocabulary, number of layers, context length
and set of prompts, that a session stays in step (`SessionStaysConsistent`), that
what is exported can be restored (`ExportsRestore`), that a cached prefix is
reused only for the prompt that continues it (`PrefixReuseSound`) and that
cancellation is prompt (`CancelIsPrompt`). `IInv` joins the properties with
`CallSound` (what a call knows in each phase: a healthy session, room for what is
left of the prompt and of the budget, logits where a token is sampled) and
`SnapshotSound`. They need one another: a rewind restores the committed position
only because a layer holds at most the row in flight (`RewindsTo`), an export is
restorable only because a healthy session with a history has logits, and the
position stays within the context only because the budget was cut to the room.
One lemma per action; calls that return, phases that follow and tokens that are
recorded share `Returns`, `PhaseMoves` and `Records`.

`Storage_proofs` proves `CacheImplementsLog` of `KvCache`: for every capacity, page size, set of
layers and batch bound, each step of the paged cache is a step of `KvLog` or a
stutter. The invariant `KvInv` says that every committed token has a page and a
finite row there (`Holds`), and that an intact snapshot holds logs that fit;
without the first an append could not be seen to leave older rows alone. The
arithmetic (`TokenPlace`, `PagesInOrder`, `PagesSuffice`) says that a token is the
slot of one page and that the page table covers the capacity; `WrittenAppends`
then turns a write across page boundaries into a concatenation, and
`VisiblePrefix` a rewind into a prefix. `KvTypes` states the type invariant.

`Sidecar_proofs` proves `LayoutsAccepted`: for every alignment, number of layers
and experts, slab sizes and layout, the manifest that `prepare_sidecar` builds
passes `validate`, unless the alignment is below the minimum. The invariant says
that the records so far satisfy `RecordValid` against the bytes written so far
and that the file ends aligned; the lemmas show that `AlignUp` rounds up to a
multiple, that the writer's counter is the file's length (`PadWrites`,
`CopyWrites`), and that keys increase (`KeysIncrease`).

Its second half proves `SidecarLossless`: a reader either refuses a sidecar or
reads what the model file holds, whichever single number of the manifest or
byte of the data was changed by whichever amount. The one assumption is
`ReplacedDuring = FALSE`: with a model file replaced in the middle of a
preparation it is false, and the run `sidecar_replaced` shows how. `Kept` says of
every record that its slabs are laid one after the other at their aligned places in
the file (`Laid`); appending to the file leaves that alone (`LaidStill`). A manifest
one edit away (`OneEdit`) that still validates has the segments where they
were, because alignment and sizes determine them (`SegmentsFixed`), so that a
record that moved has another offset than its key's, which one edit cannot make
consistent: an aligned record has one place between its neighbours (`OneAligned`); a
hash covers what is left. `RecordFound` and
`ReadsExpert` then turn the lookup of an expert into the slice of its record, and
that into the slabs of the model file (`SliceOfSlice`).

`Storage_proofs` proves of `PrepareCommit`, for every number of runs, that pairs are never mixed
(`PairsMatch`), that the last complete pair is never lost (`PairsSurvive`) and that
a run that returns did all or nothing (`RunsAtomic`). None is inductive: a rename
onto a target or a backup loses nothing only because of what is there at that
stage. `OldPair` and `NewPair` say where both pairs are at each stage of a run,
`Ordered` that runs follow one another, and `RunStep` that a step of one run
leaves all of this in place for the others; one lemma per kind of operation, with
a case for each of its outcomes.

`Server_proofs` proves, for every set of clients, number of slots, channel capacity
and length of completions, that permits are conserved (`SlotsAreConserved`), that
what a client reads begins a well-formed stream and is one when the stream ends
(`StreamsStayWellFormed`) and that 429 is honest (`BusyIsHonest`). What was read is
no invariant by itself: `StreamInv` says for each stage of the worker how what was
read, what waits in the channel and what is still to be sent make up a stream, so
that a chunk, a read (`EventMoves`) and the closing events only move the borders
between the three. A connected client's worker was never stopped, so its closing
event is not "cancelled" (`EngineEndsStep`); once the client is gone its worker may
do as it likes (`Gone`). Permits plus workers that hold one stay the number of
slots (`PermitTaken`, `PermitDropped`, `PermitKept`).

Of `SessionFiles` it proves `FilesStayWhole`: for every set of processes, every
size and limit, and any number of kills and power losses, session and heat files
are whole and only whole files within the limit are imported. That targets are
whole is not inductive: the invariant `FilesInv` adds that what targets name is
also synced, so that a power loss leaves it as it is, that temporary names are
unique, and that a process past the creation of its file still owns it, written
and synced as its stage says. One lemma per action; those of a single process
rest on `ProcStep`, which says that others keep their files. `StorageTypes` joins the
type invariants of the caches, preparations and session files that `MCStorage`
runs side by side: two of them rest while one moves (`StorageNextInv`).

`Algorithms_proofs` proves `FilterTruncates`: for every alphabet, set of stop
strings and way to cut a text into chunks, the stop filter shows the text up to its
first stop string and never takes a character back. `FilterInv` says that shown and
held text make up what was fed, that the held text is the longest suffix which may
still become a stop string, and that no stop string has been met. Were a stop
string to begin in what has been shown, the suffix from there would have been such
a beginning and longer (`ShownFront`); so a match found in held text and new chunk
is the first match of all that was fed (`PushMatches`). `Min` and `Max` choose
among natural numbers, and that there is such a choice is the principle of the
least number (`LeastNatural`), which follows from the library's well-founded
induction.

Of `GgufReader` it proves `StringsPaidFor`, for every file and all limits: each
stage holds at most two bytes of strings for each byte of metadata it has read, and
one string of permitted length in advance, and at most one place for each byte of the
file it has passed (`Paid`). The second copy of a key is paid for only once the entry
has been read, so a key counts once while its value is read and twice after that;
reading an array checks its count before it takes a place, and a failing read keeps
what was read. `OpenedIsAuthentic` says of `ModelOpening`, for
every set of files and options, that without a replacement all that was read is the
authentic payload. `OpeningInv` says that until a replacement the path still names
what was parsed, that nothing else has been opened, and that past its hash it is
the payload; one lemma covers the checks that pass, and stopping keeps all three.
`ShardsFound` proves `ShardSet` sound: two numbered names with the same prefix and
count have the same siblings (`SiblingsAre`), so they lead to the same set
(`EntriesAgree`), and a file says the number of its shard, so no link makes it two
of them (`ShardsAre`).

`ReaderExact` says that the reader accepts exactly the valid files. `AcceptInv` ties
each phase to the file: how many entries and tensors are read, that the running
byte and element totals are the sums over them, cut off at 64 bits, and that a
refusal has a reason. Sums are functions which exist for every length and of which
there is one (`SumExists`, `SumsAgree`), so the recursive totals of the reference
and the reader's counters meet (`OneMore`, `MetadataGrows`, `TensorsGrow`).
Overflow is exact: adding, multiplying and aligning numbers that are cut off gives
the cut of the integer result (`CutAdd`, `CutMul`, `CutPaddedUp`), and therefore one
overflow anywhere refuses what the integers refuse. A refusal has one of the reasons
of the reference, among them a string anywhere that is not UTF-8. `ReaderAssumption`
states what a file can declare, that 32 is an alignment and that one more than
`MaxU64` is a multiple of every alignment, as 2^64 is of the powers of two of a u32.

`BudgetsSound` proves of `ModelOpening` that plan, preflight, loader and first token
agree about memory. The loader adds up what it loads, field by field and layer by
layer; the budget adds up the schema's tensors. Totals over finite sets do not
depend on the order in which elements are taken (`TotalExists`, `TotalRemove`), and
carry over along a bijection of the sets (`TotalsCorrespond`): loads and budgeted
specs correspond (`LoadedTogether`, `SchemaSpecs`), so the totals are the same
(`LoadsMatchBudget`). `PlanCovers` compares the two ways in which the plan and the
runtime compute pages, and `PreflightCounts` adds what the first token takes.
`OpeningAssumption` says that the inputs are numbers and a schema's rows whole
blocks.

Of `Sampler` it proves `DrawsSound`: a call returns what a reference without sorting,
buffers or random numbers allows, and can return all of it. The number of tokens
that beat a token is different for each, so a sorted list exists and a token's
place in it is that number (`SortedRanks`, `RankedPlaces`). Truncation by top_k and to
the infinite logits leaves a beginning of the list and drops nothing that weighs
something among the likely tokens (`CandidatesAre`, `PlacesWeigh`); so the mass of those
that beat a token is the running total before it (`MassSums`), `apply_top_p` cuts where
the reference does (`NucleusIs`), and the walk over the running totals reaches just
the candidates that weigh something (`DrawReaches`). The marks give the penalties of
the call's own window (`WindowIs`, `EffectiveIs`), whatever the buffer held before.
`SamplerAssumption` says that settings are numbers and that no penalty makes a finite
logit infinite; in f32 that takes a logit or a penalty near the ends of the range,
and such a call can fail with finite logits.

Of `Hy3Model` it proves `ValidatesAll` and `SchemaIsSound`. The schema theory comes
first: every spec fits its layer (`Fits`), each group of specs has its parts
once (`Covers`), and so the schema has one tensor for each of its `Places`, which
are counted as disjoint products (`PlacesCount`, `SchemaCount`). Names therefore
read back as roles, the length is the reservation, and it stays in range
(`SchemaValid`, `CapacityInRange`). `DirectoryExact` shows that comparing two counts
and looking up each spec compares the sets: specs told apart by name ask for as many
tensors as there are specs, and a subset of the same size is the set. `Hy3Inv`
says what the steps behind a validation have established, or that one of the three
parts of conforming fails; `ConformsByParts` shows that the parts are all of it,
because replicas that resolve to the same configuration are equal key by key
(`ReplicaAgrees`). For the slabs, `ThreeDimensionBytes` evaluates the recursive product
and `SlabArithmetic` divides it. `Hy3Assumption` states what is validated:
tensors that the reader lets pass, specs that have a role, finite lists.

`ChatTemplate_proofs` proves `ParsesStable`: for every alphabet of pieces, every
generated text, every effort and every way in which JSON may read, what parses with
values that enclose no mark is parsed again, field by field, from the text it is
written as, with arguments as their texts read. The parser leaves no mark in a field
that would end it: reasoning holds no `</think>`, content no `<tool_calls>`, a name no
`<sep>`, a key no `</key>`, and neither holds the mark that ends the call or the
envelope (`FineAnswer`, `FineCall`, `FineArgument`; `ParsedFine`, `CallsRead`,
`ArgumentsRead`). Of values the parser cannot say that, because decoding may bring a
mark about; the premise does (`AllEnclose`). A text between two marks is therefore cut
out as it was put in (`BetweenMarks`), with line ends skipped. Arguments come out of
their texts one per turn, each appended because its key is the greatest so far
(`InsertedLast`), and calls likewise (`ArgumentsReread`, `CallsReread`), where reading
a value once more leaves its key and therefore the order (`ArgumentIs`, `AgainFine`);
the text still to be read after k turns is the concatenation of the texts after the
first k (`RestSteps`). That insertion keeps the order needs `KeyBefore` to be a strict
total order (`BeforeTransitive`, `BeforeTotal`). `ChatAssumption` says that pieces are
told apart, that the markers are among them and that texts are made of them.

Only model-checked: liveness (`WaitersWake`, `CallsReturn`, `EvaluationsEnd`,
`LeaversFreeSlots`, `ReadersAnswered`), because fairness and ENABLED are beyond the
prover; and `ContinuationReuses`, which needs that different reasoning makes
different prompts whatever messages lie between.

## Not modelled

Floating-point kernels, attention arithmetic and quantized layouts: tests compare
them bit for bit with an oracle, and TLC has no floats. Byte-pair encoding and its
vocabulary, request and response conversion of the server, reports and argument
handling, byte layouts of snapshots: data without control. System queries, the
arena and the short-read loop of positioned reads. The reduced test model, which
generates fixtures. Two overlapping prepare runs, which nothing in the code keeps
apart.

## Plan

1. `PositionedRead`: short reads, cancellation and bounds; top-k routing, the
   arena, incremental UTF-8, the conversion of requests.
2. Overlapping prepare runs.
3. `ContinuationReuses` as a theorem.
