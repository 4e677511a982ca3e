# Formal model of apus

apus is a single-user local inference engine for GLM-5.3-Flash: a C engine
(`c/`), Python tools that download and convert the checkpoint, and a gateway
that serves the engine over HTTP (`tools/`). This directory models two kinds of
things. The first are the parts whose correctness depends on the order in which
threads, processes, calls, failures and restarts meet; they are state machines.
The second are the sequential parts whose control is intricate: parser,
tokenizer, template, loader, number formats, loop nests, sampler, the answers
of the serve loop. They are operators that are compared with a reference over
bounded inputs. Floating-point values are in neither: the repository gates them
with bitwise tests. All paths below are relative to the root of the repository.

Contents: [1 Inventory](#1-inventory), [2 Modules](#2-modules),
[3 What is modelled, part by part](#3-what-is-modelled-part-by-part),
[4 Runs](#4-runs), [5 Fairness](#5-fairness), [6 Proofs](#6-proofs),
[7 Where the code and its documentation disagree](#7-where-the-code-and-its-documentation-disagree),
[8 Limits](#8-limits), [9 Plan](#9-plan).

## 1. Inventory

| component | state it keeps | operations | interacts with |
|---|---|---|---|
| expert cache, `c/gcache.h` | LRU slots and working set of each layer, queue of fills, class counters, recycled buffers, clock and generation | `resolve`, `hint`, `hint_demand`, `layer_end`, `rss_guard`, `open`, `close`; workers' `run_job` | called by `gmodel.h` (compute thread) and `gpilot.h` |
| thread pool and scratch arena, `c/pool.h` | dispatch generation, block bounds, pending count; a stack of segments | `apus_pool_run`, worker loop; `scratch_alloc/mark/reset` | every kernel of the forward |
| pilot prefetcher, `c/gpilot.h` | predictions per layer, recall counters | `on_post_attn`, `on_routed` | hooks of `gmodel.h`, hints to the cache |
| forward, `c/gmodel.h` | position, KV and recurrent states of the layers | prefill, decode, the tiered MoE block loop | cache, pilot, pool |
| speculative decoding, `c/gmtp.h` | main position, draft state, held token, snapshots | `prefill`, `step` | forward (batch decode, snapshot, restore) |
| serve loop, `c/apus.c` | one request at a time | `generate`, `encode`, end of input | gateway through pipes |
| gateway, `tools/server.py` | one engine process, one lock, handler threads | request, stream, drain, close | serve loop |
| converter, `tools/convert.py` | state file, shards being written | convert a shard, resolve held tensors, finalize | file system |
| download driver, `tools/download.py` | state file, downloaded shards | download, convert, verify, delete, finalize | converter, network |
| containers and formats, `c/st.h`, `c/json.h`, `c/tok.h`, `c/encoding.h`, `c/sample.h` | files | parse, tokenize, render, sample | forward, serve loop |
| kernels, `c/gdsa.h`, `c/gkda.h`, `c/gmoe.h`, `c/gmhc.h`, `c/fp8blk.h`, `c/bf16.h`, `c/num.h`, `c/x86.h`, `c/backend_gmetal.*` | buffers | numeric | forward |

What is hard, and what makes each part correct:

- **Expert cache.** Fills are prepared outside the mutex and end through a raw
  slot pointer, while the compute thread joins fills it did not submit, boosts
  queued ones, moves and frees slots at `layer_end`, and drops payloads under
  memory pressure. Correct when a fill always owns its slot, a waiter always
  has a wake-up coming, a view keeps the bytes of its expert, a buffer has one
  owner, speculation never evicts what demand used, and to its reader the whole
  machinery is a store of experts.
- **Pool.** `fn` and `ctx` live on the caller's stack and the bounds of the
  lanes are written without the mutex. Correct when a call returns only after
  each row was computed once and no lane is inside `fn`.
- **Speculative decoding.** Drafts run ahead, three kinds of state are rolled
  back in three different ways, and the random numbers are consumed ahead of
  the tokens that are sent. Correct when the client cannot tell it from
  decoding one token at a time.
- **Converter and driver.** Both are killed and restarted; each has a state
  file of its own, and the driver deletes sources on the strength of both.
  Correct when what the states say is on disk is there, nothing is written
  twice, a restart goes on from any point, the output equals that of an
  uninterrupted run, and no source is deleted before it was compared.
- **Forward.** A prefill is cut into batches and chunks of tokens, experts are
  resolved for a chunk by one routing and read by another, batches are rolled
  back, and rows are appended before they are selected. Correct when each row
  is the model's for its tokens, what is read was resolved and is still held,
  and what is held is bounded.
- **Gateway.** Many handler threads, one engine process that may die, clients
  that leave or stop reading. Correct when each reply goes to the request it
  answers, nobody who waits is forgotten, and the engine ends with the gateway.
- **Sequential parts.** Correct when they compute what a short definition says:
  the grammar of JSON, the pattern and the merge rule of the tokenizer, each
  part of a conversation once and in order, a reply that comes back as the model
  saw it, the nearest code of a float, the sums of the scalar kernel, a start
  that has all it will read, a text cut at the earliest stop string.

The list `hazards` of `PROJECT.json` has every such point at its line, with the
properties that watch it.

## 2. Modules

| module | models | used by |
|---|---|---|
| `ExpertStore` | abstract: what the cache promises its reader | `GcacheStore` |
| `Gcache` | `c/gcache.h` | `GcacheStore`, `GcacheProofs`, runs |
| `GcacheStore` | the refinement of `ExpertStore` by `Gcache` | `GcacheProofs`, runs |
| `GcacheProofs` | proofs about `Gcache` and `GcacheStore`: fills and the slots they own; the queue, its wake-ups and its counters; buffers, views, single loads, and the refinement of `ExpertStore` | |
| `Pool` | `c/pool.h`, the dispatch of rows to lanes | `PoolProofs`, runs |
| `PoolProofs` | proofs about `Pool` | |
| `Converter` | `tools/convert.py` | `Download`, `ConverterProofs`, `MCConverter` |
| `ConverterProofs` | proofs about `Converter` on its own | `DownloadProofs` |
| `Transfer` | abstract: what the driver promises | `Download` |
| `Download` | `tools/download.py` on top of `Converter` | `DownloadProofs`, `MCDownload` |
| `DownloadProofs` | proofs about `Download` | |
| `Generation` | abstract: decoding one token at a time (the loop of `c/apus.c` without speculation) | `Speculation` |
| `Speculation` | `c/gmtp.h` and the speculative loop of `c/apus.c` | `SpeculationProofs`, `MCSpeculation` |
| `SpeculationProofs` | proofs about `Speculation`, and that it implements `Generation` | |
| `Forward` | one call of `apus_gm_run` in `c/gmodel.h`, with `c/gdsa.h`, `c/gmoe.h` and the pilot of `c/gpilot.h` | `ForwardProofs`, `MCForward` |
| `ForwardProofs` | proofs about `Forward`: what is resolved, how much is held, and that every row is the model's | |
| `FoldFacts` | what `FoldLeft` computes, one element after the other, for an operator that is a parameter | `ForwardProofs` |
| `Kda` | `c/gkda.h`: the recurrence, and the chunked form of a prefill | `MCAlgorithms` |
| `Replies` | the shapes of a reply: the protocol between gateway and engine | `Gateway`, `Serve` |
| `Gateway` | `tools/server.py`: handlers, lock, pipes, engine process, close | `GatewayProofs`, runs |
| `GatewayProofs` | proofs about `Gateway` | |
| `Serve` | `c/apus.c`: the answer to a line of input; `apus run` beside it | `MCAlgorithms` |
| `Json` | `c/json.h` | `MCAlgorithms` |
| `Tok` | `c/tok.h` | `MCAlgorithms` |
| `Template` | `c/encoding.h`: the prompt of a conversation, and what is refused | `Completion` |
| `Completion` | `tools/server.py`: the reading of a completion and of its calls, the split of a stream, the messages of a request | `MCAlgorithms` |
| `Numeric` | `c/num.h` with its vector forms, `c/sample.h` | `MCAlgorithms` |
| `Kernels` | the loop nests of `c/bf16.h`, `c/fp8blk.h`, `c/x86.h`, `c/gmhc.h` | `MCAlgorithms` |
| `Loader` | opening of a container and start of the engine (`c/gmodel.h`, `c/gcache.h`, `c/apus.c`) | `MCAlgorithms` |
| `MCConverter`, `MCDownload`, `MCSpeculation`, `MCForward` | small checkpoints, requests and layers for TLC | runs |
| `MCAlgorithms` | the bounded inputs of the sequential parts, one kind after the other | run |

Definitions that carry the comment "Regression" are a plausible mistake in the
definition next to them; no specification uses them. They are there to show
that the properties notice the mistake (`mutants` of `PROJECT.json` pairs each
property with one).

## 3. What is modelled, part by part

### 3.1 Expert cache (`Gcache`, `ExpertStore`, `GcacheStore`)

A step is one critical section of `st->mu`, or what a thread does outside it.
The actors are the compute thread, the pilot thread and the I/O workers
(`Workers = {}` is the synchronous mode, where the submitter runs the fill
inline with the mutex released).

| state | in the code |
|---|---|
| `slot` | every `ApusGslot`: LRU slots are `<<layer, index>>`, working-set slots are heap addresses |
| `ws` | `lc->ws`, a sequence of slot pointers for each layer |
| `jobs`, `specQ`, `hotFlight` | the ring of the I/O pool and the counters of its two classes |
| `plFree`, `content` | recycled payload buffers; the bytes behind each payload address |
| `clock`, `gen`, `stopping` | `st->clock`, `st->gen`, `st->stopping` |
| `rpc`, `rjob`, `rbuf` | where each thread that runs fills is, its job, the buffer it fills |
| `cpc`, `creq` | the compute thread inside `resolve`, `layer_end`, `rss_guard`, `close` |
| `views` | the views `resolve` returned and the forward still reads |

| actions | in the code |
|---|---|
| `Hint`, `HintDemand` | `apus_gcache_hint`, `_hint_demand`: new entry, boost, dedupe, admission of speculation |
| `Resolve` (`ResolveHit`, `ResolveJoin`, `Resubmit`, `ResolveMiss`), `WaitReady` | `apus_gcache_resolve`, `apus_gc_wait_ready` |
| `LayerEnd`, `Promote`, `PromoteDone`, `RssGuard` | `apus_gcache_layer_end`, one loop iteration per step with the mutex held, and the guard it ends with |
| `Sleep`, `Pop`, `Retire`, `Exit` | `apus_gc_worker` |
| `GetBuf`, `AllocFail`, `ReadOk`, `ReadFail` | `apus_gc_run_job` |
| `Close`, `Join` | `apus_gcache_close` |
| `Spurious` | a condition wait that returns without a signal |

`content` is written where the bytes are, so a view on a recycled buffer is
seen as a view on the wrong bytes: `RefinesStore` maps the views through
`content` to the answers of `ExpertStore`. Three branches of the code are
unreachable in the model: the hint of an entry that exists but is idle, the
resubmit in `resolve`, and the claim that finds a stale generation.
`JobOwnsSlot`, which is proved, is the reason.

Abstracted: the raw staging buffer of a fill belongs to the fill; an allocation
that fails does so at any fill; memory pressure comes and goes at will
(`RssPressure`). Left out: use counts and hit statistics, which no decision
reads; the layout of records; advice to the kernel about pages.

### 3.2 Thread pool (`Pool`)

State: the caller (`mpc`), its call number (`calls`), the shared fields
(`gen`, `nlane`, `ctx`, `block`, `pending`), each worker's program counter, the
generation it saw, and the `ctx` and block it took; `work` counts for each row
how often it was computed in this call. `Split` writes the bounds of one lane
per step, because the code writes them without the mutex while a worker that
the last call did not use may wake up. `Publish`, `Lane0` and `Await` are the
rest of `apus_pool_run`; `Doze`, `Take`, `Compute`, `Report` are the worker
loop; `RunInline` is the short cut for one lane. Starting of the threads is
part of the first `Publish`.

### 3.3 Converter (`Converter`)

State on disk: `out` (the header and the tensors of every output file, a torn
one included), the state file (`saved`, `sealed`, `open`, `done`, `pending`,
`unverified`, `complete`), and the published `manifest` and `index`. State of
the process: what it was asked for (`job`), the shard it is in, its phase.
Every flush of the state file is a step of its own, after the write it records:
`SealHeader`/`SealSave`, `CreateFile`/`CreateSave`; `AppendTensor` writes and
commits one tensor. `Planned` are the tensors that `plan_contribution` adds for
a shard and `Upcoming` the next of them. `Order` is the order in which it
writes; that the members of a slab follow each other in it is the assumption
`MembersAreAdjacent`: `plan_contribution` sorts the complete slabs first, each
with its members in a fixed order (`tools/convert.py:443-468`). `Load` and `Validate` are the start after a kill: truncating the
open file, taking over a seal that was written and not recorded.
`DeferSlabs`, `ResolveSlab` and `Resolved` are the slabs that span source shards;
`Finalize`, `PublishManifest`, `PublishIndex`, `RecordComplete` the end.
Between two steps the state in memory equals the state file, so only one is
kept. `Start(shards)` is the command line: any `--shard` option on any start.

`Crash` kills the process at any step and leaves any debris of the write that
was under way (`Debris`). Five moments are *fragile*: a kill that hits them
leaves something a later start refuses or handles wrongly (section 7). They are
recorded in the history variable `hit`, and the constant `Windows` says which of
them a run's kills may hit:

| moment | where | consequence |
|---|---|---|
| `first` | between the first output file and the first state file | the next start refuses the directory |
| `seal` | inside the in-place rewrite of a header | every later start refuses the file |
| `resolve` | after a resolved slab left the state, before its shard is recorded | with the driver: the source that is read again may be gone |
| `verify` | after the shard is recorded, before its slab's members are compared | the driver deletes a source that was never compared in full |
| `shard` | in the middle of a slab, and the next start names another shard | the slab is cut in two |

In the runs `converter` and `download` the kills may hit all that concern them,
and a property that one of the moments breaks names it. The run `converter_seal` and
two configurations of section 7 each open one of them for the claim of the
documentation that it refutes.

### 3.4 Download driver (`Download`, `Transfer`)

`Download` extends `Converter` with the driver's state file (`status`), its
landing zone (`src`, which the converter reads) and its program counter. The
steps inside `convert()` are the steps of `Converter`; a kill takes both down.
`Gc` deletes with the driver's status and the converter's pending slabs, two
files that were written at different moments. `Verify` and `Reverify` compare
the members of this shard and of the slabs it resolved; `Mark`, `Done` follow
in the order of the code. A fetch is one step: its `.part` file, ranges and
retries end in one rename. A shard that was already fetched is checked again,
and fetched again when it is short. `forgotten` is a history variable: the
members of resolved slabs that a kill made the driver lose track of.

`Transfer` is the promise without state files, restarts or pending slabs;
`Implements` is the refinement. It holds whenever the driver is killed, and so
promises less than the documentation: `Forget` lets a kill drop comparisons that
are still owed. `DeletedIsWhole` says how few those are: what is deleted is in the
output as a whole, and what was not compared is a member of a slab that a kill
hit in the window `resolve` or `verify`. `PendingIsHeld` is likewise what the code
does of "held until the slab resolves": after a kill in `resolve` a slab may be
pending once more with its earlier shards gone, but then all of it is in the
output. `Ends` excuses the three windows after which the program refuses to
start (`hit \subseteq {"verify"}`).

### 3.5 Speculative decoding (`Speculation`, `Generation`)

The weights are not modelled: a draw is any token, a draft is any token. What
is modelled is what a row was computed *from*. The recurrent layers of the main
model remember every token they took (`main.kda`), the sparse attention layers
keep rows of which the first `n` count (`main.rows`, `main.n`), and the
position is a third counter; `Row` is a row's context when the three agree and
`Torn` when they do not. The draft head keeps rows of pairs (hidden, token).

| actions | in the code |
|---|---|
| `Prefill`, `PrefillFails`, `Warm` | `apus_gspec_prefill`: prompt, first draw, pairs of the prompt, first drafts |
| `Verify`, `StepFails` | snapshot and batch of `apus_gspec_step`, or no room, or an engine failure |
| `Walk` | one turn of the accept walk: one random number, one draw |
| `Fixup`, `FixupFails` | restore of the snapshot and feeding of the accepted tokens after a partial reject |
| `Replay` | the draft head goes back to its clean state, takes the true pairs, drafts again |
| `Send`, `StopString` | the loop of `c/apus.c` over the accepted tokens |

`Learn` is the draft head's part that succeeds, `LearnNot` the one that fails
for want of room or of an expert. `stream` and `context` are the history of all
draws and of the row each came from; `SameAsOneByOne` compares them, and what
was sent, with `Generation`. The pairing is that of the build (lag 1).

### 3.6 Forward (`Forward`)

Here the arithmetic is a constant: one operator for each kernel, of exactly
what the kernel reads (`KdaStep`, `Attend`, `Expert` and so on); a hidden is one
value. `MCForward` gives them arithmetic modulo a prime in which scores tie.
`RefRows` is the model as a definition without a state, and
`RowsAreTheModels` says that a call returns its rows.

| state | in the code |
|---|---|
| `tiered`, `chunk`, `pilotK` | how the model was opened; `APUS_GPILOT_K` |
| `st`, `snap` | `ApusGmodelState`; the snapshot of a batch that may be undone |
| `ids`, `decode`, `pc`, `l`, `t0`, `ret` | the call, its layer and its chunk |
| `h`, `x`, `sub`, `logits` | streams, inputs and outputs of a site, rows returned |
| `marked`, `views`, `live` | experts of the chunk, their views, what the cache holds of each layer |
| `tset`, `hints` | the last prediction of the pilot; the entries of `live` that come from a hint |

A hint that the cache admits is an entry of the next layer's working set
(`c/gcache.h:702-711`), so `Pilot` adds any part of the predicted experts to
`live` of that layer; they leave it with the `layer_end` of its first chunk,
except those whose loads are still under way (`Backlog`). The two variables
`APUS_GPILOT_K` and `APUS_GPILOT_PREFILL_K` have the same default and the same
clamps; `pilotK` stands for both. `Resolve` reads the first expert that is
missing and may fail, which leaves the others of the chunk where they are.

`LiveUnionBounded` bounds both parts of `live`: what was resolved, by the chunk,
and what was hinted, by what one call can hint. `ChunkBoundsLive`, the bound
that `c/gmodel.h:1549-1550` states, has no part for the hints and does not hold
(section 7).

`Begin` is the entry of `apus_gm_run`, refusals included; `AttentionSite` the
attention of a layer and the hook of the pilot behind it; `ResidentMlp` a
feed-forward that needs no cache; `RouteChunk`, `Resolve` and `ForwardChunk` the
block loop of a tiered one, with an expert that may be missing and the
`layer_end` of each chunk; `Finish` the head; `Rollback` the undo of a batch;
`NextRequest` a request after one that failed. A prefill appends its rows to the sparse attention
before the first of its tokens selects; `Select` masks the pools a token has
not passed. The routing is done twice, in the pre-pass that resolves
(`ChunkUnion`) and in the forward, and `ViewsResolved` relates the two.

### 3.7 Linear attention (`Kda`)

The state of one head is the matrix `S` and the window of the convolution. A
step feeds a few tokens, by the recurrence (decode) or by the chunked form with
its triangular solve (prefill). The field of the integers modulo `P` stands for
the floats, so that the two can be compared for equality; what acts on a row
before either form sees it (silu, norms, scale) is left out.

### 3.8 Gateway (`Gateway`, `Replies`)

| state | in the code |
|---|---|
| `pc`, `kind`, `rid`, `got`, `outcome` | each handler thread: where it is in `request`, what was asked, its id, the events it took, what its client was told |
| `gone`, `stalled` | its client left, or does not read what it is sent |
| `lock`, `nextId` | `ApusEngine.lock`, `next_id` |
| `stdin`, `open`, `stdout` | the two pipes, `stdout` of at most `Cap` lines, and the gateway's end of the first |
| `engine` | the process: starting, idle, busy with what is left of a reply, exited |
| `main` | the main thread: serving, in `close`, over |

`Acquire`, `Write`, `Read`, `ReadEnd`, `Release`, `Drain`, `DrainEnd` are
`request` and the loop of the handler that uses it; `GiveUp` is a stream whose
first chunk fails. The engine answers a line with any reply of `Shapes`, may
fail to start, crash at any point and leave half a line (`Partial`). `Close`,
`Waited`, `Kill` and `Exit` are the end, with a timeout that may come at any
point. `Serve` is checked to answer in the shapes of `Replies`
(`AnswersAgree`), and the gateway assumes no more than that.

### 3.9 Sequential parts (`MCAlgorithms`)

Each behaviour of `AlgorithmsSpec` picks one area and builds one input of it.
Each property compares what the code does with a definition that is not the
code's way of doing it:

| property | code | compared with |
|---|---|---|
| `ChunksAreTheRecurrence` | prefill and decode of `Kda`, call by call | the recurrence over all inputs |
| `JsonAgrees` | parser, `p_number`, writer, `json_py_float_repr`, duplicates | `Grammar`, the spellings of a string, the grammar of a number, Python's `dict` and `repr` |
| `TokenizerAgrees` | the splitter, the sweep over merges, added tokens, decode | the pattern as alternatives (`Regex`), one merge at a time (`OneByOne`) |
| `PromptsAgree` | `glm_encode_messages`; `parse_completion`, `normalize_tool_call_arguments`, `ThinkSplitter` | each part once and in order, or a refusal; a reply sent back renders to what the model saw; a stream sends what the whole text would |
| `NumbersAgree` | E4M3 and BF16 in scalar and vector form, top-p; rows, columns, groups, lanes of each kernel | the nearest code, ties to even; the nucleus and its weights; the sums of the scalar loop, each cell once |
| `StartAgrees` | `open2`, `gcache_open`, `serve_main` | what a forward reads of each layer; a fair share of the budget |
| `AnswersAgree` | the answer to a line, both loops, `apus run` | shapes of `Replies`; the drawn text cut at its end, its limit or a stop string |

**JSON** (`Json`). Texts are checked on two levels. In a document a number is one
symbol and its blanks are free; the parser takes the texts of the grammar and no
others. A number is a text of its own, over digits, signs, points and exponents:
every number of JSON is taken as the number it denotes, and what `p_number`
takes beyond JSON is named (`NumberRead`): a row of digits may be missing (`-`,
`1.`, `1e` are read, as the number with 0 there) and zeros may lead (`01`).
Integers are written as they were read and other numbers so that they read as the
same double, except that one too large is written as `Infinity`, which is no
JSON. The layout of a double is Python's (`Repr`), with the branches for NaN,
infinities and zeros. A key ends at its first NUL (`Cut`).

**Prompts** (`Template`). Text is a sequence of symbols; contents are missing,
null, a text, a number, an object, or a list of texts, media, outputs of tools
and references to tools; a call has its object or lacks it, has a name or not,
and its arguments are an object, a string or missing. `EncodeFails` is every exit
of `encoding.h` that refuses, those of `sb_tool_calls` included; what is not
refused shows each part once and in order, answers sorted into the order of
their calls when they can be, with old reasoning kept or dropped
(`EachShowsOnce`).

**Replies** (`Completion`). `ReplyIsHistory` takes a completion through
`parse_completion`, the message of the reply, the client that sends it back,
`normalize_tool_call_arguments` and the template, and compares the new prompt with
the old one followed by the completion, blanks aside. The round trip is not the
identity, and the property says what of it changes: thoughts that did not end are
ended; calls without content follow the word `None`; a value of an argument that
is a JSON string loses its quotes (`"s"` returns as `s`) and one that is another
document is written anew (`1e2` returns as `100.0`), `Retyped`; a completion whose
calls do not parse comes back to the letter; of calls that parse though the template
would not write them so (`Tidy` is false), what the parser passes over is lost,
and nothing is added or moved. Two kinds of replies are left out (`Returns`):
one with an argument `NaN`, whose return is refused, and one without reasoning
whose content has a `</think>`, which is taken for the end of its thoughts.
`StreamedAsParsed` compares `ThinkSplitter` with the parse of the whole for every
way of cutting a completion into pieces.

**Starting** (`Loader`). A container lacks at most one thing, or has it in the
wrong shape (`odd`), or has a slab's record with a block or a shard missing
(`broken`). The draft layer counts as present when its `eh_proj` is
(`c/gmodel.h:668-670`), so a container without another part of it is refused at
the start (`Bound`, `apus_gmtp_bind`), and a broken record is refused before the
draft layer's records are left out (`c/gcache.h:907-913`).

## 4. Runs

Twelve runs; the numbers are distinct states. Seven more configurations, each of
which shows one disagreement with the documentation, are listed in section 7.

| run | bounds | states | question |
|---|---|---|---|
| `gcache_pool` | 1 layer, 2 experts, 1 LRU slot, 2 heap slots, 2 workers, recycling list of 1, memory pressure, 1 read and 1 allocation failure, 2 resolves, 1 `layer_end` | 584,786 | safety of the cache with the I/O pool; it implements `ExpertStore` |
| `gcache_sync` | 2 layers, 1 expert, no worker | 9,045 | inline fills of pilot and compute thread beside each other; views survive the guard; resolves return |
| `gcache_live` | 1 expert, 2 LRU slots, 3 heap slots, 2 workers, memory pressure, 1 read and 1 allocation failure, spurious wake-ups, 2 `layer_end` | 846,587 | every resolve returns, every close ends; no expert is loaded beside its own live copy, but for one case |
| `pool` | 4 lanes, 0 to 5 rows, 3 calls, spurious wake-ups | 24,606 | the dispatch is exact and every call returns |
| `converter` | 2 shards, 2 slabs of 2 in two streams, 1 dense tensor, every layout, 2 tensors per file, 2 kills | 252,728 | restarts, and equality with an uninterrupted run |
| `converter_seal` | the same, 1 kill | violation | section 7 |
| `download` | 3 shards, every layout that leaves none empty, 2 kills at any moments | 331,236 | implements `Transfer`, what is deleted, peak disk, ends |
| `speculation` | 3 tokens, prompts of 1 and 2, 1 or 3 drafts, 4 tokens asked for, 1 fault | 2,286,980 | the text is that of one-by-one decoding; rollback; true pairs |
| `speculation_error` | the same, 2 tokens asked for | violation | section 7 |
| `forward` | 3 layers (linear and dense, two sparse ones), 2 tokens, 5 rows, batches of 3, chunks of 2, 2 of 5 experts, pools of 2 rows of which 1 is chosen, 1 missing expert; a pilot of 0, 1 or 6 experts, 3 hints of a layer at a time, 1 late load | 1,377,276 | the rows are the model's; what is read was resolved; what is held is bounded |
| `gateway` | 2 handlers, 3 requests, replies of one token, a pipe of one line | 483,339 | replies reach their request; nobody waits for ever; the engine ends |
| `algorithms` | see below | 398,895 | the sequential parts agree with their references |

`DiskIsSound`, and each property of `MCAlgorithms`, are conjunctions of named
parts; a part can be checked alone by naming it in the configuration.
The type invariants of `Gcache`, `Pool`, `Gateway` and `Speculation` are proved
(section 6); for `Converter`, `Download` and `Forward` the shapes of the
variables are the first part of the inductive invariants that are.

Why the bounds are enough for the interesting cases:

- two experts for one LRU slot make every promotion an eviction; two workers
  and one queue place for speculation fill the queue, and let a boosted job
  overtake; a recycling list of one is full after one drop; two generations of
  a slot need two resolves. Five buffers are more than can be owned at once
  with two heap slots, so a buffer is only short when `AllocFail` says so. Two LRU
  slots and two ends of the layer (`gcache_live`) let the guard empty the first,
  the expert come back in the second, and be asked for again.
- Four lanes and at most five rows give a remainder, fewer rows than lanes, one
  row and none; three calls let a worker sleep through one call and wake in
  the bounds of the next.
- Two tensors per file and slabs of two make a file full exactly, too full for
  a slab, and full in the middle of a restarted slab; two kills allow one in
  the recovery from the other, and let a kill in a window meet one behind it; three shards let a slab wait over a shard that
  it has no part in.
- Three drafts give an empty, a partial and a full acceptance; four tokens need
  several steps, whose rollbacks meet; the vocabulary holds the token of a
  dead draft, the end of a text and one other.
- Two sparse layers let a prediction made in one be hinted for the next; pools
  of two and five rows give a full pool, an open one and one that a token has
  not passed; batches of three in chunks of two give a last chunk that is short. Five
  experts are more than a chunk of two tokens takes, so that the hints for a
  prefill of three can be more than the chunk's share. Hints do not change a
  row, so all texts are tried without a pilot, texts that differ in one token with
  a pilot of one expert, and texts of one token that fit in one call with a pilot
  that is asked for more experts than there are (`FewTexts` in `MCForward`).
- Two handlers and three requests let one drain while the other waits and a
  third comes after; a pipe of one line blocks the engine at each event.
- The inputs of `algorithms`: JSON texts of 7 symbols and depth 2, strings of 3
  units, numbers of 6 symbols, floats of 1 to 4 and of 17 digits at exponents -6 to
  19 and at both ends of the range, with zeros, infinities and NaN; texts of 5
  characters of 9 classes, or of a quote, letters of the contractions and a blank,
  3 merges over 5 words; conversations of 4 turns about the order of answers, and
  of 3 turns with every kind of content and every faulty call, each with 5 sets of
  tools and with old reasoning kept and dropped; completions of 5 symbols, and of 4
  pieces behind the start of a call; streams of 6 characters and cuts; all FP32 patterns of 5 mantissa bits against the
  real E4M3, draws from 1 to 4 and from 6 weights; up to 5 activation rows by 14
  weight rows, 5 columns and 3 lanes, blocks of 2 and groups of 3; containers of
  a dense, a sparse and a draft layer with one thing missing, of the wrong size or
  with a broken record; streams of 4 drawn tokens, 4 ways in which they come in bursts, 6 lists
  of stop strings, and a failure at each call; linear attention in calls of up
  to 4 tokens in total, chunks of 3, a window of 3.

TLC checks for deadlock in the runs of the cache and of speculation, where the
only rest is the explicit `Closed` or `Terminated`. It does not
where the program really may stop: the workers of the pool sleep for ever when
the caller calls no more, and the converter and the driver end.

## 5. Fairness

- `Gcache`: weak fairness of each worker, of each thread that runs a fill and
  of the compute thread inside a call. The scheduler runs a runnable thread and
  grants a free mutex. Nothing makes a client call.
- `Pool`: weak fairness of the caller inside a call and of each worker.
- `Converter`, `Download`: the process runs while it can, and is started again
  after a kill, of which there are finitely many.
- `Gateway`: weak fairness of each handler thread, of the engine process and of
  the main thread once it closes. No client is fair: it may leave, stop reading
  or never come. `NobodyWaitsForever` has the premise that no client stops
  reading for good, because the server sets no timeout on its sockets and a
  handler that cannot send keeps the lock. The lock is taken fairly only in that
  requests are finitely many (`MaxIds`).
- `Speculation`, `Forward` and `MCAlgorithms` state safety only.

## 6. Proofs

A theorem holds for every value of the constants under the assumptions that its
module names (`ConstAssumption`, `WorkersFinite` and so on, which TLC evaluates
in the runs) and under the hypotheses that the theorem states. Each inductive
invariant was an invariant of a TLC run before it was proved.

| property of a run | theorem | hypothesis |
|---|---|---|
| `JobOwnsSlot`, and the types | `JobsOwnTheirSlots`, `TypeCorrect` (`GcacheProofs`) | |
| `BufferOwnedOnce`, `SpecNeverEvicts` | `BuffersOwned`, `SpeculationNeverEvicts` | |
| `ViewsStable` | `ViewsHold` | `OneLayer` |
| `RefinesStore` | `CacheIsAStore` | `OneLayer`, a read or an allocation may fail |
| `NoDuplicateLoad` | `NothingIsLoadedTwice` | |
| `WaitIsServed`, `WorkersAwake`, `ClassAccounting` | `WaitsAreServed`, `WorkersStayAwake`, `CountersAreExact` | |
| `ReturnsDone`, `LanesApart` | `RunIsComplete`, `LanesNeverCollide` (`PoolProofs`) | |
| `DiskIsSound`, `SameAsUninterrupted` | `DiskStaysSound`, `OutputIsTheSame` (`ConverterProofs`) | |
| `HoldsNoMore` | `DiskIsBounded` (`DownloadProofs`) | |
| `PendingIsHeld` | `PendingStaysHeld` | |
| `DeletedIsWhole`, `Implements` | `DeletionsAreWhole`, `DownloadIsATransfer` | |
| `RollbackExact`, `TruePairs`, `WholeText` | `RollbacksAreExact`, `PairsAreTrue`, `TextIsWhole` (`SpeculationProofs`) | |
| `SameAsOneByOne` | `SpeculationIsOneByOne` | |
| `ViewsResolved`, `LiveUnionBounded` | `ViewsAreResolved`, `LiveUnionIsBounded` (`ForwardProofs`) | `Scores`: a score of the router is a number |
| `RowsAreTheModels` | `RowsAreRight` | `Scores`; `PoolScores`: a score of a pool is a number, and none is below `Unseen` |
| `OwnReply` | `OwnReplyHolds` (`GatewayProofs`) | |

**Fills of the cache** (`GcacheProofs`). `Inductive` is `Spec => []IInv`.
`JobOwnsSlot` says that every fill, queued or running,
points at its own LOADING working-set entry with its expert and generation, so
the end of a fill never writes through a freed pointer. It is not inductive: a
`layer_end` frees the slots that are not LOADING, so one must know that a slot
with a payload is READY (`PayloadIffReady`); a fill in progress must have a job
and a buffer (`RunnersHold`); promotion and removal need that working sets
share no entry (`WsDistinct`); a waiting resolve resubmits its slot, which must
still be in the working set (`RequestValid`); and `close` may join only when no
call is under way (`CloseQuiet`). There is one lemma per action (`...Keeps`),
on top of facts about `Append`, `RemoveAt` and the choice of a victim.

**Buffers, views and the store** (`GcacheProofs`). `BufferOwnedOnce` is
inductive with `IInv`, and with it that the bytes behind a READY slot are those
of its expert (`BytesRight`): a fill writes into a buffer that nobody else
has, so it changes no resident. A view is then kept by a slot that backs it
(`ViewsBacked`). The guard of another layer could take that slot, which is what
`OneLayer` excludes: the forward ends a layer before it resolves in the next.
`CacheIsAStore` maps each step to an answer, a failure or a release of the
store, or to a stutter. Its second hypothesis is there because the store of a
cache without faults may not fail, and with arbitrary constants the cache may
run out of `Heap` or `Bufs`, which stand for an allocation that fails.
`NoDuplicateLoad` is about steps: no step gives an expert two working-set entries,
and a step that makes a second copy of an expert begins with the first one hidden
behind a slot that the guard emptied (`Hidden`). `NothingIsLoadedTwice` rests on
`OneEntry`: an entry is added only behind a lookup that found nothing, a lookup
searches the whole working set, but stops at the first LRU slot that names the
expert.

**The queue** (`GcacheProofs`, second part). `QueueInv` adds to `IInv` that nothing is
queued in synchronous mode and, as `StopInv`, when the workers may be gone. A
worker that takes a job decides on the class that the job has *then*, while the
counter was raised for the class it had when it was queued; the proof counts
positions of the queue, and the set of jobs in flight, through each boost and
each hot-first pop. That the workers are finitely many (`WorkersFinite`)
is needed only to count.

**The pool** (`PoolProofs`). `PoolInductive` is `Spec => []PoolInv`. The
invariant says that the
blocks written so far tile `[0, Pos)` with `Pos` the closed form of the
balanced partition (`Tiled`), that a lane inside `fn` has the current call and
its own block (`Insiders`, `Current`), and that a row is computed exactly when
its lane has run (`Worked`). `RunIsComplete` covers every number of lanes and
rows; the arithmetic of the partition is in `SplitKeeps`.

**The driver** (`DownloadProofs`). `DiskInv` says where driver and
converter may be, which shard both work on, and that at most one unrecorded
shard is on the disk; it holds with kills at any moment, and bounds the peak.
`HeldInv` adds that a slab of which a part is converted, and a part not, is
pending, or all of it is in the output: it was resolved for the shard at hand, or
for one that a kill left unrecorded (`Deferred`). `MoveInv` adds where each tensor
waits that was not compared yet (`Compares`): for its slab, or owed with its
source on the disk, or forgotten by a kill; and then every step of driver,
converter and restart is a step of `Transfer` or a stutter. `Lost` adds that only
members of slabs are forgotten, and only by a kill in one of the two windows,
which makes `DeletionsAreWhole`. All of it is for kills at any moment.

**The converter on its own** (`ConverterProofs`), with kills in
every window and any choice of shards. `StoreInv`: what the state file records
is on the disk at every step, and what is behind it is exact once the stream
was validated; in between, the header or the new file is ahead of the state by
one step (`Made`, `HeaderNow`). `OnceInv`: no name is in a stream twice, since
what is planned leaves out what is recorded. `WholeInv`: no slab straddles two
files. This is the hard one, as a slab's tensors are appended one by one and a
kill may come between them. The invariant is that the shards are done in their
order and each in the write order (`Ordered`), that a slab that is not pending
is whole or untouched (`Settled`), and how far the process is with its shard
(`Reached`). From these and `MembersAreAdjacent`, the slab that a kill cut is
the next thing that is appended to its stream (`Resumed`), and the room for all
of it was found when its first member was placed. `ManifestOK` follows, and
with it that a restart is not refused (`RestartsCleanly`).

**The converter's output** (`ConverterProofs`, last part). `OutputIsTheSame` is
the promise of `convert.py` that a run that was killed and resumed writes what a
run that nothing stops would have written. Unless a part of the shards was asked
for (`hit` has "shard"), and whatever kills there were, a finished conversion
leaves the files of `Uninterrupted`, each with its final header, and a manifest
and an index that list them. `Uninterrupted` says what that run writes without a
state machine: the tensors of a stream in the order `Before` (shard by shard,
what a shard has of itself ahead of the slabs that it completes, each in the
write order), packed into files one after the other. `OutputInv` says how far
the disk is on the way there, at every step:

- `InSequence`: all that is written comes before all that is not. The shards
  that are done are the first ones (`Initial`) and left nothing of their own
  behind (`Dense`), so the tensor that is appended is the one of those that are
  missing that comes first (`Frontier`, `UpcomingComes`).
- `Packed`: what `Pack` makes of the names written so far is the sealed files and
  the open one. The check of the room in `ensure_file` is made once per run of a
  slab, and never again after a kill in the middle of one; `WholeInv` is what
  says that the two agree.
- `Filled`: a file is sealed, or has the final header, only when what comes next
  does not fit in it, or nothing comes; and an empty file was begun because
  something does. So a kill around a seal or a new file is made up for by the
  same seal and the same file.
- `NoMore`: there is no file behind the open one; and `Finished`: what is
  published at the end is what was sealed.

At the end nothing is missing, so the names of a stream are all its tensors in
the order `Before`, which is total: there is only one such sequence
(`InOrderIs`), and `Packed` is the claim. `FoldLeft` is the value of a function
on sets of places, which `FoldingExists` and `FoldingAgrees` construct; from
there one more tensor is one more `Pack` (`PackAppend`).

**Speculation** (`SpeculationProofs`). `SInv` says for each phase of a step what
the models were fed. Between steps the main model has taken the text but its
held token (`Settled`); in a step it runs ahead by the batch, the snapshot is of
the text before it, and row `j` of the batch stands for that text with the
first `j` tokens (`RunsAhead`, `InStep`); the draft head has taken the true
pairs of one or the other (`HeadPhases`). Each step is then the draw of one
token from its own row, or no step, of `Generation`.

**The forward** (`ForwardProofs`). The router's choice is an iterated argmax;
the lemmas about it show that `k` passes find the `k` best under "higher, or
equal and earlier", hence that the pre-pass over a chunk and the forward of its
tokens choose the same experts. `Holding` bounds what the cache keeps on demand: the chunk
under way, and one chunk more for each call that failed in the middle. Hints are
counted apart: a layer has those of the calls since its last `layer_end`, of which
all but one failed, at most `PilotDepth` for each token, and the loads that were
late at that `layer_end`; and what is hinted is an expert of a sparse layer, since a
prediction always writes as many entries as are hinted.

`RowsAreTheModels` compares the calls with the model as a function of the whole
text. Its inductive invariant, `ModelInv`, has five parts. `Resting`: between two calls
every layer of the state has taken the text (`Took`: a recurrence that summed
up the layer's inputs, or the layer's rows, with maybe those of a longer text
behind them), and the last rows returned are those of the last layer.
`Taking` and `Streaming`: in a call the layers that are behind it have taken its
tokens too, and the streams are the model's for the layer the call is in, up to
the chunk. `Keeping`: what was kept for a rollback, with the rows that are there
now, is a state that has taken the shorter text. Three arguments carry it.
`DsaForwardIs`: a prefill appends all its rows before its first token selects;
a pool that the token has not passed has the score `Unseen`, loses to each pool
that it has passed, and is masked if it is chosen all the same; so the token
attends to the pools that the model gives it (`PoolsLookBack`, `SelectIs`).
`AttendsOn`: two calls one after the other leave and return what one call of
both does, which is why a text may be cut anywhere (`DsaDecodeIs`,
`KdaForwardIs`). `Causal`: the rows of a text do not depend on what follows, so
they stay right when a text grows, and when it is cut back. `PoolScores` is what
the scores of the code are: finite floats, and `-FLT_MAX` for a pool out of sight
(`c/gdsa.h:404-409`).

**The gateway** (`GatewayProofs`). `GatewayInv` says what is in the two pipes
and in the engine for the handler that has the lock: nothing yet, its request,
or a reply of which a first part was taken, a second is in the pipe and the
rest is what the engine has to say (`Exchange`); and nothing at all when no one
has the lock and the engine lives (`Clean`). `Drain` keeps it: a handler whose
client left gives the lock back behind the last event of its reply, or when the
engine is gone.

Induction over the naturals is done on sets, through the fact that a set of
naturals has a least element; this is how the greedy argmax, `FlattenSeq`,
`FoldLeft` and the sizes of sets are handled. `FoldFacts` proves what a fold and
a counted loop compute for an operator that is a parameter of the module; its
instances (`LayerFold`, `KdaFold` and others of `ForwardProofs`) give it the step of a loop.
The library's induction theorems, which take an operator, are out of the provers'
reach, and so is what a `RECURSIVE` operator computes.

Only model-checked:

- liveness (`ResolveReturns`, `CloseReturns`, `RunReturns`, `Completes`, `Ends`,
  `NobodyWaitsForever`, `EngineEnds`);
- the sequential parts (`MCAlgorithms`, `Kda`), which are recursive
  definitions compared with each other on bounded inputs.

## 7. Where the code and its documentation disagree

With a run that shows it:

- `converter_seal`: the header is rewritten in place (`tools/convert.py:615`);
  a kill inside leaves a file that every later start refuses, against
  `tools/convert.py:85-86` and `514-515`.
- `speculation_error`: an engine failure in a speculative step is reported as a
  text that reached its limit (`c/apus.c:708`); the loop without speculation
  reports an error (`750-752`), and `685-687` says that the two are the same.

With a configuration of TLC that is not among the runs (property in parentheses):

- `GcacheHidden.cfg` with `Gcache` (`Dedupes`): a slot whose payload the guard
  dropped keeps its expert and hides a live copy behind it, as `lookup` stops at
  the first match (`c/gcache.h:567-568`), and the expert is loaded a second time,
  against "dedupes against slots" (`c/gcache.h:178-179`). It costs a load and a
  slot, not correctness; `NoDuplicateLoad` says that it is the only case.
- `GcacheReadFault.cfg` with `Gcache` (`SpecFaultIsRetried`): a resolve that joined
  a speculative fill fails when that fill's read fails, without trying a load of its
  own (`c/gcache.h:447`, `530`); the header says that correctness never depends on a
  speculative load (`c/gcache.h:55-57`) and that the waiter resubmits (`442-443`).
- `DownloadResolve.cfg` with `MCDownload` (`Restartable`): two flushes, one for the
  resolved slab and one for the done shard (`tools/convert.py:1005-1006`,
  `834-836`); after a kill in between the driver's gc deletes a source that the
  repeated conversion needs, and every later start fails, against
  `tools/download.py:18`. All the data is in the output (`PendingIsHeld`).
- `DownloadVerify.cfg` with `MCDownload` (`DeletedIsVerified`): after a kill before
  the comparison, the gc at the next start deletes the earlier shards of a resolved
  slab, and its members are never compared, against `tools/download.py:29-33` and
  `356-358`. `DeletedIsWhole` says that it is the only case.
- `ForwardHints.cfg` with `MCForward` (`ChunkBoundsLive`): the pilot predicts for all
  tokens of a prefill (`c/gpilot.h:229-244`), and the hints that are admitted hold
  payloads until the first `layer_end` of the next layer, beside the chunk's, against
  "the chunk bounds the live union" (`c/gmodel.h:1549-1550`).
- `ReplyRefused.cfg` with `MCAlgorithms` (`OwnRepliesAreTaken`): `json.loads` takes
  `NaN` for a number and `json.dumps` writes it (`tools/server.py:97`, `249`); the
  engine's parser refuses the line, so a reply with such an argument cannot be sent
  back, against `tests/m7a/README.md:144-145`.
- `ReplyMarkup.cfg` with `MCAlgorithms` (`MalformedMarkupIsContent`): what the
  pattern of the arguments does not match is passed over (`tools/server.py:93`), so a
  call with a missing marker is a call without that argument, against
  `tools/server.py:69-70` and `78-80`.

Seen while modelling, without a run of their own:

- A configuration of `Converter` with `Windows = {"first"}` breaks `RestartsCleanly` when `Forgiven`
  does not excuse it; `Windows = {"shard"}` breaks `SlabsWhole` when the
  property does not excuse it. Both follow from the table in 3.3.
- The views of a layer are only safe until the guard of *another* layer's
  `layer_end` runs: with `OneLayer = FALSE` `ViewsStable` fails. The forward
  never does this; the comment at `c/gcache.h:173` does not rule it out.
- After a replay of the draft head that failed, its clean snapshot and the
  carried hidden stay behind the accepted tokens, and later pairs are no longer
  true ones, against `c/gmtp.h:56-57`. Drafts get worse, the text does not
  change: `TruePairs` excuses it with `stale`, `SameAsOneByOne` does not need to.
- An in-place growth of the scratch arena that fails leaves a segment of
  capacity 0 (`c/pool.h:237`), on which the loop at line 234 never ends. Nothing
  outside its test uses the arena.
- Streamed tokens are sent before a stop string that spans tokens is complete,
  so a stream may show the beginning of a stop string that the final text does
  not have; a character split over tokens becomes a replacement character in
  the stream (`tools/server.py:232`).
- A failure of the decode step *after* the last token of a text turns a complete
  text into an error: the loop without speculation runs one step more than it
  uses (`c/apus.c:734-756`), the one with speculation does not.
- A tiered start accepts a container without the slab of an expert and fails at
  the request that needs it; an eager start refuses (`c/gmodel.h:1005`). A
  manifest with fewer layers than the configuration drops the draft layer's
  slabs without a word.
- A reply that only calls tools has `null` content, which a template renders as
  the word `None` when a client sends it back (`tools/server.py:478`); a value that
  is a JSON string loses its quotes on the way, and one that is a number may be
  spelled otherwise; a `</think>` in the content of a reply without reasoning is
  taken for the end of the reasoning. `Retold` and `Returns` in `Completion` name
  these cases.
- `c/json.h`: `-`, `1.`, `1e` and `01` are numbers, and one beyond the range of a
  double is written as `Infinity`, which is no JSON; keys with a NUL are cut there; the writer writes duplicate keys
  that a clone drops; `json_obj_del`, which nothing calls, removes the last of
  duplicates only. A stop string is searched up to the first NUL.
- Narrowing a NaN whose payload is in the low half only gives an infinity.

## 8. Limits

- Fills that failed leave empty entries (no expert, no payload) in the working
  set; the code does the same until `close`.
- A `calloc` that fails in `ws_add` is a full `Heap`.
- In `Converter` a tensor is one unit of data, and the order of the tensors is
  that of the input. Refusals before anything is written (names, NaN, hash of the
  configuration) are left out, and so is stripping of the vision tower.
- In `Download` a fetch either ends or is killed; retries and checks of the
  remote size have no state that survives.
- In `Speculation` the bound of 64 output tokens per step is the assumption
  `Depths \subseteq 1 .. 63`, as the command line clamps it; the hook of the
  tests that overrides drafts, statistics, the text of stop strings and a
  request of zero tokens are left out.
- In `Gateway` the HTTP of a request, its schema checks and the routes that do
  not use the engine are left out; replies have at most `MaxTok` tokens.
- In `Forward` the cache is the set of what it holds (`live`); the machinery
  that makes it so is `Gcache`. The feed-forward of a chunk is one step.
- In `Json`, `Tok`, `Template` and `Completion` a text is a sequence of symbols that
  the code tells apart, not of bytes; UTF-8 and the generated Unicode tables are left
  out. The values of a call's arguments are a word, two strings in quotes and three
  JSON documents (a number, an object, `NaN`); `json.loads` and `json_dumps` are what
  they make of these. The cut of a completion at an end-of-text token, and a request
  whose calls are not a list, are left out.
- In `Numeric` the wide format is scaled down and the narrow one real; the
  sampler has integer weights. In `Kernels` a sum is the sequence of its terms,
  since all kernels round alike. Neither says anything about a float's value.
- In `Loader` a part is the set of tensors that one branch asks for together.
- Not modelled: wrappers of system calls (`c/compat.h`), the Metal backend (built
  on macOS only, from the same loop nests), the Unicode tables (generated), the
  terminal client (one request at a time of the serve loop), `c/st.h` byte by
  byte (a header and a mapping), and the developers' references and
  measurements. Each is in `components` of `PROJECT.json` with its reason.

## 9. Plan

Done, in this order: `Gcache` and its proofs, `Pool` and its proofs,
`Converter`, `Download`, `Speculation`, `Forward`, `Kda` and the sequential parts,
`Gateway`; then the proofs about `Gateway`, the rest of the cache with the
refinement of `ExpertStore`, `Speculation` with the refinement of `Generation`,
`Download` with the refinement of `Transfer`, `Forward`, and `Converter`.

1. **`Gateway`**: the order in which `close` ends the engine and the handlers, as
   an invariant beside the liveness property.
2. **`Completion`**: requests whose calls are not a list, which the gateway leaves to
   the engine to refuse.
