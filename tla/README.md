# A TLA+ verification of DLR

DLR keeps a conversation on a receiver and sends it only what changed. A
terminal's shim posts the new blocks of a turn as an APPEND on top of the last
root the receiver ACKed; when the two sides disagree it sends a RESYNC with the
whole manifest and then BULK frames with the content that is missing, coded
with a fountain code. A sidecar exposes the receiver over HTTP, makes it
durable with a write-ahead log (WAL), and turns a session's log into the request
for the model.

This directory holds TLA+ models of that system translated from the code in
`src/crates/`, the TLC configurations that check them on small instances, and
proofs, checked by TLAPS, of theorems for every instance. `PROJECT.json` maps each
definition to the source lines it models and lists runs, mutants, findings,
hazards and theorems.

## The system and what can go wrong in it

| Part | State | Operations | Meets |
|---|---|---|---|
| content store (`core/src/store.rs`, `merkle.rs`) | block map, session logs with rolling roots | insert, reference, seed, store content | receiver, WAL, pruning |
| WAL (`core/src/wal.rs`) | buffered file, latched error | append, flush, sync, replay | store, sidecar |
| receiver (`receiver/src/lib.rs`) | pending sets, decoders, per-session mutation locks, one sessions lock | handle_append, handle_resync, handle_bulk, recovery | store, sidecar |
| shim and chat client (`shim/src/lib.rs`, `sidecar/src/lib.rs`) | ids, base root, pending append | prepare, send_chat, synchronize, apply_ack | sidecar over HTTP |
| sidecar (`sidecar/src/lib.rs`) | projection cache | frame and chat endpoints, readiness, shutdown | client, receiver, model |
| shim registry (`shim/src/lib.rs`) | sessions of a host, shared store and filter | ingest, ack, bulk_frames_for | receiver |
| fountain decoder (`coding/src/fountain.rs`, `bulk.rs`) | symbols, generations | add, decode, pack, split | receiver |
| frame codec (`core/src/frame.rs`, `canonical.rs`) | none | encode, decode | everything on the wire |
| compressor (`compress/src/*.rs`) | zstd contexts of each thread | compress, decompress | shim, receiver |
| cuckoo filter (`core/src/filter.rs`) | table, mask, count, saturated | insert, contains, grow, clear | shim |
| pruning (`prune/src/*.rs`) | score-ordered window, job queues | insert, ingest, window, schedule, run | store |
| credit flow (`transport/src/flow.rs`) | two atomics | take, grant, reaim | transports |
| pipeline (`transport/src/pipeline.rs`) | threads and bounded channels | run | transports |
| loopback and multipath (`transport/src/loopback.rs`, `multipath.rs`) | bounded channels, round-robin counters | open, accept, send, recv | pipeline |
| bandwidth model (`transport/src/bbr.rs`) | estimates, phase, pacing | on_sample | credit flow |
| codes (`coding/src/gf256.rs`, `rs.rs`, `rlnc.rs`, `hierarchical.rs`) | received packets, reduced rows | encode, code, add, decode | |
| structures (`core/src/mmr.rs`, `coding/src/placement.rs`, `zeckendorf.rs`) | arena and peaks, ring, bit stream | append, prove, add, remove, route, push, decode | |

The behaviours that are hard to test: handlers of several threads interleave
between any two accesses to shared state; the process crashes between a change in
memory, its WAL record, the flush and the ACK; a request the client gave up on
arrives later than the requests after it; WAL writes fail half way; references
and cached projections are checked and used at different times; filters and
counters are read without a lock; a decode is tried again after it failed; threads
wait on each other over bounded channels. `hazards` in `PROJECT.json` gives
each one at its line with the properties aimed at it.

## Modules

    ContentStore <- Receiver <- ChatClient <- MCChatClient
                            <- Sidecar    <- MCSidecar
                            <- MCReceiver
    ContentStore <- ShimRegistry \
                       Fountain  <- MCColdStart
    ContentStore <- StoreProofs
    StoreProofs, Receiver <- ReceiverProofs <- WalProofs
    StoreProofs, ShimRegistry, PruneScheduler <- ShimProofs
    StoreProofs, IncrementalPrune, GoldenRing, Compressor <- PruneProofs
    ReceiverProofs, Sidecar <- SidecarProofs
    WalProofs, ChatClient <- ChatProofs
    CuckooFilter <- FilterQueries <- MCCuckooFilter
    PruneScheduler <- MCPrune
    CreditFlow, BytePipeline, Loopback, Bbr <- MCTransport
    CreditFlow, BytePipeline, Loopback, FilterQueries <- LibraryProofs
    CreditWindow (implemented by CreditFlow)
    Loopback <- MCLoopback
    GaloisField <- ReedSolomon, Rlnc <- Hierarchical \
    FrameCodec <- Bulk                                 <- MCLibrary
    Mmr, GoldenRing, ZeckStream, Compressor          /
    IncrementalPrune, MCPrune                       /

MCColdStart, MCTransport and MCLibrary hold parts that share no
state. Each has a variable (`part`, `structure`) that chooses one of them
for a whole behaviour; the others stand still. MCReceiver chooses in the same way
(`load`) what clients send and whether the WAL may fail.

Data is abstracted throughout. A block is its id (ids are BLAKE3 content
addresses) and, because append_root is collision free, a root is the sequence of
ids it was folded over. Locks are read off the program counters of the threads
that hold them. Statistics counters, logging and HTTP headers
are left out, and outside FrameCodec and Bulk so are wire bytes. Definitions named "Mutant" in a comment are plausible bugs: with
one in place of the definition below it, TLC finds a property violated.

**ContentStore** has no variables: a store is a value, and the store's
operations and one turn of the replay loop are operators on it.

**Receiver** composes store, WAL, receiver and the durable end of a request. Each
handler runs as a sequence of actions on a thread: `AppendBegin` (reference
check), `AppendCheck` (pending set, base root, lost-ACK replay), `AppendApply` and
`AppendLog` for each block, `AppendDone`; `ResyncBegin`, `ResyncSeed`, `ResyncLog`,
`ResyncNote`, `ResyncRoot`; `BulkBegin`, `BulkStore`, `BulkLog`, `BulkDone`; then
`Flush` and `Respond`. `WriteRecord` may fail and leave a torn record, whose error
`LatchError` sets in a later step, as the code does after it released the
writer. `Crash` restarts from any prefix of the records that is at least what
fsync covers (what was flushed, when `SyncWal` is false); `Shutdown` drains
and syncs first. The WAL is kept as the images its prefixes replay to. A BULK
frame is a whole generation and decodes on arrival: the shim puts all systematic
symbols of a generation in one frame; what a decoder does with fewer is the
subject of Fountain.

**ChatClient** adds the other end: a ChatSession over a SessionShim, driven by
`send_chat` and `synchronize`, a caller that retries until it succeeds, a network
on which an abandoned request stays and may be delivered at any later time, and a
terminal that may be restarted and rebuild its session from the conversation.
`Abandon` stands for a caller that drops the future or a broken connection: the
HTTP client sets no overall timeout.

**Sidecar** puts the two endpoints and the projection cache around the receiver:
lookup, append, measuring the log, reading a range, and inserting in the cache are
separate steps. `validate_chat_append` answers 400 for an unresolved reference; an
incomplete projection is a 400 although the append was applied. The history variable
`overlap` collects the conversations in which a retry overlapped a later turn.

**Fountain** is one generation's decoder as handle_bulk drives it, over any
symbols in any order and framing: `Frame`, `Add`, `Decode`, one `Peel` per turn of
the peeling loop, `Solve` for the residual system (its Gaussian elimination is
written out), `Retire` and `Reject`. One frame at a time works on it, because handle_bulk
holds the session's mutation lock to its end. A payload is the set of sources XORed into it.
Coefficients are 1, so the field is GF(2): a value the encoder draws, and the
control does not depend on it. Malformed symbols are left out.

**ShimRegistry** is a host with several sessions over one store and one filter, in
front of a gateway that may restart with nothing. `ingest_turn` is stepped through
block by block (`Look`, `PutRef` or `PutInline`, `Tell`), because sessions meet in the
store and in the filter: a session refers to a block that only another has sent, in
a frame that may be late or lost. `filter` holds the ids a query is sure to find; an insertion
(`Tell`) may make it miss others, as CuckooFilter has it do in an eviction and when the
table grows. `Deliver`, `Resync` and `Bulk` are the gateway's handlers
as single steps, since Receiver has their interleavings. The driver is the
one of the tests and of the chat client: one turn at a time, a RESYNC when an
APPEND is refused or unanswered (`GiveUp`).

**FrameCodec** is both directions of frame.rs and canonical.rs on sequences of bytes,
with the decoder's limits. A byte has 16 values and the integers two bytes, so that
second bytes, the reference bit and over-long lists all occur. **Bulk** is the
bytes of a cold start: the shim's records and their packing into generations,
`handle_bulk`'s parser with the padding, and the container of bulk.rs, which cuts without
regard to records. Generations come through or do not, in any order.

**GaloisField, ReedSolomon, Rlnc, Hierarchical** are the codes, written over GF(2^Bits) for
a Bits and a Poly and checked over the field of four elements; tables, nibble kernels
and elimination are those of gf256.rs. By linearity the unit vectors stand for all data.
`Code` and `CodeSparse` send any combination the random generator can draw; `AddGroup`
is one group's decode and its contribution to the outer code.

**Mmr** keeps the arena and the peaks; a hash is the structure it was taken over, so
equal hashes are equal inputs. **GoldenRing** has positions of 3 bits with an odd
multiplier, like the 64-bit original. **ZeckStream** is the bit stream in a width of
ZeckBits with one bit that may be damaged; where a damaged codeword sums to 0, decode_all's
`v - 1` wraps, as in the release build (a debug build panics there). **Compressor** is each thread's cached
encoder and decoder, markers and references; the 64-bit hash of a reference stands for the
reference, so collisions are left out; zstd is external and only promises
that a frame comes back with the dictionary it was made with.

**CuckooFilter** steps through insert, contains, grow and clear lock by lock. The
hashes are constants of which only the ranges and "the alternate index is an involution"
are assumed; MCCuckooFilter gives low bits, a multiplier and XOR, like the code.
SLOTS, KICKS and the widths are scaled down. **FilterQueries** adds the history variable
`calm`, which marks the queries that overlapped no eviction.

**IncrementalPrune** is one session's IncrementalPruner and its scheduler beside
appends, seeding and recovery; its budget, in tokens or in blocks, is chosen at the
start with a scorer, and a cold start inserts one block of the log per step. **PruneScheduler** is ImportancePolicy and the
two job queues. Scores are compared squared, with integers; payload lengths are
in units of 4096 bytes, so `approx_tokens` is 1024 per unit.

**CreditFlow** has one action per atomic load and compare-and-swap. **CreditWindow** is
what it promises: a window on which take, grant and reaim act at once, growth as a
promise kept later. A take happens at its swap, a grant at its own; `used` is what
is in flight, drained or owed by the receiver.
**BytePipeline** has the channels, the stage threads, feeder and collector of
`run`; a stage may panic. Calls do not overlap because the type is not Sync.
**Loopback** is the two ends of loopback pairs under the round-robin of the
multipath transport; `recv` takes the head of the channel whatever its tag.
**Bbr** has integers for rates and times, gains in quarters, and of the clock the
age of the round-trip estimate.

## Runs

`tlc -config X.cfg M`, for the module and configuration of each run.

| Run | Configuration | Checks | Instance |
|---|---|---|---|
| receiver | Receiver | TypeOK, MissingIsPending, AckHasContent, ReplayFaithful, DurableAck | 2 sessions with disjoint blocks, one recovering in two generations with a turn that may overtake its RESYNC's ACK, 2 threads, 4 records, 2 crashes; or 1 session, one thread at a time, 2 WAL errors, 2 crashes |
| receiver_wal_order | ReceiverWalOrder | ReplayFaithful (violated) | 2 sessions sharing a block |
| chat | Chat | HistoryIsPrefix, SettledBase, ChatAckExpected, TurnsGetThrough (liveness) | 3 messages in 2 turns, 2 threads, 1 abandoned request, 1 terminal restart (which leaves another late request), 1 crash |
| sidecar | Sidecar | CacheAccounts, UpstreamMatchesAck, UpstreamIsHistory | 3 sessions, cache of 2 sessions and 2 messages, overlapping retries, rewinds, 1 crash |
| cold_start | ColdStart | FirstDecodeExact; RegistryLogs, GatewayFollows, TurnsSettle (liveness) | 3 sources, up to 5 symbols in 2 frames; 2 sessions of 2 and 1 blocks over 2 ids, 1 restart of the gateway |
| fountain_retry | FountainRetry | DecodesExactly (violated) | 3 sources, up to 4 symbols in 2 frames |
| cuckoo | Cuckoo | NothingLost, InBounds, DefinitelyAbsent | 2 threads, 3 ids, growing from 4 to 8 buckets of 1 |
| transport | Transport | NeverOversold, NothingWithheld, ActsAtOnce (refinement); OwnBatchInOrder, RunReturns (liveness); SpreadEvenly; ProbesAgain (liveness) | 2 senders, window 2 re-aimed up to twice to 1 or 3; 3 stages, channels of 1, batches up to 8, 2 calls, 1 panic; 2 paths, 2 threads, 6 frames; 4 rates, 4 round-trip times |
| library | Library | RankIsDimension, ContextRecovered; CommitsToLog; KeysStayPut (action); StaysInStep; CodecsInvert; BlobsComeBack; GenerationsExact; Accounting, HighestSurvive, WindowWithinBudget; EachJobOnce, FillsBudget | 2 data and 1 parity symbol in groups of 2 and 1, up to 3 and 1 packets; up to 9 leaves; 3 entities on 8 positions; 3 pushes of 8 values, any bit damaged; every frame over 2 ids and 9 entries, cut anywhere; 2 threads, 2 references, 2 levels, 2 blobs; up to 3 missing blocks with records of 3, 4, 6 and 7 bytes for generations of 6; 4 ids of sizes 1 to 4, a token budget and a block budget, logs up to 3, 6 insertions; logs up to 3 over 5 kinds of block, 3 budgets, 2 runners, 2 threads, 2 jobs |
| loopback_streams | LoopbackStreams | StreamsKeptApart (violated) | 1 path, 2 streams, 2 frames |
| prune_budget | PruneBudget | AtMostBudget (violated) | logs up to 3 over 5 kinds of block, 3 budgets, 1 job |
| prune_system | PruneSystem | SystemBlocksSurvive (violated) | the same |

In words: content that a log names and the store lacks is always waited for;
an ACK names only content that is there and survives every crash; retries, late
requests and repairs never duplicate or reorder history; every turn gets through;
the model is sent the messages of the root that was ACKed; sessions of a host
may refer to each other's blocks and a gateway that forgot everything is brought
back; a first decode is exact and gives up only when it must; evictions lose no
fingerprint until the table grows; the prune window's books balance and keep the highest
scores; every prune job runs once, and its window wastes no budget and goes over it only by
its one block or by system blocks; credit is neither sold twice nor, with a fixed
window, lost, and the lock-free loops act as if each call were one step;
a pipeline call returns its own batch, also when a stage panics; the codes recover
what was sent from any sufficient packets, the codecs are inverses and refuse what is
cut short, and a cold start's bytes come apart exactly as they were put together.

**Bounds.** Two threads are enough for each of the races: every check-then-act in
the receiver and the sidecar has two parties. Three blocks allow a shared, a
missing and a new one in the receiver's frames. One late request can overtake a turn, two can
overtake each other. Two crashes allow a crash in the work after a recovery.
Three sources allow peeling to stop with a residual of two and redundant symbols.
Two sessions allow one to refer to a block of the other; a second block lets a turn
mix references and content. Records of three to seven bytes fill a generation of six exactly,
leave less than a length field, or exceed it. Nine leaves give ranges of one, two and three
peaks and a peak of eight. Budgets of 1, 1025 and 2048 tokens for blocks of 1, 1024 and 2048 are
exceeded by a first block, missed by one token and met exactly. Three packets for two symbols include a dependent one. ZeckBits
of 7 puts codewords on and across byte boundaries; damage to the code of 88, whose only digit is the
table's last, gives a codeword that sums to 0.
A cache of two with three sessions evicts. Eight items exceed what three
stages hold in hand (three) and four channels of one (four). MaxWal, MaxLog, MaxJobs,
MaxSymbols, MaxFrames, MaxFaults, MaxCrashes, MaxAbandon, MaxRebuilds, MaxAims,
MaxRuns, MaxPanics, MaxTurn, MaxIds, MaxRestarts, MaxMissing, MaxPackets, MaxAdds,
MaxLeaves, MaxPushes, MaxBlobs, MaxClock and MaxLogLen are guards that stop counters.

**Deadlock** is checked except where a bounded instance comes to its end: the
decoder after its last frame, the sessions and the conversation after their last turn,
the pruners after the last append, the pipeline after its last call, the structures of the
library when their bounds are reached, and the receiver when its frames are used up.

**Fairness.** chat: the terminal goes on, a broken connection is noticed (TCP
keepalive), a request on a live connection reaches a handler, and a handler that
can take a step takes one; nothing makes late requests arrive, clients give up or
processes crash. There are no WAL errors in that run, because a latched error
fails every request until a restart. cold_start: each step of a shim call, of a handler
and of the session's driver is taken when it can be; nobody has to begin a turn, and the
gateway need not restart. transport: the operating system runs every thread of the
pipeline that can run, and samples go on coming to the bandwidth model. No fairness
is assumed of credit flow and loopback, whose properties are safety properties.

## Where code and documentation disagree

Five runs expect TLC to find a property violated. The trace is a behaviour of the
code; the property is what the quoted line says.

- receiver_wal_order, ReplayFaithful: BULK publishes a block before its CONTENT
  record; another session's REFERENCE gets in front of it and replay drops that
  (wal.rs:24-26). So receiver gives the two sessions different blocks;
  MissingIsPending and AckHasContent are proved with shared ones.
- fountain_retry, DecodesExactly: a failed decode leaves symbols without payload and
  with their cover; the next one reveals nothing as a source (fountain.rs:535-537).
  FirstDecodeExact is about the first attempt.
- loopback_streams, StreamsKeptApart: every source of an endpoint reads the same
  channel and strips the session tag without looking at it (loopback.rs:109-127), so
  with two streams a frame goes to whichever asks first; transport/src/lib.rs:43-45
  promises delivery and order per stream, and loopback.rs:38-40 multiplexing by the tag.
  The comment in `send` (loopback.rs:89-90) leaves the demultiplexing to "a future mux".
- prune_budget, AtMostBudget: ImportancePolicy takes the first block of its order whatever
  its size (prune/src/lib.rs:121), so a window without any system block can exceed the
  budget it is promised to stay within (prune/src/lib.rs:45).
- prune_system, SystemBlocksSurvive: the fill stops at the block that reaches the budget
  (prune/src/lib.rs:130), also in front of system and summary blocks, which are promised to be
  "always retained" (:62), to "always survive" (:91) and to be "always included even if over
  budget" (:122-123). FillsBudget has what the fill does keep to.

The other disagreements show in the conditions of properties that hold:

| Property | Condition, and what happens without it |
|---|---|
| DurableAck under WAL errors | one thread: a failed append is latched after the writer lock is released, and another thread can ACK in between (SIDECAR.md:134-135) |
| DurableAck, of a RESYNC | the ACK carries the root of its manifest: the code reads the root after the session's lock is released, so it may be that of a turn another thread has in memory and not yet in the WAL (receiver/src/lib.rs:482-483; the chat run shows that clients bear it) |
| UpstreamMatchesAck | no retry overlapped the next turn: a late one caches the next turn's messages under its own root (sidecar/src/lib.rs:435) |
| DefinitelyAbsent | a query that overlaps no eviction: it can miss a fingerprint an insertion carries between buckets (filter.rs:180-181) |
| NothingLost, DefinitelyAbsent | the table has not grown: growing puts fingerprints where their ids are not looked up (filter.rs:231-235) |
| WindowWithinBudget | the log was not seeded: a missing block counts 0 and is in the window once recovered (incremental.rs:32-33) |
| NothingWithheld | no reaim: a grant with a stale capacity takes the growth back, and one after a shrink lowers the credit (flow.rs:97-99) |
| ContextRecovered | each group added once: `ready` counts symbols contributed, not the distinct ones its comment speaks of (hierarchical.rs:150) |
| StaysInStep | back in step after the next whole codeword with a 0 in it: after damage a run of ones can shift the boundary past "the next `11`" (zeckendorf.rs:7-8, 19) |
| GenerationsExact, for bulk.rs | the generations that came are the first ones: a missing one moves the later ones up without an error (bulk.rs:165) |
| WindowBoundsInFlight (theorem) | the window has not grown: shrinking and growing it grants credit twice (flow.rs:12-13) |

Three more have no property: of like blocks ImportancePolicy keeps the oldest
(prune/src/lib.rs:58); `run_one` takes the newest job (prune/src/lib.rs:156-157); and a
thread's compressor holds one context, where the comment counts on one per level
(compress/src/lib.rs:113-119).

How far they reach: DlrChatClient sends all systematic symbols of a generation in
one frame, so it never retries a decode. A false negative of the filter makes the
shim send a block inline again. Nothing outside the tests calls `clear`.

## Proofs

`tlapm M.tla` checks a module's proofs. All theorems hold for every value of the
constants that satisfies the named assumptions: `FramesAssumption` (frames are
well formed, a RESYNC's client root is the root of its manifest, which the shim
computes), `ChatAssumption` (a conversation of any turns, finitely many threads),
`ChatFramesAssumption` (the chat endpoint answers 400 to anything but an APPEND),
`CacheAssumption` (the cache may hold a session), `BoundsAssumption` (the registry's bounds are
natural), `HashAssumption` (an index masked to a width is below it, and the involution),
`CreditAssumption` (numbers are natural), `PipeAssumption` (any number of stages,
numbers natural), `LoopAssumption` (at least one path, each thread has a sink), `NoJobAssumption`
(an empty place is not a job), `GoldenAssumption` (multiplying by the odd constant permutes the
positions), `CompressorBlocks` (a reference's hash is not that of the empty dictionary)
and `PruneAssumption` (scores are as the code builds them: the default one has the number of
the insertion in its high bits, and keeps 44 bits of it, hence MaxClock; a block budget takes
any scorer that ranks a later block that is at least as large no lower). TLC evaluates each one on
the instances of the runs. Three theorems have a hypothesis
about the constants besides, which is written in their statement.

Induction over data is out of the provers' reach as a rule, but a property of finite sets
or numbers can be proved by its least counterexample: `LeastNat` and `SmallestSet` (in StoreProofs, and in LibraryProofs, which has no store)
follow from the well-foundedness of < on Nat, and from them what a sum over a set is and what
a fold over a set keeps, whatever order it chooses.

**Receiver** (StoreProofs, ReceiverProofs).
`TypeCorrect` is TypeOK, which also says that what is synced is flushed and what is
flushed is written. `MissingContentIsAwaited` and `AckedRootsHaveContent` are
MissingIsPending and AckHasContent. Neither is inductive: the first depends on
what a handler read before it took a lock. `IInv` (in Receiver.tla) adds
- RootMatchesLog: every root, in memory, on disk and in a record about to be
  written, is the fold of its log; so an ACKed root names the blocks of a log;
- LocksExclusive: two threads inside handlers work on different sessions, so
  only one's own handler changes a session's log and pending set;
- ThreadInv: at each program counter, what the registers say of the store: what
  handle_resync did not find missing is still stored (blocks are never removed),
  what handle_bulk has stored is there, an applying APPEND saw an empty pending set;
- AppendInv: an applying APPEND has made of its base exactly the blocks it has
  applied, and every reference it still has to apply is stored or comes inline before.

StoreProofs has the facts about the store's operators. ReceiverProofs shows that a step
of one thread changes only its own registers and session and only adds blocks, so the
others' ThreadInv and AppendInv are undisturbed, then goes through the actions, and
`Invariance` puts them together. It covers crashes, WAL errors and any number of threads.
`AppendsAckTheirBlocks` follows: the root of an APPEND's ACK is its base with its blocks on it,
which is what the client and the sidecar take it to be.

**Durability** (WalProofs). `WalReplaysToMemory` is ReplayFaithful and `AcksAreDurable`
DurableAck, for any sessions that name different blocks (`Apart(Named)`; with a shared block
receiver_wal_order shows the first one false), any threads and any crashes. The WAL's
order is not the store's: threads change memory first and append later, in another order.
`InStep` says what relates them: a block is in memory exactly if it is in the file or
a thread is about to log it; a session whose handler is about to append has the log
that replaying that one record gives; every other session's log is the file's. It is kept
because the locks leave at most one such record per session and records of different
sessions commute. For DurableAck, `AckInv` follows an answer from the record that makes it
true through the flush to the response, and `Latched` says that behind a torn record an
error is latched or about to be; the second case is why, where appends fail, the
theorem speaks of one thread at a time (`FaultsAlone`).

**ChatClient** (ChatProofs). `ChatInv` has two parts. ClientInv: a client that is not
waiting has its whole conversation as base, and otherwise its prepared APPEND ends exactly
where the conversation does. WireInv: whatever is on the network or in a handler, however old,
is an APPEND or manifest of a prefix of the conversation, and only the prepared APPEND
has the number the client waits for. That an APPEND under way has found the log at its base
is the receiver's AppendInv. `ChatInvariance` proves ChatInv inductive together with IInv;
`SettledClientsAreUpToDate` and `ChatAcksAreExpected` follow. The client's frames are
not the constant `Frames` of the receiver runs, so the receiver's lemmas are stated for a step on
any frames that keep to their session's blocks (`ChatIsOwn`), and `ChatAcksAreDurable`
takes DurableAck over to the composed system. `HistoryIsTheConversation` is HistoryIsPrefix,
in memory and in every image a crash can bring back: an APPEND applies at a prefix of the
conversation which it continues, and a seed is one. It is stated without WAL errors
(`MaxFaults = 0`); with them TLC finds a log with a hole, because a record that could
not be written is skipped and the next one is not.

**Sidecar** (SidecarProofs). `UpstreamIsWhatWasAcked` is UpstreamMatchesAck, for any
sessions, threads, frames, cache limits and crashes. The endpoint looks its projection up before
the append and reads the log after it, so the property depends on four moments. `SideInv` says
what holds at each: which stages have their frame with the receiver (StageInv); two requests
of one session run only where `overlap` has it (OverlapInv); a request that is alone on its
session holds a projection that ends at its base, and from the ACK until the projection is cached
the log is what was ACKed (ProjectionInv); and a cached projection has the messages of
its root. Between the lookup and the append it is AppendInv that says the log the
APPEND was applied to is the projection's; that reconstruct drops nothing from the range is
AckHasContent. `SideInvariance` proves it inductive together with IInv.
`CacheBooksBalance` is CacheAccounts, for any limits: `CacheInv` says that the queue holds every
cached session once, that the byte count is the sum of the entries' sizes, and that only a single
entry may exceed the byte limit, as insert leaves it. The steps are an entry that replaces
its session's, one that is added and one turn of the eviction loop; each needs how the sum over
a set splits.

**ShimRegistry** (ShimProofs). `RegInv` says at which steps of ingest_turn the shim, its
turn and the shared store agree (RegistryLogs speaks of the steps between turns
only), and that base and blocks of every frame under way, however late, are a prefix of its
shim's ids. From it `HostLogsAreShimLogs` and `GatewayFollowsShims`, for any
sessions, blocks and restarts of the gateway.

**CuckooFilter** (LibraryProofs). `IndicesInBounds` is InBounds for any threads, ids, hashes,
slots and widths, in a table that grows: a thread computes an index from the mask
without a lock and uses it when it holds one. `GrowInv`: the mask is never wider than the
table, and every index in use is below the mask, which only grows. That a grown table has
a bucket at every index again is a fact about the fold of grow over the stored fingerprints
(`GrownTypes`), by the smallest set for which it would fail.
`EvictionLosesNothing`: NothingLost holds until the table grows.
`HeldUntilGrown` says that the table never gets narrower and that IInv holds while it
has its first width. IInv adds bounds on the indices in hand and
OwnHeld: an insertion under way whose evictions displaced its own id's
fingerprint still accounts for it, which is needed when it succeeds with
another fingerprint in hand. The argument is that a swap of a bucket's fingerprint
with the one in hand keeps both held, and that an index moved by the fingerprint in
hand stays a candidate because the alternate index is an involution.
`NegativeAnswersHold` is DefinitelyAbsent. `QueryInv` says that a query of an id that was
present, as long as nothing disturbs it, has a slot with the id's fingerprint in front of its
probe: it is held when the query begins, in the table since nobody carries it, and what
insertions of others change meanwhile are empty slots. So the probe cannot come to its end.

**CreditFlow** (LibraryProofs). `CreditTypes`: no counter goes below zero.
`CreditConserved`: NeverOversold for any senders and re-aims, because a swap adds
at most what is owed and settles it. `WindowBoundsInFlight`: the documented bound on
the bytes in flight, as long as reaim has not grown the window. `FixedWindowKept`:
NothingWithheld until the first reaim; FixedWindow says that a grant under way has
read the window as its cap, so that the minimum with it never cuts. `LoopsActAtOnce` is
the refinement ActsAtOnce: every step of the loops is a step of CreditWindow or changes
nothing it shows, for any senders and windows. It rests on TypeOK and on `Settled`:
the capacity, and the one a grant has read, are sizes that were aimed at, and an idle grant
owes nothing, so that a growth is promised once and kept once.

**BytePipeline** (LibraryProofs). `RunsAreInOrder` is OwnBatchInOrder for any number of
stages, bounds, calls and panics. `PipeInv` names, for each channel, the last item that
was put into it. Each channel then holds a run of consecutive items, a stage that runs has
passed on everything before the item in its hand, and so the items are in line from the
feeder to the caller, up to the first stage that has ended. Behind that one nothing reaches the
caller; in front of it the channels drain, and run returns a prefix.

**Loopback** (LibraryProofs). `FramesAreSpreadEvenly` is SpreadEvenly for any paths,
sinks and threads. `LoopInv`: a sink's paths have had equally many complete rounds, and in the
current one exactly those up to the cursor have had their frame.

**IncrementalPrune** (PruneProofs). `BooksAgree` is Accounting, `LowestGoFirst` HighestSurvive and
`WindowsFit` WindowWithinBudget, for any blocks, sizes, budgets and scorers of the
assumption. `PruneInv` has one set of facts about a pruner, the published one and the one a cold
start is still building: its two maps agree, its total is the sum of the survivors' sizes and within
the budget, and nothing it was ever fed and has dropped ranks above what it keeps. An insertion
replaces the id's entry and then evicts the lowest until the budget fits: the least number of turns
after which it does, by `LeastNat`. A re-inserted block is the delicate case, since it gives its place
back: under a token budget every new entry ranks above the old ones; under a block budget the
window is full from the first drop on, so that the place is the block's own again. For the window, ids are
read under the lock and materialised later: content only arrives, so in a session that was not
seeded the sizes the pruner counted are those of the window.

**PruneScheduler** (ShimProofs). `EveryJobOnce` is EachJobOnce for any callers, runners and
sessions. `JobsInv`: each number given out has exactly one holder, which is a place in the
queue, an entry of the heap, a caller between its two locks, a place in a running batch or one in the
results. Each action moves the holders of some numbers and leaves the others alone.

**GoldenRing** (PruneProofs). `NoResharding` is KeysStayPut for any entities, width and odd
multiplier: `RingInv` says that the two maps are inverse to each other and that positions come from
numbers already used, so an add takes a position of its own, and the first entity at or after
a key changes only if that entity is the one that came or went.

**Compressor** (PruneProofs). `BlobsAreRecovered` is BlobsComeBack for any threads, references,
levels and blocks: by `CompInv` a cached context was built of the dictionary its id stands for.

**Only model-checked.** Liveness (TurnsGetThrough, TurnsSettle, RunReturns,
ProbesAgain), which needs fairness and ENABLED. What recursive definitions compute for every input,
where the argument is the algorithm itself: the decoder's elimination (FirstDecodeExact), the
codes (RankIsDimension, ContextRecovered), the codecs and the records of a cold start
(CodecsInvert, GenerationsExact), the mountain range (CommitsToLog) and the bit stream (StaysInStep),
whose modules use recursive operators besides, and the fill of `prune` (FillsBudget).
UpstreamIsHistory, which depends on the frames of an instance fitting its conversation.

## Not modelled

- Arithmetic that no other part calls: the homomorphic and Fibonacci hashes
  (homohash.rs, fib_hash.rs), the back-off table (fib_backoff.rs) and the closed formula of
  cayley.rs. They hold no state, and what matters of them is full-width arithmetic.
- Training of dictionaries and the choice of a reference block: heuristics that change
  how short a blob is and not what it decodes to.
- QUIC and RDMA, which are stubs, and the receiving side of the multipath transport,
  which listens on its first path only and which nothing uses.
- The demonstration binary.
- Limits of full-width integers: a source index is a u16, so it wraps beyond 65536
  symbols of one generation; the outer code has 256 evaluation points; push adds one to
  a u64. The models stay below them and no other code guards them.
- In the modelled parts: several turns of a raw SessionShim in flight on one stale base,
  which ingest_turn leaves to its caller to avoid; decoders left over from an earlier RESYNC,
  which handle_resync does not clear; a WAL whose middle does not parse, which
  makes opening fail; power loss that persists anything but a prefix of the file;
  authentication, size limits and streaming in the sidecar; dropping a pipeline
  (its comment says `_handles` are joined, a dropped JoinHandle detaches).
- A malformed frame is a request that changes nothing in Receiver; which frames are
  malformed is FrameCodec's subject, for frames that an encoder wrote and that may be cut.
  An entry with a length of 0, which no encoder writes, is outside it: decode_frame_block
  reads the marker before it looks at the length (frame.rs:342).
- No property says that history is a prefix under WAL write errors, or that the
  client makes progress under a permanently latched one: the code does not
  promise it. Nor does one say that a window has a block ingested while
  ingest_session builds: the documentation has cold start run once, before.
