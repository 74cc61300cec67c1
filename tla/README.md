# TLA+ specification of lzma-turbo

lzma-turbo is a Rust port of the LZMA SDK's codecs with threaded LZMA2 and XZ
coding. This directory holds TLA+ models of its threads, its container readers and
writers, its match finders and its codec core, the TLC configurations that check
them, and TLAPS proofs about the threaded LZMA2 decoder, its reader, the
block-parallel coder, both match finders and the cutting of checksums.
`PROJECT.json` maps each definition to the source lines it models and lists the runs, the hazards and the theorems.

## The system's parts

| part | state | operations | hard behaviour |
|---|---|---|---|
| decoding ring, `mt/mtdec.rs` | two auto-reset events per thread; read state (position, cross block, thread count); write state (interruption, results, replay); interruption index | a thread waits for the read token, reads and parses a block, passes the token on, decodes, waits for the write token, writes, passes it on | order of output, lost tokens, failure of one of many blocks, hand-over of what was read and not decoded |
| LZMA2 callbacks, `mt/lzma2.rs` | block parser, output buffer, code result | parse, pre_code, code, checksum, write | reverting to the last block boundary, blocks that do not fit |
| decoder entry and reader, `mt/mod.rs` | replay, single-threaded decoder; a channel of one block and a coordinator thread | decode, decode_st; read, drop | switching from the ring to the tail without losing or repeating input; an error that does not fit in the channel; hanging up |
| adaptive decoder, `mt/adaptive.rs`, `mt/pool.rs`, `mt/segq.rs` | pending and outstanding runs, memory ledger, reference-counted input, worker pool | feed, scan, dispatch, collect, accept, emit, chase on the caller's thread | admission under a memory limit, results out of order, dead workers |
| block coder, `enc/mt_coder.rs` | read event, semaphore of slots, ring of blocks, write index, free list | read a block, take a slot, start a thread, encode, post, write, free | one writer at a time, order, waiting with the read token in hand, threads ending |
| threaded match finder, `enc/lz_find_mt.rs` | two block rings guarded by semaphores, locks held across calls, a window that slides | hash, tree and match threads exchange blocks; start, stop, keep or end threads | stopping a blocked producer, sliding under readers, failure that looks like the end |
| match finder, `enc/lz_find.rs` | window, hash, tree or chains, 32-bit position | read, move, normalise, get_matches, skip | position wrap, sizes of the window |
| LZMA and LZMA2 encoder, `enc/lzma_enc.rs`, `enc/lzma2_enc.rs`, `enc/range_enc.rs` | range coder, probabilities, state, distances, chunk state | choose and code packets, cut chunks, store a chunk, flush | carry, taking back what a stored chunk taught the encoder |
| push encoders, `enc/push.rs` | a bounded queue | push, finish | the queue running dry inside a call |
| LZMA and LZMA2 decoder, `lzma/`, `lzma2/` | probabilities, dictionary, state, held input, chunk state | decode some input into some room | input or room ending inside a symbol or a match |
| readers, `reader.rs`, `run.rs` | input buffer, remaining size | read, decode a run, finish | independence of how input and output are cut |
| XZ readers, `xz/reader.rs`, `xz/parallel.rs`, `xz/adaptive.rs`, `xz/pool.rs` | stream, block and index state; plan, blocks in flight and ready | read; dispatch, collect, adopt; feed, drain, chase | index against blocks, order of adoption, retry after an I/O error, limits |
| XZ encoder, adapters and pipe, `enc/xz_enc.rs`, `enc/write.rs`, `enc/pipe.rs` | pending block, queued batch, records, output; two bounded channels and a gate | push, finish, setters; write, flush, drop | blocks queued while settings change, refusing sinks, both queues full, missed wake-up |
| filters, checks, crypto, kernels | small buffers | convert, sum | a converter that holds back a tail |

Calls go from the entry points down. Threads share state only through mutexes,
events, semaphores and channels; results come back through shared records (ring,
coder, finder) or channels (pools, pipe, reader).

What makes each part correct: the threaded decoders deliver what the sequential
decoder delivers, success means complete output, errors reach the caller, every
call returns; the encoder's output does not depend on the thread count and decodes
to its input; queues and buffers are never shared by two blocks; memory stays under
its limit; the finders report only true matches and lose none.

## Modules

| module | models |
|---|---|
| `Lzma2Stream` | an LZMA2 stream as units, the block parser's walk and the sequential decoder's, used as the reference |
| `MtDec` | the decoding ring with the LZMA2 callbacks; invariants of the ring |
| `MtDec_proofs` | the theorems about `MtDec` |
| `Lzma2Stream_proofs` | facts about streams that the proofs about the decoder share |
| `Lzma2MtDecode_proofs` | the theorems about `Lzma2MtDecode`: the whole decoder, its agreement with the sequential one, the refinement of `DecodePromise`, the plan; builds on `MtDec_proofs` |
| `Lzma2Reader_proofs` | the theorems about `Lzma2Reader` |
| `MtCoder_proofs` | the theorems about `MtCoder` |
| `LzFindMt_proofs` | the theorems about `LzFindMt`: the protocol, the places of the three threads, the window |
| `LzFind_proofs` | the theorems about `LzFind`: its window, and what its hashes, trees and chains hold and find |
| `DecodePromise` | what `decode` promises, without threads |
| `Lzma2MtDecode` | `decode`: `MtDec`, then the single-threaded tail; refines `DecodePromise`; the plan that chooses threads and block sizes |
| `Segmenter` | how checksummed segments are cut from a run of output, with the theorems about it |
| `Lzma2Reader` | `Lzma2ParallelReader`: its coordinator takes the steps of `DecodePromise`, a channel of one block lies between |
| `MtCoder` | the block-parallel coder with the LZMA2 encoder's callbacks |
| `AdaptiveMemory` | what the adaptive decoder holds and admits: charges, pair bound, parked buffers, room for input and for a run |
| `AdaptiveDecoder` | the adaptive decoder, its pool and its input queue, driven by a caller; extends `AdaptiveMemory` |
| `LzTree` | match lengths, hashes, the walk of the binary tree and of the chains, normalisation |
| `LzFind` | the single-threaded finder: window, positions, bt2 to bt5, hc4, hc5 |
| `LzFindMt` | the threaded finder: the three threads and two `MtSync`s |
| `LzmaConsts`, `RangeEnc`, `LzmaEnc` | the format's numbers, the range encoder, packets and the two parsers |
| `LzmaDec` | the LZMA decoder: unchecked loop, dry run, held input, end of stream |
| `Lzma2Codec` | chunks: the encoder's cutting, storing and restoring, into a stream or into a slot's memory; the decoder's control bytes |
| `LzmaPush`, `LzmaReaders` | push and pull encoders, their blocks, data limit and reset; `LzmaReader`, `Lzma2Reader`, `Lzma2RunDecoder` |
| `LzmaCodec` | an encoder that may be used again, a channel that may damage or cut the stream, a reader |
| `XzFormat` | cells of an .xz file: headers, integers, index, footer, filters' tails |
| `XzBlock` | one block: `BlockDecoder` and a worker's `decode_block` |
| `XzFiles` | the files readers are given, every way they are harmed and, without parsing, which must be accepted |
| `XzReader` | the sequential reader |
| `XzPool` | the workers shared by the two decoders below |
| `XzParallel` | the parallel reader; extends `XzReader`, to which it falls back |
| `XzAdaptive` | the adaptive .xz decoder |
| `Lzma2Pipe`, `XzWriter` | the encoder's thread behind two channels; XzEncoder, XzWriter and Lzma2Writer |
| `MC*` | the streams, files, inputs, callers and faults the runs use |

**Data.** For the ring a stream is a sequence of units: a dictionary-resetting
control byte, a chunk body that decodes to one unit of output, a body that does not
decode, a byte the format does not allow, an end marker. A block or a piece of
output is a pair of offsets. In the adaptive decoder a stream is a sequence of runs
of chunks, each a header unit and a body unit that decodes to one or more units of
output. An .xz file is a sequence of cells; a size, an offset or a padding is
computed as the code computes it, with a unit of `Align` cells for four bytes,
integers in a radix of `VliBase`, and checksums that hold what they cover. The codec
is modelled to the bit on a narrower machine: a byte has two bits, a word four such
bytes, a probability three bits, so that carries, normalisations, the end of a
chunk and the end of the input fall at every place within a few symbols. The match
finder works on real windows, hashes and trees of a few bytes.

**Steps.** A section under a mutex is one step, as is a section that only the
holder of a token runs. In the ring: `ReadBegin` (take the read token),
`ReadLink` (one turn of the read loop: buffer, read, coder, parse, cross block),
`PassRead` (pre_code, a new thread, the token), `CodeLink` (decode one buffer,
which needs no lock), `Write` (the write section), `RunReturn`. In the coder:
`ReadBlock`, `StopReading`, `TakeSlot` (with the read lock held across the wait
for the semaphore), `StartCode`, `Code`, `Post`, `WriteBlock`, `FreeSlot`,
`LoadBlock` (after the semaphore was released), `Exit`, `LastOut`, `Return`. An
event is a Boolean that a wait consumes. The comment at each action says which
part of the handler it is.

In the adaptive decoder the caller's calls are the steps, and one turn of
`drain_impl`'s loop; the workers' are `Take`, `DecodeRun` and `Panic`. A turn is one
step because the decoder and its workers meet at two channels only and a turn reads
the channel of results once. Every unit that reaches the sink carries where it was
put and which unit it is, so the properties see output in the wrong place. Memory
is counted in capacities with the code's own arithmetic. `XzAdaptive` is built the
same way.

In the threaded finder every wait and every release is a step of its own: the hash
thread's `HashStart` to `HashBlock`, the tree thread's `BtStart` to its block, the
encoder's calls. In the .xz readers a step is one call of a state function or one
turn of the block decoder; a refill may stop at the least that was asked for or
buffer all there is. In the pipe the channels are not guarded by the gate, so the
tests before a sleep and the notifications interleave with sends and receives. In
the codec a step is one push, one pass of the block loop, or one pass of a reader's
loop; a packet is chosen by the fast parser as the code does, and by the optimal
parser in any way the input allows.

**Faults.** The environment may refuse an operation named in a module's fault
constants: a read, a write (after any part of the piece), a thread start, an
allocation, those of the single-threaded tail included; a worker, an encoder or a finder's thread may panic or fail; a source or
sink may answer with part of what it was given; a file or stream may be cut, spoilt
or forged on the way; a caller may drop a reader or writer at any point.

A definition whose comment says *Mutation of* is a wrong variant of the one that
follows it; no specification uses it. Substituting it shows that a property can
fail.

## Runs

| run | question | bounds | states |
|---|---|---|---|
| `DecodeFaults` | Does the ring keep its invariants, its output a prefix of what decodes and its hand-over exact, its answer that of the sequential decoder when nothing was refused, and return? | 3 threads, buffers of 3 units, streams of up to 3 blocks of 5 shapes with 3 endings and streams of four and five blocks, all faults | 622,243 |
| `DecodePromise` | Does the whole decoder implement `DecodePromise`? | 2 threads, buffers of 2 units, streams of five blocks with blocks larger than the limit, all faults but make_coder's | 40,916 |
| `Lzma2Reader` | Does the parallel reader deliver what was promised, with its error, and does its thread end? | 15 streams of up to 4 units of output, reads of 1 and 2, a failing source, drops | 3,750 |
| `Coder` | Are slots and buffers exclusive, is the output ordered and complete, does `code` return? | 2 threads, 3 slots, 0 to 4 blocks, slices and streams, announced or not, direct or buffered output, all faults | 737,988 |
| `AdaptiveModes` | Is output claimed once, in place and delivered in order, is the answer the sequential decoder's, does the limit govern what is held, and does the decode end, whatever mode changes and faults come between? | 1 and 2 threads, 6 streams of up to 4 runs, 9 ways to call, one change of threads, limit or mind, all faults | 68,139 |
| `Finder` | Does the window hold the history, are the matches true and the longest, is the window large enough? | 6 kinds of finder, history 3, positions modulo 13, all streams of 7 bytes and streams of 17 with a free end, in place or in reads of any length | 438,112 |
| `FinderThreads` | The same for the three threads; do start, stop and failure leave the protocol clean, and does every call return? | rings of 2 blocks, inputs of 19 bytes and 1 byte in a row, sliding window, reads of the least length and up to `ReadSlack` (1) more, panics, refused starts | 1,733,065 |
| `XzReaders` | Do the readers accept exactly the files a writer could have produced? Are blocks verified, in order, within admission? Does every read end? | 5 files and every cut, spoilt cell, flipped cell and lie; 13 settings; up to 3 workers | 121,649 |
| `XzAdaptive` | The same for the adaptive decoder, with limits on blocks and bytes held | the same files and one of three blocks; 8 ways to call; ceilings 1 to 3 | 89,887 |
| `XzWriter` | Does a writer that says it is finished leave the file of its input, and does it end? | 11 callers: solid, blocks, threads, filters, refusing and broken sinks, failing encoder, drops; inputs of 0, 7 and 16 bytes | 16,654 |
| `Codec` | Does every reader return what every encoder wrote, read inside its input, judge damage alike however it is cut; does the push encoder write what the pull encoder does; does reading end? | 33 cases over two-bit bytes: one block or blocks of 13 bytes, a promise kept and broken, encoders used twice, chunks coded into memory; pieces of 7 and all, input cut at 1, 4 and all, room for 1 and 5 | 46,886 |
| `XzSetThreads` | a disagreement between the code and its documentation, below | one caller | 20 to the violation |

Why the bounds are enough for the interesting cases: three threads and four or
more blocks make every token go round the ring; buffers of two and three units
and blocks of two to five units make blocks start at, cross and end at buffer
boundaries, with and without the cross block; blocks of more output units than
`OutBlockMax` overflow, `SmallBlock` makes small blocks merge and revert. Four
blocks exceed the three slots of a coder with two threads, so that indices wrap
and the semaphore blocks.

In `AdaptiveModes` the limits 6, 9 and 12 lie below, at and above what a run of
eight units with its input needs, next to no limit at all, so that runs go to a
worker, are chased for want of room and are chased because they are too large;
pieces of one to four units make runs span pieces and pieces span runs; drains of
two units cut blocks.

In `Finder` and `FinderThreads` the streams are longer than the window and than the
range of positions, so that the one moves and the others are normalised; `CutValue`
reaches the whole history, so that the longest match is known. `LagKept` is what two
full rings of blocks can lag behind. `ReadSlack` bounds the lengths of reads tried in
`FinderThreads`: the least that suffices, one byte more and everything; `Finder` tries
all. In `Codec` the data are chosen so that every
packet kind, a distance beyond the modelled slots, a length of the high tree, a
stored chunk before and after coded ones and a carry through pending bytes occur;
`RequiredMax` (6) is the largest number of bytes one symbol can take on this
machine, as LZMA_REQUIRED_INPUT_MAX is on the real one: with 5 the run fails.
`Queue` and `Margin` follow the formula of `enc/push.rs`; `MemShare` and `MemExtra`
make the memory of a slot as much larger than its data as the expansion of the
modelled header and stored chunks asks for, so that the longest of the inputs fits
and coding can still overflow a chunk. The unchecked loop reads past its input as the
code's pointer does; `over` in the decoder's record remembers it, also in a call that
ends with an error, whose decoder the reader keeps.

Some cases are left out of a passing run because what happens there is known and
described below: valid streams whose end marker exactly fills a buffer (both decode
runs), `make_coder`'s failure (`DecodePromise`), chunks that leave output owed and a
limit lowered below a buffer in use (`AdaptiveModes`), draining again before the
block's next byte has come (`XzAdaptive`, `DrainAgain`), retrying a parallel read
after an I/O error with several workers (`XzReaders`), changing threads or the check
with blocks queued (`XzWriter`).

**Fairness** is weak fairness of every thread's next step and of the caller: the
OS scheduler runs a thread that can run. A thread that waits for an event, a lock,
a channel or a semaphore has no enabled step. Nothing is assumed about the order in
which threads win. A caller keeps calling once it has begun, and a worker with a job
gets on with it; that a thread panics, that a caller changes its mind, drops what it
has or waits outside of a call is never assumed. No strong fairness is needed: a
token is for one thread alone in the ring, in the coder the read event stays set
until some thread takes it, and a finder's semaphore has one waiter.

## What the runs found

**Threads lowered with a block queued** (`XzSetThreads`). `block_ready` and
`block_ready_to` write the pending block at once when `threads` is 1. If
`set_threads(1)` comes after a push that left a block in the parallel batch, that
block is written after its successors: the file is well formed and decodes to the
input with blocks exchanged. The comment on `set_threads` says that it never changes
what the stream contains.

The following need no run of their own. Those that name constants show themselves
when the constants of a run are replaced by these definitions of its MC module.

- *End marker at the end of a full buffer* (`DecodeFaults` with `FullBufferStreams`
  and `NoFaults`; `AgreesWithSequential`). If the input's last byte is the end marker
  and fills the 256 KiB buffer, `read_was_finished` is still false after the ring has
  written everything, and `decode_dyn` (`mt/mod.rs:322`) starts a fresh
  single-threaded decoder on no input, which reports Truncated.
- *`make_coder` fails on a cross block* (`DecodePromise` with `FewStreams` and
  `CoderFault`; `KeepsPromise`). The loop is left (`mt/mtdec.rs:501`) before the cross
  block is copied; the zeroed buffer is replayed, zero is the end marker, and `decode`
  returns success with output missing.
- *Bytes behind an end marker.* What follows an end marker, left over as the cross
  block or not read yet when the ring is done, goes to the single-threaded tail
  (`mt/mod.rs:322`), which decodes it with a fresh decoder: a second stream behind the
  first is decoded and appended (`<<reset, data, end, reset, data>>` with buffers of
  three units). The streams of the runs end with their marker, and the proofs about
  `decode` assume it.
- *Read error inside a block.* `run` (`mt/mtdec.rs:379`) returns the code result
  first, so the caller sees Truncated instead of the I/O error that cut the block.
- *Refused thread start in the coder.* `scope.spawn` (`enc/mt_coder.rs:423`) panics
  with the read token taken and the thread not counted out, and `code` waits for
  ever: `CodeReturns` excepts `Panicked` for that reason.
- *Refused thread start in the finder.* In `with_threads` the second `scope.spawn`
  (`enc/lz_find_mt.rs:3998`) panics before there is an `MtRun` to end the threads, so
  nobody wakes the hash thread, which waits for its stream, and `thread::scope` joins it
  for ever. `block_handle` sends that thread away and returns an error
  (`enc/lz_find_mt.rs:2807`). `LzSpawn` has both; `FinderReturns` excepts the first, the
  encoder's place `"scope"`.
- *Output owed at the end of a run* (`AdaptiveModes` with `OwingStreams`,
  `OwingCallers` and `NoFaults`; `ClaimedOnce`). A chase that is stopped after the
  last input byte of a run but inside its last match is taken to be between two runs
  when the next one is complete (`retire_runs`, `mt/adaptive.rs:2305`). If the next run
  then goes to a worker, the rest of the match is missing and turns up later.
- *A lowered limit* (`AdaptiveModes` with `LargeSecond`, `WideCallers`, `SmallLimit`
  and `NoFaults`; `DecodeEnds`). A buffer in use when the limit is lowered below its
  size is parked when it comes back (`mt/adaptive.rs:1923`), and the last parked buffer
  is never given back for input: every feed is refused and `drain` asks for input.
- *Error before the rest of a cut block* (`mt/adaptive.rs:1873`). `emitted_out` counts
  a cut block as delivered, so a failed run behind it is reported before the rest was
  handed over: the exception in `DeliveredInOrder`. (`BadSecond`, `CutCallers`.)
- *Retry of a parallel read* (`XzReaders` with `RetryOptions`; `AcceptsExactly`).
  When `read_exact` in `dispatch_one` (`xz/parallel.rs`) fails part of the way, `pos`
  still says that the source stands at the block, so the next call reads on without
  the seek that the comment at `xz/parallel.rs:384` speaks of for the other path.
- *Check changed with a block queued* (`XzWriter` with `CheckOptions`;
  `WrittenFile`). `started` (`enc/xz_enc.rs:344`) does not look at the queue, so
  `set_check` is accepted after a block was queued and writes the stream header anew.
- *Draining again* (`XzAdaptive` with `DrainAgain = TRUE`; `AdaptiveAccepts`). A block
  that has produced all its declared output, and whose end marker has not arrived,
  fails with SizeMismatch when it is drained once more without input
  (`xz/blockdec.rs:199`).
- A finished `XzEncoder` whose `push` failed before may leave out the block that
  failed; XzReader's errors are not sticky; the parallel .xz reader does not look at
  `concatenated = false`; the parallel LZMA2 reader answers `Ok(0)` to a read after an
  error; an adaptive .xz decoder whose memory limit is smaller than a header asks
  for input it refuses.
- With direct output a coding error does not set `write_res`, so that a later block
  already in work is written although the failed one is not complete; the call
  reports the error. In the adaptive decoder, output of a chase that must wait behind
  a run still out is held whatever the limit, the exception in `LimitGoverns`.

## Proofs

All theorems hold for every value of the constants that the named assumptions of
the modules allow: numbers of threads, buffer and block sizes, sets of streams or
inputs, sets of faults.

**The ring** (`MtDec_proofs`). `Inductive`: `RingSpec => []Ind`, with `Ind` the
conjunction of `RingTypeOK` and `RingInv`; from it `RingTypeCorrect`, `RingCorrect`
(`RingInv`, checked in `DecodeFaults`) and `OutputGapless`: the output has no gap,
no repetition and keeps the order of the input.

`Gapless` is far from inductive. A write appends to the output the block of the
thread with the write token, so one must know that the output ends where that
block starts (`ChainInv`). For that to survive the hand-on, the token's next owner
must be the block's successor (`OrderInv`), blocks in work must follow one another
in the input (`ChainInv` again), which depends on what the read loop leaves in the
cross block (`ReadInv`), on there being one token of each kind (`TokenInv`), and on
interrupted blocks, whose extent means nothing, never being written before the
failure that interrupted them has stopped all writing (`IntrInv`). The proof first
summarises what a turn of the read loop and the parse may change, as lemmas, so that
the step for each action need not expand the parser; then one lemma per action shows
that it keeps each part of the invariant.

**The whole threaded decoder** (`Lzma2MtDecode_proofs`). `DecodeInductive`:
`DecodeSpec => []DecodeInd`, and `OutputPrefix`: `DecodeSpec => []OutputIsPrefix`,
checked in `DecodeFaults`. In a stream with a bad unit nothing is ever written beyond
the units before it; in a valid one what is written may include the end marker, which
is one unit more. `DecodeInd` adds to `Ind`

- `BlocksInv`: what a block holds, at each stage of its thread: its extent lies in
  the stream, the parse met nothing illegal unless the block says so, what was
  decoded has no bad body, and only a block that cannot be written has a buffer
  nothing was copied to;
- `OutInv`: all that was written decodes;
- `KeptInv`: the pieces kept for replay follow what was written, without a gap,
  up to the block with the write token or, at the end, to the next read;
- `TailInv`: where the single-threaded tail stands.

Only while the ring runs are all four needed; when its threads have joined nothing
of it moves any more (`JoinedQuiet`), and the tail is a loop of its own. Both
theorems have the hypothesis `MarkerLast`: no unit follows an end marker in a
stream. It is needed: see *Bytes behind an end marker* above.

**Agreement and refinement** (`Lzma2MtDecode_proofs`). `Agreement`:
`DecodeSpec => []AgreesWithSequential`, checked in `DecodeFaults`, and
`ImplementsPromise`: the first state of decode maps to one of `DecodePromise`, and
every step to a step of it or to a stutter. `DecodeInd` says what was written; it
does not say that a valid stream gets through. `AgreeingInductive` is the invariant
for that. `Agreeing` adds to `DecodeInd`

- `Grounded`: what is recorded as refused is in `Faults`, and an end marker that the
  ring has met is the end of the stream and of a block (`MarkInv`, `MarkBlocks`);
- while nothing was refused, `Plain`: each block, and the next read, starts where
  the stream may be entered with a fresh decoder and knows how much output lies
  before it; a block's error is one that the sequential decoder meets in the same
  place; what was read is whole buffers until the end of the input was met; and an
  answer is the sequential decoder's;
- `TailFresh`: the tail is never handed the buffer that nothing was copied to,
  unless a coder was refused.

That the blocks the ring hands out can be entered is not a property of the parser
alone: it rests on the cross block, on where the last buffer ended and on the write
order, which is why `Plain` speaks of all of them. The hypotheses are `MarkerLast`
again and that no valid stream is a whole number of buffers long; without the
second the theorem is false, see *End marker at the end of a full buffer*. The
streams of both decode runs satisfy them. `ImplementsPromise` has a third,
`"coder" \notin Faults`, as run `DecodePromise` has, because of *`make_coder` fails
on a cross block*. `Agreement` needs no such hypothesis: it speaks of runs in which
nothing was refused.

**The reader** (`Lzma2Reader_proofs`). `NothingLost`: `Spec => []ReadsThrough`. What
the caller was given, what it has in hand and what lies in the channel make up what
was delivered (`Flow`), and the answer of `decode` is in exactly one of three places
on its way to the caller (`News`): with the coordinator, in the channel, or left for
`join` because the channel was full.

**The block-parallel coder** (`MtCoder_proofs`). `NeverShared`, `WritesAlone`,
`Ordered` and `OkMeansComplete` are the four invariants of run `Coder`. The code
keeps the base of the ring of slots, the number of its block and the owner of each
buffer nowhere, so the inductive invariant has them under an existential quantifier:
there are w, K, M and held such that the blocks in flight occupy the slots from w on
(`Ring`), the buffers are free or held by one of them (`FreeList`, `Holds`), the
block d slots behind w is block K + d of the input (`WorkOk`), and M blocks were
written. Each action's lemma names the witnesses of the next state.

**The threaded match finder** (`LzFindMt_proofs`). `RestartsClean`:
`Spec => []RestartReady`, checked in `FinderThreads`. The invariant is `IInv`. In it
`Handshake` says of each `MtSync` when its producer may stand at its start and which
flags are set then; `HashInv` and `BtInv` tie the flags and the lock to where the
neighbours are, so that a stop that the encoder asks of the tree thread, which asks
it of the hash thread, leaves nothing behind; `HeadRing` and `RecordRing` count the
blocks of the two rings through the semaphores. From the same invariant follow that
the window slides only while nobody looks into it (`SlidesAlone`, which rests on the
two locks) and that a block is never overwritten while it is used (`HeadsKept`,
`RecordsKept`, which rest on the semaphores).

What is in the blocks comes on top. No thread knows where another stands: the hash
thread has read ahead, the tree thread holds a block or two behind it, the encoder
another ring behind that, and each is told only how far the window has moved.
`PlacesInductive` (`Spec => []Ghosts`) ties the three together: there are two
functions T and S from block numbers to positions of the stream such that head block
k holds the heads of the bytes from T[k] to T[k + 1] (`Heads`), record block k the
records from S[k] to S[k + 1] (`Records`), and each thread's own counters say that it
stands where T or S puts it (`HashPlace`, `BtPlace`, `BtBlock`, `LzPlace`). T and S are
under an existential quantifier, as the code keeps them nowhere; each action's lemma
names those of the next state. From it:

- `NoEarlyEnd`: `Spec => []EndIsEnd`. A thread that failed leaves a block that says so,
  and a block that does not is as long as its place says; so "nothing is left" is said
  only where nothing is, or where a failure is on record.
- `WindowFollows`: `Spec => []WindowFollowsThreads`. `WindowInv` adds where the bytes of
  the stream lie in the window (`Content`) and, for the tree thread and the encoder,
  that their own index into it, once the shifts not yet applied are, points at their
  position (`BtSees`, `LzSees`). That the bytes are still there is the lemma `Lag`: the rings
  bound how far the encoder is behind the hash thread, so what `layout` keeps is enough
  however often the window slides. It needs of the constants what
  `MtFinderAssumption` says: `LagKept` is at least what the two rings hold.

The tree walk and the hashing are recursive functions there (`GetHeads`, `TreeRun`), and
what they return by length and count is proved by the least counterexample. What
the records say, that they are matches and the longest, plays no part, nor does it
that a son which is not older than its node is found to be damage (`Forward`).

**The match finder's window** (`LzFind_proofs`). `HoldsHistory` and
`WindowLargeEnough` are `WindowHoldsHistory` and `WindowSuffices` of run `Finder`.
`WindowInv` says where the window's contents lie in the stream (`Window`), that a
window that can still be read into has one of the two sizes of `plan` (`Sized`), and
how far the next look around is (`Limited`). The last is what makes it inductive: the
window is only moved and read into at `pos_limit`, so between two looks the finder must
not use up the look-ahead, the cyclic buffer or the room, although the positions wrap
in between and are reduced by the normalisation; and a promised length must leave
enough room that the end of the stream is met before the window would have to move.
It rests on a few lemmas about subtraction modulo 2^w (`Closer`, `Farther`,
`Reduced`). What the hashes, the tree and the chains hold plays no part in it.

**The match finder's tables** (`LzFind_proofs`). `MatchesTrue` and `LongestFound` are
`MatchesAreTrue` and `LongestIsFound` of run `Finder`, for every kind of finder, every
size of the history, of the positions and of the cut value, and every stream of the
model's alphabet, which is two bytes, and its hashes. Neither property is inductive:
they speak of one answer, and the answer depends on what every call before left in the
tables. `HistoryInv` adds to `WindowInv` that

- `FoundOK`: the records last returned are matches at their position and, if the cut
  value reaches the history, one is as long as any that is long enough to be hashed;
- `Posn`: while positions can be hashed, the finder's 32-bit position and the stream's
  are `Steady`: what one calls a distance within the history is one for the other;
- `Holds`: the tables hold the history. A head is the latest position of its hash
  (`Latest`); a chain is, from each position, the latest one before it with the same
  hash (`Chained`), the heads taken ahead by `fill_heads` included (`HcQueue`); and the
  cells of `son` are a forest of search trees (`Tree`, `Grown`).

The tree is the heart of it. The code keeps `2 * cyclic` cells that are reused, cuts a
branch by writing 0 into it or by letting it age, and replaces a node that equals the
new one as far as one looks. So a node of a tree need not hold all that a full
search tree would, and the positions below it are described from both sides: `I[x]`
is a set that all below `x` lie in, and `K[x]` one of which none is lost unless the
walk was cut off. A walk (`Walk`) that enters position p carries the last node on either
side, whose open cell waits for a child, and what still lies below the current one
(`Takes`). It begins at a root (`WalkBegins`); a node met goes to one side
(`WalkGoesOn`) or is replaced (`WalkIsFull`), or the history or the cut value ends it
(`WalkEnds`), and what remains is a tree of the history with p in it (`TreeWalk`).
`Recorded` and `Sought` say what the walk found
meanwhile: that no longer match remains is what the two limits len0 and len1 buy, since
what lies between two positions agrees with both as far as they agree (`SideBetween`).
`TimeGoesBy` lets the oldest position fall out and `BtNorm` and its neighbours show that
normalisation changes no distance. `MovePosTables` puts the look around, the move of
the window and the normalisation together; one lemma per action concludes. That the limit on
the bytes looked at only shrinks at the end of the stream (`TablesFewer`) matters: trees
built to a longer limit serve a shorter one, and not the other way round.

The recursions of the walk, of the chain and of `fill_heads` are recursive functions,
unfolded by the least counterexample.

**The plan** (`Lzma2MtDecode_proofs`). `PlanFits`: whatever the dictionary, the
threads asked for and the memory limit, what `plan` lets the ring allocate by its own
estimate is within the limit, with at least two threads and no more than were asked
for; or the decode is single-threaded.

**Checksums** (`Segmenter`). Proofs only, as the module has no behaviour of its own:
`SegmenterKeeps` says what a segmenter has closed after any pieces,
`SegmenterFinishes` that finishing it gives what was promised of the run from its
first byte to its last (`Promised`), however the run was cut into pieces, and
`SegmentsTile` that these segments are disjoint, not empty and cover the run.
`UpdateIsItsLoop` ties the closed form these speak of to the loop in the code, whose
subtraction never wraps. A comment there (`mt/checksum.rs:296`) says when a pass takes
no bytes; it also takes none when the last piece ended exactly at a split.

Facts about an arbitrary set or stream come from well-foundedness by the least
counterexample (`Least` in `Lzma2Stream_proofs`).

Model-checked only: liveness (every property with "Returns", "Ends" or "Stops", and
of `KeepsPromise` the part that decode answers at last), which the prover does not
handle; the properties of the codec, the threaded finder and the .xz modules that say what a
recursive definition computes (`RoundTrip`, `FindsLongest`, `AcceptsExactly` and
others), which need induction over data; and, so
far, the invariants of `AdaptiveDecoder`, `XzParallel` and `XzAdaptive`.

## Not modelled

`PROJECT.json` lists every component. Left out, with the reason:

- prices and the tables behind them (`enc/price.rs`, most of `get_optimum`): they
  only choose among packets that are all legal, and the model lets every choice
  happen;
- `Lc`, `Lp`, `Pb` other than the run's, and damage to the property byte; the .lzma
  file header;
- BCJ, BCJ2 and delta arithmetic, CRC and SHA arithmetic and their combination: bit
  arithmetic over large words, which TLC cannot enumerate and test vectors cover; the
  tail a filter holds back and the order in which checksums are merged are modelled;
- assembly and vector kernels, huge pages, prefetching: taken to equal the scalar
  code, no state of their own;
- progress counters, statistics, mapped output; the runs take block sizes and thread
  counts as constants rather than from the plan;
- sink errors and cancellation inside `Lzma2RunDecoder`, and its hooks;
- bytes after an end marker in the adaptive decoder, and the order in which `sweep`
  parks several pieces at once; a shutdown there joins its workers in one step;
- tools, benches, fuzz targets and the build.

In `LzmaEnc` the finder's matches are given by `Pairs`, the result that `LzFind` and
`LzFindMt` are checked to have, rather than by running a finder inside the encoder.

## Plan

1. Proofs: admission and order in `XzParallel` (`VerifiedInOrder`); the cursor's invariant behind
   `ClaimedOnce` in `AdaptiveDecoder`.
2. A thread-free promise that the two adaptive decoders refine.
3. The push encoders with the threaded finder, and `Lzma2Reader` over the adaptive
   decoder, as compositions.
