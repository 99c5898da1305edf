# Verification of veeam-signature

The program computes the signature of a file: the file is cut into chunks, and the CRC32 of
every chunk is written to an output file. There are two implementations, `src/v1` (a memory
mapping, one thread per block) and `src/v2` (`read(2)`, everything a handler of one
`boost::asio::io_context`). Most modules are about v2, the one the repository's README
recommends; `ThreadedSignature` is v1, `Arguments` and `Logging` are about both.

Paths below are relative to the repository's root.

## The system

| Component | State | Operations | What makes it correct |
|---|---|---|---|
| arguments, `src/v2/arguments.cpp` (v1: the same code) | parsed options | parsing of sizes with units, checks of paths and limits | a size within 64 KB to 1 GB, and the one asked for; nothing touched before all checks are made |
| block layout, `src/v2/block_file.cpp`, `signature.cpp` | size of the file, vector of blocks | constructor; `block_count`, `get_block` | blocks are in order, disjoint, inside the file, cover it; as many as the cores allow |
| block reader, `src/v2/block_reader.cpp` | per block: descriptor (and its position), `offset` | constructor, destructor, `operator()`, `do_read`, `read_entire_block`, `read_segment`, the read of the tail | the segments of a block are its bytes, each once, numbered right |
| hasher, `src/v2/hasher.cpp` | none | `operator()`: hash a segment on any thread | a hash per chunk, and one for a remainder |
| writer, `src/v2/writer.cpp` | map of hashed segments, count of chunks, output stream | constructor; `operator()` on a strand | everything is written, in order, once, and reported once |
| main and pool, `src/v2/main.cpp` | `io_context`, vector of readers, threads, `occurred_exception` | construction of all, `shutdown_context`, `thread_worker`, callbacks of readers and writer | the program ends; a success means the signature is written; a failure is not lost; the input survives |
| v1 mapped file, `src/v1/mapped_file.cpp` | the mapping, blocks as pointers into it | constructor, `get_block` | as the block layout of v2 |
| v1 hasher, `src/v1/hasher.cpp` | a vector with a slot per block | a thread per block, joined | every slot has the hashes of its block when the join is over |
| v1 writer and main, `src/v1/writer.cpp`, `main.cpp` | the output file | delete the old file, write, close; map, hash, write in sequence | a success means a complete signature; a failure before the write leaves the old one |
| spdlog 1.8.2 (vendored) | registry, console mutex, two caches of the date, error counter | `info`, `warn`, `error` on the default logger | lines come out whole, with their own time; a failing call does not keep the mutex |

How they interact in v2: main parses, builds the blocks, then the writer (which deletes and
reopens the output), the hasher and a reader per block, each of which opens the input and posts
its first `do_read`. One thread per block (main is number 0) calls
`io_context::run`. `do_read` runs on its reader's strand and posts a read to the pool; the read
calls back with a segment, which posts its hashing, and posts `do_read` again unless it was the
last. The hashing calls the writer, which posts to its own strand; there the segment enters the
map and its whole chunks are counted. When the count reaches the total, everything is written
and the callback has a detached thread stop the context. Errors of reads and of the stream are
posted as handlers that throw: the exception leaves `run()`, is stored in `occurred_exception`,
and the context is stopped as well. Main returns from `run()`, looks for an exception and exits.
The other threads are not joined. All of them log through one console sink.

v1 has no queue: main maps the file, creates a thread per block, joins them all and only then
deletes the old output and writes. The threads share the vector of slots and the logger, nothing
else. Most functions are `noexcept`, so a thread that cannot be created or an allocation that
fails ends the process.

What is hard about it: handlers of all components interleave on several threads; segments arrive
at the writer in any order; the end is recognised by counting; a failure must overtake the work
that goes on; main destroys what other threads may still use; handlers hold pointers into a
vector that is still being filled; two paths may lead to one file; and the arithmetic of the
layout and of the arguments has its boundaries. `PROJECT.json` lists these hazards, each at its
line, with the properties that would catch it.

## Modules

| Module | What it models |
|---|---|
| `Arguments` | the chunk size of the command line, with its unit, modulo 2^64 |
| `Startup` | v2 from the command line to the start of the pool, and every way out |
| `Partition` | `block_t` and the split of a file as a closed form (`Split`) |
| `BlockFile` | the constructor of `block_file_t`, a statement or loop iteration per action |
| `SegmentPlan` | segments, hashed segments, and the segments a block is meant to be read in (`PlanOf`) |
| `Blocks` | what the readers are given: the blocks, the hint for a segment, the file (constants only) |
| `BlockReader` | all readers: every handler is an action, handlers in flight are the set `tasks` |
| `Writer` | the writer's strand handler, with the `flat_map` as a sorted sequence and the stream as open, closed or bad |
| `SignatureJob` | the abstract promise: one write, and success only with a complete file |
| `Pipeline` | main once the pool runs: the `io_context`, its threads, the handlers of all components, the way to the exit; composes `BlockReader` and `Writer` |
| `ThreadedSignature` | v1: main from the mapping to the exit, a thread per block, and the bytes that enter a CRC |
| `Logging` | spdlog's default logger and console sink as all threads use them |
| `MC*` | values for TLC; the blocks are always the ones `Split` computes from a file size |
| `PartitionTheorems` | what holds of `Split` for all arguments |
| `StartupProofs`, `BlockFileProofs`, `BlockReaderProofs`, `WriterProofs`, `PipelineProofs`, `ThreadedSignatureProofs`, `LoggingProofs` | theorems about the specifications, and their proofs |

Correspondence. *Startup*: `stage` is the statement main is at. Names, files and descriptors are
three things: `directory` says what a name stands for, `contents` what a file holds, `open`
which file a descriptor keeps, so that deleting a name, truncating a file through a second name
and reading through an open descriptor come out as they do. A name stands for a file (several
names may, which are hard links), a folder, nothing, or another name, which makes it a symbolic
link; `Follow` goes over one link, `Target` to the end of a path, `Leads` to what is there.
Checking and opening a path follow its links, opening an output that a link leads nowhere creates
the file there, and removing the output removes the name itself. `open(2)` takes the lowest free
descriptor, and standard input may be closed. `buffer` numbers the places the vector of readers
has been at, and a posted handler remembers the one it was posted for. `pathSteals` is how
`boost::filesystem::path` treats a string it is given as an rvalue, on which
`arguments_t`'s constructor depends: it makes absolute what it has moved from
(`arguments.cpp:41`); which one happens depends on the Boost the program is built with.
`RunPool` stands for everything `Pipeline` does. The `Arguments` of v1 are the same text.

*BlockFile*: variables are the constructor's locals and members; `SizeFails`,
`DivisionTraps`, `Estimate`, `Shrink`, `StartLayout`, `EmplaceBlock`, `EmplaceTail` follow the
code from top to bottom. Only the subtraction that sizes the last block can wrap; it is taken
modulo `Word`, which stands for 2^64. *BlockReader*: `offset` is the member, `position` the
descriptor's file position (`AdvancePosition` is `read(2)`, external). A segment's memory is
represented by the position it was read from, so that it can be asked which bytes were hashed.
*Writer*: `inbox` is the queue of the strand; `Handle` is one run of the posted lambda, with the
`emplace` and the count (`Store`) and one of four endings. Chunks and hashes are not computed: a
segment stands for its chunks. *Pipeline*: `posted` is the queue of the context, `running` what
each thread is at; every lambda of the code is an action of the thread that runs it, and its
guard is that the thread has taken it. Storing an exception and stopping the context are two
steps, as is the stop itself, which happens on a detached thread. Memory that runs out in a
`noexcept` function ends the process at any step (`OutOfMemory`). `emitted` and `failed` are
history variables. A strand that is being run may take its next handler at once or queue up
again, which covers asio's batches. The handlers a reader posts to its own strand are plain
handlers: a reader never has two (`OneTaskPerReader`).

*ThreadedSignature*: `stage` is where main is, `thread`, `current_chunk` and `hash` are a thread
and its locals, `signature` the slots. `MapFile` is the whole constructor: its loops are those of
`BlockFile`, statement for statement, and are replaced by the closed form they are proved to
compute. `HashPiece` is one iteration of the loop over the chunks, or the remainder. A hash is
represented by the position and the number of the bytes it is of, and `Crc32Input` says which
bytes of the file that makes enter the CRC, in which order: whole words, then for every byte
behind them the first of those, because `compute_crc32` does not advance there. `file` and
`output` are the
output file; writing it is one step, with any part of it as the outcome of a failure. A file
whose existence cannot be told is truncated rather than deleted (`CheckOutput`), because the code
does not look at that error.

*Logging*: `at` is where a thread is in its call. The message gets its time without a lock, so
times reach the mutex in any order. Under the mutex come the two caches of the date, one of
`pattern_formatter` and one of `full_formatter`, each with a test of its own, and then the pieces
a line is written in: five on a terminal with colours, one otherwise. `output` has the pieces in
the order in which they were written, `lost` those of them that a failed write has lost: what
`fwrite` and `fflush` return is not looked at, so the thread goes on. Formatting may throw before
the lock or under it; the error handler counts every error and reports one a second at most, by
a clock that may be set back. `joined` tells v1 from v2: v2's main destroys the registry while
other threads may hold the logger's raw pointer (`UseDestroyed`).

Undefined behaviour: v1 may read beyond the end of the mapping. There the bytes of the last page
or of another mapping are read (`HashPiece`) or the process is ended (`ReadTraps`), up to
`Readable`, from where on there is nothing to read before the end of the address space. In v2,
once main has returned from `run()` it destroys the readers, the hasher, the
writer, the context and later the logger although other threads may still be using them
(`Dangling`, `UseDestroyed`). The exit status is then what main computed, or `"crashed"`.

Definitions marked *Mutant* are faulty versions of the definition that follows. They belong to
no specification; each is listed in `PROJECT.json` with the property that fails when it takes
the place of the right one, which shows that the property depends on that code.

## Runs

| Run | Bounds | What it shows |
|---|---|---|
| `startup` | 0, 1 or 3 cores; limits 6 to 27, multipliers 3 and 4 for 1000 and 1024, words modulo 128; the output a new name, an old signature, a directory, or the input; input and output symbolic links, to each other too, over one link or two; every call may fail | a size that is worked with is within the limits and the one asked for; a command line that is refused touches nothing; the input survives and is what is signed; the pool starts with readers that exist, each with a descriptor of its own; all descriptors are closed |
| `block_file` | files of 0..50 bytes, 0..5 cores, chunks of 1..4 bytes | the loops compute `Split`; unless the last size wraps, blocks are ordered and disjoint and leave out just the byte after each block; the constructor ends |
| `writer` | 23 bytes, 3 blocks, 6 segments in every order, one of them with a remainder; the stream may fail | sorted, counted, complete on success, only a bare tail can be late, and a report is made |
| `pipeline` | 12 bytes, 2 blocks and threads; a block of 9 bytes read as two full segments and a last one, and a block of 2 bytes read whole, a bare tail; reads and writes may fail, memory may run out | a reader has one handler in flight; the segments are the plan, read in step; mutual exclusion on the writer's strand; no segment is stored twice; only a bare tail is lost and a failure has a cause; `Pipeline` implements `BlockReader`, `Writer` and `SignatureJob`; the program ends |
| `threaded_signature` | every file of 0..39 bytes, 3 cores, chunks of 6 (a word and half of one); every call may fail | a success has all hashes, in order and of the file only; which bytes it depends on; a thread reads its own block, and leaves the file only if the last size wrapped; the old output survives until the threads are joined; `ThreadedSignature` implements `SignatureJob`; the process ends |
| `logging` | main and a worker, two calls each, two seconds, one lost piece; with and without colours, joined or not | lines are printed whole and in order, show their own second, and every call has a line, a failed write or an error; reports are apart; joined threads do not meet a destroyed logger; every call returns |

Why the bounds are enough: a block is either within the hint or read in full segments and a last
one, and `pipeline` has one of each, so that every read of `block_reader.cpp` is made and every
kind of handler is queued or running together with every other; the writer only distinguishes
segments by key and chunk count; the layout of `block_file` has every combination of shrinking,
rounding and wrapping within 50 bytes. Two threads are enough for any pair of handlers to overlap;
that more blocks, segments and threads add nothing is what the proofs of `BlockReader` and
`Pipeline` show, for every safety property. The files of `threaded_signature` are empty, of one,
two and three blocks, with and without a remainder, with a last block that is empty or wraps, with
blocks before it that end beyond the file, and with chunks and remainders that are and are not
whole words (`InWords`); `Readable` leaves room for those to be read. The sizes of `startup` are
scaled so that a product and a negative number can wrap into the limits. Two calls of two threads
in `logging` have a line begun, a line waiting for the mutex with an older or newer second, a
failure under the lock and a piece that gets lost, in every combination; the safety properties
among these are proved for any number. A path over two links is the shortest one with a name in
its middle, and as far as `Target` goes.

Some properties of passing runs name the condition on which the code keeps them.
`ChunkSizeAsAsked`: a number that is negative or beyond 64 bits is accepted if its remainder is
within the limits (`undocumented_sizes`).
`InputSurvives` and `InputIsSigned` (`OutputHitsInput`): if the output's name is the input's, or
one that the input's symbolic links lead over, it is removed, and with it the input or the way to it; if the output
leads to the input and its existence cannot be told, the input is truncated. An output that is a
link to the input, hard or symbolic, is otherwise removed as a name, and the input survives.
`CallsAreAccounted`: a call that a write failed for has no whole line and is not counted as an
error; it is counted apart. `LoggerOutlivesJoined` is about v1, which joins; v2 does not, and there
nothing is promised. `SuccessStaysInFile`: a block may lie beyond the file, but no such run
succeeds.

Six runs show where the code departs from what the repository says of it:

| Run | The repository says | The code does |
|---|---|---|
| `unaligned_blocks` | README, V2: blocks are aligned to the chunk size | each block starts one byte too late (`block_file.cpp:44`); the bytes in between are in no block |
| `wrapped_block` | README, V2: the file is split into blocks; an assertion on the end of the last | with few chunks per core the last size wraps (`block_file.cpp:47`), and the assertion, modulo 2^64, cannot see it |
| `wrong_bytes` | README, V2: the block is read in segments | every descriptor starts at the beginning of the file (`block_reader.cpp:28`) |
| `empty_block` | `block_reader.cpp:74` asserts that `do_read` begins with something left of its block | an empty block, which a file gets whose other blocks use it up, has a reader that begins with nothing |
| `undocumented_sizes` | README, V1: chunks of 64 KB to 1 GB | only the product modulo 2^64 is compared with the limits (`arguments.cpp:144`), so that a negative or a huge number can be accepted |
| `lost_tail` | README, V2: the hashes are written when all segments are hashed | a segment shorter than a chunk is not counted (`writer.cpp:76`): if it is hashed last, the file is written without it |

`block_file.cpp:61` asserts about a name, `size`, that the class does not declare, so the code
builds with `NDEBUG` only; assertions are modelled as properties, never as steps.

## Fairness

`BlockFile` assumes weak fairness of its next-state relation: sequential code keeps executing.
`Writer` assumes that planned
segments go on being delivered and its queue is served. `Pipeline` assumes weak fairness of every
thread, of the detached threads and of main: they are scheduled by the operating system, pinned to
different cores, and none of them spins or waits for another but inside `run()`. No assumption
says which handler a thread takes. In all three no behaviour can go on for ever with real steps,
so liveness rests on progress alone. `ThreadedSignature` assumes weak fairness of main and of
every thread, for the same reason; main's only wait is the join. `Logging` assumes weak fairness
of every thread and of main's end: a thread may wait for the console's mutex, but no one can hold
it for ever and calls are bounded, so that weak fairness is enough and no promise of a fair mutex
is needed. `Startup` and `BlockReader` have safety properties only and assume none; the readers'
chains end by `Pipeline`'s `Terminates`.

## Proofs

All proofs are checked by TLAPS, for every value of the constants that the named assumptions
allow.

`PartitionTheorems` has no assumption. `FittingCountExists` shows that `Split` chooses a count that
there is, `SplitFitsOrWraps` that a split either lies in the file or has a last block that ends
2^64 bytes beyond it, provided a chunk and a byte per core do not reach 2^64, and `BlocksAreWhole`
that all blocks but the last are made of whole chunks. `SplitTiles` says what a split that lies in
the file covers: the blocks are in order and apart, the last ends where the file does, and the
bytes left out are the one after each block but the last. A position is placed by the quotient of
its division by a block and a byte (`CellOfPosition`), which says for every byte which block it is
in or whether it is such a gap. `SplitSuitsReaders` concludes that a split whose last size has not
wrapped satisfies what `BlockReader` and `Pipeline` assume of the blocks they are given.

`StartupProofs` rests on `StartupInputs` and `ArgumentInputs` (names that mean something in every
directory, a greatest core count, limits within a word). `IInv` has a part for every kind of thing
that must come out right on every way out: `Parsed` (past the checks the arguments are what was
asked for), `Disk` (the files are untouched, or the output's old name is removed, or a stream is
open on what that name then stands for), `Slots` (which descriptors are in use: the stream has the
lowest that was free, the readers the next), `Vector` (the readers and the handlers posted for
them, all in the first and only buffer), `Read` and `Closed`. That `Disk` says something of the
failed stages too, after which destructors still run, is what makes it inductive. Of symbolic
links it needs that changing what one name stands for leaves a path alone that does not lead over
that name (`NameChanged`), and that the output's path, once opened, ends where it did (`OutputName`,
`InputLeads`). From it follow
`SizesAreAsAsked`, `RefusalIsHarmless`, `InputIsSafe`, `SignatureIsOfInput`, `PoolStartsRight` and
`AllIsClosed`.

`BlockFileProofs` rests on `InputsAreNaturals` and `WordIsLarge` (a file and its rounding are far
below 2^64 bytes). Its invariant says where the layout loop stands: the next block starts at the
number of blocks laid out times the block size and one. With `RoomForBlocks`, an inequality
about the rounded share of a block, it gives `LargeFilesAreSafe`: a bound from which on no size
wraps. A second
invariant, `Follows`, says that the counts the shrinking loop has passed over leave too little
and that what is laid out is how `Split` begins; it gives `LoopsComputeSplit`, and `SplitTiles` then
`BlocksAreTiles`. `StepsAreFinite` bounds the steps: each takes the constructor nearer to its end,
from at most two more than there are cores.

`BlockReaderProofs` rests on `ReaderInputs` (blocks no longer than the file, chunks of at least a
byte). One half of it is arithmetic about a plan: a full segment is a whole number of chunks
(`FullSegment`), n of them begin the plan of a block that has more (`PartsInPlan`), the last piece
completes it (`PlanFinal`), and together they have each chunk once (`PlanAddsUp`). The other half
is the invariant: every reader is a chain (`Chain`) that stands after some number n of full
segments, having emitted exactly those, with its offset, its descriptor and at most one handler
where n puts them, or that has ended with the whole plan or a failure. The handlers of different
readers touch different chains, so interleaving them keeps it. From it follow `ReadersDoOneThing`,
`ReadersFollowPlan`, `ReadersStayInStep`, `ReadersFindBytes` (only a block without bytes begins
`do_read` with nothing left) and `SegmentsAddUp`. `ChainsAreFinite`
is a variant: every handler that follows another is nearer to the end of its chain, as a number of
the bytes left; it needs that a full segment is not empty (`FullSegment`) and that an offset does
not pass the end of its block.

`WriterProofs` rests on `WriterInputs`: finitely many blocks; segments with different keys and no
chunk in common, whose chunks are chunks of the file. TLC evaluates it on the instances, and
`ReadersFollowPlan` and `SegmentsAddUp` show that the readers deliver no other segments;
`PipelineProofs` proves it of `Pipeline`.
The inductive invariant `IInv` adds three parts to the properties: `DeliveredOnce` (a segment is
in the queue once and not in the map, so an emplace never finds its key: the segments are assumed
to be delivered once here, and `PipelineProofs` proves it), `ReportsMatchStream`
(the stream is open until the first report, so the file is not written twice) and
`CountStaysComplete` (needed for late reports: from a complete count only a segment with no chunk
leads to a complete count). The main argument is that `chunks_count` is the cardinality of the
set of chunks stored; it is a subset of the file's chunks, so equal cardinalities make it all of
them. The order follows from `LowerBoundExists`, which uses that the naturals are well-founded,
and `EmplaceNew`. Proved from `IInv`: `TypeCorrect`, `CountIsRight`,
`SuccessIsComplete`, `SuccessMissesBareTail`, `OutputIsFinal` and `LateReports`.

`PipelineProofs` rests on `PipelineInputs`: blocks numbered in order, all but the last made of
whole chunks, none longer than the file. `SplitSuitsReaders` shows that a split is such a sequence
when the last size does not wrap. `StrandWorks` needs only where the writer's strand is: in the
queue, on a thread, or nowhere with nothing to run. The rest instantiates the proofs of the parts,
`BlockReaderProofs` with the handlers in the queue and on the threads as `tasks`, and
`WriterProofs`; that the constants meet their assumptions is proved (`ReaderInputsHold`,
`WriterInputsHold`). `IInv` is the invariant of either part, with `Control` (the strand),
`OnePlace` (a handler of a reader or the hasher is queued once or on one thread) and `Owed` (a
segment on its way to the writer was read and has not arrived; what has arrived was read), which
makes a step of a thread a step of a reader or none, and of the writer or none (`StepWorks`):
`ReadersImplemented` and `WriterImplemented`, and with them what the parts' proofs say of the
readers (`ReadersDoOneThing`, `ReadersStayInStep`, `ReadersFollowPlan`) and that no segment
reaches the writer a second time (`AssertionHolds`, about `writer.cpp:73`). For the outcome,
`Outcome` adds what was reported with what is in the file (`Reported`), why the context is being
stopped and what set the exception (`Ends`), and how often it can be stopped (`StoppersFew`). With
them come `TypeCorrect`, `SuccessLosesBareTail` (by `OneBareTail`: only the last segment can have
no whole chunk), `FailureIsCaused` and `JobImplemented`.

`ThreadedSignatureProofs` rests on `JobInputs` and `WordIsFarAway` (no address of the mapping, nor
what can be read behind it, comes near 2^64). `IInv` says of each thread that it has a prefix of
its block's hashes and stands behind the last chunk it hashed (`HashedSoFar`), that a thread that
is done has filled its slot (`SlotsComplete`), and that past the join all of them are done
(`Joined`). With `WriteIsLast` this gives `SuccessIsComplete`, `OldOutputIsSafe` and, step by
step, the refinement `ThreadsDoTheJob`. `SuccessIsInFile` needs `Reached` too: all that was hashed
was readable. If the split does not lie in the file, its last block ends 2^64 bytes further on
(`SplitFitsOrWraps`), the last hash of a block ends where the block does (`HashesReachEnd`), so
the last thread cannot be done. `ThreadsStayInBlocks` follows from the same two invariants.
`SignatureDependsOn` says which bytes of the file enter some CRC. The spans of a block's hashes
are in it, cover it and are apart (`SpansInBlock`, `SpansCoverBlock`, `SpansApart`), the blocks
tile the file but for the gaps (`SplitTiles`), so the spans do too (`HashesTile`), and of each
span a CRC takes all but the bytes behind the first one after the last whole word (`CrcInput`).
What is written is a flattened sequence, a fold; that its elements are those of the parts
(`FlattenRange`) is shown by taking the least length for which it would fail, because the
library's induction theorems take an operator as a parameter. `StepsAreFinite` is a variant in two
parts: a step takes main nearer to its end, or leaves main where it is and takes one thread nearer
to its own.

`LoggingProofs` rests on `LoggingInputs` (threads are distinct, the clock is past second 0). Its
invariant `IInv` is the types, that exactly the thread between lock and unlock owns the console
(`Owned`), that the caches hold the date of the second they name (`CachesAgree`) and what a thread
has in hand (`InHand`). On it rest four more: `Printed` (what is written belongs to calls
begun, and to the message in hand), `LineEnds` and `Joints` (the output ends with the piece the
owner wrote last, and lines join whole), `ReportsKept`, and `NobodyLeft` for the end of a process
that joins. They give `StampsOfOwnTime`, `LinesStayWhole`, `ReportsNeverClose` and
`LoggerOutlives`. `CallsAreAnswered` counts: the lines begun, the errors and
the calls in hand (`Pending`) are together as many as the calls begun (`Counted`). A line is a run
of pieces in the output (`Runs`, `SameLine`), so the lines that are not whole are as many as the
calls that a write has failed for (`DamagedLines`). Lines and calls
are finite sets, to which a step adds one element at most; that is where `LoggingInputs` asks for
finitely many workers. `Fresh` (a line in hand is not in the output yet) and `LinesInOrder` keep
a line from being counted twice.

Every invariant and action property that a passing run checks is stated by a theorem. Type
invariants that are proved (`TypeCorrect` in seven modules) are not checked by a run again, but for
those of `Pipeline` and `Startup`. The properties of single readers are stated by `BlockReader`,
where they are proved, and checked and proved again of the readers on the pool.

Only model-checked: liveness, which is out of the prover's reach. `Terminates` of `BlockFile`,
`ThreadedSignature` and `Pipeline`, `Reports` of `Writer` and `CallsReturn` of `Logging` are each
the conclusion of a fairness assumption and of two facts: that nothing goes on for ever, and that
somebody can always take a step. The first is proved where it rests on arithmetic
(both `StepsAreFinite`, and `ChainsAreFinite`); the second, for which TLA+ has ENABLED, is what TLC
adds.

## Not modelled

The value of a CRC and the bytes of the file. Setting a thread's affinity and the measured time,
which nothing depends on. `Pipeline` and `BlockReader` take only files whose last size does not
wrap (`ReaderInputs`); with a wrapped size the reader of the last block reads on for 2^64 bytes,
which `wrapped_block` stands for. If the process ends during the write, the contents of the file
are not described; the exit status is then not a success. Nor is what the stream of a failed write
still flushes when it is destroyed: `WrittenOnce` speaks of the handlers. A piece of a log line is
written or lost as a whole, where `fwrite` may write a part of it. Paths that lead over more than
two symbolic links, and links changed by others while the program runs. The unmapping of v1, whose
failure is only logged, and a file that changes while it is read or mapped.

Nine tenths of the lines in the repository are spdlog and the fmt it bundles: other sinks,
loggers, formatters and flags, asynchronous logging, backtraces, printf and chrono formatting.
The program uses none of them; what it does use of spdlog is `Logging`. Formatting a number or a
text into a buffer is pure computation of an output no property is about. Build files, scripts
and the benchmark's helpers keep no state.

## Plan

1. `Partition`, `BlockFile`, `SegmentPlan`, `BlockReader`, `Writer`, `SignatureJob`, `Pipeline`;
   proofs for `Writer` and `BlockFile`. *Done.*
2. `Startup` and `Arguments` (v2's way to its pool and out). *Done.*
3. Which bytes enter a CRC. *Done*, in `ThreadedSignature`.
4. `ThreadedSignature` (v1) with its proofs. *Done.*
5. `Logging` with its proofs. *Done.*
6. Proofs of `BlockReader`. *Done.*
7. Proofs of `Pipeline`: the strand, the refinements of the readers, of the writer and of
   `SignatureJob`, and the outcomes. *Done.*
8. Proofs of `Startup`, of `BlocksTile`, `InfluentialBytes` and `CallsAreAccounted`, and variants of the
   layout, the readers and v1. *Done.*
9. Left: variants of `Writer`, `Logging` and `Pipeline`.
