-------------------------- MODULE ThreadedSignature --------------------------
(***************************************************************************)
(* The first version of the program (src/v1): main maps the file into      *)
(* memory and splits it into blocks, a thread per block hashes it, main    *)
(* joins the threads and writes what they left.  The split is the one of   *)
(* v2, whose loops module BlockFile executes; here it is one step.         *)
(* Positions count from the start of the mapping, and a hash is            *)
(* represented by the bytes it was computed from.                          *)
(***************************************************************************)
EXTENDS Partition, SequencesExt

CONSTANTS
    FileSizes,   \* sizes the input file may have
    Cores,       \* hardware_concurrency(), not 0: BlockFile has that case
    ChunkSize,
    Word,        \* 2^w, w the width of std::size_t
    Readable     \* nothing is mapped from here to the end of the address space

ASSUME JobInputs ==
    /\ FileSizes \subseteq Nat
    /\ Cores \in Nat \ {0}
    /\ ChunkSize \in Nat \ {0}
    /\ Readable \in Nat
    /\ \A f \in FileSizes : f <= Readable

\* A block whose size has wrapped reaches beyond all that can be read.
ASSUME WordIsFarAway ==
    /\ Word \in Nat
    /\ \A f \in FileSizes : f + Cores * (ChunkSize + 1) + Readable < Word

VARIABLES
    file_size,
    stage,           \* what main is at
    storage,         \* member of mapped_file_t: the blocks
    core_index,      \* main's loop over the threads
    thread,          \* state of each thread
    current_chunk,   \* each thread's position
    hash,            \* each thread's hashes so far
    signature,       \* the slots main writes: one per block
    file,            \* the output file: "absent", "old" or "new"
    output,          \* the hashes in a new one
    exit             \* how the process ended, or "none"

threadVars == <<thread, current_chunk, hash, signature>>
fileVars == <<file, output>>
vars == <<file_size, stage, storage, core_index, threadVars, fileVars, exit>>

Threads == 0..(Cores - 1)
BlockOf(t) == storage[t + 1]

\* How many hashes a block has: one per chunk, and one for a remainder.
ExpectedLength(block) ==
    ChunksCount(block) + (IF TailSize(block) > 0 THEN 1 ELSE 0)

\* A hash of `size' bytes from position `from'.
Hash(from, size) == [from |-> from, size |-> size]

\* Bytes in whole words of 4 bytes.
InWords(size) == size - (size % 4)

\* Mutant: bytes after the last whole word are left out.
Crc32InputOfWords(h) == [i \in 1..InWords(h.size) |-> h.from + i - 1]

\* The positions of the bytes that make the CRC of a hash, in the order they
\* enter it: after the last word the same byte again and again, because the
\* pointer is not moved any more.
Crc32Input(h) ==
    [i \in 1..h.size |-> h.from + (IF i <= InWords(h.size) THEN i - 1 ELSE InWords(h.size))]

Init ==
    /\ file_size \in FileSizes
    /\ stage = "map"
    /\ storage = <<>>
    /\ core_index = 0
    /\ thread = [t \in Threads |-> "none"]
    /\ current_chunk = [t \in Threads |-> 0]
    /\ hash = [t \in Threads |-> <<>>]
    /\ signature = [t \in Threads |-> <<>>]
    /\ file \in {"absent", "old"}
    /\ output = <<>>
    /\ exit = "none"

-----------------------------------------------------------------------------
(* main: mapped_file_t and hasher_t *)

\* The size is not found, the file not opened or not mapped: mmap refuses to
\* map nothing.  main catches the exception.
MappingFails ==
    /\ stage = "map"
    /\ stage' = "failed"
    /\ UNCHANGED <<file_size, storage, core_index, threadVars, fileVars, exit>>

MapFile ==
    /\ stage = "map"
    /\ file_size > 0
    /\ storage' = Split(file_size, Cores, ChunkSize, Word)
    /\ stage' = "create"
    /\ UNCHANGED <<file_size, core_index, threadVars, fileVars, exit>>

CreateThread ==
    /\ stage = "create"
    /\ core_index < Len(storage)
    /\ thread' = [thread EXCEPT ![core_index] = "started"]
    /\ core_index' = core_index + 1
    /\ UNCHANGED <<file_size, stage, storage, current_chunk, hash, signature,
                   fileVars, exit>>

\* create_thread throws out of a noexcept function: std::terminate.
CreateThreadFails ==
    /\ stage = "create"
    /\ core_index < Len(storage)
    /\ exit' = "crashed"
    /\ UNCHANGED <<file_size, stage, storage, core_index, threadVars, fileVars>>

StartJoining ==
    /\ stage = "create"
    /\ core_index = Len(storage)
    /\ stage' = "join"
    /\ UNCHANGED <<file_size, storage, core_index, threadVars, fileVars, exit>>

\* Mutant: main goes on without waiting for the threads.
JoinNobody ==
    /\ stage = "join"
    /\ stage' = "check"
    /\ UNCHANGED <<file_size, storage, core_index, threadVars, fileVars, exit>>

\* Mutant: main waits for a thread per core, created or not.
JoinCores ==
    /\ stage = "join"
    /\ \A t \in Threads : thread[t] = "done"
    /\ stage' = "check"
    /\ UNCHANGED <<file_size, storage, core_index, threadVars, fileVars, exit>>

JoinAll ==
    /\ stage = "join"
    /\ \A t \in 0..(core_index - 1) : thread[t] = "done"
    /\ stage' = "check"
    /\ UNCHANGED <<file_size, storage, core_index, threadVars, fileVars, exit>>

-----------------------------------------------------------------------------
(* A thread: block_hasher_t on its block *)

Resize(t) ==
    /\ thread[t] = "started"
    /\ thread' = [thread EXCEPT ![t] = "hashing"]
    /\ current_chunk' = [current_chunk EXCEPT ![t] = BlockOf(t).offset]
    /\ UNCHANGED <<file_size, stage, storage, core_index, hash, signature,
                   fileVars, exit>>

\* hash.resize throws out of a noexcept function: std::terminate.
ResizeFails(t) ==
    /\ thread[t] = "started"
    /\ exit' = "crashed"
    /\ UNCHANGED <<file_size, stage, storage, core_index, threadVars, fileVars>>

HasMore(t) ==
    /\ thread[t] = "hashing"
    /\ Len(hash[t]) < ExpectedLength(BlockOf(t))

\* Mutant: the loop over the chunks runs once too often.
PieceSizeInclusive(t) ==
    IF Len(hash[t]) <= ChunksCount(BlockOf(t)) THEN ChunkSize ELSE TailSize(BlockOf(t))

\* Bytes of the chunk, or of the remainder, that is hashed next.
PieceSize(t) ==
    IF Len(hash[t]) < ChunksCount(BlockOf(t)) THEN ChunkSize ELSE TailSize(BlockOf(t))

\* One chunk, or the remainder.  Bytes beyond the file may be there to read:
\* the rest of its last page, or another mapping.
HashPiece(t) ==
    /\ HasMore(t)
    /\ current_chunk[t] + PieceSize(t) <= Readable
    /\ hash' = [hash EXCEPT ![t] = Append(@, Hash(current_chunk[t], PieceSize(t)))]
    /\ current_chunk' = [current_chunk EXCEPT ![t] = @ + PieceSize(t)]
    /\ UNCHANGED <<file_size, stage, storage, core_index, thread, signature,
                   fileVars, exit>>

\* ... or they are not.
ReadTraps(t) ==
    /\ HasMore(t)
    /\ current_chunk[t] + PieceSize(t) > file_size
    /\ exit' = "crashed"
    /\ UNCHANGED <<file_size, stage, storage, core_index, threadVars, fileVars>>

\* Mutant: the thread captures core_index by reference.
StoreByReference(t) ==
    /\ thread[t] = "hashing"
    /\ ~HasMore(t)
    /\ signature' = [signature EXCEPT ![core_index] = hash[t]]
    /\ thread' = [thread EXCEPT ![t] = "done"]
    /\ UNCHANGED <<file_size, stage, storage, core_index, current_chunk, hash,
                   fileVars, exit>>

\* The thread leaves its hashes in its slot and returns.
Store(t) ==
    /\ thread[t] = "hashing"
    /\ ~HasMore(t)
    /\ signature' = [signature EXCEPT ![t] = hash[t]]
    /\ thread' = [thread EXCEPT ![t] = "done"]
    /\ UNCHANGED <<file_size, stage, storage, core_index, current_chunk, hash,
                   fileVars, exit>>

-----------------------------------------------------------------------------
(* main: writer_t, and the end *)

\* An old output file is deleted.  If its existence cannot be told, the error
\* code is not looked at and the file is taken to be absent.
CheckOutput ==
    /\ stage = "check"
    /\ \/ file' = "absent"
       \/ UNCHANGED file
    /\ stage' = "write"
    /\ UNCHANGED <<file_size, storage, core_index, threadVars, output, exit>>

DeleteFails ==
    /\ stage = "check"
    /\ file = "old"
    /\ stage' = "failed"
    /\ UNCHANGED <<file_size, storage, core_index, threadVars, fileVars, exit>>

\* The slots in the order of the blocks.
AllHashes == FlattenSeq([i \in 1..Len(storage) |-> signature[i - 1]])

\* open, which truncates a file that is there, a write per block, flush, close.
Write ==
    /\ stage = "write"
    /\ file' = "new"
    /\ output' = AllHashes
    /\ stage' = "written"
    /\ UNCHANGED <<file_size, storage, core_index, threadVars, exit>>

OpenFails ==
    /\ stage = "write"
    /\ stage' = "failed"
    /\ UNCHANGED <<file_size, storage, core_index, threadVars, fileVars, exit>>

\* Mutant: the stream does not throw, so nobody notices.
WriteFailsSilently ==
    /\ stage = "write"
    /\ file' = "new"
    /\ \E n \in 0..Len(AllHashes) : output' = SubSeq(AllHashes, 1, n)
    /\ stage' = "written"
    /\ UNCHANGED <<file_size, storage, core_index, threadVars, exit>>

\* A write, the flush or the close fails, when some of it is in the file.
WriteFails ==
    /\ stage = "write"
    /\ file' = "new"
    /\ \E n \in 0..Len(AllHashes) : output' = SubSeq(AllHashes, 1, n)
    /\ stage' = "failed"
    /\ UNCHANGED <<file_size, storage, core_index, threadVars, exit>>

\* main returns; an exception it caught makes it a failure.
Return ==
    /\ \/ stage = "written" /\ exit' = "success"
       \/ stage = "failed" /\ exit' = "failure"
    /\ UNCHANGED <<file_size, stage, storage, core_index, threadVars, fileVars>>

-----------------------------------------------------------------------------

MainStep ==
    /\ exit = "none"
    /\ \/ MappingFails \/ MapFile
       \/ CreateThread \/ CreateThreadFails \/ StartJoining \/ JoinAll
       \/ CheckOutput \/ DeleteFails \/ Write \/ OpenFails \/ WriteFails
       \/ Return

ThreadStep(t) ==
    /\ exit = "none"
    /\ Resize(t) \/ ResizeFails(t) \/ HashPiece(t) \/ ReadTraps(t) \/ Store(t)

Exited == exit # "none" /\ UNCHANGED vars

Next == MainStep \/ (\E t \in Threads : ThreadStep(t)) \/ Exited

\* The operating system schedules main and every thread.
Spec ==
    /\ Init /\ [][Next]_vars
    /\ WF_vars(MainStep)
    /\ \A t \in Threads : WF_vars(ThreadStep(t))

-----------------------------------------------------------------------------
(* Properties *)

\* Blocks of this run: their chunks are all of ChunkSize.
JobBlock == [block_id : Nat, offset : Nat, size : Nat, chunk_size : {ChunkSize}]
HashType == [from : Nat, size : Nat \ {0}]

\* Type invariant.  What is in output is CompleteOnSuccess's concern.
TypeOK ==
    /\ file_size \in FileSizes
    /\ stage \in {"map", "create", "join", "check", "write", "written", "failed"}
    /\ storage \in Seq(JobBlock) /\ Len(storage) <= Cores
    /\ core_index \in 0..Len(storage)
    /\ thread \in [Threads -> {"none", "started", "hashing", "done"}]
    /\ current_chunk \in [Threads -> Nat]
    /\ hash \in [Threads -> Seq(HashType)]
    /\ signature \in [Threads -> Seq(HashType)]
    /\ file \in {"absent", "old", "new"}
    /\ exit \in {"none", "success", "failure", "crashed"}

\* The hashes a block has to have.
HashesOf(block) ==
    [k \in 1..ExpectedLength(block) |->
        Hash(block.offset + (k - 1) * ChunkSize,
             IF k <= ChunksCount(block) THEN ChunkSize ELSE TailSize(block))]

Complete == FlattenSeq([i \in 1..Len(storage) |-> HashesOf(storage[i])])

\* The last block's size did not wrap around.
TailFits == storage[Len(storage)].size <= file_size

\* Whatever the order in which the threads work, a successful run leaves the
\* hashes of all chunks of all blocks, in the order of the file.
CompleteOnSuccess == exit = "success" => file = "new" /\ output = Complete

\* A run that succeeds has hashed bytes of the file only.  Blocks may lie beyond
\* its end, and may be readable there; but then the size of the last one has
\* wrapped, and its thread ends the process before anything is written.
SuccessStaysInFile ==
    exit = "success" =>
        \A i \in DOMAIN storage : storage[i].offset + storage[i].size <= file_size

\* A thread reads its own block only, whatever its size; and if the size of the
\* last block has not wrapped, no thread leaves the file, so that nothing traps.
ReadsOwnBlock ==
    \A t \in Threads :
        HasMore(t) =>
            LET end == current_chunk[t] + PieceSize(t)
            IN  /\ end <= BlockOf(t).offset + BlockOf(t).size
                /\ TailFits => end <= file_size

\* The bytes of the file on which a successful run's signature depends: all that
\* are in a block, except that of the bytes behind the last word of a chunk or a
\* remainder it is the first only.  The byte after each block but the last is in
\* none.
Unhashed(h) == {p \in h.from..(h.from + h.size - 1) : p > h.from + InWords(h.size)}

InfluentialBytes ==
    exit = "success" =>
        LET gaps == {storage[i].offset + storage[i].size : i \in 1..(Len(storage) - 1)}
            lost == UNION {Unhashed(h) : h \in Range(Complete)}
        IN  UNION {Range(Crc32Input(h)) : h \in Range(output)}
                = (0..(file_size - 1)) \ (gaps \cup lost)

\* The output file is not touched before every block has been hashed and
\* stored, so that a crash of a thread leaves the old signature in place.
OldOutputSurvivesHashing ==
    [][file' # file =>
         \A i \in DOMAIN storage :
             thread[i - 1] = "done" /\ signature[i - 1] = HashesOf(storage[i])]_vars

\* The promise of SignatureJob, kept by threads and slots instead of handlers
\* and a map.
Contents ==
    IF file # "new" THEN "empty"
    ELSE IF output = Complete THEN "complete" ELSE "partial"

Job == INSTANCE SignatureJob
           WITH contents <- Contents,
                status <- IF exit = "none" THEN "running" ELSE exit

JobRefined == Job!Spec

\* The process ends.
Terminates == <>(exit # "none")

=============================================================================
