------------------------------ MODULE BlockFile ------------------------------
(***************************************************************************)
(* The constructor of block_file_t (src/v2/block_file.cpp), statement by   *)
(* statement: it asks for the size of the file, lowers the number of       *)
(* blocks until a block is at least a chunk long, then lays the blocks     *)
(* out.  Integers are std::size_t; Word stands for 2^64.  Only the         *)
(* subtraction that sizes the last block can wrap: the sums stay far below *)
(* 2^64 for every file a file system can hold (WordIsLarge).               *)
(***************************************************************************)
EXTENDS Partition, FiniteSets

CONSTANTS
    FileSizes,    \* sizes the input file may have
    CoreCounts,   \* what std::thread::hardware_concurrency() may return
    ChunkSizes,   \* chunk sizes the arguments may ask for
    Word          \* 2^w, w the width of std::size_t

ASSUME InputsAreNaturals ==
    /\ FileSizes \subseteq Nat
    /\ CoreCounts \subseteq Nat
    /\ ChunkSizes \subseteq Nat \ {0}

ASSUME WordIsLarge ==
    /\ Word \in Nat
    /\ \A f \in FileSizes, n \in CoreCounts, c \in ChunkSizes : f + n * (c + 1) < Word

VARIABLES
    pc,                      \* the statement the constructor is at
    file_size,               \* member file_size
    cores,                   \* argument block_count, as given
    chunk_size,              \* argument chunk_size
    block_count,             \* argument block_count, as the loop lowers it
    approximate_block_size,
    current_block_start,
    storage                  \* member storage; its length is the loop's index

vars == <<pc, file_size, cores, chunk_size, block_count,
          approximate_block_size, current_block_start, storage>>

\* Where the constructor can end: a block_file_t, an exception for the size
\* of the file, or a division by zero when the core count is not known.
Ended == {"built", "thrown", "trapped"}

Init ==
    /\ pc = "size"
    /\ file_size \in FileSizes
    /\ cores \in CoreCounts
    /\ chunk_size \in ChunkSizes
    /\ block_count = cores
    /\ approximate_block_size = 0
    /\ current_block_start = 0
    /\ storage = <<>>

\* boost::filesystem::file_size sets an error code.
SizeFails ==
    /\ pc = "size"
    /\ pc' = "thrown"
    /\ UNCHANGED <<file_size, cores, chunk_size, block_count,
                   approximate_block_size, current_block_start, storage>>

\* hardware_concurrency() may return 0; the first division then traps.
DivisionTraps ==
    /\ pc = "size"
    /\ block_count = 0
    /\ pc' = "trapped"
    /\ UNCHANGED <<file_size, cores, chunk_size, block_count,
                   approximate_block_size, current_block_start, storage>>

\* The size is known: the first estimate of the block size.
Estimate ==
    /\ pc = "size"
    /\ block_count > 0
    /\ approximate_block_size' = file_size \div block_count
    /\ pc' = "shrink"
    /\ UNCHANGED <<file_size, cores, chunk_size, block_count,
                   current_block_start, storage>>

\* Mutant: a block of exactly one chunk is taken for too small.
TooManyBlocksOrEqual == approximate_block_size <= chunk_size /\ block_count > 1

TooManyBlocks == approximate_block_size < chunk_size /\ block_count > 1

\* Mutant: the loop forgets to lower the block count.
ShrinkNothing ==
    /\ pc = "shrink"
    /\ TooManyBlocks
    /\ UNCHANGED vars

\* One iteration of the while loop.
Shrink ==
    /\ pc = "shrink"
    /\ TooManyBlocks
    /\ block_count' = block_count - 1
    /\ approximate_block_size' = file_size \div block_count'
    /\ UNCHANGED <<pc, file_size, cores, chunk_size, current_block_start, storage>>

StartLayout ==
    /\ pc = "shrink"
    /\ ~TooManyBlocks
    /\ pc' = "layout"
    /\ UNCHANGED <<file_size, cores, chunk_size, block_count,
                   approximate_block_size, current_block_start, storage>>

\* Mutant: the next block starts an unrounded share further on.
EmplaceOverlapping ==
    LET block_size == (1 + (approximate_block_size \div chunk_size)) * chunk_size
    IN  /\ pc = "layout"
        /\ Len(storage) < block_count - 1
        /\ storage' = Append(storage,
               Block(Len(storage), current_block_start, block_size, chunk_size))
        /\ current_block_start' = current_block_start + approximate_block_size
        /\ UNCHANGED <<pc, file_size, cores, chunk_size, block_count,
                       approximate_block_size>>

\* One iteration of the for loop: every block but the last.
EmplaceBlock ==
    LET chunks_in_block == 1 + (approximate_block_size \div chunk_size)
        block_size == chunks_in_block * chunk_size
    IN  /\ pc = "layout"
        /\ Len(storage) < block_count - 1
        /\ storage' = Append(storage,
               Block(Len(storage), current_block_start, block_size, chunk_size))
        /\ current_block_start' = current_block_start + (block_size + 1)
        /\ UNCHANGED <<pc, file_size, cores, chunk_size, block_count,
                       approximate_block_size>>

\* What is left of the file becomes the last block.
EmplaceTail ==
    /\ pc = "layout"
    /\ Len(storage) = block_count - 1
    /\ storage' = Append(storage,
           Block(block_count - 1, current_block_start,
                 WrapSub(file_size, current_block_start, Word), chunk_size))
    /\ pc' = "built"
    /\ UNCHANGED <<file_size, cores, chunk_size, block_count,
                   approximate_block_size, current_block_start>>

\* The constructor has returned or thrown.
Return == pc \in Ended /\ UNCHANGED vars

Next ==
    \/ SizeFails \/ DivisionTraps \/ Estimate
    \/ Shrink \/ StartLayout \/ EmplaceBlock \/ EmplaceTail
    \/ Return

\* The constructor is sequential code: it keeps executing until it ends.
Spec == Init /\ [][Next]_vars /\ WF_vars(Next)

-----------------------------------------------------------------------------
(* Properties *)

BlockType == [block_id : Nat, offset : Nat, size : Nat, chunk_size : Nat \ {0}]

\* Type invariant of the constructor's locals and members.
TypeOK ==
    /\ pc \in {"size", "shrink", "layout"} \cup Ended
    /\ file_size \in FileSizes
    /\ cores \in CoreCounts
    /\ chunk_size \in ChunkSizes
    /\ block_count \in 0..cores
    /\ approximate_block_size \in Nat
    /\ current_block_start \in Nat
    /\ storage \in Seq(BlockType)

Last == storage[Len(storage)]

\* Bytes of the file that block b covers.
Bytes(b) == b.offset .. (b.offset + b.size - 1)

\* The last block's size did not wrap around.
TailFits == Last.size <= file_size

\* The two loops compute the closed form Split: the largest block count that
\* leaves a chunk per block, then equal blocks and a rest.
SplitsAsSpecified ==
    pc = "built" => storage = Split(file_size, cores, chunk_size, Word)

\* Unless the last size wraps, the blocks lie in the file in order and without
\* overlap, all but the last are whole chunks, and the only bytes of the file
\* that no block covers are the ones the layout loop steps over: one after each
\* block but the last.
BlocksTile ==
    pc = "built" /\ TailFits =>
        /\ \A i, j \in 1..Len(storage) : i < j =>
               storage[i].offset + storage[i].size < storage[j].offset
        /\ Last.offset + Last.size = file_size
        /\ \A i \in 1..(Len(storage) - 1) :
               ChunksCount(storage[i]) > 0 /\ TailSize(storage[i]) = 0
        /\ (0..(file_size - 1)) \ UNION {Bytes(storage[i]) : i \in 1..Len(storage)}
             = {storage[i].offset + storage[i].size : i \in 1..(Len(storage) - 1)}

\* A file that is large for its number of blocks is split without wrapping:
\* rounding every block up by a chunk and a byte still leaves the last block
\* a non-negative rest.
LargeFilesFit ==
    /\ pc = "built"
    /\ file_size >= block_count * (block_count - 1) * (chunk_size + 1)
    => TailFits

\* The constructor ends: the shrinking loop cannot go on for ever.
Terminates == <>(pc \in Ended)

-----------------------------------------------------------------------------
(* What the documentation says of the split and the code does not do. *)

\* README.md, V2: the file is split into blocks "with alignment to the chunk
\* size".
BlocksAreAligned ==
    \A i \in 1..Len(storage) : storage[i].offset % chunk_size = 0

\* README.md, V2: it is the file that is split into blocks, so a block lies
\* within the file.  The assertion at the end of the constructor means to
\* check this and cannot: it compares sums modulo 2^64.
BlocksWithinFile ==
    \A i \in 1..Len(storage) : storage[i].offset + storage[i].size <= file_size

=============================================================================
