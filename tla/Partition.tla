------------------------------ MODULE Partition ------------------------------
(***************************************************************************)
(* The blocks a file is cut into, and what a block says of itself          *)
(* (src/v2/signature.cpp, src/v2/block_file.cpp).  Everything here is a    *)
(* constant-level operator: Split is the closed form of the loops that     *)
(* module BlockFile executes step by step.                                 *)
(***************************************************************************)
EXTENDS Integers, Sequences

\* block_t: a contiguous piece of the file, hashed by one reader.
Block(id, offset, size, chunk_size) ==
    [block_id |-> id, offset |-> offset, size |-> size, chunk_size |-> chunk_size]

\* Whole chunks in a block; a shorter remainder is not counted.
ChunksCount(block) == block.size \div block.chunk_size

\* Bytes of the remainder.
TailSize(block) == block.size % block.chunk_size

(***************************************************************************)
(* Division of file_size bytes among at most `cores' blocks.               *)
(***************************************************************************)

\* The block count the shrinking loop stops at: the largest one that leaves
\* every block at least one chunk long, or 1.
FittingCount(file_size, cores, chunk_size) ==
    CHOOSE m \in 1..cores :
        /\ m = 1 \/ file_size \div m >= chunk_size
        /\ \A k \in (m + 1)..cores : file_size \div k < chunk_size

\* Size of every block but the last.
WholeBlockSize(file_size, count, chunk_size) ==
    (1 + ((file_size \div count) \div chunk_size)) * chunk_size

\* Mutant: a difference below zero becomes zero.
SaturatingSub(a, b, word) == IF b > a THEN 0 ELSE a - b

\* std::size_t subtraction: the result is taken modulo 2^64.
WrapSub(a, b, word) == (a - b) % word

\* The storage of a block_file_t, as a sequence: block i is element i + 1.
Split(file_size, cores, chunk_size, word) ==
    LET count == FittingCount(file_size, cores, chunk_size)
        whole == WholeBlockSize(file_size, count, chunk_size)
        start(i) == (i - 1) * (whole + 1)
        last == start(count)
    IN  [i \in 1..count |->
            IF i < count
            THEN Block(i - 1, start(i), whole, chunk_size)
            ELSE Block(i - 1, last, WrapSub(file_size, last, word), chunk_size)]

=============================================================================
