----------------------------- MODULE SegmentPlan -----------------------------
(***************************************************************************)
(* Segments: the pieces of a block that are read, hashed and stored as one *)
(* (src/v2/signature.hpp).  A segment's memory is represented by `from',   *)
(* the position in the file its bytes were read from; hashing keeps it, so *)
(* a hashed segment says which bytes its hashes are of.                    *)
(***************************************************************************)
EXTENDS Partition

Segment(block, chunk_count, tail_size, first_chunk_id, from) ==
    [block_id |-> block.block_id, chunk_count |-> chunk_count, tail_size |-> tail_size,
     first_chunk_id |-> first_chunk_id, from |-> from]

\* segment_hasher_t: one hash per whole chunk and one for the remainder, if
\* there is one; size counts hashes, and chunk_count still only whole chunks.
Hashed(segment) ==
    [block_id |-> segment.block_id,
     first_chunk_id |-> segment.first_chunk_id,
     chunk_count |-> segment.chunk_count,
     size |-> segment.chunk_count + (IF segment.tail_size > 0 THEN 1 ELSE 0),
     from |-> segment.from]

\* The whole chunks of its block that a segment stands for.
ChunkIds(segment) ==
    segment.first_chunk_id .. (segment.first_chunk_id + segment.chunk_count - 1)

\* Bytes a full segment of the block has: as many chunks as fit in the hint,
\* and at least one.
SegmentSize(block, hint) ==
    IF block.chunk_size > hint
    THEN block.chunk_size
    ELSE (hint \div block.chunk_size) * block.chunk_size

-----------------------------------------------------------------------------
(***************************************************************************)
(* The segments a block is meant to be read in, as a set: a block within   *)
(* the hint at once, a larger one in full segments and a last segment of   *)
(* 1 to SegmentSize bytes.  This is what module BlockReader must arrive    *)
(* at.                                                                     *)
(***************************************************************************)
PlanOf(block, hint) ==
    LET full == SegmentSize(block, hint)
        last == (block.size - 1) \div full
        part(i, size) == Segment(block, size \div block.chunk_size,
                                 size % block.chunk_size,
                                 (i * full) \div block.chunk_size, i * full)
    IN  IF block.size <= hint
        THEN {part(0, block.size)}
        ELSE {part(i, full) : i \in 0..(last - 1)}
               \cup {part(last, block.size - last * full)}

=============================================================================
