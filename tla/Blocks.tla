-------------------------------- MODULE Blocks --------------------------------
(***************************************************************************)
(* What the readers of v2 are given (src/v2/main.cpp): the blocks that     *)
(* block_file_t has stored, the hint for the size of a segment, and a file *)
(* to read from.  BlockReader and Pipeline are both about these.           *)
(***************************************************************************)
EXTENDS SegmentPlan

CONSTANTS
    Storage,        \* the blocks of the file, as block_file_t stores them
    SegmentHint,    \* g_segment_size_hint
    FileSize,       \* bytes in the input file
    ReadMayFail     \* whether read(2) may return -1

\* The blocks are numbered in order, and none is longer than the file unless its
\* size has wrapped.  A block may be empty.
ASSUME ReaderInputs ==
    /\ Storage # <<>>
    /\ \A i \in DOMAIN Storage :
           /\ Storage[i].block_id = i - 1
           /\ Storage[i].size \in 0..FileSize
           /\ Storage[i].chunk_size \in Nat \ {0}
    /\ SegmentHint \in Nat
    /\ FileSize \in Nat
    /\ ReadMayFail \in BOOLEAN

=============================================================================
