------------------------------- MODULE MCWriter -------------------------------
(***************************************************************************)
(* Instance of Writer for TLC: the hashed segments of a file of FileSize   *)
(* bytes, arriving in every order the strand's queue allows.               *)
(***************************************************************************)
EXTENDS Writer

CONSTANTS FileSize, Cores, ChunkSize, SegmentHint, Word

MCStorage == Split(FileSize, Cores, ChunkSize, Word)

MCPlanned ==
    UNION {{Hashed(s) : s \in PlanOf(MCStorage[i], SegmentHint)} : i \in DOMAIN MCStorage}

\* chunks_total is the sum that the constructor computes, one block at a time.
SumOfChunks[n \in 0..Len(MCStorage)] ==
    IF n = 0 THEN 0 ELSE SumOfChunks[n - 1] + ChunksCount(MCStorage[n])

ASSUME TotalIsTheSum == SumOfChunks[Len(MCStorage)] = chunks_total

\* The hasher is given the blocks' segments and no chunk is left out.
ASSUME PlanIsComplete == UNION {ChunksOf(s) : s \in Planned} = FullChunks

=============================================================================
