----------------------------- MODULE MCBlockFile -----------------------------
(***************************************************************************)
(* Instance of BlockFile for TLC.  The shrinking loop runs when there are  *)
(* more cores than chunks, the last size wraps when there are about as     *)
(* many cores as chunks, and the split is the intended one for the larger  *)
(* files: 0..MaxFile holds all three for every core count and chunk size.  *)
(***************************************************************************)
EXTENDS BlockFile

CONSTANTS MinFile, MaxFile, MaxCores, MaxChunk

MCFileSizes == MinFile..MaxFile
MCCoreCounts == 0..MaxCores
MCChunkSizes == 1..MaxChunk

=============================================================================
