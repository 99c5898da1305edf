---------------------------- MODULE MCBlockReader ----------------------------
(***************************************************************************)
(* Instance of BlockReader for TLC: the blocks are the ones the            *)
(* constructor of block_file_t would make of a file of FileSize bytes.     *)
(***************************************************************************)
EXTENDS BlockReader

CONSTANTS Cores, ChunkSize, Word

MCStorage == Split(FileSize, Cores, ChunkSize, Word)

=============================================================================
