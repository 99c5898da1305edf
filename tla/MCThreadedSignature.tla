------------------------ MODULE MCThreadedSignature ------------------------
(***************************************************************************)
(* Instance of ThreadedSignature for TLC: an empty file, files of fewer    *)
(* chunks than cores, files whose last block wraps and files that are      *)
(* split as intended.                                                      *)
(***************************************************************************)
EXTENDS ThreadedSignature

CONSTANTS MaxFile

MCFileSizes == 0..MaxFile

=============================================================================
