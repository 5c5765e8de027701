---------------------------- MODULE MCChunkUpload ----------------------------
(***************************************************************************)
(* ChunkUpload for TLC: files, texts and requests are interchangeable.     *)
(***************************************************************************)
EXTENDS ChunkUpload, TLC

UploadSymmetry == Permutations(Job) \cup Permutations(File) \cup Permutations(Text)
=============================================================================
