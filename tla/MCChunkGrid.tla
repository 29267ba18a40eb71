----------------------------- MODULE MCChunkGrid -----------------------------
(***************************************************************************)
(* ChunkGrid for TLC: the workers are interchangeable, and the windows of  *)
(* the tiles, which a cfg cannot write down.                               *)
(***************************************************************************)
EXTENDS ChunkGrid, TLC

WorkerSymmetry == Permutations(Workers)

BothChunks == {<<1, 2>>}
==============================================================================
