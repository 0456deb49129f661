---------------------------- MODULE MCChunkLayout ----------------------------
(* Sizes in eighths of a chunk.  The least size for chunking is two chunks,    *)
(* not three, which keeps the plans to three areas or four.                    *)
EXTENDS ChunkLayout

MCSizes == {15, 18, 25}
MCLengths == {3, 13}
=============================================================================
