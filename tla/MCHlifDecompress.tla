-------------------------- MODULE MCHlifDecompress --------------------------
(* Small launches of the decompression kernel for TLC.                     *)
EXTENDS HlifDecompress

\* All chunks sound, or any one of them or the first two corrupt.
MCCorrupt == {{}, {0, 1}} \cup {{c} : c \in Chunks}

MCGarbage == Status
=============================================================================
