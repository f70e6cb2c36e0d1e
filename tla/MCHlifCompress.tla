--------------------------- MODULE MCHlifCompress ---------------------------
(* Small launches of the compression kernel for TLC.                       *)
EXTENDS HlifCompress

\* Header memory left over from an earlier use of the result buffer: it
\* describes an extent inside the buffer, so a copy through it does damage.
MCStale == {[off |-> 0, size |-> 2]}

\* What the wrapper's never-written status word holds in shared memory.
MCUnwritten == Status
=============================================================================
