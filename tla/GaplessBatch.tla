---------------------------- MODULE GaplessBatch ----------------------------
(***************************************************************************)
(* What a batch compression promises to its caller: every chunk gets one   *)
(* extent of the result buffer, the extents follow each other without a    *)
(* gap in an arbitrary order of the chunks, and the data of every chunk    *)
(* ends up in its extent (BatchManager.hpp, the comment of the class).     *)
(* How the chunks are shared between thread blocks is left open.           *)
(***************************************************************************)
EXTENDS Integers

CONSTANTS
  NumChunks,            (* number of chunks of the uncompressed buffer *)
  MaxCompChunkSize      (* largest compressed size of a chunk          *)

VARIABLES
  extent,     (* where each chunk lies in the result, Nowhere before that *)
  tail,       (* number of cells of the result given away so far          *)
  stored      (* chunks whose data lies in their extent                   *)

vars == <<extent, tail, stored>>

Chunks == 0 .. NumChunks - 1

\* The extent of a chunk that has none yet: a placed chunk is never empty.
Nowhere == [off |-> 0, size |-> 0]

Init ==
  /\ extent = [c \in Chunks |-> Nowhere]
  /\ tail = 0
  /\ stored = {}

\* Chunk c gets the next n cells of the result.
Place(c) ==
  /\ extent[c] = Nowhere
  /\ \E n \in 1 .. MaxCompChunkSize :
       /\ extent' = [extent EXCEPT ![c] = [off |-> tail, size |-> n]]
       /\ tail' = tail + n
  /\ UNCHANGED stored

\* The compressed data of chunk c arrives in its extent.
Store(c) ==
  /\ extent[c] # Nowhere
  /\ c \notin stored
  /\ stored' = stored \cup {c}
  /\ UNCHANGED <<extent, tail>>

Next == \E c \in Chunks : Place(c) \/ Store(c)

\* Extents once given stay, and no data is dropped or invented.
Safety == Init /\ [][Next]_vars

\* Every chunk is placed and stored in the end.
Spec == Safety /\ WF_vars(Next)
=============================================================================
