---------------------------- MODULE HlifCompress ----------------------------
(***************************************************************************)
(* The batch compression kernel of the high-level interface                *)
(* (hlif_shared.cuh, HlifCompressBatch and copyScratchBuffer).             *)
(*                                                                         *)
(* A group of threads (a whole thread block, or one of its tiles when a    *)
(* block holds several chunks) compresses one chunk at a time into its own *)
(* scratch slot, reserves room in the result buffer with an atomic         *)
(* addition, copies the slot there, and claims the next chunk with another *)
(* atomic addition.  The group's chunk index lives in shared memory, where *)
(* its thread 0 writes it and all its warps read it.                       *)
(*                                                                         *)
(* A warp is the unit that runs.  Result memory is counted in cells: a     *)
(* cell is what one warp moves in one stride of the copy loop, so cell k   *)
(* of a chunk is moved by warp k % Warps.                                  *)
(***************************************************************************)
EXTENDS Integers, FiniteSets

CONSTANTS
  GridDim,            (* thread blocks of the launch (max_ctas)            *)
  ChunksPerBlock,     (* groups of a block (chunks_per_block)              *)
  Warps,              (* warps of a group                                  *)
  NumChunks,          (* chunks of the uncompressed buffer                 *)
  MaxCompChunkSize,   (* cells of a scratch slot                           *)
  StaleEntries,       (* what header memory may hold before it is written  *)
  SharedStatus        (* what uninitialised shared memory may hold         *)

Success == "success"
Status == {Success, "error"}

InitialChunks == GridDim * ChunksPerBlock
Groups  == 0 .. InitialChunks - 1
WarpIds == 0 .. Warps - 1
Chunks  == 0 .. NumChunks - 1
NoChunk == NumChunks
Cells   == 0 .. NumChunks * MaxCompChunkSize - 1
Entries == [off : Nat, size : Nat]

\* With several chunks per block a group is one tile of warpSize threads.
ASSUME HlifAssumption ==
  /\ GridDim \in Nat \ {0}
  /\ ChunksPerBlock \in Nat \ {0}
  /\ Warps \in Nat \ {0}
  /\ ChunksPerBlock > 1 => Warps = 1
  /\ NumChunks \in Nat
  /\ MaxCompChunkSize \in Nat \ {0}
  /\ StaleEntries \subseteq Entries /\ StaleEntries # {}
  /\ SharedStatus \subseteq Status /\ SharedStatus # {}

VARIABLES
  header,              (* has fill_common_header run                       *)
  pc,                  (* pc[g][w]: where warp w of group g stands          *)
  this_ix_chunk,       (* per group, shared memory: its current chunk       *)
  scratch,             (* per group: the chunk whose data its slot holds    *)
  shared_status,       (* per group: the wrapper's status word              *)
  comp_chunk_offsets,  (* header array: offset of each chunk in the result  *)
  comp_chunk_sizes,    (* header array: compressed size of each chunk       *)
  ix_chunk,            (* global atomic: chunks claimed after the first lot *)
  ix_output,           (* global atomic: cells of the result given away     *)
  comp_buffer,         (* result: cell -> <<chunk, cell of that chunk>>     *)
  output_status        (* the status the host reads                         *)

vars == <<header, pc, this_ix_chunk, scratch, shared_status,
          comp_chunk_offsets, comp_chunk_sizes, ix_chunk, ix_output,
          comp_buffer, output_status>>

arrays == <<comp_chunk_offsets, comp_chunk_sizes>>

Labels == {"start", "test", "compress", "reserve", "await_offset", "copy",
           "report", "advance", "await_chunk", "exit"}

\* Warp w of group g moves on from one label to another.
Goto(g, w, from, to) ==
  /\ pc[g][w] = from
  /\ pc' = [pc EXCEPT ![g] = [@ EXCEPT ![w] = to]]

\* cg_group.sync(): all warps of the group leave label "from" together.
Sync(g, from, to) ==
  /\ \A w \in WarpIds : pc[g][w] = from
  /\ pc' = [pc EXCEPT ![g] = [w \in WarpIds |-> to]]

Init ==
  /\ header = FALSE
  /\ pc = [g \in Groups |-> [w \in WarpIds |-> "start"]]
  \* Nothing reads the shared index before Start has written it.
  /\ this_ix_chunk = [g \in Groups |-> g]
  /\ scratch = [g \in Groups |-> NoChunk]
  /\ shared_status \in [Groups -> SharedStatus]
  /\ \E e \in StaleEntries :
       /\ comp_chunk_offsets = [c \in Chunks |-> e.off]
       /\ comp_chunk_sizes = [c \in Chunks |-> e.size]
  /\ ix_chunk = 0
  /\ ix_output = 0
  /\ comp_buffer = [a \in Cells |-> <<NoChunk, 0>>]
  /\ output_status = Success

\* What a warp finds in the header at index c; past the arrays it finds
\* whatever the memory holds.
HeaderEntry(c) ==
  IF c \in Chunks
  THEN {[off |-> comp_chunk_offsets[c], size |-> comp_chunk_sizes[c]]}
  ELSE StaleEntries

-----------------------------------------------------------------------------
(* Faulty variants of the actions below: the bugs that the properties have *)
(* to notice.  No specification uses them.                                 *)

\* The result of atomicAdd on ix_output taken for the new value.
ReserveEnd(g) ==
  /\ Goto(g, 0, "reserve", "await_offset")
  /\ comp_chunk_offsets' = [comp_chunk_offsets EXCEPT ![this_ix_chunk[g]] =
                              ix_output - comp_chunk_sizes[this_ix_chunk[g]]]
  /\ ix_output' = ix_output + comp_chunk_sizes[this_ix_chunk[g]]
  /\ UNCHANGED <<header, this_ix_chunk, scratch, shared_status,
                 comp_chunk_sizes, ix_chunk, comp_buffer, output_status>>

\* A whole slot reserved instead of the compressed size.
ReserveSlot(g) ==
  /\ Goto(g, 0, "reserve", "await_offset")
  /\ comp_chunk_offsets' =
       [comp_chunk_offsets EXCEPT ![this_ix_chunk[g]] = ix_output]
  /\ ix_output' = ix_output + MaxCompChunkSize
  /\ UNCHANGED <<header, this_ix_chunk, scratch, shared_status,
                 comp_chunk_sizes, ix_chunk, comp_buffer, output_status>>

\* A chunk may grow beyond the calculated maximum.
CompressGrows(g) ==
  /\ \A w \in WarpIds : pc[g][w] = "compress"
  /\ pc' = [pc EXCEPT ![g] = [w \in WarpIds |->
                                IF w = 0 THEN "reserve" ELSE "await_offset"]]
  /\ scratch' = [scratch EXCEPT ![g] = this_ix_chunk[g]]
  /\ \E n \in 1 .. MaxCompChunkSize + 1 :
       comp_chunk_sizes' = [comp_chunk_sizes EXCEPT ![this_ix_chunk[g]] = n]
  /\ UNCHANGED <<header, this_ix_chunk, shared_status, comp_chunk_offsets,
                 ix_chunk, ix_output, comp_buffer, output_status>>

\* The last cell of the slot is not copied.
CopyShort(g, w) ==
  /\ Goto(g, w, "copy", IF w = 0 THEN "report" ELSE "await_chunk")
  /\ \E e \in HeaderEntry(this_ix_chunk[g]) :
       comp_buffer' = [a \in Cells |->
         IF a >= e.off /\ a < e.off + e.size - 1 /\ (a - e.off) % Warps = w
         THEN <<scratch[g], a - e.off>>
         ELSE comp_buffer[a]]
  /\ UNCHANGED <<header, this_ix_chunk, scratch, shared_status, arrays,
                 ix_chunk, ix_output, output_status>>

\* The whole slot is copied, whatever the compressed size.
CopySlot(g, w) ==
  /\ Goto(g, w, "copy", IF w = 0 THEN "report" ELSE "await_chunk")
  /\ \E e \in HeaderEntry(this_ix_chunk[g]) :
       comp_buffer' = [a \in Cells |->
         IF a >= e.off /\ a < e.off + MaxCompChunkSize /\ (a - e.off) % Warps = w
         THEN <<scratch[g], a - e.off>>
         ELSE comp_buffer[a]]
  /\ UNCHANGED <<header, this_ix_chunk, scratch, shared_status, arrays,
                 ix_chunk, ix_output, output_status>>

\* Claims start from zero again.
AdvanceFromZero(g) ==
  /\ Goto(g, 0, "advance", "await_chunk")
  /\ this_ix_chunk' = [this_ix_chunk EXCEPT ![g] = ix_chunk]
  /\ ix_chunk' = ix_chunk + 1
  /\ UNCHANGED <<header, scratch, shared_status, arrays, ix_output,
                 comp_buffer, output_status>>

-----------------------------------------------------------------------------
\* Block 0 fills the common header; every group takes the chunk of its own
\* number, which also fixes its scratch slot.
Start(g) ==
  /\ Sync(g, "start", "test")
  /\ header' = (header \/ g = 0)
  /\ this_ix_chunk' = [this_ix_chunk EXCEPT ![g] = g]
  /\ UNCHANGED <<scratch, shared_status, arrays, ix_chunk, ix_output,
                 comp_buffer, output_status>>

\* while (this_ix_chunk < num_chunks), evaluated by each warp for itself.
Test(g, w) ==
  /\ Goto(g, w, "test",
          IF this_ix_chunk[g] < NumChunks THEN "compress" ELSE "exit")
  /\ UNCHANGED <<header, this_ix_chunk, scratch, shared_status, arrays,
                 ix_chunk, ix_output, comp_buffer, output_status>>

\* compress_chunk: all warps of the group work together, with barriers
\* inside, and leave the chunk's compressed form and its size.
Compress(g) ==
  /\ \A w \in WarpIds : pc[g][w] = "compress"
  /\ pc' = [pc EXCEPT ![g] = [w \in WarpIds |->
                                IF w = 0 THEN "reserve" ELSE "await_offset"]]
  /\ scratch' = [scratch EXCEPT ![g] = this_ix_chunk[g]]
  /\ \E n \in 1 .. MaxCompChunkSize :
       comp_chunk_sizes' = [comp_chunk_sizes EXCEPT ![this_ix_chunk[g]] = n]
  /\ UNCHANGED <<header, this_ix_chunk, shared_status, comp_chunk_offsets,
                 ix_chunk, ix_output, comp_buffer, output_status>>

\* Thread 0 reserves the chunk's extent with atomicAdd on ix_output.
Reserve(g) ==
  /\ Goto(g, 0, "reserve", "await_offset")
  /\ comp_chunk_offsets' =
       [comp_chunk_offsets EXCEPT ![this_ix_chunk[g]] = ix_output]
  /\ ix_output' = ix_output + comp_chunk_sizes[this_ix_chunk[g]]
  /\ UNCHANGED <<header, this_ix_chunk, scratch, shared_status,
                 comp_chunk_sizes, ix_chunk, comp_buffer, output_status>>

\* The sync between the reservation and the copy.
OffsetReady(g) ==
  /\ Sync(g, "await_offset", "copy")
  /\ UNCHANGED <<header, this_ix_chunk, scratch, shared_status, arrays,
                 ix_chunk, ix_output, comp_buffer, output_status>>

\* copyScratchBuffer: warp w moves its cells of the group's scratch slot to
\* the extent that the header gives for the chunk index it reads NOW.
Copy(g, w) ==
  /\ Goto(g, w, "copy", IF w = 0 THEN "report" ELSE "await_chunk")
  /\ \E e \in HeaderEntry(this_ix_chunk[g]) :
       comp_buffer' = [a \in Cells |->
         IF a >= e.off /\ a < e.off + e.size /\ (a - e.off) % Warps = w
         THEN <<scratch[g], a - e.off>>
         ELSE comp_buffer[a]]
  /\ UNCHANGED <<header, this_ix_chunk, scratch, shared_status, arrays,
                 ix_chunk, ix_output, output_status>>

\* Thread 0 forwards the wrapper's status word, which no wrapper writes.
Report(g) ==
  /\ Goto(g, 0, "report", "advance")
  /\ output_status' = IF shared_status[g] # Success
                      THEN shared_status[g] ELSE output_status
  /\ UNCHANGED <<header, this_ix_chunk, scratch, shared_status, arrays,
                 ix_chunk, ix_output, comp_buffer>>

\* Thread 0 claims the next chunk with atomicAdd on ix_chunk.
Advance(g) ==
  /\ Goto(g, 0, "advance", "await_chunk")
  /\ this_ix_chunk' = [this_ix_chunk EXCEPT ![g] = InitialChunks + ix_chunk]
  /\ ix_chunk' = ix_chunk + 1
  /\ UNCHANGED <<header, scratch, shared_status, arrays, ix_output,
                 comp_buffer, output_status>>

\* The sync at the end of the loop body.
ChunkReady(g) ==
  /\ Sync(g, "await_chunk", "test")
  /\ UNCHANGED <<header, this_ix_chunk, scratch, shared_status, arrays,
                 ix_chunk, ix_output, comp_buffer, output_status>>

AllExited == \A g \in Groups : \A w \in WarpIds : pc[g][w] = "exit"

\* The kernel has ended.
Ended == AllExited /\ UNCHANGED vars

GroupStep(g) ==
  \/ Start(g)
  \/ \E w \in WarpIds : Test(g, w) \/ Copy(g, w)
  \/ Compress(g)
  \/ Reserve(g)
  \/ OffsetReady(g)
  \/ Report(g)
  \/ Advance(g)
  \/ ChunkReady(g)

Next == (\E g \in Groups : GroupStep(g)) \/ Ended

\* A launched block runs until it exits and its warps are all scheduled: a
\* group that can take a step takes one.
Spec == Init /\ [][Next]_vars /\ \A g \in Groups : WF_vars(GroupStep(g))

-----------------------------------------------------------------------------
(* Where a chunk is on its way.                                            *)

\* Labels of thread 0 between the reservation and the next claim.
AfterReserve == {"await_offset", "copy", "report", "advance"}

Holds(g, c) == this_ix_chunk[g] = c

\* Chunk c was claimed and its group has moved on to another chunk.
Left(c) == c < InitialChunks + ix_chunk /\ \A g \in Groups : ~Holds(g, c)

\* Chunk c has an extent of the result.
Placed(c) ==
  Left(c) \/ \E g \in Groups : Holds(g, c) /\ pc[g][0] \in AfterReserve

\* Cell a of the result belongs to the extent of chunk c.
InExtent(a, c) ==
  a >= comp_chunk_offsets[c] /\ a < comp_chunk_offsets[c] + comp_chunk_sizes[c]

\* All data of chunk c lies in the extent that the header gives for it.
Stored(c) ==
  /\ Placed(c)
  /\ \A a \in Cells :
       InExtent(a, c) => comp_buffer[a] = <<c, a - comp_chunk_offsets[c]>>

-----------------------------------------------------------------------------
(* Properties.                                                             *)

\* Every variable keeps its type: in particular no offset is negative and no
\* status is invented.
TypeOK ==
  /\ header \in BOOLEAN
  /\ pc \in [Groups -> [WarpIds -> Labels]]
  /\ this_ix_chunk \in [Groups -> Nat]
  /\ scratch \in [Groups -> Chunks \cup {NoChunk}]
  /\ shared_status \in [Groups -> Status]
  /\ comp_chunk_offsets \in [Chunks -> Nat]
  /\ comp_chunk_sizes \in [Chunks -> Nat]
  /\ ix_chunk \in Nat
  /\ ix_output \in Nat
  /\ comp_buffer \in [Cells -> (Chunks \cup {NoChunk}) \X Nat]
  /\ output_status \in Status

\* No chunk is compressed by two groups: the initial assignment by group
\* number and the later claims from the atomic counter never meet.
ClaimedOnce ==
  \A g, h \in Groups : g # h => this_ix_chunk[g] # this_ix_chunk[h]

\* The extents of the placed chunks tile the result: they do not overlap,
\* lie below ix_output, and leave no cell below it unused, however the
\* reservations of the groups interleave.
Gapless ==
  /\ \A c, d \in Chunks : c # d /\ Placed(c) /\ Placed(d) =>
       \/ comp_chunk_offsets[c] + comp_chunk_sizes[c] <= comp_chunk_offsets[d]
       \/ comp_chunk_offsets[d] + comp_chunk_sizes[d] <= comp_chunk_offsets[c]
  /\ \A c \in Chunks : Placed(c) =>
       comp_chunk_offsets[c] + comp_chunk_sizes[c] <= ix_output
  /\ \A a \in 0 .. ix_output - 1 :
       \E c \in Chunks : Placed(c) /\ InExtent(a, c)

\* The result never outgrows the room calculated for NumChunks chunks of the
\* largest size.
ResultFits == ix_output <= NumChunks * MaxCompChunkSize

\* When the kernel has ended the header leads to the data of every chunk.
ResultComplete == AllExited => \A c \in Chunks : Stored(c)

\* What a group has stored stays where it is: no later claim, reservation or
\* copy of any group touches the header entry or the data of that chunk.
StoredStays ==
  [][\A c \in Chunks : Stored(c) =>
       /\ Stored(c)'
       /\ comp_chunk_offsets'[c] = comp_chunk_offsets[c]
       /\ comp_chunk_sizes'[c] = comp_chunk_sizes[c]]_vars

\* What the header says of the chunks that have a place, and which of them
\* are stored.
BatchExtent ==
  [c \in Chunks |->
     IF Placed(c)
     THEN [off |-> comp_chunk_offsets[c], size |-> comp_chunk_sizes[c]]
     ELSE [off |-> 0, size |-> 0]]

BatchStored == {c \in Chunks : Stored(c)}

Batch == INSTANCE GaplessBatch WITH
  extent <- BatchExtent, tail <- ix_output, stored <- BatchStored

\* The kernel implements the promise of a gapless batch.
ImplementsBatch == Batch!Spec

-----------------------------------------------------------------------------
(* The inductive invariant behind ClaimedOnce, Gapless and ResultComplete. *)

\* The warps of a group are between the same two barriers, only warp 0 takes
\* thread 0's steps, and a group past the loop test holds a real chunk whose
\* data is in its slot from the compression to the next claim.
PhaseInv ==
  \A g \in Groups :
    /\ \A w \in WarpIds \ {0} :
         pc[g][w] \notin {"reserve", "report", "advance"}
    /\ \/ \A w \in WarpIds : pc[g][w] = "start"
       \/ \A w \in WarpIds :
            \/ pc[g][w] = "test"
            \/ pc[g][w] = "compress" /\ this_ix_chunk[g] < NumChunks
            \/ pc[g][w] = "exit" /\ this_ix_chunk[g] >= NumChunks
       \/ /\ \A w \in WarpIds : pc[g][w] \in {"reserve", "await_offset"}
          /\ this_ix_chunk[g] < NumChunks
          /\ scratch[g] = this_ix_chunk[g]
          /\ comp_chunk_sizes[this_ix_chunk[g]] \in 1 .. MaxCompChunkSize
       \/ /\ \A w \in WarpIds :
               pc[g][w] \in {"copy", "report", "advance", "await_chunk"}
          /\ pc[g][0] # "await_chunk" =>
               this_ix_chunk[g] < NumChunks /\ scratch[g] = this_ix_chunk[g]

\* Every index a group holds was handed out, and none was handed out twice.
ClaimInv ==
  /\ \A g \in Groups : this_ix_chunk[g] < InitialChunks + ix_chunk
  /\ \A g \in Groups :
       (\A w \in WarpIds : pc[g][w] = "start") => this_ix_chunk[g] = g
  /\ ClaimedOnce

\* The placed chunks tile the result, each with a size a slot can hold.
ExtentInv ==
  /\ Gapless
  /\ \A c \in Chunks :
       Placed(c) => comp_chunk_sizes[c] \in 1 .. MaxCompChunkSize

\* The room taken is paid for by the placed chunks, one slot each.
PlacedChunks == {c \in Chunks : Placed(c)}

RoomInv == ix_output <= Cardinality(PlacedChunks) * MaxCompChunkSize

\* With one warp per group, what has been copied is stored.
Copied(c) ==
  \/ Left(c)
  \/ \E g \in Groups : Holds(g, c) /\ pc[g][0] \in {"report", "advance"}

DataInv == \A c \in Chunks : Copied(c) => Stored(c)

\* Nothing of a chunk is in the result before its group has copied it.
FreshInv ==
  \A a \in Cells : comp_buffer[a][1] \in Chunks => Copied(comp_buffer[a][1])

\* The four parts together are inductive.
IInv == TypeOK /\ PhaseInv /\ ClaimInv /\ ExtentInv
=============================================================================
