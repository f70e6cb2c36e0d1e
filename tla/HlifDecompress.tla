--------------------------- MODULE HlifDecompress ---------------------------
(***************************************************************************)
(* The batch decompression kernel of the high-level interface              *)
(* (hlif_shared.cuh, HlifDecompressBatch).                                 *)
(*                                                                         *)
(* Groups claim chunks as in HlifCompress: by number first, then from an   *)
(* atomic counter, with the chunk index of the group in shared memory.     *)
(* Here nothing is reserved, but the loop body has no barrier of its own   *)
(* between the reads of that index and the next claim: what keeps the      *)
(* warps of a group together are the barriers inside decompress_chunk, if  *)
(* it has any on the path that the chunk takes.                            *)
(*                                                                         *)
(* Warp w of a group writes part w of a chunk's output.                    *)
(***************************************************************************)
EXTENDS Integers, FiniteSets

CONSTANTS
  GridDim,            (* thread blocks of the launch (max_ctas)            *)
  ChunksPerBlock,     (* groups of a block (chunks_per_block)              *)
  Warps,              (* warps of a group                                  *)
  NumChunks,          (* chunks of the result                              *)
  CorruptSets,        (* which chunks may be impossible to decompress      *)
  Barriers,           (* decompress_chunk has a barrier for the group      *)
  StatusWritten,      (* decompress_chunk sets the wrapper's status: not
                         Cascaded's, which sets a local of the same name   *)
  Asserts,            (* the build keeps assertions: CMake does so for the
                         build type Debug, and builds all others with NDEBUG *)
  SharedStatus        (* what uninitialised shared memory may hold         *)

Success == "success"
Error   == "error"
Status  == {Success, Error}

InitialChunks == GridDim * ChunksPerBlock
Groups  == 0 .. InitialChunks - 1
WarpIds == 0 .. Warps - 1
Chunks  == 0 .. NumChunks - 1
NoChunk == NumChunks

ASSUME HlifDecompressAssumption ==
  /\ GridDim \in Nat \ {0}
  /\ ChunksPerBlock \in Nat \ {0}
  /\ Warps \in Nat \ {0}
  /\ ChunksPerBlock > 1 => Warps = 1
  /\ NumChunks \in Nat
  /\ CorruptSets \subseteq SUBSET Chunks /\ CorruptSets # {}
  /\ Barriers \in BOOLEAN
  /\ StatusWritten \in BOOLEAN
  /\ Asserts \in BOOLEAN
  /\ SharedStatus \subseteq Status /\ SharedStatus # {}

VARIABLES
  corrupt,         (* the chunks that cannot be decompressed               *)
  pc,              (* pc[g][w]: where warp w of group g stands             *)
  this_ix_chunk,   (* per group, shared memory: its current chunk          *)
  arg,             (* per warp: the chunks whose data (src), place (dst)
                      and size it passes to decompress_chunk               *)
  shared_status,   (* per group: the wrapper's status word                 *)
  ix_chunk,        (* global atomic: chunks claimed after the first lot    *)
  decomp_buffer,   (* per chunk and part: the chunk whose data is there    *)
  kernel_output_status  (* the status the host reads                       *)

vars == <<corrupt, pc, this_ix_chunk, arg, shared_status, ix_chunk,
          decomp_buffer, kernel_output_status>>

Labels == {"start", "test", "source", "target", "size", "decompress",
           "report", "advance", "await_chunk", "exit", "trap"}

Init ==
  /\ corrupt \in CorruptSets
  /\ pc = [g \in Groups |-> [w \in WarpIds |-> "start"]]
  \* Nothing reads the shared index before Start has written it.
  /\ this_ix_chunk = [g \in Groups |-> g]
  /\ arg = [g \in Groups |->
              [w \in WarpIds |-> [src |-> NoChunk, dst |-> NoChunk,
                                  size |-> NoChunk]]]
  /\ shared_status \in [Groups -> SharedStatus]
  /\ ix_chunk = 0
  /\ decomp_buffer = [c \in Chunks |-> [w \in WarpIds |-> NoChunk]]
  /\ kernel_output_status = Success

\* Warp w of group g moves on from one label to another.
Goto(g, w, from, to) ==
  /\ pc[g][w] = from
  /\ pc' = [pc EXCEPT ![g] = [@ EXCEPT ![w] = to]]

\* A barrier of the group: it waits for the warps that have not stopped.
Sync(g, from, to) ==
  /\ \E w \in WarpIds : pc[g][w] = from
  /\ \A w \in WarpIds : pc[g][w] \in {from, "exit", "trap"}
  /\ pc' = [pc EXCEPT ![g] =
              [w \in WarpIds |-> IF @[w] = from THEN to ELSE @[w]]]

-----------------------------------------------------------------------------
(* Faulty variants of the actions below: the bugs that the properties have *)
(* to notice.  No specification uses them.                                 *)

\* The result of atomicAdd on ix_chunk taken for the new value.
AdvanceSkips(g) ==
  /\ Goto(g, 0, "advance", "await_chunk")
  /\ this_ix_chunk' = [this_ix_chunk EXCEPT ![g] = InitialChunks + ix_chunk + 1]
  /\ ix_chunk' = ix_chunk + 1
  /\ UNCHANGED <<corrupt, arg, shared_status, decomp_buffer,
                 kernel_output_status>>

\* The counter read and not advanced.
AdvanceReads(g) ==
  /\ Goto(g, 0, "advance", "await_chunk")
  /\ this_ix_chunk' = [this_ix_chunk EXCEPT ![g] = InitialChunks + ix_chunk]
  /\ UNCHANGED <<corrupt, arg, shared_status, ix_chunk, decomp_buffer,
                 kernel_output_status>>

\* The status of every chunk is forwarded, success too.
ReportAlways(g) ==
  /\ Goto(g, 0, "report", "advance")
  /\ kernel_output_status' = shared_status[g]
  /\ UNCHANGED <<corrupt, this_ix_chunk, arg, shared_status, ix_chunk,
                 decomp_buffer>>

\* The barrier at the end of the loop body left out.
ChunkUnsynced(g) ==
  /\ \E w \in WarpIds : Goto(g, w, "await_chunk", "test")
  /\ UNCHANGED <<corrupt, this_ix_chunk, arg, shared_status, ix_chunk,
                 decomp_buffer, kernel_output_status>>

-----------------------------------------------------------------------------
\* Every group takes the chunk of its own number.
Start(g) ==
  /\ Sync(g, "start", "test")
  /\ this_ix_chunk' = [this_ix_chunk EXCEPT ![g] = g]
  /\ UNCHANGED <<corrupt, arg, shared_status, ix_chunk, decomp_buffer,
                 kernel_output_status>>

\* assert(blockDim.x == warpSize) behind the loop: in a build that keeps it, a
\* launch whose groups have several warps aborts there.
AfterLoop == IF Asserts /\ Warps # 1 THEN "trap" ELSE "exit"

\* while (this_ix_chunk < num_chunks), evaluated by each warp for itself.
Test(g, w) ==
  /\ Goto(g, w, "test",
          IF this_ix_chunk[g] < NumChunks THEN "source" ELSE AfterLoop)
  /\ UNCHANGED <<corrupt, this_ix_chunk, arg, shared_status, ix_chunk,
                 decomp_buffer, kernel_output_status>>

\* Each argument of decompress_chunk is a read of its own of the volatile
\* index: the compressed data, the place of the output, the compressed size.
Source(g, w) ==
  /\ Goto(g, w, "source", "target")
  /\ arg' = [arg EXCEPT ![g][w].src = this_ix_chunk[g]]
  /\ UNCHANGED <<corrupt, this_ix_chunk, shared_status, ix_chunk,
                 decomp_buffer, kernel_output_status>>

Target(g, w) ==
  /\ Goto(g, w, "target", "size")
  /\ arg' = [arg EXCEPT ![g][w].dst = this_ix_chunk[g]]
  /\ UNCHANGED <<corrupt, this_ix_chunk, shared_status, ix_chunk,
                 decomp_buffer, kernel_output_status>>

Size(g, w) ==
  /\ Goto(g, w, "size", "decompress")
  /\ arg' = [arg EXCEPT ![g][w].size = this_ix_chunk[g]]
  /\ UNCHANGED <<corrupt, this_ix_chunk, shared_status, ix_chunk,
                 decomp_buffer, kernel_output_status>>

\* The chunk a warp finds decompressed, if data and size belong together.
Found(a) ==
  IF a.src \in Chunks \ corrupt /\ a.size = a.src THEN a.src ELSE NoChunk

\* The warps that decompress_chunk keeps together.  With barriers inside
\* (Snappy) all of them; without (Cascaded, for a chunk stored as it is; LZ4
\* has one warp) each goes its own way.
Teams == IF Barriers THEN {WarpIds} ELSE {{w} : w \in WarpIds}

\* A team works by the arguments of its first warp, writes its parts of the
\* output and, with thread 0 in it, sets the status.
DecompressChunk(g, team) ==
  LET a == arg[g][IF 0 \in team THEN 0 ELSE CHOOSE w \in team : TRUE] IN
  /\ \A w \in team : pc[g][w] = "decompress"
  /\ pc' = [pc EXCEPT ![g] = [w \in WarpIds |->
               IF w \notin team THEN @[w]
               ELSE IF w = 0 THEN "report" ELSE "await_chunk"]]
  /\ decomp_buffer' = [c \in Chunks |-> [w \in WarpIds |->
       IF c = a.dst /\ w \in team THEN Found(a) ELSE decomp_buffer[c][w]]]
  /\ shared_status' = IF 0 \in team /\ StatusWritten
                      THEN [shared_status EXCEPT ![g] =
                              IF Found(a) = NoChunk THEN Error ELSE Success]
                      ELSE shared_status
  /\ UNCHANGED <<corrupt, this_ix_chunk, arg, ix_chunk, kernel_output_status>>

\* Thread 0 forwards an error.
Report(g) ==
  /\ Goto(g, 0, "report", "advance")
  /\ kernel_output_status' = IF shared_status[g] # Success
                             THEN shared_status[g] ELSE kernel_output_status
  /\ UNCHANGED <<corrupt, this_ix_chunk, arg, shared_status, ix_chunk,
                 decomp_buffer>>

\* Thread 0 claims the next chunk with atomicAdd on ix_chunk.
Advance(g) ==
  /\ Goto(g, 0, "advance", "await_chunk")
  /\ this_ix_chunk' = [this_ix_chunk EXCEPT ![g] = InitialChunks + ix_chunk]
  /\ ix_chunk' = ix_chunk + 1
  /\ UNCHANGED <<corrupt, arg, shared_status, decomp_buffer,
                 kernel_output_status>>

\* The sync at the end of the loop body.
ChunkReady(g) ==
  /\ Sync(g, "await_chunk", "test")
  /\ UNCHANGED <<corrupt, this_ix_chunk, arg, shared_status, ix_chunk,
                 decomp_buffer, kernel_output_status>>

AllExited == \A g \in Groups : \A w \in WarpIds : pc[g][w] = "exit"

\* The kernel has ended, at the end of its code or by the assertion.
Ended ==
  /\ \A g \in Groups : \A w \in WarpIds : pc[g][w] \in {"exit", "trap"}
  /\ UNCHANGED vars

GroupStep(g) ==
  \/ Start(g)
  \/ \E w \in WarpIds :
       \/ Test(g, w)
       \/ Source(g, w)
       \/ Target(g, w)
       \/ Size(g, w)
  \/ \E team \in Teams : DecompressChunk(g, team)
  \/ Report(g)
  \/ Advance(g)
  \/ ChunkReady(g)

Next == (\E g \in Groups : GroupStep(g)) \/ Ended

\* As in HlifCompress: a resident block runs until it exits.
Spec == Init /\ [][Next]_vars /\ \A g \in Groups : WF_vars(GroupStep(g))

-----------------------------------------------------------------------------
(* Properties.                                                             *)

\* Indices of chunks, claimed ones past the last included.
Indices == 0 .. InitialChunks + NumChunks - 1

\* Every variable keeps its type; in particular there is at most one claim
\* for each chunk, so that the 32-bit counter is never far beyond the last.
TypeOK ==
  /\ corrupt \in CorruptSets
  /\ pc \in [Groups -> [WarpIds -> Labels]]
  /\ this_ix_chunk \in [Groups -> Indices]
  /\ arg \in [Groups ->
               [WarpIds -> [src : Indices, dst : Indices, size : Indices]]]
  /\ shared_status \in [Groups -> Status]
  /\ ix_chunk \in 0 .. NumChunks
  /\ decomp_buffer \in [Chunks -> [WarpIds -> Chunks \cup {NoChunk}]]
  /\ kernel_output_status \in Status

\* The warps of a group decompress the same chunk, to its own place and with
\* its own size: no claim comes between two of the reads.
ArgsAgree ==
  \A g \in Groups : \A w \in WarpIds :
    pc[g][w] = "decompress" =>
      arg[g][w] = [src |-> this_ix_chunk[g], dst |-> this_ix_chunk[g],
                   size |-> this_ix_chunk[g]]

\* When the kernel has ended every part of every sound chunk is in place,
\* whichever group decompressed it.
Complete ==
  AllExited =>
    \A c \in Chunks \ corrupt : \A w \in WarpIds : decomp_buffer[c][w] = c

\* What the host reads in the end is an error exactly if some chunk could not
\* be decompressed: no success of another chunk or group hides it.
StatusTrue == AllExited => (kernel_output_status = Error <=> corrupt # {})

\* A build without assertions ends: no group waits for a barrier one of its
\* warps will not reach.
Terminates == <>AllExited

-----------------------------------------------------------------------------
(* The inductive invariant behind the properties, for launches whose groups *)
(* stay together.                                                          *)

\* A group of one warp, or one that decompress_chunk itself keeps together.
Together == Warps = 1 \/ Barriers

\* The warps of a group are between the same two barriers; a warp past the
\* loop test works on a real chunk and has read its index once per argument.
Phase(g) ==
  LET c == this_ix_chunk[g] IN
  \/ \A w \in WarpIds : pc[g][w] = "start" /\ c = g
  \/ \A w \in WarpIds :
       /\ pc[g][w] \in {"test", "source", "target", "size", "decompress", "exit", "trap"}
       /\ pc[g][w] \in {"exit", "trap"} => c >= NumChunks
       /\ pc[g][w] \notin {"test", "exit", "trap"} => c < NumChunks
       /\ pc[g][w] \in {"target", "size", "decompress"} => arg[g][w].src = c
       /\ pc[g][w] \in {"size", "decompress"} => arg[g][w].dst = c
       /\ pc[g][w] = "decompress" => arg[g][w].size = c
  \/ /\ \A w \in WarpIds \ {0} : pc[g][w] = "await_chunk"
     /\ \/ pc[g][0] \in {"report", "advance"} /\ c < NumChunks
        \/ pc[g][0] = "await_chunk"

PhaseInv == \A g \in Groups : Phase(g)

\* Indices that were claimed and that their group has given up again.
Retired ==
  {i \in 0 .. InitialChunks + ix_chunk - 1 :
     \A g \in Groups : this_ix_chunk[g] # i}

\* Every index a group holds was handed out, none twice, and every claim but
\* the first of a group was paid for with a real chunk.
ClaimInv ==
  /\ \A g \in Groups : this_ix_chunk[g] < InitialChunks + ix_chunk
  /\ \A g, h \in Groups : g # h => this_ix_chunk[g] # this_ix_chunk[h]
  /\ Retired \subseteq Chunks
  /\ Cardinality(Retired) = ix_chunk

\* Chunk c has not been decompressed yet.
Pending(c) ==
  \/ c >= InitialChunks + ix_chunk
  \/ \E g \in Groups :
       /\ this_ix_chunk[g] = c
       /\ pc[g][0] \notin {"report", "advance"}

\* What is no longer pending is in place.
DataInv ==
  \A c \in Chunks \ corrupt :
    Pending(c) \/ \A w \in WarpIds : decomp_buffer[c][w] = c

\* A corrupt chunk that is no longer pending has been reported or is about to
\* be, and nothing else is.
StatusInv ==
  /\ kernel_output_status = Error => corrupt # {}
  /\ \A g \in Groups :
       pc[g][0] = "report" =>
         (shared_status[g] = Error <=> this_ix_chunk[g] \in corrupt)
  /\ \A c \in corrupt :
       \/ Pending(c)
       \/ kernel_output_status = Error
       \/ \E g \in Groups : this_ix_chunk[g] = c /\ pc[g][0] = "report"

\* Inductive if the groups stay together; with the status also if
\* decompress_chunk writes it.
IInv == TypeOK /\ PhaseInv /\ ClaimInv /\ DataInv
=============================================================================
