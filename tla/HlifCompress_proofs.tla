------------------------ MODULE HlifCompress_proofs ------------------------
(***************************************************************************)
(* Proofs about the batch compression kernel, for every launch shape,      *)
(* every number of chunks and every compressed size.                       *)
(***************************************************************************)
EXTENDS HlifCompress, FiniteSetTheorems, TLAPS

\* The launch has at least one group and every group has a warp 0.
LEMMA LaunchShape ==
  /\ InitialChunks \in Nat \ {0}
  /\ 0 \in Groups
  /\ 0 \in WarpIds
  /\ Groups \subseteq Nat
  /\ Chunks \subseteq Nat
  /\ NumChunks \in Nat
  /\ Success \in Status
<1>1. ASSUME NEW a \in Nat \ {0}, NEW b \in Nat \ {0} PROVE a * b \in Nat \ {0}
  OBVIOUS
<1>2. InitialChunks \in Nat \ {0}
  BY <1>1, HlifAssumption DEF HlifAssumption, InitialChunks
<1>3. QED
  BY <1>2, HlifAssumption
  DEF HlifAssumption, Groups, WarpIds, Chunks, Success, Status

\* The initial state satisfies the inductive invariant.
LEMMA InitInv == Init => IInv
<1> SUFFICES ASSUME Init PROVE IInv
  OBVIOUS
<1> USE LaunchShape, HlifAssumption
<1>1. TypeOK
  <2>1. comp_chunk_offsets \in [Chunks -> Nat] /\ comp_chunk_sizes \in [Chunks -> Nat]
    BY DEF Init, HlifAssumption, Entries
  <2>2. pc \in [Groups -> [WarpIds -> Labels]]
    BY DEF Init, Labels
  <2>3. comp_buffer \in [Cells -> (Chunks \cup {NoChunk}) \X Nat]
    BY DEF Init
  <2>4. shared_status \in [Groups -> Status]
    BY DEF Init, HlifAssumption
  <2>5. QED
    BY <2>1, <2>2, <2>3, <2>4 DEF Init, TypeOK
<1>2. PhaseInv
  BY DEF Init, PhaseInv
<1>3. ClaimInv
  BY DEF Init, ClaimInv, ClaimedOnce, Groups
<1>4. ASSUME NEW c \in Chunks PROVE ~Placed(c)
  <2>1. ~Left(c)
    <3>1. CASE c < InitialChunks
      BY <3>1 DEF Init, Left, Holds, Groups, Chunks
    <3>2. CASE ~(c < InitialChunks)
      BY <3>2 DEF Init, Left
    <3>3. QED
      BY <3>1, <3>2
  <2>2. QED
    BY <2>1 DEF Init, Placed, AfterReserve
<1>5. ExtentInv
  BY <1>4 DEF Init, ExtentInv, Gapless
<1>6. QED
  BY <1>1, <1>2, <1>3, <1>5 DEF IInv

-----------------------------------------------------------------------------
(* How the two kinds of control step change pc.                            *)

\* A warp's step to another label moves only that warp.
LEMMA GotoEffect ==
  ASSUME TypeOK, NEW g \in Groups, NEW w \in WarpIds, NEW from, NEW to \in Labels,
         Goto(g, w, from, to)
  PROVE  /\ pc[g][w] = from
         /\ pc' \in [Groups -> [WarpIds -> Labels]]
         /\ pc'[g][w] = to
         /\ \A v \in WarpIds \ {w} : pc'[g][v] = pc[g][v]
         /\ \A h \in Groups \ {g} : pc'[h] = pc[h]
  BY DEF TypeOK, Goto

\* A barrier moves every warp of the group and no other group.
LEMMA SyncEffect ==
  ASSUME TypeOK, NEW g \in Groups, NEW from, NEW to \in Labels,
         Sync(g, from, to)
  PROVE  /\ \A w \in WarpIds : pc[g][w] = from
         /\ pc' \in [Groups -> [WarpIds -> Labels]]
         /\ \A w \in WarpIds : pc'[g][w] = to
         /\ \A h \in Groups \ {g} : pc'[h] = pc[h]
  BY DEF TypeOK, Sync

\* Compression leaves warp 0 before the reservation, the others at the barrier.
LEMMA CompressEffect ==
  ASSUME TypeOK, NEW g \in Groups, Compress(g)
  PROVE  /\ \A w \in WarpIds : pc[g][w] = "compress"
         /\ pc' \in [Groups -> [WarpIds -> Labels]]
         /\ \A w \in WarpIds :
              pc'[g][w] = IF w = 0 THEN "reserve" ELSE "await_offset"
         /\ \A h \in Groups \ {g} : pc'[h] = pc[h]
  BY DEF TypeOK, Compress, Labels

\* A group that thread 0 has taken past the loop test holds a real chunk.
LEMMA HeldChunk ==
  ASSUME TypeOK, PhaseInv, NEW g \in Groups,
         \E w \in WarpIds :
           pc[g][w] \in {"compress", "reserve", "await_offset"}
         \/ pc[g][0] \in {"copy", "report", "advance"}
  PROVE  this_ix_chunk[g] \in Chunks
<1>1. this_ix_chunk[g] \in Nat
  BY DEF TypeOK
<1>2. this_ix_chunk[g] < NumChunks
  BY LaunchShape DEF PhaseInv
<1>3. QED
  BY <1>1, <1>2, LaunchShape DEF Chunks

-----------------------------------------------------------------------------
(* TypeOK and PhaseInv.                                                    *)

\* Every step of the kernel preserves the types.
LEMMA TypeStep == TypeOK /\ PhaseInv /\ [Next]_vars => TypeOK'
<1> SUFFICES ASSUME TypeOK, PhaseInv, [Next]_vars PROVE TypeOK'
  OBVIOUS
<1>1. ASSUME NEW g \in Groups, Start(g) PROVE TypeOK'
  <2>1. pc' \in [Groups -> [WarpIds -> Labels]]
    BY <1>1, SyncEffect DEF Start, Labels
  <2>2. this_ix_chunk' \in [Groups -> Nat]
    BY <1>1, LaunchShape DEF Start, TypeOK
  <2>3. QED
    BY <1>1, <2>1, <2>2 DEF Start, TypeOK, arrays
<1>2. ASSUME NEW g \in Groups, NEW w \in WarpIds, Test(g, w) PROVE TypeOK'
  <2>1. pc' \in [Groups -> [WarpIds -> Labels]]
    BY <1>2, GotoEffect DEF Test, Labels
  <2>2. QED
    BY <1>2, <2>1 DEF Test, TypeOK, arrays
<1>3. ASSUME NEW g \in Groups, Compress(g) PROVE TypeOK'
  <2>1. this_ix_chunk[g] \in Chunks
    BY <1>3, HeldChunk, LaunchShape DEF Compress
  <2>2. pc' \in [Groups -> [WarpIds -> Labels]]
    BY <1>3, CompressEffect
  <2>3. scratch' \in [Groups -> Chunks \cup {NoChunk}]
    BY <1>3, <2>1 DEF Compress, TypeOK
  <2>4. comp_chunk_sizes' \in [Chunks -> Nat]
    <3>1. PICK n \in 1 .. MaxCompChunkSize :
            comp_chunk_sizes' = [comp_chunk_sizes EXCEPT ![this_ix_chunk[g]] = n]
      BY <1>3 DEF Compress
    <3>2. n \in Nat
      OBVIOUS
    <3>3. QED
      BY <3>1, <3>2 DEF TypeOK
  <2>5. QED
    BY <1>3, <2>2, <2>3, <2>4 DEF Compress, TypeOK
<1>4. ASSUME NEW g \in Groups, Reserve(g) PROVE TypeOK'
  <2>1. this_ix_chunk[g] \in Chunks
    BY <1>4, HeldChunk, LaunchShape DEF Reserve, Goto
  <2>2. pc' \in [Groups -> [WarpIds -> Labels]]
    BY <1>4, GotoEffect, LaunchShape DEF Reserve, Labels
  <2>3. comp_chunk_offsets' \in [Chunks -> Nat] /\ ix_output' \in Nat
    BY <1>4, <2>1 DEF Reserve, TypeOK
  <2>4. QED
    BY <1>4, <2>2, <2>3 DEF Reserve, TypeOK
<1>5. ASSUME NEW g \in Groups, OffsetReady(g) PROVE TypeOK'
  <2>1. pc' \in [Groups -> [WarpIds -> Labels]]
    BY <1>5, SyncEffect DEF OffsetReady, Labels
  <2>2. QED
    BY <1>5, <2>1 DEF OffsetReady, TypeOK, arrays
<1>6. ASSUME NEW g \in Groups, NEW w \in WarpIds, Copy(g, w) PROVE TypeOK'
  <2>1. pc' \in [Groups -> [WarpIds -> Labels]]
    BY <1>6, GotoEffect DEF Copy, Labels
  <2>2. PICK e \in HeaderEntry(this_ix_chunk[g]) :
          comp_buffer' = [a \in Cells |->
            IF a >= e.off /\ a < e.off + e.size /\ (a - e.off) % Warps = w
            THEN <<scratch[g], a - e.off>> ELSE comp_buffer[a]]
    BY <1>6 DEF Copy
  <2>3. e.off \in Nat
    BY HlifAssumption DEF HeaderEntry, TypeOK, HlifAssumption, Entries
  <2>4. \A a \in Cells : a >= e.off => a - e.off \in Nat
    BY <2>3 DEF Cells
  <2>5. comp_buffer' \in [Cells -> (Chunks \cup {NoChunk}) \X Nat]
    BY <2>2, <2>4 DEF TypeOK
  <2>6. QED
    BY <1>6, <2>1, <2>5 DEF Copy, TypeOK, arrays
<1>7. ASSUME NEW g \in Groups, Report(g) PROVE TypeOK'
  <2>1. pc' \in [Groups -> [WarpIds -> Labels]]
    BY <1>7, GotoEffect, LaunchShape DEF Report, Labels
  <2>2. QED
    BY <1>7, <2>1 DEF Report, TypeOK, arrays
<1>8. ASSUME NEW g \in Groups, Advance(g) PROVE TypeOK'
  <2>1. pc' \in [Groups -> [WarpIds -> Labels]]
    BY <1>8, GotoEffect, LaunchShape DEF Advance, Labels
  <2>2. this_ix_chunk' \in [Groups -> Nat] /\ ix_chunk' \in Nat
    BY <1>8, LaunchShape DEF Advance, TypeOK
  <2>3. QED
    BY <1>8, <2>1, <2>2 DEF Advance, TypeOK, arrays
<1>9. ASSUME NEW g \in Groups, ChunkReady(g) PROVE TypeOK'
  <2>1. pc' \in [Groups -> [WarpIds -> Labels]]
    BY <1>9, SyncEffect DEF ChunkReady, Labels
  <2>2. QED
    BY <1>9, <2>1 DEF ChunkReady, TypeOK, arrays
<1>10. CASE UNCHANGED vars
  BY <1>10 DEF vars, arrays, TypeOK
<1>11. QED
  BY <1>1, <1>2, <1>3, <1>4, <1>5, <1>6, <1>7, <1>8, <1>9, <1>10
  DEF Next, GroupStep, Ended

\* A step that moves only group g keeps the phases of the other groups.
LEMMA PhaseOthers ==
  ASSUME PhaseInv, TypeOK, NEW g \in Groups,
         \A h \in Groups \ {g} :
           /\ pc'[h] = pc[h]
           /\ this_ix_chunk'[h] = this_ix_chunk[h]
           /\ scratch'[h] = scratch[h]
           /\ (\A w \in WarpIds : pc[h][w] \in {"reserve", "await_offset"})
               => comp_chunk_sizes'[this_ix_chunk[h]]
                    = comp_chunk_sizes[this_ix_chunk[h]],
         /\ \A w \in WarpIds \ {0} :
              pc'[g][w] \notin {"reserve", "report", "advance"}
         /\ \/ \A w \in WarpIds : pc'[g][w] = "start"
            \/ \A w \in WarpIds :
                 \/ pc'[g][w] = "test"
                 \/ pc'[g][w] = "compress" /\ this_ix_chunk'[g] < NumChunks
                 \/ pc'[g][w] = "exit" /\ this_ix_chunk'[g] >= NumChunks
            \/ /\ \A w \in WarpIds : pc'[g][w] \in {"reserve", "await_offset"}
               /\ this_ix_chunk'[g] < NumChunks
               /\ scratch'[g] = this_ix_chunk'[g]
               /\ comp_chunk_sizes'[this_ix_chunk'[g]] \in 1 .. MaxCompChunkSize
            \/ /\ \A w \in WarpIds :
                    pc'[g][w] \in {"copy", "report", "advance", "await_chunk"}
               /\ pc'[g][0] # "await_chunk" =>
                    this_ix_chunk'[g] < NumChunks
                    /\ scratch'[g] = this_ix_chunk'[g]
  PROVE  PhaseInv'
<1>1. ASSUME NEW h \in Groups \ {g}
      PROVE  /\ pc'[h] = pc[h]
             /\ this_ix_chunk'[h] = this_ix_chunk[h]
             /\ scratch'[h] = scratch[h]
             /\ (\A w \in WarpIds : pc[h][w] \in {"reserve", "await_offset"})
                 => comp_chunk_sizes'[this_ix_chunk[h]]
                      = comp_chunk_sizes[this_ix_chunk[h]]
  OBVIOUS
<1>2. QED
  BY <1>1 DEF PhaseInv

\* Every step keeps the warps of a group between the same two barriers.
LEMMA PhaseStep == IInv /\ [Next]_vars => PhaseInv'
<1> SUFFICES ASSUME IInv, [Next]_vars PROVE PhaseInv'
  OBVIOUS
<1> USE LaunchShape DEF IInv
<1>1. ASSUME NEW g \in Groups, Start(g) PROVE PhaseInv'
  <2>1. \A w \in WarpIds : pc'[g][w] = "test"
    BY <1>1, SyncEffect DEF Start, Labels
  <2>2. \A h \in Groups \ {g} : pc'[h] = pc[h]
    BY <1>1, SyncEffect DEF Start, Labels
  <2>3. \A h \in Groups \ {g} : this_ix_chunk'[h] = this_ix_chunk[h]
    BY <1>1 DEF Start, TypeOK
  <2>4. scratch' = scratch /\ comp_chunk_sizes' = comp_chunk_sizes
    BY <1>1 DEF Start, arrays
  <2>5. \A w \in WarpIds :
          \/ pc'[g][w] = "test"
          \/ pc'[g][w] = "compress" /\ this_ix_chunk'[g] < NumChunks
          \/ pc'[g][w] = "exit" /\ this_ix_chunk'[g] >= NumChunks
    BY <2>1
  <2>6. \A w \in WarpIds \ {0} :
          pc'[g][w] \notin {"reserve", "report", "advance"}
    BY <2>1
  <2>7. \A h \in Groups \ {g} :
          /\ pc'[h] = pc[h]
          /\ this_ix_chunk'[h] = this_ix_chunk[h]
          /\ scratch'[h] = scratch[h]
          /\ comp_chunk_sizes'[this_ix_chunk[h]]
               = comp_chunk_sizes[this_ix_chunk[h]]
    BY <2>2, <2>3, <2>4
  <2>8. QED
    BY <2>5, <2>6, <2>7, PhaseOthers
<1>2. ASSUME NEW g \in Groups, NEW w \in WarpIds, Test(g, w) PROVE PhaseInv'
  <2>1. /\ pc[g][w] = "test"
        /\ pc'[g][w] = IF this_ix_chunk[g] < NumChunks THEN "compress" ELSE "exit"
        /\ \A v \in WarpIds \ {w} : pc'[g][v] = pc[g][v]
        /\ \A h \in Groups \ {g} : pc'[h] = pc[h]
    <3>1. PICK to \in Labels :
            to = IF this_ix_chunk[g] < NumChunks THEN "compress" ELSE "exit"
      BY DEF Labels
    <3>2. Goto(g, w, "test", to)
      BY <1>2, <3>1 DEF Test
    <3>3. /\ pc[g][w] = "test"
          /\ pc'[g][w] = to
          /\ \A v \in WarpIds \ {w} : pc'[g][v] = pc[g][v]
          /\ \A h \in Groups \ {g} : pc'[h] = pc[h]
      BY <3>2, GotoEffect
    <3>4. QED
      BY <3>1, <3>3
  <2>2. this_ix_chunk[g] \in Nat
    BY DEF TypeOK
  <2>3. \A v \in WarpIds :
            \/ pc[g][v] = "test"
            \/ pc[g][v] = "compress" /\ this_ix_chunk[g] < NumChunks
            \/ pc[g][v] = "exit" /\ this_ix_chunk[g] >= NumChunks
    BY <2>1 DEF PhaseInv
  <2>4. \A v \in WarpIds :
            \/ pc'[g][v] = "compress" /\ this_ix_chunk'[g] < NumChunks
            \/ pc'[g][v] = "exit" /\ this_ix_chunk'[g] >= NumChunks
            \/ pc'[g][v] = "test"
    BY <1>2, <2>1, <2>2, <2>3 DEF Test
  <2>5. QED
    BY <1>2, <2>1, <2>4, PhaseOthers DEF Test, arrays
<1>3. ASSUME NEW g \in Groups, Compress(g) PROVE PhaseInv'
  <2>1. this_ix_chunk[g] \in Chunks
    BY <1>3, HeldChunk DEF Compress
  <2>2. this_ix_chunk[g] < NumChunks
    BY <2>1 DEF Chunks
  <2>3. /\ \A w \in WarpIds : pc'[g][w] \in {"reserve", "await_offset"}
        /\ \A w \in WarpIds \ {0} : pc'[g][w] = "await_offset"
        /\ \A h \in Groups \ {g} : pc'[h] = pc[h]
    BY <1>3, CompressEffect
  <2>4. scratch'[g] = this_ix_chunk[g] /\ this_ix_chunk' = this_ix_chunk
    BY <1>3 DEF Compress, TypeOK
  <2>5. PICK n \in 1 .. MaxCompChunkSize :
          comp_chunk_sizes' = [comp_chunk_sizes EXCEPT ![this_ix_chunk[g]] = n]
    BY <1>3 DEF Compress
  <2>6. comp_chunk_sizes'[this_ix_chunk[g]] \in 1 .. MaxCompChunkSize
    BY <2>1, <2>5 DEF TypeOK
  <2>7. \A h \in Groups \ {g} :
          comp_chunk_sizes'[this_ix_chunk[h]] = comp_chunk_sizes[this_ix_chunk[h]]
    BY <2>5 DEF TypeOK, ClaimInv, ClaimedOnce
  <2>8. \A h \in Groups \ {g} : scratch'[h] = scratch[h]
    BY <1>3 DEF Compress, TypeOK
  <2>9. QED
    BY <2>2, <2>3, <2>4, <2>6, <2>7, <2>8, PhaseOthers
<1>4. ASSUME NEW g \in Groups, Reserve(g) PROVE PhaseInv'
  <2>1. /\ pc[g][0] = "reserve" /\ pc'[g][0] = "await_offset"
        /\ \A v \in WarpIds \ {0} : pc'[g][v] = pc[g][v]
        /\ \A h \in Groups \ {g} : pc'[h] = pc[h]
    BY <1>4, GotoEffect DEF Reserve, Labels
  <2>2. /\ \A w \in WarpIds : pc[g][w] \in {"reserve", "await_offset"}
        /\ this_ix_chunk[g] < NumChunks
        /\ scratch[g] = this_ix_chunk[g]
        /\ comp_chunk_sizes[this_ix_chunk[g]] \in 1 .. MaxCompChunkSize
    BY <2>1 DEF PhaseInv
  <2>3. \A w \in WarpIds \ {0} : pc[g][w] \notin {"reserve", "report", "advance"}
    BY DEF PhaseInv
  <2>4. \A w \in WarpIds : pc'[g][w] \in {"reserve", "await_offset"}
    BY <2>1, <2>2
  <2>5. QED
    BY <1>4, <2>1, <2>2, <2>3, <2>4, PhaseOthers DEF Reserve
<1>5. ASSUME NEW g \in Groups, OffsetReady(g) PROVE PhaseInv'
  <2>1. /\ \A w \in WarpIds : pc[g][w] = "await_offset"
        /\ \A w \in WarpIds : pc'[g][w] = "copy"
        /\ \A h \in Groups \ {g} : pc'[h] = pc[h]
    <3>1. Sync(g, "await_offset", "copy") /\ "copy" \in Labels
      BY <1>5 DEF OffsetReady, Labels
    <3>2. QED
      BY <3>1, SyncEffect, Zenon
  <2>2. this_ix_chunk[g] < NumChunks /\ scratch[g] = this_ix_chunk[g]
    BY <2>1 DEF PhaseInv
  <2>3. QED
    BY <1>5, <2>1, <2>2, PhaseOthers DEF OffsetReady, arrays
<1>6. ASSUME NEW g \in Groups, NEW w \in WarpIds, Copy(g, w) PROVE PhaseInv'
  <2>1. /\ pc[g][w] = "copy"
        /\ pc'[g][w] = IF w = 0 THEN "report" ELSE "await_chunk"
        /\ \A v \in WarpIds \ {w} : pc'[g][v] = pc[g][v]
        /\ \A h \in Groups \ {g} : pc'[h] = pc[h]
    <3>1. PICK to \in Labels : to = IF w = 0 THEN "report" ELSE "await_chunk"
      BY DEF Labels
    <3>2. Goto(g, w, "copy", to)
      BY <1>6, <3>1 DEF Copy
    <3>3. /\ pc[g][w] = "copy"
          /\ pc'[g][w] = to
          /\ \A v \in WarpIds \ {w} : pc'[g][v] = pc[g][v]
          /\ \A h \in Groups \ {g} : pc'[h] = pc[h]
      BY <3>2, GotoEffect
    <3>4. QED
      BY <3>1, <3>3
  <2>2. /\ \A v \in WarpIds :
             pc[g][v] \in {"copy", "report", "advance", "await_chunk"}
        /\ pc[g][0] # "await_chunk" =>
             this_ix_chunk[g] < NumChunks /\ scratch[g] = this_ix_chunk[g]
    BY <2>1 DEF PhaseInv
  <2>3. \A v \in WarpIds \ {0} : pc[g][v] \notin {"reserve", "report", "advance"}
    BY DEF PhaseInv
  <2>4. /\ \A v \in WarpIds :
             pc'[g][v] \in {"copy", "report", "advance", "await_chunk"}
        /\ \A v \in WarpIds \ {0} : pc'[g][v] \notin {"reserve", "report", "advance"}
        /\ pc'[g][0] # "await_chunk" => pc[g][0] # "await_chunk"
    BY <2>1, <2>2, <2>3
  <2>5. QED
    BY <1>6, <2>1, <2>2, <2>4, PhaseOthers DEF Copy, arrays
<1>7. ASSUME NEW g \in Groups, Report(g) PROVE PhaseInv'
  <2>1. /\ pc[g][0] = "report" /\ pc'[g][0] = "advance"
        /\ \A v \in WarpIds \ {0} : pc'[g][v] = pc[g][v]
        /\ \A h \in Groups \ {g} : pc'[h] = pc[h]
    BY <1>7, GotoEffect DEF Report, Labels
  <2>2. /\ \A v \in WarpIds :
             pc[g][v] \in {"copy", "report", "advance", "await_chunk"}
        /\ this_ix_chunk[g] < NumChunks /\ scratch[g] = this_ix_chunk[g]
        /\ \A v \in WarpIds \ {0} : pc[g][v] \notin {"reserve", "report", "advance"}
    BY <2>1 DEF PhaseInv
  <2>3. \A v \in WarpIds :
          pc'[g][v] \in {"copy", "report", "advance", "await_chunk"}
    BY <2>1, <2>2
  <2>4. QED
    BY <1>7, <2>1, <2>2, <2>3, PhaseOthers DEF Report, arrays
<1>8. ASSUME NEW g \in Groups, Advance(g) PROVE PhaseInv'
  <2>1. /\ pc[g][0] = "advance" /\ pc'[g][0] = "await_chunk"
        /\ \A v \in WarpIds \ {0} : pc'[g][v] = pc[g][v]
        /\ \A h \in Groups \ {g} : pc'[h] = pc[h]
    BY <1>8, GotoEffect DEF Advance, Labels
  <2>2. /\ \A v \in WarpIds :
             pc[g][v] \in {"copy", "report", "advance", "await_chunk"}
        /\ \A v \in WarpIds \ {0} : pc[g][v] \notin {"reserve", "report", "advance"}
    BY <2>1 DEF PhaseInv
  <2>3. \A v \in WarpIds :
          pc'[g][v] \in {"copy", "report", "advance", "await_chunk"}
    BY <2>1, <2>2
  <2>4. \A h \in Groups \ {g} : this_ix_chunk'[h] = this_ix_chunk[h]
    BY <1>8 DEF Advance, TypeOK
  <2>5. QED
    BY <1>8, <2>1, <2>2, <2>3, <2>4, PhaseOthers DEF Advance, arrays
<1>9. ASSUME NEW g \in Groups, ChunkReady(g) PROVE PhaseInv'
  <2>1. /\ \A w \in WarpIds : pc'[g][w] = "test"
        /\ \A h \in Groups \ {g} : pc'[h] = pc[h]
    BY <1>9, SyncEffect DEF ChunkReady, Labels
  <2>2. QED
    BY <1>9, <2>1, PhaseOthers DEF ChunkReady, arrays
<1>10. CASE UNCHANGED vars
  BY <1>10 DEF vars, arrays, PhaseInv
<1>11. QED
  BY <1>1, <1>2, <1>3, <1>4, <1>5, <1>6, <1>7, <1>8, <1>9, <1>10
  DEF Next, GroupStep, Ended

-----------------------------------------------------------------------------
(* Claims.                                                                 *)

\* A group that has left the start keeps out of it.
LEMMA StartOnly ==
  ASSUME TypeOK, NEW g \in Groups, GroupStep(g)
  PROVE  \A h \in Groups :
           (\A w \in WarpIds : pc'[h][w] = "start")
             => h # g /\ (\A w \in WarpIds : pc[h][w] = "start")
<1> USE LaunchShape
<1>1. ASSUME NEW from, NEW to \in Labels \ {"start"}, NEW w \in WarpIds,
             Goto(g, w, from, to)
      PROVE  pc'[g][w] # "start" /\ \A h \in Groups \ {g} : pc'[h] = pc[h]
  BY <1>1, GotoEffect
<1>2. ASSUME NEW from, NEW to \in Labels \ {"start"}, Sync(g, from, to)
      PROVE  pc'[g][0] # "start" /\ \A h \in Groups \ {g} : pc'[h] = pc[h]
  BY <1>2, SyncEffect
<1>3. ASSUME Compress(g)
      PROVE  pc'[g][0] # "start" /\ \A h \in Groups \ {g} : pc'[h] = pc[h]
  BY <1>3, CompressEffect
<1>4. CASE Start(g)
  BY <1>2, <1>4 DEF Start, Labels
<1>5. ASSUME NEW w \in WarpIds, Test(g, w)
      PROVE  pc'[g][w] # "start" /\ \A h \in Groups \ {g} : pc'[h] = pc[h]
  BY <1>1, <1>5 DEF Test, Labels
<1>6. ASSUME NEW w \in WarpIds, Copy(g, w)
      PROVE  pc'[g][w] # "start" /\ \A h \in Groups \ {g} : pc'[h] = pc[h]
  BY <1>1, <1>6 DEF Copy, Labels
<1>7. CASE Reserve(g)
  BY <1>1, <1>7 DEF Reserve, Labels
<1>8. CASE OffsetReady(g)
  BY <1>2, <1>8 DEF OffsetReady, Labels
<1>9. CASE Report(g)
  BY <1>1, <1>9 DEF Report, Labels
<1>10. CASE Advance(g)
  BY <1>1, <1>10 DEF Advance, Labels
<1>11. CASE ChunkReady(g)
  BY <1>2, <1>11 DEF ChunkReady, Labels
<1>12. QED
  BY <1>3, <1>4, <1>5, <1>6, <1>7, <1>8, <1>9, <1>10, <1>11 DEF GroupStep

\* Every step keeps the claims of the groups apart and below the counter.
LEMMA ClaimStep == IInv /\ [Next]_vars => ClaimInv'
<1> SUFFICES ASSUME IInv, [Next]_vars PROVE ClaimInv'
  OBVIOUS
<1> USE LaunchShape DEF IInv
<1>1. ASSUME NEW g \in Groups, Advance(g) PROVE ClaimInv'
  <2>1. /\ this_ix_chunk'[g] = InitialChunks + ix_chunk
        /\ ix_chunk' = ix_chunk + 1
        /\ \A h \in Groups \ {g} : this_ix_chunk'[h] = this_ix_chunk[h]
    BY <1>1 DEF Advance, TypeOK
  <2>2. \A h \in Groups : this_ix_chunk[h] \in Nat
                         /\ this_ix_chunk[h] < InitialChunks + ix_chunk
    BY DEF TypeOK, ClaimInv
  <2>3. ix_chunk \in Nat
    BY DEF TypeOK
  <2>4. \A h \in Groups : this_ix_chunk'[h] < InitialChunks + ix_chunk'
    BY <2>1, <2>2, <2>3
  <2>5. \A h \in Groups \ {g} : this_ix_chunk'[h] # this_ix_chunk'[g]
    BY <2>1, <2>2, <2>3
  <2>6. ClaimedOnce'
    BY <2>1, <2>5 DEF ClaimInv, ClaimedOnce
  <2>7. \A h \in Groups :
          (\A w \in WarpIds : pc'[h][w] = "start") => this_ix_chunk'[h] = h
    BY <1>1, <2>1, StartOnly DEF ClaimInv, GroupStep
  <2>8. QED
    BY <2>4, <2>6, <2>7 DEF ClaimInv
<1>2. ASSUME NEW g \in Groups, GroupStep(g), ~Advance(g) PROVE ClaimInv'
  <2>1. ix_chunk' = ix_chunk
    BY <1>2 DEF GroupStep, Start, Test, Copy, Compress, Reserve, OffsetReady,
                Report, ChunkReady
  <2>2. this_ix_chunk' = this_ix_chunk
    <3>1. CASE Start(g)
      <4>1. this_ix_chunk[g] = g
        BY <3>1, SyncEffect DEF Start, Labels, ClaimInv
      <4>2. QED
        BY <3>1, <4>1 DEF Start, TypeOK
    <3>2. CASE ~Start(g)
      BY <1>2, <3>2 DEF GroupStep, Test, Copy, Compress, Reserve, OffsetReady,
                        Report, ChunkReady
    <3>3. QED
      BY <3>1, <3>2
  <2>3. QED
    BY <1>2, <2>1, <2>2, StartOnly DEF ClaimInv, ClaimedOnce
<1>3. CASE UNCHANGED vars
  BY <1>3 DEF vars, ClaimInv, ClaimedOnce
<1>4. QED
  BY <1>1, <1>2, <1>3 DEF Next, Ended

-----------------------------------------------------------------------------
(* Which chunks are placed.                                                *)

\* A chunk whose group has not reserved yet is not placed.
LEMMA NotPlacedYet ==
  ASSUME TypeOK, ClaimInv, NEW g \in Groups, pc[g][0] \notin AfterReserve
  PROVE  ~Placed(this_ix_chunk[g])
<1>1. ~Left(this_ix_chunk[g])
  BY DEF Left, Holds
<1>2. \A h \in Groups : Holds(h, this_ix_chunk[g]) => h = g
  BY DEF Holds, ClaimInv, ClaimedOnce
<1>3. QED
  BY <1>1, <1>2 DEF Placed

\* Steps other than a reservation and a claim keep the indices, and keep
\* thread 0 on its side of the reservation.
LEMMA OtherSteps ==
  ASSUME IInv, NEW g \in Groups, GroupStep(g), ~Reserve(g), ~Advance(g)
  PROVE  /\ this_ix_chunk' = this_ix_chunk
         /\ ix_chunk' = ix_chunk
         /\ \A h \in Groups :
              pc'[h][0] \in AfterReserve <=> pc[h][0] \in AfterReserve
<1> USE LaunchShape DEF IInv
<1>1. CASE Start(g)
  <2>1. this_ix_chunk[g] = g
    BY <1>1, SyncEffect DEF Start, Labels, ClaimInv
  <2>2. this_ix_chunk' = this_ix_chunk /\ ix_chunk' = ix_chunk
    BY <1>1, <2>1 DEF Start, TypeOK
  <2>3. /\ pc[g][0] = "start" /\ pc'[g][0] = "test"
        /\ \A h \in Groups \ {g} : pc'[h] = pc[h]
    BY <1>1, SyncEffect DEF Start, Labels
  <2>4. QED
    BY <2>2, <2>3 DEF AfterReserve
<1>2. ASSUME NEW w \in WarpIds, Test(g, w)
      PROVE  /\ this_ix_chunk' = this_ix_chunk
             /\ ix_chunk' = ix_chunk
             /\ \A h \in Groups :
                  pc'[h][0] \in AfterReserve <=> pc[h][0] \in AfterReserve
  <2>1. (IF this_ix_chunk[g] < NumChunks THEN "compress" ELSE "exit") \in Labels
    BY DEF Labels
  <2>2. /\ pc[g][w] = "test"
        /\ pc'[g][w] = IF this_ix_chunk[g] < NumChunks THEN "compress" ELSE "exit"
        /\ \A v \in WarpIds \ {w} : pc'[g][v] = pc[g][v]
        /\ \A h \in Groups \ {g} : pc'[h] = pc[h]
    BY <1>2, <2>1, GotoEffect DEF Test
  <2>3. pc'[g][w] \notin AfterReserve /\ pc[g][w] \notin AfterReserve
    BY <2>2 DEF AfterReserve
  <2>4. QED
    BY <1>2, <2>2, <2>3 DEF Test
<1>3. CASE Compress(g)
  <2>1. pc[g][0] \notin AfterReserve /\ pc'[g][0] \notin AfterReserve
    BY <1>3, CompressEffect DEF AfterReserve
  <2>2. \A h \in Groups \ {g} : pc'[h] = pc[h]
    BY <1>3, CompressEffect
  <2>3. QED
    BY <1>3, <2>1, <2>2 DEF Compress
<1>4. CASE OffsetReady(g)
  <2>1. /\ pc[g][0] = "await_offset" /\ pc'[g][0] = "copy"
        /\ \A h \in Groups \ {g} : pc'[h] = pc[h]
    BY <1>4, SyncEffect DEF OffsetReady, Labels
  <2>2. QED
    BY <1>4, <2>1 DEF OffsetReady, AfterReserve
<1>5. ASSUME NEW w \in WarpIds, Copy(g, w)
      PROVE  /\ this_ix_chunk' = this_ix_chunk
             /\ ix_chunk' = ix_chunk
             /\ \A h \in Groups :
                  pc'[h][0] \in AfterReserve <=> pc[h][0] \in AfterReserve
  <2>1. (IF w = 0 THEN "report" ELSE "await_chunk") \in Labels
    BY DEF Labels
  <2>2. /\ pc[g][w] = "copy"
        /\ pc'[g][w] = IF w = 0 THEN "report" ELSE "await_chunk"
        /\ \A v \in WarpIds \ {w} : pc'[g][v] = pc[g][v]
        /\ \A h \in Groups \ {g} : pc'[h] = pc[h]
    BY <1>5, <2>1, GotoEffect DEF Copy
  <2>3. pc'[g][0] \in AfterReserve <=> pc[g][0] \in AfterReserve
    BY <2>2 DEF AfterReserve
  <2>4. QED
    BY <1>5, <2>2, <2>3 DEF Copy
<1>6. CASE Report(g)
  <2>1. /\ pc[g][0] = "report" /\ pc'[g][0] = "advance"
        /\ \A h \in Groups \ {g} : pc'[h] = pc[h]
    BY <1>6, GotoEffect DEF Report, Labels
  <2>2. QED
    BY <1>6, <2>1 DEF Report, AfterReserve
<1>7. CASE ChunkReady(g)
  <2>1. /\ pc[g][0] = "await_chunk" /\ pc'[g][0] = "test"
        /\ \A h \in Groups \ {g} : pc'[h] = pc[h]
    BY <1>7, SyncEffect DEF ChunkReady, Labels
  <2>2. QED
    BY <1>7, <2>1 DEF ChunkReady, AfterReserve
<1>8. QED
  BY <1>1, <1>2, <1>3, <1>4, <1>5, <1>6, <1>7 DEF GroupStep

\* Only a reservation places a chunk, and nothing unplaces one.
LEMMA PlacedSame ==
  ASSUME IInv, NEW g \in Groups, GroupStep(g), ~Reserve(g)
  PROVE  \A c \in Chunks : Placed(c)' <=> Placed(c)
<1> USE LaunchShape DEF IInv
<1>1. CASE Advance(g)
  <2>1. /\ pc[g][0] = "advance" /\ pc'[g][0] = "await_chunk"
        /\ \A h \in Groups \ {g} : pc'[h] = pc[h]
    BY <1>1, GotoEffect DEF Advance, Labels
  <2>2. /\ this_ix_chunk'[g] = InitialChunks + ix_chunk
        /\ ix_chunk' = ix_chunk + 1
        /\ \A h \in Groups \ {g} : this_ix_chunk'[h] = this_ix_chunk[h]
    BY <1>1 DEF Advance, TypeOK
  <2>3. \A h \in Groups : this_ix_chunk[h] \in Nat
                         /\ this_ix_chunk[h] < InitialChunks + ix_chunk
    BY DEF TypeOK, ClaimInv
  <2>4. ix_chunk \in Nat
    BY DEF TypeOK
  <2>5. \A h \in Groups \ {g} : this_ix_chunk[h] # this_ix_chunk[g]
    BY DEF ClaimInv, ClaimedOnce
  <2>6. ASSUME NEW c \in Chunks PROVE Placed(c)' <=> Placed(c)
    <3>1. CASE c = this_ix_chunk[g]
      <4>1. Placed(c)
        BY <2>1, <3>1 DEF Placed, Holds, AfterReserve
      <4>2. Left(c)'
        BY <2>2, <2>3, <2>4, <2>5, <3>1 DEF Left, Holds
      <4>3. QED
        BY <4>1, <4>2 DEF Placed
    <3>2. CASE c = InitialChunks + ix_chunk
      <4>1. ~Placed(c)
        BY <2>3, <3>2 DEF Placed, Left, Holds
      <4>2. ~Left(c)'
        BY <2>2, <3>2 DEF Left, Holds
      <4>3. \A h \in Groups : ~(Holds(h, c)' /\ pc'[h][0] \in AfterReserve)
        BY <2>1, <2>2, <2>3, <3>2 DEF Holds, AfterReserve
      <4>4. QED
        BY <4>1, <4>2, <4>3 DEF Placed
    <3>3. CASE c # this_ix_chunk[g] /\ c # InitialChunks + ix_chunk
      <4>1. Left(c)' <=> Left(c)
        <5>1. c \in Nat
          OBVIOUS
        <5>2. c < InitialChunks + ix_chunk' <=> c < InitialChunks + ix_chunk
          BY <2>2, <2>4, <3>3, <5>1
        <5>3. \A h \in Groups : Holds(h, c)' <=> Holds(h, c)
          BY <2>2, <3>3 DEF Holds
        <5>4. QED
          BY <5>2, <5>3 DEF Left
      <4>2. \A h \in Groups :
              Holds(h, c)' /\ pc'[h][0] \in AfterReserve
                <=> Holds(h, c) /\ pc[h][0] \in AfterReserve
        BY <2>1, <2>2, <3>3 DEF Holds
      <4>3. QED
        BY <4>1, <4>2 DEF Placed
    <3>4. QED
      BY <3>1, <3>2, <3>3
  <2>7. QED
    BY <2>6
<1>2. CASE ~Advance(g)
  BY <1>2, OtherSteps DEF Placed, Left, Holds
<1>3. QED
  BY <1>1, <1>2

\* A reservation places the chunk of its group, which was not placed, and no other.
LEMMA ReservePlaces ==
  ASSUME IInv, NEW g \in Groups, Reserve(g)
  PROVE  /\ this_ix_chunk[g] \in Chunks
         /\ ~Placed(this_ix_chunk[g])
         /\ comp_chunk_sizes[this_ix_chunk[g]] \in 1 .. MaxCompChunkSize
         /\ \A c \in Chunks :
              Placed(c)' <=> Placed(c) \/ c = this_ix_chunk[g]
<1> USE LaunchShape DEF IInv
<1>1. /\ pc[g][0] = "reserve" /\ pc'[g][0] = "await_offset"
      /\ \A h \in Groups \ {g} : pc'[h] = pc[h]
  BY GotoEffect DEF Reserve, Labels
<1>2. this_ix_chunk[g] \in Chunks
  BY <1>1, HeldChunk
<1>3. ~Placed(this_ix_chunk[g])
  BY <1>1, NotPlacedYet DEF AfterReserve
<1>4. comp_chunk_sizes[this_ix_chunk[g]] \in 1 .. MaxCompChunkSize
  BY <1>1 DEF PhaseInv
<1>5. this_ix_chunk' = this_ix_chunk /\ ix_chunk' = ix_chunk
  BY DEF Reserve
<1>6. \A c \in Chunks : Left(c)' <=> Left(c)
  BY <1>5 DEF Left, Holds
<1>7. \A c \in Chunks : Placed(c)' <=> Placed(c) \/ c = this_ix_chunk[g]
  BY <1>1, <1>5, <1>6 DEF Placed, Holds, AfterReserve
<1>8. QED
  BY <1>2, <1>3, <1>4, <1>7

-----------------------------------------------------------------------------
(* Extents.                                                                *)

\* A reservation appends an extent to the tiling.
LEMMA ReserveExtent ==
  ASSUME IInv, NEW g \in Groups, Reserve(g)
  PROVE  ExtentInv'
<1> USE LaunchShape
<1>0. PICK k \in Chunks : k = this_ix_chunk[g]
  BY ReservePlaces
<1> DEFINE n == comp_chunk_sizes[k]
<1>1. /\ k \in Chunks /\ ~Placed(k) /\ n \in 1 .. MaxCompChunkSize
      /\ \A c \in Chunks : Placed(c)' <=> Placed(c) \/ c = k
  BY ReservePlaces, <1>0
<1>2. /\ comp_chunk_offsets \in [Chunks -> Nat]
      /\ comp_chunk_sizes \in [Chunks -> Nat]
      /\ ix_output \in Nat
  BY DEF IInv, TypeOK
<1>3. /\ comp_chunk_offsets' = [comp_chunk_offsets EXCEPT ![k] = ix_output]
      /\ comp_chunk_sizes' = comp_chunk_sizes
      /\ ix_output' = ix_output + n
  BY <1>0 DEF Reserve
<1> HIDE DEF n
<1>4. n \in Nat /\ n >= 1 /\ n = comp_chunk_sizes[k]
  BY <1>1 DEF n
<1>5. /\ comp_chunk_offsets'[k] = ix_output
      /\ \A c \in Chunks \ {k} : comp_chunk_offsets'[c] = comp_chunk_offsets[c]
  BY <1>1, <1>2, <1>3
<1>6. \A c \in Chunks : Placed(c) =>
        comp_chunk_offsets[c] + comp_chunk_sizes[c] <= ix_output
  BY DEF IInv, ExtentInv, Gapless
<1>7. ASSUME NEW c \in Chunks, NEW d \in Chunks, c # d, Placed(c)', Placed(d)'
      PROVE  \/ comp_chunk_offsets'[c] + comp_chunk_sizes'[c] <= comp_chunk_offsets'[d]
             \/ comp_chunk_offsets'[d] + comp_chunk_sizes'[d] <= comp_chunk_offsets'[c]
  <2>1. CASE c = k
    BY <1>1, <1>3, <1>5, <1>6, <1>7, <2>1
  <2>2. CASE d = k
    BY <1>1, <1>3, <1>5, <1>6, <1>7, <2>2
  <2>3. CASE c # k /\ d # k
    <3>1. Placed(c) /\ Placed(d)
      BY <1>1, <1>7, <2>3
    <3>2. \/ comp_chunk_offsets[c] + comp_chunk_sizes[c] <= comp_chunk_offsets[d]
          \/ comp_chunk_offsets[d] + comp_chunk_sizes[d] <= comp_chunk_offsets[c]
      BY <1>7, <3>1 DEF IInv, ExtentInv, Gapless
    <3>3. QED
      BY <1>3, <1>5, <2>3, <3>2
  <2>4. QED
    BY <2>1, <2>2, <2>3
<1>8. ASSUME NEW c \in Chunks, Placed(c)'
      PROVE  comp_chunk_offsets'[c] + comp_chunk_sizes'[c] <= ix_output'
  <2>1. CASE c = k
    BY <1>2, <1>3, <1>4, <1>5, <2>1
  <2>2. CASE c # k
    <3>1. comp_chunk_offsets[c] + comp_chunk_sizes[c] <= ix_output
      BY <1>1, <1>6, <1>8, <2>2
    <3>2. comp_chunk_offsets[c] \in Nat /\ comp_chunk_sizes[c] \in Nat
      BY <1>2
    <3>3. QED
      BY <1>2, <1>3, <1>4, <1>5, <2>2, <3>1, <3>2
  <2>3. QED
    BY <2>1, <2>2
<1>9. ASSUME NEW a \in 0 .. ix_output' - 1
      PROVE  \E c \in Chunks : Placed(c)' /\ InExtent(a, c)'
  <2>1. a \in Nat
    OBVIOUS
  <2>2. CASE a < ix_output
    <3>1. a \in 0 .. ix_output - 1
      BY <1>2, <2>1, <2>2
    <3>2. PICK c \in Chunks : Placed(c) /\ InExtent(a, c)
      BY <3>1 DEF IInv, ExtentInv, Gapless
    <3>3. c # k
      BY <1>1, <3>2
    <3>4. InExtent(a, c)'
      BY <1>3, <1>5, <3>2, <3>3 DEF InExtent
    <3>5. QED
      BY <1>1, <3>2, <3>4
  <2>3. CASE a >= ix_output
    <3>1. a < ix_output + n
      BY <1>2, <1>3, <1>4, <1>9
    <3>2. InExtent(a, k)'
      BY <1>2, <1>3, <1>4, <1>5, <2>1, <2>3, <3>1 DEF InExtent
    <3>3. QED
      BY <1>1, <3>2
  <2>4. QED
    BY <1>2, <2>1, <2>2, <2>3
<1>10. \A c \in Chunks : Placed(c)' => comp_chunk_sizes'[c] \in 1 .. MaxCompChunkSize
  BY <1>1, <1>3 DEF IInv, ExtentInv, n
<1>11. QED
  BY <1>7, <1>8, <1>9, <1>10 DEF ExtentInv, Gapless

\* Every step keeps the extents of the placed chunks without gap or overlap.
LEMMA ExtentStep == IInv /\ [Next]_vars => ExtentInv'
<1> SUFFICES ASSUME IInv, [Next]_vars PROVE ExtentInv'
  OBVIOUS
<1> USE LaunchShape
<1>1. ASSUME NEW g \in Groups, Reserve(g) PROVE ExtentInv'
  BY <1>1, ReserveExtent
<1>2. ASSUME NEW g \in Groups, GroupStep(g), ~Reserve(g) PROVE ExtentInv'
  <2>1. \A c \in Chunks : Placed(c)' <=> Placed(c)
    BY <1>2, PlacedSame
  <2>2. comp_chunk_offsets' = comp_chunk_offsets /\ ix_output' = ix_output
    BY <1>2 DEF GroupStep, Start, Test, Compress, OffsetReady, Copy, Report,
                Advance, ChunkReady, arrays
  <2>3. \A c \in Chunks : Placed(c) => comp_chunk_sizes'[c] = comp_chunk_sizes[c]
    <3>1. CASE Compress(g)
      <4>1. ~Placed(this_ix_chunk[g])
        BY <3>1, CompressEffect, NotPlacedYet DEF IInv, AfterReserve
      <4>2. PICK m \in 1 .. MaxCompChunkSize :
              comp_chunk_sizes' = [comp_chunk_sizes EXCEPT ![this_ix_chunk[g]] = m]
        BY <3>1 DEF Compress
      <4>3. QED
        BY <4>1, <4>2 DEF IInv, TypeOK
    <3>2. CASE ~Compress(g)
      BY <1>2, <3>2 DEF GroupStep, Start, Test, OffsetReady, Copy, Report,
                        Advance, ChunkReady, arrays
    <3>3. QED
      BY <3>1, <3>2
  <2>4. \A a : \A c \in Chunks : Placed(c) => (InExtent(a, c)' <=> InExtent(a, c))
    BY <2>2, <2>3 DEF InExtent
  <2>5. Gapless'
    <3>1. \A c, d \in Chunks : c # d /\ Placed(c)' /\ Placed(d)' =>
            \/ comp_chunk_offsets'[c] + comp_chunk_sizes'[c] <= comp_chunk_offsets'[d]
            \/ comp_chunk_offsets'[d] + comp_chunk_sizes'[d] <= comp_chunk_offsets'[c]
      BY <2>1, <2>2, <2>3 DEF IInv, ExtentInv, Gapless
    <3>2. \A c \in Chunks : Placed(c)' =>
            comp_chunk_offsets'[c] + comp_chunk_sizes'[c] <= ix_output'
      BY <2>1, <2>2, <2>3 DEF IInv, ExtentInv, Gapless
    <3>3. \A a \in 0 .. ix_output' - 1 :
            \E c \in Chunks : Placed(c)' /\ InExtent(a, c)'
      BY <2>1, <2>2, <2>4 DEF IInv, ExtentInv, Gapless
    <3>4. QED
      BY <3>1, <3>2, <3>3 DEF Gapless
  <2>6. QED
    BY <2>1, <2>3, <2>5 DEF IInv, ExtentInv
<1>3. CASE UNCHANGED vars
  <2>1. \A c \in Chunks : Placed(c)' <=> Placed(c)
    BY <1>3 DEF vars, Placed, Left, Holds
  <2>2. QED
    BY <1>3, <2>1 DEF vars, arrays, IInv, ExtentInv, Gapless, InExtent
<1>4. QED
  BY <1>1, <1>2, <1>3 DEF Next, Ended

-----------------------------------------------------------------------------
(* The theorems.                                                           *)

\* The inductive invariant holds in every state of the kernel.
THEOREM Inductive == Spec => []IInv
<1>1. IInv /\ [Next]_vars => IInv'
  BY TypeStep, PhaseStep, ClaimStep, ExtentStep DEF IInv
<1>2. QED
  BY InitInv, <1>1, PTL DEF Spec

\* The variables keep their types, and every header entry the reservation
\* uses is one the compressor has just written.
THEOREM TypeCorrect == Spec => []TypeOK
<1>1. IInv => TypeOK
  BY DEF IInv
<1>2. QED
  BY Inductive, <1>1, PTL

\* No chunk is ever held by two groups, for every shape of the launch.
THEOREM ChunksClaimedOnce == Spec => []ClaimedOnce
<1>1. IInv => ClaimedOnce
  BY DEF IInv, ClaimInv
<1>2. QED
  BY Inductive, <1>1, PTL

\* The extents tile the result, for every shape of the launch (also for
\* groups of several warps) and every compressed size.
THEOREM ResultGapless == Spec => []Gapless
<1>1. IInv => Gapless
  BY DEF IInv, ExtentInv
<1>2. QED
  BY Inductive, <1>1, PTL

-----------------------------------------------------------------------------
(* The room of the result, for every shape of the launch.                  *)

\* There are NumChunks chunks.
LEMMA ChunkCount == IsFiniteSet(Chunks) /\ Cardinality(Chunks) = NumChunks
<1>1. 0 \in Int /\ NumChunks - 1 \in Int
  BY LaunchShape
<1>2. /\ IsFiniteSet(0 .. NumChunks - 1)
      /\ Cardinality(0 .. NumChunks - 1)
           = IF 0 > NumChunks - 1 THEN 0 ELSE NumChunks - 1 - 0 + 1
  BY <1>1, FS_Interval
<1>3. QED
  BY <1>2, LaunchShape DEF Chunks

\* The placed chunks can be counted, and there are no more than chunks.
LEMMA PlacedCount ==
  /\ IsFiniteSet(PlacedChunks)
  /\ Cardinality(PlacedChunks) \in Nat
  /\ Cardinality(PlacedChunks) <= NumChunks
<1>1. PlacedChunks \in SUBSET Chunks
  BY DEF PlacedChunks
<1>2. IsFiniteSet(PlacedChunks) /\ Cardinality(PlacedChunks) <= NumChunks
  BY <1>1, ChunkCount, FS_Subset
<1>3. QED
  BY <1>2, FS_CardinalityType

\* No chunk is placed in the initial state.
LEMMA NonePlaced == ASSUME Init, NEW c \in Chunks PROVE ~Placed(c) /\ ~Copied(c)
<1> USE LaunchShape
<1>1. ~Left(c)
  <2>1. CASE c < InitialChunks
    BY <2>1 DEF Init, Left, Holds, Groups
  <2>2. CASE ~(c < InitialChunks)
    BY <2>2 DEF Init, Left
  <2>3. QED
    BY <2>1, <2>2
<1>2. QED
  BY <1>1 DEF Init, Placed, Copied, AfterReserve

\* A reservation takes room for one more placed chunk, of at most a slot;
\* other steps take none.
LEMMA RoomStep == IInv /\ RoomInv /\ [Next]_vars => RoomInv'
<1> SUFFICES ASSUME IInv, RoomInv, [Next]_vars PROVE RoomInv'
  OBVIOUS
<1> USE LaunchShape
<1>1. ASSUME NEW g \in Groups, Reserve(g) PROVE RoomInv'
  <2> DEFINE k == this_ix_chunk[g]
             n == Cardinality(PlacedChunks)
  <2>1. /\ k \in Chunks /\ k \notin PlacedChunks
        /\ comp_chunk_sizes[k] \in 1 .. MaxCompChunkSize
    BY <1>1, ReservePlaces DEF PlacedChunks
  <2>2. PlacedChunks' = PlacedChunks \cup {k}
    BY <1>1, <2>1, ReservePlaces DEF PlacedChunks
  <2>3. Cardinality(PlacedChunks') = n + 1
    BY <2>1, <2>2, PlacedCount, FS_AddElement
  <2>4. ix_output' = ix_output + comp_chunk_sizes[k]
    BY <1>1 DEF Reserve
  <2>5. n \in Nat /\ ix_output \in Nat
    BY PlacedCount DEF IInv, TypeOK
  <2>6. ix_output <= n * MaxCompChunkSize
    BY DEF RoomInv
  <2>7. \A a, m \in Nat : (a + 1) * m = a * m + m
    OBVIOUS
  <2>8. (n + 1) * MaxCompChunkSize = n * MaxCompChunkSize + MaxCompChunkSize
    BY <2>5, <2>7, HlifAssumption DEF HlifAssumption
  <2>9. MaxCompChunkSize \in Nat /\ n * MaxCompChunkSize \in Nat
    BY <2>5, HlifAssumption DEF HlifAssumption
  <2> HIDE DEF k, n
  <2>10. ix_output' <= (n + 1) * MaxCompChunkSize
    BY <2>1, <2>4, <2>5, <2>6, <2>8, <2>9
  <2>11. QED
    BY <2>3, <2>10 DEF RoomInv
<1>2. ASSUME NEW g \in Groups, GroupStep(g), ~Reserve(g) PROVE RoomInv'
  <2>1. PlacedChunks' = PlacedChunks
    BY <1>2, PlacedSame DEF PlacedChunks
  <2>2. ix_output' = ix_output
    BY <1>2 DEF GroupStep, Start, Test, Compress, OffsetReady, Copy, Report,
                Advance, ChunkReady, arrays
  <2>3. QED
    BY <2>1, <2>2 DEF RoomInv
<1>3. CASE UNCHANGED vars
  BY <1>3 DEF vars, RoomInv, PlacedChunks, Placed, Left, Holds
<1>4. QED
  BY <1>1, <1>2, <1>3 DEF Next, Ended

\* Room bounded by the placed chunks is bounded by all chunks.
LEMMA RoomFits == ASSUME IInv, RoomInv PROVE ResultFits
<1>1. \A a, b, m \in Nat : a <= b => a * m <= b * m
  OBVIOUS
<1>2. Cardinality(PlacedChunks) * MaxCompChunkSize <= NumChunks * MaxCompChunkSize
  BY <1>1, PlacedCount, LaunchShape, HlifAssumption DEF HlifAssumption
<1>3. ix_output \in Nat
  BY DEF IInv, TypeOK
<1>4. Cardinality(PlacedChunks) * MaxCompChunkSize \in Nat
      /\ NumChunks * MaxCompChunkSize \in Nat
  BY PlacedCount, LaunchShape, HlifAssumption DEF HlifAssumption
<1>5. QED
  BY <1>2, <1>3, <1>4 DEF RoomInv, ResultFits

\* Both invariants hold together in every state.
LEMMA RoomAlways == Spec => [](IInv /\ RoomInv)
<1>1. Init => RoomInv
  <2> SUFFICES ASSUME Init PROVE RoomInv
    OBVIOUS
  <2>1. PlacedChunks = {}
    BY NonePlaced DEF PlacedChunks
  <2>2. Cardinality(PlacedChunks) = 0
    BY <2>1, FS_EmptySet
  <2>3. QED
    BY <2>2, HlifAssumption DEF Init, RoomInv, HlifAssumption
<1>2. QED
  BY Inductive, <1>1, RoomStep, PTL DEF Spec

\* The result never outgrows the room that the manager calculates for it, for
\* every shape of the launch and every compressed size up to a slot.
THEOREM ResultInRoom == Spec => []ResultFits
<1>1. IInv /\ RoomInv => ResultFits
  BY RoomFits
<1>2. QED
  BY RoomAlways, <1>1, PTL

-----------------------------------------------------------------------------
(* Groups of a single warp (the LZ4 launch): the data.                     *)

\* Entries of different placed chunks describe different cells.
LEMMA ExtentsApart ==
  ASSUME IInv, NEW c \in Chunks, NEW d \in Chunks, c # d,
         Placed(c), Placed(d), NEW a \in Nat, InExtent(a, c)
  PROVE  ~InExtent(a, d)
<1>1. /\ comp_chunk_offsets \in [Chunks -> Nat]
      /\ comp_chunk_sizes \in [Chunks -> Nat]
  BY DEF IInv, TypeOK
<1>2. \/ comp_chunk_offsets[c] + comp_chunk_sizes[c] <= comp_chunk_offsets[d]
      \/ comp_chunk_offsets[d] + comp_chunk_sizes[d] <= comp_chunk_offsets[c]
  BY DEF IInv, ExtentInv, Gapless
<1>3. QED
  BY <1>1, <1>2 DEF InExtent

\* A group that copies is past its reservation.
LEMMA CopierHolds ==
  ASSUME IInv, Warps = 1, NEW g \in Groups, NEW w \in WarpIds, Copy(g, w)
  PROVE  /\ w = 0
         /\ this_ix_chunk[g] \in Chunks
         /\ Placed(this_ix_chunk[g])
         /\ scratch[g] = this_ix_chunk[g]
         /\ pc[g][0] = "copy" /\ pc'[g][0] = "report"
         /\ \A h \in Groups \ {g} : pc'[h] = pc[h]
<1> USE LaunchShape DEF IInv
<1>1. w = 0
  BY DEF WarpIds
<1>2. /\ pc[g][0] = "copy" /\ pc'[g][0] = "report"
      /\ \A h \in Groups \ {g} : pc'[h] = pc[h]
  BY <1>1, GotoEffect DEF Copy, Labels
<1>3. this_ix_chunk[g] \in Chunks
  BY <1>2, HeldChunk
<1>4. scratch[g] = this_ix_chunk[g]
  BY <1>2 DEF PhaseInv
<1>5. Placed(this_ix_chunk[g])
  BY <1>2 DEF Placed, Holds, AfterReserve
<1>6. QED
  BY <1>1, <1>2, <1>3, <1>4, <1>5

\* What a copy writes when no other warp moves the index under it.
LEMMA CopyWrites ==
  ASSUME IInv, Warps = 1, NEW g \in Groups, NEW w \in WarpIds, Copy(g, w),
         NEW k \in Chunks, k = this_ix_chunk[g]
  PROVE  comp_buffer' = [a \in Cells |->
           IF InExtent(a, k) THEN <<k, a - comp_chunk_offsets[k]>>
                             ELSE comp_buffer[a]]
<1>1. w = 0 /\ scratch[g] = k
  BY CopierHolds
<1>2. PICK e \in HeaderEntry(k) :
        comp_buffer' = [a \in Cells |->
          IF a >= e.off /\ a < e.off + e.size /\ (a - e.off) % Warps = w
          THEN <<scratch[g], a - e.off>> ELSE comp_buffer[a]]
  BY DEF Copy
<1>3. e.off = comp_chunk_offsets[k] /\ e.size = comp_chunk_sizes[k]
  BY <1>2 DEF HeaderEntry
<1>4. e.off \in Nat
  BY <1>3 DEF IInv, TypeOK
<1>5. \A a \in Cells : (a - e.off) % Warps = w
  <2>1. \A i \in Int : i % 1 = 0
    OBVIOUS
  <2>2. QED
    BY <1>1, <1>4, <2>1 DEF Cells
<1>6. \A a \in Cells :
        (a >= e.off /\ a < e.off + e.size /\ (a - e.off) % Warps = w)
          <=> InExtent(a, k)
  BY <1>3, <1>5 DEF InExtent
<1>7. QED
  BY <1>1, <1>2, <1>3, <1>6

\* A stored chunk stays stored under its header entry.
LEMMA StoredStep ==
  ASSUME IInv, Warps = 1, [Next]_vars, NEW c \in Chunks, Stored(c)
  PROVE  /\ Stored(c)'
         /\ comp_chunk_offsets'[c] = comp_chunk_offsets[c]
         /\ comp_chunk_sizes'[c] = comp_chunk_sizes[c]
<1> USE LaunchShape
<1>1. Placed(c)
  BY DEF Stored
<1>2. ASSUME NEW g \in Groups, Reserve(g)
      PROVE  /\ Stored(c)'
             /\ comp_chunk_offsets'[c] = comp_chunk_offsets[c]
             /\ comp_chunk_sizes'[c] = comp_chunk_sizes[c]
  <2>1. Placed(c)' /\ c # this_ix_chunk[g]
    BY <1>1, <1>2, ReservePlaces
  <2>2. /\ comp_chunk_offsets'[c] = comp_chunk_offsets[c]
        /\ comp_chunk_sizes'[c] = comp_chunk_sizes[c]
        /\ comp_buffer' = comp_buffer
    BY <1>2, <2>1 DEF Reserve, IInv, TypeOK
  <2>3. QED
    BY <2>1, <2>2 DEF Stored, InExtent
<1>3. ASSUME NEW g \in Groups, NEW w \in WarpIds, Copy(g, w)
      PROVE  /\ Stored(c)'
             /\ comp_chunk_offsets'[c] = comp_chunk_offsets[c]
             /\ comp_chunk_sizes'[c] = comp_chunk_sizes[c]
  <2>1. Placed(c)'
    <3>1. ~Reserve(g)
      BY <1>3, CopierHolds DEF Reserve, Goto
    <3>2. QED
      BY <1>1, <1>3, <3>1, PlacedSame DEF GroupStep
  <2>2. PICK k \in Chunks : k = this_ix_chunk[g]
    BY <1>3, CopierHolds
  <2>3. Placed(k)
    BY <1>3, <2>2, CopierHolds
  <2>4. comp_buffer' = [a \in Cells |->
          IF InExtent(a, k) THEN <<k, a - comp_chunk_offsets[k]>>
                            ELSE comp_buffer[a]]
    BY <1>3, <2>2, CopyWrites
  <2>5. comp_chunk_offsets' = comp_chunk_offsets /\ comp_chunk_sizes' = comp_chunk_sizes
    BY <1>3 DEF Copy, arrays
  <2>6. ASSUME NEW a \in Cells, InExtent(a, c)
        PROVE  comp_buffer'[a] = <<c, a - comp_chunk_offsets[c]>>
    <3>1. CASE c = k
      BY <2>4, <2>6, <3>1
    <3>2. CASE c # k
      <4>1. a \in Nat
        BY DEF Cells
      <4>2. ~InExtent(a, k)
        BY <1>1, <2>3, <2>6, <3>2, <4>1, ExtentsApart
      <4>3. QED
        BY <2>4, <2>6, <4>2 DEF Stored
    <3>3. QED
      BY <3>1, <3>2
  <2>7. QED
    BY <2>1, <2>5, <2>6 DEF Stored, InExtent
<1>4. ASSUME NEW g \in Groups, Compress(g)
      PROVE  /\ Stored(c)'
             /\ comp_chunk_offsets'[c] = comp_chunk_offsets[c]
             /\ comp_chunk_sizes'[c] = comp_chunk_sizes[c]
  <2>1. ~Placed(this_ix_chunk[g])
    BY <1>4, CompressEffect, NotPlacedYet DEF IInv, AfterReserve
  <2>2. c # this_ix_chunk[g]
    BY <1>1, <2>1
  <2>3. PICK m \in 1 .. MaxCompChunkSize :
          comp_chunk_sizes' = [comp_chunk_sizes EXCEPT ![this_ix_chunk[g]] = m]
    BY <1>4 DEF Compress
  <2>4. comp_chunk_sizes'[c] = comp_chunk_sizes[c]
    BY <2>2, <2>3 DEF IInv, TypeOK
  <2>5. Placed(c)'
    <3>1. ~Reserve(g)
      BY <1>4, CompressEffect DEF Reserve, Goto, IInv
    <3>2. QED
      BY <1>1, <1>4, <3>1, PlacedSame DEF GroupStep
  <2>6. comp_chunk_offsets' = comp_chunk_offsets /\ comp_buffer' = comp_buffer
    BY <1>4 DEF Compress
  <2>7. QED
    BY <2>4, <2>5, <2>6 DEF Stored, InExtent
<1>5. ASSUME NEW g \in Groups, GroupStep(g), ~Reserve(g), ~Compress(g),
             \A w \in WarpIds : ~Copy(g, w)
      PROVE  /\ Stored(c)'
             /\ comp_chunk_offsets'[c] = comp_chunk_offsets[c]
             /\ comp_chunk_sizes'[c] = comp_chunk_sizes[c]
  <2>1. Placed(c)'
    BY <1>1, <1>5, PlacedSame
  <2>2. /\ comp_chunk_offsets' = comp_chunk_offsets
        /\ comp_chunk_sizes' = comp_chunk_sizes
        /\ comp_buffer' = comp_buffer
    BY <1>5 DEF GroupStep, Start, Test, OffsetReady, Report, Advance,
                ChunkReady, arrays
  <2>3. QED
    BY <2>1, <2>2 DEF Stored, InExtent
<1>6. CASE UNCHANGED vars
  <2>1. Placed(c)'
    BY <1>1, <1>6 DEF vars, Placed, Left, Holds
  <2>2. QED
    BY <1>6, <2>1 DEF vars, arrays, Stored, InExtent
<1>7. QED
  BY <1>2, <1>3, <1>4, <1>5, <1>6 DEF Next, Ended

\* With single-warp groups every step keeps the stored data where it belongs.
LEMMA DataStep == IInv /\ DataInv /\ Warps = 1 /\ [Next]_vars => DataInv'
<1> SUFFICES ASSUME IInv, DataInv, Warps = 1, [Next]_vars,
                    NEW c \in Chunks, Copied(c)'
             PROVE  Stored(c)'
  BY DEF DataInv
<1> USE LaunchShape
<1>1. CASE Copied(c)
  BY <1>1, StoredStep DEF DataInv
<1>2. ASSUME NEW g \in Groups, NEW w \in WarpIds, Copy(g, w), ~Copied(c)
      PROVE  Stored(c)'
  <2>1. PICK k \in Chunks : k = this_ix_chunk[g]
    BY <1>2, CopierHolds
  <2>2. this_ix_chunk' = this_ix_chunk /\ ix_chunk' = ix_chunk
    BY <1>2 DEF Copy
  <2>3. \A h \in Groups \ {g} : pc'[h] = pc[h]
    BY <1>2, CopierHolds
  <2>4. c = k
    BY <1>2, <2>1, <2>2, <2>3 DEF Copied, Left, Holds
  <2>5. Placed(c)'
    <3>1. ~Reserve(g)
      BY <1>2, CopierHolds DEF Reserve, Goto
    <3>2. QED
      BY <1>2, <2>1, <2>4, <3>1, CopierHolds, PlacedSame DEF GroupStep
  <2>6. comp_buffer' = [a \in Cells |->
          IF InExtent(a, k) THEN <<k, a - comp_chunk_offsets[k]>>
                            ELSE comp_buffer[a]]
    BY <1>2, <2>1, CopyWrites
  <2>7. comp_chunk_offsets' = comp_chunk_offsets /\ comp_chunk_sizes' = comp_chunk_sizes
    BY <1>2 DEF Copy, arrays
  <2>8. QED
    BY <2>4, <2>5, <2>6, <2>7 DEF Stored, InExtent
<1>3. ASSUME NEW g \in Groups, Reserve(g) PROVE Copied(c)
  <2>1. /\ pc'[g][0] = "await_offset"
        /\ \A h \in Groups \ {g} : pc'[h] = pc[h]
    BY <1>3, GotoEffect DEF Reserve, Labels, IInv
  <2>2. this_ix_chunk' = this_ix_chunk /\ ix_chunk' = ix_chunk
    BY <1>3 DEF Reserve
  <2>3. QED
    BY <2>1, <2>2 DEF Copied, Left, Holds
<1>4. ASSUME NEW g \in Groups, Advance(g) PROVE Copied(c)
  <2>1. /\ pc[g][0] = "advance" /\ pc'[g][0] = "await_chunk"
        /\ \A h \in Groups \ {g} : pc'[h] = pc[h]
    BY <1>4, GotoEffect DEF Advance, Labels, IInv
  <2>2. /\ this_ix_chunk'[g] = InitialChunks + ix_chunk
        /\ ix_chunk' = ix_chunk + 1
        /\ \A h \in Groups \ {g} : this_ix_chunk'[h] = this_ix_chunk[h]
    BY <1>4 DEF Advance, IInv, TypeOK
  <2>3. ix_chunk \in Nat /\ c \in Nat
    BY DEF IInv, TypeOK
  <2>4. CASE c = this_ix_chunk[g]
    BY <2>1, <2>4 DEF Copied, Holds
  <2>5. CASE c # this_ix_chunk[g]
    <3>1. CASE Left(c)'
      <4>1. c # InitialChunks + ix_chunk
        BY <2>2, <3>1 DEF Left, Holds
      <4>2. c < InitialChunks + ix_chunk
        BY <2>2, <2>3, <3>1, <4>1 DEF Left
      <4>3. \A h \in Groups : ~Holds(h, c)
        BY <2>2, <2>5, <3>1 DEF Left, Holds
      <4>4. QED
        BY <4>2, <4>3 DEF Copied, Left
    <3>2. CASE ~Left(c)'
      BY <2>1, <2>2, <3>2 DEF Copied, Holds
    <3>3. QED
      BY <3>1, <3>2
  <2>6. QED
    BY <2>4, <2>5
<1>5. ASSUME NEW g \in Groups, GroupStep(g), ~Reserve(g), ~Advance(g),
             \A w \in WarpIds : ~Copy(g, w)
      PROVE  Copied(c)
  <2>1. this_ix_chunk' = this_ix_chunk /\ ix_chunk' = ix_chunk
    BY <1>5, OtherSteps
  <2>2. \A h \in Groups :
          pc'[h][0] \in {"report", "advance"} => pc[h][0] \in {"report", "advance"}
    <3>1. CASE Start(g)
      BY <3>1, SyncEffect DEF Start, Labels, IInv
    <3>2. ASSUME NEW w \in WarpIds, Test(g, w)
          PROVE  \A h \in Groups :
                   pc'[h][0] \in {"report", "advance"}
                     => pc[h][0] \in {"report", "advance"}
      <4>1. (IF this_ix_chunk[g] < NumChunks THEN "compress" ELSE "exit") \in Labels
        BY DEF Labels
      <4>2. /\ pc'[g][w] = IF this_ix_chunk[g] < NumChunks THEN "compress" ELSE "exit"
            /\ \A v \in WarpIds \ {w} : pc'[g][v] = pc[g][v]
            /\ \A h \in Groups \ {g} : pc'[h] = pc[h]
        BY <3>2, <4>1, GotoEffect DEF Test, IInv
      <4>3. QED
        BY <4>2
    <3>3. CASE Compress(g)
      BY <3>3, CompressEffect DEF IInv
    <3>4. CASE OffsetReady(g)
      BY <3>4, SyncEffect DEF OffsetReady, Labels, IInv
    <3>5. CASE Report(g)
      BY <3>5, GotoEffect DEF Report, Labels, IInv
    <3>6. CASE ChunkReady(g)
      BY <3>6, SyncEffect DEF ChunkReady, Labels, IInv
    <3>7. QED
      BY <1>5, <3>1, <3>2, <3>3, <3>4, <3>5, <3>6 DEF GroupStep
  <2>3. QED
    BY <2>1, <2>2 DEF Copied, Left, Holds
<1>6. ASSUME UNCHANGED vars PROVE Copied(c)
  BY <1>6 DEF vars, Copied, Left, Holds
<1>7. QED
  BY <1>1, <1>2, <1>3, <1>4, <1>5, <1>6 DEF Next, Ended

\* Once every warp has left its loop, every chunk has been claimed and left.
LEMMA AllLeft ==
  ASSUME IInv, AllExited, NEW c \in Chunks
  PROVE  Left(c)
<1> USE LaunchShape DEF IInv
<1>1. \A g \in Groups : this_ix_chunk[g] >= NumChunks /\ this_ix_chunk[g] \in Nat
  BY DEF AllExited, PhaseInv, TypeOK
<1>2. c \in Nat /\ c < NumChunks
  BY DEF Chunks
<1>3. this_ix_chunk[0] < InitialChunks + ix_chunk
  BY DEF ClaimInv
<1>4. c < InitialChunks + ix_chunk
  BY <1>1, <1>2, <1>3 DEF TypeOK
<1>5. QED
  BY <1>1, <1>2, <1>4 DEF Left, Holds

\* With one warp per group, the header of a finished launch leads to the data
\* of every chunk, for every number of blocks and chunks and every size.
THEOREM ResultSafe == ASSUME Warps = 1 PROVE Spec => []ResultComplete
<1>1. Init => DataInv
  <2> SUFFICES ASSUME Init, NEW c \in Chunks PROVE ~Copied(c)
    BY DEF DataInv
  <2>1. ~Left(c)
    <3>1. CASE c < InitialChunks
      BY <3>1, LaunchShape DEF Init, Left, Holds, Groups
    <3>2. CASE ~(c < InitialChunks)
      BY <3>2, LaunchShape DEF Init, Left
    <3>3. QED
      BY <3>1, <3>2
  <2>2. QED
    BY <2>1, LaunchShape DEF Init, Copied
<1>2. IInv /\ DataInv /\ [Next]_vars => DataInv'
  BY DataStep
<1>3. IInv /\ DataInv => ResultComplete
  BY AllLeft DEF DataInv, Copied, ResultComplete
<1>4. QED
  BY Inductive, <1>1, <1>2, <1>3, PTL DEF Spec

\* With one warp per group, no step of any group disturbs a stored chunk.
THEOREM StoredChunksStay == ASSUME Warps = 1 PROVE Spec => StoredStays
<1>1. IInv /\ [Next]_vars =>
        [\A c \in Chunks : Stored(c) =>
           /\ Stored(c)'
           /\ comp_chunk_offsets'[c] = comp_chunk_offsets[c]
           /\ comp_chunk_sizes'[c] = comp_chunk_sizes[c]]_vars
  BY StoredStep
<1>2. QED
  BY Inductive, <1>1, PTL DEF Spec, StoredStays

-----------------------------------------------------------------------------
(* Groups of a single warp: the kernel implements GaplessBatch.            *)

\* With one warp per group, a chunk that has been copied stays copied.
LEMMA CopiedStays ==
  ASSUME IInv, Warps = 1, [Next]_vars, NEW c \in Chunks, Copied(c)
  PROVE  Copied(c)'
<1> USE LaunchShape DEF IInv
<1>1. ASSUME NEW g \in Groups, Advance(g) PROVE Copied(c)'
  <2>1. /\ pc[g][0] = "advance"
        /\ \A h \in Groups \ {g} : pc'[h] = pc[h]
    BY <1>1, GotoEffect DEF Advance, Labels
  <2>2. /\ this_ix_chunk'[g] = InitialChunks + ix_chunk
        /\ ix_chunk' = ix_chunk + 1
        /\ \A h \in Groups \ {g} : this_ix_chunk'[h] = this_ix_chunk[h]
    BY <1>1 DEF Advance, TypeOK
  <2>3. ix_chunk \in Nat /\ c \in Nat
    BY DEF TypeOK
  <2>4. c < InitialChunks + ix_chunk
    BY DEF Copied, Left, Holds, ClaimInv
  <2>5. CASE Holds(g, c)
    <3>1. this_ix_chunk'[g] # c
      BY <2>2, <2>3, <2>4
    <3>2. ASSUME NEW h \in Groups \ {g} PROVE this_ix_chunk'[h] # c
      <4>1. this_ix_chunk[h] # this_ix_chunk[g] /\ this_ix_chunk[g] = c
        BY <2>5 DEF Holds, ClaimInv, ClaimedOnce
      <4>2. QED
        BY <2>2, <4>1
    <3>3. \A h \in Groups : ~Holds(h, c)'
      BY <3>1, <3>2 DEF Holds
    <3>4. QED
      BY <2>2, <2>3, <2>4, <3>3 DEF Copied, Left
  <2>6. CASE ~Holds(g, c) /\ Left(c)
    BY <2>2, <2>3, <2>4, <2>6 DEF Copied, Left, Holds
  <2>7. CASE ~Holds(g, c) /\ ~Left(c)
    BY <2>1, <2>2, <2>7 DEF Copied, Holds
  <2>8. QED
    BY <2>5, <2>6, <2>7
<1>2. ASSUME NEW g \in Groups, GroupStep(g), ~Advance(g) PROVE Copied(c)'
  <2>1. this_ix_chunk' = this_ix_chunk /\ ix_chunk' = ix_chunk
    BY <1>2, OtherSteps DEF Reserve
  <2>2. \A h \in Groups :
          pc[h][0] \in {"report", "advance"} => pc'[h][0] \in {"report", "advance"}
    <3>1. CASE Start(g)
      BY <3>1, SyncEffect DEF Start, Labels
    <3>2. ASSUME NEW w \in WarpIds, Test(g, w)
          PROVE  \A h \in Groups :
                   pc[h][0] \in {"report", "advance"}
                     => pc'[h][0] \in {"report", "advance"}
      <4>1. (IF this_ix_chunk[g] < NumChunks THEN "compress" ELSE "exit") \in Labels
        BY DEF Labels
      <4>2. /\ pc[g][w] = "test"
            /\ \A v \in WarpIds \ {w} : pc'[g][v] = pc[g][v]
            /\ \A h \in Groups \ {g} : pc'[h] = pc[h]
        BY <3>2, <4>1, GotoEffect DEF Test
      <4>3. QED
        BY <4>2
    <3>3. CASE Compress(g)
      BY <3>3, CompressEffect
    <3>4. CASE Reserve(g)
      BY <3>4, GotoEffect DEF Reserve, Labels
    <3>5. CASE OffsetReady(g)
      BY <3>5, SyncEffect DEF OffsetReady, Labels
    <3>6. ASSUME NEW w \in WarpIds, Copy(g, w)
          PROVE  \A h \in Groups :
                   pc[h][0] \in {"report", "advance"}
                     => pc'[h][0] \in {"report", "advance"}
      BY <3>6, CopierHolds
    <3>7. CASE Report(g)
      BY <3>7, GotoEffect DEF Report, Labels
    <3>8. CASE ChunkReady(g)
      BY <3>8, SyncEffect DEF ChunkReady, Labels
    <3>9. QED
      BY <1>2, <3>1, <3>2, <3>3, <3>4, <3>5, <3>6, <3>7, <3>8 DEF GroupStep
  <2>3. QED
    BY <2>1, <2>2 DEF Copied, Left, Holds
<1>3. CASE UNCHANGED vars
  BY <1>3 DEF vars, Copied, Left, Holds
<1>4. QED
  BY <1>1, <1>2, <1>3 DEF Next, Ended

\* With one warp per group, no cell ever holds data of a chunk that its group
\* has not copied.
LEMMA FreshStep ==
  ASSUME IInv, FreshInv, Warps = 1, [Next]_vars
  PROVE  FreshInv'
<1> USE LaunchShape
<1> SUFFICES ASSUME NEW a \in Cells, NEW c \in Chunks, comp_buffer'[a][1] = c
             PROVE  Copied(c)'
  <2>1. \A a \in Cells : \A c \in Chunks :
          comp_buffer'[a][1] = c => Copied(c)'
    OBVIOUS
  <2>2. QED
    BY <2>1 DEF FreshInv
<1>1. CASE comp_buffer'[a] = comp_buffer[a]
  <2>1. Copied(c)
    BY <1>1 DEF FreshInv
  <2>2. QED
    BY <2>1, CopiedStays
<1>2. ASSUME NEW g \in Groups, NEW w \in WarpIds, Copy(g, w),
             comp_buffer'[a] # comp_buffer[a]
      PROVE  Copied(c)'
  <2>1. PICK k \in Chunks : k = this_ix_chunk[g]
    BY <1>2, CopierHolds
  <2>2. comp_buffer'[a] = <<k, a - comp_chunk_offsets[k]>>
    BY <1>2, <2>1, CopyWrites
  <2>3. pc'[g][0] = "report" /\ this_ix_chunk' = this_ix_chunk
    BY <1>2, CopierHolds DEF Copy
  <2>4. c = k
    BY <2>2
  <2>5. QED
    BY <2>1, <2>3, <2>4 DEF Copied, Holds
<1>3. ASSUME NEW g \in Groups, GroupStep(g), \A w \in WarpIds : ~Copy(g, w)
      PROVE  comp_buffer' = comp_buffer
  BY <1>3 DEF GroupStep, Start, Test, Compress, Reserve, OffsetReady, Report,
              Advance, ChunkReady
<1>4. CASE UNCHANGED vars
  BY <1>1, <1>4 DEF vars
<1>5. QED
  BY <1>1, <1>2, <1>3, <1>4 DEF Next, Ended

\* A reservation gives the group's chunk the next cells of the result and
\* stores nothing: what an earlier launch left there is not the chunk's data.
LEMMA ReserveRefines ==
  ASSUME IInv, FreshInv, ResultFits', Warps = 1, NEW g \in Groups, Reserve(g)
  PROVE  \E k \in Chunks : Batch!Place(k)
<1> USE LaunchShape
<1>1. PICK k \in Chunks : k = this_ix_chunk[g]
  BY ReservePlaces
<1>2. /\ ~Placed(k)
      /\ comp_chunk_sizes[k] \in 1 .. MaxCompChunkSize
      /\ \A c \in Chunks : Placed(c)' <=> Placed(c) \/ c = k
  BY <1>1, ReservePlaces
<1>3. /\ comp_chunk_offsets' = [comp_chunk_offsets EXCEPT ![k] = ix_output]
      /\ comp_chunk_sizes' = comp_chunk_sizes
      /\ ix_output' = ix_output + comp_chunk_sizes[k]
      /\ comp_buffer' = comp_buffer
  BY <1>1 DEF Reserve
<1>4. /\ comp_chunk_offsets'[k] = ix_output
      /\ \A c \in Chunks \ {k} : comp_chunk_offsets'[c] = comp_chunk_offsets[c]
  BY <1>3 DEF IInv, TypeOK
<1>5. BatchExtent' = [BatchExtent EXCEPT ![k] =
                        [off |-> ix_output, size |-> comp_chunk_sizes[k]]]
  BY <1>2, <1>3, <1>4 DEF BatchExtent
<1>6. ASSUME NEW c \in Chunks PROVE Stored(c)' <=> Stored(c)
  <2>1. CASE c = k
    <3>1. ~Stored(k)
      BY <1>2 DEF Stored
    <3>2. ix_output \in Nat /\ NumChunks * MaxCompChunkSize \in Nat
      <4>1. \A a, b \in Nat : a * b \in Nat
        OBVIOUS
      <4>2. QED
        BY <4>1, HlifAssumption DEF IInv, TypeOK, HlifAssumption
    <3>3. ix_output + comp_chunk_sizes[k] <= NumChunks * MaxCompChunkSize
      BY <1>3 DEF ResultFits
    <3>4. PICK a \in Cells : a = ix_output
      BY <1>2, <3>2, <3>3 DEF Cells
    <3>5. InExtent(a, k)'
      BY <1>2, <1>3, <1>4, <3>2, <3>4 DEF InExtent
    <3>6. comp_buffer[a] # <<k, 0>>
      <4>1. ~Copied(k)
        BY <1>2 DEF Copied, Placed, AfterReserve
      <4>2. comp_buffer[a] = <<k, 0>> => comp_buffer[a][1] = k
        OBVIOUS
      <4>3. QED
        BY <1>1, <4>1, <4>2 DEF FreshInv
    <3>7. ~Stored(k)'
      <4>1. a - comp_chunk_offsets'[k] = 0
        BY <1>4, <3>2, <3>4
      <4>2. QED
        BY <1>3, <3>5, <3>6, <4>1 DEF Stored
    <3>8. QED
      BY <2>1, <3>1, <3>7
  <2>2. CASE c # k
    BY <1>2, <1>3, <1>4, <2>2 DEF Stored, InExtent
  <2>3. QED
    BY <2>1, <2>2
<1>7. BatchStored' = BatchStored
  BY <1>6 DEF BatchStored
<1>8. BatchExtent[k] = Batch!Nowhere
  BY <1>2 DEF BatchExtent, Batch!Nowhere
<1>9. QED
  BY <1>2, <1>3, <1>5, <1>7, <1>8 DEF Batch!Place

\* A copy stores its chunk and no other, in the extent the chunk has.
LEMMA CopyRefines ==
  ASSUME IInv, DataInv, DataInv', Warps = 1,
         NEW g \in Groups, NEW w \in WarpIds, Copy(g, w)
  PROVE  (\E k \in Chunks : Batch!Store(k)) \/ UNCHANGED Batch!vars
<1> USE LaunchShape
<1>1. PICK k \in Chunks : k = this_ix_chunk[g]
  BY CopierHolds
<1>2. Placed(k)
  BY <1>1, CopierHolds
<1>3. \A c \in Chunks : Placed(c)' <=> Placed(c)
  <2>1. GroupStep(g)
    BY DEF GroupStep
  <2>2. ~Reserve(g)
    BY CopierHolds DEF Reserve, Goto
  <2>3. QED
    BY <2>1, <2>2, PlacedSame
<1>4. /\ comp_chunk_offsets' = comp_chunk_offsets
      /\ comp_chunk_sizes' = comp_chunk_sizes
      /\ ix_output' = ix_output
  BY DEF Copy, arrays
<1>5. BatchExtent' = BatchExtent
  BY <1>3, <1>4 DEF BatchExtent
<1>6. comp_buffer' = [a \in Cells |->
        IF InExtent(a, k) THEN <<k, a - comp_chunk_offsets[k]>>
                          ELSE comp_buffer[a]]
  BY <1>1, CopyWrites
<1>7. ASSUME NEW c \in Chunks, c # k PROVE Stored(c)' <=> Stored(c)
  <2>1. CASE Placed(c)
    <3>1. ASSUME NEW a \in Cells, InExtent(a, c)
          PROVE  comp_buffer'[a] = comp_buffer[a]
      <4>1. a \in Nat
        BY DEF Cells
      <4>2. ~InExtent(a, k)
        BY <1>2, <1>7, <2>1, <3>1, <4>1, ExtentsApart
      <4>3. QED
        BY <1>6, <4>2
    <3>2. QED
      BY <1>3, <1>4, <3>1 DEF Stored, InExtent
  <2>2. CASE ~Placed(c)
    BY <1>3, <2>2 DEF Stored
  <2>3. QED
    BY <2>1, <2>2
<1>8. Stored(k)'
  <2>1. pc'[g][0] = "report" /\ this_ix_chunk' = this_ix_chunk
    BY CopierHolds DEF Copy
  <2>2. Copied(k)'
    BY <1>1, <2>1 DEF Copied, Holds
  <2>3. QED
    BY <2>2 DEF DataInv
<1>9. BatchStored' = BatchStored \cup {k}
  BY <1>7, <1>8 DEF BatchStored
<1>10. BatchExtent[k] # Batch!Nowhere
  <2>1. comp_chunk_sizes[k] # 0
    BY <1>2 DEF IInv, ExtentInv
  <2>2. BatchExtent[k].size = comp_chunk_sizes[k]
    BY <1>2 DEF BatchExtent
  <2>3. Batch!Nowhere.size = 0
    BY DEF Batch!Nowhere
  <2>4. QED
    BY <2>1, <2>2, <2>3
<1>11. CASE k \in BatchStored
  BY <1>4, <1>5, <1>9, <1>11 DEF Batch!vars
<1>12. CASE k \notin BatchStored
  BY <1>4, <1>5, <1>9, <1>10, <1>12 DEF Batch!Store
<1>13. QED
  BY <1>11, <1>12

\* The other steps change nothing that the batch promises: a compression
\* writes the header entry only of a chunk that has no extent yet.
LEMMA OthersRefine ==
  ASSUME IInv, NEW g \in Groups, GroupStep(g), ~Reserve(g),
         \A w \in WarpIds : ~Copy(g, w)
  PROVE  UNCHANGED Batch!vars
<1> USE LaunchShape
<1>1. \A c \in Chunks : Placed(c)' <=> Placed(c)
  BY PlacedSame
<1>2. /\ comp_chunk_offsets' = comp_chunk_offsets
      /\ ix_output' = ix_output
      /\ comp_buffer' = comp_buffer
  BY DEF GroupStep, Start, Test, Compress, OffsetReady, Report, Advance,
         ChunkReady, arrays
<1>3. \A c \in Chunks : Placed(c) => comp_chunk_sizes'[c] = comp_chunk_sizes[c]
  <2>1. CASE Compress(g)
    <3>1. ~Placed(this_ix_chunk[g])
      BY <2>1, CompressEffect, NotPlacedYet DEF IInv, AfterReserve
    <3>2. PICK m \in 1 .. MaxCompChunkSize :
            comp_chunk_sizes' = [comp_chunk_sizes EXCEPT ![this_ix_chunk[g]] = m]
      BY <2>1 DEF Compress
    <3>3. QED
      BY <3>1, <3>2 DEF IInv, TypeOK
  <2>2. CASE ~Compress(g)
    BY <2>2 DEF GroupStep, Start, Test, OffsetReady, Report, Advance,
                ChunkReady, arrays
  <2>3. QED
    BY <2>1, <2>2
<1>4. BatchExtent' = BatchExtent
  BY <1>1, <1>2, <1>3 DEF BatchExtent
<1>5. \A c \in Chunks : Stored(c)' <=> Stored(c)
  BY <1>1, <1>2, <1>3 DEF Stored, InExtent
<1>6. QED
  BY <1>2, <1>4, <1>5 DEF Batch!vars, BatchStored

\* Nothing is placed or stored when the kernel starts.
LEMMA InitRefines == Init => Batch!Init /\ FreshInv /\ DataInv
<1> SUFFICES ASSUME Init PROVE Batch!Init /\ FreshInv /\ DataInv
  OBVIOUS
<1>1. \A c \in Chunks : ~Placed(c) /\ ~Copied(c)
  BY NonePlaced
<1>2. BatchExtent = [c \in Batch!Chunks |-> Batch!Nowhere]
  BY <1>1 DEF BatchExtent, Batch!Nowhere, Batch!Chunks, Chunks
<1>3. BatchStored = {}
  BY <1>1 DEF BatchStored, Stored
<1>4. ix_output = 0
  BY DEF Init
<1>5. FreshInv
  <2>1. \A a \in Cells : comp_buffer[a][1] = NumChunks
    BY DEF Init, NoChunk
  <2>2. NumChunks \notin Chunks
    BY LaunchShape DEF Chunks
  <2>3. QED
    BY <2>1, <2>2 DEF FreshInv
<1>6. QED
  BY <1>1, <1>2, <1>3, <1>4, <1>5 DEF Batch!Init, DataInv

\* With one warp per group the kernel implements the gapless batch: every
\* step of any group gives one chunk the next cells of the result, stores one
\* placed chunk, or changes nothing the caller can see.  (That every chunk is
\* placed and stored in the end is left to the model checker.)
THEOREM BatchImplemented == ASSUME Warps = 1 PROVE Spec => Batch!Safety
<1>1. IInv /\ FreshInv /\ [Next]_vars => FreshInv'
  BY FreshStep
<1>2. IInv /\ DataInv /\ [Next]_vars => DataInv'
  BY DataStep
<1>3. ASSUME IInv, FreshInv, DataInv, DataInv', ResultFits', [Next]_vars
      PROVE  [Batch!Next]_(Batch!vars)
  <2>1. ASSUME NEW g \in Groups, Reserve(g) PROVE Batch!Next
    <3>1. PICK k \in Chunks : Batch!Place(k)
      BY <1>3, <2>1, ReserveRefines
    <3>2. QED
      BY <3>1 DEF Batch!Next, Batch!Chunks, Chunks
  <2>2. ASSUME NEW g \in Groups, NEW w \in WarpIds, Copy(g, w)
        PROVE  [Batch!Next]_(Batch!vars)
    <3>1. (\E k \in Chunks : Batch!Store(k)) \/ UNCHANGED Batch!vars
      BY <1>3, <2>2, CopyRefines
    <3>2. QED
      BY <3>1 DEF Batch!Next, Batch!Chunks, Chunks
  <2>3. ASSUME NEW g \in Groups, GroupStep(g), ~Reserve(g),
               \A w \in WarpIds : ~Copy(g, w)
        PROVE  UNCHANGED Batch!vars
    BY <1>3, <2>3, OthersRefine
  <2>4. CASE UNCHANGED vars
    BY <2>4 DEF vars, Batch!vars, BatchExtent, BatchStored, Stored, InExtent,
                Placed, Left, Holds
  <2>5. QED
    BY <1>3, <2>1, <2>2, <2>3, <2>4 DEF Next, Ended
<1>4. QED
  BY Inductive, ResultInRoom, InitRefines, <1>1, <1>2, <1>3, PTL
  DEF Spec, Batch!Safety
=============================================================================
