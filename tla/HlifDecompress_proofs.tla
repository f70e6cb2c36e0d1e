------------------------ MODULE HlifDecompress_proofs ------------------------
(***************************************************************************)
(* Proofs about the batch decompression kernel, for every launch shape,    *)
(* every number of chunks and every set of corrupt chunks.                 *)
(***************************************************************************)
EXTENDS HlifDecompress, FiniteSetTheorems, TLAPS

\* The launch has at least one group and every group has a warp 0.
LEMMA LaunchShape ==
  /\ InitialChunks \in Nat \ {0}
  /\ 0 \in Groups
  /\ 0 \in WarpIds
  /\ Groups \subseteq Nat
  /\ WarpIds \subseteq Nat
  /\ Chunks \subseteq Nat
  /\ NumChunks \in Nat
<1>1. ASSUME NEW a \in Nat \ {0}, NEW b \in Nat \ {0} PROVE a * b \in Nat \ {0}
  OBVIOUS
<1>2. InitialChunks \in Nat \ {0}
  BY <1>1, HlifDecompressAssumption DEF HlifDecompressAssumption, InitialChunks
<1>3. QED
  BY <1>2, HlifDecompressAssumption
  DEF HlifDecompressAssumption, Groups, WarpIds, Chunks

\* A group that stays together decompresses as one team, that of thread 0.
LEMMA OneTeam ==
  ASSUME Together
  PROVE  Teams = {WarpIds}
<1>1. CASE Barriers
  BY <1>1 DEF Teams
<1>2. CASE ~Barriers
  <2>1. WarpIds = {0}
    BY <1>2 DEF Together, WarpIds
  <2>2. QED
    BY <1>2, <2>1 DEF Teams
<1>3. QED
  BY <1>1, <1>2

\* The steps of a launch whose groups stay together.
LEMMA Steps ==
  ASSUME Together, [Next]_vars
  PROVE  \/ \E g \in Groups :
               \/ Start(g)
               \/ \E w \in WarpIds :
                    Test(g, w) \/ Source(g, w) \/ Target(g, w) \/ Size(g, w)
               \/ DecompressChunk(g, WarpIds)
               \/ Report(g)
               \/ Advance(g)
               \/ ChunkReady(g)
         \/ UNCHANGED vars
<1>1. CASE \E g \in Groups : GroupStep(g)
  <2>1. PICK g \in Groups : GroupStep(g)
    BY <1>1
  <2>2. (\E team \in Teams : DecompressChunk(g, team))
          => DecompressChunk(g, WarpIds)
    <3>1. SUFFICES ASSUME NEW team \in Teams, DecompressChunk(g, team)
                   PROVE  DecompressChunk(g, WarpIds)
      OBVIOUS
    <3>2. team = WarpIds
      BY OneTeam
    <3>3. QED
      BY <3>1, <3>2
  <2>3. QED
    BY <2>1, <2>2 DEF GroupStep
<1>2. CASE Ended \/ UNCHANGED vars
  BY <1>2 DEF Ended
<1>3. QED
  BY <1>1, <1>2 DEF Next

\* There are as many groups as chunks are claimed by number.
LEMMA GroupCount == IsFiniteSet(Groups) /\ Cardinality(Groups) = InitialChunks
<1>1. 0 \in Int /\ InitialChunks - 1 \in Int /\ ~(0 > InitialChunks - 1)
  BY LaunchShape
<1>2. /\ IsFiniteSet(0 .. InitialChunks - 1)
      /\ Cardinality(0 .. InitialChunks - 1) = InitialChunks - 1 - 0 + 1
  BY <1>1, FS_Interval
<1>3. QED
  BY <1>2, LaunchShape DEF Groups

\* There are NumChunks chunks.
LEMMA ChunkCount == IsFiniteSet(Chunks) /\ Cardinality(Chunks) = NumChunks
<1>1. 0 \in Int /\ NumChunks - 1 \in Int
  BY LaunchShape
<1>2. /\ IsFiniteSet(0 .. NumChunks - 1)
      /\ Cardinality(0 .. NumChunks - 1)
           = IF 0 > NumChunks - 1 THEN 0 ELSE NumChunks - 1 - 0 + 1
  BY <1>1, FS_Interval
<1>3. QED
  BY <1>2, LaunchShape DEF Chunks

-----------------------------------------------------------------------------
(* The initial state.                                                      *)

\* The initial state satisfies the inductive invariant.
LEMMA InitInv == Init => IInv /\ StatusInv
<1> SUFFICES ASSUME Init PROVE IInv /\ StatusInv
  OBVIOUS
<1> USE LaunchShape, HlifDecompressAssumption
<1>1. TypeOK
  <2>1. pc \in [Groups -> [WarpIds -> Labels]]
    BY DEF Init, Labels
  <2>2. NumChunks \in Indices /\ Groups \subseteq Indices
    BY DEF Indices, Groups
  <2>3. arg \in [Groups ->
               [WarpIds -> [src : Indices, dst : Indices, size : Indices]]]
    BY <2>2 DEF Init, NoChunk
  <2>4. this_ix_chunk \in [Groups -> Indices]
    BY <2>2 DEF Init
  <2>5. shared_status \in [Groups -> Status]
    BY DEF Init, HlifDecompressAssumption
  <2>6. decomp_buffer \in [Chunks -> [WarpIds -> Chunks \cup {NoChunk}]]
    BY DEF Init
  <2>7. QED
    BY <2>1, <2>3, <2>4, <2>5, <2>6 DEF Init, TypeOK, Status
<1>2. PhaseInv
  BY DEF Init, PhaseInv, Phase
<1>3. ClaimInv
  <2>1. Retired = {}
    BY DEF Init, Retired, Groups
  <2>2. QED
    BY <2>1, FS_EmptySet DEF Init, ClaimInv, Groups
<1>4. ASSUME NEW c \in Chunks PROVE Pending(c)
  <2>1. CASE c < InitialChunks
    BY <2>1 DEF Init, Pending, Groups, Chunks
  <2>2. CASE ~(c < InitialChunks)
    BY <2>2 DEF Init, Pending, Chunks
  <2>3. QED
    BY <2>1, <2>2
<1>5. DataInv
  BY <1>4 DEF DataInv
<1>6. corrupt \subseteq Chunks
  BY DEF Init, HlifDecompressAssumption
<1>7. StatusInv
  BY <1>4, <1>6 DEF Init, StatusInv, Success, Error
<1>8. QED
  BY <1>1, <1>2, <1>3, <1>5, <1>7 DEF IInv

-----------------------------------------------------------------------------
(* How the steps move the warps.                                           *)

\* A warp's step to another label moves only that warp.
LEMMA GotoEffect ==
  ASSUME TypeOK, NEW g \in Groups, NEW w \in WarpIds, NEW from, NEW to \in Labels,
         Goto(g, w, from, to)
  PROVE  /\ pc[g][w] = from
         /\ pc' \in [Groups -> [WarpIds -> Labels]]
         /\ pc'[g][w] = to
         /\ \A v \in WarpIds \ {w} : pc'[g][v] = pc[g][v]
         /\ \A h \in Groups \ {g} : pc'[h] = pc[h]
  BY DEF TypeOK, Goto

\* A barrier moves the waiting warps of the group and no other group; warps
\* that have exited stay where they are.
LEMMA SyncEffect ==
  ASSUME TypeOK, NEW g \in Groups, NEW from, NEW to \in Labels,
         Sync(g, from, to)
  PROVE  /\ \E w \in WarpIds : pc[g][w] = from
         /\ \A w \in WarpIds : pc[g][w] \in {from, "exit", "trap"}
         /\ pc' \in [Groups -> [WarpIds -> Labels]]
         /\ \A w \in WarpIds : pc'[g][w] = IF pc[g][w] = from THEN to ELSE pc[g][w]
         /\ \A h \in Groups \ {g} : pc'[h] = pc[h]
  BY DEF TypeOK, Sync

\* Decompression as one team: thread 0 goes on to report, the others to the
\* barrier, and the output of the chunk in thread 0's arguments is replaced.
LEMMA DecompressEffect ==
  ASSUME TypeOK, NEW g \in Groups, DecompressChunk(g, WarpIds)
  PROVE  /\ \A w \in WarpIds : pc[g][w] = "decompress"
         /\ pc' \in [Groups -> [WarpIds -> Labels]]
         /\ \A w \in WarpIds :
              pc'[g][w] = IF w = 0 THEN "report" ELSE "await_chunk"
         /\ \A h \in Groups \ {g} : pc'[h] = pc[h]
         /\ decomp_buffer' = [c \in Chunks |-> [w \in WarpIds |->
              IF c = arg[g][0].dst THEN Found(arg[g][0])
                                   ELSE decomp_buffer[c][w]]]
         /\ shared_status' =
              IF StatusWritten
              THEN [shared_status EXCEPT ![g] =
                      IF Found(arg[g][0]) = NoChunk THEN Error ELSE Success]
              ELSE shared_status
<1>1. 0 \in WarpIds
  BY LaunchShape
<1>2. /\ \A w \in WarpIds : pc[g][w] = "decompress"
      /\ pc' = [pc EXCEPT ![g] = [w \in WarpIds |->
                  IF w = 0 THEN "report" ELSE "await_chunk"]]
  BY <1>1 DEF DecompressChunk
<1>3. decomp_buffer' = [c \in Chunks |-> [w \in WarpIds |->
        IF c = arg[g][0].dst THEN Found(arg[g][0]) ELSE decomp_buffer[c][w]]]
  BY <1>1 DEF DecompressChunk
<1>4. shared_status' =
        IF StatusWritten
        THEN [shared_status EXCEPT ![g] =
                IF Found(arg[g][0]) = NoChunk THEN Error ELSE Success]
        ELSE shared_status
  BY <1>1 DEF DecompressChunk
<1>5. QED
  BY <1>2, <1>3, <1>4 DEF TypeOK, Labels

\* The values TypeOK gives the group's chunk and the counter.
LEMMA IndexTypes ==
  ASSUME TypeOK
  PROVE  /\ ix_chunk \in Nat
         /\ \A g \in Groups : this_ix_chunk[g] \in Nat
         /\ DOMAIN this_ix_chunk = Groups
  BY LaunchShape DEF TypeOK, Indices

\* What a decompression finds is a chunk or nothing.
LEMMA FoundType ==
  ASSUME NEW a
  PROVE  Found(a) \in Chunks \cup {NoChunk}
  BY DEF Found

-----------------------------------------------------------------------------
(* The phases of a group.                                                  *)

\* The phase of a group depends on its own variables only.
LEMMA PhaseFrame ==
  ASSUME NEW h \in Groups, Phase(h), pc'[h] = pc[h],
         this_ix_chunk'[h] = this_ix_chunk[h], arg'[h] = arg[h]
  PROVE  Phase(h)'
  BY DEF Phase

\* A warp that is about to use the index works on a real chunk, which every
\* warp of its group is still to use.
LEMMA Working ==
  ASSUME TypeOK, NEW g \in Groups, Phase(g), NEW w \in WarpIds,
         pc[g][w] \in {"test", "source", "target", "size", "decompress"}
  PROVE  \A v \in WarpIds :
           /\ pc[g][v] \in {"test", "source", "target", "size", "decompress", "exit", "trap"}
           /\ pc[g][v] \in {"exit", "trap"} => this_ix_chunk[g] >= NumChunks
           /\ pc[g][v] \notin {"test", "exit", "trap"} => this_ix_chunk[g] < NumChunks
           /\ pc[g][v] \in {"target", "size", "decompress"}
                => arg[g][v].src = this_ix_chunk[g]
           /\ pc[g][v] \in {"size", "decompress"}
                => arg[g][v].dst = this_ix_chunk[g]
           /\ pc[g][v] = "decompress" => arg[g][v].size = this_ix_chunk[g]
<1>1. ~(\A v \in WarpIds : pc[g][v] = "start" /\ this_ix_chunk[g] = g)
  OBVIOUS
<1>2. ~(/\ \A v \in WarpIds \ {0} : pc[g][v] = "await_chunk"
        /\ \/ pc[g][0] \in {"report", "advance"} /\ this_ix_chunk[g] < NumChunks
           \/ pc[g][0] = "await_chunk")
  OBVIOUS
<1>3. QED
  BY <1>1, <1>2 DEF Phase

\* A group about to decompress, report or claim holds a real chunk.
LEMMA HeldChunk ==
  ASSUME TypeOK, NEW g \in Groups, Phase(g),
         \/ pc[g][0] \in {"report", "advance"}
         \/ \E w \in WarpIds : pc[g][w] = "decompress"
  PROVE  this_ix_chunk[g] \in Chunks
<1>1. this_ix_chunk[g] \in Nat
  BY IndexTypes
<1>2. this_ix_chunk[g] < NumChunks
  BY LaunchShape DEF Phase
<1>3. QED
  BY <1>1, <1>2, LaunchShape DEF Chunks

\* Every step keeps the warps of a group between the same two barriers and
\* the arguments they have read equal to the group's index.
LEMMA PhaseStep ==
  ASSUME Together, TypeOK, PhaseInv, [Next]_vars
  PROVE  PhaseInv'
<1> USE LaunchShape
<1>1. ASSUME NEW g \in Groups, Phase(g)',
             \A h \in Groups \ {g} :
               /\ pc'[h] = pc[h]
               /\ this_ix_chunk'[h] = this_ix_chunk[h]
               /\ arg'[h] = arg[h]
      PROVE  PhaseInv'
  <2> SUFFICES ASSUME NEW h \in Groups PROVE Phase(h)'
    BY DEF PhaseInv
  <2>1. CASE h = g
    BY <1>1, <2>1
  <2>2. CASE h # g
    BY <1>1, <2>2, PhaseFrame DEF PhaseInv
  <2>3. QED
    BY <2>1, <2>2
<1>2. ASSUME NEW g \in Groups, Start(g) PROVE PhaseInv'
  <2>1. \A w \in WarpIds : pc[g][w] = "start"
    BY <1>2, SyncEffect DEF Start, PhaseInv, Phase, Labels
  <2>2. /\ \A w \in WarpIds : pc'[g][w] = "test"
        /\ \A h \in Groups \ {g} : pc'[h] = pc[h]
    BY <1>2, <2>1, SyncEffect DEF Start, Labels
  <2>3. /\ this_ix_chunk' = [this_ix_chunk EXCEPT ![g] = g]
        /\ arg' = arg
    BY <1>2 DEF Start
  <2>4. Phase(g)'
    BY <2>2 DEF Phase
  <2>5. QED
    BY <1>1, <2>2, <2>3, <2>4 DEF TypeOK
<1>3. ASSUME NEW g \in Groups, NEW w \in WarpIds, Test(g, w) PROVE PhaseInv'
  <2> DEFINE to == IF this_ix_chunk[g] < NumChunks THEN "source" ELSE AfterLoop
  <2>1. to \in Labels
    BY DEF Labels, AfterLoop
  <2>2. Goto(g, w, "test", to)
    BY <1>3 DEF Test
  <2> HIDE DEF to
  <2>3. /\ pc[g][w] = "test" /\ pc'[g][w] = to
        /\ \A v \in WarpIds \ {w} : pc'[g][v] = pc[g][v]
        /\ \A h \in Groups \ {g} : pc'[h] = pc[h]
    BY <2>1, <2>2, GotoEffect
  <2>4. this_ix_chunk' = this_ix_chunk /\ arg' = arg
    BY <1>3 DEF Test
  <2>5. this_ix_chunk[g] \in Nat
    BY IndexTypes
  <2>6. Phase(g)'
    BY <2>3, <2>4, <2>5, Working DEF Phase, PhaseInv, to, AfterLoop
  <2>7. QED
    BY <1>1, <2>3, <2>4, <2>6
<1>4. ASSUME NEW g \in Groups, NEW w \in WarpIds, Source(g, w) PROVE PhaseInv'
  <2>1. /\ pc[g][w] = "source" /\ pc'[g][w] = "target"
        /\ \A v \in WarpIds \ {w} : pc'[g][v] = pc[g][v]
        /\ \A h \in Groups \ {g} : pc'[h] = pc[h]
    BY <1>4, GotoEffect DEF Source, Labels
  <2>2. /\ this_ix_chunk' = this_ix_chunk
        /\ \A h \in Groups \ {g} : arg'[h] = arg[h]
        /\ \A v \in WarpIds \ {w} : arg'[g][v] = arg[g][v]
        /\ arg'[g][w].src = this_ix_chunk[g]
    BY <1>4 DEF Source, TypeOK
  <2>3. Phase(g)'
    BY <2>1, <2>2, Working DEF Phase, PhaseInv
  <2>4. QED
    BY <1>1, <2>1, <2>2, <2>3
<1>5. ASSUME NEW g \in Groups, NEW w \in WarpIds, Target(g, w) PROVE PhaseInv'
  <2>1. /\ pc[g][w] = "target" /\ pc'[g][w] = "size"
        /\ \A v \in WarpIds \ {w} : pc'[g][v] = pc[g][v]
        /\ \A h \in Groups \ {g} : pc'[h] = pc[h]
    BY <1>5, GotoEffect DEF Target, Labels
  <2>2. /\ this_ix_chunk' = this_ix_chunk
        /\ \A h \in Groups \ {g} : arg'[h] = arg[h]
        /\ \A v \in WarpIds \ {w} : arg'[g][v] = arg[g][v]
        /\ arg'[g][w].src = arg[g][w].src
        /\ arg'[g][w].dst = this_ix_chunk[g]
    BY <1>5 DEF Target, TypeOK
  <2>3. Phase(g)'
    BY <2>1, <2>2, Working DEF Phase, PhaseInv
  <2>4. QED
    BY <1>1, <2>1, <2>2, <2>3
<1>6. ASSUME NEW g \in Groups, NEW w \in WarpIds, Size(g, w) PROVE PhaseInv'
  <2>1. /\ pc[g][w] = "size" /\ pc'[g][w] = "decompress"
        /\ \A v \in WarpIds \ {w} : pc'[g][v] = pc[g][v]
        /\ \A h \in Groups \ {g} : pc'[h] = pc[h]
    BY <1>6, GotoEffect DEF Size, Labels
  <2>2. /\ this_ix_chunk' = this_ix_chunk
        /\ \A h \in Groups \ {g} : arg'[h] = arg[h]
        /\ \A v \in WarpIds \ {w} : arg'[g][v] = arg[g][v]
        /\ arg'[g][w].src = arg[g][w].src
        /\ arg'[g][w].dst = arg[g][w].dst
        /\ arg'[g][w].size = this_ix_chunk[g]
    BY <1>6 DEF Size, TypeOK
  <2>3. Phase(g)'
    BY <2>1, <2>2, Working DEF Phase, PhaseInv
  <2>4. QED
    BY <1>1, <2>1, <2>2, <2>3
<1>7. ASSUME NEW g \in Groups, DecompressChunk(g, WarpIds) PROVE PhaseInv'
  <2>1. /\ \A w \in WarpIds : pc[g][w] = "decompress"
        /\ \A w \in WarpIds :
             pc'[g][w] = IF w = 0 THEN "report" ELSE "await_chunk"
        /\ \A h \in Groups \ {g} : pc'[h] = pc[h]
    BY <1>7, DecompressEffect
  <2>2. this_ix_chunk' = this_ix_chunk /\ arg' = arg
    BY <1>7 DEF DecompressChunk
  <2>3. this_ix_chunk[g] < NumChunks
    BY <2>1, Working DEF PhaseInv
  <2>4. Phase(g)'
    BY <2>1, <2>2, <2>3 DEF Phase
  <2>5. QED
    BY <1>1, <2>1, <2>2, <2>4
<1>8. ASSUME NEW g \in Groups, Report(g) PROVE PhaseInv'
  <2>1. /\ pc[g][0] = "report" /\ pc'[g][0] = "advance"
        /\ \A v \in WarpIds \ {0} : pc'[g][v] = pc[g][v]
        /\ \A h \in Groups \ {g} : pc'[h] = pc[h]
    BY <1>8, GotoEffect DEF Report, Labels
  <2>2. this_ix_chunk' = this_ix_chunk /\ arg' = arg
    BY <1>8 DEF Report
  <2>3. Phase(g)'
    BY <2>1, <2>2 DEF Phase, PhaseInv
  <2>4. QED
    BY <1>1, <2>1, <2>2, <2>3
<1>9. ASSUME NEW g \in Groups, Advance(g) PROVE PhaseInv'
  <2>1. /\ pc[g][0] = "advance" /\ pc'[g][0] = "await_chunk"
        /\ \A v \in WarpIds \ {0} : pc'[g][v] = pc[g][v]
        /\ \A h \in Groups \ {g} : pc'[h] = pc[h]
    BY <1>9, GotoEffect DEF Advance, Labels
  <2>2. /\ \A h \in Groups \ {g} : this_ix_chunk'[h] = this_ix_chunk[h]
        /\ arg' = arg
    BY <1>9 DEF Advance, TypeOK
  <2>3. Phase(g)'
    BY <2>1, <2>2 DEF Phase, PhaseInv
  <2>4. QED
    BY <1>1, <2>1, <2>2, <2>3
<1>10. ASSUME NEW g \in Groups, ChunkReady(g) PROVE PhaseInv'
  <2>1. \A w \in WarpIds : pc[g][w] = "await_chunk"
    <3>1. /\ \E w \in WarpIds : pc[g][w] = "await_chunk"
          /\ \A w \in WarpIds : pc[g][w] \in {"await_chunk", "exit", "trap"}
      BY <1>10, SyncEffect DEF ChunkReady, Labels
    <3>2. Phase(g)
      BY DEF PhaseInv
    <3>3. QED
      BY <3>1, <3>2 DEF Phase
  <2>2. /\ \A w \in WarpIds : pc'[g][w] = "test"
        /\ \A h \in Groups \ {g} : pc'[h] = pc[h]
    BY <1>10, <2>1, SyncEffect DEF ChunkReady, Labels
  <2>3. this_ix_chunk' = this_ix_chunk /\ arg' = arg
    BY <1>10 DEF ChunkReady
  <2>4. Phase(g)'
    BY <2>2 DEF Phase
  <2>5. QED
    BY <1>1, <2>2, <2>3, <2>4
<1>11. CASE UNCHANGED vars
  BY <1>11, PhaseFrame DEF vars, PhaseInv
<1>12. QED
  BY <1>2, <1>3, <1>4, <1>5, <1>6, <1>7, <1>8, <1>9, <1>10, <1>11, Steps

-----------------------------------------------------------------------------
(* The claims.                                                             *)

\* Counting the chunks that are done: before a claim there is still a real
\* chunk that no claim has retired, the one its group holds.
LEMMA ClaimFits ==
  ASSUME TypeOK, PhaseInv, ClaimInv, NEW g \in Groups, pc[g][0] = "advance"
  PROVE  /\ ix_chunk < NumChunks
         /\ this_ix_chunk[g] \notin Retired
         /\ IsFiniteSet(Retired)
         /\ Cardinality(Retired \cup {this_ix_chunk[g]}) = ix_chunk + 1
<1>1. this_ix_chunk[g] \in Chunks
  BY HeldChunk DEF PhaseInv
<1>2. this_ix_chunk[g] \notin Retired
  BY DEF Retired
<1>3. IsFiniteSet(Retired)
  BY ChunkCount, FS_Subset DEF ClaimInv
<1>4. Cardinality(Retired \cup {this_ix_chunk[g]}) = ix_chunk + 1
  BY <1>2, <1>3, FS_AddElement DEF ClaimInv
<1>5. Retired \cup {this_ix_chunk[g]} \in SUBSET Chunks
  BY <1>1 DEF ClaimInv
<1>6. ix_chunk + 1 <= NumChunks
  BY <1>4, <1>5, ChunkCount, FS_Subset
<1>7. QED
  BY <1>2, <1>3, <1>4, <1>6, IndexTypes, LaunchShape

\* A claim hands out a new index and retires the group's last chunk.
LEMMA AdvanceRetires ==
  ASSUME TypeOK, ClaimInv, NEW g \in Groups, Advance(g)
  PROVE  /\ ix_chunk' = ix_chunk + 1
         /\ this_ix_chunk'[g] = InitialChunks + ix_chunk
         /\ \A h \in Groups \ {g} : this_ix_chunk'[h] = this_ix_chunk[h]
         /\ Retired' = Retired \cup {this_ix_chunk[g]}
<1> USE LaunchShape
<1>1. /\ ix_chunk' = ix_chunk + 1
      /\ this_ix_chunk'[g] = InitialChunks + ix_chunk
      /\ \A h \in Groups \ {g} : this_ix_chunk'[h] = this_ix_chunk[h]
  BY DEF Advance, TypeOK
<1>2. ix_chunk \in Nat /\ \A h \in Groups : this_ix_chunk[h] \in Nat
  BY IndexTypes
<1>3. ASSUME NEW i \in Retired' PROVE i \in Retired \cup {this_ix_chunk[g]}
  <2>1. /\ i \in 0 .. InitialChunks + ix_chunk
        /\ \A h \in Groups : this_ix_chunk'[h] # i
    BY <1>1, <1>2 DEF Retired
  <2>2. i \in 0 .. InitialChunks + ix_chunk - 1
    BY <1>1, <1>2, <2>1
  <2>3. QED
    BY <1>1, <2>1, <2>2 DEF Retired
<1>4. ASSUME NEW i \in Retired PROVE i \in Retired'
  BY <1>1, <1>2 DEF Retired
<1>5. this_ix_chunk[g] \in Retired'
  <2>1. this_ix_chunk[g] < InitialChunks + ix_chunk
    BY DEF ClaimInv
  <2>2. \A h \in Groups : this_ix_chunk'[h] # this_ix_chunk[g]
    BY <1>1, <2>1, <1>2 DEF ClaimInv
  <2>3. QED
    BY <1>1, <1>2, <2>1, <2>2 DEF Retired
<1>6. QED
  BY <1>1, <1>3, <1>4, <1>5

\* Every step keeps each index with one group and the retired ones counted.
LEMMA ClaimStep ==
  ASSUME Together, TypeOK, PhaseInv, ClaimInv, [Next]_vars
  PROVE  ClaimInv'
<1> USE LaunchShape
<1>1. ASSUME this_ix_chunk' = this_ix_chunk, ix_chunk' = ix_chunk
      PROVE  ClaimInv'
  BY <1>1 DEF ClaimInv, Retired
<1>2. ASSUME NEW g \in Groups, Start(g) PROVE ClaimInv'
  <2>1. this_ix_chunk[g] = g
    <3>1. \E w \in WarpIds : pc[g][w] = "start"
      BY <1>2 DEF Start, Sync
    <3>2. Phase(g)
      BY DEF PhaseInv
    <3>3. QED
      BY <3>1, <3>2 DEF Phase
  <2>2. this_ix_chunk' = this_ix_chunk /\ ix_chunk' = ix_chunk
    BY <1>2, <2>1 DEF Start, TypeOK
  <2>3. QED
    BY <1>1, <2>2
<1>3. ASSUME NEW g \in Groups, Advance(g) PROVE ClaimInv'
  <2>1. pc[g][0] = "advance"
    BY <1>3 DEF Advance, Goto
  <2>2. ix_chunk \in Nat /\ \A h \in Groups : this_ix_chunk[h] \in Nat
    BY IndexTypes
  <2>3. \A h \in Groups : this_ix_chunk'[h] < InitialChunks + ix_chunk'
    BY <1>3, <2>2, AdvanceRetires DEF ClaimInv
  <2>4. \A h, k \in Groups : h # k => this_ix_chunk'[h] # this_ix_chunk'[k]
    BY <1>3, <2>2, AdvanceRetires DEF ClaimInv
  <2>5. Retired' \subseteq Chunks
    <3>1. Phase(g)
      BY DEF PhaseInv
    <3>2. this_ix_chunk[g] \in Chunks
      BY <2>1, <3>1, HeldChunk
    <3>3. Retired' = Retired \cup {this_ix_chunk[g]}
      BY <1>3, AdvanceRetires
    <3>4. QED
      BY <3>2, <3>3 DEF ClaimInv
  <2>6. Cardinality(Retired') = ix_chunk'
    BY <1>3, <2>1, AdvanceRetires, ClaimFits
  <2>7. QED
    BY <2>3, <2>4, <2>5, <2>6 DEF ClaimInv
<1>4. ASSUME NEW g \in Groups, NEW w \in WarpIds,
             Test(g, w) \/ Source(g, w) \/ Target(g, w) \/ Size(g, w)
      PROVE  ClaimInv'
  BY <1>1, <1>4 DEF Test, Source, Target, Size
<1>5. ASSUME NEW g \in Groups,
             DecompressChunk(g, WarpIds) \/ Report(g) \/ ChunkReady(g)
      PROVE  ClaimInv'
  BY <1>1, <1>5 DEF DecompressChunk, Report, ChunkReady
<1>6. CASE UNCHANGED vars
  BY <1>1, <1>6 DEF vars
<1>7. QED
  BY <1>2, <1>3, <1>4, <1>5, <1>6, Steps

-----------------------------------------------------------------------------
(* The types.                                                              *)

\* Storing an index in one field of one warp's arguments keeps their type.
LEMMA ArgUpdate ==
  ASSUME NEW args \in [Groups ->
               [WarpIds -> [src : Indices, dst : Indices, size : Indices]]],
         NEW g \in Groups, NEW w \in WarpIds, NEW i \in Indices
  PROVE  /\ [args EXCEPT ![g][w].src = i] \in [Groups ->
               [WarpIds -> [src : Indices, dst : Indices, size : Indices]]]
         /\ [args EXCEPT ![g][w].dst = i] \in [Groups ->
               [WarpIds -> [src : Indices, dst : Indices, size : Indices]]]
         /\ [args EXCEPT ![g][w].size = i] \in [Groups ->
               [WarpIds -> [src : Indices, dst : Indices, size : Indices]]]
<1>1. [args EXCEPT ![g][w].src = i] \in [Groups ->
        [WarpIds -> [src : Indices, dst : Indices, size : Indices]]]
  <2>1. [args[g][w] EXCEPT !.src = i] \in [src : Indices, dst : Indices, size : Indices]
    OBVIOUS
  <2>2. [args[g] EXCEPT ![w].src = i]
          \in [WarpIds -> [src : Indices, dst : Indices, size : Indices]]
    BY <2>1
  <2>3. QED
    BY <2>2
<1>2. [args EXCEPT ![g][w].dst = i] \in [Groups ->
        [WarpIds -> [src : Indices, dst : Indices, size : Indices]]]
  <2>1. [args[g][w] EXCEPT !.dst = i] \in [src : Indices, dst : Indices, size : Indices]
    OBVIOUS
  <2>2. [args[g] EXCEPT ![w].dst = i]
          \in [WarpIds -> [src : Indices, dst : Indices, size : Indices]]
    BY <2>1
  <2>3. QED
    BY <2>2
<1>3. [args EXCEPT ![g][w].size = i] \in [Groups ->
        [WarpIds -> [src : Indices, dst : Indices, size : Indices]]]
  <2>1. [args[g][w] EXCEPT !.size = i] \in [src : Indices, dst : Indices, size : Indices]
    OBVIOUS
  <2>2. [args[g] EXCEPT ![w].size = i]
          \in [WarpIds -> [src : Indices, dst : Indices, size : Indices]]
    BY <2>1
  <2>3. QED
    BY <2>2
<1>4. QED
  BY <1>1, <1>2, <1>3

\* Every step preserves the types; the counter of claims cannot pass the
\* number of chunks.
LEMMA TypeStep ==
  ASSUME Together, TypeOK, PhaseInv, ClaimInv, [Next]_vars
  PROVE  TypeOK'
<1> USE LaunchShape
<1>1. ASSUME NEW g \in Groups, Start(g) PROVE TypeOK'
  <2>1. pc' \in [Groups -> [WarpIds -> Labels]]
    BY <1>1, SyncEffect DEF Start, Labels
  <2>2. this_ix_chunk' \in [Groups -> Indices]
    BY <1>1 DEF Start, TypeOK, Indices, Groups
  <2>3. QED
    BY <1>1, <2>1, <2>2 DEF Start, TypeOK
<1>2. ASSUME NEW g \in Groups, NEW w \in WarpIds, Test(g, w) PROVE TypeOK'
  <2>1. (IF this_ix_chunk[g] < NumChunks THEN "source" ELSE AfterLoop) \in Labels
    BY DEF Labels, AfterLoop
  <2>2. pc' \in [Groups -> [WarpIds -> Labels]]
    BY <1>2, <2>1, GotoEffect DEF Test
  <2>3. QED
    BY <1>2, <2>2 DEF Test, TypeOK
<1>3. ASSUME NEW g \in Groups, NEW w \in WarpIds, Source(g, w) PROVE TypeOK'
  <2>1. pc' \in [Groups -> [WarpIds -> Labels]]
    BY <1>3, GotoEffect DEF Source, Labels
  <2>2. arg' \in [Groups ->
               [WarpIds -> [src : Indices, dst : Indices, size : Indices]]]
    BY <1>3, ArgUpdate DEF Source, TypeOK
  <2>3. QED
    BY <1>3, <2>1, <2>2 DEF Source, TypeOK
<1>4. ASSUME NEW g \in Groups, NEW w \in WarpIds, Target(g, w) PROVE TypeOK'
  <2>1. pc' \in [Groups -> [WarpIds -> Labels]]
    BY <1>4, GotoEffect DEF Target, Labels
  <2>2. arg' \in [Groups ->
               [WarpIds -> [src : Indices, dst : Indices, size : Indices]]]
    BY <1>4, ArgUpdate DEF Target, TypeOK
  <2>3. QED
    BY <1>4, <2>1, <2>2 DEF Target, TypeOK
<1>5. ASSUME NEW g \in Groups, NEW w \in WarpIds, Size(g, w) PROVE TypeOK'
  <2>1. pc' \in [Groups -> [WarpIds -> Labels]]
    BY <1>5, GotoEffect DEF Size, Labels
  <2>2. arg' \in [Groups ->
               [WarpIds -> [src : Indices, dst : Indices, size : Indices]]]
    BY <1>5, ArgUpdate DEF Size, TypeOK
  <2>3. QED
    BY <1>5, <2>1, <2>2 DEF Size, TypeOK
<1>6. ASSUME NEW g \in Groups, DecompressChunk(g, WarpIds) PROVE TypeOK'
  <2>1. pc' \in [Groups -> [WarpIds -> Labels]]
    BY <1>6, DecompressEffect
  <2>2. decomp_buffer' \in [Chunks -> [WarpIds -> Chunks \cup {NoChunk}]]
    BY <1>6, DecompressEffect, FoundType DEF TypeOK
  <2>3. shared_status' \in [Groups -> Status]
    BY <1>6, DecompressEffect DEF TypeOK, Status
  <2>4. QED
    BY <1>6, <2>1, <2>2, <2>3 DEF DecompressChunk, TypeOK
<1>7. ASSUME NEW g \in Groups, Report(g) PROVE TypeOK'
  <2>1. pc' \in [Groups -> [WarpIds -> Labels]]
    BY <1>7, GotoEffect DEF Report, Labels
  <2>2. kernel_output_status' \in Status
    BY <1>7 DEF Report, TypeOK
  <2>3. QED
    BY <1>7, <2>1, <2>2 DEF Report, TypeOK
<1>8. ASSUME NEW g \in Groups, Advance(g) PROVE TypeOK'
  <2>1. pc' \in [Groups -> [WarpIds -> Labels]] /\ pc[g][0] = "advance"
    BY <1>8, GotoEffect DEF Advance, Labels
  <2>2. ix_chunk < NumChunks /\ ix_chunk \in Nat
    BY <2>1, ClaimFits, IndexTypes
  <2>3. InitialChunks + ix_chunk \in Indices
    BY <2>2 DEF Indices
  <2>4. this_ix_chunk' \in [Groups -> Indices] /\ ix_chunk' \in 0 .. NumChunks
    BY <1>8, <2>2, <2>3 DEF Advance, TypeOK
  <2>5. QED
    BY <1>8, <2>1, <2>4 DEF Advance, TypeOK
<1>9. ASSUME NEW g \in Groups, ChunkReady(g) PROVE TypeOK'
  <2>1. pc' \in [Groups -> [WarpIds -> Labels]]
    BY <1>9, SyncEffect DEF ChunkReady, Labels
  <2>2. QED
    BY <1>9, <2>1 DEF ChunkReady, TypeOK
<1>10. CASE UNCHANGED vars
  BY <1>10 DEF vars, TypeOK
<1>11. QED
  BY <1>1, <1>2, <1>3, <1>4, <1>5, <1>6, <1>7, <1>8, <1>9, <1>10, Steps

-----------------------------------------------------------------------------
(* What is done: data and status.                                          *)

\* A chunk stays pending unless its own group decompresses it.
LEMMA PendingStays ==
  ASSUME Together, IInv, [Next]_vars, NEW c \in Chunks, Pending(c), ~Pending(c)'
  PROVE  \E g \in Groups :
           DecompressChunk(g, WarpIds) /\ this_ix_chunk[g] = c
<1> USE LaunchShape DEF IInv
<1>1. ix_chunk \in Nat /\ \A h \in Groups : this_ix_chunk[h] \in Nat
  BY IndexTypes
<1>2. ASSUME NEW g \in Groups, Advance(g) PROVE FALSE
  <2>1. /\ ix_chunk' = ix_chunk + 1
        /\ this_ix_chunk'[g] = InitialChunks + ix_chunk
        /\ \A h \in Groups \ {g} : this_ix_chunk'[h] = this_ix_chunk[h]
    BY <1>2, AdvanceRetires
  <2>2. /\ pc[g][0] = "advance" /\ pc'[g][0] = "await_chunk"
        /\ \A h \in Groups \ {g} : pc'[h] = pc[h]
    BY <1>2, GotoEffect DEF Advance, Labels
  <2>3. CASE c >= InitialChunks + ix_chunk
    <3>1. c = InitialChunks + ix_chunk
      BY <1>1, <2>1, <2>3 DEF Pending, Chunks
    <3>2. QED
      BY <2>1, <2>2, <3>1 DEF Pending
  <2>4. CASE c < InitialChunks + ix_chunk
    <3>1. PICK h \in Groups :
            this_ix_chunk[h] = c /\ pc[h][0] \notin {"report", "advance"}
      BY <1>1, <2>4 DEF Pending, Chunks
    <3>2. h # g
      BY <2>2, <3>1
    <3>3. QED
      BY <2>1, <2>2, <3>1, <3>2 DEF Pending
  <2>5. QED
    BY <1>1, <2>3, <2>4 DEF Chunks
<1>3. ASSUME this_ix_chunk' = this_ix_chunk, ix_chunk' = ix_chunk,
             \A h \in Groups : pc'[h][0] \in {"report", "advance"}
                                => pc[h][0] \in {"report", "advance"}
      PROVE  FALSE
  BY <1>3 DEF Pending
<1>4. ASSUME NEW g \in Groups, Start(g) PROVE FALSE
  <2>1. \A w \in WarpIds : pc[g][w] = "start" /\ this_ix_chunk[g] = g
    <3>1. \E w \in WarpIds : pc[g][w] = "start"
      BY <1>4 DEF Start, Sync
    <3>2. Phase(g)
      BY DEF PhaseInv
    <3>3. QED
      BY <3>1, <3>2 DEF Phase
  <2>2. this_ix_chunk' = this_ix_chunk /\ ix_chunk' = ix_chunk
    BY <1>4, <2>1 DEF Start, TypeOK
  <2>3. \A h \in Groups : pc'[h][0] \in {"report", "advance"}
                           => pc[h][0] \in {"report", "advance"}
    BY <1>4, SyncEffect DEF Start, Labels
  <2>4. QED
    BY <1>3, <2>2, <2>3
<1>5. ASSUME NEW g \in Groups, NEW w \in WarpIds, NEW from, NEW to \in Labels,
             Goto(g, w, from, to), to \notin {"report", "advance"},
             this_ix_chunk' = this_ix_chunk, ix_chunk' = ix_chunk
      PROVE  FALSE
  <2>1. \A h \in Groups : pc'[h][0] \in {"report", "advance"}
                           => pc[h][0] \in {"report", "advance"}
    BY <1>5, GotoEffect
  <2>2. QED
    BY <1>3, <1>5, <2>1
<1>6. ASSUME NEW g \in Groups, NEW w \in WarpIds, Test(g, w) PROVE FALSE
  <2> DEFINE to == IF this_ix_chunk[g] < NumChunks THEN "source" ELSE AfterLoop
  <2>1. to \in Labels /\ to \notin {"report", "advance"}
    BY DEF Labels, AfterLoop
  <2>2. Goto(g, w, "test", to)
    BY <1>6 DEF Test
  <2>3. this_ix_chunk' = this_ix_chunk /\ ix_chunk' = ix_chunk
    BY <1>6 DEF Test
  <2> HIDE DEF to
  <2>4. QED
    BY <1>5, <2>1, <2>2, <2>3
<1>7. ASSUME NEW g \in Groups, NEW w \in WarpIds,
             Source(g, w) \/ Target(g, w) \/ Size(g, w)
      PROVE  FALSE
  <2>1. /\ this_ix_chunk' = this_ix_chunk /\ ix_chunk' = ix_chunk
        /\ \/ Goto(g, w, "source", "target")
           \/ Goto(g, w, "target", "size")
           \/ Goto(g, w, "size", "decompress")
    BY <1>7 DEF Source, Target, Size
  <2>2. {"target", "size", "decompress"} \subseteq Labels
    BY DEF Labels
  <2>3. QED
    BY <1>5, <2>1, <2>2
<1>8. ASSUME NEW g \in Groups, Report(g) PROVE FALSE
  <2>1. \A h \in Groups : pc'[h][0] \in {"report", "advance"}
                           => pc[h][0] \in {"report", "advance"}
    BY <1>8, GotoEffect DEF Report, Labels
  <2>2. QED
    BY <1>3, <1>8, <2>1 DEF Report
<1>9. ASSUME NEW g \in Groups, ChunkReady(g) PROVE FALSE
  <2>1. \A h \in Groups : pc'[h][0] \in {"report", "advance"}
                           => pc[h][0] \in {"report", "advance"}
    BY <1>9, SyncEffect DEF ChunkReady, Labels
  <2>2. QED
    BY <1>3, <1>9, <2>1 DEF ChunkReady
<1>10. ASSUME NEW g \in Groups, DecompressChunk(g, WarpIds),
              this_ix_chunk[g] # c
       PROVE  FALSE
  <2>1. \A h \in Groups \ {g} : pc'[h] = pc[h]
    BY <1>10, DecompressEffect
  <2>2. this_ix_chunk' = this_ix_chunk /\ ix_chunk' = ix_chunk
    BY <1>10 DEF DecompressChunk
  <2>3. QED
    BY <1>10, <2>1, <2>2 DEF Pending
<1>11. CASE UNCHANGED vars
  BY <1>3, <1>11 DEF vars
<1>12. QED
  BY <1>2, <1>4, <1>6, <1>7, <1>8, <1>9, <1>10, <1>11, Steps

\* A group at the decompression decompresses its own chunk to its own place.
LEMMA DecompressOwn ==
  ASSUME IInv, NEW g \in Groups, DecompressChunk(g, WarpIds)
  PROVE  /\ this_ix_chunk[g] \in Chunks
         /\ arg[g][0].dst = this_ix_chunk[g]
         /\ Found(arg[g][0]) =
              IF this_ix_chunk[g] \in corrupt THEN NoChunk ELSE this_ix_chunk[g]
<1> USE LaunchShape DEF IInv
<1>1. pc[g][0] = "decompress"
  BY DecompressEffect
<1>2. Phase(g)
  BY DEF PhaseInv
<1>3. this_ix_chunk[g] \in Chunks
  BY <1>1, <1>2, HeldChunk
<1>4. /\ arg[g][0].src = this_ix_chunk[g]
      /\ arg[g][0].dst = this_ix_chunk[g]
      /\ arg[g][0].size = this_ix_chunk[g]
  BY <1>1, <1>2, Working
<1>5. QED
  BY <1>3, <1>4 DEF Found

\* A chunk that is no longer pending never becomes pending again: an index
\* that was given up is not handed out a second time.
LEMMA DoneStays ==
  ASSUME Together, IInv, [Next]_vars, NEW c \in Chunks, ~Pending(c)
  PROVE  ~Pending(c)'
<1> USE LaunchShape DEF IInv
<1>1. ix_chunk \in Nat /\ \A h \in Groups : this_ix_chunk[h] \in Nat
  BY IndexTypes
<1>2. c \in Nat /\ c < InitialChunks + ix_chunk
  BY <1>1 DEF Pending, Chunks
<1>3. ASSUME this_ix_chunk' = this_ix_chunk, ix_chunk' = ix_chunk,
             \A h \in Groups : pc[h][0] \in {"report", "advance"}
                                => pc'[h][0] \in {"report", "advance"}
      PROVE  ~Pending(c)'
  BY <1>3 DEF Pending
<1>4. ASSUME NEW g \in Groups, Start(g) PROVE ~Pending(c)'
  <2>1. \A w \in WarpIds : pc[g][w] = "start" /\ this_ix_chunk[g] = g
    <3>1. \E w \in WarpIds : pc[g][w] = "start"
      BY <1>4 DEF Start, Sync
    <3>2. Phase(g)
      BY DEF PhaseInv
    <3>3. QED
      BY <3>1, <3>2 DEF Phase
  <2>2. this_ix_chunk' = this_ix_chunk /\ ix_chunk' = ix_chunk
    BY <1>4, <2>1 DEF Start, TypeOK
  <2>3. \A h \in Groups \ {g} : pc'[h] = pc[h]
    BY <1>4, SyncEffect DEF Start, Labels
  <2>4. QED
    BY <1>3, <2>1, <2>2, <2>3
<1>5. ASSUME NEW g \in Groups, NEW w \in WarpIds, NEW from, NEW to \in Labels,
             Goto(g, w, from, to),
             from \notin {"report", "advance"} \/ to \in {"report", "advance"},
             this_ix_chunk' = this_ix_chunk, ix_chunk' = ix_chunk
      PROVE  ~Pending(c)'
  <2>1. \A h \in Groups : pc[h][0] \in {"report", "advance"}
                           => pc'[h][0] \in {"report", "advance"}
    BY <1>5, GotoEffect
  <2>2. QED
    BY <1>3, <1>5, <2>1
<1>6. ASSUME NEW g \in Groups, NEW w \in WarpIds, Test(g, w) PROVE ~Pending(c)'
  <2> DEFINE to == IF this_ix_chunk[g] < NumChunks THEN "source" ELSE AfterLoop
  <2>1. to \in Labels
    BY DEF Labels, AfterLoop
  <2>2. Goto(g, w, "test", to)
    BY <1>6 DEF Test
  <2>3. this_ix_chunk' = this_ix_chunk /\ ix_chunk' = ix_chunk
    BY <1>6 DEF Test
  <2> HIDE DEF to
  <2>4. QED
    BY <1>5, <2>1, <2>2, <2>3
<1>7. ASSUME NEW g \in Groups, NEW w \in WarpIds,
             Source(g, w) \/ Target(g, w) \/ Size(g, w)
      PROVE  ~Pending(c)'
  <2>1. /\ this_ix_chunk' = this_ix_chunk /\ ix_chunk' = ix_chunk
        /\ \/ Goto(g, w, "source", "target")
           \/ Goto(g, w, "target", "size")
           \/ Goto(g, w, "size", "decompress")
    BY <1>7 DEF Source, Target, Size
  <2>2. {"target", "size", "decompress"} \subseteq Labels
    BY DEF Labels
  <2>3. QED
    BY <1>5, <2>1, <2>2
<1>8. ASSUME NEW g \in Groups, Report(g) PROVE ~Pending(c)'
  BY <1>5, <1>8 DEF Report, Labels
<1>9. ASSUME NEW g \in Groups, ChunkReady(g) PROVE ~Pending(c)'
  <2>1. \A h \in Groups : pc[h][0] \in {"report", "advance"}
                           => pc'[h][0] \in {"report", "advance"}
    BY <1>9, SyncEffect DEF ChunkReady, Labels
  <2>2. QED
    BY <1>3, <1>9, <2>1 DEF ChunkReady
<1>10. ASSUME NEW g \in Groups, DecompressChunk(g, WarpIds) PROVE ~Pending(c)'
  <2>1. \A h \in Groups : pc[h][0] \in {"report", "advance"}
                           => pc'[h][0] \in {"report", "advance"}
    BY <1>10, DecompressEffect
  <2>2. this_ix_chunk' = this_ix_chunk /\ ix_chunk' = ix_chunk
    BY <1>10 DEF DecompressChunk
  <2>3. QED
    BY <1>3, <2>1, <2>2
<1>11. ASSUME NEW g \in Groups, Advance(g) PROVE ~Pending(c)'
  <2>1. /\ ix_chunk' = ix_chunk + 1
        /\ this_ix_chunk'[g] = InitialChunks + ix_chunk
        /\ \A h \in Groups \ {g} : this_ix_chunk'[h] = this_ix_chunk[h]
    BY <1>11, AdvanceRetires
  <2>2. \A h \in Groups \ {g} : pc'[h] = pc[h]
    BY <1>11, GotoEffect DEF Advance, Labels
  <2>3. QED
    BY <1>1, <1>2, <2>1, <2>2 DEF Pending
<1>12. CASE UNCHANGED vars
  BY <1>3, <1>12 DEF vars
<1>13. QED
  BY <1>4, <1>6, <1>7, <1>8, <1>9, <1>10, <1>11, <1>12, Steps

\* The output of a chunk that is no longer pending is not touched again.
LEMMA BufferFrame ==
  ASSUME Together, IInv, [Next]_vars, NEW c \in Chunks,
         ~Pending(c)
  PROVE  decomp_buffer'[c] = decomp_buffer[c]
<1> USE LaunchShape DEF IInv
<1>1. ASSUME NEW g \in Groups, DecompressChunk(g, WarpIds)
      PROVE  decomp_buffer'[c] = decomp_buffer[c]
  <2>1. pc[g][0] = "decompress"
    BY <1>1, DecompressEffect
  <2>2. this_ix_chunk[g] # c
    BY <2>1 DEF Pending
  <2>3. decomp_buffer'[c] = [w \in WarpIds |-> decomp_buffer[c][w]]
    <3>1. arg[g][0].dst # c
      BY <1>1, <2>2, DecompressOwn
    <3>2. decomp_buffer' = [d \in Chunks |-> [w \in WarpIds |->
            IF d = arg[g][0].dst THEN Found(arg[g][0]) ELSE decomp_buffer[d][w]]]
      BY <1>1, DecompressEffect
    <3>3. QED
      BY <3>1, <3>2
  <2>4. decomp_buffer[c] \in [WarpIds -> Chunks \cup {NoChunk}]
    BY DEF TypeOK
  <2>5. QED
    BY <2>3, <2>4
<1>2. ASSUME NEW g \in Groups,
             \/ Start(g)
             \/ \E w \in WarpIds :
                  Test(g, w) \/ Source(g, w) \/ Target(g, w) \/ Size(g, w)
             \/ Report(g)
             \/ Advance(g)
             \/ ChunkReady(g)
      PROVE  decomp_buffer' = decomp_buffer
  BY <1>2 DEF Start, Test, Source, Target, Size, Report, Advance, ChunkReady
<1>3. CASE UNCHANGED vars
  BY <1>3 DEF vars
<1>4. QED
  BY <1>1, <1>2, <1>3, Steps

\* Every step leaves what is done in place.
LEMMA DataStep ==
  ASSUME Together, IInv, [Next]_vars
  PROVE  DataInv'
<1> USE LaunchShape DEF IInv
<1>1. corrupt' = corrupt
  BY Steps DEF Start, Test, Source, Target, Size, DecompressChunk, Report,
               Advance, ChunkReady, vars
<1> SUFFICES ASSUME NEW c \in Chunks \ corrupt, ~Pending(c)'
             PROVE  \A w \in WarpIds : decomp_buffer'[c][w] = c
  BY <1>1 DEF DataInv
<1>2. CASE Pending(c)
  <2>1. PICK g \in Groups :
          DecompressChunk(g, WarpIds) /\ this_ix_chunk[g] = c
    BY <1>2, PendingStays
  <2>2. arg[g][0].dst = c /\ Found(arg[g][0]) = c
    BY <2>1, DecompressOwn
  <2>3. QED
    BY <2>1, <2>2, DecompressEffect
<1>3. CASE ~Pending(c)
  BY <1>3, BufferFrame DEF DataInv
<1>4. QED
  BY <1>2, <1>3

\* Every step keeps the reports true, if decompress_chunk writes the status
\* word that the kernel reads.
LEMMA StatusStep ==
  ASSUME Together, StatusWritten, IInv, StatusInv, [Next]_vars
  PROVE  StatusInv'
<1> USE LaunchShape DEF IInv
<1>1. corrupt' = corrupt
  BY Steps DEF Start, Test, Source, Target, Size, DecompressChunk, Report,
               Advance, ChunkReady, vars
<1>2. corrupt \subseteq Chunks
  BY HlifDecompressAssumption DEF TypeOK, HlifDecompressAssumption
<1>3. ASSUME NEW g \in Groups, DecompressChunk(g, WarpIds) PROVE StatusInv'
  <2>1. /\ pc'[g][0] = "report"
        /\ \A h \in Groups \ {g} : pc'[h] = pc[h]
        /\ shared_status' = [shared_status EXCEPT ![g] =
                               IF Found(arg[g][0]) = NoChunk THEN Error ELSE Success]
    BY <1>3, DecompressEffect
  <2>2. /\ this_ix_chunk' = this_ix_chunk /\ ix_chunk' = ix_chunk
        /\ kernel_output_status' = kernel_output_status
    BY <1>3 DEF DecompressChunk
  <2>3. /\ this_ix_chunk[g] \in Chunks
        /\ Found(arg[g][0]) =
             IF this_ix_chunk[g] \in corrupt THEN NoChunk ELSE this_ix_chunk[g]
    BY <1>3, DecompressOwn
  <2>4. this_ix_chunk[g] # NoChunk
    BY <2>3 DEF Chunks, NoChunk
  <2>5. shared_status'[g] = Error <=> this_ix_chunk[g] \in corrupt
    BY <2>1, <2>3, <2>4 DEF Success, Error, TypeOK
  <2>6. \A h \in Groups : pc'[h][0] = "report" =>
          (shared_status'[h] = Error <=> this_ix_chunk'[h] \in corrupt')
    <3>1. SUFFICES ASSUME NEW h \in Groups, pc'[h][0] = "report"
                   PROVE  shared_status'[h] = Error <=> this_ix_chunk[h] \in corrupt
      BY <1>1, <2>2
    <3>2. CASE h = g
      BY <2>5, <3>2
    <3>3. CASE h # g
      <4>1. pc[h][0] = "report" /\ shared_status'[h] = shared_status[h]
        BY <2>1, <3>1, <3>3 DEF TypeOK
      <4>2. QED
        BY <4>1 DEF StatusInv
    <3>4. QED
      BY <3>2, <3>3
  <2>7. ASSUME NEW c \in corrupt
        PROVE  \/ Pending(c)'
               \/ kernel_output_status' = Error
               \/ \E h \in Groups : this_ix_chunk'[h] = c /\ pc'[h][0] = "report"
    <3>1. CASE c = this_ix_chunk[g]
      BY <2>1, <2>2, <3>1
    <3>2. CASE c # this_ix_chunk[g]
      BY <2>1, <2>2, <3>2 DEF StatusInv, Pending
    <3>3. QED
      BY <3>1, <3>2
  <2>8. QED
    BY <1>1, <2>2, <2>6, <2>7 DEF StatusInv
<1>4. ASSUME NEW g \in Groups, Report(g) PROVE StatusInv'
  <2>1. /\ pc[g][0] = "report" /\ pc'[g][0] = "advance"
        /\ \A h \in Groups \ {g} : pc'[h] = pc[h]
    BY <1>4, GotoEffect DEF Report, Labels
  <2>2. /\ this_ix_chunk' = this_ix_chunk /\ shared_status' = shared_status
        /\ ix_chunk' = ix_chunk
        /\ kernel_output_status' = IF shared_status[g] # Success
                             THEN shared_status[g] ELSE kernel_output_status
    BY <1>4 DEF Report
  <2>3. shared_status[g] \in {Success, Error}
    BY DEF TypeOK, Status
  <2>4. kernel_output_status' =
          IF this_ix_chunk[g] \in corrupt THEN Error ELSE kernel_output_status
    BY <2>1, <2>2, <2>3 DEF StatusInv, Success, Error
  <2>5. \A c \in corrupt : Pending(c) => Pending(c)'
    BY <2>1, <2>2 DEF Pending
  <2>6. QED
    BY <1>1, <2>1, <2>2, <2>4, <2>5 DEF StatusInv
<1>5. ASSUME NEW g \in Groups, Advance(g) PROVE StatusInv'
  <2>1. /\ pc[g][0] = "advance" /\ pc'[g][0] = "await_chunk"
        /\ \A h \in Groups \ {g} : pc'[h] = pc[h]
    BY <1>5, GotoEffect DEF Advance, Labels
  <2>2. /\ \A h \in Groups \ {g} : this_ix_chunk'[h] = this_ix_chunk[h]
        /\ shared_status' = shared_status
        /\ kernel_output_status' = kernel_output_status
    BY <1>5 DEF Advance, TypeOK
  <2>3. ~ \E h \in Groups : DecompressChunk(h, WarpIds)
    BY <1>5, IndexTypes DEF DecompressChunk, Advance
  <2>4. \A c \in corrupt : Pending(c) => Pending(c)'
    BY <1>2, <2>3, PendingStays
  <2>5. QED
    BY <1>1, <2>1, <2>2, <2>4 DEF StatusInv
<1>6. ASSUME NEW g \in Groups,
             \/ Start(g)
             \/ \E w \in WarpIds :
                  Test(g, w) \/ Source(g, w) \/ Target(g, w) \/ Size(g, w)
             \/ ChunkReady(g)
      PROVE  StatusInv'
  <2>1. /\ kernel_output_status' = kernel_output_status
        /\ shared_status' = shared_status
        /\ decomp_buffer' = decomp_buffer
    BY <1>6 DEF Start, Test, Source, Target, Size, ChunkReady
  <2>2. this_ix_chunk' = this_ix_chunk
    <3>1. CASE Start(g)
      <4>1. \E w \in WarpIds : pc[g][w] = "start"
        BY <3>1 DEF Start, Sync
      <4>2. Phase(g)
        BY DEF PhaseInv
      <4>3. this_ix_chunk[g] = g
        BY <4>1, <4>2 DEF Phase
      <4>4. QED
        BY <3>1, <4>3 DEF Start, TypeOK
    <3>2. QED
      BY <1>6, <3>1 DEF Test, Source, Target, Size, ChunkReady
  <2>3. \A h \in Groups : pc'[h][0] = "report" <=> pc[h][0] = "report"
    <3>1. ASSUME NEW w \in WarpIds, NEW from, NEW to \in Labels,
                 Goto(g, w, from, to), from # "report", to # "report"
          PROVE  \A h \in Groups : pc'[h][0] = "report" <=> pc[h][0] = "report"
      BY <3>1, GotoEffect
    <3>2. ASSUME NEW from, NEW to \in Labels,
                 Sync(g, from, to), from # "report", to # "report"
          PROVE  \A h \in Groups : pc'[h][0] = "report" <=> pc[h][0] = "report"
      BY <3>2, SyncEffect
    <3>3. ASSUME NEW w \in WarpIds, Test(g, w)
          PROVE  \A h \in Groups : pc'[h][0] = "report" <=> pc[h][0] = "report"
      <4> DEFINE to == IF this_ix_chunk[g] < NumChunks THEN "source" ELSE AfterLoop
      <4>1. to \in Labels /\ to # "report"
        BY DEF Labels, AfterLoop
      <4>2. Goto(g, w, "test", to)
        BY <3>3 DEF Test
      <4> HIDE DEF to
      <4>3. QED
        BY <3>1, <4>1, <4>2
    <3>4. {"target", "size", "decompress", "test"} \subseteq Labels
      BY DEF Labels
    <3>5. ASSUME NEW w \in WarpIds, Source(g, w) \/ Target(g, w) \/ Size(g, w)
          PROVE  \A h \in Groups : pc'[h][0] = "report" <=> pc[h][0] = "report"
      <4>1. \/ Goto(g, w, "source", "target")
            \/ Goto(g, w, "target", "size")
            \/ Goto(g, w, "size", "decompress")
        BY <3>5 DEF Source, Target, Size
      <4>2. QED
        BY <3>1, <3>4, <4>1
    <3>6. ASSUME Start(g) \/ ChunkReady(g)
          PROVE  \A h \in Groups : pc'[h][0] = "report" <=> pc[h][0] = "report"
      <4>1. Sync(g, "start", "test") \/ Sync(g, "await_chunk", "test")
        BY <3>6 DEF Start, ChunkReady
      <4>2. QED
        BY <3>2, <3>4, <4>1
    <3>7. QED
      BY <1>6, <3>3, <3>5, <3>6
  <2>4. \A c \in corrupt : Pending(c) => Pending(c)'
    <3>1. ~ \E h \in Groups : DecompressChunk(h, WarpIds)
      BY <2>3, DecompressEffect
    <3>2. QED
      BY <1>2, <3>1, PendingStays
  <2>5. QED
    BY <1>1, <2>1, <2>2, <2>3, <2>4 DEF StatusInv
<1>7. CASE UNCHANGED vars
  BY <1>7 DEF vars, StatusInv, Pending
<1>8. QED
  BY <1>3, <1>4, <1>5, <1>6, <1>7, Steps

-----------------------------------------------------------------------------
(* The theorems.                                                           *)

\* If the groups stay together, the invariant holds in every launch.
THEOREM Inductive == ASSUME Together PROVE Spec => []IInv
<1>1. Init => IInv
  BY InitInv
<1>2. IInv /\ [Next]_vars => IInv'
  BY TypeStep, PhaseStep, ClaimStep, DataStep DEF IInv
<1>3. QED
  BY <1>1, <1>2, PTL DEF Spec

\* Every variable keeps its type, for every launch whose groups stay together:
\* the atomic counter of claims never passes the number of chunks, whatever
\* the number of groups that run out of work at the same time.
THEOREM TypeCorrect == ASSUME Together PROVE Spec => []TypeOK
<1>1. IInv => TypeOK
  BY DEF IInv
<1>2. QED
  BY Inductive, <1>1, PTL

\* The three reads of the volatile index by any warp of any group give the
\* chunk the group holds: thread 0 claims no chunk between them.
THEOREM ArgumentsAgree == ASSUME Together PROVE Spec => []ArgsAgree
<1>1. ASSUME IInv PROVE ArgsAgree
  <2> SUFFICES ASSUME NEW g \in Groups, NEW w \in WarpIds,
                      pc[g][w] = "decompress"
               PROVE  arg[g][w] = [src |-> this_ix_chunk[g],
                                   dst |-> this_ix_chunk[g],
                                   size |-> this_ix_chunk[g]]
    BY DEF ArgsAgree
  <2>1. Phase(g)
    BY <1>1 DEF IInv, PhaseInv
  <2>2. /\ arg[g][w].src = this_ix_chunk[g]
        /\ arg[g][w].dst = this_ix_chunk[g]
        /\ arg[g][w].size = this_ix_chunk[g]
    BY <1>1, <2>1, Working DEF IInv
  <2>3. arg[g][w] \in [src : Indices, dst : Indices, size : Indices]
    BY <1>1 DEF IInv, TypeOK
  <2>4. QED
    BY <2>2, <2>3
<1>2. QED
  BY Inductive, <1>1, PTL

\* Once every warp has left its loop, no chunk is pending.
LEMMA NonePending ==
  ASSUME IInv, AllExited, NEW c \in Chunks
  PROVE  ~Pending(c)
<1> USE LaunchShape DEF IInv
<1>1. ix_chunk \in Nat /\ \A h \in Groups : this_ix_chunk[h] \in Nat
  BY IndexTypes
<1>2. \A g \in Groups : this_ix_chunk[g] >= NumChunks
  BY DEF AllExited, PhaseInv, Phase
<1>3. this_ix_chunk[0] < InitialChunks + ix_chunk
  BY DEF ClaimInv
<1>4. c \in Nat /\ c < NumChunks
  BY DEF Chunks
<1>5. c < InitialChunks + ix_chunk
  BY <1>1, <1>2, <1>3, <1>4
<1>6. QED
  BY <1>1, <1>2, <1>4, <1>5 DEF Pending

\* When the kernel has ended every part of every sound chunk is in place,
\* for every number of blocks, groups, warps and chunks.
THEOREM OutputComplete == ASSUME Together PROVE Spec => []Complete
<1>1. IInv => Complete
  BY NonePending DEF IInv, DataInv, Complete
<1>2. QED
  BY Inductive, <1>1, PTL

\* What the host reads after the kernel is an error exactly if some chunk is
\* corrupt, provided that decompress_chunk writes the wrapper's status.
THEOREM StatusCorrect ==
  ASSUME Together, StatusWritten PROVE Spec => []StatusTrue
<1>1. Init => StatusInv
  BY InitInv
<1>2. IInv /\ StatusInv /\ [Next]_vars => StatusInv'
  BY StatusStep
<1>3. ASSUME IInv, StatusInv PROVE StatusTrue
  <2>1. corrupt \subseteq Chunks
    BY <1>3, HlifDecompressAssumption
    DEF IInv, TypeOK, HlifDecompressAssumption
  <2>2. AllExited => \A g \in Groups : pc[g][0] # "report"
    BY LaunchShape DEF AllExited
  <2>3. QED
    BY <1>3, <2>1, <2>2, NonePending DEF StatusInv, StatusTrue
<1>4. QED
  BY Inductive, <1>1, <1>2, <1>3, PTL DEF Spec

\* A chunk is decompressed once: after that no step of any group, to the end
\* of the launch, takes it up again or touches its part of the output.
THEOREM DecompressedOnce ==
  ASSUME Together
  PROVE  Spec => [][\A c \in Chunks : ~Pending(c) =>
                      /\ ~Pending(c)'
                      /\ decomp_buffer'[c] = decomp_buffer[c]]_vars
<1>1. IInv /\ [Next]_vars =>
        [\A c \in Chunks : ~Pending(c) =>
           /\ ~Pending(c)'
           /\ decomp_buffer'[c] = decomp_buffer[c]]_vars
  BY DoneStays, BufferFrame
<1>2. QED
  BY Inductive, <1>1, PTL DEF Spec
=============================================================================
