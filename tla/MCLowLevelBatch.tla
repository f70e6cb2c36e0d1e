--------------------------- MODULE MCLowLevelBatch ---------------------------
(* Batches of up to two chunks for LowLevelBatch.                           *)
EXTENDS LowLevelBatch, GridPrimitives

Times(part, k) == [i \in 1..k * Len(part) |-> part[((i - 1) % Len(part)) + 1]]

Defaults == [format |-> "lz4", chunks |-> << >>, T |-> 1, R |-> 0, D |-> 0, bp |-> FALSE,
             max |-> 24, algo |-> 0, spare |-> 0, short |-> 0, align |-> 0, stale |-> 0]

\* Nothing, literals only, long runs, a period, and two matches with long
\* literals before, between and behind them.
Lz4Data == {<< >>, << 1, 2 >>, Times(<< 1 >>, 18), Times(<< 1, 2, 3 >>, 8),
            << 1, 2, 3, 4, 5, 6 >> \o Times(<< 1, 2 >>, 4) \o << 6, 7, 8, 9, 6 >> \o Times(<< 2 >>, 5)}

\* Repetitions from further back than an offset can tell.
Far == Times(<< 0 >>, 16) \o Times(<< 2 >>, 12) \o Times(<< 0 >>, 14)

Lz4Jobs ==
    {[Defaults EXCEPT !.chunks = << a, b >>, !.T = T, !.align = align] :
        a \in Lz4Data, b \in {Times(<< 1 >>, 18), << 1, 2 >>}, T \in {1, 2}, align \in {0, 1}}
    \cup {[Defaults EXCEPT !.chunks = << a >>, !.T = T, !.spare = spare, !.max = max] :
            a \in Lz4Data, T \in {1, 4, 8}, spare \in {-1, 0}, max \in {24, 43}}
    \cup {[Defaults EXCEPT !.chunks = << Far >>, !.max = 42]}
    \cup {[Defaults EXCEPT !.chunks = << Times(<< 1 >>, 18), << 2 >> >>, !.short = 2],
          [Defaults EXCEPT !.chunks = << >>]}

SnappyJobs ==
    {[Defaults EXCEPT !.format = "snappy", !.chunks = c, !.spare = spare, !.max = 130] :
        c \in {<< >>, << << >>, << 7 >> >>, << << 1, 2, 3 >>, [k \in 1..130 |-> k] >>},
        spare \in {-1, 0}}

LibraryJobs ==
    {[Defaults EXCEPT !.format = f, !.chunks = << << 1, 2 >>, << 3 >> >>, !.spare = spare] :
        f \in {"gdeflate", "bitcomp", "ans"}, spare \in {-1, 0}}
    \cup {[Defaults EXCEPT !.format = "gdeflate", !.chunks = << << 1 >> >>, !.algo = 3]}

\* Elements of T bytes: nothing, one element, runs, a ramp, a mixture that
\* does not fit when packed, and more than a chunk of the kernel.
CascadedData(T) ==
    {<< >>, << 3 >>, Times(<< 3 >>, 96 \div T), [k \in 1..24 \div T |-> (10 + k) % 16],
     << 0, 3, 0, 2 >>, Times(<< 1 >>, 16 \div T) \o Times(<< 2 >>, 28 \div T)}

\* A second layer of differences finds no element of one, or of one run, left.
Spent(chunk, R, D) ==
    D = 2 /\ chunk # << >> /\ (Len(chunk) = 1 \/ (R > 0 /\ \A k \in DOMAIN chunk : chunk[k] = chunk[1]))

AllCascaded == UNION {
    {[Defaults EXCEPT !.format = "cascaded", !.chunks = << a, b >>, !.T = T, !.R = R, !.D = D,
                      !.bp = bp, !.max = 96, !.spare = spare, !.stale = IF a = << >> THEN 0 ELSE 8] :
        a \in CascadedData(T), b \in {<< >>, Times(<< 1, 2 >>, 4)},
        R \in 0..2, D \in 0..2, bp \in BOOLEAN, spare \in {-1, 0}} : T \in {1, 4}}
CascadedJobs == {j \in AllCascaded : \A i \in 1..2 : ~ Spent(j.chunks[i], j.R, j.D)}

\* Every job but the ones of the three runs below.
MCJobs == Lz4Jobs \cup SnappyJobs \cup LibraryJobs
          \cup {j \in CascadedJobs : j.R = 0 \/ j.D <= j.R}
          \cup {[Defaults EXCEPT !.format = "cascaded", !.max = 0]}

\* Elements of two bytes in a chunk that is longer than a 16-bit offset reaches.
WideJobs ==
    {[Defaults EXCEPT !.T = T, !.max = 42, !.chunks = << Far >>] : T \in {1, 2}}

\* More layers of differences than of runs.
LayerJobs == {j \in CascadedJobs : j.R = 1 /\ j.D = 2 /\ j.spare = 0}

\* A batch whose first chunk is empty.
EmptyJobs == {j \in CascadedJobs : Len(j.chunks[1]) = 0 /\ j.D <= j.R /\ j.spare = 0}
-----------------------------------------------------------------------------
\* With any scan that asks for no more than compressDownstream says it has.
RunsAgree(in, max, T) ==
    \A requiredSpace \in {0, scanWorkspaceSize(max, RunBytes)} :
        compressDownstream(in, max, 256 + downstreamWorkspaceSize(max, RunBytes), requiredSpace, T)
            = block_rle_compress(in)
ConfigAgrees(in, cfg, T) == [frame |-> cfg.minValue, bitwidth |-> cfg.numBits] = get_for_bitwidth(in, T)
PackAgrees(in, cfg, pack, T) == \A k \in DOMAIN in : unpackBytes(pack, cfg, k - 1, T) = in[k]

\* The layers that a whole grid works on (GridPrimitives) do to an array what
\* the layers of one block do: the same runs however the array is cut into
\* tiles and however much larger the grid is than the array; the same
\* differences; for elements of a signed type the same frame and width (the
\* block's kernel takes all elements as signed, the grid's only those of a
\* signed type), and for both kinds of types a frame and a width that
\* unpackBytes gets every element back with.  (Options of the block's kernel
\* make no difference: one choice of them stands for all.)
LayersAgree ==
    job.format = "cascaded" /\ job.R + job.D = 0 /\ ~ job.bp /\ call = "sizes" =>
        \A i \in {i \in Chunks : job.chunks[i] # << >>}, spare \in {0, 2 * Tile} :
        \A in \in {job.chunks[i]}, T \in {job.T} :
            /\ RunsAgree(in, Len(in) + spare, T)
            /\ deltaKernel(in, T) = << in[1] >> \o block_delta_compress(in, T)
            /\ \A signed \in BOOLEAN :
               \A cfg \in {bitPackConfig(in, Len(in) + spare, T, signed)} :
                  /\ signed => ConfigAgrees(in, cfg, T)
                  /\ PackAgrees(in, cfg, bitPackKernel(in, cfg, T), T)
=============================================================================
