--------------------------- MODULE GridPrimitives ---------------------------
(***************************************************************************)
(* The layers of RunLengthEncodeGPU.cu, DeltaGPU.cu and BitPackGPU.cu, as  *)
(* functions of arrays that a whole grid works on: every kernel is a       *)
(* function of what the kernels before it left in the temporary space.     *)
(* Elements, bytes and bits are those of CascadedCodec, whose layers do    *)
(* the same inside one block of threads.                                   *)
(***************************************************************************)
EXTENDS CascadedCodec

CONSTANTS
    Tile,          \* GLOBAL_TILE_SIZE, the elements of a block
    ScratchFloor,  \* least number of counts that the temporary space, and
                   \* that of the scan, are taken for (1024)
    GridBlock,     \* BLOCK_SIZE of BitPackGPU, DeltaGPU: threads of a block
    BlockWidth     \* BLOCK_WIDTH, blocks that one reduction takes

ASSUME GridParameters ==
    /\ {Tile, ScratchFloor, GridBlock, BlockWidth} \subseteq Nat \ {0}
    /\ BlockWidth % GridBlock = 0

-----------------------------------------------------------------------------
(* The scratch space broker: areas one behind the other, or an exception.  *)

Broker(bytes) == [size |-> bytes, offset |-> 0, ok |-> TRUE, at |-> << >>]

Reserve(broker, num, size) ==
    LET destPtr == RoundUpTo(broker.offset, size)
    IN IF broker.ok /\ destPtr + num * size <= broker.size
       THEN [broker EXCEPT !.offset = destPtr + num * size, !.at = Append(@, destPtr)]
       ELSE [broker EXCEPT !.ok = FALSE]

downstreamWorkspaceSize(maxNum, size) ==
    size * Max({ScratchFloor, 3 * RoundUpDiv(maxNum, Tile)}) + 4

\* Block sizes, their prefix sums and the first run start of every block.
rle_scratch(workspaceSize, grid, size) ==
    Reserve(Reserve(Reserve(Broker(workspaceSize), grid, size), grid + 1, size), grid, size)

-----------------------------------------------------------------------------
(* Run lengths of up to maxNum elements, a tile to each block.  An element *)
(* that differs from its predecessor starts a run; the first one always.   *)

buffered(in, b, t, T) ==                            \* valBuffer[t + 1]
    IF t >= 0 THEN in[Min({b * Tile + t, Len(in) - 1}) + 1]
    ELSE IF b > 0 THEN in[b * Tile] ELSE (in[1] + 1) % Modulo(T)

run_starts(in, b, T) ==
    IF b * Tile >= Len(in) THEN {}
    ELSE {t \in 0..Tile-1 : buffered(in, b, t, T) # buffered(in, b, t - 1, T)}

\* The sizes have one entry more than was reserved for them: it is the first
\* of the prefix sums, which the scan writes next.
rleInitKernel(mem, sizesAt, in, grid, T) ==
    [a \in DOMAIN mem |-> IF a - sizesAt \in 0..grid-1
                          THEN Cardinality(run_starts(in, a - sizesAt, T))
                          ELSE IF a = sizesAt + grid THEN 0 ELSE mem[a]]

ExclusiveSum(mem, from, to, n) ==
    [a \in DOMAIN mem |-> IF a - to \in 0..n-1
                          THEN MapThenSumSet(LAMBDA k : mem[from + k], 0..a-to-1)
                          ELSE mem[a]]

\* The runs of block b: where they start in the tile, then where it ends.
runBuffer(in, b, T) ==
    Append(SetToSortSeq(run_starts(in, b, T), <),
           IF (b + 1) * Tile >= Len(in) THEN ((Len(in) - 1) % Tile) + 1 ELSE Tile)

rleReduceKernel(in, prefix, grid, T) ==
    LET block(o) == CHOOSE b \in 0..grid-1 : prefix[b] <= o /\ o < prefix[b + 1]
        nth(o)   == o - prefix[block(o)] + 1
        start(o) == runBuffer(in, block(o), T)[nth(o)]
    IN [vals |-> [o \in 1..prefix[grid] |-> buffered(in, block(o - 1), start(o - 1), T)],
        runs |-> [o \in 1..prefix[grid] |->
                    runBuffer(in, block(o - 1), T)[nth(o - 1) + 1] - start(o - 1)],
        blockStart |-> [b \in 0..grid-1 |-> IF b * Tile < Len(in)
                                            THEN runBuffer(in, b, T)[1] + b * Tile ELSE 0]]

\* A run goes on in the blocks that start no run of their own, and in the
\* part of the next one before its first: the last of these adds them up.
rleFinalizeEachTile(r, prefix, num) ==              \* faulty: joins two tiles, not more
    LET fix(o) == {t \in 1..RoundUpDiv(num, Tile) - 1 : prefix[t] = o /\ prefix[t - 1] < o}
    IN [o \in DOMAIN r.runs |->
          r.runs[o] + MapThenSumSet(LAMBDA t : r.blockStart[t] - t * Tile, fix(o))]
rleFinalizeKernel(r, prefix, num) ==
    LET tiles == RoundUpDiv(num, Tile)
        closes(t) == prefix[t] > 0 /\ (t + 1 = tiles \/ prefix[t] < prefix[t + 1])
        low(t) == Least({b \in 0..t : prefix[b] = prefix[t]}, t)
        fix(o) == {t \in 0..tiles-1 : closes(t) /\ prefix[t] = o}
    IN [o \in DOMAIN r.runs |->
          r.runs[o] + MapThenSumSet(LAMBDA t : r.blockStart[t] - low(t) * Tile, fix(o))]

RleFailed == [vals |-> << >>, counts |-> << >>]

finalized(in, prefix, r) ==
    [vals |-> r.vals, counts |-> rleFinalizeKernel(r, prefix, Len(in))]
reduced(in, prefix, grid, T) == finalized(in, prefix, rleReduceKernel(in, prefix, grid, T))

\* The prefix sums of the numbers of runs, in the areas at of words.
scanned(in, at, last, grid, T) ==
    LET mem == ExclusiveSum(rleInitKernel([a \in 0..last |-> 1], at[1], in, grid, T),
                            at[1], at[2], grid + 1)
    IN [b \in 0..grid |-> mem[at[2] + b]]

\* The scan gets what lies behind the areas and is told that so many bytes
\* are there, however many are.
scanWorkspaceSize(maxNum, size) == Max({ScratchFloor * size, maxNum * size})

\* compressDownstream, with counts of RunBytes bytes, all of them in words;
\* requiredSpace is what hipcub asks for the scan.
compressDownstream(in, maxNum, workspaceSize, requiredSpace, T) ==
    LET grid    == RoundUpDiv(maxNum, Tile)
        scratch == rle_scratch(workspaceSize, grid, RunBytes)
        at      == [k \in 1..3 |-> scratch.at[k] \div RunBytes]
    IN IF \/ workspaceSize < downstreamWorkspaceSize(maxNum, RunBytes)
          \/ ~ scratch.ok
          \/ requiredSpace > scanWorkspaceSize(maxNum, RunBytes)
       THEN RleFailed
       ELSE reduced(in, scanned(in, at, scratch.offset \div RunBytes, grid, T), grid, T)

-----------------------------------------------------------------------------
(* Differences: the first element stays, each other one loses the one      *)
(* before, which the first thread of a block loads for it.                 *)

deltaKernel(input, T) ==
    LET buffer(b, t) ==
            IF t > 0 THEN input[b * GridBlock + t]
            ELSE IF b > 0 THEN input[b * GridBlock] ELSE 0
    IN [i \in DOMAIN input |->
          LET b == (i - 1) \div GridBlock
              t == (i - 1) % GridBlock
          IN (buffer(b, t + 1) - buffer(b, t)) % Modulo(T)]

-----------------------------------------------------------------------------
(* Packed bits.  LIMIT, the type of the least and the greatest value, is as *)
(* signed as the type of the elements.                                     *)

valueOf(x, T, signed) == IF signed THEN Signed(x, T) ELSE x

\* The least or the greatest of two values.
pick(greatest, x, y) == IF (x < y) = greatest THEN y ELSE x

\* Halving reduction of the first blockEnd of the values of a block.
reduce(values, blockEnd, greatest) ==
    LET pass(v, d) == [k \in DOMAIN v |-> IF k < d /\ k + d < blockEnd THEN pick(greatest, v[k], v[k + d]) ELSE v[k]]
        halves == SelectSeq([k \in 1..GridBlock |-> GridBlock + 1 - k],
                            LAMBDA d : \E e \in 0..8 : d * 2^(e + 1) = GridBlock)
    IN FoldLeft(pass, values, halves)[0]

\* The least or greatest of the inputs: each thread takes every element that
\* is a whole number of grids away, each block reduces its threads' values,
\* and the last kernel the blocks' values.
config_scan(in, maxNum, T, signed, greatest) ==
    LET n    == Len(in)
        grid == Min({BlockWidth, RoundUpDiv(maxNum, GridBlock)})
        numBlocks == RoundUpDiv(n, GridBlock)
        seen(b, t) == SelectSeq(
            [k \in 1..RoundUpDiv(numBlocks, grid) |-> (b + (k - 1) * grid) * GridBlock + t + 1],
            LAMBDA i : i <= n)
        val(i)  == valueOf(in[i], T, signed)
        fold(s) == FoldLeft(LAMBDA x, i : pick(greatest, x, val(i)), val(s[1]), s)
        local(b) == [t \in 0..GridBlock-1 |-> IF seen(b, t) = << >> THEN 0 ELSE fold(seen(b, t))]
        value(b) == reduce(local(b), Min({GridBlock, n - b * GridBlock}), greatest)
        count    == Min({numBlocks, BlockWidth})
        read(t)  == FoldLeft(LAMBDA x, b : pick(greatest, x, value(b)), value(t),
                        SelectSeq([k \in 1..BlockWidth |-> k - 1],
                                  LAMBDA b : b % GridBlock = t /\ b < count))
    IN reduce([t \in 0..GridBlock-1 |-> IF t < count THEN read(t) ELSE 0],
              Min({GridBlock, count}), greatest)

\* The smallest value and the bits of the range.
bit_width(low, high, T) ==
    [minValue |-> low % Modulo(T),
     numBits  |-> Least({b \in 0..Bits(T) : high - low < 2^b}, Bits(T))]
bitPackConfig(in, maxNum, T, signed) ==
    bit_width(config_scan(in, maxNum, T, signed, FALSE), config_scan(in, maxNum, T, signed, TRUE), T)

PackWord(T) == IF T > 4 THEN T ELSE 4           \* bytes of an output word

\* Thread o gathers the elements that have bits in word o of the output; the
\* threads of a block go through their common window of the input together.
\* A word is the set of its bits.  Without bits the positions are divisions
\* by zero: nothing is said of the words, and nobody reads them.
bitPackKernel(in, cfg, T) ==
    LET n    == Len(in)
        bits == Bits(PackWord(T))
        nb   == cfg.numBits
        clamp(x) == Min({x, n})
        startIdx(o) == clamp((o * bits) \div nb)
        endIdx(o)   == clamp(RoundUpDiv((o + 1) * bits, nb))
        blockId(o)  == o \div GridBlock
        blockStartIdx(o) ==
            clamp((((blockId(o) * GridBlock * bits) \div nb) \div GridBlock) * GridBlock)
        blockEndIdx(o) ==
            clamp(RoundUpTo(RoundUpDiv((blockId(o) + 1) * GridBlock * bits, nb), GridBlock))
        window(o) == Max({startIdx(o), blockStartIdx(o)})..Min({endIdx(o), blockEndIdx(o)}) - 1
        base(i)   == (in[i + 1] - cfg.minValue) % Modulo(T)
        word(o)   == {b \in 0..bits-1 : \E i \in window(o) :
                        LET k == b - (i * nb - o * bits)
                        IN k \in 0..Bits(T)-1 /\ BitOf(base(i), k) = 1}
        words     == RoundUpDiv(n, GridBlock) * GridBlock
    IN IF nb = 0 THEN << >>
       ELSE [o \in {o \in 0..words-1 : startIdx(o) < n} |-> word(o)]

unpackBytes(words, cfg, i, T) ==
    LET bits == Bits(PackWord(T))
        at(b) == i * cfg.numBits + b
        ones  == {b \in 0..cfg.numBits-1 : (at(b) % bits) \in words[at(b) \div bits]}
    IN IF cfg.numBits = 0 THEN cfg.minValue
       ELSE (MapThenSumSet(LAMBDA b : 2^b, ones) + cfg.minValue) % Modulo(T)
=============================================================================
