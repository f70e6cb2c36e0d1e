---------------------------- MODULE CascadedCodec ----------------------------
(***************************************************************************)
(* The cascaded kernels of CascadedKernels.cuh: the layers that a block of *)
(* threads applies to a chunk in shared memory (run lengths, differences,  *)
(* packed bits) and the kernels that compress and decompress a partition,  *)
(* as functions.                                                           *)
(*                                                                         *)
(* Elements have T bytes and are numbers modulo 2^Bits(T); sizes, offsets  *)
(* and alignments count real bytes, while a byte holds only ByteBits bits, *)
(* so that all values of a type are within reach.  A byte of memory is a   *)
(* cell <<v, k, w>>: byte k of the w-byte value v.  A value is read back   *)
(* only where all its bytes were written together.                         *)
(***************************************************************************)
EXTENDS Common, Sequences, FiniteSets, SequencesExt

CONSTANTS
    ThreadBlock,  \* threadblock_size
    ChunkBytes,   \* chunk_size, the bytes that are loaded at a time
    ByteBits      \* bits of a byte (8)

ASSUME CascadedParameters ==
    /\ ThreadBlock \in 1..128 /\ ByteBits \in 1..8
    /\ ChunkBytes \in 8..2^(2 * ByteBits) - 1      \* a run fits its count

Bits(T)    == ByteBits * T
Modulo(T)  == 2^Bits(T)
RunBytes   == 2                     \* sizeof(run_type), uint16_t
Signed(x, T) == IF x >= Modulo(T) \div 2 THEN x - Modulo(T) ELSE x
BitOf(x, i)  == (x \div 2^i) % 2

Unread == << 0, 0, 0 >>             \* a byte nobody wrote
NoValue == 0                        \* what a read of such bytes gives

ValueAt(s, i) == IF i \in DOMAIN s THEN s[i] ELSE NoValue

Cells(v, w)  == [k \in 1..w |-> << v, k - 1, w >>]
CellsOf(s, w) == [i \in 1..Len(s) * w |-> << s[((i - 1) \div w) + 1], (i - 1) % w, w >>]

\* The w-byte value at address a of a memory that is a sequence of cells.
Fetch(mem, a, w) ==
    IF a + w <= Len(mem) /\ \A k \in 0..w-1 : mem[a + k + 1] = << mem[a + 1][1], k, w >>
    THEN mem[a + 1][1] ELSE NoValue
FetchAll(mem, a, n, w) == [i \in 1..n |-> Fetch(mem, a + (i - 1) * w, w)]

Store(mem, a, cells) ==
    [i \in 1..Len(mem) |-> IF i - a \in 1..Len(cells) THEN cells[i - a] ELSE mem[i]]

-----------------------------------------------------------------------------
(* Run lengths.  Thread t has the inputs of segment t and writes those     *)
(* that are the last of their run, at the offset that a scan of the        *)
(* threads' numbers gives it: behind those of the threads before.          *)

block_rle_compress(input) ==
    LET n == Len(input)
        per == RoundUpDiv(n, ThreadBlock)
        last(i) == IF i < n THEN input[i + 1] # input[i] ELSE i = n
        ends == {i \in 1..n : last(i)}
        before(t) == Cardinality({i \in ends : i <= t * per})
        place(i) == LET t == (i - 1) \div per
                    IN before(t) + Cardinality({j \in ends : t * per < j /\ j <= i})
        tmp == [p \in 1..Cardinality(ends) |-> CHOOSE i \in ends : place(i) = p]
    IN [vals   |-> [o \in DOMAIN tmp |-> input[tmp[o]]],
        counts |-> [o \in DOMAIN tmp |-> tmp[o] - IF o = 1 THEN 0 ELSE tmp[o - 1]]]

\* Rounds of one run per thread; a scan of uint16_t counts gives each thread
\* its offset behind what earlier rounds wrote.
block_rle_decompress(vals, counts, num_runs) ==
    LET rounds == RoundUpDiv(num_runs, ThreadBlock)
        current(r, t) == LET idx == r * ThreadBlock + t + 1
                         IN IF idx <= num_runs THEN ValueAt(counts, idx) ELSE 0
        sum(r, to) == MapThenSumSet(LAMBDA t : current(r, t), 0..to-1) % Modulo(RunBytes)
        written[r \in 0..rounds] ==
            IF r = 0 THEN 0 ELSE written[r - 1] + sum(r - 1, ThreadBlock)
        writers(o) == {x \in (0..rounds-1) \X (0..ThreadBlock-1) :
                         o - written[x[1]] - sum(x[1], x[2]) \in 1..current(x[1], x[2])}
    IN [o \in 1..written[rounds] |->
          LET x == CHOOSE x \in writers(o) : TRUE
          IN IF writers(o) = {} THEN NoValue
             ELSE ValueAt(vals, x[1] * ThreadBlock + x[2] + 1)]

(* Differences, modulo the width of the type; the first element is kept    *)
(* aside.                                                                  *)

block_delta_compress(input, T) ==
    [i \in 1..Len(input) - 1 |-> (input[i + 1] - input[i]) % Modulo(T)]

\* Rounds of an exclusive scan that starts from the sum of the rounds before.
block_delta_decompress(input, initial_value, T) ==
    LET n == Len(input)
        initial[r \in 0..RoundUpDiv(n, ThreadBlock)] ==
            IF r = 0 THEN initial_value
            ELSE (initial[r - 1] + MapThenSumSet(LAMBDA i : input[i],
                    {i \in 1..n : (i - 1) \div ThreadBlock = r - 1})) % Modulo(T)
    IN [i \in 1..n + 1 |->
          IF i = n + 1 THEN initial[RoundUpDiv(n, ThreadBlock)]
          ELSE LET r == (i - 1) \div ThreadBlock
               IN (initial[r] + MapThenSumSet(LAMBDA j : input[j],
                                  r * ThreadBlock + 1 .. i - 1)) % Modulo(T)]

(* Packed bits: the smallest element as a signed number (frame of          *)
(* reference), the bits that the range needs and the number of elements,   *)
(* then the differences from the frame in words of 32 bits.                *)

get_for_bitwidth(input, T) ==
    LET signed == {Signed(input[i], T) : i \in DOMAIN input}
        range  == IF signed = {} THEN 0 ELSE Max(signed) - Min(signed)
    IN [frame |-> IF signed = {} THEN 0 ELSE Min(signed) % Modulo(T),
        bitwidth |-> Least({b \in 0..Bits(T) : range < 2^b}, Bits(T))]

bpHeader(T) == RoundUpTo(T + 4, IF T > 4 THEN T ELSE 4)
bpWordAt(T) == RoundUpTo(T, 4)
bpDataAt(T) == RoundUpTo(RoundUpTo(T, 4) + 4, T)

packed_words(input, T, meta) ==
    LET n == Len(input)
        bit(b) == LET i == (b \div meta.bitwidth) + 1
                  IN IF i <= n THEN BitOf((input[i] - meta.frame) % Modulo(T), b % meta.bitwidth)
                     ELSE 0
        byte(k) == MapThenSumSet(LAMBDA j : bit((k - 1) * ByteBits + j) * 2^j, 0..ByteBits-1)
    IN [k \in 1..4 * RoundUpDiv(n * meta.bitwidth, Bits(4)) |-> << byte(k), 0, 1 >>]

packed(input, T, meta) ==
    LET words == packed_words(input, T, meta)
        blank == [i \in 1..bpHeader(T) + Len(words) |-> Unread]
    IN Store(Store(Store(blank, 0, Cells(meta.frame, T)),
                   bpWordAt(T), Cells(meta.bitwidth * 65536 + Len(input), 4)),
             bpDataAt(T), words)

block_bitpack(input, T) == packed(input, T, get_for_bitwidth(input, T))

block_bitunpack(mem, at, T) ==
    LET frame == Fetch(mem, at, T)
        meta  == Fetch(mem, at + bpWordAt(T), 4)
        width == meta \div 65536
        bit(b) == BitOf(Fetch(mem, at + bpDataAt(T) + b \div ByteBits, 1), b % ByteBits)
        base(i) == MapThenSumSet(LAMBDA j : bit(i * width + j) * 2^j, 0..width-1)
    IN [i \in 1..meta % 65536 |-> (base(i - 1) + frame) % Modulo(T)]

-----------------------------------------------------------------------------
(* A chunk.  Offsets are from the start of the partition's buffer, which   *)
(* is aligned for the type.                                                *)

Metadata == 8                        \* partition_metadata_size
chunk_num_elements(T) == ChunkBytes \div T
get_chunk_metadata_size(o) == RoundUpTo(4 + 4 * (o.R + 1), o.T) + RoundUpTo(o.T * o.D, 4)
delta_header(o, d) == RoundUpTo(4 * (o.R + 2), o.T) + o.T * (d - 1)

\* Values of w bytes into the buffer of c, unless they would pass the limit.
put(c, at, limit, cells) ==
    IF at + RoundUpTo(Len(cells), 4) > limit THEN [c EXCEPT !.ok = FALSE]
    ELSE [c EXCEPT !.mem = Store(@, at, cells), !.at = at + RoundUpTo(Len(cells), 4),
                   !.sizes = Append(@, Len(cells))]

block_write(c, at, limit, values, w, bp) ==
    put(c, at, limit, IF bp THEN block_bitpack(values, w) ELSE CellsOf(values, w))

block_read(mem, at, in_byte, limit, w, bp) ==
    [ok     |-> at + RoundUpTo(in_byte, 4) <= limit,
     values |-> IF bp THEN block_bitunpack(mem, at, w)
                ELSE FetchAll(mem, at, in_byte \div w, w)]

\* A layer of a chunk c: run lengths, whose counts are written at once, then
\* differences, whose first element goes to the metadata.
write_runs(o, limit, c, runs) ==
    block_write([c EXCEPT !.buf = runs.vals], c.at, limit, runs.counts, RunBytes, o.bp)
rle_layer(o, limit, l, c) ==
    IF l > o.R \/ ~ c.ok THEN c ELSE write_runs(o, limit, c, block_rle_compress(c.buf))

\* Without an element left the C++ loop would run up to the largest size_t:
\* that case has no value here, and jobs stay clear of it.
delta_layer(o, l, c) ==
    IF l > o.D \/ ~ c.ok THEN c
    ELSE [c EXCEPT !.heads = Append(@, c.buf[1]), !.buf = block_delta_compress(@, o.T)]

Numbers(n) == [i \in 1..n |-> i]
Layers(o)  == IF o.R > o.D THEN o.R ELSE o.D

compress_layers(o, limit, c) ==
    LET after[l \in 0..Layers(o)] ==
            IF l = 0 THEN c ELSE delta_layer(o, l, rle_layer(o, limit, l, after[l - 1]))
    IN after[Layers(o)]

final_layer(o, limit, c) ==
    IF c.ok THEN block_write(c, RoundUpTo(c.at, o.T), limit, c.buf, o.T, o.bp) ELSE c

\* The metadata in front of the arrays, written last.
write_metadata(o, base, at, c) ==
    IF ~ c.ok THEN c
    ELSE [c EXCEPT !.at = at,
                   !.mem = Store(Store(@, base, CellsOf(<< at - base >> \o c.sizes, 4)),
                                 base + delta_header(o, 1), CellsOf(c.heads, o.T))]
close_chunk(o, base, c) == write_metadata(o, base, RoundUpTo(c.at, o.T), c)

\* One chunk behind what the partition p has so far.
compress_chunk(o, limit, p, elements) ==
    close_chunk(o, p.at, final_layer(o, limit, compress_layers(o, limit,
        [buf |-> elements, at |-> p.at + get_chunk_metadata_size(o), mem |-> p.mem,
         ok |-> TRUE, sizes |-> << >>, heads |-> << >>])))

\* The header of the partition, in front of its chunks or of the input as it is
\* when they would pass the limit.
close_partition(p, elements, start, o) ==
    LET flags(R, D, bp) == CellsOf(<< R, D, bp, o.T >>, 1)
        bytes    == Len(elements) * o.T
        sized(m) == Store(m, 4, Cells(bytes, 4))
    IN IF p.ok
       THEN [mem |-> sized(Store(p.mem, 0, flags(o.R, o.D, IF o.bp THEN 1 ELSE 0))),
             bytes |-> p.at]
       ELSE [mem |-> sized(Store(Store(p.mem, start, CellsOf(elements, o.T)), 0, flags(0, 0, 0))),
             bytes |-> start + RoundUpTo(bytes, 4)]

\* The partition p after chunk i of the elements, unless one before did not fit.
add_chunk(o, limit, elements, i, p) ==
    LET per == chunk_num_elements(o.T)
    IN IF ~ p.ok THEN p
       ELSE compress_chunk(o, limit, p,
              SubSeq(elements, (i - 1) * per + 1, Min({i * per, Len(elements)})))

\* do_cascaded_compression_kernel for one partition: mem is the output buffer
\* as it was, o the options.
compress_partition(mem, elements, input_bytes, o) ==
    LET limit  == Metadata + RoundUpTo(input_bytes, 4)
        chunks == RoundUpDiv(Len(elements), chunk_num_elements(o.T))
        start  == RoundUpTo(Metadata, o.T)
        done[i \in 0..chunks] ==
            IF i = 0 THEN [mem |-> mem, at |-> start, ok |-> o.R # 0 \/ o.D # 0 \/ o.bp]
            ELSE add_chunk(o, limit, elements, i, done[i - 1])
    IN IF input_bytes = 0 THEN [mem |-> mem, bytes |-> 0]
       ELSE close_partition(done[chunks], elements, start, o)

-----------------------------------------------------------------------------
(* Decompression. *)

\* Where the counts of a chunk's layers start behind the metadata, and the final
\* array, from the sizes that the metadata has.
rle_offsets(mem, o, base) ==
    LET offset[i \in 0..o.R] ==
            IF i = 0 THEN 0
            ELSE RoundUpTo(offset[i - 1] + Fetch(mem, base + 4 * i, 4),
                           IF i = o.R /\ o.T > 4 THEN o.T ELSE 4)
    IN offset

\* An array of a chunk: number i of its sizes tells its bytes.
read_array(mem, limit, o, base, i, w) ==
    block_read(mem, base + get_chunk_metadata_size(o) + rle_offsets(mem, o, base)[i - 1],
               Fetch(mem, base + 4 * i, 4), limit, w, o.bp)

\* Undoing layers: the order is found again from the numbers of layers that
\* remain.  d has the values and the remaining layers of either kind.
undo_delta(mem, o, base, d) ==
    IF ~ (d.deltas > 0 /\ d.deltas >= d.rles) THEN d
    ELSE [d EXCEPT !.deltas = @ - 1,
                   !.values = block_delta_decompress(@,
                        Fetch(mem, base + delta_header(o, d.deltas), o.T), o.T)]
expand_runs(d, read) ==
    IF ~ read.ok THEN [d EXCEPT !.ok = FALSE]
    ELSE [d EXCEPT !.rles = @ - 1, !.values = block_rle_decompress(@, read.values, Len(@))]
undo_rle(mem, limit, o, base, d) ==
    IF ~ (d.rles > 0 /\ d.rles >= d.deltas) THEN d
    ELSE expand_runs(d, read_array(mem, limit, o, base, d.rles, RunBytes))

undo_layers(mem, limit, o, base, final) ==
    FoldLeft(LAMBDA d, l : IF d.ok THEN undo_rle(mem, limit, o, base, undo_delta(mem, o, base, d))
                           ELSE d,
             [values |-> final.values, rles |-> o.R, deltas |-> o.D, ok |-> final.ok],
             Numbers(Layers(o)))

\* One chunk at base: its values, or not ok where it would pass the limit.
decompress_chunk(mem, limit, o, base) ==
    IF base + get_chunk_metadata_size(o) > limit THEN [values |-> << >>, ok |-> FALSE]
    ELSE undo_layers(mem, limit, o, base, read_array(mem, limit, o, base, o.R + 1, o.T))

Failed == [status |-> "hipcompErrorCannotDecompress", size |-> 0, out |-> << >>]

Done(out, T) == [status |-> "hipcompSuccess", size |-> Len(out) * T, out |-> out]

\* The partition after one more chunk, of which the array has n elements at most.
next_chunk(mem, T, n, s, d) ==
    IF ~ d.ok \/ Len(s.out) + Len(d.values) > n THEN [s EXCEPT !.ok = FALSE]
    ELSE [at |-> RoundUpTo(s.at + (Fetch(mem, s.at, 4) \div 4) * 4, T),
          out |-> s.out \o d.values, ok |-> TRUE]

decompress_chunks(mem, limit, o, n, start) ==
    LET State == [at : Nat, out : Seq(Int), ok : BOOLEAN]
        rest[s \in State] ==
            IF s.at >= limit \/ ~ s.ok THEN s
            ELSE rest[next_chunk(mem, o.T, n, s, decompress_chunk(mem, limit, o, s.at))]
    IN rest[[at |-> start, out |-> << >>, ok |-> TRUE]]

complete(s, n, T) == IF s.ok /\ Len(s.out) = n THEN Done(s.out, T) ELSE Failed

\* cascaded_decompression_fcn for one partition and the type of T bytes.
decompress_partition(mem, bytes, buffer_bytes, T) ==
    LET o == [R |-> Fetch(mem, 0, 1), D |-> Fetch(mem, 1, 1), bp |-> Fetch(mem, 2, 1) # 0, T |-> T]
        n == Fetch(mem, 4, 4) \div T
        start == RoundUpTo(Metadata, T)
    IN IF bytes < Metadata \/ buffer_bytes < T * n THEN Failed
       ELSE IF o.R = 0 /\ o.D = 0 /\ ~ o.bp
       THEN IF bytes < start + T * n THEN Failed ELSE Done(FetchAll(mem, start, n, T), T)
       ELSE complete(decompress_chunks(mem, (bytes \div 4) * 4, o, n, start), n, T)

\* get_decompress_size_kernel
decompress_size(mem, bytes) == IF bytes < Metadata THEN 0 ELSE Fetch(mem, 4, 4)
=============================================================================
