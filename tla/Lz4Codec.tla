------------------------------ MODULE Lz4Codec ------------------------------
(***************************************************************************)
(* The LZ4 kernels of LZ4Kernels.cuh: compressStream and decompressStream  *)
(* as functions from the bytes they read to the bytes they write.  One     *)
(* warp works on a stream in lock step, so a step of the recursion is one  *)
(* turn of the kernel's loop with all its lanes.                           *)
(*                                                                         *)
(* A byte is a natural number.  Small values of the parameters bring the   *)
(* boundaries of the format - the nibbles of a token, the bytes of a       *)
(* linear small-integer code (LSIC), the 16-bit offset - within reach of   *)
(* short inputs; the minimum match of 4 bytes and the end-of-block rules   *)
(* of 5 and 12 bytes keep their values.                                    *)
(***************************************************************************)
EXTENDS Common, Sequences, FiniteSets

CONSTANTS
    Lanes,      \* warpsize
    TokenMax,   \* largest value of a nibble of a token (15)
    LsicMax,    \* largest byte of a length code (0xff)
    OffsetByte, \* values of one byte of an offset (256)
    WordBytes   \* sizeof(double_word_type), the alignment of buffer loads

ASSUME Lz4Parameters ==
    /\ Lanes \in 4..64 /\ TokenMax \in 1..15 /\ LsicMax \in 1..255
    /\ OffsetByte \in 2..256 /\ WordBytes \in 1..8
    /\ Lanes <= OffsetByte * OffsetByte    \* an offset reaches back over a warp

OffsetRange == OffsetByte * OffsetByte
MAX_OFFSET  == OffsetRange - 1
NULL_OFFSET == OffsetRange - 1
Garbage     == -1        \* a byte the kernel should not have read


-----------------------------------------------------------------------------
(* Sizes and the units of the format. *)

maxSizeOfStreamShort(size) == RoundUpTo(size, 8)     \* faulty: no length codes
maxSizeOfStream(size) == RoundUpTo(size + 1 + RoundUpDiv(size, LsicMax), 8)

last_valid_match(T)    == RoundUpDiv(12, T)
min_ending_literals(T) == RoundUpDiv(5, T)

\* The linear code of a length: full bytes, then the rest.
writeLSIC(number) ==
    [i \in 1..(number \div LsicMax) + 1 |->
        IF i <= number \div LsicMax THEN LsicMax ELSE number % LsicMax]

encodePair(t1, t2) == ((t1 % (TokenMax + 1)) * (TokenMax + 1)) + (t2 % (TokenMax + 1))
decodePair(b) == [num_literals |-> b \div (TokenMax + 1),
                  num_matches  |-> b % (TokenMax + 1)]

\* A length as its nibble and the code of what the nibble cannot hold.  Without
\* a match the nibble is what uint8_t makes of -4.
lengthToken(num, short) ==
    IF num >= TokenMax + short
    THEN [nibble |-> TokenMax, more |-> writeLSIC(num - (TokenMax + short))]
    ELSE [nibble |-> (num - short) % 256, more |-> << >>]

\* One sequence.  The parameter offset of the C++ function is an offset_type:
\* what the caller computes is cut to 16 bits.
writeSequenceData(literals, num_matches, offset_arg) ==
    LET lit    == lengthToken(Len(literals), 0)
        match  == lengthToken(num_matches, 4)
        offset == offset_arg % OffsetRange
    IN << encodePair(lit.nibble, match.nibble) >> \o lit.more \o literals
         \o IF num_matches = 0 THEN << >>
            ELSE << offset % OffsetByte, offset \div OffsetByte >> \o match.more

-----------------------------------------------------------------------------
(* Compression.  Positions count elements of T bytes, from 0. *)

\* Bytes from..to-1; in front of the data is nothing that may be read.
Bytes(data, from, to) == IF from < 0 THEN << Garbage >> ELSE SubSeq(data, from + 1, to)
Element(data, T, i) == Bytes(data, i * T, (i + 1) * T)
word(data, T, i) == Bytes(data, i * T, i * T + 4)

\* The hash of a word: of (brev(key) + (key ^ 0xc375)) the low bits that the
\* mask keeps, for tables of up to 256 entries (0x75 is the low byte).
Bit(n, i) == (n \div 2^i) % 2
hash(key, size) ==
    LET brev  == Total([i \in 0..7 |-> Bit(key[4], i) * 2^(7 - i)], 8)
        mixed == Total([i \in 0..7 |-> ((Bit(key[1], i) + Bit(117, i)) % 2) * 2^i], 8)
    IN (brev + mixed) % size

\* The last position before pos with these low 16 bits.  A position in front of
\* the data shows that the table holds an entry that is not behind pos.
convertIdx(offset, pos) ==
    LET realPos == (pos \div OffsetRange) * OffsetRange + offset
    IN IF realPos >= pos THEN realPos - OffsetRange ELSE realPos

isValidHash(data, T, table, key, pos) ==
    LET entry == table[hash(key, Cardinality(DOMAIN table))]
        at    == convertIdx(entry, pos)
    IN /\ entry # NULL_OFFSET
       /\ pos - at <= MAX_OFFSET
       /\ at >= 0 => word(data, T, at) = key

\* Number of equal elements, up to the literals that must end the block.
lengthOfMatch(data, T, prev, next, length) ==
    LET room == length - next - min_ending_literals(T)
    IN Least({j \in 0..room-1 : Element(data, T, prev + j) # Element(data, T, next + j)},
             room)

\* The last of the first count lanes with a hash position stores it there.
insertHashTableWarp(table, at, words, count) ==
    [h \in DOMAIN table |->
        LET same == {i \in 0..count-1 : hash(words[i], Cardinality(DOMAIN table)) = h}
        IN IF same = {} THEN table[h] ELSE (at + Max(same)) % OffsetRange]

\* The match of a turn at position at: the first lane whose word an earlier lane
\* has, or one before that whose word the table has; lane = valid without one.
firstTwin(words, valid) ==
    Least({i \in 0..valid-1 : \E j \in 0..i-1 : words[j] = words[i]}, valid)

findMatchBefore(data, T, table, at, words, local) ==
    Least({i \in 0..local-1 : isValidHash(data, T, table, words[i], at + i)}, local)

matchLocation(table, at, words, valid, lane) ==
    CASE lane = valid -> -1
      [] lane < firstTwin(words, valid) ->
           convertIdx(table[hash(words[lane], Cardinality(DOMAIN table))], at + lane)
      [] OTHER -> at + Min({j \in 0..lane-1 : words[j] = words[lane]})

findMatch(data, T, table, at, words, valid) ==
    findMatchBefore(data, T, table, at, words, firstTwin(words, valid))

\* A turn that ends the block, and one that found num equal elements at location
\* for the lane: literals only if there is none.
literals(data, T, s, to) == Bytes(data, s.tokenStart * T, to)

compressEnd(data, T, s) ==
    [s EXCEPT !.at = RoundUpDiv(Len(data), T),
              !.out = @ \o writeSequenceData(literals(data, T, s, Len(data)), 0, 0)]

compressMatch(data, T, s, table, pos, location, num) ==
    [at |-> pos + num, tokenStart |-> pos + num, table |-> table,
     out |-> s.out \o writeSequenceData(literals(data, T, s, pos * T), num * T,
                                        ((pos - location) % OffsetRange) * T)]

compressLane(data, T, s, words, valid, lane, location) ==
    IF lane = valid
    THEN [s EXCEPT !.at = @ + valid, !.table = insertHashTableWarp(@, s.at, words, lane)]
    ELSE compressMatch(data, T, s, insertHashTableWarp(s.table, s.at, words, lane),
                       s.at + lane, location,
                       lengthOfMatch(data, T, location, s.at + lane, RoundUpDiv(Len(data), T)))

compressWords(data, T, s, words, valid, lane) ==
    compressLane(data, T, s, words, valid, lane,
                 matchLocation(s.table, s.at, words, valid, lane))

compressTurn(data, T, s) ==
    LET left  == RoundUpDiv(Len(data), T) - s.at - last_valid_match(T)
        valid == Min({Lanes - 3 \div T, left})
        words == [i \in 0..valid-1 |-> word(data, T, s.at + i)]
    IN IF left <= 0 THEN compressEnd(data, T, s)
       ELSE compressWords(data, T, s, words, valid,
                          findMatch(data, T, s.table, s.at, words, valid))

-----------------------------------------------------------------------------
(* Decompression.  The warp reads the stream through a buffer in shared    *)
(* memory that holds the bytes from position base on; cells of the buffer  *)
(* that a load does not fill keep what they held.                          *)

BufferSize    == Lanes * WordBytes           \* decomp_input_buffer_size
PrefetchDist  == BufferSize \div 2           \* decomp_buffer_prefetch_dist
end(ctrl)     == ctrl.base + BufferSize

\* setAndAlignOffset and loadAt: the stream starts align bytes behind an
\* aligned address, so the first base may be negative.
loadAtFromStart(ctrl, comp, align, offset) ==    \* faulty: misalignment forgotten
    LET base == ((align + offset) \div WordBytes) * WordBytes
    IN [base  |-> base,
        cells |-> [i \in 0..BufferSize-1 |->
                     IF base - align + i \in 0..Len(comp)-1 THEN comp[base - align + i + 1]
                     ELSE ctrl.cells[i]]]
loadAt(ctrl, comp, align, offset) ==
    LET base == ((align + offset) \div WordBytes) * WordBytes - align
    IN [base  |-> base,
        cells |-> [i \in 0..BufferSize-1 |->
                     IF base + i \in 0..Len(comp)-1 THEN comp[base + i + 1]
                     ELSE ctrl.cells[i]]]

rawAt(ctrl, i) == IF i - ctrl.base \in 0..BufferSize-1 THEN ctrl.cells[i - ctrl.base]
                  ELSE Garbage
byteAt(bytes, i) == IF i \in 0..Len(bytes)-1 THEN bytes[i + 1] ELSE Garbage

\* A length code from idx on, from the buffer as far as that reaches: full
\* bytes up to the first that is not.
readLSIC(ctrl, comp, idx) ==
    LET next(i) == IF i < end(ctrl) THEN rawAt(ctrl, i) ELSE byteAt(comp, i)
        last    == Least({i \in idx..Max({end(ctrl), Len(comp)}) : next(i) # LsicMax}, idx)
    IN [num |-> (last - idx) * LsicMax + next(last), idx |-> last + 1]

lengthBare(ctrl, comp, nibble, idx) ==                  \* faulty: code without the nibble
    IF nibble = TokenMax THEN readLSIC(ctrl, comp, idx) ELSE [num |-> nibble, idx |-> idx]
length(ctrl, comp, nibble, idx) ==
    IF nibble = TokenMax THEN [readLSIC(ctrl, comp, idx) EXCEPT !.num = @ + nibble]
    ELSE [num |-> nibble, idx |-> idx]

\* coopCopyNoOverlap and coopCopyOverlap: len bytes of those in source,
\* repeated with period dist where that is smaller.
coopCopyOverlap(source, dist, len) ==
    [k \in 1..len |-> IF dist = 0 THEN Garbage ELSE source[(k - 1) % dist]]

\* Byte i of a part of the stream that is read from the buffer only if that
\* reaches to the part's end.
streamByte(ctrl, comp, partEnd, i) ==
    IF partEnd > end(ctrl) THEN byteAt(comp, i) ELSE rawAt(ctrl, i)

readOffset(ctrl, comp, at) ==
    streamByte(ctrl, comp, at + 2, at) + OffsetByte * streamByte(ctrl, comp, at + 2, at + 1)

copyLiterals(comp, buf_end, output, lit, s) ==
    IF s.decomp_idx + lit.num > buf_end THEN [s EXCEPT !.corrupted = TRUE]
    ELSE [s EXCEPT !.comp_idx = lit.idx + lit.num, !.decomp_idx = @ + lit.num,
                   !.out = IF ~ output THEN @
                           ELSE @ \o [k \in 1..lit.num |->
                                        streamByte(s.ctrl, comp, lit.idx + lit.num, lit.idx + k - 1)]]

\* The match comes from the literals in the buffer if all of it is there.
copyMatch(buf_end, output, lit, offset, match, s) ==
    LET inBuffer == /\ offset <= lit.num /\ 0 <= s.ctrl.base /\ s.ctrl.base <= lit.idx
                    /\ end(s.ctrl) >= lit.idx + lit.num
        source == [k \in 0..Min({offset, match.num + 4}) - 1 |->
                     IF inBuffer THEN rawAt(s.ctrl, lit.idx + lit.num - offset + k)
                     ELSE byteAt(s.out, s.decomp_idx - offset + k)]
    IN IF s.decomp_idx < offset \/ s.decomp_idx + match.num + 4 > buf_end
       THEN [s EXCEPT !.corrupted = TRUE]
       ELSE [s EXCEPT !.comp_idx = match.idx, !.decomp_idx = @ + match.num + 4,
                      !.out = IF output THEN @ \o coopCopyOverlap(source, offset, match.num + 4)
                              ELSE @]

\* What follows the literals, unless the stream ends with them.
decompressMatch(comp, buf_end, output, lit, nibble, s) ==
    IF s.corrupted \/ s.comp_idx >= Len(comp) THEN s
    ELSE copyMatch(buf_end, output, lit, readOffset(s.ctrl, comp, s.comp_idx),
                   length(s.ctrl, comp, nibble, s.comp_idx + 2), s)

\* One sequence: the token, the literals and the match.
decompressTurn(comp, align, buf_end, output, s) ==
    LET filled == IF s.comp_idx + PrefetchDist <= end(s.ctrl) THEN s
                  ELSE [s EXCEPT !.ctrl = loadAt(@, comp, align, s.comp_idx)]
        tok    == decodePair(rawAt(filled.ctrl, s.comp_idx))
        lit    == length(filled.ctrl, comp, tok.num_literals, s.comp_idx + 1)
    IN decompressMatch(comp, buf_end, output, lit, tok.num_matches,
                       copyLiterals(comp, buf_end, output, lit, filled))

decompressed(s) ==
    [out    |-> s.out,
     size   |-> IF s.corrupted THEN 0 ELSE s.decomp_idx,
     status |-> IF s.corrupted THEN "hipcompErrorCannotDecompress" ELSE "hipcompSuccess"]

\* The whole kernel.  buf_end bounds the output; without output only the size
\* is wanted, and the status is not written.  A turn takes a byte or more, so
\* that as many turns as there are bytes get to the end of the stream.
decompressFurther(comp, align, buf_end, output, s) ==
    IF s.comp_idx >= Len(comp) \/ s.corrupted THEN s
    ELSE decompressTurn(comp, align, buf_end, output, s)

NoBuffer == [base |-> 0, cells |-> [i \in 0..BufferSize-1 |-> Garbage]]

decompressStream(comp, align, buf_end, output) ==
    LET after[n \in 0..Len(comp)] ==
            IF n = 0
            THEN [ctrl |-> loadAt(NoBuffer, comp, align, 0), comp_idx |-> 0,
                  decomp_idx |-> 0, out |-> << >>, corrupted |-> FALSE]
            ELSE decompressFurther(comp, align, buf_end, output, after[n - 1])
    IN decompressed(after[Len(comp)])
=============================================================================
