----------------------------- MODULE SnappyScan -----------------------------
(***************************************************************************)
(* How the decoding warp of the Snappy decompressor reads many short       *)
(* symbols at once (snappy/decompression_decode_strategies.cuh,            *)
(* decompression_decode_warp_scans.cuh, symbol.cuh), for warps of 32 and   *)
(* of 64 lanes (device_functions.cuh).                                     *)
(*                                                                         *)
(* Every lane takes a byte to be the tag of a symbol; three masks of these *)
(* votes hold the lengths of the symbols that may begin at 3 * W bytes.    *)
(* One lane follows the lengths through the masks, and gives the lengths   *)
(* of the next W symbols; every lane finds its own symbol from them.       *)
(*                                                                         *)
(* A mask is the set of its bits that are 1.  All of the stream has been   *)
(* prefetched; the ring holds a stale byte wherever nothing was written.   *)
(***************************************************************************)
EXTENDS SnappyFormat, FiniteSetsExt, SequencesExt

\* q.bytes: the symbols of a stream; q.stale: what the ring holds behind them
read_byte(q, pos) == IF pos < Len(q.bytes) THEN q.bytes[pos + 1] ELSE q.stale

-----------------------------------------------------------------------------
(* Masks and votes.                                                        *)

LanesOf(W) == 0 .. W - 1
BALLOT1(W, votes) == {t \in LanesOf(W) : votes[t]}
find_first_set_bit(m) == IF m = {} THEN 0 ELSE Min(m) + 1
num_set_bits(m) == Cardinality(m)

Low(m, n) == {i \in m : i < n}
Up(m, n)  == {i + n : i \in m}
Shr(m, n) == {i - n : i \in m \ Low(m, n)}
Shl(W, m, n) == Low(Up(m, n), W)

\* The low word of two words shifted to the right, by n mod 32 bits.
funnelshift_r(lo, hi, n) == Low(Shr(lo \cup Up(hi, 32), n % 32), 32)

\* The sum of the values of the lanes up to each (WarpReduce::prefix_sum):
\* in each round the lanes of every right half add the last of the left one.
prefix_sum(W, value) ==
  LET Round(f, half) ==
        [t \in LanesOf(W) |->
           f[t] + IF (t \div half) % 2 = 1
                  THEN f[(t \div (2 * half)) * 2 * half + half - 1] ELSE 0]
  IN  FoldLeft(Round, value, SelectSeq(<<1, 2, 4, 8, 16, 32>>, LAMBDA h : h < W))

-----------------------------------------------------------------------------
(* Tags (LZ77Symbol).                                                      *)

match_copy(b) == b % 4 # 0
match_copy_with_1_or_4_offset_bytes(b) == b % 2 = 1
match_copy_with_2_or_4_offset_bytes(b) == (b \div 2) % 2 = 1
match_copy_with_4_offset_bytes(b) == b % 4 = 3
match_3_bytes(b) == b = 4 \/ match_copy_with_2_or_4_offset_bytes(b)
match_literal_with_3_or_4_chars(b) == b \in {8, 12}

\* What the two strategies leave to a single lane.
match_long_2_to_3(b) == b \notin {0, 4} /\ b % 4 \in {0, 3}
match_long_2_to_5(b) ==
  IF match_copy(b) THEN match_copy_with_4_offset_bytes(b) ELSE b > 12

\* Bytes of a symbol, if it has two to five and is no copy with four.
symbol_num_bytes(b) ==
  IF ~match_copy(b) THEN 2 + b \div 4
  ELSE IF match_copy_with_2_or_4_offset_bytes(b) THEN 3 ELSE 2

short_symbol_len(b) ==
  IF match_copy_with_1_or_4_offset_bytes(b)
  THEN ((b \div 4) % 8) + 4 ELSE b \div 4 + 1

short_symbol_offset(q, b, cur) ==
  IF match_copy_with_1_or_4_offset_bytes(b)
  THEN 256 * (b \div 32) + read_byte(q, cur + 1)
  ELSE IF match_copy_with_2_or_4_offset_bytes(b)
  THEN read_byte(q, cur + 1) + 256 * read_byte(q, cur + 2)
  ELSE -(cur + 1)

-----------------------------------------------------------------------------
(* The lengths of consecutive symbols.                                     *)

\* An entry of the table: which of the next four symbols have three bytes,
\* where a bit of v tells it of the symbol that begins there, and how many
\* bytes the four have.
k_len3lut(v) ==
  LET at[i \in 0 .. 4] ==
        IF i = 0 THEN 0 ELSE at[i - 1] + (IF at[i - 1] \in v THEN 3 ELSE 2)
  IN  [mask |-> {i \in 0 .. 3 : at[i] \in v}, len |-> at[4]]

\* k lookups in one register.
Lookups(v, k) ==
  LET Next4(r, i) ==
        LET e == k_len3lut(Shr(v, r.len))
        IN  [mask |-> r.mask \cup Up(e.mask, 4 * (i - 1)),
             len  |-> r.len + e.len]
  IN  FoldLeftDomain(Next4, [mask |-> {}, len |-> 0], [i \in 1 .. k |-> i])

\* Eight lookups in registers of 32 bits: two before each shift.
get_len3_mask_32(v0, v1, v2) ==
  LET a  == Lookups(v0, 2)
      b  == Lookups(funnelshift_r(v0, v1, a.len), 2)
      n  == (a.len + b.len) % 32
      w1 == funnelshift_r(v1, v2, n)
      w2 == Shr(v2, n)
      c  == Lookups(w1, 2)
      d  == Lookups(funnelshift_r(w1, w2, c.len), 2)
  IN  a.mask \cup Up(b.mask, 8) \cup Up(c.mask, 16) \cup Up(d.mask, 24)

\* Sixteen lookups in registers of 64 bits: five, five, five and one.
get_len3_mask_64(v0, v1, v2) ==
  LET Joined(lo, hi, n) == Shr(lo, n) \cup Shl(64, Low(hi, n), 64 - n)
      a  == Lookups(v0, 5)
      w0 == Joined(v0, v1, a.len)
      w1 == Joined(v1, v2, a.len)
      b  == Lookups(w0, 5)
      x0 == Joined(w0, w1, b.len)
      x1 == Joined(w1, Shr(v2, a.len), b.len)
      c  == Lookups(x0, 5)
      d  == Lookups(Joined(x0, x1, c.len), 1)
  IN  a.mask \cup Up(b.mask, 20) \cup Up(c.mask, 40) \cup Up(d.mask, 60)

get_len3_mask(W, v0, v1, v2) ==
  IF W = 32 THEN get_len3_mask_32(v0, v1, v2) ELSE get_len3_mask_64(v0, v1, v2)

\* Pairs of bits with the lengths, less 2, of W / 2 symbols, from the low and
\* the high bit of the length at each byte.  After the first symbol v1 stays
\* one bit up, so that its bit 1 is the one to take.
get_len5_mask(W, v0, v1) ==
  LET Pair(high, low) == (IF high THEN {1} ELSE {}) \cup (IF low THEN {0} ELSE {})
      Value(pair)     == (IF 1 \in pair THEN 2 ELSE 0) + (IF 0 \in pair THEN 1 ELSE 0)
      first == Pair(0 \in v1, 0 \in v0)
      Step(r, i) ==
        LET pair == Pair(1 \in r.v1, 0 \in r.v0)
            n    == Value(pair) + 2
        IN  [v0 |-> Shr(r.v0, n), v1 |-> Shr(r.v1, n),
             mask |-> r.mask \cup Up(pair, 2 * i)]
  IN  FoldLeftDomain(Step,
                     [v0 |-> Shr(v0, Value(first) + 2),
                      v1 |-> Shr(v1, Value(first) + 1), mask |-> first],
                     [i \in 1 .. W \div 2 - 1 |-> i]).mask

\* Where the symbol of lane t begins.
compute_symbol_position_via_len3_mask(t, cur, mask) ==
  cur + 2 * t + num_set_bits(Low(mask, t))

\* A lane from W / 2 on shifts by more bits than there are; wherever the
\* mask ends then, the lane is out of reach.
compute_symbol_position_via_len5_mask(W, t, cur, mask) ==
  LET below == Low(mask, (2 * t) % W)
  IN  cur + 2 * t + 2 * num_set_bits({i \in below : i % 2 = 1})
                  + num_set_bits({i \in below : i % 2 = 0})

-----------------------------------------------------------------------------
(* The strategies.  d is what they share: the read position cur, the bytes *)
(* left to produce, the position pos in the output and the batch so far.   *)

\* The first n lanes add the symbols they found to the batch, up to the first
\* one that exceeds the output or reaches back behind its beginning.  Lane t
\* has found a symbol at at[t] with tag[t] and bytes[t].
AddSymbols(W, q, d, n, at, tag, bytes) ==
  LET len == [t \in LanesOf(W) |-> IF t < n THEN short_symbol_len(tag[t]) ELSE 0]
      ofs == [t \in LanesOf(W) |->
                IF t < n THEN short_symbol_offset(q, tag[t], at[t]) ELSE 0]
      blen == prefix_sum(W, len)
      outOfRange == [t \in LanesOf(W) |->
                       blen[t] > d.left \/ ofs[t] + len[t] > d.pos + blen[t]]
      first == find_first_set_bit(BALLOT1(W, outOfRange))
      add == IF first = 0 THEN n ELSE Min({n, first - 1})
  IN  IF add = 0 THEN d
      ELSE [cur   |-> at[add - 1] + bytes[add - 1],
            left  |-> d.left - blen[add - 1],
            pos   |-> d.pos + blen[add - 1],
            batch |-> d.batch \o [i \in 1 .. add |->
                         [len |-> len[i - 1], offset |-> ofs[i - 1]]]]

\* d after some symbols of d0 were added, with the tag of the one that was not.
Stopped(W, d0, d, tag) == [d |-> d, tag |-> tag[(Len(d.batch) - Len(d0.batch)) % W]]

\* TryDecodeStringOf2To3ByteSymbols: the new d, and the tag it stopped at.
TryDecode2To3(W, q, d) ==
  LET Vote(k) == BALLOT1(W, [t \in LanesOf(W) |->
                               match_3_bytes(read_byte(q, d.cur + t + k * W))])
  IN  CHOOSE r \in
        {LET at  == [t \in LanesOf(W) |->
                       compute_symbol_position_via_len3_mask(t, d.cur, mask)]
             tag == [t \in LanesOf(W) |-> read_byte(q, at[t])]
             len == [t \in LanesOf(W) |-> IF t \in mask THEN 3 ELSE 2]
             long == BALLOT1(W, [t \in LanesOf(W) |-> match_long_2_to_3(tag[t])])
             n   == IF long = {} THEN W ELSE find_first_set_bit(long) - 1
         IN  Stopped(W, d, IF n = 0 THEN d ELSE AddSymbols(W, q, d, n, at, tag, len), tag) :
         mask \in {get_len3_mask(W, Vote(0), Vote(1), Vote(2))}} : TRUE

\* Faulty variant: the lanes beyond the bytes that were voted on take part.
ExcludedByTag(W, d, t, at, tag) ==
  match_long_2_to_5(tag) \/ Len(d.batch) + t >= W

\* Lane t of the slower strategy cannot add its symbol, at position at.
Excluded(W, d, t, at, tag) ==
  \/ match_long_2_to_5(tag)
  \/ at >= d.cur + W
  \/ Len(d.batch) + t >= W

\* One round of TryDecodeStringOf2To5ByteSymbols.
Round2To5(W, q, d) ==
  LET Size(t) == symbol_num_bytes(read_byte(q, d.cur + t)) - 2
      low  == BALLOT1(W, [t \in LanesOf(W) |-> Size(t) % 2 = 1])
      high == BALLOT1(W, [t \in LanesOf(W) |-> (Size(t) \div 2) % 2 = 1])
  IN  CHOOSE d1 \in
        {LET at  == [t \in LanesOf(W) |->
                       compute_symbol_position_via_len5_mask(W, t, d.cur, mask)]
             tag == [t \in LanesOf(W) |-> read_byte(q, at[t])]
             len == [t \in LanesOf(W) |->
                       2 + (IF 2 * t + 1 \in mask THEN 2 ELSE 0)
                         + (IF 2 * t \in mask THEN 1 ELSE 0)]
             n   == find_first_set_bit(
                      BALLOT1(W, [t \in LanesOf(W) |-> Excluded(W, d, t, at[t], tag[t])])) - 1
         IN  IF n = 0 THEN d ELSE AddSymbols(W, q, d, n, at, tag, len) :
         mask \in {get_len5_mask(W, low, high)}} : TRUE

\* The rounds go on while one, from d to d1, adds six symbols and the batch has
\* room.
RECURSIVE FurtherRounds(_, _, _, _)
FurtherRounds(W, q, d, d1) ==
  IF Len(d1.batch) - Len(d.batch) >= 6 /\ Len(d1.batch) < W - 2
  THEN FurtherRounds(W, q, d1, Round2To5(W, q, d1)) ELSE d1

TryDecode2To5(W, q, d) == FurtherRounds(W, q, d, Round2To5(W, q, d))

\* A symbol read by a single lane.
ReadNext(bytes, d) ==
  LET y       == ReadSymbol(bytes, d.cur + 1)
      literal == y.dist = 0
  IN  [cur   |-> d.cur + y.tag + (IF literal THEN y.len ELSE 0),
       left  |-> d.left - y.len,
       pos   |-> d.pos + y.len,
       batch |-> Append(d.batch,
          [len |-> y.len, offset |-> IF literal THEN -(d.cur + y.tag) ELSE y.dist])]

\* It fills the batch (decode_and_fill_batch_using_single_thread).  A symbol
\* that exceeds the output, or reaches back behind its beginning from where it
\* would end itself, is passed over and ends the batch.
Passed(d, next) == [d EXCEPT !.cur = next.cur, !.pos = next.pos]

RECURSIVE FillBatch(_, _, _)
FillBatch(W, q, d) ==
  IF d.left = 0 \/ Len(d.batch) = W THEN d
  ELSE LET next == ReadNext([p \in Nat |-> read_byte(q, p - 1)], d)
       IN  IF next.left < 0 \/ Last(next.batch).offset > next.pos
           THEN Passed(d, next) ELSE FillBatch(W, q, next)

\* The slower strategy takes over from a literal of three or four bytes.
MaybeSlower(W, q, a) ==
  IF Len(a.d.batch) < W - 2 /\ match_literal_with_3_or_4_chars(a.tag)
  THEN TryDecode2To5(W, q, a.d) ELSE a.d

\* The decoding warp fills a batch of W symbols (DecodeSymbols::apply).
DecodeBatch(W, q, d) == FillBatch(W, q, MaybeSlower(W, q, TryDecode2To3(W, q, d)))

Submit(r, d) == [d |-> [d EXCEPT !.batch = <<>>], batches |-> Append(r.batches, d.batch)]

\* The rest of a stream, batch by batch; r.batches are those decoded before.
\* (A batch without a symbol is not submitted; a decoder that meets one in a
\* stream that is not well formed need not end, and is left there.)
RECURSIVE Batches(_, _, _)
Batches(W, q, r) ==
  IF r.d.left = 0 \/ <<>> \in Range(r.batches) THEN r
  ELSE Batches(W, q, Submit(r, DecodeBatch(W, q, r.d)))

-----------------------------------------------------------------------------

\* The symbols of a stream one by one, as the strategies are to deliver them,
\* and how many bytes they stand for (pos).
RECURSIVE InTurn(_, _)
InTurn(bytes, d) ==
  IF d.cur = Len(bytes) THEN d ELSE InTurn(bytes, ReadNext(bytes, d))

Start(n) == [cur |-> 0, left |-> n, pos |-> 0, batch |-> <<>>]

\* Whatever strategies decode a stream, with either size of a warp and
\* whatever byte is left in the ring behind it, they deliver its symbols in
\* their order, in batches that hold a symbol and have room, and end where
\* the stream does.
ScansDeliver(bytes) ==
  \E turn \in {InTurn(bytes, Start(0))} :
    \A W \in {32, 64}, stale \in {4, 255} :
      \E r \in {Batches(W, [bytes |-> bytes, stale |-> stale],
                        [d |-> Start(turn.pos), batches |-> <<>>])} :
        /\ FlattenSeq(r.batches) = turn.batch
        /\ \A i \in DOMAIN r.batches : Len(r.batches[i]) \in 1 .. W
        /\ r.d.cur = Len(bytes) /\ r.d.pos = turn.pos
=============================================================================
