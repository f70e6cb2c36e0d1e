---------------------------- MODULE MCSnappySnap ----------------------------
(* Small inputs and a small warp for TLC.                                  *)
EXTENDS SnappySnap, SnappyScan

\* All inputs of up to six bytes with two values, and longer ones: one byte
\* over and over, no repetition at all, a repetition just within reach and
\* one just beyond it, and blocks that share a bucket.
MCSources ==
  UNION {[1 .. n -> {0, 1}] : n \in {0, 4, 6}}
  \cup [1 .. 9 -> {0, 1}]
  \cup {[i \in 1 .. 18 |-> 7],
        [i \in 1 .. 14 |-> i],
        [i \in 1 .. 16 |-> i % 4],
        [i \in 1 .. 18 |-> i % 5],
        [i \in 1 .. 18 |-> i % 6],
        [i \in 1 .. 18 |-> (i * i) % 7],
        <<1, 2, 3, 4, 9, 9, 2, 1, 3, 4, 1, 2, 3, 4, 5, 6, 2, 1, 3, 4>>}

\* Blocks with the same sum share a bucket.
MCHash(b) == (b[1] + b[2] + b[3] + b[4]) % 4

-----------------------------------------------------------------------------
(* Streams for the warp scans.                                             *)

\* The symbols of a stream: literals of one to five bytes, which hold the tags
\* of other symbols, and copies with one, two and four bytes of offset.
MCSymbols == <<<<0, 8>>, <<4, 3, 255>>, <<8, 2, 1, 0>>, <<12, 8, 9, 10, 11>>,
               <<16, 4, 12, 3, 63, 1>>, <<1, 1>>, <<6, 2, 0>>, <<11, 1, 0, 0, 0>>>>

\* Nine bits spell three symbols; a stream repeats them 25 times, behind a
\* literal that its copies reach.
MCStream(bits) ==
  LET Kind(i)   == 1 + bits[3 * i + 1] + 2 * bits[3 * i + 2] + 4 * bits[3 * i + 3]
      period    == MCSymbols[Kind(0)] \o MCSymbols[Kind(1)] \o MCSymbols[Kind(2)]
  IN  <<4, 0, 0>> \o FlattenSeq([i \in 1 .. 25 |-> period])

\* The symbols of a compressed stream without the size in front of them.
SymbolsOf(bytes) == SubSeq(bytes, Len(SizeBytes[ReadSize(bytes)]) + 1, Len(bytes))

\* What the compressor wrote, the same repeated until it exceeds a batch, and the
\* streams spelled by the inputs of nine bits (before they are read).
ScanStreams ==
  IF status = "ok"
  THEN (IF SrcLen > 9 THEN {SymbolsOf(dst)} ELSE {})
       \cup (IF SrcLen = 6 THEN {FlattenSeq([i \in 1 .. 20 |-> SymbolsOf(dst)])} ELSE {})
  ELSE IF SrcLen = 9 /\ end # 8 /\ warp0.pc = "test" /\ warp1.pc = "test"
          /\ warp0.pos = 0 /\ literal_length = 0 THEN {MCStream(src)} ELSE {}

\* The warp scans of the decoder, of either warp size, deliver the symbols that
\* a reader of one symbol after the other finds in these streams.
ScansAgree == \A stream \in ScanStreams : ScansDeliver(stream)
=============================================================================
