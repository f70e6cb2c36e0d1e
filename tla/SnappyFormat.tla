---------------------------- MODULE SnappyFormat ----------------------------
(***************************************************************************)
(* The byte format of a Snappy stream, as the compressor writes it         *)
(* (snappy/compression.cuh) and as the decompressor reads it               *)
(* (snappy/decompression.cuh, decompression_decode.cuh, symbol.cuh).       *)
(*                                                                         *)
(* Bytes are numbers below 256; shifts and masks are written as division   *)
(* and remainder, with the bits that a byte cannot hold dropped.           *)
(***************************************************************************)
EXTENDS Integers, Sequences

Byte == 0 .. 255

-----------------------------------------------------------------------------
(* Writing.                                                                *)

\* The uncompressed size in front of the symbols: seven bits a byte, the
\* lowest first, the eighth bit telling that another byte follows.
SizeBytes[n \in Nat] ==
  IF n <= 127 THEN <<n>> ELSE <<(n % 128) + 128>> \o SizeBytes[n \div 128]

\* The header of a literal of l + 1 bytes (StoreLiterals).
LiteralHeader(l) ==
  LET b0 == l % 256              b1 == (l \div 256) % 256
      b2 == (l \div 65536) % 256  b3 == (l \div 16777216) % 256
  IN  IF l < 60       THEN <<4 * l>> ELSE
      IF l < 256      THEN <<4 * 60, b0>> ELSE
      IF l < 65536    THEN <<4 * 61, b0, b1>> ELSE
      IF l < 16777216 THEN <<4 * 62, b0, b1, b2>>
                      ELSE <<4 * 63, b0, b1, b2, b3>>

\* A copy of len bytes from dist back (StoreCopy).
CopyHeader(len, dist) ==
  IF len < 12 /\ dist < 2048
  THEN <<(32 * ((dist \div 256) % 8) + 4 * (len - 4) + 1) % 256, dist % 256>>
  ELSE <<(4 * (len - 1) + 2) % 256, dist % 256, (dist \div 256) % 256>>

-----------------------------------------------------------------------------
(* Reading.                                                                *)

SizeError == -1

\* The greatest size that can be read.
MaxSize == 2147483647

\* The size at the beginning of a stream (decode_uncompressed_size).  Another
\* byte is read as long as the bits so far reach the next group; a fifth one
\* has room for three bits only.
ReadSize(bytes) ==
  LET At(i) == IF i <= Len(bytes) THEN bytes[i] ELSE 0
      b1 == At(1)
      b2 == (b1 % 128) + 128 * At(2)
      b3 == (b2 % 16384) + 16384 * At(3)
      b4 == (b3 % 2097152) + 2097152 * At(4)
  IN  IF b1 < 128 THEN b1 ELSE IF b2 < 16384 THEN b2 ELSE
      IF b3 < 2097152 THEN b3 ELSE IF b4 < 268435456 THEN b4 ELSE
      IF At(5) < 8 THEN (b4 % 268435456) + 268435456 * At(5) ELSE SizeError

\* The symbol whose header begins at position p of a stream
\* (decode_and_fill_batch_using_single_thread): how long the header is, how
\* many bytes it stands for, and, for a copy, from how far back.
ReadSymbol(bytes, p) ==
  LET At(i) == bytes[p + i]
      b0    == At(0)
      wide  == 1 + b0 \div 4
  IN  IF b0 % 4 = 1
      THEN [tag |-> 2, len |-> ((b0 \div 4) % 8) + 4,
            dist |-> 256 * (b0 \div 32) + At(1)]
      ELSE IF b0 % 4 = 2
      THEN [tag |-> 3, len |-> wide, dist |-> At(1) + 256 * At(2)]
      ELSE IF b0 % 4 = 3
      THEN [tag |-> 5, len |-> wide,
            dist |-> At(1) + 256 * At(2) + 65536 * At(3) + 16777216 * At(4)]
      ELSE IF b0 \div 4 < 60
      THEN [tag |-> 1, len |-> wide, dist |-> 0]
      ELSE LET n == b0 \div 4 - 59
           IN [tag |-> 1 + n, dist |-> 0,
               len |-> 1 + At(1) + (IF n > 1 THEN 256 * At(2) ELSE 0)
                                 + (IF n > 2 THEN 65536 * At(3) ELSE 0)
                                 + (IF n > 3 THEN 16777216 * At(4) ELSE 0)]
=============================================================================
