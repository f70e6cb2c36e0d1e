----------------------------- MODULE SnappySnap -----------------------------
(***************************************************************************)
(* The Snappy compressor (snappy/compression.cuh): one thread block whose  *)
(* two warps work one symbol apart.                                        *)
(*                                                                         *)
(*   warp 0  writes the literal and the copy found in the last round       *)
(*   warp 1  looks for the next match and leaves the length of the         *)
(*           literal before it, its length and its distance in shared      *)
(*           memory                                                        *)
(*                                                                         *)
(* Two barriers a round separate the reads of these words from the writes. *)
(* The lanes of warp 1 look at WarpSize positions at a time, through a     *)
(* hash table of the last position of each four-byte block, of which it    *)
(* keeps the low 16 bits.                                                  *)
(***************************************************************************)
EXTENDS SnappyFormat

CONSTANTS
  Sources,      (* inputs: sequences of bytes                              *)
  Capacities,   (* sizes of output buffers; 0: as calculated               *)
  WarpSize,     (* lanes of a warp                                         *)
  MaxLiteral,   (* MAX_LITERAL_LENGTH                                      *)
  MaxCopy,      (* MAX_COPY_LENGTH                                         *)
  MaxDistance,  (* MAX_COPY_DISTANCE                                       *)
  Window,       (* 2^16: what an entry of the hash table can tell apart    *)
  Buckets,      (* 2^HASH_BITS                                             *)
  Hash(_)       (* snap_hash: from four bytes to a bucket                  *)

MinMatch == 4

\* The limits of the code: chunk sizes that the decompressor can read, matches
\* that StoreCopy has a header for, literals of up to 256 bytes, and a hash
\* that is a bucket.
ASSUME SnapAssumption ==
  /\ \A s \in Sources :
       /\ s \in Seq(Byte) /\ Len(s) <= MaxSize
       /\ \A p \in 1 .. Len(s) - 3 : Hash(SubSeq(s, p, p + 3)) \in 0 .. Buckets - 1
  /\ Capacities \subseteq Nat
  /\ {WarpSize, MaxLiteral, MaxCopy, MaxDistance, Window, Buckets}
       \subseteq Nat \ {0}
  /\ WarpSize <= MaxLiteral /\ MaxLiteral <= 256
  /\ MinMatch <= MaxCopy /\ MaxCopy <= 64
  /\ WarpSize <= MaxDistance /\ MaxDistance < 65536 /\ MaxDistance <= Window

\* Literals that no match follows and no input ends are long (193 bytes at
\* least, or 225), in particular where a header of two bytes is needed.
ASSUME LiteralAssumption ==
  /\ MaxLiteral - WarpSize + 1 >= 6
  /\ MaxLiteral <= 60 \/ MaxLiteral - WarpSize + 1 >= 2 * 60

Lanes == 0 .. WarpSize - 1
Unwritten == 256     (* a byte of the output that was not written          *)

VARIABLES
  src,              (* the input                                           *)
  end,              (* the size of the output buffer                       *)
  dst,              (* the bytes so far, Unwritten where there was no room *)
  literal_length,   (* shared: the literal found,                          *)
  copy_length,      (* the length of the copy behind it (0: none)          *)
  copy_distance,    (* and its distance                                    *)
  hash_map,         (* shared: bucket -> position modulo Window            *)
  warp0,            (* [pc, pos, lit, copy, dist]: warp 0 and its locals   *)
  warp1,            (* the same of warp 1 and, from the start of its
                       search, at: where its lanes look                    *)
  status            (* what the host reads                                 *)

words == <<literal_length, copy_length, copy_distance, hash_map>>
vars  == <<src, end, dst, words, warp0, warp1, status>>

SrcLen == Len(src)

\* get_max_compressed_length
MaxCompressedLength(n) == 32 + n + n \div 6

\* Faulty variant: bytes that just fit are left out.
AppendAllShort(d, bytes) ==
  d \o (IF Len(d) + Len(bytes) < end THEN bytes
        ELSE [i \in DOMAIN bytes |-> Unwritten])

\* Bytes appended to the output where all of them, or each, have room.
AppendAll(d, bytes) ==
  d \o (IF Len(d) + Len(bytes) <= end THEN bytes
        ELSE [i \in DOMAIN bytes |-> Unwritten])
AppendEach(d, bytes) ==
  d \o [i \in DOMAIN bytes |->
          IF Len(d) + i <= end THEN bytes[i] ELSE Unwritten]

\* The block up to its loop: the size is written and the table cleared.
Init ==
  /\ src \in Sources
  /\ \E c \in Capacities :
       end = IF c = 0 THEN MaxCompressedLength(SrcLen) ELSE c
  /\ dst = AppendEach(<<>>, SizeBytes[SrcLen])
  /\ literal_length = 0 /\ copy_length = 0 /\ copy_distance = 0
  /\ hash_map = [b \in 0 .. Buckets - 1 |-> 0]
  /\ warp0 = [pc |-> "test", pos |-> 0, lit |-> 0, copy |-> 0, dist |-> 0]
  /\ warp1 = [pc |-> "test", pos |-> 0, lit |-> 0, copy |-> 0, at |-> 0]
  /\ status = "none"

-----------------------------------------------------------------------------
(* The lanes of warp 1 (FindFourByteMatch).  Lane t looks at position      *)
(* warp1.at + t.                                                           *)

Least(a, b) == IF a <= b THEN a ELSE b

Block(p) == SubSeq(src, p + 1, p + MinMatch)
Valid(t) == warp1.at + t + MinMatch <= SrcLen
Data(t)  == IF Valid(t) THEN Block(warp1.at + t) ELSE <<0, 0, 0, 0>>
Bucket(t) == IF Valid(t) THEN Hash(Data(t)) ELSE 0

\* HashMatchAny and the lanes before t: u is the last one with t's bucket.
LastPeer(t, u) ==
  /\ u < t /\ Bucket(u) = Bucket(t)
  /\ \A v \in Lanes : u < v /\ v < t => Bucket(v) # Bucket(t)

LocalMatch(t) == \E u \in Lanes : LastPeer(t, u) /\ Data(u) = Data(t)

\* The position that the table has for lane t: the entry with the high bits
\* of the current position, or one window earlier.
TablePosition(t) ==
  LET at == warp1.at
      offset == (at \div Window) * Window + hash_map[Bucket(t)]
  IN  IF offset < at THEN offset
      ELSE IF offset >= Window THEN offset - Window ELSE at

\* Where the four bytes of lane t occurred before.
Offset(t) ==
  IF LocalMatch(t) THEN warp1.at + CHOOSE u \in Lanes : LastPeer(t, u)
                   ELSE TablePosition(t)

Match(t) ==
  /\ Valid(t)
  /\ \/ LocalMatch(t)
     \/ /\ Offset(t) < warp1.at
        /\ Offset(t) + MaxDistance >= warp1.at + t
        /\ Block(Offset(t)) = Data(t)

\* The lanes before the first match are count.
FirstMatch(count) ==
  /\ \A t \in Lanes : t < count => ~Match(t)
  /\ count < WarpSize => Match(count)

\* The lanes whose positions may enter the table: those up to the match.
\* Without a match the mask is shifted by the width of its type, which C++
\* does not define: the result has all bits, or (the shift taken modulo the
\* width) the lowest one only.
UpdateMasks(count) == IF count < WarpSize THEN {0 .. count} ELSE {Lanes, {0}}

\* The table with, for each bucket, the last of these lanes entered.
Newest(t, mask) ==
  Valid(t) /\ t \in mask /\ \A u \in mask : u > t => Bucket(u) # Bucket(t)
Entered(mask) ==
  [b \in DOMAIN hash_map |->
     IF \E t \in Lanes : Newest(t, mask) /\ Bucket(t) = b
     THEN (warp1.at + CHOOSE t \in Lanes : Newest(t, mask) /\ Bucket(t) = b)
            % Window
     ELSE hash_map[b]]

\* Match60: the bytes that match from p on, at most n.
MatchLength(p, dist, n) ==
  CHOOSE k \in 0 .. n :
    /\ \A i \in 1 .. k : src[p + i] = src[p + i - dist]
    /\ k < n => src[p + k + 1] # src[p + k + 1 - dist]

-----------------------------------------------------------------------------
(* Faulty variants of the actions below: the bugs that the properties have *)
(* to notice.  No specification uses them.                                 *)

\* The search stops after the lanes have looked once.
SearchesOnce(at) == FALSE

\* The position is moved on to a match only.
MovedToMatch(count) == warp1.at + (IF count < WarpSize THEN count ELSE 0)

-----------------------------------------------------------------------------
(* The loop of the block.                                                  *)

\* The loop condition and the reads of the shared words, by either warp.
Fetch0 ==
  /\ warp0.pc = "test"
  /\ warp0' = IF warp0.pos < SrcLen
              THEN [warp0 EXCEPT !.pc = "read", !.lit = literal_length,
                                 !.copy = copy_length, !.dist = copy_distance]
              ELSE [warp0 EXCEPT !.pc = "end"]
  /\ UNCHANGED <<src, end, dst, words, warp1, status>>

Fetch1 ==
  /\ warp1.pc = "test"
  /\ warp1' = IF warp1.pos < SrcLen
              THEN [warp1 EXCEPT !.pc = "read", !.lit = literal_length,
                                 !.copy = copy_length]
              ELSE [warp1 EXCEPT !.pc = "end"]
  /\ UNCHANGED <<src, end, dst, words, warp0, status>>

\* __syncthreads: both warps leave label "from" together.
Sync(from, to) ==
  /\ warp0.pc = from /\ warp0' = [warp0 EXCEPT !.pc = to]
  /\ warp1.pc = from /\ warp1' = [warp1 EXCEPT !.pc = to]

AllRead    == Sync("read", "work") /\ UNCHANGED <<src, end, dst, words, status>>
AllWritten == Sync("written", "test") /\ UNCHANGED <<src, end, dst, words, status>>

\* Warp 0 writes the literal and the copy.
Literal(d) ==
  IF warp0.lit = 0 THEN d
  ELSE AppendEach(AppendAll(d, LiteralHeader(warp0.lit - 1)),
                  SubSeq(src, warp0.pos + 1, warp0.pos + warp0.lit))
Copy(d) ==
  IF warp0.copy = 0 THEN d
  ELSE AppendAll(d, CopyHeader(warp0.copy, warp0.dist))

Encode ==
  /\ warp0.pc = "work"
  /\ dst' = Copy(Literal(dst))
  /\ warp0' = [warp0 EXCEPT !.pc = "written",
                            !.pos = @ + warp0.lit + warp0.copy]
  /\ UNCHANGED <<src, end, words, warp1, status>>

\* Warp 1 moves on to where the next symbol begins.
StartSearch ==
  /\ warp1.pc = "work"
  /\ LET pos == warp1.pos + warp1.lit + warp1.copy
     IN  warp1' = [warp1 EXCEPT !.pc = "search", !.pos = pos, !.at = pos]
  /\ copy_length' = 0
  /\ UNCHANGED <<src, end, dst, literal_length, copy_distance, hash_map, warp0,
                 status>>

Moved(count) == warp1.at + count
SearchesOn(at) == at < warp1.pos + MaxLiteral - (WarpSize - 1)

\* All lanes look once; without a match and with room for it, they look again.
Search ==
  /\ warp1.pc = "search"
  /\ \E count \in 0 .. WarpSize :
       /\ FirstMatch(count)
       /\ \E mask \in UpdateMasks(count) : hash_map' = Entered(mask)
       /\ IF count < WarpSize
          THEN /\ copy_length' = MinMatch
               /\ copy_distance' = warp1.at + count - Offset(count)
          ELSE UNCHANGED <<copy_length, copy_distance>>
       /\ IF count = WarpSize /\ SearchesOn(Moved(count))
          THEN /\ warp1' = [warp1 EXCEPT !.at = Moved(count)]
               /\ UNCHANGED literal_length
          ELSE /\ warp1' = [warp1 EXCEPT !.pc = "extend", !.at = Moved(count)]
               /\ literal_length' = Least(Moved(count), SrcLen) - warp1.pos
  /\ UNCHANGED <<src, end, dst, warp0, status>>

\* A match is extended as far as it goes.
Extend ==
  /\ warp1.pc = "extend"
  /\ LET p == warp1.pos + literal_length + MinMatch IN
     copy_length' =
       IF copy_length = 0 THEN 0
       ELSE MinMatch + MatchLength(p, copy_distance,
                                   Least(SrcLen - p, MaxCopy - MinMatch))
  /\ warp1' = [warp1 EXCEPT !.pc = "written"]
  /\ UNCHANGED <<src, end, dst, literal_length, copy_distance, hash_map, warp0,
                 status>>

\* Behind the last barrier thread 0 tells whether the stream fits.
Finish ==
  /\ warp0.pc = "end" /\ warp1.pc = "end" /\ status = "none"
  /\ status' = IF Len(dst) > end THEN "error" ELSE "ok"
  /\ UNCHANGED <<src, end, dst, words, warp0, warp1>>

Ended == status # "none" /\ UNCHANGED vars

Step == \/ Fetch0 \/ Fetch1 \/ AllRead \/ AllWritten
        \/ Encode \/ StartSearch \/ Search \/ Extend \/ Finish

Next == Step \/ Ended

\* Both warps of the block run until they end.
Spec == Init /\ [][Next]_vars /\ WF_vars(Step)

-----------------------------------------------------------------------------
(* Properties.                                                             *)

Labels == {"test", "read", "work", "search", "extend", "written", "end"}

\* Every variable keeps its type; in particular literals and copies stay
\* within the lengths and distances that their headers are made for.
TypeOK ==
  /\ src \in Sources /\ end \in Nat
  /\ dst \in Seq(Byte \cup {Unwritten})
  /\ literal_length \in 0 .. MaxLiteral
  /\ copy_length \in {0} \cup MinMatch .. MaxCopy
  /\ copy_distance \in 0 .. MaxDistance
  /\ hash_map \in [0 .. Buckets - 1 -> 0 .. Window - 1]
  /\ warp0 \in [pc : Labels, pos : 0 .. SrcLen, lit : Nat, copy : Nat,
                dist : Nat]
  /\ warp1 \in [pc : Labels, pos : 0 .. SrcLen, lit : Nat, copy : Nat,
                at : Nat]
  /\ status \in {"none", "ok", "error"}

\* The text of a stream, read as the decompressor reads it, symbol by symbol.
\* r tells what has been read: the next position and the text so far.
Expand(bytes, r, y) ==
  IF y.dist = 0
  THEN [p    |-> r.p + y.tag + y.len,
        text |-> r.text \o SubSeq(bytes, r.p + y.tag, r.p + y.tag + y.len - 1)]
  ELSE [p    |-> r.p + y.tag,
        text |-> r.text \o [k \in 1 .. y.len |->
                    r.text[Len(r.text) - y.dist + 1 + ((k - 1) % y.dist)]]]

\* What has been read after i symbols (or at the end of the stream).
Reading(bytes) ==
  LET read[i \in 0 .. Len(bytes)] ==
        IF i = 0 THEN [p |-> Len(SizeBytes[ReadSize(bytes)]) + 1, text |-> <<>>]
        ELSE LET r == read[i - 1] IN
             IF r.p > Len(bytes) THEN r
             ELSE Expand(bytes, r, ReadSymbol(bytes, r.p))
  IN  read

Text(bytes) == Reading(bytes)[Len(bytes)].text

\* A compression that reports success has left no byte out, and its stream
\* stands for the input.
RoundTrip ==
  status = "ok" =>
    /\ \A i \in DOMAIN dst : dst[i] # Unwritten
    /\ ReadSize(dst) = SrcLen
    /\ Text(dst) = src

\* The stream exceeds what it stands for by little: a match takes no more
\* room than it replaces, and a literal that no match follows is long or the
\* last.  (So it is never near the length the caller reserves for it.)
OutputBound ==
  warp0.pc = "test" =>
    Len(dst) <= Len(SizeBytes[SrcLen]) + warp0.pos
                  + warp0.pos \div Least(60, MaxLiteral - WarpSize + 1) + 2

\* The compressor ends: every round finds a literal or a match, and neither
\* warp waits at a barrier for the other one in vain.
Terminates == <>(status # "none")
-----------------------------------------------------------------------------
(* What holds between the steps.                                           *)

\* A symbol for the input from pos on: lit bytes as they are and copy bytes
\* that repeat those dist before.  Nothing is copied only behind a long
\* literal, at the end of the input and before the first search.
Symbol(pos, lit, copy, dist) ==
  /\ pos + lit + copy <= SrcLen
  /\ copy > 0 => /\ 1 <= dist /\ dist <= pos + lit
                 /\ \A k \in 1 .. copy :
                      src[pos + lit + k] = src[pos + lit + k - dist]
  /\ copy = 0 => \/ lit > MaxLiteral - WarpSize
                 \/ pos + lit = SrcLen
                 \/ pos = 0 /\ lit = 0

\* The symbol in shared memory begins where warp 1 is.
Found == Symbol(warp1.pos, literal_length, copy_length, copy_distance)

\* The warps between the end of one round and the reads of the next one.
Together ==
  /\ {warp0.pc, warp1.pc} \subseteq {"test", "read", "end"}
  /\ warp0.pos = warp1.pos /\ Found
  /\ warp0.pc = "read" => /\ warp0.lit = literal_length
                          /\ warp0.copy = copy_length
                          /\ warp0.dist = copy_distance
  /\ warp1.pc = "read" => /\ warp1.lit = literal_length
                          /\ warp1.copy = copy_length
  /\ "read" \in {warp0.pc, warp1.pc} => warp0.pos < SrcLen
  /\ "end" \in {warp0.pc, warp1.pc} => warp0.pos = SrcLen

\* Where the next symbol begins, for either warp.
Behind(warp) ==
  IF warp.pc = "work" THEN warp.pos + warp.lit + warp.copy ELSE warp.pos

\* The warps at work on two symbols that follow each other.
Apart ==
  /\ warp0.pc \in {"work", "written"}
  /\ warp1.pc \in {"work", "search", "extend", "written"}
  /\ Behind(warp0) = Behind(warp1)
  /\ warp0.pc = "work" =>
       /\ Symbol(warp0.pos, warp0.lit, warp0.copy, warp0.dist)
       /\ warp0.pos < SrcLen /\ warp0.lit <= MaxLiteral
       /\ warp0.copy \in {0} \cup MinMatch .. MaxCopy
       /\ warp0.dist <= MaxDistance
  /\ warp1.pc = "search" => /\ copy_length = 0 /\ warp1.pos <= warp1.at
                            /\ SearchesOn(warp1.at)
  /\ warp1.pc = "extend" => Found /\ copy_length \in {0, MinMatch}
  /\ warp1.pc = "written" => Found

\* Behind pos bytes of the input the output has exceeded them once for each
\* of long literals at most, and by the header of a last, short one.
LongLiteral == Least(60, MaxLiteral - WarpSize + 1)
Excess ==
  \E long \in 0 .. warp0.pos :
    /\ LongLiteral * long <= warp0.pos
    /\ Len(dst) <= Len(SizeBytes[SrcLen]) + warp0.pos + long
                     + (IF warp0.pos = SrcLen THEN 2 ELSE 0)

Reported ==
  status # "none" => /\ warp0.pc = "end" /\ warp1.pc = "end"
                     /\ status = "ok" <=> Len(dst) <= end

IInv == TypeOK /\ (Together \/ Apart) /\ Excess /\ Reported
=============================================================================
