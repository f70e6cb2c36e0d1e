------------------------- MODULE SnappySnap_proofs -------------------------
(***************************************************************************)
(* The Snappy compressor: for every input, warp size and table, what its   *)
(* two warps write stands for the input (RoundTrip) and exceeds it by      *)
(* little (OutputBound).                                                   *)
(***************************************************************************)
EXTENDS SnappySnap, SnappyFormat_proofs

-----------------------------------------------------------------------------
(* Types.                                                                  *)

\* The constants are numbers, in the order that the code has them in.
LEMMA Constants ==
  /\ WarpSize \in Nat /\ MaxLiteral \in Nat /\ MaxCopy \in Nat
  /\ MaxDistance \in Nat /\ Window \in Nat /\ Buckets \in Nat
  /\ 1 <= WarpSize /\ WarpSize <= MaxLiteral /\ MaxLiteral <= 256
  /\ 4 <= MaxCopy /\ MaxCopy <= 64
  /\ WarpSize <= MaxDistance /\ MaxDistance < 65536 /\ MaxDistance <= Window
  /\ 1 <= Window /\ 1 <= Buckets
<1>1. {WarpSize, MaxLiteral, MaxCopy, MaxDistance, Window, Buckets}
        \subseteq Nat \ {0}
  BY SnapAssumption
<1>2. /\ WarpSize \in Nat \ {0} /\ MaxLiteral \in Nat \ {0} /\ MaxCopy \in Nat \ {0}
      /\ MaxDistance \in Nat \ {0} /\ Window \in Nat \ {0}
      /\ Buckets \in Nat \ {0}
  BY <1>1
<1>3. \A n \in Nat \ {0} : n \in Nat /\ 1 <= n
  OBVIOUS
<1>4. QED
  BY <1>2, <1>3, SnapAssumption DEF MinMatch

\* What the type invariant says of the variables that the proofs compute with.
LEMMA Types ==
  ASSUME TypeOK
  PROVE  /\ src \in Sources /\ src \in Seq(Byte) /\ SrcLen \in Nat /\ end \in Nat
         /\ dst \in Seq(Byte \cup {Unwritten}) /\ Len(dst) \in Nat
         /\ literal_length \in Nat /\ literal_length <= MaxLiteral
         /\ copy_length \in Nat /\ copy_length \in {0} \cup MinMatch .. MaxCopy
         /\ copy_distance \in Nat /\ copy_distance <= MaxDistance
         /\ warp0.pos \in Nat /\ warp0.pos <= SrcLen
         /\ warp0.lit \in Nat /\ warp0.copy \in Nat /\ warp0.dist \in Nat
         /\ warp1.pos \in Nat /\ warp1.pos <= SrcLen
         /\ warp1.lit \in Nat /\ warp1.copy \in Nat /\ warp1.at \in Nat
         /\ MinMatch = 4
<1>1. /\ src \in Sources /\ end \in Nat /\ dst \in Seq(Byte \cup {Unwritten})
      /\ literal_length \in 0 .. MaxLiteral
      /\ copy_length \in {0} \cup MinMatch .. MaxCopy
      /\ copy_distance \in 0 .. MaxDistance
      /\ warp0 \in [pc : Labels, pos : 0 .. SrcLen, lit : Nat, copy : Nat,
                    dist : Nat]
      /\ warp1 \in [pc : Labels, pos : 0 .. SrcLen, lit : Nat, copy : Nat,
                    at : Nat]
  BY DEF TypeOK
<1>2. src \in Seq(Byte) /\ SrcLen \in Nat
  BY <1>1, SnapAssumption DEF SrcLen
<1>3. /\ warp0.pos \in 0 .. SrcLen /\ warp0.lit \in Nat /\ warp0.copy \in Nat
      /\ warp0.dist \in Nat
  BY <1>1
<1>4. /\ warp1.pos \in 0 .. SrcLen /\ warp1.lit \in Nat /\ warp1.copy \in Nat
      /\ warp1.at \in Nat
  BY <1>1
<1>5. copy_length \in Nat /\ MinMatch = 4
  BY <1>1, Constants DEF MinMatch
<1>6. \A x, n \in Nat : x \in 0 .. n => x <= n
  OBVIOUS
<1>7. \A n \in Nat : \A x \in 0 .. n : x \in Nat /\ x <= n
  OBVIOUS
<1>8. QED
  BY <1>1, <1>2, <1>3, <1>4, <1>5, <1>7, Constants

-----------------------------------------------------------------------------
(* The search of warp 1.                                                   *)

\* The four bytes at a position.
LEMMA BlockBytes ==
  ASSUME TypeOK, NEW p, p \in Nat, p + 4 <= SrcLen
  PROVE  /\ \A k \in 1 .. 4 : Block(p)[k] = src[p + k]
         /\ Hash(Block(p)) \in 0 .. Buckets - 1
<1>1. src \in Seq(Byte) /\ SrcLen \in Nat /\ src \in Sources
  BY Types
<1>2. p + 1 \in 1 .. Len(src) - 3 /\ p + MinMatch = (p + 1) + 3
  BY <1>1 DEF MinMatch, SrcLen
<1>3. PICK q : q = p + 1
  OBVIOUS
<1>4. Block(p) = SubSeq(src, q, q + 3)
  BY <1>2, <1>3 DEF Block
<1>5. Hash(SubSeq(src, q, q + 3)) \in 0 .. Buckets - 1
  <2>1. \A i \in 1 .. Len(src) - 3 : Hash(SubSeq(src, i, i + 3)) \in 0 .. Buckets - 1
    <3>1. \A s \in Sources : \A i \in 1 .. Len(s) - 3 :
            Hash(SubSeq(s, i, i + 3)) \in 0 .. Buckets - 1
      BY ONLY SnapAssumption
    <3>2. QED
      BY ONLY <1>1, <3>1
  <2>2. q \in 1 .. Len(src) - 3
    BY <1>2, <1>3
  <2>3. QED
    BY ONLY <2>1, <2>2, Zenon
<1>6. \A k \in 1 .. 4 : SubSeq(src, q, q + 3)[k] = src[q + k - 1]
  BY <1>1, <1>2, <1>3
<1>7. \A k \in 1 .. 4 : q + k - 1 = p + k
  BY <1>3
<1>8. QED
  BY <1>4, <1>5, <1>6, <1>7

\* Where two blocks are equal, the bytes repeat.
LEMMA BlocksEqual ==
  ASSUME TypeOK, NEW p, p \in Nat, p + 4 <= SrcLen,
         NEW o, o \in Nat, o < p, Block(o) = Block(p)
  PROVE  /\ p - o \in Nat /\ 1 <= p - o /\ p - o <= p
         /\ \A k \in 1 .. 4 : src[p + k] = src[p + k - (p - o)]
<1>1. SrcLen \in Nat
  BY Types
<1>2. o + 4 <= SrcLen
  BY <1>1
<1>3. ASSUME NEW k \in 1 .. 4 PROVE src[p + k] = src[p + k - (p - o)]
  <2>1. src[o + k] = src[p + k]
    BY <1>2, BlockBytes
  <2>2. p + k - (p - o) = o + k
    OBVIOUS
  <2>3. QED
    BY <2>1, <2>2
<1>4. QED
  BY <1>3

\* The table leads a lane to a position of the input.
LEMMA TableOffset ==
  ASSUME TypeOK, NEW t, t \in Lanes
  PROVE  TablePosition(t) \in Nat
<1>1. hash_map \in [0 .. Buckets - 1 -> 0 .. Window - 1]
  BY DEF TypeOK
<1>2. warp1.at \in Nat /\ Window \in Nat /\ Buckets \in Nat /\ 1 <= Buckets
        /\ 1 <= Window
  BY Types, Constants
<1>3. Bucket(t) \in 0 .. Buckets - 1
  <2>1. CASE Valid(t)
    <3>1. warp1.at + t \in Nat /\ (warp1.at + t) + 4 <= SrcLen
      BY <1>2, <2>1, Constants DEF Lanes, Valid, MinMatch
    <3>2. QED
      BY <2>1, <3>1, BlockBytes DEF Bucket, Data
  <2>2. CASE ~Valid(t)
    BY <1>2, <2>2 DEF Bucket
  <2>3. QED
    BY <2>1, <2>2
<1>4. PICK h \in Nat : h = hash_map[Bucket(t)]
  BY <1>1, <1>2, <1>3
<1>5. PICK q \in Nat : q = warp1.at \div Window
  BY <1>2
<1>6. PICK r \in Nat : r = q * Window
  BY <1>2, <1>5
<1>7. QED
  BY <1>2, <1>4, <1>5, <1>6 DEF TablePosition

\* What a lane reports as a match repeats the bytes before it, from no further
\* back than a copy can reach.
LEMMA MatchIsCopy ==
  ASSUME TypeOK, NEW t, t \in Lanes, Match(t)
  PROVE  LET p == warp1.at + t
             d == p - Offset(t)
         IN  /\ p \in Nat /\ p + 4 <= SrcLen /\ Offset(t) \in Nat
             /\ d \in Nat /\ 1 <= d /\ d <= p /\ d <= MaxDistance
             /\ \A k \in 1 .. 4 : src[p + k] = src[p + k - d]
<1>. DEFINE p == warp1.at + t
<1>1. t \in Nat /\ t < WarpSize /\ WarpSize \in Nat /\ WarpSize <= MaxDistance
        /\ MaxDistance \in Nat /\ warp1.at \in Nat /\ SrcLen \in Nat
  BY Types, Constants DEF Lanes
<1>2. p \in Nat /\ p + 4 <= SrcLen /\ Data(t) = Block(p) /\ Valid(t)
  BY <1>1 DEF Match, Valid, Data, MinMatch
<1>3. SUFFICES /\ Offset(t) \in Nat /\ Offset(t) < p
               /\ p - Offset(t) <= MaxDistance
               /\ Block(Offset(t)) = Block(p)
  BY <1>2, <1>3, BlocksEqual
<1>4. CASE LocalMatch(t)
  <2>1. PICK u \in Lanes : LastPeer(t, u) /\ Data(u) = Data(t)
    BY <1>4 DEF LocalMatch
  <2>2. PICK v \in Lanes : LastPeer(t, v) /\ v = CHOOSE w \in Lanes : LastPeer(t, w)
    BY <2>1
  <2>3. u \in Nat /\ v \in Nat /\ u < t /\ v < t
    BY <2>1, <2>2, <1>1 DEF Lanes, LastPeer
  <2>4. u = v
    <3>1. ~(u < v) /\ ~(v < u)
      BY <2>1, <2>2, <2>3 DEF LastPeer
    <3>2. QED
      BY <2>3, <3>1
  <2>5. Offset(t) = warp1.at + u
    BY <1>4, <2>2, <2>4 DEF Offset
  <2>6. Valid(u)
    BY <1>1, <1>2, <2>3 DEF Valid, MinMatch
  <2>7. Block(warp1.at + u) = Block(p)
    BY <1>2, <2>1, <2>6 DEF Data
  <2>8. QED
    BY <1>1, <2>3, <2>5, <2>7
<1>5. CASE ~LocalMatch(t)
  <2>1. Offset(t) \in Nat
    BY <1>5, TableOffset DEF Offset
  <2>2. Offset(t) < warp1.at /\ Offset(t) + MaxDistance >= p
          /\ Block(Offset(t)) = Data(t)
    BY <1>5 DEF Match
  <2>3. QED
    BY <1>1, <1>2, <2>1, <2>2
<1>6. QED
  BY <1>4, <1>5

\* The positions that enter the table are kept modulo the window.
LEMMA TableType ==
  ASSUME TypeOK, NEW mask
  PROVE  Entered(mask) \in [0 .. Buckets - 1 -> 0 .. Window - 1]
<1>1. hash_map \in [0 .. Buckets - 1 -> 0 .. Window - 1]
  BY DEF TypeOK
<1>2. warp1.at \in Nat /\ Window \in Nat /\ 1 <= Window
  BY Types, Constants
<1>3. \A t \in Lanes : t \in Nat
  BY Constants DEF Lanes
<1>4. \A n, w \in Nat : 1 <= w => n % w \in 0 .. w - 1
  OBVIOUS
<1>5. ASSUME NEW b, b \in 0 .. Buckets - 1
      PROVE  Entered(mask)[b] \in 0 .. Window - 1
  <2>1. CASE \E t \in Lanes : Newest(t, mask) /\ Bucket(t) = b
    <3>1. PICK t \in Lanes :
            t = CHOOSE u \in Lanes : Newest(u, mask) /\ Bucket(u) = b
      BY <2>1
    <3>2. PICK n \in Nat : n = warp1.at + t
      BY <1>2, <1>3
    <3>3. Entered(mask)[b] = n % Window
      BY <1>1, <1>5, <2>1, <3>1, <3>2 DEF Entered
    <3>4. QED
      BY <1>2, <1>4, <3>3
  <2>2. CASE ~\E t \in Lanes : Newest(t, mask) /\ Bucket(t) = b
    BY <1>1, <1>5, <2>2 DEF Entered
  <2>3. QED
    BY <2>1, <2>2
<1>6. Entered(mask) = [b \in 0 .. Buckets - 1 |-> Entered(mask)[b]]
  BY <1>1 DEF Entered
<1>7. QED
  BY <1>5, <1>6

\* A match goes on for some length, and all of it repeats.
LEMMA MatchLengthIs ==
  ASSUME NEW p, p \in Nat, NEW dist, dist \in Nat, NEW n, n \in Nat
  PROVE  /\ MatchLength(p, dist, n) \in 0 .. n
         /\ \A i \in 1 .. MatchLength(p, dist, n) : src[p + i] = src[p + i - dist]
<1>. DEFINE Ends(k) == k < n => src[p + k + 1] # src[p + k + 1 - dist]
            T == {k \in 0 .. n : Ends(k)}
<1>1. n \in T /\ T \subseteq Nat
  OBVIOUS
<1>2. PICK k \in T : \A j \in T : k <= j
  BY <1>1, LeastMember
<1>3. k \in 0 .. n /\ Ends(k)
  OBVIOUS
<1>4. ASSUME NEW i \in 1 .. k PROVE src[p + i] = src[p + i - dist]
  <2>1. PICK j : j = i - 1
    OBVIOUS
  <2>2. j \in 0 .. n /\ j < k /\ j < n /\ p + j + 1 = p + i
    BY <1>3, <2>1
  <2>3. ~Ends(j)
    BY <1>2, <1>3, <2>2
  <2>4. QED
    BY <2>2, <2>3
<1>5. QED
  BY <1>3, <1>4 DEF MatchLength
-----------------------------------------------------------------------------
(* The steps of the two warps that write nothing.                          *)

\* Whoever leaves the output and the position of warp 0 alone leaves the
\* excess as it is.
LEMMA ExcessStays ==
  ASSUME Excess, UNCHANGED <<src, dst>>, warp0'.pos = warp0.pos
  PROVE  Excess'
BY DEF Excess, SrcLen

\* A symbol depends on the input only, and the one found on the shared words.
LEMMA FoundStays ==
  ASSUME Found, UNCHANGED <<src, literal_length, copy_length, copy_distance>>,
         warp1'.pos = warp1.pos
  PROVE  Found'
BY DEF Found, Symbol, SrcLen

\* The loop condition and the reads of warp 0.
LEMMA Fetch0Keeps ==
  ASSUME IInv, Fetch0
  PROVE  IInv'
<1>1. /\ warp0.pc = "test" /\ UNCHANGED <<src, end, dst, words, warp1, status>>
      /\ warp0' = IF warp0.pos < SrcLen
                  THEN [warp0 EXCEPT !.pc = "read", !.lit = literal_length,
                                     !.copy = copy_length, !.dist = copy_distance]
                  ELSE [warp0 EXCEPT !.pc = "end"]
  BY DEF Fetch0
<1>2. TypeOK /\ Excess /\ Reported /\ Together
  BY <1>1 DEF IInv, Apart
<1>3. /\ literal_length \in Nat /\ copy_length \in Nat /\ copy_distance \in Nat
      /\ warp0.pos \in Nat /\ SrcLen \in Nat /\ warp0.pos <= SrcLen
  BY <1>2, Types
<1>4. warp0 \in [pc : Labels, pos : 0 .. SrcLen, lit : Nat, copy : Nat, dist : Nat]
  BY <1>2 DEF TypeOK
<1>5. /\ warp0' \in [pc : Labels, pos : 0 .. SrcLen, lit : Nat, copy : Nat, dist : Nat]
      /\ warp0'.pos = warp0.pos
      /\ warp0.pos < SrcLen => /\ warp0'.pc = "read" /\ warp0'.lit = literal_length
                               /\ warp0'.copy = copy_length
                               /\ warp0'.dist = copy_distance
      /\ ~(warp0.pos < SrcLen) => warp0'.pc = "end"
  BY <1>1, <1>3, <1>4 DEF Labels
<1>6. UNCHANGED <<src, end, dst, literal_length, copy_length, copy_distance,
                  hash_map, warp1, status>>
  BY <1>1 DEF words
<1>7. TypeOK'
  BY <1>2, <1>5, <1>6 DEF TypeOK, SrcLen
<1>8. Together'
  <2>1. Found'
    BY <1>2, <1>6, FoundStays DEF Together
  <2>2. SrcLen' = SrcLen /\ (~(warp0.pos < SrcLen) => warp0.pos = SrcLen)
    BY <1>3, <1>6 DEF SrcLen
  <2>3. QED
    BY <1>1, <1>2, <1>3, <1>5, <1>6, <2>1, <2>2 DEF Together
<1>9. Excess'
  BY <1>2, <1>5, <1>6, ExcessStays
<1>10. Reported'
  BY <1>1, <1>2, <1>6 DEF Reported
<1>11. QED
  BY <1>7, <1>8, <1>9, <1>10 DEF IInv

\* The same of warp 1.
LEMMA Fetch1Keeps ==
  ASSUME IInv, Fetch1
  PROVE  IInv'
<1>1. /\ warp1.pc = "test" /\ UNCHANGED <<src, end, dst, words, warp0, status>>
      /\ warp1' = IF warp1.pos < SrcLen
                  THEN [warp1 EXCEPT !.pc = "read", !.lit = literal_length,
                                     !.copy = copy_length]
                  ELSE [warp1 EXCEPT !.pc = "end"]
  BY DEF Fetch1
<1>2. TypeOK /\ Excess /\ Reported /\ Together
  BY <1>1 DEF IInv, Apart
<1>3. /\ literal_length \in Nat /\ copy_length \in Nat /\ copy_distance \in Nat
      /\ warp1.pos \in Nat /\ SrcLen \in Nat /\ warp1.pos <= SrcLen
  BY <1>2, Types
<1>4. warp1 \in [pc : Labels, pos : 0 .. SrcLen, lit : Nat, copy : Nat, at : Nat]
  BY <1>2 DEF TypeOK
<1>5. /\ warp1' \in [pc : Labels, pos : 0 .. SrcLen, lit : Nat, copy : Nat, at : Nat]
      /\ warp1'.pos = warp1.pos
      /\ warp1.pos < SrcLen => /\ warp1'.pc = "read" /\ warp1'.lit = literal_length
                               /\ warp1'.copy = copy_length
      /\ ~(warp1.pos < SrcLen) => warp1'.pc = "end"
  BY <1>1, <1>3, <1>4 DEF Labels
<1>6. UNCHANGED <<src, end, dst, literal_length, copy_length, copy_distance,
                  hash_map, warp0, status>>
  BY <1>1 DEF words
<1>7. TypeOK'
  BY <1>2, <1>5, <1>6 DEF TypeOK, SrcLen
<1>8. Together'
  <2>1. Found'
    BY <1>2, <1>5, <1>6, FoundStays DEF Together
  <2>2. SrcLen' = SrcLen /\ (~(warp1.pos < SrcLen) => warp1.pos = SrcLen)
          /\ warp0.pos = warp1.pos
    BY <1>2, <1>3, <1>6 DEF SrcLen, Together
  <2>3. QED
    BY <1>1, <1>2, <1>3, <1>5, <1>6, <2>1, <2>2 DEF Together
<1>9. Excess'
  BY <1>2, <1>6, ExcessStays
<1>10. Reported'
  BY <1>1, <1>2, <1>6 DEF Reported
<1>11. QED
  BY <1>7, <1>8, <1>9, <1>10 DEF IInv

\* A barrier: only the labels change.
LEMMA SyncLabels ==
  ASSUME TypeOK, NEW from, NEW to, to \in Labels, Sync(from, to),
         UNCHANGED <<src, end, dst, words, status>>
  PROVE  /\ TypeOK'
         /\ warp0.pc = from /\ warp1.pc = from /\ warp0'.pc = to /\ warp1'.pc = to
         /\ warp0'.pos = warp0.pos /\ warp0'.lit = warp0.lit
         /\ warp0'.copy = warp0.copy /\ warp0'.dist = warp0.dist
         /\ warp1'.pos = warp1.pos /\ warp1'.lit = warp1.lit
         /\ warp1'.copy = warp1.copy
         /\ SrcLen' = SrcLen
         /\ UNCHANGED <<src, end, dst, literal_length, copy_length, copy_distance,
                        hash_map, status>>
<1>1. /\ warp0 \in [pc : Labels, pos : 0 .. SrcLen, lit : Nat, copy : Nat, dist : Nat]
      /\ warp1 \in [pc : Labels, pos : 0 .. SrcLen, lit : Nat, copy : Nat, at : Nat]
  BY DEF TypeOK
<1>2. /\ warp0' = [warp0 EXCEPT !.pc = to] /\ warp1' = [warp1 EXCEPT !.pc = to]
      /\ warp0.pc = from /\ warp1.pc = from
  BY DEF Sync
<1>3. /\ warp0' \in [pc : Labels, pos : 0 .. SrcLen, lit : Nat, copy : Nat, dist : Nat]
      /\ warp1' \in [pc : Labels, pos : 0 .. SrcLen, lit : Nat, copy : Nat, at : Nat]
  BY <1>1, <1>2
<1>4. UNCHANGED <<src, end, dst, literal_length, copy_length, copy_distance,
                  hash_map, status>>
  BY DEF words
<1>5. TypeOK' /\ SrcLen' = SrcLen
  BY <1>3, <1>4 DEF TypeOK, SrcLen
<1>6. QED
  BY <1>1, <1>2, <1>4, <1>5

\* The barrier behind the reads: both warps have the symbol to work behind.
LEMMA AllReadKeeps ==
  ASSUME IInv, AllRead
  PROVE  IInv'
<1>1. Sync("read", "work") /\ UNCHANGED <<src, end, dst, words, status>>
  BY DEF AllRead
<1>2. warp0.pc = "read" /\ warp1.pc = "read"
  BY <1>1 DEF Sync
<1>3. TypeOK /\ Excess /\ Reported /\ Together
  BY <1>2 DEF IInv, Apart
<1>4. "work" \in Labels
  BY DEF Labels
<1>5. /\ TypeOK' /\ warp0'.pc = "work" /\ warp1'.pc = "work"
      /\ warp0'.pos = warp0.pos /\ warp0'.lit = warp0.lit
      /\ warp0'.copy = warp0.copy /\ warp0'.dist = warp0.dist
      /\ warp1'.pos = warp1.pos /\ warp1'.lit = warp1.lit
      /\ warp1'.copy = warp1.copy /\ SrcLen' = SrcLen
      /\ UNCHANGED <<src, end, dst, literal_length, copy_length, copy_distance,
                     hash_map, status>>
  BY <1>1, <1>3, <1>4, SyncLabels
<1>6. Apart'
  <2>1. /\ warp0.pos = warp1.pos /\ warp0.pos < SrcLen
        /\ warp0.lit = literal_length /\ warp0.copy = copy_length
        /\ warp0.dist = copy_distance
        /\ warp1.lit = literal_length /\ warp1.copy = copy_length
    BY <1>2, <1>3 DEF Together
  <2>2. Symbol(warp0.pos, warp0.lit, warp0.copy, warp0.dist)
    BY <1>3, <2>1 DEF Together, Found
  <2>3. Symbol(warp0.pos, warp0.lit, warp0.copy, warp0.dist)'
    BY <1>5, <2>2 DEF Symbol, SrcLen
  <2>4. /\ literal_length <= MaxLiteral /\ copy_distance <= MaxDistance
        /\ copy_length \in {0} \cup MinMatch .. MaxCopy
    BY <1>3, Types
  <2>5. Behind(warp0)' = Behind(warp1)'
    BY <1>5, <2>1 DEF Behind
  <2>6. QED
    BY <1>5, <2>1, <2>3, <2>4, <2>5 DEF Apart
<1>7. Excess'
  BY <1>3, <1>5, ExcessStays
<1>8. Reported'
  BY <1>2, <1>3, <1>5 DEF Reported
<1>9. QED
  BY <1>5, <1>6, <1>7, <1>8 DEF IInv

\* The barrier at the end of a round: the warps meet where warp 1 began.
LEMMA AllWrittenKeeps ==
  ASSUME IInv, AllWritten
  PROVE  IInv'
<1>1. Sync("written", "test") /\ UNCHANGED <<src, end, dst, words, status>>
  BY DEF AllWritten
<1>2. warp0.pc = "written" /\ warp1.pc = "written"
  BY <1>1 DEF Sync
<1>3. TypeOK /\ Excess /\ Reported /\ Apart
  BY <1>2 DEF IInv, Together
<1>4. "test" \in Labels
  BY DEF Labels
<1>5. /\ TypeOK' /\ warp0'.pc = "test" /\ warp1'.pc = "test"
      /\ warp0'.pos = warp0.pos /\ warp1'.pos = warp1.pos /\ SrcLen' = SrcLen
      /\ UNCHANGED <<src, end, dst, literal_length, copy_length, copy_distance,
                     hash_map, status>>
  BY <1>1, <1>3, <1>4, SyncLabels
<1>6. Together'
  <2>1. warp0.pos = warp1.pos /\ Found
    BY <1>2, <1>3 DEF Apart, Behind
  <2>2. Found'
    BY <1>5, <2>1, FoundStays
  <2>3. QED
    BY <1>5, <2>1, <2>2 DEF Together
<1>7. Excess'
  BY <1>3, <1>5, ExcessStays
<1>8. Reported'
  BY <1>2, <1>3, <1>5 DEF Reported
<1>9. QED
  BY <1>5, <1>6, <1>7, <1>8 DEF IInv
-----------------------------------------------------------------------------
(* Warp 1 at work.                                                         *)

\* Warp 1 moves behind the symbol that warp 0 writes.
LEMMA StartSearchKeeps ==
  ASSUME IInv, StartSearch
  PROVE  IInv'
<1>. DEFINE pos == warp1.pos + warp1.lit + warp1.copy
<1>1. /\ warp1.pc = "work"
      /\ warp1' = [warp1 EXCEPT !.pc = "search", !.pos = pos, !.at = pos]
      /\ copy_length' = 0
      /\ UNCHANGED <<src, end, dst, literal_length, copy_distance, hash_map,
                     warp0, status>>
  BY DEF StartSearch
<1>2. TypeOK /\ Excess /\ Reported /\ Apart
  BY <1>1 DEF IInv, Together
<1>3. /\ warp0.pos \in Nat /\ warp0.pos <= SrcLen /\ SrcLen \in Nat
      /\ warp0.lit \in Nat /\ warp0.copy \in Nat
      /\ warp1.pos \in Nat /\ warp1.lit \in Nat /\ warp1.copy \in Nat
  BY <1>2, Types
<1>4. pos = Behind(warp0)
  BY <1>1, <1>2 DEF Apart, Behind
<1>5. pos <= SrcLen /\ pos \in Nat
  BY <1>2, <1>3, <1>4 DEF Apart, Behind, Symbol
<1>6. warp1 \in [pc : Labels, pos : 0 .. SrcLen, lit : Nat, copy : Nat, at : Nat]
  BY <1>2 DEF TypeOK
<1>7. /\ warp1' \in [pc : Labels, pos : 0 .. SrcLen, lit : Nat, copy : Nat, at : Nat]
      /\ warp1'.pc = "search" /\ warp1'.pos = pos /\ warp1'.at = pos
  <2>1. pos \in 0 .. SrcLen
    BY <1>3, <1>5
  <2>. HIDE DEF pos
  <2>2. QED
    BY <1>1, <1>5, <1>6, <2>1 DEF Labels
<1>8. TypeOK'
  BY <1>1, <1>2, <1>7 DEF TypeOK, SrcLen
<1>9. Apart'
  <2>1. Behind(warp0)' = Behind(warp1)'
    BY <1>1, <1>4, <1>7 DEF Behind
  <2>2. warp0.pc = "work" => Symbol(warp0.pos, warp0.lit, warp0.copy, warp0.dist)'
    BY <1>1, <1>2 DEF Apart, Symbol, SrcLen
  <2>3. SearchesOn(warp1.at)'
    BY <1>5, <1>7, Constants DEF SearchesOn
  <2>4. SrcLen' = SrcLen
    BY <1>1 DEF SrcLen
  <2>5. warp1'.pos <= warp1'.at
    BY <1>5, <1>7
  <2>6. QED
    BY <1>1, <1>2, <1>7, <2>1, <2>2, <2>3, <2>4, <2>5 DEF Apart
<1>10. Excess'
  BY <1>1, <1>2, ExcessStays
<1>11. Reported'
  BY <1>1, <1>2, <1>7 DEF Reported
<1>12. QED
  BY <1>8, <1>9, <1>10, <1>11 DEF IInv

\* What a look of the lanes leaves in shared memory.
LEMMA SearchFinds ==
  ASSUME TypeOK, warp1.pc = "search", copy_length = 0, warp1.pos <= warp1.at,
         SearchesOn(warp1.at), Search
  PROVE  /\ copy_length' \in {0, MinMatch} /\ copy_distance' \in 0 .. MaxDistance
         /\ literal_length' \in 0 .. MaxLiteral
         /\ hash_map' \in [0 .. Buckets - 1 -> 0 .. Window - 1]
         /\ warp1'.pos = warp1.pos /\ warp1'.at \in Nat
         /\ warp1' \in [pc : Labels, pos : 0 .. SrcLen, lit : Nat, copy : Nat, at : Nat]
         /\ \/ /\ warp1'.pc = "search" /\ copy_length' = 0
               /\ warp1'.pos <= warp1'.at /\ SearchesOn(warp1.at)'
            \/ /\ warp1'.pc = "extend"
               /\ Symbol(warp1.pos, literal_length', copy_length', copy_distance')
<1>1. PICK count \in 0 .. WarpSize :
       /\ FirstMatch(count)
       /\ \E mask \in UpdateMasks(count) : hash_map' = Entered(mask)
       /\ IF count < WarpSize
          THEN /\ copy_length' = MinMatch
               /\ copy_distance' = warp1.at + count - Offset(count)
          ELSE UNCHANGED <<copy_length, copy_distance>>
       /\ IF count = WarpSize /\ SearchesOn(Moved(count))
          THEN /\ warp1' = [warp1 EXCEPT !.at = Moved(count)]
               /\ UNCHANGED literal_length
          ELSE /\ warp1' = [warp1 EXCEPT !.pc = "extend", !.at = Moved(count)]
               /\ literal_length' = Least(Moved(count), SrcLen) - warp1.pos
  BY DEF Search
<1>2. /\ literal_length \in Nat /\ literal_length <= MaxLiteral
      /\ copy_distance \in Nat /\ copy_distance <= MaxDistance
      /\ warp1.pos \in Nat /\ warp1.pos <= SrcLen /\ SrcLen \in Nat
      /\ warp1.at \in Nat /\ MinMatch = 4
      /\ WarpSize \in Nat /\ 1 <= WarpSize /\ WarpSize <= MaxLiteral
      /\ MaxLiteral \in Nat /\ MaxDistance \in Nat
  BY Types, Constants
<1>3. warp1 \in [pc : Labels, pos : 0 .. SrcLen, lit : Nat, copy : Nat, at : Nat]
  BY DEF TypeOK
<1>4. hash_map' \in [0 .. Buckets - 1 -> 0 .. Window - 1]
  BY <1>1, TableType
<1>5. PICK m \in Nat : m = Moved(count) /\ m = warp1.at + count
  BY <1>2 DEF Moved
<1>6. warp1.at < warp1.pos + MaxLiteral - (WarpSize - 1)
  BY DEF SearchesOn
<1>7. m <= warp1.pos + MaxLiteral /\ warp1.pos <= m
  BY <1>2, <1>5, <1>6
<1>8. CASE count < WarpSize
  <2>1. count \in Lanes /\ Match(count)
    BY <1>1, <1>2, <1>8 DEF Lanes, FirstMatch
  <2>2. PICK d \in Nat : d = m - Offset(count)
    BY <1>5, <2>1, MatchIsCopy
  <2>3. /\ m + 4 <= SrcLen /\ 1 <= d /\ d <= m /\ d <= MaxDistance
        /\ \A k \in 1 .. 4 : src[m + k] = src[m + k - d]
    BY <1>5, <2>1, <2>2, MatchIsCopy
  <2>4. copy_length' = 4 /\ copy_distance' = d
    <3>1. copy_length' = MinMatch /\ copy_distance' = warp1.at + count - Offset(count)
      BY <1>1, <1>8
    <3>2. PICK o \in Nat : o = Offset(count)
      BY <2>1, MatchIsCopy
    <3>3. d = m - o /\ copy_distance' = warp1.at + count - o
      BY <2>2, <3>1, <3>2
    <3>4. QED
      BY <1>2, <1>5, <3>1, <3>3
  <2>5. /\ warp1' = [warp1 EXCEPT !.pc = "extend", !.at = m]
        /\ literal_length' = Least(m, SrcLen) - warp1.pos
    BY <1>1, <1>2, <1>5, <1>8
  <2>6. PICK l \in Nat : l = m - warp1.pos
    BY <1>2, <1>7
  <2>7. literal_length' = l /\ l <= MaxLiteral /\ warp1.pos + l = m
    BY <1>2, <1>7, <2>3, <2>5, <2>6 DEF Least
  <2>8. Symbol(warp1.pos, literal_length', copy_length', copy_distance')
    BY <1>2, <2>3, <2>4, <2>7 DEF Symbol
  <2>9. /\ warp1' \in [pc : Labels, pos : 0 .. SrcLen, lit : Nat, copy : Nat, at : Nat]
        /\ warp1'.pc = "extend" /\ warp1'.pos = warp1.pos /\ warp1'.at = m
    BY <1>3, <2>5 DEF Labels
  <2>10. QED
    BY <1>2, <1>4, <2>3, <2>4, <2>7, <2>8, <2>9
<1>9. CASE ~(count < WarpSize) /\ SearchesOn(m)
  <2>1. count = WarpSize
    BY <1>2, <1>9
  <2>2. warp1' = [warp1 EXCEPT !.at = m] /\ UNCHANGED literal_length
          /\ UNCHANGED <<copy_length, copy_distance>>
    BY <1>1, <1>5, <1>9, <2>1
  <2>3. /\ warp1' \in [pc : Labels, pos : 0 .. SrcLen, lit : Nat, copy : Nat, at : Nat]
        /\ warp1'.pc = "search" /\ warp1'.pos = warp1.pos /\ warp1'.at = m
    BY <1>3, <2>2
  <2>4. SearchesOn(warp1.at)'
    BY <1>9, <2>3 DEF SearchesOn
  <2>5. QED
    BY <1>2, <1>4, <1>7, <2>2, <2>3, <2>4
<1>10. CASE ~(count < WarpSize) /\ ~SearchesOn(m)
  <2>1. count = WarpSize
    BY <1>2, <1>10
  <2>2. /\ warp1' = [warp1 EXCEPT !.pc = "extend", !.at = m]
        /\ literal_length' = Least(m, SrcLen) - warp1.pos
        /\ UNCHANGED <<copy_length, copy_distance>>
    BY <1>1, <1>2, <1>5, <1>10, <2>1
  <2>3. /\ warp1' \in [pc : Labels, pos : 0 .. SrcLen, lit : Nat, copy : Nat, at : Nat]
        /\ warp1'.pc = "extend" /\ warp1'.pos = warp1.pos /\ warp1'.at = m
    BY <1>3, <2>2 DEF Labels
  <2>4. PICK l \in Nat : l = Least(m, SrcLen) - warp1.pos
    BY <1>2, <1>7 DEF Least
  <2>5. /\ l <= MaxLiteral /\ warp1.pos + l <= SrcLen
        /\ l > MaxLiteral - WarpSize \/ warp1.pos + l = SrcLen
    <3>1. m >= warp1.pos + MaxLiteral - (WarpSize - 1)
      BY <1>2, <1>10 DEF SearchesOn
    <3>2. CASE m <= SrcLen
      <4>1. l = m - warp1.pos
        BY <2>4, <3>2 DEF Least
      <4>2. QED
        BY <1>2, <1>7, <3>1, <3>2, <4>1
    <3>3. CASE ~(m <= SrcLen)
      <4>1. l = SrcLen - warp1.pos
        BY <2>4, <3>3 DEF Least
      <4>2. QED
        BY <1>2, <1>7, <3>3, <4>1
    <3>4. QED
      BY <3>2, <3>3
  <2>6. Symbol(warp1.pos, l, 0, copy_distance)
    BY <1>2, <2>5 DEF Symbol
  <2>7. l \in 0 .. MaxLiteral
    BY <1>2, <2>5
  <2>8. QED
    BY <1>2, <1>4, <1>7, <2>2, <2>3, <2>4, <2>6, <2>7
<1>11. QED
  BY <1>5, <1>8, <1>9, <1>10

\* A look of the lanes.
LEMMA SearchKeeps ==
  ASSUME IInv, Search
  PROVE  IInv'
<1>1. /\ warp1.pc = "search"
      /\ UNCHANGED <<src, end, dst, warp0, status>>
  BY DEF Search
<1>2. TypeOK /\ Excess /\ Reported /\ Apart
  BY <1>1 DEF IInv, Together
<1>3. copy_length = 0 /\ warp1.pos <= warp1.at /\ SearchesOn(warp1.at)
  BY <1>1, <1>2 DEF Apart
<1>4. /\ copy_length' \in {0, MinMatch} /\ copy_distance' \in 0 .. MaxDistance
      /\ literal_length' \in 0 .. MaxLiteral
      /\ hash_map' \in [0 .. Buckets - 1 -> 0 .. Window - 1]
      /\ warp1'.pos = warp1.pos
      /\ warp1' \in [pc : Labels, pos : 0 .. SrcLen, lit : Nat, copy : Nat, at : Nat]
      /\ \/ /\ warp1'.pc = "search" /\ copy_length' = 0
            /\ warp1'.pos <= warp1'.at /\ SearchesOn(warp1.at)'
         \/ /\ warp1'.pc = "extend"
            /\ Symbol(warp1.pos, literal_length', copy_length', copy_distance')
  BY <1>1, <1>2, <1>3, SearchFinds
<1>5. SrcLen' = SrcLen
  BY <1>1 DEF SrcLen
<1>6. copy_length' \in {0} \cup MinMatch .. MaxCopy
  BY <1>4, Constants DEF MinMatch
<1>7. TypeOK'
  BY <1>1, <1>2, <1>4, <1>5, <1>6 DEF TypeOK
<1>8. Apart'
  <2>1. Behind(warp0)' = Behind(warp1)'
    BY <1>1, <1>2, <1>4 DEF Apart, Behind
  <2>2. warp0.pc = "work" => Symbol(warp0.pos, warp0.lit, warp0.copy, warp0.dist)'
    BY <1>1, <1>2 DEF Apart, Symbol, SrcLen
  <2>3. warp1'.pc = "extend" => Found'
    BY <1>1, <1>4, <1>5 DEF Found, Symbol
  <2>4. QED
    BY <1>1, <1>2, <1>4, <1>5, <2>1, <2>2, <2>3 DEF Apart
<1>9. Excess'
  BY <1>1, <1>2, ExcessStays
<1>10. Reported'
  BY <1>1, <1>2, <1>4 DEF Reported
<1>11. QED
  BY <1>7, <1>8, <1>9, <1>10 DEF IInv
\* The match is extended.
LEMMA ExtendKeeps ==
  ASSUME IInv, Extend
  PROVE  IInv'
<1>. DEFINE p == warp1.pos + literal_length + MinMatch
            n == Least(SrcLen - p, MaxCopy - MinMatch)
<1>1. /\ warp1.pc = "extend" /\ warp1' = [warp1 EXCEPT !.pc = "written"]
      /\ copy_length' = IF copy_length = 0 THEN 0
                        ELSE MinMatch + MatchLength(p, copy_distance, n)
      /\ UNCHANGED <<src, end, dst, literal_length, copy_distance, hash_map,
                     warp0, status>>
  BY DEF Extend
<1>2. TypeOK /\ Excess /\ Reported /\ Apart
  BY <1>1 DEF IInv, Together
<1>3. /\ literal_length \in Nat /\ copy_length \in Nat /\ copy_distance \in Nat
      /\ warp1.pos \in Nat /\ SrcLen \in Nat /\ MinMatch = 4
      /\ MaxCopy \in Nat /\ 4 <= MaxCopy
  BY <1>2, Types, Constants
<1>4. Found /\ copy_length \in {0, 4}
  BY <1>1, <1>2, <1>3 DEF Apart
<1>5. warp1 \in [pc : Labels, pos : 0 .. SrcLen, lit : Nat, copy : Nat, at : Nat]
  BY <1>2 DEF TypeOK
<1>6. /\ warp1' \in [pc : Labels, pos : 0 .. SrcLen, lit : Nat, copy : Nat, at : Nat]
      /\ warp1'.pc = "written" /\ warp1'.pos = warp1.pos
  BY <1>1, <1>5 DEF Labels
<1>7. SrcLen' = SrcLen
  BY <1>1 DEF SrcLen
<1>8. /\ copy_length' \in {0} \cup MinMatch .. MaxCopy
      /\ Symbol(warp1.pos, literal_length, copy_length', copy_distance)
  <2>1. CASE copy_length = 0
    BY <1>1, <1>3, <1>4, <2>1 DEF Found
  <2>2. CASE copy_length # 0
    <3>1. PICK b \in Nat : b = warp1.pos + literal_length
      BY <1>3
    <3>2. /\ b + 4 <= SrcLen /\ 1 <= copy_distance /\ copy_distance <= b
          /\ \A k \in 1 .. 4 : src[b + k] = src[b + k - copy_distance]
      BY <1>3, <1>4, <2>2, <3>1 DEF Found, Symbol
    <3>3. p \in Nat /\ p = b + 4 /\ n \in Nat /\ n <= MaxCopy - 4 /\ p + n <= SrcLen
      BY <1>3, <3>1, <3>2 DEF Least
    <3>. HIDE DEF p, n
    <3>4. PICK g \in 0 .. n : g = MatchLength(p, copy_distance, n)
      <4>1. copy_distance \in Nat /\ p \in Nat /\ n \in Nat
        BY <1>3, <3>3
      <4>2. MatchLength(p, copy_distance, n) \in 0 .. n
        BY <4>1, MatchLengthIs, Zenon
      <4>3. QED
        BY <4>2, Zenon
    <3>5. \A i \in 1 .. g : src[p + i] = src[p + i - copy_distance]
      <4>1. copy_distance \in Nat /\ p \in Nat /\ n \in Nat
        BY <1>3, <3>3
      <4>2. \A i \in 1 .. MatchLength(p, copy_distance, n) :
              src[p + i] = src[p + i - copy_distance]
        BY <4>1, MatchLengthIs, Zenon
      <4>3. QED
        BY <3>4, <4>2
    <3>6. copy_length' = 4 + g
      BY <1>1, <1>3, <2>2, <3>4
    <3>7. ASSUME NEW k \in 1 .. 4 + g
          PROVE  src[b + k] = src[b + k - copy_distance]
      <4>1. CASE k <= 4
        <5>1. k \in 1 .. 4
          BY <3>3, <4>1
        <5>2. QED
          BY <3>2, <5>1
      <4>2. CASE ~(k <= 4)
        <5>1. PICK i : i = k - 4
          OBVIOUS
        <5>2. i \in 1 .. g /\ p + i = b + k
          BY <3>1, <3>3, <4>2, <5>1
        <5>3. src[p + i] = src[p + i - copy_distance]
          BY <3>5, <5>2
        <5>4. p + i - copy_distance = b + k - copy_distance
          BY <1>3, <3>1, <3>3, <5>1
        <5>5. QED
          BY <5>2, <5>3, <5>4
      <4>3. QED
        BY <4>1, <4>2
    <3>8. /\ copy_length' \in Nat /\ copy_length' > 0
          /\ copy_length' \in {0} \cup MinMatch .. MaxCopy
          /\ b + copy_length' <= SrcLen
      BY <1>3, <3>3, <3>6
    <3>9. QED
      BY <1>3, <3>1, <3>2, <3>6, <3>7, <3>8 DEF Symbol
  <2>3. QED
    BY <2>1, <2>2
<1>9. TypeOK'
  BY <1>1, <1>2, <1>6, <1>7, <1>8 DEF TypeOK
<1>10. Apart'
  <2>1. Behind(warp0)' = Behind(warp1)'
    BY <1>1, <1>2, <1>6 DEF Apart, Behind
  <2>2. warp0.pc = "work" => Symbol(warp0.pos, warp0.lit, warp0.copy, warp0.dist)'
    BY <1>1, <1>2 DEF Apart, Symbol, SrcLen
  <2>3. Found'
    BY <1>1, <1>6, <1>7, <1>8 DEF Found, Symbol
  <2>4. QED
    BY <1>1, <1>2, <1>6, <1>7, <2>1, <2>2, <2>3 DEF Apart
<1>11. Excess'
  BY <1>1, <1>2, ExcessStays
<1>12. Reported'
  BY <1>1, <1>2, <1>6 DEF Reported
<1>13. QED
  BY <1>9, <1>10, <1>11, <1>12 DEF IInv

\* The end of the block.
LEMMA FinishKeeps ==
  ASSUME IInv, Finish
  PROVE  IInv'
<1>1. /\ warp0.pc = "end" /\ warp1.pc = "end"
      /\ status' = IF Len(dst) > end THEN "error" ELSE "ok"
      /\ UNCHANGED <<src, end, dst, literal_length, copy_length, copy_distance,
                     hash_map, warp0, warp1>>
  BY DEF Finish, words
<1>2. TypeOK /\ Excess /\ Together
  BY <1>1 DEF IInv, Apart
<1>3. Len(dst) \in Nat /\ end \in Nat
  BY <1>2, Types
<1>4. status' \in {"none", "ok", "error"} /\ (status' = "ok" <=> Len(dst) <= end)
  BY <1>1, <1>3
<1>5. TypeOK'
  BY <1>1, <1>2, <1>4 DEF TypeOK, SrcLen
<1>6. Found'
  BY <1>1, <1>2, FoundStays DEF Together
<1>7. Together'
  BY <1>1, <1>2, <1>6 DEF Together, SrcLen
<1>8. Excess'
  BY <1>1, <1>2, ExcessStays
<1>9. Reported'
  BY <1>1, <1>4 DEF Reported
<1>10. QED
  BY <1>5, <1>7, <1>8, <1>9 DEF IInv
-----------------------------------------------------------------------------
(* Warp 0 at work.                                                         *)

Cell == Byte \cup {Unwritten}

\* A header of a literal or of a copy is bytes, as many as counted here.
LEMMA LiteralHeaderIs ==
  ASSUME NEW l, l \in Nat, 1 <= l, l <= 256
  PROVE  /\ LiteralHeader(l - 1) \in Seq(Byte)
         /\ Len(LiteralHeader(l - 1)) = IF l <= 60 THEN 1 ELSE 2
<1>1. PICK k \in Nat : k = l - 1
  OBVIOUS
<1>2. CASE k < 60
  <2>1. LiteralHeader(k) = <<4 * k>> /\ 4 * k \in Byte
    BY <1>2 DEF LiteralHeader, Byte
  <2>2. QED
    BY <1>1, <1>2, <2>1
<1>3. CASE ~(k < 60)
  <2>1. PICK x, y \in Byte : x = 4 * 60 /\ y = k % 256
    BY DEF Byte
  <2>2. LiteralHeader(k) = <<x, y>>
    BY <1>1, <1>3, <2>1 DEF LiteralHeader
  <2>3. ~(l <= 60)
    BY <1>1, <1>3
  <2>4. <<x, y>> \in Seq(Byte) /\ Len(<<x, y>>) = 2
    OBVIOUS
  <2>5. LiteralHeader(l - 1) = <<x, y>>
    BY <1>1, <2>2
  <2>6. QED
    BY <2>3, <2>4, <2>5
<1>4. QED
  BY <1>2, <1>3

\* The same of a copy: never more than three bytes.
LEMMA CopyHeaderIs ==
  ASSUME NEW len, len \in Nat, 4 <= len, len <= 64, NEW dist, dist \in Nat
  PROVE  /\ CopyHeader(len, dist) \in Seq(Byte)
         /\ Len(CopyHeader(len, dist)) \in {2, 3}
<1>1. \A n \in Int : n % 256 \in Byte
  BY DEF Byte
<1>2. PICK q \in Nat : q = dist \div 256
  OBVIOUS
<1>3. CASE len < 12 /\ dist < 2048
  <2>1. PICK t \in Int : t = 32 * (q % 8) + 4 * (len - 4) + 1
    OBVIOUS
  <2>2. CopyHeader(len, dist) = <<t % 256, dist % 256>>
    BY <1>2, <1>3, <2>1 DEF CopyHeader
  <2>3. QED
    BY <1>1, <2>2
<1>4. CASE ~(len < 12 /\ dist < 2048)
  <2>1. PICK t \in Int : t = 4 * (len - 1) + 2
    OBVIOUS
  <2>2. CopyHeader(len, dist) = <<t % 256, dist % 256, q % 256>>
    BY <1>2, <1>4, <2>1 DEF CopyHeader
  <2>3. QED
    BY <1>1, <2>2
<1>5. QED
  BY <1>3, <1>4

\* new is d with n more cells, and it is whole where it has room.
Added(new, d, n, whole) ==
  /\ new \in Seq(Cell) /\ Len(new) = Len(d) + n
  /\ Len(new) <= end => new = whole

\* What AppendAll and AppendEach append is as long as the bytes, whether they
\* have room or not, and it is the bytes where they have room.
LEMMA AppendIs ==
  ASSUME NEW d, d \in Seq(Cell), NEW bytes, bytes \in Seq(Byte), end \in Nat
  PROVE  /\ Added(AppendAll(d, bytes), d, Len(bytes), d \o bytes)
         /\ Added(AppendEach(d, bytes), d, Len(bytes), d \o bytes)
<1>. DEFINE blank == [i \in DOMAIN bytes |-> Unwritten]
            each  == [i \in DOMAIN bytes |->
                        IF Len(d) + i <= end THEN bytes[i] ELSE Unwritten]
<1>1. /\ DOMAIN bytes = 1 .. Len(bytes) /\ Len(bytes) \in Nat
      /\ \A i \in 1 .. Len(bytes) : bytes[i] \in Byte
      /\ Len(d) \in Nat
  OBVIOUS
<1>2. blank \in Seq(Cell) /\ Len(blank) = Len(bytes)
  BY <1>1 DEF Cell
<1>3. each \in Seq(Cell) /\ Len(each) = Len(bytes)
  BY <1>1 DEF Cell
<1>4. bytes \in Seq(Cell)
  BY DEF Cell
<1>5. Len(d) + Len(bytes) <= end => each = bytes
  <2>1. SUFFICES ASSUME Len(d) + Len(bytes) <= end PROVE each = bytes
    OBVIOUS
  <2>2. each = [i \in 1 .. Len(bytes) |-> bytes[i]]
    BY <1>1, <2>1
  <2>3. QED
    BY <1>1, <2>2
<1>6. AppendEach(d, bytes) = d \o each
  BY DEF AppendEach
<1>7. AppendAll(d, bytes) = d \o (IF Len(d) + Len(bytes) <= end THEN bytes ELSE blank)
  BY DEF AppendAll
<1>. HIDE DEF blank, each, Cell
<1>8. \A b \in Seq(Cell) : d \o b \in Seq(Cell) /\ Len(d \o b) = Len(d) + Len(b)
  OBVIOUS
<1>9. Added(AppendEach(d, bytes), d, Len(bytes), d \o bytes)
  BY ONLY <1>3, <1>5, <1>6, <1>8 DEF Added
<1>10. Added(AppendAll(d, bytes), d, Len(bytes), d \o bytes)
  BY ONLY <1>2, <1>4, <1>7, <1>8 DEF Added
<1>11. QED
  BY <1>9, <1>10

\* One after the other.
LEMMA AddedTwice ==
  ASSUME NEW d, NEW e, NEW f, NEW head, NEW body, d \in Seq(Cell), end \in Nat,
         Added(e, d, Len(head), d \o head), Added(f, e, Len(body), e \o body),
         Len(head) \in Nat, Len(body) \in Nat
  PROVE  Added(f, d, Len(head) + Len(body), (d \o head) \o body)
<1>1. Len(d) \in Nat
  OBVIOUS
<1>2. /\ f \in Seq(Cell) /\ Len(f) = Len(d) + (Len(head) + Len(body))
      /\ Len(e) = Len(d) + Len(head)
  BY <1>1 DEF Added
<1>3. ASSUME Len(f) <= end PROVE f = (d \o head) \o body
  <2>1. Len(e) <= end
    BY <1>1, <1>2, <1>3
  <2>2. QED
    BY <1>3, <2>1 DEF Added
<1>4. QED
  BY <1>2, <1>3 DEF Added

\* Bytes of the input in the middle.
LEMMA PartIs ==
  ASSUME NEW s, s \in Seq(Byte), NEW p \in Nat, NEW l \in Nat, p + l <= Len(s)
  PROVE  /\ SubSeq(s, p + 1, p + l) \in Seq(Byte)
         /\ Len(SubSeq(s, p + 1, p + l)) = l
<1>1. PICK n \in Nat : n = Len(s)
  OBVIOUS
<1>2. PICK a, z \in Nat : a = p + 1 /\ z = p + l
  OBVIOUS
<1>3. \A i \in a .. z : i \in 1 .. n
  BY <1>1, <1>2
<1>4. SubSeq(s, a, z) \in Seq(Byte)
  BY <1>1, <1>3
<1>5. Len(SubSeq(s, a, z)) = l
  BY <1>1, <1>2
<1>6. QED
  BY <1>2, <1>4, <1>5

\* What d is with the literal behind it.
LiteralWhole(d) == (d \o LiteralHeader(warp0.lit - 1))
                     \o SubSeq(src, warp0.pos + 1, warp0.pos + warp0.lit)

\* The literal that warp 0 writes adds its bytes and their header.
LEMMA LiteralAdds ==
  ASSUME TypeOK, warp0.lit <= MaxLiteral, warp0.pos + warp0.lit <= SrcLen,
         NEW d, d \in Seq(Cell), warp0.lit > 0
  PROVE  Added(Literal(d), d, (IF warp0.lit <= 60 THEN 1 ELSE 2) + warp0.lit,
               LiteralWhole(d))
<1>1. /\ warp0.lit \in Nat /\ warp0.pos \in Nat /\ src \in Seq(Byte)
      /\ SrcLen \in Nat /\ end \in Nat /\ warp0.lit <= 256 /\ 1 <= warp0.lit
  <2>1. /\ warp0.lit \in Nat /\ warp0.pos \in Nat /\ src \in Seq(Byte)
        /\ SrcLen \in Nat /\ end \in Nat
    BY Types
  <2>2. warp0.lit <= 256 /\ 1 <= warp0.lit
    BY <2>1, Constants
  <2>3. QED
    BY <2>1, <2>2
<1>2. PICK head : head = LiteralHeader(warp0.lit - 1)
  OBVIOUS
<1>3. PICK body : body = SubSeq(src, warp0.pos + 1, warp0.pos + warp0.lit)
  OBVIOUS
<1>4. /\ head \in Seq(Byte) /\ Len(head) \in Nat
      /\ Len(head) = IF warp0.lit <= 60 THEN 1 ELSE 2
  BY <1>1, <1>2, LiteralHeaderIs
<1>5. body \in Seq(Byte) /\ Len(body) = warp0.lit /\ Len(body) \in Nat
  <2>1. PICK p, l, n \in Nat : p = warp0.pos /\ l = warp0.lit /\ n = Len(src)
    BY <1>1 DEF SrcLen
  <2>2. p + l <= n /\ 1 <= l /\ body = SubSeq(src, p + 1, p + l)
    BY <1>3, <2>1 DEF SrcLen
  <2>3. SubSeq(src, p + 1, p + l) \in Seq(Byte) /\ Len(SubSeq(src, p + 1, p + l)) = l
    BY <1>1, <2>1, <2>2, PartIs
  <2>4. QED
    BY <2>1, <2>2, <2>3
<1>6. PICK e : e = AppendAll(d, head)
  OBVIOUS
<1>7. Added(e, d, Len(head), d \o head)
  <2>1. head \in Seq(Byte) /\ end \in Nat
    BY <1>1, <1>4
  <2>2. Added(AppendAll(d, head), d, Len(head), d \o head)
    BY ONLY <2>1, d \in Seq(Cell), AppendIs, Zenon
  <2>3. QED
    BY <1>6, <2>2, Zenon
<1>8. e \in Seq(Cell)
  BY <1>7 DEF Added
<1>9. PICK f : f = Literal(d) /\ f = AppendEach(e, body)
  BY <1>1, <1>2, <1>3, <1>6 DEF Literal
<1>10. Added(f, e, Len(body), e \o body)
  <2>1. body \in Seq(Byte) /\ end \in Nat
    BY <1>1, <1>5
  <2>2. Added(AppendEach(e, body), e, Len(body), e \o body)
    BY ONLY <1>8, <2>1, AppendIs, Zenon
  <2>3. QED
    BY <1>9, <2>2, Zenon
<1>11. Added(f, d, Len(head) + Len(body), (d \o head) \o body)
  <2>1. end \in Nat /\ Len(head) \in Nat /\ Len(body) \in Nat
    BY <1>1, <1>4, <1>5
  <2>2. QED
    BY <1>7, <1>10, <2>1, AddedTwice, Zenon
<1>12. LiteralWhole(d) = (d \o head) \o body
  BY <1>2, <1>3 DEF LiteralWhole
<1>13. QED
  BY <1>4, <1>5, <1>9, <1>11, <1>12

\* The copy adds its header.
LEMMA CopyAdds ==
  ASSUME TypeOK, warp0.copy \in {0} \cup MinMatch .. MaxCopy, warp0.copy > 0,
         NEW d, d \in Seq(Cell)
  PROVE  \E c \in {2, 3} :
           Added(Copy(d), d, c, d \o CopyHeader(warp0.copy, warp0.dist))
<1>1. warp0.copy \in Nat /\ warp0.dist \in Nat /\ end \in Nat
  BY Types
<1>2. 4 <= warp0.copy /\ warp0.copy <= 64
  <2>1. \A m, n \in Nat : m <= 64 => \A i \in {0} \cup 4 .. m : i > 0 => 4 <= i /\ i <= 64
    OBVIOUS
  <2>2. MinMatch = 4 /\ MaxCopy \in Nat /\ MaxCopy <= 64
    BY Constants DEF MinMatch
  <2>3. QED
    BY <2>1, <2>2
<1>3. PICK head : head = CopyHeader(warp0.copy, warp0.dist)
  OBVIOUS
<1>4. head \in Seq(Byte) /\ Len(head) \in {2, 3}
  BY <1>1, <1>2, <1>3, CopyHeaderIs
<1>5. Copy(d) = AppendAll(d, head)
  BY <1>1, <1>2, <1>3 DEF Copy
<1>6. Added(Copy(d), d, Len(head), d \o head)
  <2>1. head \in Seq(Byte) /\ end \in Nat
    BY <1>1, <1>4
  <2>2. Added(AppendAll(d, head), d, Len(head), d \o head)
    BY ONLY <2>1, d \in Seq(Cell), AppendIs, Zenon
  <2>3. QED
    BY <1>5, <2>2, Zenon
<1>7. QED
  BY <1>3, <1>4, <1>6

\* One symbol more: what is written for it exceeds it by one byte for a literal
\* of up to 60, two for a longer one, and less than nothing for a copy.
OneMore(pos, lit, copy, total, long, step, most, size, written, h, c) ==
  /\ pos \in Nat /\ lit \in Nat /\ copy \in Nat /\ total \in Nat
  /\ long \in Nat /\ step \in Nat /\ most \in Int /\ size \in Nat
  /\ written \in Nat /\ h \in Nat /\ c \in Nat
  /\ 1 <= step /\ step <= 60 /\ step <= most + 1
  /\ lit > 60 => most + 1 >= 120
  /\ step * long <= pos /\ pos < total /\ pos + lit + copy <= total
  /\ lit = 0 => h = 0
  /\ lit > 0 => h = IF lit <= 60 THEN 1 ELSE 2
  /\ copy = 0 => c = 0
  /\ copy > 0 => copy >= 4 /\ c <= 3
  /\ copy = 0 => lit > most \/ pos + lit = total \/ lit = 0
  /\ written <= size + pos + long

\* Then the output exceeds what it stands for by little again.
LEMMA ExcessStep ==
  ASSUME NEW pos, NEW lit, NEW copy, NEW total, NEW long, NEW step, NEW most,
         NEW size, NEW written, NEW h, NEW c,
         OneMore(pos, lit, copy, total, long, step, most, size, written, h, c)
  PROVE  \E more \in {0, 1, 2} :
           /\ step * (long + more) <= pos + lit + copy
           /\ written + h + lit + c <= size + (pos + lit + copy) + (long + more)
                + (IF pos + lit + copy = total THEN 2 ELSE 0)
<1>. /\ pos \in Nat /\ lit \in Nat /\ copy \in Nat /\ total \in Nat
     /\ long \in Nat /\ step \in Nat /\ most \in Int /\ size \in Nat
     /\ written \in Nat /\ h \in Nat /\ c \in Nat
     /\ 1 <= step /\ step <= 60 /\ step <= most + 1
     /\ lit > 60 => most + 1 >= 120
     /\ step * long <= pos /\ pos < total /\ pos + lit + copy <= total
     /\ lit = 0 => h = 0
     /\ lit > 0 => h = IF lit <= 60 THEN 1 ELSE 2
     /\ copy = 0 => c = 0
     /\ copy > 0 => copy >= 4 /\ c <= 3
     /\ copy = 0 => lit > most \/ pos + lit = total \/ lit = 0
     /\ written <= size + pos + long
  BY DEF OneMore
<1>1. /\ step * (long + 0) = step * long
      /\ step * (long + 1) = step * long + step
      /\ step * (long + 2) = step * long + 2 * step
  <2>1. \A a, b \in Nat : /\ a * (b + 0) = a * b /\ a * (b + 1) = a * b + a
                          /\ a * (b + 2) = a * b + 2 * a
    OBVIOUS
  <2>2. QED
    BY <2>1
<1>2. PICK m \in Nat : m = step * long
  OBVIOUS
<1>3. CASE copy > 0 /\ lit <= 60
  <2>1. written + h + lit + c <= size + (pos + lit + copy) + (long + 0)
    BY <1>3
  <2>2. QED
    BY <1>1, <1>2, <2>1
<1>4. CASE copy > 0 /\ lit > 60
  <2>1. written + h + lit + c <= size + (pos + lit + copy) + (long + 1)
    BY <1>4
  <2>2. QED
    BY <1>1, <1>2, <1>4, <2>1
<1>5. CASE copy = 0 /\ lit = 0
  <2>1. written + h + lit + c <= size + (pos + lit + copy) + (long + 0)
    BY <1>5
  <2>2. QED
    BY <1>1, <1>2, <2>1
<1>6. CASE copy = 0 /\ lit > 0 /\ pos + lit = total
  <2>1. written + h + lit + c <= size + (pos + lit + copy) + (long + 0) + 2
    BY <1>6
  <2>2. pos + lit + copy = total
    BY <1>6
  <2>3. QED
    BY <1>1, <1>2, <2>1, <2>2
<1>7. CASE copy = 0 /\ lit > most /\ 0 < lit /\ lit <= 60
  <2>1. written + h + lit + c <= size + (pos + lit + copy) + (long + 1)
    BY <1>7
  <2>2. QED
    BY <1>1, <1>2, <1>7, <2>1
<1>8. CASE copy = 0 /\ lit > most /\ lit > 60
  <2>1. written + h + lit + c <= size + (pos + lit + copy) + (long + 2)
    BY <1>8
  <2>2. QED
    BY <1>1, <1>2, <1>8, <2>1
<1>9. QED
  BY <1>3, <1>4, <1>5, <1>6, <1>7, <1>8
\* How much longer the output is behind a symbol.
LEMMA EncodeLength ==
  ASSUME TypeOK, warp0.lit <= MaxLiteral, warp0.pos + warp0.lit <= SrcLen,
         warp0.copy \in {0} \cup MinMatch .. MaxCopy
  PROVE  /\ Copy(Literal(dst)) \in Seq(Cell)
         /\ \E h, c \in Nat :
              /\ Len(Copy(Literal(dst))) = Len(dst) + h + warp0.lit + c
              /\ warp0.lit = 0 => h = 0
              /\ warp0.lit > 0 => h = IF warp0.lit <= 60 THEN 1 ELSE 2
              /\ warp0.copy = 0 => c = 0
              /\ warp0.copy > 0 => c <= 3
<1>1. /\ warp0.lit \in Nat /\ warp0.copy \in Nat /\ Len(dst) \in Nat
      /\ dst \in Seq(Cell)
  BY Types DEF Cell
<1>2. PICK d : d = Literal(dst)
  OBVIOUS
<1>3. /\ d \in Seq(Cell)
      /\ \E h \in Nat : /\ Len(d) = Len(dst) + h + warp0.lit
                        /\ warp0.lit = 0 => h = 0
                        /\ warp0.lit > 0 => h = IF warp0.lit <= 60 THEN 1 ELSE 2
  <2>1. CASE warp0.lit = 0
    <3>1. d = dst
      BY <1>2, <2>1 DEF Literal
    <3>2. PICK h \in Nat : h = 0
      OBVIOUS
    <3>3. Len(d) = Len(dst) + h + warp0.lit /\ ~(warp0.lit > 0)
      BY <1>1, <2>1, <3>1, <3>2
    <3>4. QED
      BY <1>1, <3>1, <3>2, <3>3
  <2>2. CASE warp0.lit # 0
    <3>1. warp0.lit > 0
      BY <1>1, <2>2
    <3>2. PICK h \in Nat : h = IF warp0.lit <= 60 THEN 1 ELSE 2
      OBVIOUS
    <3>3. Added(d, dst, h + warp0.lit, LiteralWhole(dst))
      BY <1>1, <1>2, <3>1, <3>2, LiteralAdds
    <3>4. d \in Seq(Cell) /\ Len(d) = Len(dst) + h + warp0.lit
      BY <1>1, <3>3 DEF Added
    <3>5. QED
      BY <2>2, <3>2, <3>4
  <2>3. QED
    BY <2>1, <2>2
<1>4. PICK h \in Nat : /\ Len(d) = Len(dst) + h + warp0.lit
                       /\ warp0.lit = 0 => h = 0
                       /\ warp0.lit > 0 => h = IF warp0.lit <= 60 THEN 1 ELSE 2
  BY <1>3
<1>5. CASE warp0.copy = 0
  <2>1. Copy(d) = d
    BY <1>5 DEF Copy
  <2>2. Len(Copy(d)) = Len(dst) + h + warp0.lit + 0
    BY <1>1, <1>4, <2>1
  <2>3. QED
    BY <1>2, <1>3, <1>4, <1>5, <2>1, <2>2
<1>6. CASE warp0.copy # 0
  <2>1. warp0.copy > 0
    BY <1>1, <1>6
  <2>2. PICK c \in {2, 3} :
          Added(Copy(d), d, c, d \o CopyHeader(warp0.copy, warp0.dist))
    BY <1>3, <2>1, CopyAdds
  <2>3. /\ Copy(d) \in Seq(Cell) /\ c \in Nat /\ c <= 3
        /\ Len(Copy(d)) = Len(dst) + h + warp0.lit + c
    BY <1>1, <1>4, <2>2 DEF Added
  <2>4. QED
    BY <1>2, <1>4, <1>6, <2>3
<1>7. QED
  BY <1>5, <1>6

\* How long a literal is that no match follows.
LEMMA LongLiterals ==
  /\ LongLiteral \in Nat /\ 6 <= LongLiteral /\ LongLiteral <= 60
  /\ LongLiteral <= (MaxLiteral - WarpSize) + 1
  /\ MaxLiteral > 60 => (MaxLiteral - WarpSize) + 1 >= 120
BY Constants, LiteralAssumption DEF LongLiteral, Least

\* Warp 0 writes its symbol.
LEMMA EncodeKeeps ==
  ASSUME IInv, Encode
  PROVE  IInv'
<1>. DEFINE next == warp0.pos + warp0.lit + warp0.copy
<1>1. /\ warp0.pc = "work" /\ dst' = Copy(Literal(dst))
      /\ warp0' = [warp0 EXCEPT !.pc = "written", !.pos = @ + warp0.lit + warp0.copy]
      /\ UNCHANGED <<src, end, literal_length, copy_length, copy_distance, hash_map,
                     warp1, status>>
  BY DEF Encode, words
<1>2. TypeOK /\ Excess /\ Reported /\ Apart
  BY <1>1 DEF IInv, Together
<1>3. /\ warp0.pos \in Nat /\ warp0.lit \in Nat /\ warp0.copy \in Nat
      /\ warp0.dist \in Nat /\ SrcLen \in Nat /\ Len(dst) \in Nat
  BY <1>2, Types
<1>4. /\ Symbol(warp0.pos, warp0.lit, warp0.copy, warp0.dist)
      /\ warp0.pos < SrcLen /\ warp0.lit <= MaxLiteral
      /\ warp0.copy \in {0} \cup MinMatch .. MaxCopy
  BY <1>1, <1>2 DEF Apart
<1>5. /\ next <= SrcLen /\ next \in Nat /\ warp0.pos + warp0.lit <= SrcLen
      /\ warp0.copy = 0 => \/ warp0.lit > MaxLiteral - WarpSize
                           \/ warp0.pos + warp0.lit = SrcLen
                           \/ warp0.lit = 0
  BY <1>3, <1>4 DEF Symbol
<1>6. warp0 \in [pc : Labels, pos : 0 .. SrcLen, lit : Nat, copy : Nat, dist : Nat]
  BY <1>2 DEF TypeOK
<1>7. PICK q \in 0 .. SrcLen : q = next
  BY <1>3, <1>5
<1>8. /\ warp0' \in [pc : Labels, pos : 0 .. SrcLen, lit : Nat, copy : Nat, dist : Nat]
      /\ warp0'.pc = "written" /\ warp0'.pos = q
  <2>1. warp0' = [warp0 EXCEPT !.pc = "written", !.pos = q]
    BY <1>1, <1>6, <1>7
  <2>2. QED
    BY <1>6, <1>7, <2>1 DEF Labels
<1>9. /\ dst' \in Seq(Cell)
      /\ \E h, c \in Nat :
           /\ Len(dst') = Len(dst) + h + warp0.lit + c
           /\ warp0.lit = 0 => h = 0
           /\ warp0.lit > 0 => h = IF warp0.lit <= 60 THEN 1 ELSE 2
           /\ warp0.copy = 0 => c = 0
           /\ warp0.copy > 0 => c <= 3
  BY <1>1, <1>2, <1>4, <1>5, EncodeLength
<1>10. TypeOK'
  BY <1>1, <1>2, <1>8, <1>9 DEF TypeOK, SrcLen, Cell
<1>11. Apart'
  <2>1. Behind(warp0)' = Behind(warp1)'
    BY <1>1, <1>2, <1>7, <1>8 DEF Apart, Behind
  <2>2. Found => Found'
    BY <1>1, FoundStays
  <2>3. QED
    BY <1>1, <1>2, <1>8, <2>1, <2>2 DEF Apart, SearchesOn
<1>12. Excess'
  <2>1. PICK h, c \in Nat :
          /\ Len(dst') = Len(dst) + h + warp0.lit + c
          /\ warp0.lit = 0 => h = 0
          /\ warp0.lit > 0 => h = IF warp0.lit <= 60 THEN 1 ELSE 2
          /\ warp0.copy = 0 => c = 0
          /\ warp0.copy > 0 => c <= 3
    BY <1>9
  <2>2. PICK long \in 0 .. warp0.pos :
          /\ LongLiteral * long <= warp0.pos
          /\ Len(dst) <= Len(SizeBytes[SrcLen]) + warp0.pos + long
                           + (IF warp0.pos = SrcLen THEN 2 ELSE 0)
    BY <1>2 DEF Excess
  <2>3. long \in Nat /\ Len(SizeBytes[SrcLen]) \in Nat
    BY <1>3, SizeRecursion
  <2>4. Len(dst) <= Len(SizeBytes[SrcLen]) + warp0.pos + long
    BY <1>3, <1>4, <2>2, <2>3
  <2>5. PICK most \in Int : most = MaxLiteral - WarpSize
    BY Constants
  <2>6. warp0.copy > 0 => warp0.copy >= 4
    BY <1>2, <1>3, <1>4, Types, Constants
  <2>7. /\ LongLiteral \in Nat /\ 1 <= LongLiteral /\ LongLiteral <= 60
        /\ LongLiteral <= most + 1
    BY <2>5, LongLiterals
  <2>8. warp0.lit > 60 => most + 1 >= 120
    BY <1>3, <1>4, <2>5, LongLiterals, Constants
  <2>9. PICK more \in {0, 1, 2} :
          /\ LongLiteral * (long + more) <= next
          /\ Len(dst) + h + warp0.lit + c
               <= Len(SizeBytes[SrcLen]) + next + (long + more)
                    + (IF next = SrcLen THEN 2 ELSE 0)
    <3>1. PICK size \in Nat : size = Len(SizeBytes[SrcLen])
      BY <2>3
    <3>2. PICK written \in Nat : written = Len(dst)
      BY <1>3
    <3>3. PICK step \in Nat : step = LongLiteral
      BY <2>7
    <3>4. PICK pos, lit, copy \in Nat :
            pos = warp0.pos /\ lit = warp0.lit /\ copy = warp0.copy
      BY <1>3
    <3>5. OneMore(pos, lit, copy, SrcLen, long, step, most, size, written, h, c)
      BY <1>3, <1>4, <1>5, <2>1, <2>2, <2>3, <2>4, <2>5, <2>6, <2>7, <2>8,
         <3>1, <3>2, <3>3, <3>4 DEF OneMore
    <3>6. PICK more \in {0, 1, 2} :
            /\ step * (long + more) <= pos + lit + copy
            /\ written + h + lit + c <= size + (pos + lit + copy) + (long + more)
                 + (IF pos + lit + copy = SrcLen THEN 2 ELSE 0)
      BY <3>5, ExcessStep
    <3>7. QED
      BY <3>1, <3>2, <3>3, <3>4, <3>6
  <2>10. PICK sum \in Nat : sum = long + more
    BY <2>3
  <2>11. sum \in 0 .. q /\ LongLiteral * sum <= q
    <3>1. \A a, b, n \in Nat : 1 <= a /\ a * b <= n => b <= n
      <4>1. SUFFICES ASSUME NEW a \in Nat, NEW b \in Nat, 1 <= a PROVE b <= a * b
        OBVIOUS
      <4>2. PICK e \in Nat : a = e + 1
        <5>1. a - 1 \in Nat /\ a = (a - 1) + 1
          BY <4>1
        <5>2. QED
          BY <5>1
      <4>3. (e + 1) * b = e * b + b /\ e * b \in Nat
        OBVIOUS
      <4>4. QED
        BY <4>2, <4>3
    <3>2. LongLiteral * sum <= q /\ q \in Nat
      BY <1>7, <2>9, <2>10
    <3>3. sum <= q
      BY <2>7, <2>10, <3>1, <3>2
    <3>4. QED
      BY <3>2, <3>3
  <2>12. Len(dst') <= Len(SizeBytes[SrcLen]) + q + sum
                       + (IF q = SrcLen THEN 2 ELSE 0)
    BY <1>7, <2>1, <2>9, <2>10
  <2>13. SrcLen' = SrcLen /\ LongLiteral' = LongLiteral
    BY <1>1 DEF SrcLen, LongLiteral
  <2>14. QED
    BY <1>8, <2>11, <2>12, <2>13 DEF Excess
<1>13. Reported'
  BY <1>1, <1>2 DEF Reported
<1>14. QED
  BY <1>10, <1>11, <1>12, <1>13 DEF IInv

-----------------------------------------------------------------------------
(* The inductive invariant.                                                *)

\* It holds at the start.
LEMMA InitHolds ==
  ASSUME Init
  PROVE  IInv
<1>1. /\ src \in Sources /\ src \in Seq(Byte) /\ SrcLen \in Nat
  BY SnapAssumption DEF Init, SrcLen
<1>2. end \in Nat
  <2>1. PICK c \in Capacities : end = IF c = 0 THEN MaxCompressedLength(SrcLen) ELSE c
    BY DEF Init
  <2>2. c \in Nat
    BY SnapAssumption
  <2>3. SrcLen \div 6 \in Nat
    BY <1>1
  <2>4. MaxCompressedLength(SrcLen) \in Nat
    BY <1>1, <2>3 DEF MaxCompressedLength
  <2>5. QED
    BY <2>1, <2>2, <2>4
<1>3. SizeBytes[SrcLen] \in Seq(Byte)
  BY <1>1, SizeRecursion
<1>4. /\ dst \in Seq(Cell) /\ Len(dst) = Len(SizeBytes[SrcLen])
      /\ Len(dst) \in Nat
  <2>1. <<>> \in Seq(Cell) /\ Len(<<>>) = 0
    OBVIOUS
  <2>2. dst = AppendEach(<<>>, SizeBytes[SrcLen])
    BY DEF Init
  <2>3. Added(dst, <<>>, Len(SizeBytes[SrcLen]), <<>> \o SizeBytes[SrcLen])
    BY <1>2, <1>3, <2>1, <2>2, AppendIs
  <2>4. QED
    BY <1>3, <2>1, <2>3 DEF Added
<1>5. /\ literal_length = 0 /\ copy_length = 0 /\ copy_distance = 0
      /\ hash_map = [b \in 0 .. Buckets - 1 |-> 0] /\ status = "none"
      /\ warp0 = [pc |-> "test", pos |-> 0, lit |-> 0, copy |-> 0, dist |-> 0]
      /\ warp1 = [pc |-> "test", pos |-> 0, lit |-> 0, copy |-> 0, at |-> 0]
  BY DEF Init
<1>6. hash_map \in [0 .. Buckets - 1 -> 0 .. Window - 1]
  BY <1>5, Constants
<1>7. TypeOK
  BY <1>1, <1>2, <1>4, <1>5, <1>6, Constants DEF TypeOK, Labels, Cell
<1>8. Together
  BY <1>1, <1>5 DEF Together, Found, Symbol
<1>9. Excess
  <2>1. LongLiteral * 0 = 0
    BY LongLiterals
  <2>2. PICK long : long = 0
    OBVIOUS
  <2>3. warp0.pos = 0 /\ long \in 0 .. warp0.pos /\ LongLiteral * long <= warp0.pos
    BY <1>5, <2>1, <2>2
  <2>4. Len(dst) <= Len(SizeBytes[SrcLen]) + warp0.pos + long
                      + (IF warp0.pos = SrcLen THEN 2 ELSE 0)
    <3>1. PICK n \in Nat : n = Len(dst) /\ n = Len(SizeBytes[SrcLen])
      BY <1>4
    <3>2. PICK slack \in Nat : slack = IF warp0.pos = SrcLen THEN 2 ELSE 0
      OBVIOUS
    <3>3. n <= n + 0 + 0 + slack
      OBVIOUS
    <3>4. QED
      BY <2>2, <2>3, <3>1, <3>2, <3>3
  <2>5. QED
    BY <2>3, <2>4 DEF Excess
<1>10. Reported
  BY <1>5 DEF Reported
<1>11. QED
  BY <1>7, <1>8, <1>9, <1>10 DEF IInv

\* Every step of the two warps keeps it.
LEMMA StepHolds ==
  ASSUME IInv, [Next]_vars
  PROVE  IInv'
<1>1. CASE Fetch0 BY <1>1, Fetch0Keeps
<1>2. CASE Fetch1 BY <1>2, Fetch1Keeps
<1>3. CASE AllRead BY <1>3, AllReadKeeps
<1>4. CASE AllWritten BY <1>4, AllWrittenKeeps
<1>5. CASE Encode BY <1>5, EncodeKeeps
<1>6. CASE StartSearch BY <1>6, StartSearchKeeps
<1>7. CASE Search BY <1>7, SearchKeeps
<1>8. CASE Extend BY <1>8, ExtendKeeps
<1>9. CASE Finish BY <1>9, FinishKeeps
<1>10. CASE UNCHANGED vars
  <2>1. UNCHANGED <<src, end, dst, literal_length, copy_length, copy_distance,
                    hash_map, warp0, warp1, status>>
    BY <1>10 DEF vars, words
  <2>2. TypeOK' = TypeOK /\ Excess' = Excess /\ Reported' = Reported
    BY <2>1 DEF TypeOK, Excess, Reported, SrcLen
  <2>3. Together => Together'
    BY <2>1 DEF Together, Found, Symbol, SrcLen
  <2>4. Apart => Apart'
    BY <2>1 DEF Apart, Behind, Found, Symbol, SrcLen, SearchesOn
  <2>5. QED
    BY <2>2, <2>3, <2>4 DEF IInv
<1>11. QED
  BY <1>1, <1>2, <1>3, <1>4, <1>5, <1>6, <1>7, <1>8, <1>9, <1>10
  DEF Next, Step, Ended

\* The invariant holds in every state of the compressor.
THEOREM Inductive == Spec => []IInv
BY InitHolds, StepHolds, PTL DEF Spec

\* Every variable keeps its type: in particular no literal and no copy is longer
\* or reaches further than its header can tell, and every entry of the table is
\* below the window (store_literals, store_copy, find_four_byte_match).
THEOREM TypeCorrect == Spec => []TypeOK
<1>1. IInv => TypeOK
  BY DEF IInv
<1>2. QED
  BY <1>1, Inductive, PTL

\* The stream exceeds what it stands for by a byte for each 60 bytes at most,
\* and three: its size, and a last literal that is short (snap_kernel).
THEOREM BoundKept == Spec => []OutputBound
<1>1. ASSUME IInv PROVE OutputBound
  <2>1. TypeOK /\ Excess
    BY <1>1 DEF IInv
  <2>2. PICK long \in 0 .. warp0.pos :
          /\ LongLiteral * long <= warp0.pos
          /\ Len(dst) <= Len(SizeBytes[SrcLen]) + warp0.pos + long
                           + (IF warp0.pos = SrcLen THEN 2 ELSE 0)
    BY <2>1 DEF Excess
  <2>3. /\ warp0.pos \in Nat /\ SrcLen \in Nat /\ Len(dst) \in Nat
        /\ Len(SizeBytes[SrcLen]) \in Nat
    <3>1. warp0.pos \in Nat /\ SrcLen \in Nat /\ Len(dst) \in Nat
      BY <2>1, Types
    <3>2. SizeBytes[SrcLen] \in Seq(Byte)
      BY <3>1, SizeRecursion
    <3>3. QED
      BY <3>1, <3>2
  <2>4. LongLiteral \in Nat /\ 1 <= LongLiteral
    BY LongLiterals
  <2>5. long <= warp0.pos \div LongLiteral
    <3>1. PICK q \in Nat : q = warp0.pos \div LongLiteral
      BY <2>3, <2>4
    <3>2. warp0.pos < LongLiteral * (q + 1)
      <4>1. PICK a, n \in Nat : a = warp0.pos /\ n = LongLiteral
        BY <2>3, <2>4
      <4>2. 1 <= n /\ q = a \div n
        BY <2>4, <3>1, <4>1
      <4>3. PICK m \in Nat : m < n /\ a = n * q + m
        <5>1. a % n \in Nat /\ a % n < n /\ a = n * (a \div n) + (a % n)
          BY ONLY <4>2, a \in Nat, n \in Nat
        <5>2. QED
          BY <4>2, <5>1
      <4>4. n * (q + 1) = n * q + n
        OBVIOUS
      <4>5. PICK k \in Nat : k = n * q
        OBVIOUS
      <4>6. QED
        BY ONLY <4>1, <4>3, <4>4, <4>5, n \in Nat, a \in Nat
    <3>3. \A a, b, k \in Nat : a * b < a * k => b < k
      <4>1. SUFFICES ASSUME NEW a \in Nat, NEW b \in Nat, NEW k \in Nat, k <= b
                     PROVE  a * k <= a * b
        OBVIOUS
      <4>2. PICK e \in Nat : b = k + e
        BY <4>1
      <4>3. a * (k + e) = a * k + a * e /\ a * e \in Nat
        OBVIOUS
      <4>4. QED
        BY <4>2, <4>3
    <3>4. LongLiteral * long < LongLiteral * (q + 1)
      <4>1. PICK m, n \in Nat : m = LongLiteral * long /\ n = LongLiteral * (q + 1)
        BY <2>2, <2>3, <2>4
      <4>2. QED
        BY <2>2, <2>3, <3>2, <4>1
    <3>5. long < q + 1
      BY <2>2, <2>4, <3>1, <3>3, <3>4
    <3>6. QED
      BY <2>2, <2>3, <3>1, <3>5
  <2>6. warp0.pos \div LongLiteral \in Nat
    BY <2>3, <2>4
  <2>7. Len(dst) <= Len(SizeBytes[SrcLen]) + warp0.pos + warp0.pos \div LongLiteral + 2
    BY <2>2, <2>3, <2>5, <2>6
  <2>8. QED
    BY <2>7 DEF OutputBound, LongLiteral
<1>2. QED
  BY <1>1, Inductive, PTL

\* A buffer of the size that the host calculates (get_max_compressed_length)
\* has always room for the stream.
THEOREM NeverFull ==
  Spec => [](end >= MaxCompressedLength(SrcLen) => status # "error")
<1>1. ASSUME IInv PROVE end >= MaxCompressedLength(SrcLen) => status # "error"
  <2>0. SUFFICES ASSUME end >= MaxCompressedLength(SrcLen), status = "error"
                 PROVE  FALSE
    OBVIOUS
  <2>1. TypeOK /\ Excess /\ ~(Len(dst) <= end)
    BY <1>1, <2>0 DEF IInv, Reported
  <2>2. PICK long \in 0 .. warp0.pos :
          /\ LongLiteral * long <= warp0.pos
          /\ Len(dst) <= Len(SizeBytes[SrcLen]) + warp0.pos + long
                           + (IF warp0.pos = SrcLen THEN 2 ELSE 0)
    BY <2>1 DEF Excess
  <2>3. PICK pos, n, d, a, l \in Nat :
          pos = warp0.pos /\ n = SrcLen /\ d = Len(dst) /\ a = end /\ l = long
    <3>1. warp0.pos \in Nat /\ SrcLen \in Nat /\ Len(dst) \in Nat /\ end \in Nat
      BY <2>1, Types
    <3>2. long \in Nat
      BY <3>1
    <3>3. QED
      BY <3>1, <3>2, Zenon
  <2>4. pos <= n /\ n <= MaxSize
    <3>1. src \in Sources /\ warp0.pos <= SrcLen
      BY <2>1, Types
    <3>2. \A s \in Sources : Len(s) <= MaxSize
      BY ONLY SnapAssumption
    <3>3. QED
      BY <2>3, <3>1, <3>2, Zenon DEF SrcLen
  <2>5. PICK size \in Nat : size = Len(SizeBytes[n]) /\ size <= 5
    <3>1. Len(SizeBytes[n]) \in 1 .. 5
      BY <2>4, SizeLength
    <3>2. PICK size \in 1 .. 5 : size = Len(SizeBytes[n])
      BY ONLY <3>1, Zenon
    <3>3. size \in Nat /\ size <= 5
      OBVIOUS
    <3>4. QED
      BY <3>2, <3>3, Zenon
  <2>6. 6 * l <= pos
    <3>1. LongLiteral \in Nat /\ 6 <= LongLiteral
      BY LongLiterals
    <3>2. PICK e \in Nat : LongLiteral = 6 + e
      <4>1. LongLiteral - 6 \in Nat /\ LongLiteral = 6 + (LongLiteral - 6)
        BY <3>1
      <4>2. QED
        BY <4>1
    <3>3. (6 + e) * l = 6 * l + e * l /\ e * l \in Nat
      OBVIOUS
    <3>4. QED
      BY <2>2, <2>3, <3>2, <3>3
  <2>7. d <= size + pos + l + 2
    <3>1. d <= size + pos + l + (IF warp0.pos = SrcLen THEN 2 ELSE 0)
      BY <2>2, <2>3, <2>5
    <3>2. QED
      BY ONLY <3>1, d \in Nat, size \in Nat, pos \in Nat, l \in Nat
  <2>8. a >= 32 + n + n \div 6
    BY <2>0, <2>3 DEF MaxCompressedLength
  <2>9. ~(d <= a)
    BY <2>1, <2>3
  <2>10. l <= n \div 6
    BY ONLY <2>4, <2>6, l \in Nat, n \in Nat, pos \in Nat
  <2>11. n \div 6 \in Nat
    OBVIOUS
  <2>12. QED
    BY ONLY <2>4, <2>5, <2>7, <2>8, <2>9, <2>10, <2>11, l \in Nat, n \in Nat,
            pos \in Nat, d \in Nat, a \in Nat, size \in Nat
<1>2. QED
  BY <1>1, Inductive, PTL

-----------------------------------------------------------------------------
(* The stream so far.                                                      *)

\* At position p of a stream, behind t bytes of the text s, stands a literal of
\* l bytes; the next symbol is at q and behind u bytes.
LiteralStands(s, bytes, p, t, q, u, l) ==
  /\ Stands(bytes, p, LiteralHeader(l - 1))
  /\ q = p + Len(LiteralHeader(l - 1)) + l /\ u = t + l
  /\ \A k \in 1 .. l : bytes[p + Len(LiteralHeader(l - 1)) + k - 1] = s[t + k]

\* So for a copy of len bytes from dist before.
CopyStands(s, bytes, p, t, q, u, len, dist) ==
  /\ Stands(bytes, p, CopyHeader(len, dist))
  /\ q = p + Len(CopyHeader(len, dist)) /\ u = t + len
  /\ dist <= t /\ GoesOn(s, dist, t, len)

\* What the compressor writes.
LiteralFits(l)      == l \in Nat /\ 1 <= l /\ l <= 256
CopyFits(len, dist) == /\ len \in Nat /\ 4 <= len /\ len <= 64
                       /\ dist \in Nat /\ 1 <= dist /\ dist < 256 * 256

SymbolStands(s, bytes, p, t, q, u) ==
  \/ \E l : LiteralFits(l) /\ LiteralStands(s, bytes, p, t, q, u, l)
  \/ \E len, dist : CopyFits(len, dist)
                      /\ CopyStands(s, bytes, p, t, q, u, len, dist)

\* m symbols of a stream: symbol i + 1 stands at P[i] and behind T[i] bytes.
Listed(s, bytes, m, P, T) ==
  /\ P \in [0 .. m -> Nat] /\ T \in [0 .. m -> 0 .. Len(s)]
  /\ P[0] = Len(SizeBytes[Len(s)]) + 1 /\ T[0] = 0
  /\ P[m] = Len(bytes) + 1 /\ m <= Len(bytes)
  /\ \A i \in 0 .. m : 1 <= P[i] /\ P[i] <= Len(bytes) + 1
  /\ \A i, j \in 0 .. m :
       j = i + 1 => /\ P[i] <= Len(bytes)
                    /\ SymbolStands(s, bytes, P[i], T[i], P[j], T[j])

\* A stream that stands for the first n bytes of s.
Stream(s, bytes, n) ==
  /\ Len(SizeBytes[Len(s)]) <= Len(bytes) /\ SizeStands(bytes, 0, Len(s))
  /\ \E m \in Nat : \E P, T : Listed(s, bytes, m, P, T) /\ T[m] = n

\* The size alone stands for nothing yet.
LEMMA StreamBegins ==
  ASSUME NEW s, s \in Seq(Byte), NEW bytes, bytes = SizeBytes[Len(s)]
  PROVE  Stream(s, bytes, 0)
<1>1. Len(s) \in Nat /\ bytes \in Seq(Byte) /\ Len(bytes) \in Nat
  BY SizeRecursion
<1>. DEFINE P == [i \in 0 .. 0 |-> Len(bytes) + 1]
            T == [i \in 0 .. 0 |-> 0]
<1>2. P \in [0 .. 0 -> Nat] /\ T \in [0 .. 0 -> 0 .. Len(s)]
  BY <1>1
<1>3. P[0] = Len(bytes) + 1 /\ T[0] = 0
  OBVIOUS
<1>4. \A i \in 0 .. 0 : i = 0
  OBVIOUS
<1>. HIDE DEF P, T
<1>5. \A i \in 0 .. 0 : 1 <= P[i] /\ P[i] <= Len(bytes) + 1
  BY <1>1, <1>3, <1>4
<1>6. \A i, j \in 0 .. 0 : j # i + 1
  OBVIOUS
<1>7. 0 <= Len(bytes)
  BY <1>1
<1>8. Listed(s, bytes, 0, P, T)
  BY <1>2, <1>3, <1>5, <1>6, <1>7 DEF Listed
<1>9. SizeStands(bytes, 0, Len(s))
  BY <1>1 DEF SizeStands
<1>10. Len(SizeBytes[Len(s)]) <= Len(bytes)
  BY <1>1
<1>11. QED
  BY <1>3, <1>8, <1>9, <1>10 DEF Stream

\* One sequence begins with another.
Begins(e, d) == /\ d \in Seq(Cell) /\ e \in Seq(Cell) /\ Len(d) <= Len(e)
                /\ \A i \in 1 .. Len(d) : e[i] = d[i]

\* What stands in a stream stands there still when more is written.
LEMMA HeaderStays ==
  ASSUME NEW d, NEW e, Begins(e, d), NEW p, p \in Nat, 1 <= p, NEW h, h \in Seq(Byte),
         p + Len(h) <= Len(d) + 1, Stands(d, p, h)
  PROVE  Stands(e, p, h)
<1>1. Len(d) \in Nat /\ Len(h) \in Nat
  BY DEF Begins
<1>2. ASSUME NEW i \in 1 .. Len(h) PROVE e[p + i - 1] = h[i]
  <2>1. p + i - 1 \in 1 .. Len(d)
    BY <1>1
  <2>2. d[p + i - 1] = h[i]
    BY DEF Stands
  <2>3. QED
    BY <2>1, <2>2 DEF Begins
<1>3. QED
  BY <1>2 DEF Stands

\* A symbol as a whole.
LEMMA SymbolStays ==
  ASSUME NEW d, NEW e, Begins(e, d), NEW p, p \in Nat, 1 <= p, NEW s,
         NEW t, NEW q, NEW u, q <= Len(d) + 1, SymbolStands(s, d, p, t, q, u)
  PROVE  SymbolStands(s, e, p, t, q, u)
<1>1. Len(d) \in Nat
  BY DEF Begins
<1>2. CASE \E l : LiteralFits(l) /\ LiteralStands(s, d, p, t, q, u, l)
  <2>1. PICK l : LiteralFits(l) /\ LiteralStands(s, d, p, t, q, u, l)
    BY <1>2
  <2>2. PICK h : h = LiteralHeader(l - 1)
    OBVIOUS
  <2>3. l \in Nat /\ 1 <= l /\ l <= 256
    BY <2>1 DEF LiteralFits
  <2>4. h \in Seq(Byte) /\ Len(h) \in Nat
    <3>1. h \in Seq(Byte)
      BY <2>2, <2>3, LiteralHeaderIs, Zenon
    <3>2. QED
      BY <3>1
  <2>5. /\ Stands(d, p, h) /\ q = p + Len(h) + l /\ u = t + l
        /\ \A k \in 1 .. l : d[p + Len(h) + k - 1] = s[t + k]
    BY <2>1, <2>2 DEF LiteralStands
  <2>6. Stands(e, p, h)
    <3>1. p + Len(h) <= Len(d) + 1
      BY <1>1, <2>3, <2>4, <2>5
    <3>2. QED
      BY <2>4, <2>5, <3>1, HeaderStays
  <2>7. ASSUME NEW k \in 1 .. l PROVE e[p + Len(h) + k - 1] = s[t + k]
    <3>1. p + Len(h) + k - 1 \in 1 .. Len(d)
      BY <1>1, <2>3, <2>4, <2>5
    <3>2. d[p + Len(h) + k - 1] = s[t + k]
      BY <2>5
    <3>3. QED
      BY <3>1, <3>2 DEF Begins
  <2>8. LiteralStands(s, e, p, t, q, u, l)
    BY <2>2, <2>5, <2>6, <2>7 DEF LiteralStands
  <2>9. QED
    BY <2>1, <2>8 DEF SymbolStands
<1>3. CASE \E len, dist : /\ CopyFits(len, dist)
                          /\ CopyStands(s, d, p, t, q, u, len, dist)
  <2>1. PICK len, dist : /\ CopyFits(len, dist)
                         /\ CopyStands(s, d, p, t, q, u, len, dist)
    BY <1>3
  <2>2. PICK h : h = CopyHeader(len, dist)
    OBVIOUS
  <2>3. len \in Nat /\ 4 <= len /\ len <= 64 /\ dist \in Nat
    BY <2>1, SMT DEF CopyFits
  <2>4. h \in Seq(Byte) /\ Len(h) \in Nat
    <3>1. h \in Seq(Byte)
      BY <2>2, <2>3, CopyHeaderIs, Zenon
    <3>2. QED
      BY <3>1
  <2>5. Stands(d, p, h) /\ q = p + Len(h)
    BY <2>1, <2>2 DEF CopyStands
  <2>6. Stands(e, p, h)
    BY <1>1, <2>4, <2>5, HeaderStays
  <2>7. CopyStands(s, e, p, t, q, u, len, dist)
    BY <2>1, <2>2, <2>6 DEF CopyStands
  <2>8. QED
    BY <2>1, <2>7 DEF SymbolStands
<1>4. QED
  BY <1>2, <1>3 DEF SymbolStands

\* A stream that is longer by a symbol stands for what the symbol adds.
LEMMA StreamGrows ==
  ASSUME NEW s, s \in Seq(Byte), NEW d, NEW e, Begins(e, d), Len(d) < Len(e),
         NEW n, NEW u, Stream(s, d, n), u \in 0 .. Len(s),
         SymbolStands(s, e, Len(d) + 1, n, Len(e) + 1, u)
  PROVE  Stream(s, e, u)
<1>1. /\ Len(d) \in Nat /\ Len(e) \in Nat /\ Len(s) \in Nat
      /\ \A i \in 1 .. Len(d) : e[i] = d[i]
  BY DEF Begins
<1>2. PICK m \in Nat : \E P, T : Listed(s, d, m, P, T) /\ T[m] = n
  BY DEF Stream
<1>3. PICK P, T : Listed(s, d, m, P, T) /\ T[m] = n
  BY <1>2
<1>4. /\ P \in [0 .. m -> Nat] /\ T \in [0 .. m -> 0 .. Len(s)]
      /\ P[0] = Len(SizeBytes[Len(s)]) + 1 /\ T[0] = 0
      /\ P[m] = Len(d) + 1 /\ m <= Len(d)
      /\ \A i \in 0 .. m : 1 <= P[i] /\ P[i] <= Len(d) + 1
      /\ \A i, j \in 0 .. m :
           j = i + 1 => /\ P[i] <= Len(d)
                        /\ SymbolStands(s, d, P[i], T[i], P[j], T[j])
  BY <1>3 DEF Listed
<1>5. PICK k : k = m + 1
  OBVIOUS
<1>6. /\ k \in Nat /\ \A i \in 0 .. k : i \in 0 .. m \/ i = k
      /\ \A i \in 0 .. m : i # k /\ i \in 0 .. k /\ i <= m
      /\ 0 \in 0 .. m /\ m \in 0 .. m /\ k \in 0 .. k
  BY <1>5
<1>. DEFINE Q == [i \in 0 .. k |-> IF i = k THEN Len(e) + 1 ELSE P[i]]
            U == [i \in 0 .. k |-> IF i = k THEN u ELSE T[i]]
<1>7. Q[k] = Len(e) + 1 /\ U[k] = u
  BY <1>6
<1>8. \A i \in 0 .. m : Q[i] = P[i] /\ U[i] = T[i]
  BY <1>6
<1>9. Q \in [0 .. k -> Nat] /\ U \in [0 .. k -> 0 .. Len(s)]
  <2>1. \A i \in 0 .. m : P[i] \in Nat /\ T[i] \in 0 .. Len(s)
    BY <1>4
  <2>2. Len(e) + 1 \in Nat
    BY <1>1
  <2>3. \A i \in 0 .. k : /\ (IF i = k THEN Len(e) + 1 ELSE P[i]) \in Nat
                          /\ (IF i = k THEN u ELSE T[i]) \in 0 .. Len(s)
    BY ONLY <1>6, <2>1, <2>2, u \in 0 .. Len(s), Zenon
  <2>4. QED
    BY ONLY <2>3, Zenon DEF Q, U
<1>. HIDE DEF Q, U
<1>10. \A i \in 0 .. k : 1 <= Q[i] /\ Q[i] <= Len(e) + 1
  <2>1. SUFFICES ASSUME NEW i \in 0 .. k PROVE 1 <= Q[i] /\ Q[i] <= Len(e) + 1
    OBVIOUS
  <2>2. CASE i = k
    BY <1>1, <1>7, <2>2
  <2>3. CASE i \in 0 .. m
    <3>1. PICK p \in Nat : p = P[i]
      BY <1>4, <2>3
    <3>2. 1 <= p /\ p <= Len(d) + 1
      BY <1>4, <2>3, <3>1
    <3>3. Q[i] = p
      BY <1>8, <2>3, <3>1
    <3>4. QED
      BY <1>1, <3>2, <3>3
  <2>4. QED
    BY <1>6, <2>2, <2>3
<1>11. ASSUME NEW i \in 0 .. k, NEW j \in 0 .. k, j = i + 1
       PROVE  Q[i] <= Len(e) /\ SymbolStands(s, e, Q[i], U[i], Q[j], U[j])
  <2>1. CASE j = k
    <3>1. i = m
      BY <1>5, <1>11, <2>1
    <3>2. Q[i] = Len(d) + 1 /\ U[i] = n
      BY <1>3, <1>4, <1>6, <1>8, <3>1
    <3>3. Q[i] <= Len(e)
      BY <1>1, <3>2
    <3>4. Q[j] = Len(e) + 1 /\ U[j] = u
      BY <1>7, <2>1
    <3>5. QED
      BY <3>2, <3>3, <3>4
  <2>2. CASE j # k
    <3>1. i \in 0 .. m /\ j \in 0 .. m
      BY <1>5, <1>11, <2>2
    <3>2. PICK p, t, q, v : p = P[i] /\ t = T[i] /\ q = P[j] /\ v = T[j]
      OBVIOUS
    <3>3. p \in Nat /\ 1 <= p /\ p <= Len(d) /\ q <= Len(d) + 1
            /\ SymbolStands(s, d, p, t, q, v)
      BY <1>4, <1>11, <3>1, <3>2
    <3>4. SymbolStands(s, e, p, t, q, v)
      BY <3>3, SymbolStays
    <3>5. p <= Len(e)
      BY <1>1, <3>3
    <3>6. Q[i] = p /\ U[i] = t /\ Q[j] = q /\ U[j] = v
      BY <1>8, <3>1, <3>2
    <3>7. QED
      BY <3>4, <3>5, <3>6
  <2>3. QED
    BY <2>1, <2>2
<1>12. k <= Len(e)
  BY <1>1, <1>4, <1>5
<1>13. Q[0] = Len(SizeBytes[Len(s)]) + 1 /\ U[0] = 0
  BY <1>4, <1>6, <1>8
<1>14. Listed(s, e, k, Q, U)
  BY <1>7, <1>9, <1>10, <1>11, <1>12, <1>13 DEF Listed
<1>15. Len(SizeBytes[Len(s)]) <= Len(e) /\ SizeStands(e, 0, Len(s))
  <2>1. PICK size : size = SizeBytes[Len(s)]
    OBVIOUS
  <2>2. size \in Seq(Byte) /\ Len(size) \in Nat
    BY <1>1, <2>1, SizeRecursion
  <2>3. Len(size) <= Len(d) /\ \A i \in 1 .. Len(size) : d[0 + i] = size[i]
    BY <2>1 DEF Stream, SizeStands
  <2>4. \A i \in 1 .. Len(size) : 0 + i = i /\ i \in 1 .. Len(d)
    BY <1>1, <2>2, <2>3
  <2>5. \A i \in 1 .. Len(size) : e[0 + i] = size[i]
    BY <1>1, <2>3, <2>4
  <2>6. Len(size) <= Len(e)
    BY <1>1, <2>2, <2>3
  <2>7. QED
    BY <2>1, <2>5, <2>6 DEF SizeStands
<1>16. QED
  BY <1>6, <1>7, <1>14, <1>15 DEF Stream

\* e goes on where d ends, with h.
Continues(e, d, h) == /\ Begins(e, d) /\ Len(e) = Len(d) + Len(h)
                      /\ \A i \in 1 .. Len(h) : e[Len(d) + i] = h[i]

\* What is appended stands behind what was there.
LEMMA Appended ==
  ASSUME NEW d, d \in Seq(Cell), NEW h, h \in Seq(Byte), NEW e, e = d \o h
  PROVE  Continues(e, d, h)
<1>1. h \in Seq(Cell)
  BY DEF Cell
<1>2. Len(d) \in Nat /\ Len(h) \in Nat
  OBVIOUS
<1>. HIDE DEF Cell
<1>3. e \in Seq(Cell) /\ Len(e) = Len(d) + Len(h)
  BY <1>1
<1>4. \A i \in 1 .. Len(d) : e[i] = d[i]
  BY <1>1
<1>5. ASSUME NEW i \in 1 .. Len(h) PROVE e[Len(d) + i] = h[i]
  BY <1>1, <1>2
<1>6. QED
  BY <1>2, <1>3, <1>4, <1>5 DEF Begins, Continues

\* A literal is written.
LEMMA LiteralGrows ==
  ASSUME NEW s, s \in Seq(Byte), NEW d, d \in Seq(Cell), NEW n, n \in Nat,
         Stream(s, d, n), NEW l, LiteralFits(l), n + l <= Len(s),
         NEW e, e = (d \o LiteralHeader(l - 1)) \o SubSeq(s, n + 1, n + l)
  PROVE  e \in Seq(Cell) /\ Stream(s, e, n + l)
<1>1. l \in Nat /\ 1 <= l /\ l <= 256 /\ Len(d) \in Nat /\ Len(s) \in Nat
  BY DEF LiteralFits
<1>2. PICK h : h = LiteralHeader(l - 1)
  OBVIOUS
<1>3. h \in Seq(Byte) /\ Len(h) \in Nat
  <2>1. h \in Seq(Byte)
    BY <1>1, <1>2, LiteralHeaderIs, Zenon
  <2>2. QED
    BY <2>1
<1>4. PICK b : b = SubSeq(s, n + 1, n + l)
  OBVIOUS
<1>5. /\ b \in Seq(Byte) /\ Len(b) = l
      /\ \A k \in 1 .. l : b[k] = s[n + k]
  BY <1>1, <1>4
<1>6. PICK c : c = d \o h
  OBVIOUS
<1>7. /\ Begins(c, d) /\ Len(c) = Len(d) + Len(h)
      /\ \A i \in 1 .. Len(h) : c[Len(d) + i] = h[i]
  <2>1. Continues(c, d, h)
    BY <1>3, <1>6, Appended, Zenon
  <2>2. QED
    BY <2>1 DEF Continues
<1>8. c \in Seq(Cell)
  BY <1>7 DEF Begins
<1>9. e = c \o b
  BY <1>2, <1>4, <1>6
<1>10. /\ Begins(e, c) /\ Len(e) = Len(c) + Len(b)
       /\ \A i \in 1 .. Len(b) : e[Len(c) + i] = b[i]
  <2>1. Continues(e, c, b)
    BY <1>5, <1>8, <1>9, Appended, Zenon
  <2>2. QED
    BY <2>1 DEF Continues
<1>11. Begins(e, d)
  <2>1. \A i \in 1 .. Len(d) : i \in 1 .. Len(c)
    BY <1>1, <1>3, <1>7
  <2>2. \A i \in 1 .. Len(d) : e[i] = d[i]
    BY <1>7, <1>10, <2>1 DEF Begins
  <2>3. Len(d) <= Len(e)
    BY <1>1, <1>3, <1>5, <1>7, <1>10
  <2>4. QED
    BY <1>10, <2>2, <2>3 DEF Begins
<1>12. PICK p, q, u \in Nat : p = Len(d) + 1 /\ q = Len(e) + 1 /\ u = n + l
  <2>1. Len(e) \in Nat
    BY <1>1, <1>3, <1>5, <1>7, <1>10
  <2>2. Len(d) + 1 \in Nat /\ Len(e) + 1 \in Nat /\ n + l \in Nat
    BY <1>1, <2>1
  <2>3. QED
    BY <2>2, Zenon
<1>13. LiteralStands(s, e, p, n, q, u, l)
  <2>1. Stands(e, p, h)
    <3>1. ASSUME NEW i \in 1 .. Len(h) PROVE e[p + i - 1] = h[i]
      <4>1. PICK j \in Nat : j = Len(d) + i
        BY <1>1, <1>3
      <4>2. p + i - 1 = j /\ j \in 1 .. Len(c)
        BY <1>1, <1>3, <1>7, <1>12, <4>1
      <4>3. e[j] = c[j] /\ c[j] = h[i]
        BY <1>7, <1>10, <4>1, <4>2 DEF Begins
      <4>4. QED
        BY <4>2, <4>3
    <3>2. QED
      BY <3>1 DEF Stands
  <2>2. ASSUME NEW k \in 1 .. l PROVE e[p + Len(h) + k - 1] = s[n + k]
    <3>1. PICK j \in Nat : j = Len(c) + k
      BY <1>1, <1>3, <1>7
    <3>2. p + Len(h) + k - 1 = j
      BY <1>1, <1>3, <1>7, <1>12, <3>1
    <3>3. e[j] = b[k] /\ b[k] = s[n + k]
      BY <1>5, <1>10, <3>1
    <3>4. QED
      BY <3>2, <3>3
  <2>3. q = p + Len(h) + l
    BY <1>1, <1>3, <1>5, <1>7, <1>10, <1>12
  <2>4. QED
    BY <1>2, <1>12, <2>1, <2>2, <2>3 DEF LiteralStands
<1>14. SymbolStands(s, e, p, n, q, u)
  BY <1>13 DEF SymbolStands
<1>15. Len(d) < Len(e) /\ u \in 0 .. Len(s)
  <2>1. u <= Len(s)
    BY <1>12
  <2>2. Len(d) < Len(e)
    BY <1>1, <1>3, <1>5, <1>7, <1>10
  <2>3. QED
    BY <1>1, <1>12, <2>1, <2>2
<1>16. Stream(s, e, u)
  BY <1>11, <1>12, <1>14, <1>15, StreamGrows
<1>17. QED
  BY <1>10, <1>12, <1>16 DEF Begins

\* A copy is written.
LEMMA CopyGrows ==
  ASSUME NEW s, s \in Seq(Byte), NEW d, d \in Seq(Cell), NEW n, n \in Nat,
         Stream(s, d, n), NEW len, NEW dist, CopyFits(len, dist),
         n + len <= Len(s), dist <= n, GoesOn(s, dist, n, len),
         NEW e, e = d \o CopyHeader(len, dist)
  PROVE  e \in Seq(Cell) /\ Stream(s, e, n + len)
<1>1. /\ len \in Nat /\ 4 <= len /\ len <= 64 /\ dist \in Nat
      /\ Len(d) \in Nat /\ Len(s) \in Nat
  BY SMT DEF CopyFits
<1>2. PICK h : h = CopyHeader(len, dist)
  OBVIOUS
<1>3. h \in Seq(Byte) /\ Len(h) \in Nat /\ 1 <= Len(h)
  <2>1. h \in Seq(Byte) /\ Len(h) \in {2, 3}
    BY <1>1, <1>2, CopyHeaderIs, Zenon
  <2>2. \A i \in {2, 3} : i \in Nat /\ 1 <= i
    OBVIOUS
  <2>3. QED
    BY ONLY <2>1, <2>2, Zenon
<1>4. /\ Begins(e, d) /\ Len(e) = Len(d) + Len(h)
      /\ \A i \in 1 .. Len(h) : e[Len(d) + i] = h[i]
  <2>1. Continues(e, d, h)
    BY <1>2, <1>3, Appended, Zenon
  <2>2. QED
    BY <2>1 DEF Continues
<1>5. PICK p, q, u \in Nat : p = Len(d) + 1 /\ q = Len(e) + 1 /\ u = n + len
  BY <1>1, <1>3, <1>4
<1>6. Stands(e, p, h)
  <2>1. \A i \in 1 .. Len(h) : p + i - 1 = Len(d) + i
    BY <1>1, <1>3, <1>5
  <2>2. QED
    BY <1>4, <2>1 DEF Stands
<1>7. q = p + Len(h)
  BY <1>1, <1>3, <1>4, <1>5
<1>8. CopyStands(s, e, p, n, q, u, len, dist)
  BY <1>2, <1>5, <1>6, <1>7 DEF CopyStands
<1>9. SymbolStands(s, e, p, n, q, u)
  BY <1>8 DEF SymbolStands
<1>10. Len(d) < Len(e) /\ u \in 0 .. Len(s)
  BY <1>1, <1>3, <1>4, <1>5
<1>11. Stream(s, e, u)
  BY <1>4, <1>5, <1>9, <1>10, StreamGrows
<1>12. QED
  BY <1>4, <1>5, <1>11 DEF Begins

\* As long as it fits, the output stands for what warp 0 is behind.
StreamInv ==
  Len(dst) <= end => dst \in Seq(Byte) /\ Stream(src, dst, warp0.pos)

\* What is appended to bytes makes bytes.
LEMMA BytesOn ==
  ASSUME NEW d, d \in Seq(Byte), NEW h, h \in Seq(Byte)
  PROVE  d \o h \in Seq(Byte)
OBVIOUS

\* The literal of warp 0.
LEMMA LiteralStream ==
  ASSUME TypeOK, StreamInv, warp0.lit <= MaxLiteral,
         warp0.pos + warp0.lit <= SrcLen, Len(Literal(dst)) <= end
  PROVE  /\ Literal(dst) \in Seq(Byte) /\ Literal(dst) \in Seq(Cell)
         /\ Stream(src, Literal(dst), warp0.pos + warp0.lit)
<1>1. /\ warp0.lit \in Nat /\ warp0.pos \in Nat /\ Len(dst) \in Nat
      /\ src \in Seq(Byte) /\ SrcLen \in Nat /\ end \in Nat
  BY Types
<1>2. dst \in Seq(Cell)
  BY Types DEF Cell
<1>3. CASE warp0.lit = 0
  <2>1. Literal(dst) = dst /\ warp0.pos + warp0.lit = warp0.pos
    BY <1>1, <1>3 DEF Literal
  <2>2. QED
    BY <1>2, <2>1 DEF StreamInv
<1>4. CASE warp0.lit > 0
  <2>1. PICK e : e = Literal(dst)
    OBVIOUS
  <2>2. Added(e, dst, (IF warp0.lit <= 60 THEN 1 ELSE 2) + warp0.lit, LiteralWhole(dst))
    BY <1>2, <1>4, <2>1, LiteralAdds, Zenon
  <2>3. e = LiteralWhole(dst) /\ Len(dst) <= end
    <3>1. e = LiteralWhole(dst)
      BY <2>1, <2>2 DEF Added
    <3>2. Len(e) = Len(dst) + ((IF warp0.lit <= 60 THEN 1 ELSE 2) + warp0.lit)
      BY <2>2 DEF Added
    <3>3. Len(dst) <= Len(e)
      BY <1>1, <3>2
    <3>4. QED
      BY <1>1, <2>1, <3>1, <3>2, <3>3
  <2>4. dst \in Seq(Byte) /\ Stream(src, dst, warp0.pos)
    BY <2>3 DEF StreamInv
  <2>5. LiteralFits(warp0.lit)
    BY <1>1, <1>4, Constants DEF LiteralFits
  <2>6. PICK l, n \in Nat : l = warp0.lit /\ n = warp0.pos
    BY <1>1
  <2>7. e = (dst \o LiteralHeader(l - 1)) \o SubSeq(src, n + 1, n + l)
    BY <2>3, <2>6 DEF LiteralWhole
  <2>8. n + l <= Len(src) /\ Len(src) \in Nat
    BY <1>1, <2>6 DEF SrcLen
  <2>9. Stream(src, e, n + l) /\ e \in Seq(Cell)
    BY <1>1, <1>2, <2>4, <2>5, <2>6, <2>7, <2>8, LiteralGrows, Zenon
  <2>10. e \in Seq(Byte)
    <3>1. LiteralHeader(l - 1) \in Seq(Byte)
      BY <2>5, <2>6, LiteralHeaderIs, Zenon DEF LiteralFits
    <3>2. SubSeq(src, n + 1, n + l) \in Seq(Byte)
      BY <1>1, <2>8
    <3>3. QED
      BY <2>4, <2>7, <3>1, <3>2, BytesOn, Zenon
  <2>11. QED
    BY <2>1, <2>6, <2>9, <2>10
<1>5. QED
  BY <1>1, <1>3, <1>4

\* Warp 0 writes its symbol.
LEMMA EncodeStream ==
  ASSUME IInv, StreamInv, Encode
  PROVE  StreamInv'
<1>1. /\ warp0.pc = "work" /\ dst' = Copy(Literal(dst)) /\ src' = src /\ end' = end
      /\ warp0' = [warp0 EXCEPT !.pc = "written", !.pos = @ + warp0.lit + warp0.copy]
  BY DEF Encode
<1>2. TypeOK /\ Apart
  BY <1>1 DEF IInv, Together
<1>3. /\ warp0.pos \in Nat /\ warp0.lit \in Nat /\ warp0.copy \in Nat
      /\ warp0.dist \in Nat /\ SrcLen \in Nat /\ src \in Seq(Byte) /\ end \in Nat
  BY <1>2, Types
<1>4. /\ Symbol(warp0.pos, warp0.lit, warp0.copy, warp0.dist)
      /\ warp0.lit <= MaxLiteral /\ warp0.copy \in {0} \cup MinMatch .. MaxCopy
      /\ warp0.dist <= MaxDistance
  BY <1>1, <1>2 DEF Apart
<1>5. warp0.pos + warp0.lit <= SrcLen
  BY <1>3, <1>4 DEF Symbol
<1>6. warp0'.pos = warp0.pos + warp0.lit + warp0.copy
  <2>1. warp0 \in [pc : Labels, pos : 0 .. SrcLen, lit : Nat, copy : Nat, dist : Nat]
    BY <1>2 DEF TypeOK
  <2>2. QED
    BY <1>1, <2>1
<1>7. SUFFICES ASSUME Len(dst') <= end
               PROVE  /\ dst' \in Seq(Byte)
                      /\ Stream(src, dst', warp0.pos + warp0.lit + warp0.copy)
  BY <1>1, <1>6 DEF StreamInv
<1>8. PICK d : d = Literal(dst)
  OBVIOUS
<1>9. d \in Seq(Cell)
  <2>1. dst \in Seq(Cell)
    BY <1>2, Types DEF Cell
  <2>2. CASE warp0.lit = 0
    BY <1>8, <2>1, <2>2 DEF Literal
  <2>3. CASE warp0.lit > 0
    <3>1. Added(d, dst, (IF warp0.lit <= 60 THEN 1 ELSE 2) + warp0.lit,
                LiteralWhole(dst))
      BY <1>2, <1>4, <1>5, <1>8, <2>1, <2>3, LiteralAdds, Zenon
    <3>2. QED
      BY <3>1 DEF Added
  <2>4. QED
    BY <1>3, <2>2, <2>3
<1>10. CASE warp0.copy = 0
  <2>1. dst' = d /\ warp0.pos + warp0.lit + warp0.copy = warp0.pos + warp0.lit
    BY <1>1, <1>3, <1>8, <1>10 DEF Copy
  <2>2. Len(Literal(dst)) <= end
    BY <1>7, <1>8, <2>1
  <2>3. QED
    BY <1>2, <1>4, <1>5, <1>8, <2>1, <2>2, LiteralStream
<1>11. CASE warp0.copy > 0
  <2>1. PICK e : e = dst'
    OBVIOUS
  <2>2. PICK c \in {2, 3} :
          Added(Copy(d), d, c, d \o CopyHeader(warp0.copy, warp0.dist))
    BY <1>2, <1>4, <1>9, <1>11, CopyAdds
  <2>3. /\ e \in Seq(Cell) /\ Len(e) = Len(d) + c
        /\ e = d \o CopyHeader(warp0.copy, warp0.dist)
    BY <1>1, <1>7, <1>8, <2>1, <2>2 DEF Added
  <2>4. Len(d) <= end
    <3>1. Len(d) \in Nat
      BY <1>9
    <3>2. QED
      BY <1>3, <1>7, <2>1, <2>3, <3>1
  <2>5. d \in Seq(Byte) /\ Stream(src, d, warp0.pos + warp0.lit)
    BY <1>2, <1>4, <1>5, <1>8, <2>4, LiteralStream
  <2>6. PICK len, dist, n \in Nat :
          len = warp0.copy /\ dist = warp0.dist /\ n = warp0.pos + warp0.lit
    BY <1>3
  <2>7. /\ n + len <= Len(src) /\ 1 <= dist /\ dist <= n
        /\ \A k \in 1 .. len : src[n + k] = src[n + k - dist]
    BY <1>3, <1>4, <1>11, <2>6 DEF Symbol, SrcLen
  <2>8. CopyFits(len, dist)
    <3>1. 4 <= len /\ len <= 64
      <4>1. \A m \in Nat : m <= 64 => \A i \in {0} \cup 4 .. m : i > 0 => 4 <= i /\ i <= 64
        OBVIOUS
      <4>2. MinMatch = 4 /\ MaxCopy \in Nat /\ MaxCopy <= 64
        BY Constants DEF MinMatch
      <4>3. QED
        BY <1>4, <1>11, <2>6, <4>1, <4>2
    <3>2. dist < 256 * 256
      BY <1>4, <2>6, Constants, SMT
    <3>3. QED
      BY <2>7, <3>1, <3>2, SMT DEF CopyFits
  <2>9. GoesOn(src, dist, n, len)
    BY <2>7 DEF GoesOn
  <2>10. Stream(src, e, n + len)
    BY <1>3, <1>9, <2>3, <2>5, <2>6, <2>7, <2>8, <2>9, CopyGrows, Zenon
  <2>11. e \in Seq(Byte)
    <3>1. CopyHeader(len, dist) \in Seq(Byte)
      <4>1. 4 <= len /\ len <= 64
        BY <2>8, SMT DEF CopyFits
      <4>2. QED
        BY <4>1, CopyHeaderIs, Zenon
    <3>2. QED
      BY <2>3, <2>5, <2>6, <3>1, BytesOn, Zenon
  <2>12. QED
    BY <2>1, <2>6, <2>10, <2>11
<1>12. QED
  BY <1>3, <1>10, <1>11

\* Nothing else writes.
LEMMA StepStream ==
  ASSUME IInv, StreamInv, [Next]_vars
  PROVE  StreamInv'
<1>1. CASE Encode
  BY <1>1, EncodeStream
<1>2. ASSUME UNCHANGED <<src, dst, end>>, warp0'.pos = warp0.pos PROVE StreamInv'
  BY <1>2 DEF StreamInv
<1>3. warp0 \in [pc : Labels, pos : 0 .. SrcLen, lit : Nat, copy : Nat, dist : Nat]
  BY DEF IInv, TypeOK
<1>4. CASE Fetch0
  BY <1>2, <1>3, <1>4 DEF Fetch0
<1>5. CASE AllRead
  BY <1>2, <1>3, <1>5 DEF AllRead, Sync
<1>6. CASE AllWritten
  BY <1>2, <1>3, <1>6 DEF AllWritten, Sync
<1>7. CASE Fetch1 \/ StartSearch \/ Search \/ Extend \/ Finish \/ UNCHANGED vars
  BY <1>2, <1>7 DEF Fetch1, StartSearch, Search, Extend, Finish, vars
<1>8. QED
  BY <1>1, <1>4, <1>5, <1>6, <1>7 DEF Next, Step, Ended

\* In the beginning it is the size.
LEMMA InitStream ==
  ASSUME Init
  PROVE  StreamInv
<1>1. TypeOK
  BY InitHolds DEF IInv
<1>2. src \in Seq(Byte) /\ SrcLen \in Nat /\ end \in Nat
  BY <1>1, Types
<1>3. SizeBytes[SrcLen] \in Seq(Byte)
  BY <1>2, SizeRecursion
<1>4. PICK d : d = <<>> /\ d \in Seq(Cell) /\ Len(d) = 0
  <2>1. <<>> \in Seq(Cell) /\ Len(<<>>) = 0
    OBVIOUS
  <2>2. QED
    BY ONLY <2>1, Zenon
<1>5. Added(dst, d, Len(SizeBytes[SrcLen]), d \o SizeBytes[SrcLen])
  <2>1. dst = AppendEach(d, SizeBytes[SrcLen])
    BY <1>4 DEF Init
  <2>2. QED
    BY <1>2, <1>3, <1>4, <2>1, AppendIs
<1>6. SUFFICES ASSUME Len(dst) <= end
               PROVE  dst \in Seq(Byte) /\ Stream(src, dst, warp0.pos)
  BY DEF StreamInv
<1>7. dst = SizeBytes[SrcLen]
  <2>1. dst = <<>> \o SizeBytes[SrcLen]
    BY <1>4, <1>5, <1>6 DEF Added
  <2>2. QED
    BY <1>3, <2>1
<1>8. warp0.pos = 0
  BY DEF Init
<1>9. Stream(src, dst, 0)
  BY <1>2, <1>7, StreamBegins DEF SrcLen
<1>10. QED
  BY <1>3, <1>7, <1>8, <1>9

\* It holds all along.
LEMMA Streams == Spec => []StreamInv
<1>1. IInv /\ StreamInv /\ [Next]_vars => StreamInv'
  BY StepStream
<1>2. QED
  BY <1>1, Inductive, InitStream, PTL DEF Spec

-----------------------------------------------------------------------------
(* Reading the stream back.                                                *)

\* Where a reader begins, and what it does with a symbol.
ReadStart(bytes) ==
  [p |-> Len(SizeBytes[ReadSize(bytes)]) + 1, text |-> <<>>]
ReadStep(bytes, r) ==
  IF r.p > Len(bytes) THEN r ELSE Expand(bytes, r, ReadSymbol(bytes, r.p))

\* f is what has been read after up to n symbols.
ReadsTo(bytes, n, f) ==
  f = [i \in 0 .. n |-> IF i = 0 THEN ReadStart(bytes)
                        ELSE ReadStep(bytes, f[i - 1])]

\* There is such a function.
LEMMA ReadingExists ==
  ASSUME NEW bytes, NEW n, n \in Nat
  PROVE  \E f : ReadsTo(bytes, n, f)
<1>. DEFINE S == {k \in Nat : \E f : ReadsTo(bytes, k, f)}
<1>1. 0 \in S
  <2>. DEFINE f == [i \in 0 .. 0 |-> ReadStart(bytes)]
  <2>1. f = [i \in 0 .. 0 |-> IF i = 0 THEN ReadStart(bytes)
                              ELSE ReadStep(bytes, f[i - 1])]
    <3>1. \A i \in 0 .. 0 : i = 0
      OBVIOUS
    <3>2. QED
      BY <3>1, Zenon
  <2>2. ReadsTo(bytes, 0, f)
    BY <2>1 DEF ReadsTo
  <2>3. QED
    BY <2>2
<1>2. ASSUME NEW k \in Nat, k >= 0, k \in S PROVE k + 1 \in S
  <2>1. PICK f : ReadsTo(bytes, k, f)
    BY <1>2
  <2>2. PICK j \in Nat : j = k + 1
    OBVIOUS
  <2>3. /\ \A i \in 0 .. j : i \in 0 .. k \/ i = j
        /\ \A i \in 0 .. k : i # j /\ i \in 0 .. j
        /\ \A i \in 0 .. k : i # 0 => i - 1 \in 0 .. k
        /\ j # 0 /\ j - 1 = k /\ j - 1 \in 0 .. k /\ j \in 0 .. j
    BY <2>2
  <2>. DEFINE g == [i \in 0 .. j |-> IF i = j THEN ReadStep(bytes, f[k]) ELSE f[i]]
              Next1(h, i) == IF i = 0 THEN ReadStart(bytes)
                                      ELSE ReadStep(bytes, h[i - 1])
  <2>4. \A i \in 0 .. k : g[i] = f[i]
    BY <2>3
  <2>5. g[j] = ReadStep(bytes, f[k])
    BY <2>3
  <2>6. \A i \in 0 .. k : f[i] = Next1(f, i)
    <3>1. f = [i \in 0 .. k |-> Next1(f, i)]
      BY <2>1 DEF ReadsTo
    <3>. HIDE DEF Next1
    <3>2. QED
      BY <3>1
  <2>7. ASSUME NEW i \in 0 .. j PROVE g[i] = Next1(g, i)
    <3>1. CASE i = j
      BY <2>3, <2>4, <2>5, <3>1
    <3>2. CASE i \in 0 .. k
      <4>1. CASE i = 0
        BY <2>4, <2>6, <3>2, <4>1
      <4>2. CASE i # 0
        <5>1. g[i] = ReadStep(bytes, f[i - 1])
          BY <2>4, <2>6, <3>2, <4>2
        <5>2. g[i - 1] = f[i - 1]
          BY <2>3, <2>4, <3>2, <4>2
        <5>3. QED
          BY <4>2, <5>1, <5>2
      <4>3. QED
        BY <4>1, <4>2
    <3>3. QED
      BY <2>3, <3>1, <3>2
  <2>8. g = [i \in 0 .. j |-> g[i]]
    OBVIOUS
  <2>. HIDE DEF g
  <2>9. g = [i \in 0 .. j |-> Next1(g, i)]
    <3>. HIDE DEF Next1
    <3>1. QED
      BY <2>7, <2>8, Zenon
  <2>10. ReadsTo(bytes, j, g)
    BY <2>9 DEF ReadsTo
  <2>11. QED
    BY <2>2, <2>10
<1>3. \A k \in Nat : k >= 0 => k \in S
  <2>. HIDE DEF S
  <2>1. QED
    BY <1>1, <1>2, Induction
<1>4. n \in S
  BY <1>3
<1>5. QED
  BY <1>4

\* Reading goes on symbol by symbol.
LEMMA ReadingUnfolds ==
  ASSUME NEW bytes, Len(bytes) \in Nat
  PROVE  /\ Reading(bytes)[0] = ReadStart(bytes)
         /\ \A i, j \in 0 .. Len(bytes) :
              j = i + 1 => Reading(bytes)[j] = ReadStep(bytes, Reading(bytes)[i])
<1>. DEFINE Solves(g) ==
       g = [i \in 0 .. Len(bytes) |->
              IF i = 0 THEN [p |-> Len(SizeBytes[ReadSize(bytes)]) + 1, text |-> <<>>]
              ELSE IF g[i - 1].p > Len(bytes) THEN g[i - 1]
                   ELSE Expand(bytes, g[i - 1], ReadSymbol(bytes, g[i - 1].p))]
<1>1. PICK f : ReadsTo(bytes, Len(bytes), f)
  BY ReadingExists
<1>2. Solves(f)
  BY <1>1, Zenon DEF ReadsTo, ReadStart, ReadStep
<1>3. Reading(bytes) = CHOOSE g : Solves(g)
  BY Zenon DEF Reading
<1>4. Solves(Reading(bytes))
  BY <1>2, <1>3, Zenon
<1>5. PICK R : R = Reading(bytes)
  OBVIOUS
<1>6. R = [i \in 0 .. Len(bytes) |-> IF i = 0 THEN ReadStart(bytes)
                                     ELSE ReadStep(bytes, R[i - 1])]
  BY <1>4, <1>5, Zenon DEF ReadStart, ReadStep
<1>. HIDE DEF Solves
<1>7. R[0] = ReadStart(bytes)
  <2>1. 0 \in 0 .. Len(bytes)
    OBVIOUS
  <2>2. QED
    BY ONLY <1>6, <2>1, Zenon
<1>8. ASSUME NEW i \in 0 .. Len(bytes), NEW j \in 0 .. Len(bytes), j = i + 1
      PROVE  R[j] = ReadStep(bytes, R[i])
  <2>1. j # 0 /\ j - 1 = i
    BY <1>8
  <2>2. R[j] = ReadStep(bytes, R[j - 1])
    BY ONLY <1>6, <2>1, j \in 0 .. Len(bytes), Zenon
  <2>3. QED
    BY <2>1, <2>2
<1>9. QED
  BY <1>5, <1>7, <1>8

\* What has been read when the reader is at p and has the first t bytes of s.
Read(s, p, t) == [p |-> p, text |-> SubSeq(s, 1, t)]

\* c are the l bytes of s behind the first t, up to byte u.
Continue(s, t, l, u, c) ==
  /\ t \in Nat /\ l \in Nat /\ u = t + l /\ u <= Len(s)
  /\ c \in Seq(Byte) /\ Len(c) = l /\ \A k \in 1 .. l : c[k] = s[t + k]

\* With them the first t bytes are the first u.
GoesTo(s, t, u, c) == SubSeq(s, 1, t) \o c = SubSeq(s, 1, u)

\* A beginning of a text and the bytes behind it are a longer beginning.
LEMMA TextGoesOn ==
  ASSUME NEW s, s \in Seq(Byte), NEW t, NEW l, NEW u, NEW c,
         Continue(s, t, l, u, c)
  PROVE  GoesTo(s, t, u, c)
<1>1. PICK n \in Nat : n = Len(s)
  OBVIOUS
<1>2. t \in Nat /\ l \in Nat /\ u = t + l /\ u \in Nat /\ t <= n /\ u <= n
  BY <1>1 DEF Continue
<1>3. PICK a : a = SubSeq(s, 1, t)
  OBVIOUS
<1>4. a \in Seq(Byte) /\ Len(a) = t /\ \A k \in 1 .. t : a[k] = s[k]
  BY <1>1, <1>2, <1>3
<1>5. PICK b : b = SubSeq(s, 1, u)
  OBVIOUS
<1>6. b \in Seq(Byte) /\ Len(b) = u /\ \A k \in 1 .. u : b[k] = s[k]
  BY <1>1, <1>2, <1>5
<1>7. c \in Seq(Byte) /\ Len(c) = l /\ \A k \in 1 .. l : c[k] = s[t + k]
  BY DEF Continue
<1>8. /\ a \o c \in Seq(Byte) /\ Len(a \o c) = u
      /\ \A k \in 1 .. u : (a \o c)[k] = IF k <= t THEN a[k] ELSE c[k - t]
  <2>1. /\ a \o c \in Seq(Byte) /\ Len(a \o c) = Len(a) + Len(c)
        /\ \A k \in 1 .. Len(a) + Len(c) :
             (a \o c)[k] = IF k <= Len(a) THEN a[k] ELSE c[k - Len(a)]
    <3>1. a \in Seq(Byte) /\ c \in Seq(Byte)
      BY <1>4, <1>7
    <3>2. QED
      BY ONLY <3>1
  <2>2. Len(a) + Len(c) = u
    BY <1>2, <1>4, <1>7
  <2>3. QED
    BY ONLY <1>4, <2>1, <2>2, Zenon
<1>9. ASSUME NEW k \in 1 .. u PROVE (a \o c)[k] = b[k]
  <2>1. b[k] = s[k]
    BY <1>6
  <2>2. CASE k <= t
    <3>1. k \in 1 .. t
      BY <2>2
    <3>2. QED
      BY <1>4, <1>8, <2>1, <2>2, <3>1
  <2>3. CASE ~(k <= t)
    <3>1. PICK i \in 1 .. l : i = k - t /\ t + i = k
      BY <1>2, <2>3
    <3>2. c[i] = s[k]
      BY <1>7, <3>1
    <3>3. QED
      BY <1>8, <2>1, <2>3, <3>1, <3>2
  <2>4. QED
    BY <2>2, <2>3
<1>10. a \o c = b
  <2>1. PICK e : e = a \o c
    OBVIOUS
  <2>2. e \in Seq(Byte) /\ Len(e) = u /\ \A k \in 1 .. u : e[k] = b[k]
    BY ONLY <1>8, <1>9, <2>1, Zenon
  <2>3. e = b
    BY ONLY <1>2, <1>6, <2>2
  <2>4. QED
    BY ONLY <2>1, <2>3, Zenon
<1>11. QED
  BY ONLY <1>3, <1>5, <1>10, Zenon DEF GoesTo

\* The header of a literal takes one byte or two.
LEMMA LiteralHeaderShort ==
  ASSUME NEW l, l \in Nat, 1 <= l, l <= 256
  PROVE  Len(LiteralHeader(l - 1)) \in {1, 2}
<1>1. PICK k \in Nat : k = l - 1 /\ k < 256
  OBVIOUS
<1>2. CASE k < 60
  <2>1. LiteralHeader(k) = <<4 * k>>
    BY <1>2 DEF LiteralHeader
  <2>2. QED
    BY ONLY <1>1, <2>1
<1>3. CASE ~(k < 60)
  <2>1. PICK x, y : x = 4 * 60 /\ y = k % 256
    OBVIOUS
  <2>2. LiteralHeader(k) = <<x, y>>
    BY <1>1, <1>3, <2>1 DEF LiteralHeader
  <2>3. QED
    BY ONLY <1>1, <2>2
<1>4. QED
  BY <1>2, <1>3, Zenon

\* From p, with t bytes read, the reader gets to q with u of them.
ReadsOn(s, bytes, p, t, q, u) == ReadStep(bytes, Read(s, p, t)) = Read(s, q, u)

\* Where a literal stands, the reader goes on by its bytes.
LEMMA LiteralRead ==
  ASSUME NEW s, s \in Seq(Byte), NEW bytes, bytes \in Seq(Byte),
         NEW p, p \in Nat, 1 <= p, p <= Len(bytes), NEW q, q \in Nat,
         q <= Len(bytes) + 1,
         NEW t, t \in 0 .. Len(s), NEW u, u \in 0 .. Len(s),
         NEW l, LiteralFits(l), LiteralStands(s, bytes, p, t, q, u, l)
  PROVE  ReadsOn(s, bytes, p, t, q, u)
<1>1. l \in Nat /\ 1 <= l /\ l <= 256
  BY SMT DEF LiteralFits
<1>2. PICK k \in 0 .. 255 : k = l - 1 /\ k + 1 = l
  BY <1>1, SMT
<1>3. PICK g \in {1, 2} : g = Len(LiteralHeader(k))
  <2>1. Len(LiteralHeader(l - 1)) \in {1, 2}
    BY ONLY <1>1, LiteralHeaderShort, Zenon
  <2>2. Len(LiteralHeader(k)) \in {1, 2}
    BY ONLY <1>2, <2>1, Zenon
  <2>3. QED
    BY <2>2, Zenon
<1>4. /\ Stands(bytes, p, LiteralHeader(k)) /\ q = p + g + l /\ u = t + l
      /\ \A i \in 1 .. l : bytes[p + g + i - 1] = s[t + i]
  BY <1>2, <1>3 DEF LiteralStands
<1>5. ReadSymbol(bytes, p) = [tag |-> g, len |-> l, dist |-> 0]
  BY <1>2, <1>3, <1>4, LiteralHeaderRead
<1>6. PICK n \in Nat : n = Len(bytes)
  OBVIOUS
<1>7. PICK c : c = SubSeq(bytes, p + g, p + g + l - 1)
  OBVIOUS
<1>8. c \in Seq(Byte) /\ Len(c) = l /\ \A i \in 1 .. l : c[i] = bytes[p + g + i - 1]
  <2>1. PICK a \in Nat, z \in Nat : a = p + g /\ z = p + g + l - 1 /\ z = a + l - 1
    BY <1>1
  <2>2. 1 <= a /\ z <= n /\ q = a + l
    BY <1>1, <1>4, <1>6, <2>1
  <2>3. c = SubSeq(bytes, a, z)
    BY <1>7, <2>1
  <2>4. c \in Seq(Byte) /\ Len(c) = l /\ \A i \in 1 .. l : c[i] = bytes[a + i - 1]
    BY <1>1, <1>6, <2>1, <2>2, <2>3
  <2>5. QED
    BY <2>1, <2>4
<1>9. Continue(s, t, l, u, c)
  <2>1. t \in Nat /\ u <= Len(s)
    OBVIOUS
  <2>2. \A i \in 1 .. l : c[i] = s[t + i]
    BY <1>4, <1>8
  <2>3. QED
    BY ONLY <1>1, <1>4, <1>8, <2>1, <2>2 DEF Continue
<1>10. SubSeq(s, 1, t) \o c = SubSeq(s, 1, u)
  <2>1. GoesTo(s, t, u, c)
    BY <1>9, TextGoesOn, Zenon
  <2>2. QED
    BY <2>1, Zenon DEF GoesTo
<1>11. Expand(bytes, Read(s, p, t), [tag |-> g, len |-> l, dist |-> 0])
         = [p |-> p + g + l, text |-> SubSeq(s, 1, t) \o c]
  BY <1>7, Zenon DEF Expand, Read
<1>12. ReadStep(bytes, Read(s, p, t)) = [p |-> p + g + l, text |-> SubSeq(s, 1, t) \o c]
  <2>1. Read(s, p, t).p = p /\ ~(p > Len(bytes))
    BY <1>6 DEF Read
  <2>2. QED
    BY <1>5, <1>11, <2>1, Zenon DEF ReadStep
<1>13. QED
  BY <1>4, <1>10, <1>12, Zenon DEF Read, ReadsOn

\* Where a copy stands, by bytes that repeat those before.
LEMMA CopyRead ==
  ASSUME NEW s, s \in Seq(Byte), NEW bytes, bytes \in Seq(Byte),
         NEW p, p \in Nat, 1 <= p, p <= Len(bytes), NEW q, q \in Nat,
         NEW t, t \in 0 .. Len(s), NEW u, u \in 0 .. Len(s),
         NEW len, NEW dist, CopyFits(len, dist),
         CopyStands(s, bytes, p, t, q, u, len, dist)
  PROVE  ReadsOn(s, bytes, p, t, q, u)
<1>1. /\ len \in Nat /\ 4 <= len /\ len <= 64 /\ len \in 4 .. 64
      /\ dist \in Nat /\ 1 <= dist /\ dist < 256 * 256 /\ dist # 0
  BY SMT DEF CopyFits
<1>2. PICK g \in {2, 3} : g = Len(CopyHeader(len, dist))
  BY <1>1, CopyHeaderIs, Zenon
<1>3. /\ Stands(bytes, p, CopyHeader(len, dist)) /\ q = p + g /\ u = t + len
      /\ dist <= t /\ GoesOn(s, dist, t, len)
  BY <1>2 DEF CopyStands
<1>4. ReadSymbol(bytes, p) = [tag |-> g, len |-> len, dist |-> dist]
  BY <1>1, <1>2, <1>3, CopyHeaderRead, Zenon
<1>5. PICK a : a = SubSeq(s, 1, t)
  OBVIOUS
<1>6. Len(a) = t /\ \A i \in 1 .. t : a[i] = s[i]
  BY <1>5
<1>. DEFINE c == [i \in 1 .. len |-> a[Len(a) - dist + 1 + ((i - 1) % dist)]]
<1>7. ASSUME NEW i \in 1 .. len PROVE c[i] = s[t + i] /\ s[t + i] \in Byte
  <2>1. PICK o \in 0 .. dist - 1 : o = (i - 1) % dist
    <3>1. dist \in Nat \ {0} /\ i - 1 \in Nat
      BY <1>1
    <3>2. (i - 1) % dist \in 0 .. dist - 1
      BY ONLY <3>1
    <3>3. QED
      BY <3>2, Zenon
  <2>2. PICK k \in 1 .. t : k = t - dist + 1 + o
    BY <1>1, <1>3
  <2>3. c[i] = a[k]
    BY <1>6, <2>1, <2>2
  <2>4. AsBefore(s, dist, t, i)
    BY <1>1, <1>3, Repeats
  <2>5. s[t + i] = s[k]
    BY <2>1, <2>2, <2>4 DEF AsBefore
  <2>6. s[k] \in Byte
    OBVIOUS
  <2>7. QED
    BY <1>6, <2>3, <2>5, <2>6
<1>8. Continue(s, t, len, u, c)
  <2>1. c = [i \in 1 .. len |-> c[i]]
    OBVIOUS
  <2>. HIDE DEF c
  <2>2. c \in [1 .. len -> Byte]
    BY <1>7, <2>1
  <2>3. c \in Seq(Byte) /\ Len(c) = len
    BY <1>1, <2>2
  <2>4. QED
    BY <1>1, <1>3, <1>7, <2>3 DEF Continue
<1>9. a \o c = SubSeq(s, 1, u)
  <2>. HIDE DEF c
  <2>1. GoesTo(s, t, u, c)
    BY <1>8, TextGoesOn, Zenon
  <2>2. QED
    BY <1>5, <2>1, Zenon DEF GoesTo
<1>10. Expand(bytes, [p |-> p, text |-> a], [tag |-> g, len |-> len, dist |-> dist])
         = [p |-> p + g, text |-> a \o c]
  BY <1>1, Zenon DEF Expand
<1>11. ReadStep(bytes, Read(s, p, t)) = [p |-> p + g, text |-> a \o c]
  <2>1. Read(s, p, t) = [p |-> p, text |-> a] /\ Read(s, p, t).p = p /\ ~(p > Len(bytes))
    BY <1>5 DEF Read
  <2>. HIDE DEF c
  <2>2. QED
    BY <1>4, <1>10, <2>1, Zenon DEF ReadStep
<1>. HIDE DEF c
<1>12. QED
  BY <1>3, <1>9, <1>11, Zenon DEF Read, ReadsOn

\* So with any symbol.
LEMMA SymbolRead ==
  ASSUME NEW s, s \in Seq(Byte), NEW bytes, bytes \in Seq(Byte),
         NEW p, p \in Nat, 1 <= p, p <= Len(bytes), NEW q, q \in Nat,
         q <= Len(bytes) + 1,
         NEW t, t \in 0 .. Len(s), NEW u, u \in 0 .. Len(s),
         SymbolStands(s, bytes, p, t, q, u)
  PROVE  ReadsOn(s, bytes, p, t, q, u)
<1>1. ASSUME NEW l, LiteralFits(l), LiteralStands(s, bytes, p, t, q, u, l)
      PROVE  ReadsOn(s, bytes, p, t, q, u)
  BY <1>1, LiteralRead, Zenon
<1>2. ASSUME NEW len, NEW dist, CopyFits(len, dist),
             CopyStands(s, bytes, p, t, q, u, len, dist)
      PROVE  ReadsOn(s, bytes, p, t, q, u)
  BY <1>2, CopyRead, Zenon
<1>3. QED
  BY <1>1, <1>2, Zenon DEF SymbolStands

\* What the reader has after i of the m symbols listed, or at the end.
Reached(s, m, P, T, i) ==
  IF i <= m THEN Read(s, P[i], T[i]) ELSE Read(s, P[m], T[m])

\* At the end the reader is at p and has the first t bytes of s.
ReadsAll(s, bytes, p, t) == Reading(bytes)[Len(bytes)] = Read(s, p, t)

\* The reader goes from symbol to symbol as they are listed.
LEMMA ListRead ==
  ASSUME NEW s, s \in Seq(Byte), NEW bytes, bytes \in Seq(Byte),
         NEW m, m \in Nat, NEW P, NEW T, Listed(s, bytes, m, P, T),
         ReadSize(bytes) = Len(s)
  PROVE  ReadsAll(s, bytes, P[m], T[m])
<1>1. PICK n \in Nat : n = Len(bytes)
  OBVIOUS
<1>2. PICK R : R = Reading(bytes)
  OBVIOUS
<1>3. /\ R[0] = ReadStart(bytes)
      /\ \A i, j \in 0 .. n : j = i + 1 => R[j] = ReadStep(bytes, R[i])
  BY <1>1, <1>2, ReadingUnfolds
<1>4. /\ P \in [0 .. m -> Nat] /\ T \in [0 .. m -> 0 .. Len(s)]
      /\ P[0] = Len(SizeBytes[Len(s)]) + 1 /\ T[0] = 0
      /\ P[m] = n + 1 /\ m <= n
      /\ \A i \in 0 .. m : 1 <= P[i] /\ P[i] <= n + 1
      /\ \A i, j \in 0 .. m :
           j = i + 1 => /\ P[i] <= n
                        /\ SymbolStands(s, bytes, P[i], T[i], P[j], T[j])
  BY <1>1 DEF Listed
<1>. DEFINE S == {i \in Nat : i <= n => R[i] = Reached(s, m, P, T, i)}
<1>5. 0 \in S
  <2>1. Reached(s, m, P, T, 0) = Read(s, P[0], T[0])
    BY DEF Reached
  <2>2. SubSeq(s, 1, 0) = <<>>
    OBVIOUS
  <2>3. Read(s, P[0], T[0]) = ReadStart(bytes)
    BY <1>4, <2>2 DEF Read, ReadStart
  <2>4. QED
    BY <1>3, <2>1, <2>3
<1>6. ASSUME NEW i \in Nat, i >= 0, i \in S PROVE i + 1 \in S
  <2>1. PICK j \in Nat : j = i + 1
    OBVIOUS
  <2>2. SUFFICES ASSUME j <= n PROVE R[j] = Reached(s, m, P, T, j)
    BY <2>1
  <2>3. i \in 0 .. n /\ j \in 0 .. n /\ i <= n
    BY <2>1, <2>2
  <2>4. R[j] = ReadStep(bytes, Reached(s, m, P, T, i))
    BY <1>3, <1>6, <2>1, <2>3
  <2>5. CASE j <= m
    <3>1. i \in 0 .. m /\ j \in 0 .. m /\ i <= m
      BY <2>1, <2>5
    <3>2. /\ P[i] \in Nat /\ P[j] \in Nat
          /\ T[i] \in 0 .. Len(s) /\ T[j] \in 0 .. Len(s)
      BY <1>4, <3>1
    <3>3. 1 <= P[i] /\ P[i] <= Len(bytes) /\ P[j] <= Len(bytes) + 1
      BY <1>1, <1>4, <2>1, <3>1
    <3>4. SymbolStands(s, bytes, P[i], T[i], P[j], T[j])
      BY <1>4, <2>1, <3>1
    <3>5. ReadStep(bytes, Read(s, P[i], T[i])) = Read(s, P[j], T[j])
      BY <3>2, <3>3, <3>4, SymbolRead DEF ReadsOn
    <3>6. QED
      BY <2>4, <2>5, <3>1, <3>5 DEF Reached
  <2>6. CASE ~(j <= m)
    <3>1. Reached(s, m, P, T, i) = Read(s, P[m], T[m])
      <4>1. i <= m => i = m
        BY <2>1, <2>6
      <4>2. QED
        BY <4>1, Zenon DEF Reached
    <3>2. ReadStep(bytes, Read(s, P[m], T[m])) = Read(s, P[m], T[m])
      <4>1. Read(s, P[m], T[m]).p > Len(bytes)
        BY <1>1, <1>4 DEF Read
      <4>2. QED
        BY <4>1 DEF ReadStep
    <3>3. Reached(s, m, P, T, j) = Read(s, P[m], T[m])
      BY <2>6 DEF Reached
    <3>4. QED
      BY <2>4, <3>1, <3>2, <3>3
  <2>7. QED
    BY <2>5, <2>6
<1>7. n \in S
  <2>. HIDE DEF S
  <2>1. n >= 0
    OBVIOUS
  <2>2. QED
    BY <1>5, <1>6, <2>1, Induction
<1>8. Reached(s, m, P, T, n) = Read(s, P[m], T[m])
  <2>1. n <= m => n = m
    BY <1>4
  <2>2. QED
    BY <2>1, Zenon DEF Reached
<1>9. QED
  BY <1>1, <1>2, <1>7, <1>8 DEF ReadsAll

\* A stream that stands for a whole text is read back as this text.
LEMMA StreamRead ==
  ASSUME NEW s, s \in Seq(Byte), NEW bytes, bytes \in Seq(Byte),
         Len(s) <= MaxSize, Stream(s, bytes, Len(s))
  PROVE  ReadSize(bytes) = Len(s) /\ Text(bytes) = s
<1>1. PICK n \in Nat : n = Len(s)
  OBVIOUS
<1>2. ReadSize(bytes) = Len(s)
  <2>1. Len(SizeBytes[n]) <= Len(bytes) /\ SizeStands(bytes, 0, n) /\ n <= MaxSize
    BY <1>1 DEF Stream
  <2>2. bytes \in Seq(Nat)
    <3>1. \A b \in Byte : b \in Nat
      BY DEF Byte
    <3>2. QED
      BY <3>1
  <2>3. QED
    BY <1>1, <2>1, <2>2, SizeRead, Zenon
<1>3. PICK m \in Nat : \E P, T : Listed(s, bytes, m, P, T) /\ T[m] = Len(s)
  BY DEF Stream
<1>4. PICK P, T : Listed(s, bytes, m, P, T) /\ T[m] = Len(s)
  BY <1>3
<1>5. ReadsAll(s, bytes, P[m], T[m])
  BY <1>2, <1>4, ListRead, Zenon
<1>6. Text(bytes) = SubSeq(s, 1, Len(s))
  BY <1>4, <1>5 DEF Text, Read, ReadsAll
<1>7. SubSeq(s, 1, Len(s)) = s
  OBVIOUS
<1>8. QED
  BY <1>2, <1>6, <1>7

\* RoundTrip, for inputs, buffers and warps of any size: when the host is told
\* that the compression succeeded, every byte of the stream was written, and
\* the stream is read as the input.
THEOREM StreamsReadBack == Spec => []RoundTrip
<1>1. ASSUME IInv, StreamInv PROVE RoundTrip
  <2>1. SUFFICES ASSUME status = "ok"
                 PROVE  /\ \A i \in DOMAIN dst : dst[i] # Unwritten
                        /\ ReadSize(dst) = SrcLen
                        /\ Text(dst) = src
    BY DEF RoundTrip
  <2>2. TypeOK /\ warp0.pc = "end" /\ Len(dst) <= end
    BY <1>1, <2>1 DEF IInv, Reported
  <2>3. warp0.pos = SrcLen
    BY <1>1, <2>2 DEF IInv, Together, Apart
  <2>4. dst \in Seq(Byte) /\ Stream(src, dst, Len(src))
    BY <1>1, <2>2, <2>3 DEF StreamInv, SrcLen
  <2>5. src \in Seq(Byte) /\ Len(src) <= MaxSize
    <3>1. src \in Sources
      BY <2>2, Types
    <3>2. QED
      BY ONLY <3>1, SnapAssumption
  <2>6. ReadSize(dst) = SrcLen /\ Text(dst) = src
    BY <2>4, <2>5, StreamRead, Zenon DEF SrcLen
  <2>7. ASSUME NEW i \in DOMAIN dst PROVE dst[i] # Unwritten
    <3>1. dst[i] \in Byte
      BY <2>4
    <3>2. QED
      BY <3>1 DEF Byte, Unwritten
  <2>8. QED
    BY <2>6, <2>7
<1>2. QED
  BY <1>1, Inductive, Streams, PTL
=============================================================================
