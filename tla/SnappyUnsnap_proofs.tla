------------------------- MODULE SnappyUnsnap_proofs -------------------------
(***************************************************************************)
(* Proofs about the Snappy decompression pipeline, for every set of well   *)
(* formed streams, every size of the ring and of the queue of batches.     *)
(***************************************************************************)
EXTENDS SnappyUnsnap, SnappyFormat_proofs

-----------------------------------------------------------------------------
(* Positions in the ring and in the queue.                                 *)

\* Positions that fall on the same place are a whole ring apart.
LEMMA SamePlace ==
  ASSUME NEW n \in Nat \ {0}, NEW p \in Nat, NEW q \in Nat,
         p % n = q % n, p <= q, q - p < n
  PROVE  p = q
<1>1. p = n * (p \div n) + (p % n) /\ q = n * (q \div n) + (q % n)
  OBVIOUS
<1>2. ASSUME NEW a \in Int, NEW b \in Int, n * b - n * a < n, n * b - n * a >= 0
      PROVE  a = b
  <2>1. n * b - n * a = n * (b - a)
    OBVIOUS
  <2>2. \A c \in Int : n * c < n => c < 1
    OBVIOUS
  <2>3. \A c \in Int : n * c >= 0 => c >= 0
    OBVIOUS
  <2>4. b - a \in Int /\ n * (b - a) < n /\ n * (b - a) >= 0
    BY <1>2, <2>1
  <2>5. QED
    BY <2>2, <2>3, <2>4
<1>3. p \div n \in Int /\ q \div n \in Int
  OBVIOUS
<1>4. n * (q \div n) - n * (p \div n) = q - p
  BY <1>1
<1>5. p \div n = q \div n
  BY <1>2, <1>3, <1>4
<1>6. QED
  BY <1>1, <1>5

\* The remainder of less than two turns.
LEMMA OneTurn ==
  ASSUME NEW n, NEW x, n \in Nat \ {0}, x \in 0 .. 2 * n - 1
  PROVE  x % n = IF x < n THEN x ELSE x - n
<1>1. CASE x < n
  BY <1>1
<1>2. CASE x >= n
  <2>1. x - n \in 0 .. n - 1
    BY <1>2
  <2>2. (n * 1 + (x - n)) % n = x - n
    BY <2>1, Remainder
  <2>3. n * 1 + (x - n) = x
    OBVIOUS
  <2>4. QED
    BY <1>2, <2>2, <2>3
<1>3. QED
  BY <1>1, <1>2

\* The queue goes round.
LEMMA AheadIs ==
  ASSUME NEW b, NEW j, b \in Slots, j \in 0 .. BatchCount
  PROVE  /\ Ahead(b, j) \in Slots
         /\ Ahead(b, j) = IF b + j < BatchCount THEN b + j ELSE b + j - BatchCount
<1>1. BatchCount \in Nat \ {0}
  BY UnsnapAssumption DEF UnsnapAssumption
<1>2. b + j \in 0 .. 2 * BatchCount - 1
  BY <1>1 DEF Slots
<1>3. PICK n, x : n = BatchCount /\ x = b + j
  OBVIOUS
<1>4. b \in Nat /\ j \in Nat
  BY <1>1 DEF Slots
<1>5. n \in Nat \ {0} /\ x \in 0 .. 2 * n - 1
  BY <1>1, <1>2, <1>3
<1>6. x % n = IF x < n THEN x ELSE x - n
  BY ONLY <1>5, OneTurn
<1>7. Ahead(b, j) = IF x < n THEN x ELSE x - n
  BY <1>3, <1>6 DEF Ahead
<1>8. QED
  BY <1>1, <1>3, <1>4, <1>7 DEF Slots

-----------------------------------------------------------------------------
(* Streams.                                                                *)

\* The parts of a stream.
LEMMA StreamTypes ==
  ASSUME NEW st \in Streams
  PROVE  /\ Len(st.syms) \in Nat
         /\ \A i \in 1 .. Len(st.syms) + 1 : st.start[i] \in Nat /\ st.dst[i] \in Nat
         /\ st.start[1] = 0 /\ st.dst[1] = 0
         /\ st.text \in Seq(Nat) /\ Len(st.text) = st.dst[Len(st.syms) + 1]
         /\ \A i \in 1 .. Len(st.syms) :
              /\ st.syms[i].tag \in 1 .. MaxTag
              /\ st.syms[i].len \in Nat \ {0}
              /\ st.syms[i].dist \in Nat
              /\ st.syms[i].dist <= st.dst[i]
              /\ SymBytes(st.syms[i]) \in Nat
              /\ SymBytes(st.syms[i]) >= st.syms[i].tag
              /\ st.start[i + 1] = st.start[i] + SymBytes(st.syms[i])
              /\ st.dst[i + 1] = st.dst[i] + st.syms[i].len
<1>1. WellFormed(st) /\ MaxTag \in Nat \ {0}
  BY UnsnapAssumption DEF UnsnapAssumption
<1>2. ASSUME NEW i \in 1 .. Len(st.syms)
      PROVE  st.syms[i] \in [tag : 1 .. MaxTag, len : Nat \ {0}, dist : Nat]
  <2>1. st.syms \in Seq([tag : 1 .. MaxTag, len : Nat \ {0}, dist : Nat])
    BY <1>1 DEF WellFormed
  <2>2. ASSUME NEW R, NEW s \in Seq(R), NEW k \in 1 .. Len(s) PROVE s[k] \in R
    OBVIOUS
  <2>3. QED
    BY ONLY <2>1, <2>2, i \in 1 .. Len(st.syms), Zenon
<1>3. ASSUME NEW y \in [tag : 1 .. MaxTag, len : Nat \ {0}, dist : Nat]
      PROVE  /\ y.tag \in 1 .. MaxTag /\ y.len \in Nat \ {0} /\ y.dist \in Nat
             /\ SymBytes(y) \in Nat /\ SymBytes(y) >= y.tag
  BY <1>1 DEF SymBytes, IsLiteral
<1>4. Len(st.syms) \in Nat
  BY <1>1 DEF WellFormed
<1>5. \A i \in 1 .. Len(st.syms) + 1 : st.start[i] \in Nat /\ st.dst[i] \in Nat
  <2>1. /\ st.start \in Seq(Nat) /\ Len(st.start) = Len(st.syms) + 1
        /\ st.dst \in Seq(Nat) /\ Len(st.dst) = Len(st.syms) + 1
    BY <1>1 DEF WellFormed
  <2>2. \A q \in Seq(Nat) : \A i \in 1 .. Len(q) : q[i] \in Nat
    OBVIOUS
  <2>3. QED
    BY ONLY <2>1, <2>2
<1>6. QED
  BY <1>1, <1>2, <1>3, <1>4, <1>5 DEF WellFormed

\* Later symbols begin behind earlier ones, and write behind them.
LEMMA InOrder ==
  ASSUME NEW st \in Streams, NEW i \in 1 .. Len(st.syms) + 1,
         NEW j \in 1 .. Len(st.syms) + 1, i <= j
  PROVE  st.start[i] <= st.start[j] /\ st.dst[i] + (j - i) <= st.dst[j]
<1>. DEFINE n == Len(st.syms)
            S == {k \in Nat : k <= n + 1 => /\ st.start[i] <= st.start[k]
                                             /\ st.dst[i] + (k - i) <= st.dst[k]}
<1>1. n \in Nat
  BY StreamTypes
<1>2. i \in Nat /\ i \in S
  BY <1>1, StreamTypes
<1>3. ASSUME NEW k \in Nat, k >= i, k \in S PROVE k + 1 \in S
  <2>1. CASE k + 1 > n + 1
    BY <1>1, <2>1
  <2>2. CASE k + 1 <= n + 1
    <3>1. k \in 1 .. n /\ k \in 1 .. n + 1 /\ k + 1 \in 1 .. n + 1
      BY <1>1, <1>3, <2>2
    <3>2. /\ st.start[k + 1] = st.start[k] + SymBytes(st.syms[k])
          /\ st.dst[k + 1] = st.dst[k] + st.syms[k].len
          /\ SymBytes(st.syms[k]) \in Nat /\ st.syms[k].len \in Nat \ {0}
          /\ st.start[k] \in Nat /\ st.dst[k] \in Nat
          /\ st.start[i] \in Nat /\ st.dst[i] \in Nat
      BY <3>1, StreamTypes
    <3>3. st.start[i] <= st.start[k] /\ st.dst[i] + (k - i) <= st.dst[k]
      BY <1>3, <3>1, <1>1
    <3>4. st.start[i] <= st.start[k + 1]
      BY <3>2, <3>3
    <3>5. \A a, b, c, l \in Nat : a + (k - i) <= b /\ c = b + l /\ l # 0
             => a + ((k + 1) - i) <= c
      BY <1>1
    <3>6. st.dst[k + 1] \in Nat
      BY <3>1, StreamTypes
    <3>7. st.dst[i] + ((k + 1) - i) <= st.dst[k + 1]
      BY ONLY <3>2, <3>3, <3>5, <3>6
    <3>8. QED
      BY <3>4, <3>7
  <2>3. QED
    BY <1>1, <2>1, <2>2
<1>. HIDE DEF S
<1>4. j \in Nat /\ j >= i
  BY <1>1
<1>5. j \in S
  BY <1>2, <1>3, <1>4, Induction
<1>6. QED
  BY <1>1, <1>4, <1>5 DEF S

\* Symbols of at most MaxTag bytes do not reach far.
LEMMA ShortReach ==
  ASSUME NEW st \in Streams, NEW i \in 1 .. Len(st.syms) + 1,
         NEW j \in 1 .. Len(st.syms) + 1, i <= j,
         \A k \in i .. j - 1 : SymBytes(st.syms[k]) <= MaxTag
  PROVE  st.start[j] <= st.start[i] + MaxTag * (j - i)
<1>. DEFINE n == Len(st.syms)
            S == {k \in Nat : k <= j => st.start[k] <= st.start[i] + MaxTag * (k - i)}
<1>1. n \in Nat /\ MaxTag \in Nat
  BY StreamTypes, UnsnapAssumption DEF UnsnapAssumption
<1>2. i \in Nat /\ i \in S
  <2>1. MaxTag * (i - i) = 0
    BY <1>1
  <2>2. QED
    BY <1>1, <2>1, StreamTypes
<1>3. ASSUME NEW k \in Nat, k >= i, k \in S PROVE k + 1 \in S
  <2>1. CASE k + 1 > j
    BY <1>1, <2>1
  <2>2. CASE k + 1 <= j
    <3>1. k \in 1 .. n /\ k \in i .. j - 1 /\ k \in 1 .. n + 1
      BY <1>1, <1>3, <2>2
    <3>2. /\ st.start[k + 1] = st.start[k] + SymBytes(st.syms[k])
          /\ SymBytes(st.syms[k]) \in Nat
          /\ SymBytes(st.syms[k]) <= MaxTag
          /\ st.start[k] \in Nat /\ st.start[i] \in Nat
      BY <3>1, StreamTypes
    <3>3. st.start[k] <= st.start[i] + MaxTag * (k - i)
      BY <1>3, <3>1, <1>1
    <3>4. MaxTag * ((k + 1) - i) = MaxTag * (k - i) + MaxTag
      BY <1>1
    <3>5. MaxTag * (k - i) \in Int
      BY <1>1
    <3>6. \A a, b, s, e, l, t \in Int :
            a = b + l /\ l <= t /\ b <= s + e => a <= s + (e + t)
      OBVIOUS
    <3>7. st.start[k + 1] <= st.start[i] + (MaxTag * (k - i) + MaxTag)
      <4>1. /\ st.start[k + 1] \in Int /\ st.start[k] \in Int /\ st.start[i] \in Int
            /\ SymBytes(st.syms[k]) \in Int /\ MaxTag \in Int
        BY <1>1, <3>2
      <4>2. QED
        BY ONLY <3>2, <3>3, <3>5, <3>6, <4>1
    <3>8. QED
      BY <3>4, <3>7
  <2>3. QED
    BY <1>1, <2>1, <2>2
<1>. HIDE DEF S
<1>4. j \in Nat /\ j >= i
  BY <1>1
<1>5. j \in S
  BY <1>2, <1>3, <1>4, Induction
<1>6. QED
  BY <1>1, <1>4, <1>5 DEF S

\* A copy that overlaps itself repeats the bytes it begins with.
LEMMA Periodic ==
  ASSUME NEW st \in Streams, NEW i \in 1 .. Len(st.syms),
         ~IsLiteral(st.syms[i]), NEW j \in 1 .. st.syms[i].len
  PROVE  st.text[st.dst[i] + j]
           = st.text[st.dst[i] - st.syms[i].dist + 1 + ((j - 1) % st.syms[i].dist)]
<1>1. /\ st.syms[i].dist \in Nat \ {0} /\ st.dst[i] \in Nat
      /\ st.syms[i].len \in Nat
  <2>1. i \in 1 .. Len(st.syms) + 1
    BY StreamTypes
  <2>2. QED
    BY <2>1, StreamTypes DEF IsLiteral
<1>2. \A k \in 1 .. st.syms[i].len :
        st.text[st.dst[i] + k] = st.text[st.dst[i] + k - st.syms[i].dist]
  BY UnsnapAssumption DEF UnsnapAssumption, WellFormed
<1>3. PICK f, d, at, len : /\ f = st.text /\ d = st.syms[i].dist
                           /\ at = st.dst[i] /\ len = st.syms[i].len
  OBVIOUS
<1>4. /\ d \in Nat \ {0} /\ at \in Nat /\ len \in Nat /\ j \in 1 .. len
      /\ GoesOn(f, d, at, len)
  BY <1>1, <1>2, <1>3 DEF GoesOn
<1>5. AsBefore(f, d, at, j)
  BY <1>4, Repeats
<1>6. QED
  BY <1>3, <1>5 DEF AsBefore

-----------------------------------------------------------------------------
(* The state.                                                              *)

\* The sizes of the ring and of the queue.
LEMMA Sizes ==
  /\ WarpSize \in Nat \ {0} /\ PrefetchSize \in Nat \ {0}
  /\ PrefetchUnit \in Nat \ {0} /\ LiteralUnit \in Nat \ {0}
  /\ BatchSize \in Nat \ {0} /\ BatchCount \in Nat \ {0}
  /\ MaxTag \in Nat \ {0} /\ MaxShort \in Nat \ {0}
  /\ WarpSize <= PrefetchUnit /\ MaxShort <= MaxTag
  /\ MaxTag * BatchSize \in Nat
  /\ MaxTag * BatchSize + PrefetchUnit <= PrefetchSize
  /\ PrefetchUnit <= PrefetchSize
  /\ StaleRdpos \subseteq Nat
<1>1. \A a, b \in Nat : a * b \in Nat
  OBVIOUS
<1>2. QED
  BY <1>1, UnsnapAssumption DEF UnsnapAssumption

\* The stream at hand.
LEMMA Here ==
  ASSUME TypeOK
  PROVE  /\ stream \in Streams /\ N \in Nat /\ End \in Nat
         /\ stream.start[1] = 0 /\ stream.dst[1] = 0
         /\ stream.text \in Seq(Nat) /\ Len(stream.text) = stream.dst[N + 1]
         /\ \A i \in 1 .. N + 1 : stream.start[i] \in 0 .. End /\ stream.dst[i] \in Nat
         /\ \A i, j \in 1 .. N + 1 : i <= j =>
              /\ stream.start[i] <= stream.start[j]
              /\ stream.dst[i] + (j - i) <= stream.dst[j]
         /\ \A i \in 1 .. N :
              /\ stream.syms[i].tag \in 1 .. MaxTag
              /\ stream.syms[i].len \in Nat \ {0}
              /\ stream.syms[i].dist \in Nat
              /\ stream.syms[i].dist <= stream.dst[i]
              /\ stream.start[i] + stream.syms[i].tag <= stream.start[i + 1]
              /\ stream.start[i + 1] = stream.start[i] + SymBytes(stream.syms[i])
              /\ stream.dst[i + 1] = stream.dst[i] + stream.syms[i].len
<1>1. stream \in Streams
  BY DEF TypeOK
<1>2. /\ N \in Nat
      /\ \A i \in 1 .. N + 1 : stream.start[i] \in Nat /\ stream.dst[i] \in Nat
      /\ stream.start[1] = 0 /\ stream.dst[1] = 0
      /\ stream.text \in Seq(Nat) /\ Len(stream.text) = stream.dst[N + 1]
  BY <1>1, StreamTypes DEF N
<1>3. \A i, j \in 1 .. N + 1 : i <= j =>
        /\ stream.start[i] <= stream.start[j]
        /\ stream.dst[i] + (j - i) <= stream.dst[j]
  BY <1>1, InOrder DEF N
<1>4. N + 1 \in 1 .. N + 1
  BY <1>2
<1>6. End \in Nat
  BY <1>2, <1>4 DEF End
<1>5. ASSUME NEW i \in 1 .. N + 1 PROVE stream.start[i] \in 0 .. End
  <2>1. i <= N + 1
    BY <1>2
  <2>2. stream.start[i] <= stream.start[N + 1]
    BY <1>3, <1>4, <2>1
  <2>3. QED
    BY <1>2, <1>6, <2>2 DEF End
<1>7. ASSUME NEW i \in 1 .. N
      PROVE  /\ stream.syms[i].tag \in 1 .. MaxTag
             /\ stream.syms[i].len \in Nat \ {0}
             /\ stream.syms[i].dist \in Nat
             /\ stream.syms[i].dist <= stream.dst[i]
             /\ stream.start[i] + stream.syms[i].tag <= stream.start[i + 1]
             /\ stream.start[i + 1] = stream.start[i] + SymBytes(stream.syms[i])
             /\ stream.dst[i + 1] = stream.dst[i] + stream.syms[i].len
  <2>1. i \in 1 .. N + 1 /\ i + 1 \in 1 .. N + 1 /\ i \in 1 .. Len(stream.syms)
    BY <1>2 DEF N
  <2>2. stream.start[i] \in Nat /\ MaxTag \in Nat
    BY <1>2, <2>1, Sizes
  <2>3. /\ stream.syms[i].tag \in 1 .. MaxTag
        /\ stream.syms[i].len \in Nat \ {0}
        /\ stream.syms[i].dist \in Nat
        /\ stream.syms[i].dist <= stream.dst[i]
        /\ SymBytes(stream.syms[i]) \in Nat
        /\ SymBytes(stream.syms[i]) >= stream.syms[i].tag
        /\ stream.start[i + 1] = stream.start[i] + SymBytes(stream.syms[i])
        /\ stream.dst[i + 1] = stream.dst[i] + stream.syms[i].len
    BY <1>1, <2>1, StreamTypes
  <2>4. QED
    BY <2>2, <2>3
<1>8. QED
  BY <1>1, <1>2, <1>3, <1>5, <1>6, <1>7

\* What loading does to the ring: what is loaded is there, and what was there
\* is, unless it is more than a whole ring before the end.
LEMMA Loading ==
  ASSUME TypeOK, NEW from, NEW to, from \in Nat, to \in Nat,
         from <= to, to - from <= PrefetchSize
  PROVE  /\ Loaded(from, to) \in [0 .. PrefetchSize - 1 -> Nat \cup {-1}]
         /\ \A p \in Nat : from <= p /\ p < to =>
              Loaded(from, to)[p % PrefetchSize] = p
         /\ \A p \in Nat : p < from /\ p >= to - PrefetchSize =>
              Loaded(from, to)[p % PrefetchSize] = buf[p % PrefetchSize]
<1>. DEFINE In(a) == \E p \in from .. to - 1 : p % PrefetchSize = a
            The(a) == CHOOSE p \in from .. to - 1 : p % PrefetchSize = a
<1>1. DOMAIN buf = 0 .. PrefetchSize - 1
      /\ buf \in [0 .. PrefetchSize - 1 -> Nat \cup {-1}]
  BY DEF TypeOK
<1>2. \A a : In(a) => The(a) \in from .. to - 1 /\ The(a) % PrefetchSize = a
  OBVIOUS
<1>3. from .. to - 1 \subseteq Nat
  OBVIOUS
<1>. HIDE DEF The
<1>4. Loaded(from, to) = [a \in 0 .. PrefetchSize - 1 |-> IF In(a) THEN The(a) ELSE buf[a]]
  BY <1>1 DEF Loaded, The
<1>. HIDE DEF In
<1>5. Loaded(from, to) \in [0 .. PrefetchSize - 1 -> Nat \cup {-1}]
  BY <1>1, <1>2, <1>3, <1>4
<1>6. ASSUME NEW p \in Nat PROVE p % PrefetchSize \in 0 .. PrefetchSize - 1
  BY Sizes
<1>7. ASSUME NEW p \in Nat, from <= p, p < to
      PROVE  Loaded(from, to)[p % PrefetchSize] = p
  <2>1. In(p % PrefetchSize)
    BY <1>7 DEF In
  <2>2. PICK q : q = The(p % PrefetchSize)
    OBVIOUS
  <2>3. q \in Nat /\ from <= q /\ q < to /\ q % PrefetchSize = p % PrefetchSize
    BY <1>2, <1>3, <2>1, <2>2
  <2>4. q = p
    <3>0. q - p < PrefetchSize /\ p - q < PrefetchSize /\ PrefetchSize \in Nat \ {0}
      BY <1>7, <2>3, Sizes
    <3>1. CASE p <= q
      BY ONLY p \in Nat, <2>3, <3>0, <3>1, SamePlace
    <3>2. CASE q <= p
      BY ONLY p \in Nat, <2>3, <3>0, <3>2, SamePlace
    <3>3. QED
      BY <2>3, <3>1, <3>2
  <2>5. QED
    BY <1>4, <1>6, <2>1, <2>2, <2>4
<1>8. ASSUME NEW p \in Nat, p < from, p >= to - PrefetchSize
      PROVE  Loaded(from, to)[p % PrefetchSize] = buf[p % PrefetchSize]
  <2>1. ~In(p % PrefetchSize)
    <3>1. SUFFICES ASSUME NEW q \in from .. to - 1, q % PrefetchSize = p % PrefetchSize
                   PROVE  FALSE
      BY DEF In
    <3>2. q \in Nat /\ p <= q /\ q - p < PrefetchSize
      BY <1>3, <1>8, Sizes
    <3>3. p = q
      BY <3>1, <3>2, Sizes, SamePlace
    <3>4. QED
      BY <1>8, <3>3
  <2>2. QED
    BY <1>4, <1>6, <2>1
<1>9. QED
  BY <1>5, <1>7, <1>8

-----------------------------------------------------------------------------
(* Who stands where.                                                       *)

\* The types of what the three warps keep.
LEMMA Types ==
  ASSUME TypeOK
  PROVE  /\ dec.sym \in 1 .. N + 1 /\ dec.len \in 0 .. BatchSize
         /\ dec.slot \in Slots /\ dec.wrpos \in 0 .. End
         /\ proc.slot \in Slots /\ proc.len \in 0 .. BatchSize
         /\ proc.done \in 0 .. BatchSize /\ proc.off \in Nat
         /\ proc.wrpos \in 0 .. End
         /\ pf.pos \in 0 .. End /\ pf.blen \in 0 .. PrefetchUnit
         /\ prefetch_wrpos \in 0 .. End
         /\ prefetch_rdpos \in Nat
         /\ batch_len \in [Slots -> -1 .. BatchSize]
         /\ batch \in [Slots -> [1 .. BatchSize -> Nat]]
<1>1. /\ dec.sym \in 1 .. N + 1 /\ dec.len \in 0 .. BatchSize
      /\ dec.slot \in Slots /\ dec.wrpos \in 0 .. End
  BY DEF TypeOK
<1>2. /\ proc.slot \in Slots /\ proc.len \in 0 .. BatchSize
      /\ proc.done \in 0 .. BatchSize /\ proc.off \in Nat
      /\ proc.wrpos \in 0 .. End
  BY DEF TypeOK
<1>3. /\ pf.pos \in 0 .. End /\ pf.blen \in 0 .. PrefetchUnit
      /\ prefetch_wrpos \in 0 .. End
  BY DEF TypeOK
<1>4. prefetch_rdpos \in Nat
  <2>1. prefetch_rdpos \in 0 .. End \cup StaleRdpos
    BY DEF TypeOK
  <2>2. QED
    BY <2>1, Here, Sizes
<1>5. /\ batch_len \in [Slots -> -1 .. BatchSize]
      /\ batch \in [Slots -> [1 .. BatchSize -> Nat]]
  BY DEF TypeOK
<1>6. QED
  BY <1>1, <1>2, <1>3, <1>4, <1>5

\* What the words for the positions hold, at the start too.
LEMMA Words ==
  ASSUME TypeOK
  PROVE  \A b \in Slots : batch_prefetch_rdpos[b] \in Nat
<1>1. End \in Nat /\ StaleRdpos \subseteq Nat
  BY Here, Sizes
<1>2. \A v \in 0 .. End \cup StaleRdpos : v \in Nat
  BY <1>1
<1>3. batch_prefetch_rdpos \in [Slots -> 0 .. End \cup StaleRdpos]
  BY DEF TypeOK
<1>4. QED
  BY <1>2, <1>3

-----------------------------------------------------------------------------
(* What no release can disturb.                                            *)

PfRecords   == [pc : {"align", "publish", "wait", "load", "done"},
                pos : 0 .. End, blen : 0 .. PrefetchUnit]
DecRecords  == [pc : {"wait", "short", "medium", "snapshot", "single", "rdpos",
                      "room", "stop", "done"},
                sym : 1 .. N + 1, slot : Slots, len : 0 .. BatchSize,
                wrpos : 0 .. End]
ProcRecords == [pc : {"take", "combine", "emit", "free", "done"}, slot : Slots,
                len : 0 .. BatchSize, done : 0 .. BatchSize, off : Nat,
                wrpos : 0 .. End]

\* The prefetcher stays inside the stream.
LEMMA PrefetcherBase ==
  ASSUME Base, Prefetcher
  PROVE  Base'
<1>0. TypeOK
  BY DEF Base
<1>1. /\ End \in Nat /\ prefetch_wrpos \in 0 .. End /\ pf.pos \in 0 .. End
      /\ pf.blen \in 0 .. PrefetchUnit /\ PrefetchUnit \in Nat \ {0}
      /\ PrefetchSize \in Nat \ {0} /\ PrefetchUnit <= PrefetchSize
      /\ WarpSize \in Nat \ {0} /\ WarpSize <= PrefetchUnit
      /\ pf \in PfRecords
      /\ buf \in [0 .. PrefetchSize - 1 -> Nat \cup {-1}]
  BY <1>0, Types, Here, Sizes DEF TypeOK, PfRecords
<1>2. UNCHANGED <<stream, prefetch_rdpos, prefetch_end, batch_len,
                  batch_prefetch_rdpos, batch, dec, proc, out, history>>
  BY DEF Prefetcher, PfAlign, PfPublish, PfWait, PfLoad, queue
<1>3. /\ pf' \in PfRecords /\ pf'.pc # "align"
      /\ pf'.pc \in {"wait", "load"} => pf'.pos + pf'.blen <= End
      /\ buf' \in [0 .. PrefetchSize - 1 -> Nat \cup {-1}]
      /\ prefetch_wrpos' \in 0 .. End
  <2>1. CASE PfAlign
    <3>1. PICK n : /\ \E align \in 1 .. WarpSize : n = Least(align, End)
                   /\ buf' = Loaded(0, n)
                   /\ pf' = [pf EXCEPT !.pc = "publish", !.pos = n]
                   /\ prefetch_wrpos' = prefetch_wrpos
      BY <2>1 DEF PfAlign
    <3>2. n \in 0 .. End /\ n \in Nat /\ n - 0 <= PrefetchSize
      BY <1>1, <3>1 DEF Least
    <3>3. buf' \in [0 .. PrefetchSize - 1 -> Nat \cup {-1}]
      BY <1>0, <3>1, <3>2, Loading
    <3>4. pf' \in PfRecords /\ pf'.pc = "publish"
      BY <1>1, <3>1, <3>2 DEF PfRecords
    <3>5. QED
      BY <1>1, <3>1, <3>3, <3>4
  <2>2. CASE PfPublish
    <3>1. PICK n : /\ n = Least(PrefetchUnit, End - pf.pos)
                   /\ pf' = [pf EXCEPT !.pc = "wait", !.blen = n]
                   /\ prefetch_wrpos' = pf.pos /\ buf' = buf
      BY <2>2 DEF PfPublish
    <3>2. n \in 0 .. PrefetchUnit /\ pf.pos + n <= End
      BY <1>1, <3>1 DEF Least
    <3>3. pf' \in PfRecords /\ pf'.pc = "wait" /\ pf'.pos = pf.pos /\ pf'.blen = n
      BY <1>1, <3>1, <3>2 DEF PfRecords
    <3>4. QED
      BY <1>1, <3>1, <3>2, <3>3
  <2>3. CASE PfWait
    <3>1. /\ pf.pc = "wait" /\ prefetch_wrpos' = prefetch_wrpos /\ buf' = buf
          /\ \/ pf' = [pf EXCEPT !.pc = "load"]
             \/ pf' = [pf EXCEPT !.pc = "load", !.blen = 0]
      BY <2>3 DEF PfWait, queue
    <3>2. pf.pos + pf.blen <= End /\ 0 \in 0 .. PrefetchUnit
      BY <1>1, <3>1 DEF Base
    <3>3. /\ pf' \in PfRecords /\ pf'.pc = "load" /\ pf'.pos = pf.pos
          /\ pf'.blen = pf.blen \/ pf'.blen = 0
      BY <1>1, <3>1, <3>2 DEF PfRecords
    <3>4. QED
      BY <1>1, <3>1, <3>2, <3>3
  <2>4. CASE PfLoad
    <3>1. PICK to : to = pf.pos + pf.blen
      OBVIOUS
    <3>2. /\ pf.pc = "load" /\ buf' = Loaded(pf.pos, to)
          /\ prefetch_wrpos' = prefetch_wrpos
          /\ pf' = [pf EXCEPT !.pc = IF pf.blen > 0 THEN "publish" ELSE "done",
                              !.pos = to]
      BY <2>4, <3>1 DEF PfLoad
    <3>3. /\ to <= End /\ to \in 0 .. End /\ to \in Nat /\ pf.pos \in Nat
          /\ pf.pos <= to /\ to - pf.pos <= PrefetchSize
      BY <1>1, <3>1, <3>2 DEF Base
    <3>4. buf' \in [0 .. PrefetchSize - 1 -> Nat \cup {-1}]
      BY <1>0, <3>2, <3>3, Loading
    <3>5. pf' \in PfRecords /\ pf'.pc \in {"publish", "done"}
      BY <1>1, <3>2, <3>3 DEF PfRecords
    <3>6. QED
      BY <1>1, <3>2, <3>4, <3>5
  <2>5. QED
    BY <2>1, <2>2, <2>3, <2>4 DEF Prefetcher
<1>4. End' = End /\ N' = N /\ Cur' = Cur /\ Writing' = Writing
  BY <1>2 DEF End, N, Cur, Writing
<1>5. TypeOK'
  BY <1>0, <1>2, <1>3, <1>4 DEF TypeOK, PfRecords, history
<1>6. QED
  BY <1>2, <1>3, <1>4, <1>5 DEF Base, history

\* The decoder stays inside the stream, and at a slot that is empty until it
\* submits it; the positions it stores never decrease.
LEMMA DecoderBase ==
  ASSUME Base, Decoder
  PROVE  Base'
<1>0. TypeOK
  BY DEF Base
<1>1. /\ dec.sym \in 1 .. N + 1 /\ dec.len \in 0 .. BatchSize /\ dec.slot \in Slots
      /\ N \in Nat /\ BatchSize \in Nat \ {0} /\ BatchCount \in Nat \ {0}
      /\ End \in Nat /\ prefetch_wrpos \in 0 .. End
      /\ batch_len \in [Slots -> -1 .. BatchSize]
      /\ batch \in [Slots -> [1 .. BatchSize -> Nat]]
  BY <1>0, Types, Here, Sizes
<1>2. /\ dec \in DecRecords /\ unset \subseteq Slots /\ prefetch_end \in BOOLEAN
      /\ batch_prefetch_rdpos \in [Slots -> 0 .. End \cup StaleRdpos]
  BY <1>0 DEF TypeOK, DecRecords
<1>3. UNCHANGED <<stream, buf, prefetch_wrpos, prefetch_rdpos, pf, proc, out,
                  overtaken, misled>>
  BY DEF Decoder, DecWait, DecShort, DecMedium, DecSnapshot, DecSingle, DecSubmit,
         DecRdpos, DecRoom, DecStop, queue, history
<1>4. End' = End /\ N' = N
  BY <1>3 DEF End, N
<1>5. ASSUME dec'.sym \in 1 .. N + 1, dec.sym <= dec'.sym
      PROVE  Cur <= Cur' /\ Cur \in 0 .. End /\ Cur' \in Nat
  <2>1. /\ stream.start[dec.sym] <= stream.start[dec'.sym]
        /\ stream.start[dec.sym] \in 0 .. End /\ stream.start[dec'.sym] \in 0 .. End
    BY <1>0, <1>1, <1>5, Here
  <2>2. QED
    BY <1>1, <1>3, <2>1 DEF Cur
<1>6. \A b \in Slots : batch_prefetch_rdpos[b] \in Nat
  BY <1>0, Words
<1>7. ASSUME dec' \in DecRecords, dec.sym <= dec'.sym,
             batch' \in [Slots -> [1 .. BatchSize -> Nat]],
             batch_len' \in [Slots -> -1 .. BatchSize], prefetch_end' \in BOOLEAN,
             Writing' \/ dec'.pc = "stop" => batch_len'[dec'.slot] = 0,
             \/ UNCHANGED <<batch_prefetch_rdpos, unset>>
             \/ /\ batch_prefetch_rdpos' = [batch_prefetch_rdpos EXCEPT ![dec.slot] = Cur]
                /\ unset' = unset \ {dec.slot}
      PROVE  Base'
  <2>1. dec'.sym \in 1 .. N + 1
    BY <1>7 DEF DecRecords
  <2>2. Cur <= Cur' /\ Cur \in 0 .. End /\ Cur' \in Nat
    BY <1>5, <1>7, <2>1
  <2>3. /\ batch_prefetch_rdpos' \in [Slots -> 0 .. End \cup StaleRdpos]
        /\ unset' \subseteq Slots
    BY <1>1, <1>2, <1>7, <2>2
  <2>4. TypeOK'
    BY <1>0, <1>3, <1>4, <1>7, <2>3 DEF TypeOK, DecRecords
  <2>5. ASSUME NEW b, b \in Slots \ unset' PROVE batch_prefetch_rdpos'[b] <= Cur'
    <3>1. CASE UNCHANGED <<batch_prefetch_rdpos, unset>>
      <4>1. batch_prefetch_rdpos[b] <= Cur /\ batch_prefetch_rdpos[b] \in Nat
        BY <1>6, <2>5, <3>1 DEF Base
      <4>2. QED
        BY <2>2, <3>1, <4>1
    <3>2. CASE /\ batch_prefetch_rdpos' = [batch_prefetch_rdpos EXCEPT ![dec.slot] = Cur]
               /\ unset' = unset \ {dec.slot}
      <4>1. CASE b = dec.slot
        BY <1>1, <1>2, <2>2, <3>2, <4>1
      <4>2. CASE b # dec.slot
        <5>1. /\ batch_prefetch_rdpos'[b] = batch_prefetch_rdpos[b]
              /\ batch_prefetch_rdpos[b] \in Nat /\ b \in Slots \ unset
          <6>1. b \in Slots \ unset
            BY <2>5, <3>2, <4>2
          <6>2. batch_prefetch_rdpos'[b] = batch_prefetch_rdpos[b]
            BY ONLY <1>2, <3>2, <4>2, <6>1
          <6>3. QED
            BY <1>6, <6>1, <6>2
        <5>2. batch_prefetch_rdpos[b] <= Cur
          BY <5>1 DEF Base
        <5>3. QED
          BY <2>2, <5>1, <5>2
      <4>3. QED
        BY <4>1, <4>2
    <3>3. QED
      BY <1>7, <3>1, <3>2
  <2>6. QED
    BY <1>3, <1>4, <1>7, <2>4, <2>5 DEF Base
<1>8. ASSUME NEW n, n \in Nat, NEW to, to \in {"medium", "snapshot", "single"},
             n <= Room, DecodeNext(n, to), Writing,
             UNCHANGED <<batch_len, prefetch_end, batch_prefetch_rdpos, unset>>
      PROVE  Base'
  <2>1. dec.sym + n \in 1 .. N + 1 /\ dec.len + n \in 0 .. BatchSize
    <3>1. /\ Room \in Int /\ Room <= N + 1 - dec.sym
          /\ Room <= BatchSize - dec.len
      BY <1>1 DEF Room, Least
    <3>2. n \in Nat /\ n <= Room
      BY <1>8
    <3>3. /\ dec.sym \in Int /\ dec.len \in Int /\ N \in Int /\ BatchSize \in Int
          /\ 1 <= dec.sym /\ 0 <= dec.len
      BY <1>1
    <3>4. PICK s : s = dec.sym
      OBVIOUS
    <3>5. PICK l : l = dec.len
      OBVIOUS
    <3>6. /\ s \in Int /\ l \in Int /\ N \in Int /\ BatchSize \in Int
          /\ 1 <= s /\ 0 <= l
          /\ Room \in Int /\ Room <= N + 1 - s /\ Room <= BatchSize - l
          /\ n \in Nat /\ n <= Room
      BY ONLY <3>1, <3>2, <3>3, <3>4, <3>5, Zenon
    <3>7. s + n \in 1 .. N + 1 /\ l + n \in 0 .. BatchSize
      BY ONLY <3>6
    <3>8. QED
      BY ONLY <3>4, <3>5, <3>7, Zenon
  <2>2. dec' = [dec EXCEPT !.pc = to, !.sym = dec.sym + n, !.len = dec.len + n]
    BY <1>8 DEF DecodeNext
  <2>3. /\ dec' \in DecRecords /\ dec'.sym = dec.sym + n /\ dec'.slot = dec.slot
        /\ dec'.pc = to
    BY ONLY <1>2, <1>8, <2>1, <2>2 DEF DecRecords
  <2>4. dec.sym <= dec'.sym
    BY <1>1, <1>8, <2>3
  <2>5. ASSUME NEW i, i \in 1 .. BatchSize
        PROVE  (IF i > dec.len /\ i <= dec.len + n
                THEN Decoded(dec.sym + i - dec.len - 1)
                ELSE batch[dec.slot][i]) \in Nat
    <3>1. batch[dec.slot][i] \in Nat
      BY <1>1, <2>5
    <3>2. \A q \in Nat : Decoded(q) \in Nat
      BY DEF Decoded, Garbage
    <3>3. i > dec.len => dec.sym + i - dec.len - 1 \in Nat
      BY <1>1, <2>5
    <3>4. QED
      BY <3>1, <3>2, <3>3
  <2>6. batch' \in [Slots -> [1 .. BatchSize -> Nat]]
    <3>1. batch' = [batch EXCEPT ![dec.slot] =
                     [i \in 1 .. BatchSize |->
                        IF i > dec.len /\ i <= dec.len + n
                        THEN Decoded(dec.sym + i - dec.len - 1)
                        ELSE batch[dec.slot][i]]]
      BY <1>8 DEF DecodeNext
    <3>2. QED
      BY <1>1, <2>5, <3>1
  <2>7. batch_len'[dec'.slot] = 0
    BY <1>8, <2>3 DEF Base
  <2>8. QED
    BY <1>1, <1>2, <1>7, <1>8, <2>3, <2>4, <2>6, <2>7
<1>9. Room \in Nat
  BY <1>1 DEF Room, Least
<1>10. CASE DecShort
  <2>1. PICK n \in 0 .. Room : DecodeNext(n, BehindShort(n))
    BY <1>10 DEF DecShort
  <2>2. n \in Nat /\ n <= Room
    BY <1>9
  <2>3. BehindShort(n) \in {"medium", "snapshot", "single"}
    BY DEF BehindShort
  <2>4. Writing /\ UNCHANGED <<batch_len, prefetch_end, batch_prefetch_rdpos, unset>>
    BY <1>10 DEF DecShort, Writing, history
  <2>5. QED
    BY <1>8, <2>1, <2>2, <2>3, <2>4
<1>11. CASE DecMedium
  <2>1. PICK n \in 1 .. Room : DecodeNext(n, "snapshot")
    BY <1>11 DEF DecMedium
  <2>2. n \in Nat /\ n <= Room
    BY <1>9
  <2>3. Writing /\ UNCHANGED <<batch_len, prefetch_end, batch_prefetch_rdpos, unset>>
    BY <1>11 DEF DecMedium, Writing, history
  <2>4. QED
    BY <1>8, <2>1, <2>2, <2>3
<1>12. CASE DecSingle
  <2>1. DecodeNext(1, "single") /\ 1 <= Room
    BY <1>9, <1>12 DEF DecSingle, CanDecode
  <2>2. Writing /\ UNCHANGED <<batch_len, prefetch_end, batch_prefetch_rdpos, unset>>
    BY <1>12 DEF DecSingle, Writing, history
  <2>3. QED
    BY <1>8, <2>1, <2>2
<1>13. CASE DecWait \/ DecSnapshot \/ DecRoom
  <2>1. UNCHANGED <<batch_len, prefetch_end, batch_prefetch_rdpos, unset, batch>>
    BY <1>13 DEF DecWait, DecSnapshot, DecRoom, queue, history
  <2>2. /\ dec' \in DecRecords /\ dec'.sym = dec.sym /\ dec'.slot = dec.slot
        /\ batch_len[dec.slot] = 0
    <3>1. CASE DecWait
      <4>1. dec' = [dec EXCEPT !.pc = "short"] /\ Writing
        BY <3>1 DEF DecWait, Writing
      <4>2. QED
        BY <1>2, <4>1 DEF DecRecords, Base
    <3>2. CASE DecSnapshot
      <4>1. dec' = [dec EXCEPT !.pc = "single", !.wrpos = prefetch_wrpos] /\ Writing
        BY <3>2 DEF DecSnapshot, Writing
      <4>2. QED
        BY <1>1, <1>2, <4>1 DEF DecRecords, Base
    <3>3. CASE DecRoom
      <4>1. /\ dec' = [dec EXCEPT !.pc = IF dec.sym > N THEN "stop" ELSE "wait",
                                  !.len = 0]
            /\ batch_len[dec.slot] = 0 /\ 0 \in 0 .. BatchSize
        BY <1>1, <3>3 DEF DecRoom
      <4>2. QED
        BY <1>2, <4>1 DEF DecRecords
    <3>4. QED
      BY <1>13, <3>1, <3>2, <3>3
  <2>3. QED
    BY <1>1, <1>2, <1>7, <2>1, <2>2
<1>14. CASE DecSubmit
  <2>1. /\ dec' = [dec EXCEPT !.pc = IF dec.len # 0 THEN "rdpos" ELSE "room"]
        /\ batch_len' = [batch_len EXCEPT ![dec.slot] = dec.len]
        /\ UNCHANGED <<prefetch_end, batch_prefetch_rdpos, unset, batch>>
    BY <1>14 DEF DecSubmit, history
  <2>2. dec' \in DecRecords /\ dec'.sym = dec.sym /\ dec'.pc \in {"rdpos", "room"}
    BY <1>2, <2>1 DEF DecRecords
  <2>3. batch_len' \in [Slots -> -1 .. BatchSize]
    BY <1>1, <2>1
  <2>4. ~(Writing' \/ dec'.pc = "stop")
    BY <2>2 DEF Writing
  <2>5. QED
    BY <1>1, <1>2, <1>7, <2>1, <2>2, <2>3, <2>4
<1>15. CASE DecRdpos
  <2>1. /\ dec' = [dec EXCEPT !.pc = "room", !.slot = (dec.slot + 1) % BatchCount]
        /\ batch_prefetch_rdpos' = [batch_prefetch_rdpos EXCEPT ![dec.slot] = Cur]
        /\ unset' = unset \ {dec.slot}
        /\ UNCHANGED <<prefetch_end, batch_len, batch>>
    BY <1>15 DEF DecRdpos
  <2>2. (dec.slot + 1) % BatchCount \in Slots
    <3>1. 1 \in 0 .. BatchCount
      BY <1>1
    <3>2. Ahead(dec.slot, 1) \in Slots
      BY <1>1, <3>1, AheadIs
    <3>3. QED
      BY <3>2 DEF Ahead
  <2>3. dec' \in DecRecords /\ dec'.sym = dec.sym /\ dec'.pc = "room"
    BY <1>2, <2>1, <2>2 DEF DecRecords
  <2>4. ~(Writing' \/ dec'.pc = "stop")
    BY <2>3 DEF Writing
  <2>5. QED
    BY <1>1, <1>2, <1>7, <2>1, <2>3, <2>4
<1>16. CASE DecStop
  <2>1. /\ dec' = [dec EXCEPT !.pc = "done"] /\ prefetch_end' = TRUE
        /\ batch_len' = [batch_len EXCEPT ![dec.slot] = -1]
        /\ UNCHANGED <<batch_prefetch_rdpos, unset, batch>>
    BY <1>16 DEF DecStop, history
  <2>2. dec' \in DecRecords /\ dec'.sym = dec.sym /\ dec'.pc = "done"
    BY <1>2, <2>1 DEF DecRecords
  <2>3. batch_len' \in [Slots -> -1 .. BatchSize] /\ prefetch_end' \in BOOLEAN
    BY <1>1, <2>1
  <2>4. ~(Writing' \/ dec'.pc = "stop")
    BY <2>2 DEF Writing
  <2>5. QED
    BY <1>1, <1>2, <1>7, <2>1, <2>2, <2>3, <2>4
<1>17. QED
  BY <1>10, <1>11, <1>12, <1>13, <1>14, <1>15, <1>16 DEF Decoder

\* The processor writes bytes, whatever it finds in its batch.
LEMMA ProcessorBase ==
  ASSUME Base, Processor
  PROVE  Base'
<1>0. TypeOK
  BY DEF Base
<1>1. /\ proc.slot \in Slots /\ proc.len \in 0 .. BatchSize
      /\ proc.done \in 0 .. BatchSize /\ proc.off \in Nat
      /\ N \in Nat /\ BatchSize \in Nat \ {0} /\ BatchCount \in Nat \ {0}
      /\ End \in Nat /\ prefetch_wrpos \in 0 .. End /\ PrefetchSize \in Nat \ {0}
      /\ LiteralUnit \in Nat \ {0}
      /\ batch_len \in [Slots -> -1 .. BatchSize]
  BY <1>0, Types, Here, Sizes
<1>2. /\ proc \in ProcRecords /\ out \in Seq(Nat \cup {-1})
      /\ buf \in [0 .. PrefetchSize - 1 -> Nat \cup {-1}]
      /\ batch_prefetch_rdpos \in [Slots -> 0 .. End \cup StaleRdpos]
      /\ prefetch_rdpos \in 0 .. End \cup StaleRdpos
      /\ overtaken \in BOOLEAN /\ misled \in BOOLEAN
  BY <1>0 DEF TypeOK, ProcRecords
<1>3. UNCHANGED <<stream, buf, prefetch_wrpos, prefetch_end, batch_prefetch_rdpos,
                  batch, pf, dec, unset>>
  BY DEF Processor, PrTake, PrSmall, PrSnapshot, PrCopy, PrLiteral, PrRelease,
         PrFree, queue, history
<1>4. End' = End /\ N' = N /\ Cur' = Cur /\ Writing' = Writing
  BY <1>3 DEF End, N, Cur, Writing
<1>5. ASSUME proc' \in ProcRecords, out' \in Seq(Nat \cup {-1}),
             prefetch_rdpos' \in 0 .. End \cup StaleRdpos,
             batch_len' \in [Slots -> -1 .. BatchSize],
             \A b \in Slots : batch_len'[b] \in {batch_len[b], 0},
             overtaken' \in BOOLEAN, misled' \in BOOLEAN
      PROVE  Base'
  <2>1. TypeOK'
    BY <1>0, <1>3, <1>4, <1>5 DEF TypeOK, ProcRecords
  <2>2. dec.slot \in Slots
    BY <1>0, Types
  <2>3. Writing \/ dec.pc = "stop" => batch_len'[dec.slot] = 0
    BY <1>5, <2>2 DEF Base
  <2>4. QED
    BY <1>3, <1>4, <2>1, <2>3 DEF Base
<1>6. ASSUME UNCHANGED <<queue, history>>
      PROVE  /\ prefetch_rdpos' \in 0 .. End \cup StaleRdpos
             /\ batch_len' \in [Slots -> -1 .. BatchSize]
             /\ \A b \in Slots : batch_len'[b] \in {batch_len[b], 0}
             /\ overtaken' \in BOOLEAN /\ misled' \in BOOLEAN
  BY <1>1, <1>2, <1>6 DEF queue, history
<1>7. ASSUME NEW n, n \in Int, NEW w, w \in [1 .. n -> Nat \cup {-1}], out' = out \o w
      PROVE  out' \in Seq(Nat \cup {-1})
  <2>1. w \in Seq(Nat \cup {-1})
    <3>1. CASE n >= 0
      BY <1>7, <3>1
    <3>2. CASE n < 0
      <4>1. 1 .. n = 1 .. 0
        BY <1>7, <3>2
      <4>2. w \in [1 .. 0 -> Nat \cup {-1}] /\ 0 \in Nat
        BY <1>7, <4>1
      <4>3. QED
        BY <4>2
    <3>3. QED
      BY <1>7, <3>1, <3>2
  <2>2. QED
    BY <1>2, <1>7, <2>1
<1>8. /\ Sym.len \in Nat \ {0} /\ Sym.dist \in Nat
      /\ LiteralPos \in Nat \/ (LiteralPos = -1 /\ Sym.len = 1)
  <2>1. CASE Entry \in 1 .. N
    <3>1. /\ Sym = stream.syms[Entry]
          /\ LiteralPos = stream.start[Entry] + Sym.tag + proc.off
      BY <2>1 DEF Sym, LiteralPos
    <3>2. /\ stream.syms[Entry].tag \in 1 .. MaxTag /\ MaxTag \in Nat
          /\ stream.syms[Entry].len \in Nat \ {0} /\ stream.syms[Entry].dist \in Nat
      BY <1>0, <2>1, Here, Sizes
    <3>3. stream.start[Entry] \in 0 .. End
      <4>1. Entry \in 1 .. N + 1
        BY <1>1, <2>1
      <4>2. QED
        BY <1>0, <4>1, Here
    <3>4. QED
      BY <1>1, <3>1, <3>2, <3>3
  <2>2. CASE Entry \notin 1 .. N
    BY <2>2 DEF Sym, LiteralPos
  <2>3. QED
    BY <2>1, <2>2
<1>9. ASSUME NEW n, n \in Int, n <= Sym.len
      PROVE  /\ FromBase(LiteralPos, n) \in [1 .. n -> Nat \cup {-1}]
             /\ FromRing(LiteralPos, n) \in [1 .. n -> Nat \cup {-1}]
  <2>1. ASSUME NEW i, i \in 1 .. n
        PROVE  /\ LiteralPos + i - 1 \in Nat \cup {-1}
               /\ buf[(LiteralPos + i - 1) % PrefetchSize] \in Nat \cup {-1}
    <3>1. LiteralPos + i - 1 \in Nat \cup {-1}
      BY <1>8, <1>9, <2>1
    <3>2. \A p \in Int : p % PrefetchSize \in 0 .. PrefetchSize - 1
      BY <1>1
    <3>3. (LiteralPos + i - 1) % PrefetchSize \in 0 .. PrefetchSize - 1
      BY <3>1, <3>2
    <3>4. QED
      BY <1>2, <3>1, <3>3
  <2>2. QED
    BY <2>1 DEF FromBase, FromRing
<1>10. ASSUME ~IsLiteral(Sym) PROVE FromOutput(Sym) \in [1 .. Sym.len -> Nat \cup {-1}]
  <2>1. Sym.dist \in Nat \ {0}
    BY <1>8, <1>10 DEF IsLiteral
  <2>2. ASSUME NEW i, i \in 1 .. Sym.len, NEW at,
               at = Len(out) - Sym.dist + 1 + ((i - 1) % Sym.dist)
        PROVE  (IF at >= 1 THEN out[at] ELSE -1) \in Nat \cup {-1}
    <3>1. PICK d, r : d = Sym.dist /\ r = (i - 1) % Sym.dist
      OBVIOUS
    <3>2. d \in Nat \ {0} /\ r \in 0 .. d - 1
      BY <1>8, <2>1, <2>2, <3>1
    <3>3. Len(out) \in Nat
      BY <1>2
    <3>4. at \in Int /\ at <= Len(out)
      BY ONLY <2>2, <3>1, <3>2, <3>3
    <3>5. at >= 1 => at \in 1 .. Len(out)
      BY ONLY <3>3, <3>4
    <3>6. \A q \in 1 .. Len(out) : out[q] \in Nat \cup {-1}
      BY ONLY <1>2
    <3>7. QED
      BY <3>5, <3>6
  <2>3. QED
    BY <2>2 DEF FromOutput
<1>11. CASE PrTake
  <2>1. /\ UNCHANGED <<queue, history, out>> /\ batch_len[proc.slot] # 0
        /\ proc' = IF batch_len[proc.slot] < 0
                   THEN [proc EXCEPT !.pc = "done"]
                   ELSE [proc EXCEPT !.pc = "combine", !.len = batch_len[proc.slot],
                                     !.done = 0]
    BY <1>11 DEF PrTake
  <2>2. batch_len[proc.slot] \in -1 .. BatchSize /\ 0 \in 0 .. BatchSize
    BY <1>1
  <2>3. ~(batch_len[proc.slot] < 0) => batch_len[proc.slot] \in 0 .. BatchSize
    BY <1>1, <2>2
  <2>4. proc' \in ProcRecords
    BY <1>2, <2>1, <2>2, <2>3 DEF ProcRecords
  <2>5. QED
    BY <1>2, <1>5, <1>6, <2>1, <2>4
<1>12. CASE PrSmall
  <2>1. /\ UNCHANGED <<queue, history>> /\ proc.done < proc.len
        /\ proc' = [proc EXCEPT !.done = proc.done + 1]
        /\ out' = out \o (IF IsLiteral(Sym) THEN FromBase(LiteralPos, Sym.len)
                                            ELSE FromOutput(Sym))
    BY <1>12 DEF PrSmall
  <2>2. proc.done + 1 \in 0 .. BatchSize
    BY <1>1, <2>1
  <2>3. proc' \in ProcRecords
    BY <1>2, <2>1, <2>2 DEF ProcRecords
  <2>4. Sym.len \in Int /\ Sym.len <= Sym.len
    BY <1>8
  <2>5. out' \in Seq(Nat \cup {-1})
    BY <1>7, <1>9, <1>10, <2>1, <2>4
  <2>6. QED
    BY <1>5, <1>6, <2>1, <2>3, <2>5
<1>13. CASE PrSnapshot
  <2>1. /\ UNCHANGED <<queue, history, out>>
        /\ proc' = [proc EXCEPT !.pc = "emit", !.wrpos = prefetch_wrpos]
    BY <1>13 DEF PrSnapshot
  <2>2. proc' \in ProcRecords
    BY <1>1, <1>2, <2>1 DEF ProcRecords
  <2>3. QED
    BY <1>2, <1>5, <1>6, <2>1, <2>2
<1>14. CASE PrCopy
  <2>1. /\ UNCHANGED <<queue, history>> /\ proc.done < proc.len /\ ~IsLiteral(Sym)
        /\ proc' = [proc EXCEPT !.done = proc.done + 1]
        /\ out' = out \o FromOutput(Sym)
    BY <1>14 DEF PrCopy
  <2>2. proc.done + 1 \in 0 .. BatchSize
    <3>1. proc.done < proc.len
      BY <2>1
    <3>2. QED
      BY ONLY <1>1, <3>1
  <2>3. proc' \in ProcRecords
    BY <1>2, <2>1, <2>2 DEF ProcRecords
  <2>4. out' \in Seq(Nat \cup {-1})
    <3>1. Sym.len \in Int /\ FromOutput(Sym) \in [1 .. Sym.len -> Nat \cup {-1}]
      BY <1>8, <1>10, <2>1
    <3>2. out' = out \o FromOutput(Sym)
      BY <2>1
    <3>3. QED
      BY <1>7, <3>1, <3>2
  <2>5. QED
    BY <1>5, <1>6, <2>1, <2>3, <2>4
<1>15. CASE PrLiteral
  <2>1. PICK n, w : /\ n = Least(LiteralUnit, Sym.len - proc.off)
                    /\ w \in {FromRing(LiteralPos, n), FromBase(LiteralPos, n)}
                    /\ UNCHANGED <<queue, history>> /\ proc.done < proc.len
                    /\ out' = out \o w
                    /\ proc' = IF proc.off + n < Sym.len
                               THEN [proc EXCEPT !.off = proc.off + n]
                               ELSE [proc EXCEPT !.off = 0, !.done = proc.done + 1]
    BY <1>15 DEF PrLiteral
  <2>2. n \in Int /\ n <= Sym.len
    BY <1>1, <1>8, <2>1 DEF Least
  <2>3. out' \in Seq(Nat \cup {-1})
    BY <1>7, <1>9, <2>1, <2>2
  <2>4. proc.off + n < Sym.len => proc.off + n \in Nat
    <3>1. /\ Sym.len \in Int /\ LiteralUnit \in Nat /\ proc.off \in Nat
          /\ n = Least(LiteralUnit, Sym.len - proc.off)
      BY <1>1, <1>8, <2>1
    <3>2. QED
      BY ONLY <3>1 DEF Least
  <2>5. proc.done + 1 \in 0 .. BatchSize
    BY <1>1, <2>1
  <2>6. proc' \in ProcRecords
    BY <1>2, <2>1, <2>4, <2>5 DEF ProcRecords
  <2>7. QED
    BY <1>5, <1>6, <2>1, <2>3, <2>6
<1>16. CASE PrRelease
  <2>1. /\ prefetch_rdpos' = batch_prefetch_rdpos[proc.slot]
        /\ proc' = [proc EXCEPT !.pc = "free"]
        /\ overtaken' = Unstored(proc.slot)
        /\ misled' = (misled \/ (/\ proc.slot \in unset
                                 /\ batch_prefetch_rdpos[proc.slot] > Cur))
        /\ UNCHANGED <<batch_len, out>>
    BY <1>16 DEF PrRelease
  <2>2. proc' \in ProcRecords
    BY <1>2, <2>1 DEF ProcRecords
  <2>3. prefetch_rdpos' \in 0 .. End \cup StaleRdpos
    BY <1>1, <1>2, <2>1
  <2>4. overtaken' \in BOOLEAN /\ misled' \in BOOLEAN
    BY <1>2, <2>1, Zenon DEF Unstored
  <2>5. QED
    BY <1>1, <1>2, <1>5, <2>1, <2>2, <2>3, <2>4
<1>17. CASE PrFree
  <2>1. /\ batch_len' = [batch_len EXCEPT ![proc.slot] = 0]
        /\ proc' = [proc EXCEPT !.pc = "take", !.slot = (proc.slot + 1) % BatchCount]
        /\ UNCHANGED <<prefetch_rdpos, out, history>>
    BY <1>17 DEF PrFree
  <2>2. (proc.slot + 1) % BatchCount \in Slots
    BY <1>1 DEF Slots
  <2>3. proc' \in ProcRecords
    BY <1>2, <2>1, <2>2 DEF ProcRecords
  <2>4. /\ batch_len' \in [Slots -> -1 .. BatchSize]
        /\ \A b \in Slots : batch_len'[b] \in {batch_len[b], 0}
    BY <1>1, <2>1
  <2>5. QED
    BY <1>2, <1>5, <2>1, <2>3, <2>4 DEF history
<1>18. QED
  BY <1>11, <1>12, <1>13, <1>14, <1>15, <1>16, <1>17 DEF Processor

\* So does every step keep what no release can disturb.
LEMMA BaseStep ==
  ASSUME Base, [Next]_vars
  PROVE  Base'
<1>1. CASE Joined \/ UNCHANGED vars
  <2>1. UNCHANGED <<stream, buf, prefetch_wrpos, prefetch_rdpos, prefetch_end,
                    batch_len, batch_prefetch_rdpos, batch, pf, dec, proc, out,
                    unset, overtaken, misled>>
    BY <1>1 DEF Joined, vars, queue, history
  <2>2. End' = End /\ N' = N /\ Cur' = Cur /\ Writing' = Writing
    BY <2>1 DEF End, N, Cur, Writing
  <2>3. TypeOK'
    BY <2>1, <2>2 DEF Base, TypeOK
  <2>4. QED
    BY <2>1, <2>2, <2>3 DEF Base
<1>2. QED
  BY <1>1, PrefetcherBase, DecoderBase, ProcessorBase DEF Next

-----------------------------------------------------------------------------
(* The queue.                                                              *)

\* The batches in flight, and the one being written, begin one behind the
\* other, at symbols of the stream.
LEMMA Positions ==
  ASSUME TypeOK, HeadersRead, DecInv, NEW k \in 0 .. BatchCount, QueueInv(k)
  PROVE  /\ DecFirst \in 1 .. dec.sym /\ dec.sym \in 1 .. N + 1
         /\ \A j \in 0 .. k : SlotOf(j) \in Slots /\ First(k, j) \in 1 .. DecFirst
         /\ \A j \in 0 .. k - 1 :
              /\ batch_len[SlotOf(j)] \in 1 .. BatchSize
              /\ First(k, j + 1) = First(k, j) + batch_len[SlotOf(j)]
<1>0. N \in Nat /\ BatchSize \in Nat \ {0} /\ BatchCount \in Nat \ {0}
  BY Here, Sizes
<1>a. BatchSize \in Nat /\ 1 \in 1 .. BatchSize
  BY <1>0
<1>b. /\ dec.sym \in 1 .. N + 1 /\ dec.len \in 0 .. BatchSize
      /\ proc.slot \in Slots /\ dec.slot \in Slots
      /\ batch_len \in [Slots -> -1 .. BatchSize]
      /\ batch \in [Slots -> [1 .. BatchSize -> Nat]]
  BY Types, Zenon
<1>1. /\ dec.sym \in 1 .. N + 1 /\ dec.len \in 0 .. BatchSize /\ N \in Nat
      /\ BatchSize \in Nat /\ BatchCount \in Nat \ {0}
      /\ proc.slot \in Slots /\ dec.slot \in Slots
      /\ batch_len \in [Slots -> -1 .. BatchSize]
      /\ batch \in [Slots -> [1 .. BatchSize -> Nat]]
      /\ 1 \in 1 .. BatchSize
  BY <1>0, <1>a, <1>b, Zenon
<1>2. DecFirst \in 1 .. dec.sym
  BY <1>1 DEF DecInv, DecFirst
<1>3. ASSUME NEW j \in 0 .. k PROVE SlotOf(j) \in Slots
  <2>1. j \in 0 .. BatchCount
    BY <1>1
  <2>2. QED
    BY <1>1, <2>1, AheadIs DEF SlotOf
<1>4. ASSUME NEW j \in 0 .. k - 1
      PROVE  /\ batch_len[SlotOf(j)] \in 1 .. BatchSize
             /\ First(k, j + 1) = First(k, j) + batch_len[SlotOf(j)]
             /\ First(k, j) \in Nat \ {0}
  <2>1. SlotOf(j) \in Slots
    BY <1>3, <1>1
  <2>2. batch_len[SlotOf(j)] > 0
        /\ First(k, j + 1) = First(k, j) + batch_len[SlotOf(j)]
    BY DEF QueueInv
  <2>3. batch_len[SlotOf(j)] \in -1 .. BatchSize
    BY <1>1, <2>1
  <2>4. First(k, j) = batch[SlotOf(j)][1]
    BY DEF First
  <2>5. batch[SlotOf(j)][1] \in Nat /\ batch[SlotOf(j)][1] # 0
    BY <1>1, <2>1 DEF HeadersRead, Garbage
  <2>6. QED
    BY <1>1, <2>2, <2>3, <2>4, <2>5
<1>. DEFINE S == {m \in Nat : m <= k => /\ First(k, k - m) \in Nat \ {0}
                                        /\ First(k, k - m) + m <= DecFirst}
<1>5. 0 \in S
  <2>1. First(k, k) = DecFirst
    BY DEF First
  <2>2. k - 0 = k
    BY <1>1
  <2>3. QED
    BY <1>1, <1>2, <2>1, <2>2
<1>6. ASSUME NEW m \in Nat, m >= 0, m \in S PROVE m + 1 \in S
  <2>1. SUFFICES ASSUME m + 1 <= k
                 PROVE  /\ First(k, k - (m + 1)) \in Nat \ {0}
                        /\ First(k, k - (m + 1)) + (m + 1) <= DecFirst
    OBVIOUS
  <2>2. PICK j \in 0 .. k - 1 : j = k - (m + 1)
    BY <1>1, <2>1
  <2>3. j + 1 = k - m
    BY <1>1, <2>2
  <2>4. First(k, j + 1) \in Nat \ {0} /\ First(k, j + 1) + m <= DecFirst
    BY <1>1, <1>6, <2>1, <2>3
  <2>5. /\ First(k, j) \in Nat \ {0} /\ batch_len[SlotOf(j)] \in 1 .. BatchSize
        /\ First(k, j + 1) = First(k, j) + batch_len[SlotOf(j)]
    BY <1>4
  <2>6. First(k, j) + (m + 1) <= DecFirst
    <3>1. DecFirst \in Int /\ BatchSize \in Nat
      BY <1>1, <1>2
    <3>2. QED
      BY ONLY m \in Nat, <2>4, <2>5, <3>1
  <2>7. QED
    BY <2>2, <2>5, <2>6
<1>. HIDE DEF S
<1>7. ASSUME NEW j \in 0 .. k PROVE First(k, j) \in 1 .. DecFirst
  <2>1. PICK m \in Nat : m = k - j
    BY <1>1
  <2>2. m \in S
    BY <1>5, <1>6, Induction
  <2>3. k - m = j /\ m <= k
    BY <1>1, <2>1
  <2>4. First(k, j) \in Nat \ {0} /\ First(k, j) + m <= DecFirst
    BY <2>2, <2>3 DEF S
  <2>5. QED
    BY <1>2, <2>4
<1>8. QED
  BY <1>1, <1>2, <1>3, <1>4, <1>7

\* The slots of different batches are different.
LEMMA SlotsApart ==
  ASSUME TypeOK, NEW i, NEW j, i \in 0 .. BatchCount - 1,
         j \in 0 .. BatchCount - 1, i # j
  PROVE  SlotOf(i) # SlotOf(j)
<1>1. proc.slot \in Slots /\ BatchCount \in Nat \ {0}
  BY Sizes, Types
<1>2. /\ SlotOf(i) = IF proc.slot + i < BatchCount THEN proc.slot + i
                     ELSE proc.slot + i - BatchCount
      /\ SlotOf(j) = IF proc.slot + j < BatchCount THEN proc.slot + j
                     ELSE proc.slot + j - BatchCount
  <2>1. i \in 0 .. BatchCount /\ j \in 0 .. BatchCount
    BY <1>1
  <2>2. QED
    BY <1>1, <2>1, AheadIs DEF SlotOf
<1>3. QED
  BY <1>1, <1>2 DEF Slots

\* The processor's slot is that of the first batch.
LEMMA FirstSlot ==
  ASSUME TypeOK
  PROVE  SlotOf(0) = proc.slot /\ SlotOf(BatchCount) = proc.slot
<1>1. proc.slot \in Slots /\ BatchCount \in Nat \ {0}
  BY Sizes, Types
<1>2. 0 \in 0 .. BatchCount /\ BatchCount \in 0 .. BatchCount
  BY <1>1
<1>3. QED
  BY <1>1, <1>2, AheadIs DEF SlotOf, Slots

\* The processor stands between what it has given up and what the decoder has
\* submitted; the symbol it reads is the one of the stream.
LEMMA Standing ==
  ASSUME TypeOK, HeadersRead, DecInv, NEW k \in 0 .. BatchCount, QueueInv(k),
         ProcInv(k)
  PROVE  /\ At(k) \in 1 .. DecFirst /\ At(k) \in 1 .. N + 1
         /\ GivenUp(k) \in 1 .. At(k)
         /\ Busy => /\ k > 0 /\ First(k, 1) = First(k, 0) + proc.len
                    /\ proc.len \in 1 .. BatchSize
         /\ Busy /\ proc.done < proc.len =>
              /\ At(k) \in 1 .. N /\ Entry = At(k)
              /\ Entry # Garbage /\ Sym = stream.syms[At(k)]
<1>1. /\ DecFirst \in 1 .. dec.sym /\ dec.sym \in 1 .. N + 1
      /\ N \in Nat /\ BatchCount \in Nat \ {0} /\ BatchSize \in Nat \ {0}
      /\ proc.done \in 0 .. BatchSize /\ proc.len \in 0 .. BatchSize
  BY Positions, Here, Sizes, Types
<1>2. First(k, 0) \in 1 .. DecFirst
  <2>1. 0 \in 0 .. k
    BY <1>1
  <2>2. QED
    BY <2>1, Positions
<1>3. ASSUME Busy
      PROVE  /\ k > 0 /\ First(k, 1) = First(k, 0) + proc.len
             /\ First(k, 1) \in 1 .. DecFirst
             /\ proc.len \in 1 .. BatchSize /\ proc.done <= proc.len
             /\ proc.len = batch_len[SlotOf(0)]
  <2>1. k > 0 /\ proc.len = batch_len[proc.slot] /\ proc.done <= proc.len
    BY <1>3 DEF ProcInv
  <2>2. 0 \in 0 .. k - 1 /\ 1 \in 0 .. k /\ 0 + 1 = 1
    BY <1>1, <2>1
  <2>3. SlotOf(0) = proc.slot
    BY FirstSlot
  <2>4. /\ batch_len[SlotOf(0)] \in 1 .. BatchSize
        /\ First(k, 0 + 1) = First(k, 0) + batch_len[SlotOf(0)]
    BY <2>2, Positions
  <2>5. First(k, 1) \in 1 .. DecFirst
    BY <2>2, Positions
  <2>6. QED
    BY <2>1, <2>2, <2>3, <2>4, <2>5
<1>4. At(k) \in 1 .. DecFirst
  BY <1>1, <1>2, <1>3 DEF At
<1>5. At(k) \in 1 .. N + 1
  BY <1>1, <1>4
<1>6. GivenUp(k) \in 1 .. At(k)
  <2>1. CASE proc.pc = "free"
    <3>1. Busy /\ proc.done = proc.len
      BY <2>1 DEF Busy, ProcInv
    <3>2. GivenUp(k) = First(k, 1) /\ At(k) = First(k, 0) + proc.done
      BY <2>1, <3>1 DEF GivenUp, At
    <3>3. QED
      BY <1>1, <1>3, <1>4, <3>1, <3>2
  <2>2. CASE proc.pc # "free"
    <3>1. GivenUp(k) = First(k, 0)
      BY <2>2 DEF GivenUp
    <3>2. QED
      BY <1>1, <1>2, <3>1 DEF At
  <2>3. QED
    BY <2>1, <2>2
<1>7. ASSUME Busy, proc.done < proc.len
      PROVE  /\ At(k) \in 1 .. N /\ Entry = At(k)
             /\ Entry # Garbage /\ Sym = stream.syms[At(k)]
  <2>1. At(k) = First(k, 0) + proc.done
    BY <1>7 DEF At
  <2>2. At(k) < First(k, 1)
    BY <1>1, <1>2, <1>3, <1>7, <2>1
  <2>3. At(k) \in 1 .. N
    BY <1>1, <1>3, <1>5, <1>7, <2>2
  <2>4. 0 \in 0 .. k - 1 /\ proc.done + 1 \in 1 .. batch_len[SlotOf(0)]
    BY <1>1, <1>3, <1>7
  <2>5. batch[SlotOf(0)][proc.done + 1] = First(k, 0) + (proc.done + 1) - 1
    BY <2>4 DEF QueueInv
  <2>6. Entry = At(k)
    BY <1>1, <1>2, <2>1, <2>5, FirstSlot DEF Entry
  <2>7. Entry # Garbage
    BY <2>3, <2>6 DEF Garbage
  <2>8. QED
    BY <2>3, <2>6, <2>7 DEF Sym
<1>8. QED
  BY <1>3, <1>4, <1>5, <1>6, <1>7

\* What the processor has not done is still in the ring, if it was loaded.
LEMMA Window ==
  ASSUME TypeOK, HeadersRead, DecInv, RingInv, NEW k \in 0 .. BatchCount,
         QueueInv(k), ProcInv(k), NEW p \in Nat, p >= stream.start[At(k)],
         p < pf.pos
  PROVE  InRing(p)
<1>1. At(k) \in 1 .. N + 1 /\ GivenUp(k) \in 1 .. At(k)
  BY Standing
<1>2. GivenUp(k) \in 1 .. N + 1 /\ GivenUp(k) <= At(k)
  BY <1>1, Here
<1>3. stream.start[GivenUp(k)] <= stream.start[At(k)]
  BY <1>1, <1>2, Here
<1>4. stream.start[GivenUp(k)] \in Nat /\ stream.start[At(k)] \in Nat
  BY <1>1, <1>2, Here
<1>5. pf.pos - PrefetchSize <= stream.start[GivenUp(k)]
  BY DEF ProcInv
<1>6. pf.pos \in Nat /\ PrefetchSize \in Nat
  BY Types, Here, Sizes
<1>7. p >= pf.pos - PrefetchSize /\ p \in 0 .. pf.pos - 1
  BY <1>3, <1>4, <1>5, <1>6
<1>8. QED
  BY <1>7 DEF RingInv

-----------------------------------------------------------------------------
(* The start.                                                              *)

\* Nothing is loaded, no batch is in flight, nothing is written.
LEMMA InitInv == Init => IInv
<1>. SUFFICES ASSUME Init PROVE IInv
  OBVIOUS
<1>1. stream \in Streams
  BY DEF Init
<1>2. /\ N \in Nat /\ stream.start[1] = 0 /\ stream.dst[1] = 0
      /\ \A i \in 1 .. N + 1 : stream.start[i] \in Nat /\ stream.dst[i] \in Nat
      /\ stream.text \in Seq(Nat)
  BY <1>1, StreamTypes DEF N
<1>3. End \in Nat
  BY <1>2 DEF End
<1>4. Slots \subseteq Nat /\ 0 \in Slots
  BY Sizes DEF Slots
<1>5. TypeOK
  <2>1. buf \in [0 .. PrefetchSize - 1 -> Nat \cup {-1}]
    BY DEF Init
  <2>2. batch_len \in [Slots -> -1 .. BatchSize]
    BY Sizes DEF Init
  <2>3. batch \in [Slots -> [1 .. BatchSize -> Nat]]
    BY DEF Init
  <2>4. batch_prefetch_rdpos \in [Slots -> 0 .. End \cup StaleRdpos]
    BY DEF Init
  <2>5. /\ prefetch_wrpos \in 0 .. End
        /\ prefetch_rdpos \in 0 .. End \cup StaleRdpos
        /\ prefetch_end \in BOOLEAN
    <3>1. prefetch_wrpos = 0 /\ prefetch_rdpos = 0
      BY DEF Init
    <3>2. prefetch_end \in BOOLEAN
      BY Zenon DEF Init
    <3>3. 0 \in 0 .. End
      BY <1>3
    <3>4. QED
      BY <3>1, <3>2, <3>3, Zenon
  <2>6. pf \in [pc : {"align", "publish", "wait", "load", "done"},
               pos : 0 .. End, blen : 0 .. PrefetchUnit]
    BY <1>3, Sizes DEF Init
  <2>7. dec \in [pc : {"wait", "short", "medium", "snapshot", "single", "rdpos",
                      "room", "stop", "done"},
                sym : 1 .. N + 1, slot : Slots, len : 0 .. BatchSize,
                wrpos : 0 .. End]
    <3>1. 0 \in 0 .. End /\ 1 \in 1 .. N + 1 /\ 0 \in 0 .. BatchSize
      BY <1>2, <1>3, Sizes
    <3>2. QED
      BY <1>4, <3>1, Zenon DEF Init
  <2>8. proc \in [pc : {"take", "combine", "emit", "free", "done"}, slot : Slots,
                 len : 0 .. BatchSize, done : 0 .. BatchSize, off : Nat,
                 wrpos : 0 .. End]
    <3>1. 0 \in 0 .. End /\ 0 \in 0 .. BatchSize /\ 0 \in Nat
      BY <1>3, Sizes
    <3>2. QED
      BY <1>4, <3>1, Zenon DEF Init
  <2>9. out \in Seq(Nat \cup {-1})
    BY DEF Init
  <2>10. unset \subseteq Slots /\ overtaken \in BOOLEAN /\ misled \in BOOLEAN
    <3>1. unset = Slots
      BY DEF Init
    <3>2. overtaken \in BOOLEAN /\ misled \in BOOLEAN
      BY Zenon DEF Init
    <3>3. QED
      BY <3>1, <3>2
  <2>11. QED
    BY <1>1, <2>1, <2>2, <2>3, <2>4, <2>5, <2>6, <2>7, <2>8, <2>9, <2>10 DEF TypeOK
<1>6. Base
  <2>1. pf.pc = "align" /\ pf.pos = 0 /\ unset = Slots /\ dec.slot = 0
    BY DEF Init
  <2>2. batch_len[dec.slot] = 0
    BY <1>4, <2>1 DEF Init
  <2>3. QED
    BY <1>5, <2>1, <2>2 DEF Base
<1>7. HeadersRead /\ RingInv
  <2>1. HeadersRead
    BY DEF Init, HeadersRead, Garbage
  <2>2. RingInv
    BY DEF Init, RingInv
  <2>3. QED
    BY <2>1, <2>2
<1>8. DecFirst = 1 /\ First(0, 0) = 1
  BY DEF Init, DecFirst, Writing, First
<1>9. DecInv
  BY <1>8 DEF Init, DecInv
<1>10. QueueInv(0)
  <2>1. ASSUME NEW j \in 0 .. BatchCount - 1 PROVE SlotOf(j) \in Slots
    <3>1. proc.slot \in Slots /\ j \in 0 .. BatchCount
      BY <1>4, Sizes DEF Init
    <3>2. QED
      BY <3>1, AheadIs DEF SlotOf
  <2>2. \A j \in 0 .. BatchCount - 1 : batch_len[SlotOf(j)] = 0
    BY <2>1 DEF Init
  <2>3. SlotOf(0) = dec.slot
    BY <1>5, FirstSlot DEF Init
  <2>4. dec.pc = "wait" /\ 0 < BatchCount
    BY Sizes DEF Init
  <2>5. QED
    BY <2>2, <2>3, <2>4 DEF QueueInv
<1>11. ProcInv(0)
  <2>1. proc.pc = "take" /\ proc.off = 0 /\ proc.wrpos = 0 /\ out = <<>>
        /\ prefetch_rdpos = 0 /\ prefetch_wrpos = 0
        /\ pf.pc = "align" /\ pf.pos = 0
    BY DEF Init
  <2>2. At(0) = 1 /\ GivenUp(0) = 1 /\ ~Busy
    BY <1>8, <2>1 DEF At, GivenUp, Busy
  <2>3. Len(out) = 0 /\ PrefetchSize \in Nat
    BY <2>1, Sizes
  <2>4. QED
    BY <1>2, <2>1, <2>2, <2>3 DEF ProcInv
<1>12. 0 \in 0 .. BatchCount
  BY Sizes
<1>13. QED
  BY <1>6, <1>7, <1>9, <1>10, <1>11, <1>12 DEF IInv

-----------------------------------------------------------------------------
(* The prefetcher.                                                         *)

\* The queue is as it was if the processor stays at its slot and nothing else
\* that it consists of changes.
LEMMA QueueFrame ==
  ASSUME NEW k, QueueInv(k), proc'.slot = proc.slot,
         UNCHANGED <<stream, batch_len, batch_prefetch_rdpos, batch, dec>>
  PROVE  /\ QueueInv(k)' /\ DecFirst' = DecFirst
         /\ \A j : First(k, j)' = First(k, j)
<1>1. DecFirst' = DecFirst
  BY DEF DecFirst, Writing
<1>2. \A j : SlotOf(j)' = SlotOf(j)
  BY DEF SlotOf, Ahead
<1>3. \A j : First(k, j)' = First(k, j)
  BY <1>1, <1>2 DEF First
<1>4. \A b : Unstored(b)' = Unstored(b)
  BY DEF Unstored
<1>5. QueueInv(k)'
  BY <1>2, <1>3, <1>4 DEF QueueInv
<1>6. QED
  BY <1>1, <1>3, <1>5

\* The invariant as far as the decoder and the processor keep it does not mind
\* that the prefetcher goes on.
LEMMA PrefetchFrame ==
  ASSUME TypeOK, HeadersRead, DecInv, NEW k \in 0 .. BatchCount, QueueInv(k),
         ProcInv(k), prefetch_wrpos' \in Int, prefetch_wrpos' >= prefetch_wrpos,
         pf'.pos - PrefetchSize <= stream.start[GivenUp(k)],
         pf'.pc = "load" =>
           pf'.pos + pf'.blen - PrefetchSize <= stream.start[GivenUp(k)],
         UNCHANGED <<stream, prefetch_rdpos, batch_len, batch_prefetch_rdpos,
                     batch, dec, proc, out>>
  PROVE  HeadersRead' /\ DecInv' /\ QueueInv(k)' /\ ProcInv(k)'
<1>1. /\ QueueInv(k)' /\ DecFirst' = DecFirst
      /\ First(k, 0)' = First(k, 0) /\ First(k, 1)' = First(k, 1)
  BY QueueFrame
<1>2. prefetch_wrpos \in Int /\ dec.wrpos \in Int /\ proc.wrpos \in Int /\ End \in Nat
  BY Types, Here
<1>3. HeadersRead'
  BY DEF HeadersRead
<1>4. DecInv'
  <2>1. Writing' = Writing /\ N' = N /\ End' = End /\ Cur' = Cur
    BY DEF Writing, N, End, Cur
  <2>2. dec.pc \in {"short", "medium"} =>
          prefetch_wrpos' >= Least(stream.start[DecFirst] + MaxTag * BatchSize, End)
    <3>1. ASSUME dec.pc \in {"short", "medium"}
          PROVE  /\ prefetch_wrpos >= Least(stream.start[DecFirst] + MaxTag * BatchSize, End)
                 /\ Least(stream.start[DecFirst] + MaxTag * BatchSize, End) \in Int
      <4>0. DecFirst \in 1 .. dec.sym /\ dec.sym \in 1 .. N + 1 /\ N \in Nat
        BY Positions, Here
      <4>1. DecFirst \in 1 .. N + 1
        BY <4>0
      <4>2. stream.start[DecFirst] \in Nat
        BY <4>1, Here
      <4>3. stream.start[DecFirst] + MaxTag * BatchSize \in Nat
        BY <4>2, Sizes
      <4>4. QED
        BY <1>2, <3>1, <4>3 DEF DecInv, Least
    <3>2. QED
      BY <1>2, <3>1
  <2>3. dec.pc = "single" => dec.wrpos <= prefetch_wrpos'
    BY <1>2 DEF DecInv
  <2>4. QED
    BY <1>1, <2>1, <2>2, <2>3 DEF DecInv
<1>5. ProcInv(k)'
  <2>1. At(k)' = At(k) /\ GivenUp(k)' = GivenUp(k) /\ Busy' = Busy
    BY <1>1 DEF At, GivenUp, Busy
  <2>2. proc.wrpos <= prefetch_wrpos'
    BY <1>2 DEF ProcInv
  <2>3. QED
    BY <2>1, <2>2 DEF ProcInv
<1>6. QED
  BY <1>1, <1>3, <1>4, <1>5

\* Every step of the prefetcher keeps the invariant: before it loads a unit,
\* the consumer has given up what the unit overwrites.
LEMMA PrefetcherStep ==
  ASSUME TypeOK, Base, HeadersRead, DecInv, RingInv, NEW k \in 0 .. BatchCount,
         QueueInv(k), ProcInv(k), Prefetcher
  PROVE  HeadersRead' /\ DecInv' /\ RingInv' /\ QueueInv(k)' /\ ProcInv(k)'
<1>0. /\ End \in Nat /\ prefetch_wrpos \in 0 .. End /\ pf.pos \in 0 .. End
      /\ pf.blen \in 0 .. PrefetchUnit /\ prefetch_rdpos \in Nat
      /\ PrefetchUnit \in Nat \ {0} /\ PrefetchSize \in Nat \ {0}
      /\ PrefetchUnit <= PrefetchSize /\ WarpSize \in Nat \ {0}
      /\ WarpSize <= PrefetchUnit
  BY Types, Here, Sizes
<1>a. pf \in PfRecords
  BY DEF TypeOK, PfRecords
<1>b. PICK g : g = stream.start[GivenUp(k)]
  OBVIOUS
<1>c. g \in Nat
  <2>1. GivenUp(k) \in 1 .. At(k) /\ At(k) \in 1 .. N + 1 /\ N \in Nat
    BY Standing, Here
  <2>2. GivenUp(k) \in 1 .. N + 1
    BY <2>1
  <2>3. QED
    BY <1>b, <2>2, Here
<1>1. /\ prefetch_wrpos <= pf.pos /\ prefetch_rdpos <= g
      /\ pf.pos - PrefetchSize <= g
      /\ pf.pc = "load" => pf.pos + pf.blen - PrefetchSize <= g
  BY <1>b DEF RingInv, ProcInv
<1>d. ASSUME RingInv', prefetch_wrpos' \in Int, prefetch_wrpos' >= prefetch_wrpos,
             pf'.pos - PrefetchSize <= g,
             pf'.pc = "load" => pf'.pos + pf'.blen - PrefetchSize <= g
      PROVE  HeadersRead' /\ DecInv' /\ RingInv' /\ QueueInv(k)' /\ ProcInv(k)'
  <2>1. UNCHANGED <<stream, prefetch_rdpos, batch_len, batch_prefetch_rdpos, batch,
                    dec, proc, out>>
    BY DEF Prefetcher, PfAlign, PfPublish, PfWait, PfLoad, queue
  <2>2. /\ pf'.pos - PrefetchSize <= stream.start[GivenUp(k)]
        /\ pf'.pc = "load" =>
             pf'.pos + pf'.blen - PrefetchSize <= stream.start[GivenUp(k)]
    BY <1>b, <1>d
  <2>3. QED
    BY <1>d, <2>1, <2>2, PrefetchFrame
<1>2. CASE PfAlign
  <2>1. pf.pc = "align" /\ pf.pos = 0 /\ prefetch_wrpos = 0 /\ prefetch_wrpos' = 0
    BY <1>0, <1>1, <1>2 DEF PfAlign, Base
  <2>2. PICK n : /\ \E align \in 1 .. WarpSize : n = Least(align, End)
                 /\ buf' = Loaded(0, n)
                 /\ pf' = [pf EXCEPT !.pc = "publish", !.pos = n]
    BY <1>2 DEF PfAlign
  <2>3. n \in 0 .. End /\ n <= PrefetchSize /\ n \in Nat
    BY <1>0, <2>2 DEF Least
  <2>4. \A p \in Nat : 0 <= p /\ p < n => buf'[p % PrefetchSize] = p
    BY <1>0, <2>2, <2>3, Loading
  <2>5. pf'.pc = "publish" /\ pf'.pos = n
    BY <1>a, <2>2 DEF PfRecords
  <2>6. RingInv'
    <3>1. ASSUME NEW p \in 0 .. pf'.pos - 1 PROVE InRing(p)'
      <4>1. p \in Nat /\ 0 <= p /\ p < n
        BY <2>3, <2>5
      <4>2. QED
        BY <2>4, <4>1 DEF InRing
    <3>2. QED
      BY <2>1, <2>3, <2>5, <3>1 DEF RingInv
  <2>7. pf'.pos - PrefetchSize <= g
    BY <1>0, <1>c, <2>3, <2>5
  <2>8. QED
    BY <1>d, <2>1, <2>5, <2>6, <2>7
<1>3. CASE PfPublish
  <2>1. /\ prefetch_wrpos' = pf.pos /\ buf' = buf
        /\ pf'.pc = "wait" /\ pf'.pos = pf.pos
    BY <1>3, <1>a DEF PfPublish, PfRecords
  <2>2. RingInv'
    BY <1>0, <2>1 DEF RingInv, InRing
  <2>3. QED
    BY <1>0, <1>1, <1>d, <2>1, <2>2
<1>4. CASE PfWait
  <2>1. /\ prefetch_wrpos' = prefetch_wrpos /\ buf' = buf
        /\ \/ prefetch_rdpos >= MinRdpos /\ pf' = [pf EXCEPT !.pc = "load"]
           \/ pf' = [pf EXCEPT !.pc = "load", !.blen = 0]
    BY <1>4 DEF PfWait, queue
  <2>2. /\ pf'.pc = "load" /\ pf'.pos = pf.pos
        /\ \/ prefetch_rdpos >= MinRdpos /\ pf'.blen = pf.blen
           \/ pf'.blen = 0
    BY ONLY <1>a, <2>1 DEF PfRecords
  <2>3. pf'.pos + pf'.blen - PrefetchSize <= g
    BY <1>0, <1>1, <1>c, <2>2 DEF MinRdpos, Least
  <2>4. RingInv'
    BY <2>1, <2>2 DEF RingInv, InRing
  <2>5. QED
    BY <1>0, <1>1, <1>d, <2>1, <2>2, <2>3, <2>4
<1>5. CASE PfLoad
  <2>1. PICK to : to = pf.pos + pf.blen
    OBVIOUS
  <2>2. /\ pf.pc = "load" /\ to - PrefetchSize <= g
        /\ to \in Nat /\ pf.pos <= to /\ to - pf.pos <= PrefetchSize /\ pf.pos \in Nat
    BY <1>0, <1>1, <1>5, <2>1 DEF PfLoad
  <2>3. /\ buf' = Loaded(pf.pos, to) /\ prefetch_wrpos' = prefetch_wrpos
        /\ pf' = [pf EXCEPT !.pc = IF pf.blen > 0 THEN "publish" ELSE "done",
                            !.pos = to]
    BY <1>5, <2>1 DEF PfLoad
  <2>4. pf'.pc \in {"publish", "done"} /\ pf'.pos = to
    BY ONLY <1>a, <2>3 DEF PfRecords
  <2>5. /\ \A p \in Nat : pf.pos <= p /\ p < to => buf'[p % PrefetchSize] = p
        /\ \A p \in Nat : p < pf.pos /\ p >= to - PrefetchSize =>
             buf'[p % PrefetchSize] = buf[p % PrefetchSize]
    BY <2>2, <2>3, Loading
  <2>6. ASSUME NEW p \in 0 .. to - 1, p >= to - PrefetchSize
        PROVE  buf'[p % PrefetchSize] = p
    <3>1. p \in Nat /\ p < to
      BY <2>2
    <3>2. CASE p >= pf.pos
      BY <2>5, <3>1, <3>2
    <3>3. CASE p < pf.pos
      <4>1. p \in 0 .. pf.pos - 1 /\ p >= pf.pos - PrefetchSize
        BY <1>0, <2>2, <2>6, <3>1, <3>3
      <4>2. InRing(p)
        BY <4>1 DEF RingInv
      <4>3. QED
        BY <2>5, <2>6, <3>1, <3>3, <4>2 DEF InRing
    <3>4. QED
      BY <2>2, <3>1, <3>2, <3>3
  <2>7. RingInv'
    <3>1. \A p \in 0 .. pf'.pos - 1 : p >= pf'.pos - PrefetchSize => InRing(p)'
      BY <2>4, <2>6 DEF InRing
    <3>2. prefetch_wrpos' <= pf'.pos
      BY <1>0, <1>1, <2>2, <2>3, <2>4
    <3>3. QED
      BY <3>1, <3>2 DEF RingInv
  <2>8. QED
    BY <1>0, <1>d, <2>2, <2>3, <2>4, <2>7
<1>6. QED
  BY <1>2, <1>3, <1>4, <1>5 DEF Prefetcher


-----------------------------------------------------------------------------
(* The decoder.                                                            *)

\* What the prefetcher keeps does not mind what the others do, as long as they
\* leave the ring and its positions alone.
LEMMA RingFrame ==
  ASSUME RingInv,
         UNCHANGED <<buf, prefetch_wrpos, pf>>
  PROVE  RingInv'
BY DEF RingInv, InRing

\* What the processor keeps does not mind a step of the decoder that leaves the
\* batch it works on, and the position of that, as they are.
LEMMA ProcFrame ==
  ASSUME NEW k, NEW m, ProcInv(k), k <= m, k \in Nat, m \in Nat,
         dec.pc # "done",
         UNCHANGED <<stream, prefetch_wrpos, prefetch_rdpos, pf, proc, out>>,
         First(m, 0)' = First(k, 0),
         k > 0 => /\ First(m, 1)' = First(k, 1)
                  /\ batch_len'[proc.slot] = batch_len[proc.slot]
  PROVE  ProcInv(m)'
<1>1. Busy' = Busy /\ (Busy => k > 0) /\ (proc.pc = "free" => Busy)
  BY DEF Busy, ProcInv
<1>2. At(m)' = At(k)
  BY <1>1 DEF At
<1>3. GivenUp(m)' = GivenUp(k)
  BY <1>1 DEF GivenUp
<1>4. proc.pc # "done"
  BY DEF ProcInv
<1>5. Busy => m > 0 /\ proc.len = batch_len'[proc.slot] /\ proc.done <= proc.len
  BY <1>1 DEF ProcInv
<1>6. QED
  BY <1>1, <1>2, <1>3, <1>4, <1>5 DEF ProcInv

\* The queue is as it was if the decoder stays at its slot, moves nothing of
\* what was submitted and writes no batch but its own.
LEMMA QueueStays ==
  ASSUME TypeOK, NEW k \in 0 .. BatchCount - 1, QueueInv(k),
         dec.pc \notin {"rdpos", "done"}, dec'.pc \notin {"rdpos", "done"},
         dec'.slot = dec.slot, DecFirst' = DecFirst,
         \A b \in Slots : b # dec.slot => batch'[b] = batch[b],
         UNCHANGED <<stream, batch_len, batch_prefetch_rdpos, proc>>
  PROVE  QueueInv(k)' /\ \A j \in 0 .. k : First(k, j)' = First(k, j)
<1>1. BatchCount \in Nat \ {0}
  BY Sizes
<1>2. \A j : SlotOf(j)' = SlotOf(j)
  BY DEF SlotOf, Ahead
<1>3. SlotOf(k) = dec.slot
  BY DEF QueueInv
<1>4. ASSUME NEW j \in 0 .. k - 1 PROVE batch'[SlotOf(j)] = batch[SlotOf(j)]
  <2>1. j \in 0 .. BatchCount - 1 /\ j # k /\ j \in 0 .. BatchCount
    BY <1>1
  <2>2. SlotOf(j) \in Slots
    BY <2>1, AheadIs, Types DEF SlotOf
  <2>3. SlotOf(j) # dec.slot
    BY <1>3, <2>1, SlotsApart
  <2>4. QED
    BY <2>2, <2>3
<1>5. ASSUME NEW j \in 0 .. k PROVE First(k, j)' = First(k, j)
  <2>1. j = k \/ j \in 0 .. k - 1
    BY <1>1
  <2>2. QED
    BY <1>2, <1>4, <2>1 DEF First
<1>6. ASSUME NEW j \in 0 .. k - 1
      PROVE  /\ batch_len'[SlotOf(j)'] > 0
             /\ \A i \in 1 .. batch_len'[SlotOf(j)'] :
                  batch'[SlotOf(j)'][i] = First(k, j)' + i - 1
             /\ First(k, j + 1)' = First(k, j)' + batch_len'[SlotOf(j)']
             /\ batch_prefetch_rdpos'[SlotOf(j)'] = stream'.start[First(k, j + 1)']
  <2>1. j \in 0 .. k /\ j + 1 \in 0 .. k
    BY <1>1
  <2>2. /\ batch_len[SlotOf(j)] > 0
        /\ \A i \in 1 .. batch_len[SlotOf(j)] : batch[SlotOf(j)][i] = First(k, j) + i - 1
        /\ First(k, j + 1) = First(k, j) + batch_len[SlotOf(j)]
        /\ batch_prefetch_rdpos[SlotOf(j)] = stream.start[First(k, j + 1)]
    BY DEF QueueInv, Unstored
  <2>3. First(k, j)' = First(k, j) /\ First(k, j + 1)' = First(k, j + 1)
    BY <1>5, <2>1
  <2>4. QED
    BY <1>2, <1>4, <2>2, <2>3
<1>7. \A j \in k .. BatchCount - 1 : batch_len'[SlotOf(j)'] = 0
  BY <1>2 DEF QueueInv
<1>8. k < BatchCount /\ SlotOf(k)' = dec'.slot
  BY <1>1, <1>2, <1>3
<1>9. QueueInv(k)'
  BY <1>6, <1>7, <1>8 DEF QueueInv
<1>10. QED
  BY <1>5, <1>9

\* Symbols whose headers are behind the write position are decoded as what
\* they are, into the decoder's own batch.
LEMMA DecodeStep ==
  ASSUME TypeOK, HeadersRead, DecInv, RingInv, NEW k \in 0 .. BatchCount,
         QueueInv(k), ProcInv(k), Writing, NEW n, n \in Nat, NEW to,
         dec.sym + n <= N + 1, dec.len + n <= BatchSize,
         to \in {"medium", "snapshot", "single"},
         \A i \in dec.sym .. dec.sym + n - 1 :
           stream.start[i] + stream.syms[i].tag <= prefetch_wrpos,
         DecodeNext(n, to),
         UNCHANGED <<stream, buf, prefetch_wrpos, prefetch_rdpos, prefetch_end,
                     batch_len, batch_prefetch_rdpos, pf, proc, out>>
  PROVE  /\ HeadersRead' /\ RingInv' /\ QueueInv(k)' /\ ProcInv(k)'
         /\ DecFirst' = DecFirst /\ dec'.pc = to
         /\ dec'.sym = dec.sym + n /\ dec'.len = dec.len + n
         /\ dec'.slot = dec.slot /\ dec'.wrpos = dec.wrpos
         /\ \A i \in 1 .. dec'.len : batch'[dec'.slot][i] = DecFirst' + i - 1
<1>1. /\ dec.sym \in 1 .. N + 1 /\ dec.len \in 0 .. BatchSize /\ dec.slot \in Slots
      /\ N \in Nat /\ BatchSize \in Nat \ {0} /\ BatchCount \in Nat \ {0}
      /\ DecFirst \in 1 .. dec.sym
  BY Types, Here, Sizes, Positions
<1>2. k \in 0 .. BatchCount - 1
  BY <1>1 DEF QueueInv, Writing
<1>3. ASSUME NEW i \in dec.sym .. dec.sym + n - 1 PROVE Decoded(i) = i
  <2>1. i \in 1 .. N /\ i \in 1 .. N + 1
    BY <1>1
  <2>2. At(k) \in 1 .. DecFirst /\ At(k) \in 1 .. N + 1
    BY Standing
  <2>3. stream.start[At(k)] <= stream.start[i]
    <3>1. At(k) <= i
      BY <1>1, <2>2
    <3>2. QED
      BY <2>1, <2>2, <3>1, Here
  <2>4. /\ stream.start[At(k)] \in Nat /\ stream.start[i] \in Nat
        /\ stream.syms[i].tag \in Nat
    <3>1. \A j \in 1 .. N + 1 : stream.start[j] \in 0 .. End
      BY Here
    <3>2. End \in Nat /\ stream.syms[i].tag \in 1 .. MaxTag
      BY <2>1, Here
    <3>3. stream.start[At(k)] \in 0 .. End /\ stream.start[i] \in 0 .. End
      BY ONLY <2>1, <2>2, <3>1, Zenon
    <3>4. QED
      BY ONLY <3>2, <3>3
  <2>5. stream.start[i] + stream.syms[i].tag <= pf.pos
    <3>1. stream.start[i] + stream.syms[i].tag <= prefetch_wrpos
      OBVIOUS
    <3>2. prefetch_wrpos <= pf.pos /\ prefetch_wrpos \in Int /\ pf.pos \in Int
      BY Types, Here DEF RingInv
    <3>3. QED
      BY <2>4, <3>1, <3>2
  <2>6. ASSUME NEW p \in stream.start[i] .. stream.start[i] + stream.syms[i].tag - 1
        PROVE  InRing(p)
    <3>1. p \in Nat /\ p >= stream.start[At(k)] /\ p < pf.pos
      <4>1. pf.pos \in Int
        BY Types, Here
      <4>2. QED
        BY <2>3, <2>4, <2>5, <4>1
    <3>2. QED
      BY <3>1, Window
  <2>7. QED
    BY <2>6 DEF Decoded
<1>4. /\ batch \in [Slots -> [1 .. BatchSize -> Nat]]
      /\ batch' = [batch EXCEPT ![dec.slot] =
                    [i \in 1 .. BatchSize |->
                       IF i > dec.len /\ i <= dec.len + n
                       THEN Decoded(dec.sym + i - dec.len - 1)
                       ELSE batch[dec.slot][i]]]
  BY DEF TypeOK, DecodeNext
<1>5. \A b \in Slots : b # dec.slot => batch'[b] = batch[b]
  BY <1>4
<1>6. ASSUME NEW i \in 1 .. BatchSize
      PROVE  batch'[dec.slot][i] = IF i > dec.len /\ i <= dec.len + n
                                   THEN dec.sym + i - dec.len - 1
                                   ELSE batch[dec.slot][i]
  <2>1. batch'[dec.slot][i] = IF i > dec.len /\ i <= dec.len + n
                              THEN Decoded(dec.sym + i - dec.len - 1)
                              ELSE batch[dec.slot][i]
    BY <1>1, <1>4
  <2>2. ASSUME i > dec.len, i <= dec.len + n
        PROVE  Decoded(dec.sym + i - dec.len - 1) = dec.sym + i - dec.len - 1
    <3>1. dec.sym + i - dec.len - 1 \in dec.sym .. dec.sym + n - 1
      BY <1>1, <2>2
    <3>2. QED
      BY <1>3, <3>1
  <2>3. QED
    BY <2>1, <2>2
<1>7. /\ dec \in [pc : {"wait", "short", "medium", "snapshot", "single", "rdpos",
                        "room", "stop", "done"},
                  sym : 1 .. N + 1, slot : Slots, len : 0 .. BatchSize,
                  wrpos : 0 .. End]
      /\ dec' = [dec EXCEPT !.pc = to, !.sym = dec.sym + n, !.len = dec.len + n]
  BY DEF TypeOK, DecodeNext
<1>8. /\ dec'.pc = to /\ dec'.sym = dec.sym + n /\ dec'.len = dec.len + n
      /\ dec'.slot = dec.slot /\ dec'.wrpos = dec.wrpos
  BY <1>7
<1>10. DecFirst' = DecFirst
  BY <1>1, <1>8 DEF DecFirst, Writing
<1>11. \A i \in 1 .. dec'.len : batch'[dec'.slot][i] = DecFirst' + i - 1
  <2>1. SUFFICES ASSUME NEW i \in 1 .. dec.len + n
                 PROVE  batch'[dec.slot][i] = DecFirst + i - 1
    BY <1>8, <1>10
  <2>2. i \in 1 .. BatchSize
    BY <1>1
  <2>3. DecFirst = dec.sym - dec.len
    BY DEF DecFirst
  <2>4. CASE i <= dec.len
    <3>1. i \in 1 .. dec.len
      BY <1>1, <2>4
    <3>2. batch[dec.slot][i] = DecFirst + i - 1
      BY <3>1 DEF DecInv
    <3>3. QED
      BY <1>1, <1>6, <2>2, <2>4, <3>2
  <2>5. CASE i > dec.len
    BY <1>1, <1>6, <2>2, <2>3, <2>5
  <2>6. QED
    BY <1>1, <2>4, <2>5
<1>14. HeadersRead'
  <2>1. SUFFICES ASSUME NEW b \in Slots, NEW i \in 1 .. BatchSize
                 PROVE  batch'[b][i] # 0
    BY DEF HeadersRead, Garbage
  <2>2. batch[b][i] # 0
    BY DEF HeadersRead, Garbage
  <2>3. CASE b # dec.slot
    BY <1>5, <2>2, <2>3
  <2>4. CASE b = dec.slot
    BY <1>1, <1>6, <2>2, <2>4
  <2>5. QED
    BY <2>3, <2>4
<1>15. dec.pc \notin {"rdpos", "done"} /\ dec'.pc \notin {"rdpos", "done"}
  BY <1>8 DEF Writing
<1>16. QueueInv(k)' /\ \A j \in 0 .. k : First(k, j)' = First(k, j)
  BY <1>2, <1>5, <1>8, <1>10, <1>15, QueueStays
<1>17. ProcInv(k)'
  <2>1. k \in Nat /\ k <= k /\ 0 \in 0 .. k /\ (k > 0 => 1 \in 0 .. k)
    BY <1>1
  <2>2. First(k, 0)' = First(k, 0) /\ (k > 0 => First(k, 1)' = First(k, 1))
    BY <1>16, <2>1
  <2>3. QED
    BY <1>15, <2>1, <2>2, ProcFrame
<1>18. QED
  BY <1>8, <1>10, <1>11, <1>14, <1>16, <1>17, RingFrame

\* The position in the stream behind symbols of a batch that the parallel
\* strategies take is loaded: they look at no position, the wait before them
\* covered a batch of the longest.
LEMMA Reached ==
  ASSUME TypeOK, DecInv, dec.pc \in {"short", "medium"}, DecFirst \in 1 .. dec.sym,
         NEW n, n \in Nat, dec.sym + n <= N + 1, dec.len + n <= BatchSize,
         \A i \in dec.sym .. dec.sym + n - 1 : SymBytes(stream.syms[i]) <= MaxTag
  PROVE  /\ stream.start[dec.sym + n] <= stream.start[DecFirst] + MaxTag * (dec.len + n)
         /\ \A i \in dec.sym .. dec.sym + n - 1 :
              stream.start[i] + stream.syms[i].tag <= prefetch_wrpos
<1>1. /\ dec.sym \in 1 .. N + 1 /\ dec.len \in 0 .. BatchSize
      /\ N \in Nat /\ BatchSize \in Nat \ {0} /\ MaxTag \in Nat
      /\ prefetch_wrpos \in Int /\ End \in Nat
  BY Types, Here, Sizes
<1>2. ASSUME NEW m \in 0 .. n
      PROVE  /\ stream.start[dec.sym + m] <= stream.start[DecFirst] + MaxTag * (dec.len + m)
             /\ dec.sym + m \in 1 .. N + 1
  <2>1. PICK j : j = dec.sym + m
    OBVIOUS
  <2>2. j \in 1 .. N + 1 /\ dec.sym <= j /\ j - dec.sym = m
    BY <1>1, <2>1
  <2>3. \A q \in dec.sym .. j - 1 : SymBytes(stream.syms[q]) <= MaxTag
    BY <1>1, <2>1
  <2>4. stream \in Streams
    BY DEF TypeOK
  <2>5. stream.start[j] <= stream.start[dec.sym] + MaxTag * (j - dec.sym)
    BY <1>1, <2>2, <2>3, <2>4, ShortReach DEF N
  <2>6. stream.start[dec.sym] <= stream.start[DecFirst] + MaxTag * dec.len
    BY DEF DecInv, Cur
  <2>7. MaxTag * (dec.len + m) = MaxTag * dec.len + MaxTag * m
    BY <1>1
  <2>8. /\ stream.start[j] \in Nat /\ stream.start[dec.sym] \in Nat
        /\ stream.start[DecFirst] \in Nat /\ MaxTag * dec.len \in Int
        /\ MaxTag * m \in Int
    <3>1. DecFirst \in 1 .. N + 1
      BY <1>1
    <3>2. \A a, b \in Nat : a * b \in Int
      OBVIOUS
    <3>3. /\ stream.start[j] \in Nat /\ stream.start[dec.sym] \in Nat
          /\ stream.start[DecFirst] \in Nat
      <4>1. \A q \in 1 .. N + 1 : stream.start[q] \in Nat
        BY Here
      <4>2. QED
        BY <1>1, <2>2, <3>1, <4>1, Zenon
    <3>4. MaxTag \in Nat /\ dec.len \in Nat /\ m \in Nat
      BY <1>1
    <3>5. QED
      BY <3>2, <3>3, <3>4, Zenon
  <2>9. stream.start[j] <= stream.start[DecFirst] + MaxTag * (dec.len + m)
    BY <2>2, <2>5, <2>6, <2>7, <2>8
  <2>10. QED
    BY <2>1, <2>2, <2>9
<1>3. ASSUME NEW i \in dec.sym .. dec.sym + n - 1
      PROVE  stream.start[i] + stream.syms[i].tag <= prefetch_wrpos
  <2>1. PICK m \in 1 .. n : m = i + 1 - dec.sym
    BY <1>1
  <2>2. m \in 0 .. n /\ i + 1 = dec.sym + m /\ i \in 1 .. N /\ i + 1 \in 1 .. N + 1
    BY <1>1, <2>1
  <2>3. stream.start[i + 1] <= stream.start[DecFirst] + MaxTag * (dec.len + m)
    BY <1>2, <2>2
  <2>4. MaxTag * (dec.len + m) <= MaxTag * BatchSize
    <3>1. \A a, b, c \in Nat : b <= c => a * b <= a * c
      OBVIOUS
    <3>2. dec.len + m \in Nat /\ dec.len + m <= BatchSize /\ BatchSize \in Nat
      BY <1>1
    <3>3. QED
      BY <1>1, <3>1, <3>2
  <2>5. /\ stream.start[i + 1] \in 0 .. End /\ stream.start[i] \in Nat
        /\ stream.syms[i].tag \in Nat
        /\ stream.start[i] + stream.syms[i].tag <= stream.start[i + 1]
    <3>1. i \in 1 .. N + 1
      BY <1>1, <2>2
    <3>2. QED
      BY <2>2, <3>1, Here
  <2>6. stream.start[DecFirst] \in Nat /\ MaxTag * BatchSize \in Nat
        /\ MaxTag * (dec.len + m) \in Int
    <3>1. DecFirst \in 1 .. N + 1
      BY <1>1
    <3>2. \A a, b \in Nat : a * b \in Int
      OBVIOUS
    <3>3. dec.len + m \in Nat
      BY <1>1
    <3>4. stream.start[DecFirst] \in Nat
      BY <3>1, Here
    <3>5. MaxTag * BatchSize \in Nat
      BY Sizes
    <3>6. QED
      BY <1>1, <3>2, <3>3, <3>4, <3>5, Zenon
  <2>7. prefetch_wrpos >= Least(stream.start[DecFirst] + MaxTag * BatchSize, End)
    BY DEF DecInv
  <2>8. stream.start[i + 1] <= Least(stream.start[DecFirst] + MaxTag * BatchSize, End)
    BY <1>1, <2>3, <2>4, <2>5, <2>6 DEF Least
  <2>9. Least(stream.start[DecFirst] + MaxTag * BatchSize, End) \in Int
    BY <1>1, <2>6 DEF Least
  <2>10. QED
    BY <1>1, <2>5, <2>7, <2>8, <2>9
<1>4. n \in 0 .. n
  OBVIOUS
<1>5. QED
  BY <1>2, <1>3, <1>4

\* The strategies keep the invariant.
LEMMA StrategyStep ==
  ASSUME TypeOK, HeadersRead, DecInv, RingInv, NEW k \in 0 .. BatchCount,
         QueueInv(k), ProcInv(k), DecShort \/ DecMedium \/ DecSingle
  PROVE  HeadersRead' /\ DecInv' /\ RingInv' /\ QueueInv(k)' /\ ProcInv(k)'
<1>1. /\ dec.sym \in 1 .. N + 1 /\ dec.len \in 0 .. BatchSize
      /\ N \in Nat /\ BatchSize \in Nat \ {0} /\ MaxTag \in Nat \ {0}
      /\ MaxShort \in Nat /\ MaxShort <= MaxTag
      /\ prefetch_wrpos \in Int /\ dec.wrpos \in Int /\ End \in Nat
      /\ DecFirst \in 1 .. dec.sym
  <2>1. /\ dec.sym \in 1 .. N + 1 /\ dec.len \in 0 .. BatchSize
        /\ prefetch_wrpos \in 0 .. End /\ dec.wrpos \in 0 .. End
    BY Types, Zenon
  <2>2. /\ N \in Nat /\ BatchSize \in Nat \ {0} /\ MaxTag \in Nat \ {0}
        /\ MaxShort \in Nat /\ MaxShort <= MaxTag /\ End \in Nat
    BY Here, Sizes
  <2>3. DecFirst \in 1 .. dec.sym
    BY Positions
  <2>4. QED
    BY <2>1, <2>2, <2>3
<1>2. Room \in Nat /\ Room <= N + 1 - dec.sym /\ Room <= BatchSize - dec.len
  BY <1>1 DEF Room, Least
<1>3. CASE DecShort \/ DecMedium
  <2>1. PICK n, to :
          /\ n \in 0 .. Room /\ DecodeNext(n, to)
          /\ to \in {"medium", "snapshot"} /\ dec.pc \in {"short", "medium"}
          /\ \A i \in dec.sym .. dec.sym + n - 1 : IsMedium(i)
    <3>1. CASE DecShort
      <4>1. dec.pc = "short"
        BY <3>1 DEF DecShort
      <4>2. PICK n \in 0 .. Room :
              /\ \A i \in dec.sym .. dec.sym + n - 1 : IsShort(i)
              /\ DecodeNext(n, BehindShort(n))
        BY <3>1 DEF DecShort
      <4>3. BehindShort(n) \in {"medium", "snapshot"}
        BY DEF BehindShort
      <4>4. \A i \in dec.sym .. dec.sym + n - 1 : IsMedium(i)
        BY <4>2 DEF IsMedium
      <4>5. QED
        BY <4>1, <4>2, <4>3, <4>4
    <3>2. CASE DecMedium
      <4>1. dec.pc = "medium"
        BY <3>2 DEF DecMedium
      <4>2. PICK n \in 1 .. Room :
              /\ \A i \in dec.sym .. dec.sym + n - 1 : IsMedium(i)
              /\ DecodeNext(n, "snapshot")
        BY <3>2 DEF DecMedium
      <4>3. n \in 0 .. Room /\ "snapshot" \in {"medium", "snapshot"}
        BY <1>2
      <4>4. QED
        BY <4>1, <4>2, <4>3
    <3>3. QED
      BY <1>3, <3>1, <3>2
  <2>2. ASSUME NEW i \in dec.sym .. dec.sym + n - 1
        PROVE  SymBytes(stream.syms[i]) <= MaxTag
    <3>0. i \in 1 .. N
      BY <1>1, <1>2, <2>1
    <3>1. i \in 1 .. Len(stream.syms) /\ stream \in Streams
      BY <3>0 DEF N, TypeOK
    <3>2. SymBytes(stream.syms[i]) \in Nat
      BY <3>1, StreamTypes
    <3>3. QED
      BY <1>1, <2>1, <3>2 DEF IsMedium, IsShort
  <2>3. n \in Nat /\ dec.sym + n <= N + 1 /\ dec.len + n <= BatchSize
    BY <1>1, <1>2, <2>1
  <2>4. /\ stream.start[dec.sym + n] <= stream.start[DecFirst] + MaxTag * (dec.len + n)
        /\ \A i \in dec.sym .. dec.sym + n - 1 :
             stream.start[i] + stream.syms[i].tag <= prefetch_wrpos
    BY <1>1, <2>1, <2>2, <2>3, Reached
  <2>5. UNCHANGED <<stream, buf, prefetch_wrpos, prefetch_rdpos, prefetch_end,
                    batch_len, batch_prefetch_rdpos, pf, proc, out>>
    BY <1>3 DEF DecShort, DecMedium
  <2>6. Writing /\ to \in {"medium", "snapshot", "single"}
    BY <2>1 DEF Writing
  <2>7. /\ HeadersRead' /\ RingInv' /\ QueueInv(k)' /\ ProcInv(k)'
        /\ DecFirst' = DecFirst /\ dec'.pc = to
        /\ dec'.sym = dec.sym + n /\ dec'.len = dec.len + n
        /\ \A i \in 1 .. dec'.len : batch'[dec'.slot][i] = DecFirst' + i - 1
    BY <2>1, <2>3, <2>4, <2>5, <2>6, DecodeStep
  <2>8. DecInv'
    <3>1. Cur' <= stream'.start[DecFirst'] + MaxTag * dec'.len
      BY <2>4, <2>5, <2>7 DEF Cur
    <3>2. prefetch_wrpos' >= Least(stream'.start[DecFirst'] + MaxTag * BatchSize, End')
      <4>1. prefetch_wrpos >= Least(stream.start[DecFirst] + MaxTag * BatchSize, End)
        BY <2>1 DEF DecInv
      <4>2. QED
        BY <2>5, <2>7, <4>1 DEF End, N
    <3>3. dec'.pc \in {"medium", "snapshot"} /\ DecFirst' >= 1
      BY <1>1, <2>1, <2>7
    <3>4. QED
      BY <2>7, <3>1, <3>2, <3>3 DEF DecInv
  <2>9. QED
    BY <2>7, <2>8
<1>4. CASE DecSingle
  <2>1. /\ dec.pc = "single" /\ Room > 0 /\ Least(Cur + MaxTag, End) <= dec.wrpos
        /\ DecodeNext(1, "single")
        /\ UNCHANGED <<stream, buf, prefetch_wrpos, prefetch_rdpos, prefetch_end,
                       batch_len, batch_prefetch_rdpos, pf, proc, out>>
    BY <1>4 DEF DecSingle, CanDecode
  <2>2. dec.sym + 1 <= N + 1 /\ dec.len + 1 <= BatchSize /\ dec.sym \in 1 .. N
    BY <1>1, <1>2, <2>1
  <2>3. ASSUME NEW i \in dec.sym .. dec.sym + 1 - 1
        PROVE  stream.start[i] + stream.syms[i].tag <= prefetch_wrpos
    <3>1. i = dec.sym
      BY <1>1
    <3>2. /\ stream.start[i] \in Nat /\ stream.syms[i].tag \in 1 .. MaxTag
          /\ stream.start[i] + stream.syms[i].tag <= End
      <4>1. i \in 1 .. N + 1 /\ i + 1 \in 1 .. N + 1 /\ i \in 1 .. N
        BY <1>1, <2>2, <3>1
      <4>2. /\ stream.start[i] \in Nat /\ stream.start[i + 1] \in 0 .. End
            /\ stream.syms[i].tag \in 1 .. MaxTag
            /\ stream.start[i] + stream.syms[i].tag <= stream.start[i + 1]
        BY <4>1, Here
      <4>3. QED
        BY <1>1, <4>2
    <3>3. dec.wrpos <= prefetch_wrpos
      BY <2>1 DEF DecInv
    <3>4. Cur = stream.start[i]
      BY <3>1 DEF Cur
    <3>5. stream.start[i] + stream.syms[i].tag <= Least(Cur + MaxTag, End)
      BY <1>1, <3>2, <3>4 DEF Least
    <3>6. Least(Cur + MaxTag, End) \in Int
      BY <1>1, <3>2, <3>4 DEF Least
    <3>7. QED
      BY <1>1, <2>1, <3>2, <3>3, <3>5, <3>6
  <2>4. Writing /\ 1 \in Nat /\ "single" \in {"medium", "snapshot", "single"}
    BY <2>1 DEF Writing
  <2>5. /\ HeadersRead' /\ RingInv' /\ QueueInv(k)' /\ ProcInv(k)'
        /\ DecFirst' = DecFirst /\ dec'.pc = "single"
        /\ dec'.wrpos = dec.wrpos
        /\ \A i \in 1 .. dec'.len : batch'[dec'.slot][i] = DecFirst' + i - 1
    BY <2>1, <2>2, <2>3, <2>4, DecodeStep
  <2>6. DecInv'
    <3>1. dec'.wrpos <= prefetch_wrpos' /\ DecFirst' >= 1
      BY <1>1, <2>1, <2>5 DEF DecInv
    <3>2. QED
      BY <2>5, <3>1 DEF DecInv
  <2>7. QED
    BY <2>5, <2>6
<1>5. QED
  BY <1>3, <1>4

\* The decoder's waits, its snapshot, and a submission of nothing keep the
\* invariant: a slot that is free when the decoder looks is not of a batch in
\* flight.
LEMMA DecWaitStep ==
  ASSUME TypeOK, HeadersRead, DecInv, RingInv, NEW k \in 0 .. BatchCount,
         QueueInv(k), ProcInv(k),
         DecWait \/ DecSnapshot \/ DecRoom \/ (DecSubmit /\ dec.len = 0)
  PROVE  HeadersRead' /\ DecInv' /\ RingInv' /\ QueueInv(k)' /\ ProcInv(k)'
<1>1. /\ dec.sym \in 1 .. N + 1 /\ dec.len \in 0 .. BatchSize /\ dec.slot \in Slots
      /\ N \in Nat /\ BatchSize \in Nat \ {0} /\ BatchCount \in Nat \ {0}
      /\ prefetch_wrpos \in 0 .. End /\ End \in Nat /\ MaxTag \in Nat
      /\ DecFirst \in 1 .. dec.sym
      /\ batch_len \in [Slots -> -1 .. BatchSize]
  BY Types, Here, Sizes, Positions
<1>2. dec \in [pc : {"wait", "short", "medium", "snapshot", "single", "rdpos",
                     "room", "stop", "done"},
               sym : 1 .. N + 1, slot : Slots, len : 0 .. BatchSize,
               wrpos : 0 .. End]
  BY DEF TypeOK
<1>3. k \in 0 .. BatchCount - 1
  <2>1. SUFFICES ASSUME k = BatchCount PROVE FALSE
    BY <1>1
  <2>2. DecRoom
    BY <2>1, <1>1 DEF DecWait, DecSnapshot, DecSubmit, QueueInv
  <2>3. dec.pc = "room" /\ batch_len[dec.slot] = 0
    BY <2>2 DEF DecRoom
  <2>4. dec.slot = SlotOf(0)
    BY <2>1, <2>3, FirstSlot DEF QueueInv
  <2>5. 0 \in 0 .. k - 1
    BY <1>1, <2>1
  <2>6. batch_len[SlotOf(0)] > 0
    BY <2>5 DEF QueueInv
  <2>7. QED
    BY <2>3, <2>4, <2>6
<1>4. batch_len' = batch_len
  <2>1. CASE DecSubmit /\ dec.len = 0
    <3>1. dec.pc = "single" /\ batch_len' = [batch_len EXCEPT ![dec.slot] = 0]
      BY <2>1 DEF DecSubmit
    <3>2. dec.slot = SlotOf(k)
      BY <3>1 DEF QueueInv
    <3>3. k \in k .. BatchCount - 1
      BY <1>1, <1>3
    <3>4. batch_len[SlotOf(k)] = 0
      BY <3>1, <3>3 DEF QueueInv
    <3>5. QED
      BY <1>1, <3>1, <3>2, <3>4
  <2>2. CASE DecWait \/ DecSnapshot \/ DecRoom
    BY <2>2 DEF DecWait, DecSnapshot, DecRoom, queue
  <2>3. QED
    BY <2>1, <2>2
<1>5. UNCHANGED <<stream, buf, prefetch_wrpos, prefetch_rdpos, prefetch_end,
                  batch_prefetch_rdpos, batch, pf, proc, out>>
  BY DEF DecWait, DecSnapshot, DecRoom, DecSubmit, queue
<1>6. /\ dec'.sym = dec.sym /\ dec'.slot = dec.slot /\ dec'.pc # "done"
      /\ dec'.pc # "rdpos" /\ dec.pc \notin {"rdpos", "done"}
      /\ DecFirst' = DecFirst /\ DecInv'
  <2>1. CASE DecWait
    <3>1. /\ dec.pc = "wait" /\ dec' = [dec EXCEPT !.pc = "short"]
          /\ prefetch_wrpos >= Least(Cur + MaxTag * BatchSize, End)
      BY <2>1 DEF DecWait
    <3>2. /\ dec'.sym = dec.sym /\ dec'.slot = dec.slot /\ dec'.pc = "short"
          /\ dec'.len = dec.len /\ dec.len = 0
      BY <1>2, <3>1 DEF DecInv
    <3>3. DecFirst = dec.sym /\ DecFirst' = dec.sym
      BY <1>1, <3>1, <3>2 DEF DecFirst, Writing
    <3>4. End' = End /\ Cur' = Cur /\ Cur = stream.start[DecFirst]
      BY <1>5, <3>2, <3>3 DEF End, N, Cur
    <3>5. Cur' <= stream'.start[DecFirst'] + MaxTag * dec'.len
      <4>1. Cur \in Nat
        BY <1>1, Here DEF Cur
      <4>2. MaxTag * dec'.len = 0
        BY <1>1, <3>2
      <4>3. QED
        BY <1>5, <3>3, <3>4, <4>1, <4>2
    <3>6. prefetch_wrpos' >= Least(stream'.start[DecFirst'] + MaxTag * BatchSize, End')
      BY <1>5, <3>1, <3>3, <3>4
    <3>7. \A i \in 1 .. dec'.len : batch'[dec'.slot][i] = DecFirst' + i - 1
      BY <3>2
    <3>8. DecInv'
      BY <1>1, <3>2, <3>3, <3>5, <3>6, <3>7 DEF DecInv
    <3>9. QED
      BY <3>1, <3>2, <3>3, <3>8
  <2>2. CASE DecSnapshot
    <3>1. /\ dec.pc = "snapshot"
          /\ dec' = [dec EXCEPT !.pc = "single", !.wrpos = prefetch_wrpos]
      BY <2>2 DEF DecSnapshot
    <3>2. /\ dec'.sym = dec.sym /\ dec'.slot = dec.slot /\ dec'.pc = "single"
          /\ dec'.len = dec.len /\ dec'.wrpos = prefetch_wrpos
      BY <1>1, <1>2, <3>1
    <3>3. DecFirst' = DecFirst
      BY <3>1, <3>2 DEF DecFirst, Writing
    <3>4. \A i \in 1 .. dec'.len : batch'[dec'.slot][i] = DecFirst' + i - 1
      BY <1>5, <3>1, <3>2, <3>3 DEF DecInv, Writing
    <3>5. DecInv'
      BY <1>1, <1>5, <3>2, <3>3, <3>4 DEF DecInv
    <3>6. QED
      BY <3>1, <3>2, <3>3, <3>5
  <2>3. CASE DecRoom
    <3>1. /\ dec.pc = "room"
          /\ dec' = [dec EXCEPT !.pc = IF dec.sym > N THEN "stop" ELSE "wait",
                                !.len = 0]
      BY <2>3 DEF DecRoom
    <3>2. /\ dec'.sym = dec.sym /\ dec'.slot = dec.slot
          /\ dec'.pc = (IF dec.sym > N THEN "stop" ELSE "wait")
          /\ dec'.len = 0
      <4>1. 0 \in 0 .. BatchSize
        BY <1>1
      <4>2. QED
        BY <1>2, <3>1, <4>1
    <3>3. DecFirst = dec.sym /\ DecFirst' = dec.sym
      BY <1>1, <3>1, <3>2 DEF DecFirst, Writing
    <3>4. dec'.pc = "stop" => dec'.sym = N' + 1
      BY <1>1, <1>5, <3>2 DEF N
    <3>5. DecInv'
      BY <1>1, <3>2, <3>3, <3>4 DEF DecInv
    <3>6. QED
      BY <3>1, <3>2, <3>3, <3>5
  <2>4. CASE DecSubmit /\ dec.len = 0
    <3>1. dec.pc = "single" /\ dec' = [dec EXCEPT !.pc = "room"]
      BY <2>4 DEF DecSubmit
    <3>2. /\ dec'.sym = dec.sym /\ dec'.slot = dec.slot /\ dec'.pc = "room"
          /\ dec'.len = 0
      BY <1>2, <2>4, <3>1
    <3>3. DecFirst = dec.sym /\ DecFirst' = dec.sym
      BY <1>1, <2>4, <3>1, <3>2 DEF DecFirst, Writing
    <3>4. DecInv'
      BY <1>1, <3>2, <3>3 DEF DecInv, Writing
    <3>5. QED
      BY <3>1, <3>2, <3>3, <3>4
  <2>5. QED
    BY <2>1, <2>2, <2>3, <2>4
<1>8. QueueInv(k)' /\ \A j \in 0 .. k : First(k, j)' = First(k, j)
  BY <1>3, <1>4, <1>5, <1>6, QueueStays
<1>9. ProcInv(k)'
  <2>1. k \in Nat /\ k <= k /\ 0 \in 0 .. k /\ (k > 0 => 1 \in 0 .. k)
    BY <1>1
  <2>2. First(k, 0)' = First(k, 0) /\ (k > 0 => First(k, 1)' = First(k, 1))
    BY <1>8, <2>1
  <2>3. QED
    BY <1>4, <1>5, <1>6, <2>1, <2>2, ProcFrame
<1>10. HeadersRead'
  BY <1>5 DEF HeadersRead
<1>11. QED
  BY <1>5, <1>6, <1>8, <1>9, <1>10, RingFrame

\* A step round the queue leads from a slot to the next.
LEMMA Onward ==
  ASSUME NEW b, NEW j, b \in Slots, j \in 0 .. BatchCount - 1
  PROVE  /\ Ahead(Ahead(b, j), 1) = Ahead(b, j + 1)
         /\ Ahead(Ahead(b, 1), j) = Ahead(b, j + 1)
<1>1. BatchCount \in Nat \ {0}
  BY Sizes
<1>2. j \in 0 .. BatchCount /\ j + 1 \in 0 .. BatchCount /\ 1 \in 0 .. BatchCount
  BY <1>1
<1>3. PICK c, d, h : c = Ahead(b, j) /\ d = Ahead(b, 1) /\ h = j + 1
  OBVIOUS
<1>4. /\ c \in Slots
      /\ c = IF b + j < BatchCount THEN b + j ELSE b + j - BatchCount
  BY ONLY <1>2, <1>3, b \in Slots, AheadIs
<1>5. /\ d \in Slots
      /\ d = IF b + 1 < BatchCount THEN b + 1 ELSE b + 1 - BatchCount
  BY ONLY <1>2, <1>3, b \in Slots, AheadIs
<1>6. Ahead(b, h) = IF b + h < BatchCount THEN b + h ELSE b + h - BatchCount
  BY ONLY <1>2, <1>3, b \in Slots, AheadIs
<1>7. Ahead(c, 1) = IF c + 1 < BatchCount THEN c + 1 ELSE c + 1 - BatchCount
  BY ONLY <1>2, <1>4, AheadIs
<1>8. Ahead(d, j) = IF d + j < BatchCount THEN d + j ELSE d + j - BatchCount
  BY ONLY <1>2, <1>5, AheadIs
<1>9. h = j + 1
  BY <1>3
<1>10. b \in 0 .. BatchCount - 1
  BY DEF Slots
<1>11. Ahead(c, 1) = Ahead(b, h)
  BY ONLY <1>1, <1>4, <1>6, <1>7, <1>9, <1>10, j \in 0 .. BatchCount - 1
<1>12. Ahead(d, j) = Ahead(b, h)
  BY ONLY <1>1, <1>5, <1>6, <1>8, <1>9, <1>10, j \in 0 .. BatchCount - 1
<1>13. QED
  BY <1>3, <1>11, <1>12

\* Slots that the same slot follows are the same.
LEMMA BackOne ==
  ASSUME NEW b, NEW c, b \in Slots, c \in Slots, Ahead(b, 1) = Ahead(c, 1)
  PROVE  b = c
<1>1. BatchCount \in Nat \ {0}
  BY Sizes
<1>2. 1 \in 0 .. BatchCount
  BY <1>1
<1>3. /\ Ahead(b, 1) = IF b + 1 < BatchCount THEN b + 1 ELSE b + 1 - BatchCount
      /\ Ahead(c, 1) = IF c + 1 < BatchCount THEN c + 1 ELSE c + 1 - BatchCount
  BY <1>2, AheadIs
<1>4. QED
  BY <1>1, <1>3 DEF Slots

\* A submission puts one more batch in flight; the symbols of the stream that
\* follow it are the next batch's.
LEMMA SubmitStep ==
  ASSUME TypeOK, HeadersRead, DecInv, RingInv, NEW k \in 0 .. BatchCount,
         QueueInv(k), ProcInv(k), DecSubmit, dec.len # 0
  PROVE  /\ HeadersRead' /\ DecInv' /\ RingInv'
         /\ k + 1 \in 0 .. BatchCount /\ QueueInv(k + 1)' /\ ProcInv(k + 1)'
<1>1. /\ dec.sym \in 1 .. N + 1 /\ dec.len \in 1 .. BatchSize /\ dec.slot \in Slots
      /\ N \in Nat /\ BatchSize \in Nat \ {0} /\ BatchCount \in Nat \ {0}
      /\ DecFirst \in 1 .. dec.sym
      /\ batch_len \in [Slots -> -1 .. BatchSize]
  <2>1. /\ dec.sym \in 1 .. N + 1 /\ dec.len \in 0 .. BatchSize /\ dec.slot \in Slots
        /\ N \in Nat /\ BatchSize \in Nat \ {0} /\ BatchCount \in Nat \ {0}
        /\ DecFirst \in 1 .. dec.sym
        /\ batch_len \in [Slots -> -1 .. BatchSize]
    BY Types, Here, Sizes, Positions
  <2>2. dec.len \in 1 .. BatchSize
    BY <2>1
  <2>3. QED
    BY <2>1, <2>2
<1>2. /\ dec.pc = "single" /\ dec' = [dec EXCEPT !.pc = "rdpos"]
      /\ batch_len' = [batch_len EXCEPT ![dec.slot] = dec.len]
      /\ UNCHANGED <<stream, buf, prefetch_wrpos, prefetch_rdpos, prefetch_end,
                     batch_prefetch_rdpos, batch, pf, proc, out>>
  BY DEF DecSubmit
<1>3. dec \in [pc : {"wait", "short", "medium", "snapshot", "single", "rdpos",
                     "room", "stop", "done"},
               sym : 1 .. N + 1, slot : Slots, len : 0 .. BatchSize,
               wrpos : 0 .. End]
  BY DEF TypeOK
<1>4. /\ dec'.sym = dec.sym /\ dec'.slot = dec.slot /\ dec'.pc = "rdpos"
      /\ dec'.len = dec.len
  BY <1>2, <1>3
<1>7. DecFirst' = DecFirst + dec.len /\ DecFirst = dec.sym - dec.len
  BY <1>1, <1>2, <1>4 DEF DecFirst, Writing
<1>8. DecInv'
  <2>1. DecFirst' >= 1
    BY <1>1, <1>7
  <2>2. QED
    BY <1>4, <2>1 DEF DecInv, Writing
<1>9. k \in 0 .. BatchCount - 1 /\ dec.slot = SlotOf(k)
  BY <1>1, <1>2 DEF QueueInv
<1>10. \A j : SlotOf(j)' = SlotOf(j)
  BY <1>2 DEF SlotOf, Ahead
<1>11. ASSUME NEW j \in 0 .. BatchCount - 1
       PROVE  /\ SlotOf(j) \in Slots
              /\ j # k => SlotOf(j) # dec.slot
              /\ j # k => batch_len'[SlotOf(j)] = batch_len[SlotOf(j)]
  <2>1. j \in 0 .. BatchCount
    BY <1>1
  <2>2. SlotOf(j) \in Slots
    BY <2>1, AheadIs, Types DEF SlotOf
  <2>3. j # k => SlotOf(j) # dec.slot
    BY <1>9, SlotsApart
  <2>4. QED
    BY <1>1, <1>2, <2>2, <2>3
<1>12. batch_len'[SlotOf(k)] = dec.len
  BY <1>1, <1>2, <1>9
<1>13. ASSUME NEW j \in 0 .. k PROVE First(k + 1, j)' = First(k, j)
  <2>1. j # k + 1
    BY <1>1
  <2>2. First(k + 1, j)' = batch[SlotOf(j)][1]
    BY <1>2, <1>10, <2>1 DEF First
  <2>3. CASE j = k
    <3>1. 1 \in 1 .. dec.len
      BY <1>1
    <3>2. batch[dec.slot][1] = DecFirst + 1 - 1
      BY <1>2, <3>1 DEF DecInv, Writing
    <3>3. QED
      BY <1>1, <1>9, <2>2, <2>3, <3>2 DEF First
  <2>4. CASE j # k
    BY <2>2, <2>4 DEF First
  <2>5. QED
    BY <2>3, <2>4
<1>14. First(k + 1, k + 1)' = DecFirst + dec.len
  BY <1>7 DEF First
<1>15. k + 1 \in 0 .. BatchCount /\ k + 1 > 0 /\ (k + 1) - 1 = k
  BY <1>1, <1>9
<1>16. ASSUME NEW j \in 0 .. (k + 1) - 1
       PROVE  /\ batch_len'[SlotOf(j)'] > 0
              /\ \A i \in 1 .. batch_len'[SlotOf(j)'] :
                   batch'[SlotOf(j)'][i] = First(k + 1, j)' + i - 1
              /\ First(k + 1, j + 1)' = First(k + 1, j)' + batch_len'[SlotOf(j)']
              /\ ~Unstored(SlotOf(j))' =>
                   batch_prefetch_rdpos'[SlotOf(j)'] = stream'.start[First(k + 1, j + 1)']
  <2>1. j \in 0 .. k
    BY <1>15
  <2>2. First(k + 1, j)' = First(k, j)
    BY <1>13, <2>1
  <2>3. CASE j = k
    <3>1. Unstored(SlotOf(j))'
      BY <1>4, <1>9, <1>10, <2>3 DEF Unstored
    <3>2. batch_len'[SlotOf(j)'] = dec.len
      BY <1>10, <1>12, <2>3
    <3>3. First(k + 1, j)' = DecFirst
      BY <2>2, <2>3 DEF First
    <3>4. First(k + 1, j + 1)' = First(k + 1, j)' + dec.len
      BY <1>14, <2>3, <3>3
    <3>5. \A i \in 1 .. dec.len : batch'[SlotOf(j)'][i] = First(k + 1, j)' + i - 1
      BY <1>2, <1>9, <1>10, <2>3, <3>3 DEF DecInv, Writing
    <3>6. QED
      BY <1>1, <3>1, <3>2, <3>4, <3>5
  <2>4. CASE j # k
    <3>1. j \in 0 .. k - 1 /\ j + 1 \in 0 .. k /\ j \in 0 .. BatchCount - 1
      BY <1>1, <2>1, <2>4
    <3>2. /\ batch_len[SlotOf(j)] > 0
          /\ \A i \in 1 .. batch_len[SlotOf(j)] : batch[SlotOf(j)][i] = First(k, j) + i - 1
          /\ First(k, j + 1) = First(k, j) + batch_len[SlotOf(j)]
          /\ batch_prefetch_rdpos[SlotOf(j)] = stream.start[First(k, j + 1)]
      BY <1>2, <3>1 DEF QueueInv, Unstored
    <3>3. batch_len'[SlotOf(j)'] = batch_len[SlotOf(j)]
      BY <1>10, <1>11, <2>4, <3>1
    <3>4. First(k + 1, j + 1)' = First(k, j + 1)
      BY <1>13, <3>1
    <3>5. QED
      BY <1>2, <1>10, <2>2, <3>2, <3>3, <3>4
  <2>5. QED
    BY <2>3, <2>4
<1>17. ASSUME NEW j \in (k + 1) .. BatchCount - 1 PROVE batch_len'[SlotOf(j)'] = 0
  <2>1. j \in k .. BatchCount - 1 /\ j \in 0 .. BatchCount - 1 /\ j # k
    BY <1>1
  <2>2. batch_len[SlotOf(j)] = 0
    BY <2>1 DEF QueueInv
  <2>3. QED
    BY <1>10, <1>11, <2>1, <2>2
<1>18. QueueInv(k + 1)'
  <2>1. Ahead(Ahead(proc.slot, k), 1) = Ahead(proc.slot, k + 1)
    BY <1>9, Onward, Types
  <2>2. SlotOf(k + 1)' = Ahead(dec'.slot, 1)
    BY <1>4, <1>9, <1>10, <2>1 DEF SlotOf
  <2>3. QED
    BY <1>4, <1>15, <1>16, <1>17, <2>2 DEF QueueInv, Ahead
<1>19. ProcInv(k + 1)'
  <2>1. k \in Nat /\ k + 1 \in Nat /\ k <= k + 1 /\ 0 \in 0 .. k /\ (k > 0 => 1 \in 0 .. k)
    BY <1>1
  <2>2. First(k + 1, 0)' = First(k, 0) /\ (k > 0 => First(k + 1, 1)' = First(k, 1))
    BY <1>13, <2>1
  <2>3. ASSUME k > 0
        PROVE  batch_len'[proc.slot] = batch_len[proc.slot]
    <3>1. 0 \in 0 .. BatchCount - 1 /\ 0 # k
      BY <1>1, <2>3
    <3>2. SlotOf(0) = proc.slot
      BY FirstSlot
    <3>3. QED
      BY <1>11, <3>1, <3>2
  <2>4. dec.pc # "done"
    BY <1>2
  <2>5. PICK m : m = k + 1
    OBVIOUS
  <2>6. ProcInv(m)'
    BY <1>2, <2>1, <2>2, <2>3, <2>4, <2>5, ProcFrame
  <2>7. QED
    BY <2>5, <2>6
<1>20. HeadersRead'
  BY <1>2 DEF HeadersRead
<1>21. QED
  BY <1>2, <1>8, <1>15, <1>18, <1>19, <1>20, RingFrame

\* The store of a batch's position, and the end, keep the invariant.
LEMMA DecStoreStep ==
  ASSUME TypeOK, HeadersRead, DecInv, RingInv, NEW k \in 0 .. BatchCount,
         QueueInv(k), ProcInv(k), DecRdpos \/ DecStop
  PROVE  HeadersRead' /\ DecInv' /\ RingInv' /\ QueueInv(k)' /\ ProcInv(k)'
<1>1. /\ dec.sym \in 1 .. N + 1 /\ dec.len \in 0 .. BatchSize /\ dec.slot \in Slots
      /\ N \in Nat /\ BatchSize \in Nat \ {0} /\ BatchCount \in Nat \ {0}
      /\ DecFirst \in 1 .. dec.sym
      /\ batch_len \in [Slots -> -1 .. BatchSize] /\ proc.slot \in Slots
  BY Types, Here, Sizes, Positions
<1>2. dec \in [pc : {"wait", "short", "medium", "snapshot", "single", "rdpos",
                     "room", "stop", "done"},
               sym : 1 .. N + 1, slot : Slots, len : 0 .. BatchSize,
               wrpos : 0 .. End]
  BY DEF TypeOK
<1>3. UNCHANGED <<stream, buf, prefetch_wrpos, prefetch_rdpos, batch, pf, proc, out>>
  BY DEF DecRdpos, DecStop
<1>4. dec.pc # "done"
  BY DEF DecRdpos, DecStop
<1>5. \A j : SlotOf(j)' = SlotOf(j)
  BY <1>3 DEF SlotOf, Ahead
<1>6. HeadersRead' /\ RingInv'
  BY <1>3, RingFrame DEF HeadersRead
<1>7. ASSUME NEW j, j \in 0 .. BatchCount - 1 PROVE SlotOf(j) \in Slots
  <2>1. j \in 0 .. BatchCount
    BY <1>1, <1>7
  <2>2. QED
    BY <1>1, <2>1, AheadIs DEF SlotOf
<1>8. ASSUME DecFirst' = DecFirst
      PROVE  \A j : First(k, j)' = First(k, j)
  BY <1>3, <1>5, <1>8 DEF First
<1>9. k \in Nat /\ k <= k
  BY <1>1
<1>10. CASE DecRdpos
  <2>1. /\ dec.pc = "rdpos"
        /\ batch_prefetch_rdpos' = [batch_prefetch_rdpos EXCEPT ![dec.slot] = Cur]
        /\ dec' = [dec EXCEPT !.pc = "room", !.slot = (dec.slot + 1) % BatchCount]
        /\ batch_len' = batch_len /\ prefetch_end' = prefetch_end
    BY <1>10 DEF DecRdpos
  <2>2. PICK b : b = (dec.slot + 1) % BatchCount
    OBVIOUS
  <2>3. b = SlotOf(k) /\ b = Ahead(dec.slot, 1)
    BY <2>1, <2>2 DEF QueueInv, Ahead
  <2>4. ASSUME k > 0 PROVE dec.slot = SlotOf(k - 1)
    <3>1. PICK h : h = k - 1
      OBVIOUS
    <3>2. h \in 0 .. BatchCount - 1 /\ h + 1 = k
      BY <1>1, <2>4, <3>1
    <3>3. Ahead(SlotOf(h), 1) = SlotOf(h + 1)
      BY <1>1, <3>2, Onward DEF SlotOf
    <3>4. SlotOf(h) \in Slots
      BY <1>7, <3>2
    <3>5. SlotOf(h) = dec.slot
      BY <1>1, <2>3, <3>2, <3>3, <3>4, BackOne
    <3>6. QED
      BY <3>1, <3>5
  <2>5. /\ dec'.pc = "room" /\ dec'.slot = b /\ dec'.sym = dec.sym /\ dec'.len = dec.len
    BY <1>2, <2>1, <2>2
  <2>6. DecFirst' = DecFirst /\ DecFirst = dec.sym
    BY <2>1, <2>5 DEF DecFirst, Writing
  <2>9. DecInv'
    BY <1>1, <2>5, <2>6 DEF DecInv, Writing
  <2>10. ASSUME NEW j \in 0 .. k - 1
         PROVE  /\ batch_len'[SlotOf(j)'] > 0
                /\ \A i \in 1 .. batch_len'[SlotOf(j)'] :
                     batch'[SlotOf(j)'][i] = First(k, j)' + i - 1
                /\ First(k, j + 1)' = First(k, j)' + batch_len'[SlotOf(j)']
                /\ batch_prefetch_rdpos'[SlotOf(j)'] = stream'.start[First(k, j + 1)']
    <3>1. j \in 0 .. BatchCount - 1 /\ k - 1 \in 0 .. BatchCount - 1 /\ k > 0
      BY <1>1
    <3>2. SlotOf(j) \in Slots
      BY <1>7, <3>1
    <3>3. /\ batch_len[SlotOf(j)] > 0
          /\ \A i \in 1 .. batch_len[SlotOf(j)] : batch[SlotOf(j)][i] = First(k, j) + i - 1
          /\ First(k, j + 1) = First(k, j) + batch_len[SlotOf(j)]
          /\ ~Unstored(SlotOf(j)) =>
               batch_prefetch_rdpos[SlotOf(j)] = stream.start[First(k, j + 1)]
      BY DEF QueueInv
    <3>4. First(k, j)' = First(k, j) /\ First(k, j + 1)' = First(k, j + 1)
      BY <1>8, <2>6
    <3>5. batch_prefetch_rdpos'[SlotOf(j)] = stream.start[First(k, j + 1)]
      <4>0. batch_prefetch_rdpos \in [Slots -> 0 .. End \cup StaleRdpos]
        BY DEF TypeOK
      <4>1. CASE j = k - 1
        <5>1. j + 1 = k
          BY <1>1, <4>1
        <5>2. First(k, j + 1) = dec.sym
          BY <2>6, <5>1 DEF First
        <5>3. batch_prefetch_rdpos'[dec.slot] = Cur
          BY <1>1, <2>1, <4>0
        <5>4. QED
          BY <2>4, <3>1, <4>1, <5>2, <5>3 DEF Cur
      <4>2. CASE j # k - 1
        <5>1. PICK h : h = k - 1
          OBVIOUS
        <5>2. SlotOf(j) # dec.slot
          <6>1. h \in 0 .. BatchCount - 1 /\ j # h
            BY <3>1, <4>2, <5>1
          <6>2. SlotOf(j) # SlotOf(h)
            BY <3>1, <6>1, SlotsApart
          <6>3. QED
            BY <2>4, <3>1, <5>1, <6>2
        <5>3. ~Unstored(SlotOf(j))
          BY <5>2 DEF Unstored
        <5>4. batch_prefetch_rdpos'[SlotOf(j)] = batch_prefetch_rdpos[SlotOf(j)]
          BY <2>1, <3>2, <4>0, <5>2
        <5>5. QED
          BY <3>3, <5>3, <5>4
      <4>3. QED
        BY <4>1, <4>2
    <3>6. QED
      BY <1>3, <1>5, <2>1, <3>3, <3>4, <3>5
  <2>11. \A j \in k .. BatchCount - 1 : batch_len'[SlotOf(j)'] = 0
    BY <1>5, <2>1 DEF QueueInv
  <2>12. QueueInv(k)'
    <3>1. SlotOf(k)' = dec'.slot
      BY <1>5, <2>3, <2>5
    <3>2. QED
      BY <2>5, <2>10, <2>11, <3>1 DEF QueueInv
  <2>13. ProcInv(k)'
    <3>1. First(k, 0)' = First(k, 0) /\ First(k, 1)' = First(k, 1)
      BY <1>8, <2>6
    <3>2. QED
      BY <1>3, <1>4, <1>9, <2>1, <3>1, ProcFrame
  <2>14. QED
    BY <1>6, <2>9, <2>12, <2>13
<1>11. CASE DecStop
  <2>1. /\ dec.pc = "stop" /\ prefetch_end' = TRUE
        /\ batch_len' = [batch_len EXCEPT ![dec.slot] = -1]
        /\ dec' = [dec EXCEPT !.pc = "done"]
        /\ batch_prefetch_rdpos' = batch_prefetch_rdpos
    BY <1>11 DEF DecStop
  <2>2. k \in 0 .. BatchCount - 1 /\ dec.slot = SlotOf(k)
    BY <1>1, <2>1 DEF QueueInv
  <2>3. /\ dec'.pc = "done" /\ dec'.slot = dec.slot /\ dec'.sym = dec.sym
        /\ dec'.len = dec.len
    BY <1>2, <2>1
  <2>4. DecFirst' = DecFirst
    BY <2>1, <2>3 DEF DecFirst, Writing
  <2>7. DecInv'
    <3>1. dec.sym = N + 1 /\ N' = N
      BY <1>3, <2>1 DEF DecInv, N
    <3>2. QED
      BY <1>1, <2>3, <2>4, <3>1 DEF DecInv, Writing
  <2>8. ASSUME NEW j, j \in 0 .. BatchCount - 1
        PROVE  batch_len'[SlotOf(j)'] = IF j = k THEN -1 ELSE batch_len[SlotOf(j)]
    <3>1. SlotOf(j) \in Slots
      BY <1>7, <2>8
    <3>2. j # k => SlotOf(j) # dec.slot
      BY <2>2, <2>8, SlotsApart
    <3>3. QED
      BY <1>1, <1>5, <2>1, <2>2, <3>1, <3>2
  <2>9. \A j : First(k, j)' = First(k, j)
    BY <1>8, <2>4
  <2>10. ASSUME NEW j \in 0 .. k - 1
         PROVE  /\ batch_len'[SlotOf(j)'] > 0
                /\ \A i \in 1 .. batch_len'[SlotOf(j)'] :
                     batch'[SlotOf(j)'][i] = First(k, j)' + i - 1
                /\ First(k, j + 1)' = First(k, j)' + batch_len'[SlotOf(j)']
                /\ batch_prefetch_rdpos'[SlotOf(j)'] = stream'.start[First(k, j + 1)']
    <3>1. j \in 0 .. BatchCount - 1 /\ j # k
      BY <1>1
    <3>2. batch_len'[SlotOf(j)'] = batch_len[SlotOf(j)]
      BY <2>8, <3>1
    <3>3. /\ batch_len[SlotOf(j)] > 0
          /\ \A i \in 1 .. batch_len[SlotOf(j)] : batch[SlotOf(j)][i] = First(k, j) + i - 1
          /\ First(k, j + 1) = First(k, j) + batch_len[SlotOf(j)]
          /\ batch_prefetch_rdpos[SlotOf(j)] = stream.start[First(k, j + 1)]
      BY <2>1 DEF QueueInv, Unstored
    <3>4. QED
      BY <1>3, <1>5, <2>1, <2>9, <3>2, <3>3
  <2>11. ASSUME NEW j \in k .. BatchCount - 1
         PROVE  batch_len'[SlotOf(j)'] = IF j = k THEN -1 ELSE 0
    <3>1. j \in 0 .. BatchCount - 1
      BY <1>1
    <3>2. batch_len[SlotOf(j)] = 0
      BY <2>1 DEF QueueInv
    <3>3. QED
      BY <2>8, <3>1, <3>2
  <2>12. QueueInv(k)'
    <3>1. SlotOf(k)' = dec'.slot /\ k < BatchCount
      BY <1>1, <1>5, <2>2, <2>3
    <3>2. QED
      BY <2>3, <2>10, <2>11, <3>1 DEF QueueInv
  <2>13. ProcInv(k)'
    <3>1. ASSUME k > 0 PROVE batch_len'[proc.slot] = batch_len[proc.slot]
      <4>1. 0 \in 0 .. BatchCount - 1 /\ 0 # k
        BY <1>1, <3>1
      <4>2. SlotOf(0) = proc.slot /\ SlotOf(0)' = SlotOf(0)
        BY <1>5, FirstSlot
      <4>3. QED
        BY <2>8, <4>1, <4>2
    <3>2. First(k, 0)' = First(k, 0) /\ First(k, 1)' = First(k, 1)
      BY <2>9
    <3>3. QED
      BY <1>3, <1>4, <1>9, <3>1, <3>2, ProcFrame
  <2>14. QED
    BY <1>6, <2>7, <2>12, <2>13
<1>12. QED
  BY <1>10, <1>11

-----------------------------------------------------------------------------
(* The processor.                                                          *)

\* What the decoder keeps does not mind what the processor does.
LEMMA DecFrame ==
  ASSUME HeadersRead, DecInv, UNCHANGED <<stream, prefetch_wrpos, batch, dec>>
  PROVE  HeadersRead' /\ DecInv'
BY DEF HeadersRead, DecInv, DecFirst, Writing, Cur, End, N

\* A literal is what follows its header in the stream.
LEMMA LiteralText ==
  ASSUME TypeOK, NEW i, NEW j, i \in 1 .. N, IsLiteral(stream.syms[i]),
         j \in 1 .. stream.syms[i].len
  PROVE  stream.text[stream.dst[i] + j] = stream.start[i] + stream.syms[i].tag + j - 1
<1>1. WellFormed(stream) /\ i \in 1 .. Len(stream.syms)
  BY UnsnapAssumption DEF UnsnapAssumption, TypeOK, N
<1>2. QED
  BY <1>1 DEF WellFormed

\* s is the first m bytes of a text, and w the n bytes that follow them.
Begins(text, s, m)     == /\ s \in Seq(Nat \cup {-1}) /\ Len(s) = m
                          /\ \A i \in 1 .. m : s[i] = text[i]
Follows(text, m, w, n) == /\ w \in [1 .. n -> Nat]
                          /\ \A i \in 1 .. n : w[i] = text[m + i]

\* A beginning of the text with what follows it in the text is a longer one.
LEMMA LongerText ==
  ASSUME NEW text, NEW s, NEW w, NEW m, NEW n, m \in Nat, n \in Nat,
         Begins(text, s, m), Follows(text, m, w, n)
  PROVE  Begins(text, s \o w, m + n)
<1>0. /\ s \in Seq(Nat \cup {-1}) /\ Len(s) = m /\ w \in [1 .. n -> Nat]
      /\ \A i \in 1 .. m : s[i] = text[i]
      /\ \A i \in 1 .. n : w[i] = text[m + i]
  BY DEF Begins, Follows
<1>1. w \in Seq(Nat \cup {-1}) /\ Len(w) = n
  <2>1. w \in [1 .. n -> Nat \cup {-1}]
    BY <1>0
  <2>2. QED
    BY ONLY <2>1, n \in Nat
<1>2. ASSUME NEW S, NEW u \in Seq(S), NEW v \in Seq(S)
      PROVE  /\ u \o v \in Seq(S) /\ Len(u \o v) = Len(u) + Len(v)
             /\ \A i \in 1 .. Len(u) + Len(v) :
                  (u \o v)[i] = IF i <= Len(u) THEN u[i] ELSE v[i - Len(u)]
  OBVIOUS
<1>3. /\ s \o w \in Seq(Nat \cup {-1}) /\ Len(s \o w) = m + n
      /\ \A i \in 1 .. m + n : (s \o w)[i] = IF i <= m THEN s[i] ELSE w[i - m]
  <2>1. /\ s \o w \in Seq(Nat \cup {-1}) /\ Len(s \o w) = Len(s) + Len(w)
        /\ \A i \in 1 .. Len(s) + Len(w) :
             (s \o w)[i] = IF i <= Len(s) THEN s[i] ELSE w[i - Len(s)]
    BY ONLY <1>0, <1>1, <1>2, Zenon
  <2>2. Len(s) = m /\ Len(w) = n
    BY <1>0, <1>1
  <2>3. QED
    BY ONLY <2>1, <2>2, Zenon
<1>4. ASSUME NEW i, i \in 1 .. m + n PROVE (s \o w)[i] = text[i]
  <2>1. CASE i <= m
    <3>1. i \in 1 .. m
      BY <1>4, <2>1
    <3>2. QED
      BY <1>0, <1>3, <1>4, <2>1, <3>1
  <2>2. CASE ~(i <= m)
    <3>1. PICK j : j = i - m
      OBVIOUS
    <3>2. j \in 1 .. n /\ m + j = i
      BY <1>4, <2>2, <3>1
    <3>3. w[j] = text[i]
      BY <1>0, <3>2
    <3>4. QED
      BY <1>3, <1>4, <2>2, <3>1, <3>3
  <2>3. QED
    BY <2>1, <2>2
<1>5. QED
  BY <1>3, <1>4 DEF Begins

\* The processor writes w, the n bytes of the text that follow the output, and
\* goes on by n bytes of its symbol.
Writes(k, n, w) ==
  /\ out' = out \o w
  /\ w \in [1 .. n -> Nat]
  /\ \A i \in 1 .. n : w[i] = stream.text[stream.dst[At(k)] + proc.off + i]
Moves(n) ==
  /\ proc' \in [pc : {"take", "combine", "emit", "free", "done"}, slot : Slots,
                len : 0 .. BatchSize, done : 0 .. BatchSize, off : Nat,
                wrpos : 0 .. End]
  /\ proc'.pc = proc.pc /\ proc'.slot = proc.slot
  /\ proc'.len = proc.len /\ proc'.wrpos = proc.wrpos
  /\ IF proc.off + n < Sym.len
     THEN /\ proc'.off = proc.off + n /\ proc'.done = proc.done
          /\ proc.pc = "emit" /\ IsLiteral(Sym)
     ELSE proc'.off = 0 /\ proc'.done = proc.done + 1

\* The processor goes on by n bytes of the symbol it stands at, and to the next
\* symbol if these are its last.
LEMMA EmitStep ==
  ASSUME TypeOK, HeadersRead, DecInv, RingInv, NEW k \in 0 .. BatchCount,
         QueueInv(k), ProcInv(k), Busy, proc.pc # "free", proc.done < proc.len,
         NEW n, n \in Nat, proc.off + n <= Sym.len,
         NEW w, Writes(k, n, w), Moves(n),
         UNCHANGED <<stream, queue, pf, dec>>
  PROVE  HeadersRead' /\ DecInv' /\ RingInv' /\ QueueInv(k)' /\ ProcInv(k)'
<1>0. /\ w \in [1 .. n -> Nat] /\ out' = out \o w
      /\ \A i \in 1 .. n : w[i] = stream.text[stream.dst[At(k)] + proc.off + i]
      /\ proc'.pc = proc.pc /\ proc'.slot = proc.slot
      /\ proc'.len = proc.len /\ proc'.wrpos = proc.wrpos
      /\ IF proc.off + n < Sym.len
         THEN /\ proc'.off = proc.off + n /\ proc'.done = proc.done
              /\ proc.pc = "emit" /\ IsLiteral(Sym)
         ELSE proc'.off = 0 /\ proc'.done = proc.done + 1
      /\ proc' \in [pc : {"take", "combine", "emit", "free", "done"}, slot : Slots,
                    len : 0 .. BatchSize, done : 0 .. BatchSize, off : Nat,
                    wrpos : 0 .. End]
  BY DEF Writes, Moves
<1>1. /\ At(k) \in 1 .. N /\ Sym = stream.syms[At(k)]
      /\ At(k) = First(k, 0) + proc.done
  BY Standing DEF At
<1>2. /\ N \in Nat /\ proc.done \in 0 .. BatchSize /\ proc.len \in 0 .. BatchSize
      /\ BatchSize \in Nat /\ proc.off \in Nat
  BY Here, Types, Sizes
<1>3. /\ Sym.len \in Nat \ {0} /\ stream.dst[At(k)] \in Nat
      /\ stream.dst[At(k) + 1] = stream.dst[At(k)] + Sym.len
  <2>1. At(k) \in 1 .. N + 1
    BY <1>1, <1>2
  <2>2. QED
    BY <1>1, <2>1, Here
<1>4. UNCHANGED <<stream, batch_len, batch_prefetch_rdpos, batch, dec, buf,
                  prefetch_wrpos, prefetch_rdpos, prefetch_end, pf>>
  BY DEF queue
<1>5. /\ QueueInv(k)' /\ First(k, 0)' = First(k, 0)
  BY <1>0, <1>4, QueueFrame
<1>6. Busy' /\ GivenUp(k)' = First(k, 0) /\ GivenUp(k) = First(k, 0)
  BY <1>0, <1>5 DEF Busy, GivenUp
<1>7. First(k, 0) \in Int
  BY <1>1, <1>2, Standing, Positions
<1>8. At(k)' = First(k, 0) + proc'.done
  BY <1>5, <1>6 DEF At
<1>9. /\ out' \in Seq(Nat \cup {-1})
      /\ Len(out') = stream.dst[At(k)] + proc.off + n
      /\ \A i \in 1 .. Len(out') : out'[i] = stream.text[i]
  <2>1. /\ out \in Seq(Nat \cup {-1}) /\ Len(out) = stream.dst[At(k)] + proc.off
        /\ \A i \in 1 .. Len(out) : out[i] = stream.text[i]
    BY DEF TypeOK, ProcInv
  <2>2. PICK m, text : m = stream.dst[At(k)] + proc.off /\ text = stream.text
    OBVIOUS
  <2>3. m \in Nat
    BY ONLY <1>2, <1>3, <2>2
  <2>4. Begins(text, out, m) /\ Follows(text, m, w, n)
    BY <1>0, <2>1, <2>2 DEF Begins, Follows
  <2>5. Begins(text, out \o w, m + n)
    BY <2>3, <2>4, LongerText
  <2>6. QED
    BY <1>0, <2>2, <2>5 DEF Begins
<1>11. /\ Len(out') = stream.dst[At(k)'] + proc'.off
       /\ proc'.done <= proc.len
       /\ proc'.off > 0 =>
            /\ proc.pc = "emit" /\ proc'.done < proc.len
            /\ IsLiteral(stream.syms[At(k)']) /\ proc'.off < stream.syms[At(k)'].len
  <2>1. CASE proc.off + n < Sym.len
    <3>1. proc'.off = proc.off + n /\ proc'.done = proc.done
          /\ proc.pc = "emit" /\ IsLiteral(Sym)
      BY <1>0, <2>1
    <3>2. At(k)' = At(k)
      BY <1>1, <1>8, <3>1
    <3>3. Len(out') = stream.dst[At(k)] + proc'.off
      BY ONLY <1>2, <1>3, <1>9, <3>1, n \in Nat
    <3>4. proc'.done < proc.len /\ proc'.done <= proc.len /\ proc'.off < Sym.len
      BY ONLY <1>2, <2>1, <3>1, proc.done < proc.len
    <3>5. QED
      BY <1>1, <3>1, <3>2, <3>3, <3>4
  <2>2. CASE ~(proc.off + n < Sym.len)
    <3>1. proc'.off = 0 /\ proc'.done = proc.done + 1
      BY <1>0, <2>2
    <3>2. At(k)' = At(k) + 1
      BY <1>1, <1>2, <1>7, <1>8, <3>1
    <3>3. proc.off + n = Sym.len
      BY <1>2, <1>3, <2>2
    <3>4. Len(out') = stream.dst[At(k) + 1]
      BY <1>2, <1>3, <1>9, <3>3
    <3>5. stream.dst[At(k) + 1] \in Nat
      BY <1>3
    <3>6. QED
      BY <1>2, <3>1, <3>2, <3>4, <3>5
  <2>3. QED
    BY <2>1, <2>2
<1>12. ProcInv(k)'
  <2>1. /\ k > 0 /\ proc.len = batch_len[proc.slot] /\ proc.wrpos <= prefetch_wrpos
        /\ prefetch_rdpos <= stream.start[GivenUp(k)]
        /\ pf.pos - PrefetchSize <= stream.start[GivenUp(k)]
        /\ pf.pc = "load" =>
             pf.pos + pf.blen - PrefetchSize <= stream.start[GivenUp(k)]
    BY DEF ProcInv
  <2>2. proc.pc \in {"combine", "emit"}
    BY DEF Busy
  <2>3. proc'.pc # "free" /\ proc'.pc # "done"
    BY <1>0, <2>2
  <2>4. /\ prefetch_rdpos' <= stream'.start[GivenUp(k)']
        /\ pf'.pos - PrefetchSize <= stream'.start[GivenUp(k)']
        /\ pf'.pc = "load" =>
             pf'.pos + pf'.blen - PrefetchSize <= stream'.start[GivenUp(k)']
    BY <1>4, <1>6, <2>1
  <2>5. Len(out') = stream'.dst[At(k)'] + proc'.off
        /\ \A i \in 1 .. Len(out') : out'[i] = stream'.text[i]
    BY <1>4, <1>9, <1>11
  <2>6. proc'.off > 0 =>
            /\ proc'.pc = "emit" /\ proc'.done < proc'.len
            /\ IsLiteral(stream'.syms[At(k)']) /\ proc'.off < stream'.syms[At(k)'].len
    BY <1>0, <1>4, <1>11
  <2>7. /\ k > 0 /\ proc'.len = batch_len'[proc'.slot] /\ proc'.done <= proc'.len
        /\ proc'.wrpos <= prefetch_wrpos'
    BY <1>0, <1>4, <1>11, <2>1
  <2>8. QED
    BY <2>3, <2>4, <2>5, <2>6, <2>7 DEF ProcInv
<1>13. QED
  BY <1>4, <1>5, <1>12, DecFrame, RingFrame

\* What the output repeats for a copy, overlapping or not, is the text.
LEMMA CopyText ==
  ASSUME TypeOK, HeadersRead, DecInv, NEW k \in 0 .. BatchCount, QueueInv(k),
         ProcInv(k), Busy, proc.done < proc.len, proc.off = 0, ~IsLiteral(Sym)
  PROVE  /\ FromOutput(Sym) \in [1 .. Sym.len -> Nat]
         /\ \A i \in 1 .. Sym.len :
              FromOutput(Sym)[i] = stream.text[stream.dst[At(k)] + proc.off + i]
<1>1. At(k) \in 1 .. N /\ Sym = stream.syms[At(k)]
  BY Standing
<1>2. N \in Nat /\ N + 1 \in 1 .. N + 1
  BY Here
<1>3. At(k) \in 1 .. N + 1 /\ At(k) <= N + 1
  BY <1>1, <1>2
<1>4. /\ stream.dst[At(k)] \in Nat /\ Sym.dist \in Nat /\ Sym.dist <= stream.dst[At(k)]
      /\ Sym.len \in Nat
  BY <1>1, <1>3, Here
<1>5. Sym.dist \in Nat \ {0}
  BY <1>4 DEF IsLiteral
<1>6. stream.text \in Seq(Nat) /\ stream.dst[At(k)] <= Len(stream.text)
  <2>1. stream.text \in Seq(Nat) /\ Len(stream.text) = stream.dst[N + 1]
    BY Here
  <2>2. stream.dst[At(k)] + ((N + 1) - At(k)) <= stream.dst[N + 1]
    BY <1>2, <1>3, Here
  <2>3. stream.dst[N + 1] \in Nat
    BY <1>2, Here
  <2>4. QED
    BY <1>2, <1>3, <1>4, <2>1, <2>2, <2>3
<1>7. /\ Len(out) = stream.dst[At(k)]
      /\ \A i \in 1 .. Len(out) : out[i] = stream.text[i]
  BY <1>4 DEF ProcInv
<1>8. ASSUME NEW i, i \in 1 .. Sym.len
      PROVE  /\ out[Len(out) - Sym.dist + 1 + ((i - 1) % Sym.dist)]
                  = stream.text[stream.dst[At(k)] + proc.off + i]
             /\ out[Len(out) - Sym.dist + 1 + ((i - 1) % Sym.dist)] \in Nat
             /\ Len(out) - Sym.dist + 1 + ((i - 1) % Sym.dist) >= 1
  <2>1. (i - 1) % Sym.dist \in 0 .. Sym.dist - 1
    BY <1>4, <1>5, <1>8
  <2>2. PICK q : q = Len(out) - Sym.dist + 1 + ((i - 1) % Sym.dist)
    OBVIOUS
  <2>3. q \in 1 .. Len(out) /\ q \in 1 .. Len(stream.text)
    <3>1. PICK a, d, l \in Nat :
            a = stream.dst[At(k)] /\ d = Sym.dist /\ l = Len(stream.text)
      BY <1>4, <1>6
    <3>2. PICK o \in 0 .. d - 1 : o = (i - 1) % Sym.dist
      BY <2>1, <3>1, Zenon
    <3>3. q = a - d + 1 + o /\ d <= a /\ a <= l /\ Len(out) = a
      BY <1>4, <1>6, <1>7, <2>2, <3>1, <3>2
    <3>4. q \in 1 .. a /\ q \in 1 .. l
      BY ONLY <3>2, <3>3, a \in Nat, d \in Nat, l \in Nat
    <3>5. QED
      BY <3>1, <3>3, <3>4
  <2>4. out[q] = stream.text[q] /\ stream.text[q] \in Nat
    BY <1>6, <1>7, <2>3
  <2>5. stream \in Streams /\ At(k) \in 1 .. Len(stream.syms)
    BY <1>1 DEF TypeOK, N
  <2>6. stream.text[stream.dst[At(k)] + i]
          = stream.text[stream.dst[At(k)] - Sym.dist + 1 + ((i - 1) % Sym.dist)]
    BY <1>1, <1>8, <2>5, Periodic
  <2>7. stream.dst[At(k)] + i = stream.dst[At(k)] + proc.off + i
    BY <1>4, <1>8
  <2>8. stream.text[stream.dst[At(k)] + i] = stream.text[q]
    BY <1>7, <2>2, <2>6
  <2>9. q >= 1
    BY <2>3
  <2>10. QED
    BY <2>2, <2>4, <2>7, <2>8, <2>9
<1>9. FromOutput(Sym)
        = [i \in 1 .. Sym.len |-> out[Len(out) - Sym.dist + 1 + ((i - 1) % Sym.dist)]]
  BY <1>8, Zenon DEF FromOutput
<1>10. QED
  BY <1>8, <1>9, Zenon

\* A piece of a literal is the text, read from global memory or, where the
\* snapshot says that it was loaded, from the ring.
LEMMA PieceText ==
  ASSUME TypeOK, HeadersRead, DecInv, RingInv, NEW k \in 0 .. BatchCount,
         QueueInv(k), ProcInv(k), Busy, proc.done < proc.len, IsLiteral(Sym),
         NEW n, n \in Nat, proc.off + n <= Sym.len
  PROVE  /\ FromBase(LiteralPos, n) \in [1 .. n -> Nat]
         /\ \A i \in 1 .. n :
              FromBase(LiteralPos, n)[i] = stream.text[stream.dst[At(k)] + proc.off + i]
         /\ LiteralPos + n < proc.wrpos => FromRing(LiteralPos, n) = FromBase(LiteralPos, n)
<1>1. /\ At(k) \in 1 .. N /\ Sym = stream.syms[At(k)] /\ Entry = At(k)
      /\ Entry # Garbage
  BY Standing
<1>2. N \in Nat /\ proc.off \in Nat
  BY Here, Types
<1>3. At(k) \in 1 .. N + 1
  BY <1>1, <1>2
<1>4. /\ stream.dst[At(k)] \in Nat /\ stream.start[At(k)] \in Nat
      /\ Sym.tag \in Nat /\ Sym.len \in Nat
  <2>1. Sym.tag \in 1 .. MaxTag /\ MaxTag \in Nat
    BY <1>1, Here, Sizes
  <2>2. Sym.tag \in Nat
    BY <2>1
  <2>3. QED
    BY <1>1, <1>3, <2>2, Here
<1>5. LiteralPos = stream.start[At(k)] + Sym.tag + proc.off
  BY <1>1 DEF LiteralPos
<1>6. LiteralPos \in Nat /\ LiteralPos >= stream.start[At(k)]
  BY <1>2, <1>4, <1>5
<1>7. ASSUME NEW i, i \in 1 .. n
      PROVE  /\ LiteralPos + i - 1 \in Nat
             /\ LiteralPos + i - 1 = stream.text[stream.dst[At(k)] + proc.off + i]
  <2>1. PICK j : j = proc.off + i
    OBVIOUS
  <2>2. j \in 1 .. Sym.len
    BY <1>2, <1>4, <1>7, <2>1
  <2>3. stream.text[stream.dst[At(k)] + j] = stream.start[At(k)] + Sym.tag + j - 1
    BY <1>1, <2>2, LiteralText
  <2>4. stream.dst[At(k)] + proc.off + i = stream.dst[At(k)] + j
    BY <1>2, <1>4, <1>7, <2>1
  <2>5. LiteralPos + i - 1 = stream.start[At(k)] + Sym.tag + j - 1
    BY <1>2, <1>4, <1>5, <1>7, <2>1
  <2>6. LiteralPos + i - 1 \in Nat
    BY <1>6, <1>7
  <2>7. QED
    BY <2>3, <2>4, <2>5, <2>6
<1>8. FromBase(LiteralPos, n) = [i \in 1 .. n |-> LiteralPos + i - 1]
  BY DEF FromBase
<1>9. ASSUME LiteralPos + n < proc.wrpos
      PROVE  FromRing(LiteralPos, n) = FromBase(LiteralPos, n)
  <2>1. proc.wrpos <= pf.pos /\ proc.wrpos \in Int /\ pf.pos \in Int
    <3>1. proc.wrpos <= prefetch_wrpos /\ prefetch_wrpos <= pf.pos
      BY DEF ProcInv, RingInv
    <3>2. proc.wrpos \in 0 .. End /\ prefetch_wrpos \in 0 .. End /\ pf.pos \in 0 .. End
      BY Types, Zenon
    <3>3. QED
      BY <3>1, <3>2
  <2>2. ASSUME NEW i \in 1 .. n
        PROVE  buf[(LiteralPos + i - 1) % PrefetchSize] = LiteralPos + i - 1
    <3>1. PICK p : p = LiteralPos + i - 1
      OBVIOUS
    <3>2. p \in Nat /\ p >= stream.start[At(k)] /\ p < pf.pos
      BY <1>4, <1>6, <1>9, <2>1, <3>1
    <3>3. InRing(p)
      BY <3>2, Window
    <3>4. QED
      BY <3>1, <3>3 DEF InRing
  <2>3. QED
    BY <2>2 DEF FromRing, FromBase
<1>10. QED
  BY <1>7, <1>8, <1>9, Zenon

\* The steps that write output keep the invariant.
LEMMA WriteStep ==
  ASSUME TypeOK, HeadersRead, DecInv, RingInv, NEW k \in 0 .. BatchCount,
         QueueInv(k), ProcInv(k), PrSmall \/ PrCopy \/ PrLiteral
  PROVE  HeadersRead' /\ DecInv' /\ RingInv' /\ QueueInv(k)' /\ ProcInv(k)'
<1>1. /\ proc.pc \in {"combine", "emit"} /\ proc.done < proc.len
      /\ UNCHANGED <<stream, queue, pf, dec>>
  BY DEF PrSmall, PrCopy, PrLiteral
<1>2. Busy /\ proc.pc # "free"
  BY <1>1 DEF Busy
<1>3. At(k) \in 1 .. N /\ Sym = stream.syms[At(k)]
  BY <1>1, <1>2, Standing
<1>4. /\ Sym.len \in Nat \ {0} /\ proc.off \in Nat /\ LiteralUnit \in Nat \ {0}
      /\ proc.done \in Nat /\ proc.len \in 0 .. BatchSize /\ BatchSize \in Nat
  <2>1. proc.done \in 0 .. BatchSize /\ BatchSize \in Nat
    BY Types, Sizes
  <2>2. proc.done \in Nat
    BY <2>1
  <2>3. QED
    BY <1>3, <2>1, <2>2, Here, Types, Sizes
<1>5. proc \in [pc : {"take", "combine", "emit", "free", "done"}, slot : Slots,
                len : 0 .. BatchSize, done : 0 .. BatchSize, off : Nat,
                wrpos : 0 .. End]
  BY DEF TypeOK
<1>6. proc.done + 1 \in 0 .. BatchSize
  BY <1>1, <1>4
<1>7. ASSUME proc' = [proc EXCEPT !.done = proc.done + 1], proc.off = 0
      PROVE  /\ proc'.pc = proc.pc /\ proc'.slot = proc.slot
             /\ proc'.len = proc.len /\ proc'.wrpos = proc.wrpos
             /\ proc'.off = 0 /\ proc'.done = proc.done + 1
             /\ proc' \in [pc : {"take", "combine", "emit", "free", "done"},
                           slot : Slots, len : 0 .. BatchSize,
                           done : 0 .. BatchSize, off : Nat, wrpos : 0 .. End]
  BY <1>5, <1>6, <1>7
<1>8. ASSUME NEW w, out' = out \o w, w \in [1 .. Sym.len -> Nat],
             \A i \in 1 .. Sym.len :
               w[i] = stream.text[stream.dst[At(k)] + proc.off + i],
             proc' = [proc EXCEPT !.done = proc.done + 1], proc.off = 0
      PROVE  HeadersRead' /\ DecInv' /\ RingInv' /\ QueueInv(k)' /\ ProcInv(k)'
  <2>1. PICK n : n = Sym.len
    OBVIOUS
  <2>2. n \in Nat /\ proc.off + n <= Sym.len /\ ~(proc.off + n < Sym.len)
    BY <1>4, <1>8, <2>1
  <2>3. Writes(k, n, w)
    BY <1>8, <2>1 DEF Writes
  <2>4. Moves(n)
    BY <1>7, <1>8, <2>2 DEF Moves
  <2>5. QED
    BY <1>1, <1>2, <2>2, <2>3, <2>4, EmitStep
<1>9. CASE PrSmall /\ IsLiteral(Sym)
  <2>1. /\ proc.off = 0 /\ proc' = [proc EXCEPT !.done = proc.done + 1]
        /\ out' = out \o FromBase(LiteralPos, Sym.len)
    BY <1>9 DEF PrSmall
  <2>2. PICK n : n = Sym.len
    OBVIOUS
  <2>3. n \in Nat /\ proc.off + n <= Sym.len
    BY <1>4, <2>1, <2>2
  <2>4. /\ FromBase(LiteralPos, n) \in [1 .. n -> Nat]
        /\ \A i \in 1 .. n :
             FromBase(LiteralPos, n)[i] = stream.text[stream.dst[At(k)] + proc.off + i]
    BY <1>1, <1>2, <1>9, <2>3, PieceText
  <2>5. QED
    BY <1>8, <2>1, <2>2, <2>4
<1>10. CASE (PrSmall \/ PrCopy) /\ ~IsLiteral(Sym)
  <2>1. /\ proc' = [proc EXCEPT !.done = proc.done + 1]
        /\ out' = out \o FromOutput(Sym)
    BY <1>10 DEF PrSmall, PrCopy
  <2>2. proc.off = 0
    <3>1. proc.off > 0 => IsLiteral(Sym)
      BY <1>3 DEF ProcInv
    <3>2. QED
      BY <1>4, <1>10, <3>1
  <2>3. /\ FromOutput(Sym) \in [1 .. Sym.len -> Nat]
        /\ \A i \in 1 .. Sym.len :
             FromOutput(Sym)[i] = stream.text[stream.dst[At(k)] + proc.off + i]
    BY <1>1, <1>2, <1>10, <2>2, CopyText
  <2>4. QED
    BY <1>8, <2>1, <2>2, <2>3
<1>11. CASE PrLiteral
  <2>1. PICK n : n = Least(LiteralUnit, Sym.len - proc.off)
    OBVIOUS
  <2>2. /\ proc.pc = "emit" /\ IsLiteral(Sym)
        /\ out' = out \o (IF LiteralPos + n < proc.wrpos
                          THEN FromRing(LiteralPos, n) ELSE FromBase(LiteralPos, n))
        /\ proc' = IF proc.off + n < Sym.len
                   THEN [proc EXCEPT !.off = proc.off + n]
                   ELSE [proc EXCEPT !.off = 0, !.done = proc.done + 1]
    BY <1>11, <2>1 DEF PrLiteral
  <2>3. proc.off < Sym.len
    BY <1>3, <1>4 DEF ProcInv
  <2>4. n \in Nat /\ proc.off + n <= Sym.len
    BY <1>4, <2>1, <2>3 DEF Least
  <2>5. /\ FromBase(LiteralPos, n) \in [1 .. n -> Nat]
        /\ \A i \in 1 .. n :
             FromBase(LiteralPos, n)[i] = stream.text[stream.dst[At(k)] + proc.off + i]
        /\ LiteralPos + n < proc.wrpos => FromRing(LiteralPos, n) = FromBase(LiteralPos, n)
    BY <1>1, <1>2, <2>2, <2>4, PieceText
  <2>6. PICK w : w = FromBase(LiteralPos, n)
    OBVIOUS
  <2>7. /\ w \in [1 .. n -> Nat] /\ out' = out \o w
        /\ \A i \in 1 .. n : w[i] = stream.text[stream.dst[At(k)] + proc.off + i]
    BY <2>2, <2>5, <2>6, Zenon
  <2>8. /\ proc'.pc = proc.pc /\ proc'.slot = proc.slot
        /\ proc'.len = proc.len /\ proc'.wrpos = proc.wrpos
        /\ proc' \in [pc : {"take", "combine", "emit", "free", "done"},
                      slot : Slots, len : 0 .. BatchSize,
                      done : 0 .. BatchSize, off : Nat, wrpos : 0 .. End]
        /\ IF proc.off + n < Sym.len
           THEN proc'.off = proc.off + n /\ proc'.done = proc.done
           ELSE proc'.off = 0 /\ proc'.done = proc.done + 1
    <3>1. proc.off + n \in Nat /\ 0 \in Nat
      BY <1>4, <2>4
    <3>2. CASE proc.off + n < Sym.len
      <4>1. proc' = [proc EXCEPT !.off = proc.off + n]
        BY <2>2, <3>2
      <4>2. QED
        BY ONLY <1>5, <3>1, <3>2, <4>1
    <3>3. CASE ~(proc.off + n < Sym.len)
      <4>1. proc' = [proc EXCEPT !.off = 0, !.done = proc.done + 1]
        BY <2>2, <3>3
      <4>2. QED
        BY ONLY <1>5, <1>6, <3>1, <3>3, <4>1
    <3>4. QED
      BY <3>2, <3>3
  <2>9. IF proc.off + n < Sym.len
        THEN /\ proc'.off = proc.off + n /\ proc'.done = proc.done
             /\ proc.pc = "emit" /\ IsLiteral(Sym)
        ELSE proc'.off = 0 /\ proc'.done = proc.done + 1
    BY ONLY <2>2, <2>8
  <2>10. Writes(k, n, w)
    BY <2>7 DEF Writes
  <2>11. Moves(n)
    BY <2>8, <2>9 DEF Moves
  <2>12. QED
    BY <1>1, <1>2, <2>4, <2>10, <2>11, EmitStep
<1>12. QED
  BY <1>9, <1>10, <1>11 DEF PrCopy

\* What is released lies behind the batch that was processed, also if the
\* decoder has not stored its position yet: then the batch is the only one in
\* flight, and the word is what an earlier batch left, or one of the words
\* that mislead the processor if they are ahead of the decoder.
LEMMA Released ==
  ASSUME TypeOK, Base, HeadersRead, DecInv, NEW k \in 0 .. BatchCount, QueueInv(k),
         k > 0, proc.slot \in unset => batch_prefetch_rdpos[proc.slot] <= Cur
  PROVE  batch_prefetch_rdpos[proc.slot] <= stream.start[First(k, 1)]
<1>1. /\ BatchCount \in Nat \ {0} /\ proc.slot \in Slots /\ dec.slot \in Slots
      /\ k \in 1 .. BatchCount
  BY Types, Sizes
<1>2. SlotOf(0) = proc.slot /\ SlotOf(BatchCount) = proc.slot
  BY FirstSlot
<1>3. CASE ~Unstored(proc.slot)
  <2>1. 0 \in 0 .. k - 1 /\ 0 + 1 = 1
    BY <1>1
  <2>2. batch_prefetch_rdpos[SlotOf(0)] = stream.start[First(k, 0 + 1)]
    BY <1>2, <1>3, <2>1 DEF QueueInv
  <2>4. batch_prefetch_rdpos[proc.slot] \in Nat
    BY <1>1, Words
  <2>5. batch_prefetch_rdpos[proc.slot] = stream.start[First(k, 1)]
    BY <1>2, <2>1, <2>2
  <2>6. QED
    BY <2>4, <2>5
<1>4. CASE Unstored(proc.slot)
  <2>1. dec.pc = "rdpos" /\ dec.slot = proc.slot
    BY <1>4 DEF Unstored
  <2>2. SlotOf(k) = SlotOf(1)
    BY <2>1 DEF QueueInv, SlotOf
  <2>3. k = 1
    <3>1. SUFFICES ASSUME k # 1 PROVE FALSE
      OBVIOUS
    <3>2. 1 \in 0 .. BatchCount - 1 /\ 0 \in 0 .. BatchCount - 1
      BY <1>1, <3>1
    <3>3. CASE k = BatchCount
      <4>1. SlotOf(0) = SlotOf(1)
        BY <1>2, <2>2, <3>3
      <4>2. QED
        BY <3>2, <4>1, SlotsApart
    <3>4. CASE k # BatchCount
      <4>1. k \in 0 .. BatchCount - 1
        BY <1>1, <3>4
      <4>2. QED
        BY <2>2, <3>1, <3>2, <4>1, SlotsApart
    <3>5. QED
      BY <3>3, <3>4
  <2>4. First(k, 1) = dec.sym
    BY <2>1, <2>3 DEF First, DecFirst, Writing
  <2>5. batch_prefetch_rdpos[proc.slot] <= Cur
    <3>1. CASE proc.slot \in unset
      BY <3>1
    <3>2. CASE proc.slot \notin unset
      BY <1>1, <3>2 DEF Base
    <3>3. QED
      BY <3>1, <3>2
  <2>6. QED
    BY <2>4, <2>5 DEF Cur
<1>5. QED
  BY <1>3, <1>4

\* Taking a batch, reading the write position and releasing the stream keep the
\* invariant, unless the processor is misled.
LEMMA HandStep ==
  ASSUME TypeOK, Base, HeadersRead, DecInv, RingInv, NEW k \in 0 .. BatchCount,
         QueueInv(k), ProcInv(k), PrTake \/ PrSnapshot \/ PrRelease, ~misled'
  PROVE  HeadersRead' /\ DecInv' /\ RingInv' /\ QueueInv(k)' /\ ProcInv(k)'
<1>1. /\ N \in Nat /\ BatchSize \in Nat /\ BatchCount \in Nat \ {0} /\ End \in Nat
      /\ proc.slot \in Slots /\ batch_len \in [Slots -> -1 .. BatchSize]
      /\ prefetch_wrpos \in 0 .. End /\ proc.off \in Nat /\ proc.done \in 0 .. BatchSize
      /\ proc.len \in 0 .. BatchSize
  BY Types, Here, Sizes
<1>2. proc \in ProcRecords
  BY DEF TypeOK, ProcRecords
<1>3. UNCHANGED <<stream, buf, prefetch_wrpos, prefetch_end, batch_len,
                  batch_prefetch_rdpos, batch, pf, dec, out>>
  BY DEF PrTake, PrSnapshot, PrRelease, queue
<1>4. HeadersRead' /\ DecInv' /\ RingInv'
  BY <1>3, DecFrame, RingFrame
<1>5. SlotOf(0) = proc.slot
  BY FirstSlot
<1>6. First(k, 0) \in Nat
  BY <1>1, Standing, Positions
<1>7. ASSUME proc'.slot = proc.slot
      PROVE  /\ QueueInv(k)'
             /\ First(k, 0)' = First(k, 0) /\ First(k, 1)' = First(k, 1)
  <2>1. QueueInv(k)' /\ \A j : First(k, j)' = First(k, j)
    BY <1>3, <1>7, QueueFrame
  <2>2. QED
    BY <2>1
<1>8. CASE PrTake
  <2>1. /\ proc.pc = "take" /\ batch_len[proc.slot] # 0
        /\ proc' = IF batch_len[proc.slot] < 0
                   THEN [proc EXCEPT !.pc = "done"]
                   ELSE [proc EXCEPT !.pc = "combine", !.len = batch_len[proc.slot],
                                     !.done = 0]
        /\ prefetch_rdpos' = prefetch_rdpos
    BY <1>8 DEF PrTake, queue
  <2>2. /\ proc.off = 0 /\ ~Busy /\ At(k) = First(k, 0) /\ GivenUp(k) = First(k, 0)
    <3>1. proc.off = 0
      BY <1>1, <2>1 DEF ProcInv
    <3>2. QED
      BY <1>6, <2>1, <3>1 DEF Busy, At, GivenUp
  <2>3. k > 0 => batch_len[proc.slot] > 0
    <3>1. ASSUME k > 0 PROVE 0 \in 0 .. k - 1
      BY <3>1
    <3>2. QED
      BY <1>5, <3>1 DEF QueueInv
  <2>4. k = 0 => batch_len[proc.slot] = IF dec.pc = "done" THEN -1 ELSE 0
    <3>1. ASSUME k = 0 PROVE k \in k .. BatchCount - 1
      BY <1>1, <3>1
    <3>2. QED
      BY <1>5, <3>1 DEF QueueInv
  <2>5. batch_len[proc.slot] \in -1 .. BatchSize
    BY <1>1
  <2>6. CASE batch_len[proc.slot] < 0
    <3>1. proc' = [proc EXCEPT !.pc = "done"]
      BY <2>1, <2>6
    <3>2. k = 0 /\ dec.pc = "done"
      BY <2>3, <2>4, <2>5, <2>6, <1>1
    <3>3. /\ proc'.pc = "done" /\ proc'.slot = proc.slot /\ proc'.off = proc.off
          /\ proc'.wrpos = proc.wrpos
      BY <1>2, <3>1 DEF ProcRecords
    <3>4. ~Busy' /\ At(k)' = At(k) /\ GivenUp(k)' = GivenUp(k)
      BY <1>6, <1>7, <2>2, <3>3 DEF Busy, At, GivenUp
    <3>5. ProcInv(k)'
      BY <1>3, <2>1, <2>2, <3>2, <3>3, <3>4 DEF ProcInv
    <3>6. QED
      BY <1>4, <1>7, <3>3, <3>5
  <2>7. CASE ~(batch_len[proc.slot] < 0)
    <3>1. proc' = [proc EXCEPT !.pc = "combine", !.len = batch_len[proc.slot],
                               !.done = 0]
      BY <2>1, <2>7
    <3>2. k > 0 /\ batch_len[proc.slot] \in 0 .. BatchSize /\ 0 \in 0 .. BatchSize
      BY <1>1, <2>1, <2>4, <2>5, <2>7
    <3>3. /\ proc'.pc = "combine" /\ proc'.slot = proc.slot /\ proc'.off = proc.off
          /\ proc'.wrpos = proc.wrpos /\ proc'.len = batch_len[proc.slot]
          /\ proc'.done = 0
      BY ONLY <1>2, <3>1, <3>2 DEF ProcRecords
    <3>4. Busy' /\ At(k)' = At(k) /\ GivenUp(k)' = GivenUp(k)
      BY <1>6, <1>7, <2>2, <3>3 DEF Busy, At, GivenUp
    <3>5. proc'.len = batch_len'[proc'.slot] /\ proc'.done <= proc'.len
      BY <1>3, <3>2, <3>3
    <3>6. ProcInv(k)'
      BY <1>3, <2>1, <2>2, <3>2, <3>3, <3>4, <3>5 DEF ProcInv
    <3>7. QED
      BY <1>4, <1>7, <3>3, <3>6
  <2>8. QED
    BY <2>6, <2>7
<1>9. CASE PrSnapshot
  <2>1. /\ proc.pc = "combine" /\ prefetch_rdpos' = prefetch_rdpos
        /\ proc' = [proc EXCEPT !.pc = "emit", !.wrpos = prefetch_wrpos]
    BY <1>9 DEF PrSnapshot, queue
  <2>2. /\ proc'.pc = "emit" /\ proc'.slot = proc.slot /\ proc'.off = proc.off
        /\ proc'.wrpos = prefetch_wrpos /\ proc'.len = proc.len
        /\ proc'.done = proc.done
    BY ONLY <1>1, <1>2, <2>1 DEF ProcRecords
  <2>3. Busy /\ Busy' /\ At(k)' = At(k) /\ GivenUp(k)' = GivenUp(k)
    BY <1>7, <2>1, <2>2 DEF Busy, At, GivenUp
  <2>4. proc'.wrpos <= prefetch_wrpos'
    BY <1>1, <1>3, <2>2
  <2>5. proc.off = 0
    BY <1>1, <2>1 DEF ProcInv
  <2>6. ProcInv(k)'
    BY <1>3, <2>1, <2>2, <2>3, <2>4, <2>5 DEF ProcInv
  <2>7. QED
    BY <1>4, <1>7, <2>2, <2>6
<1>10. CASE PrRelease
  <2>1. /\ proc.pc = "emit" /\ proc.done = proc.len
        /\ prefetch_rdpos' = batch_prefetch_rdpos[proc.slot]
        /\ proc' = [proc EXCEPT !.pc = "free"]
    BY <1>10 DEF PrRelease
  <2>2. proc.slot \in unset => batch_prefetch_rdpos[proc.slot] <= Cur
    <3>1. ~(proc.slot \in unset /\ batch_prefetch_rdpos[proc.slot] > Cur)
      BY <1>10 DEF PrRelease
    <3>2. batch_prefetch_rdpos[proc.slot] \in Int /\ Cur \in Int
      <4>1. batch_prefetch_rdpos[proc.slot] \in Nat /\ dec.sym \in 1 .. N + 1
        BY <1>1, Words, Types
      <4>2. Cur \in 0 .. End
        BY <4>1, Here DEF Cur
      <4>3. QED
        BY <1>1, <4>1, <4>2
    <3>3. QED
      BY <3>1, <3>2
  <2>3. /\ proc'.pc = "free" /\ proc'.slot = proc.slot /\ proc'.off = proc.off
        /\ proc'.wrpos = proc.wrpos /\ proc'.len = proc.len
        /\ proc'.done = proc.done
    BY ONLY <1>2, <2>1 DEF ProcRecords
  <2>4. Busy /\ Busy' /\ k > 0
    BY <2>1, <2>3 DEF Busy, ProcInv
  <2>5. prefetch_rdpos' <= stream.start[First(k, 1)]
    BY <2>1, <2>2, <2>4, Released
  <2>6. /\ First(k, 0) \in 1 .. N + 1 /\ First(k, 1) \in 1 .. N + 1
        /\ First(k, 0) <= First(k, 1)
    <3>1. 0 \in 0 .. k /\ 1 \in 0 .. k
      BY <1>1, <2>4
    <3>2. /\ First(k, 0) \in 1 .. DecFirst /\ First(k, 1) \in 1 .. DecFirst
          /\ DecFirst \in 1 .. dec.sym /\ dec.sym \in 1 .. N + 1
      BY <3>1, Positions
    <3>3. First(k, 1) = First(k, 0) + proc.len
      BY <2>4, Standing
    <3>4. QED
      BY <1>1, <3>2, <3>3
  <2>7. /\ stream.start[First(k, 1)] \in 0 .. End
        /\ stream.start[First(k, 0)] \in 0 .. End
        /\ stream.start[First(k, 0)] <= stream.start[First(k, 1)]
    BY <2>6, Here
  <2>8. /\ pf.pos - PrefetchSize <= stream.start[First(k, 1)]
        /\ pf.pc = "load" =>
             pf.pos + pf.blen - PrefetchSize <= stream.start[First(k, 1)]
    <3>1. /\ pf.pos - PrefetchSize <= stream.start[First(k, 0)]
          /\ pf.pc = "load" =>
               pf.pos + pf.blen - PrefetchSize <= stream.start[First(k, 0)]
      BY <2>1 DEF ProcInv, GivenUp
    <3>2. pf.pos \in Int /\ pf.blen \in Int /\ PrefetchSize \in Int
      BY <1>1, Types, Sizes
    <3>3. QED
      BY <1>1, <2>7, <3>1, <3>2
  <2>9. At(k)' = At(k) /\ GivenUp(k)' = First(k, 1)
    BY <1>7, <2>3, <2>4 DEF At, GivenUp
  <2>10. proc.off = 0
    BY <1>1, <2>1 DEF ProcInv
  <2>11. /\ prefetch_rdpos' <= stream'.start[GivenUp(k)']
         /\ pf'.pos - PrefetchSize <= stream'.start[GivenUp(k)']
         /\ pf'.pc = "load" =>
              pf'.pos + pf'.blen - PrefetchSize <= stream'.start[GivenUp(k)']
    BY <1>3, <2>5, <2>8, <2>9
  <2>12. ProcInv(k)'
    BY <1>3, <2>1, <2>3, <2>4, <2>9, <2>10, <2>11 DEF ProcInv
  <2>13. QED
    BY <1>4, <1>7, <2>3, <2>12
<1>11. QED
  BY <1>8, <1>9, <1>10


\* A freed slot is the last of the queue, and the batches in flight are one
\* fewer.
LEMMA FreeStep ==
  ASSUME TypeOK, HeadersRead, DecInv, RingInv, NEW k \in 0 .. BatchCount,
         QueueInv(k), ProcInv(k), PrFree
  PROVE  /\ HeadersRead' /\ DecInv' /\ RingInv'
         /\ k - 1 \in 0 .. BatchCount /\ QueueInv(k - 1)' /\ ProcInv(k - 1)'
<1>1. /\ N \in Nat /\ BatchSize \in Nat /\ BatchCount \in Nat \ {0}
      /\ proc.slot \in Slots /\ batch_len \in [Slots -> -1 .. BatchSize]
      /\ proc.off \in Nat
  BY Types, Here, Sizes
<1>2. /\ proc.pc = "free" /\ batch_len' = [batch_len EXCEPT ![proc.slot] = 0]
      /\ proc' = [proc EXCEPT !.pc = "take", !.slot = (proc.slot + 1) % BatchCount]
      /\ UNCHANGED <<stream, buf, prefetch_wrpos, prefetch_rdpos, prefetch_end,
                     batch_prefetch_rdpos, batch, pf, dec, out>>
  BY DEF PrFree
<1>3. Busy /\ proc.done = proc.len
  BY <1>2 DEF Busy, ProcInv
<1>4. k > 0 /\ First(k, 1) = First(k, 0) + proc.len
  BY <1>3, Standing
<1>5. PICK m : m = k - 1
  OBVIOUS
<1>6. m \in 0 .. BatchCount - 1 /\ m + 1 = k /\ m \in Nat
  BY <1>1, <1>4, <1>5
<1>7. PICK b : b = Ahead(proc.slot, 1)
  OBVIOUS
<1>8. b \in Slots /\ b = (proc.slot + 1) % BatchCount
  <2>1. 1 \in 0 .. BatchCount
    BY <1>1
  <2>2. QED
    BY <1>1, <1>7, <2>1, AheadIs DEF Ahead
<1>9. /\ proc'.pc = "take" /\ proc'.slot = b /\ proc'.off = proc.off
      /\ proc'.wrpos = proc.wrpos /\ proc'.len = proc.len /\ proc'.done = proc.done
      /\ proc' \in [pc : {"take", "combine", "emit", "free", "done"}, slot : Slots,
                    len : 0 .. BatchSize, done : 0 .. BatchSize, off : Nat,
                    wrpos : 0 .. End]
  <2>1. proc \in [pc : {"take", "combine", "emit", "free", "done"}, slot : Slots,
                  len : 0 .. BatchSize, done : 0 .. BatchSize, off : Nat,
                  wrpos : 0 .. End]
    BY DEF TypeOK
  <2>2. proc' = [proc EXCEPT !.pc = "take", !.slot = b]
    BY <1>2, <1>8
  <2>3. QED
    BY ONLY <1>8, <2>1, <2>2
<1>12. ASSUME NEW j, j \in 0 .. BatchCount - 1
       PROVE  /\ SlotOf(j)' = SlotOf(j + 1) /\ SlotOf(j + 1) \in Slots
              /\ j + 1 # BatchCount => SlotOf(j + 1) # proc.slot
  <2>1. Ahead(b, j) = Ahead(proc.slot, j + 1)
    BY <1>1, <1>7, <1>12, Onward
  <2>2. SlotOf(j)' = SlotOf(j + 1)
    BY <1>9, <2>1 DEF SlotOf, Ahead
  <2>3. PICK h : h = j + 1
    OBVIOUS
  <2>4. h \in 0 .. BatchCount
    BY <1>1, <1>12, <2>3
  <2>5. SlotOf(h) \in Slots
    BY <1>1, <2>4, AheadIs DEF SlotOf
  <2>6. ASSUME h # BatchCount PROVE SlotOf(h) # proc.slot
    <3>1. h \in 0 .. BatchCount - 1 /\ 0 \in 0 .. BatchCount - 1 /\ h # 0
      BY <1>1, <1>12, <2>3, <2>4, <2>6
    <3>2. SlotOf(h) # SlotOf(0)
      BY <3>1, SlotsApart
    <3>3. QED
      BY <3>2, FirstSlot
  <2>7. QED
    BY <2>2, <2>3, <2>5, <2>6
<1>13. DecFirst' = DecFirst
  BY <1>2 DEF DecFirst, Writing
<1>14. ASSUME NEW j, j \in 0 .. m PROVE First(m, j)' = First(k, j + 1)
  <2>1. j \in 0 .. BatchCount - 1 /\ (j = m <=> j + 1 = k)
    BY <1>1, <1>6, <1>14
  <2>2. SlotOf(j)' = SlotOf(j + 1)
    BY <1>12, <2>1
  <2>3. QED
    BY <1>2, <1>13, <2>1, <2>2 DEF First
<1>15. ASSUME NEW j, j \in 0 .. BatchCount - 1
       PROVE  batch_len'[SlotOf(j)'] = IF j + 1 = BatchCount THEN 0
                                       ELSE batch_len[SlotOf(j + 1)]
  <2>1. SlotOf(j)' = SlotOf(j + 1) /\ SlotOf(j + 1) \in Slots
    BY <1>12, <1>15
  <2>2. CASE j + 1 = BatchCount
    <3>1. SlotOf(j + 1) = proc.slot
      BY <2>2, FirstSlot
    <3>2. QED
      BY <1>1, <1>2, <2>1, <2>2, <3>1
  <2>3. CASE j + 1 # BatchCount
    <3>1. SlotOf(j + 1) # proc.slot
      BY <1>12, <1>15, <2>3
    <3>2. QED
      BY <1>1, <1>2, <2>1, <2>3, <3>1
  <2>4. QED
    BY <2>2, <2>3
<1>16. ASSUME NEW j \in 0 .. m - 1
       PROVE  /\ batch_len'[SlotOf(j)'] > 0
              /\ \A i \in 1 .. batch_len'[SlotOf(j)'] :
                   batch'[SlotOf(j)'][i] = First(m, j)' + i - 1
              /\ First(m, j + 1)' = First(m, j)' + batch_len'[SlotOf(j)']
              /\ ~Unstored(SlotOf(j))' =>
                   batch_prefetch_rdpos'[SlotOf(j)'] = stream'.start[First(m, j + 1)']
  <2>1. PICK h : h = j + 1
    OBVIOUS
  <2>2. /\ j \in 0 .. BatchCount - 1 /\ j \in 0 .. m /\ h \in 0 .. m
        /\ h \in 0 .. k - 1 /\ h # BatchCount
    BY <1>1, <1>6, <2>1
  <2>3. /\ batch_len[SlotOf(h)] > 0
        /\ \A i \in 1 .. batch_len[SlotOf(h)] : batch[SlotOf(h)][i] = First(k, h) + i - 1
        /\ First(k, h + 1) = First(k, h) + batch_len[SlotOf(h)]
        /\ ~Unstored(SlotOf(h)) =>
             batch_prefetch_rdpos[SlotOf(h)] = stream.start[First(k, h + 1)]
    BY <2>2 DEF QueueInv
  <2>4. SlotOf(j)' = SlotOf(h) /\ batch_len'[SlotOf(j)'] = batch_len[SlotOf(h)]
    BY <1>12, <1>15, <2>1, <2>2
  <2>5. First(m, j)' = First(k, h) /\ First(m, h)' = First(k, h + 1)
    BY <1>14, <2>1, <2>2
  <2>6. First(m, j + 1)' = First(m, h)'
    BY <2>1
  <2>7. ~Unstored(SlotOf(j))' => ~Unstored(SlotOf(h))
    BY <1>2, <2>4 DEF Unstored
  <2>8. QED
    BY <1>2, <2>3, <2>4, <2>5, <2>6, <2>7
<1>17. ASSUME NEW j \in m .. BatchCount - 1
       PROVE  batch_len'[SlotOf(j)'] = IF j = m /\ dec'.pc = "done" THEN -1 ELSE 0
  <2>1. PICK h : h = j + 1
    OBVIOUS
  <2>2. j \in 0 .. BatchCount - 1 /\ (j = m <=> h = k)
    BY <1>1, <1>6, <2>1
  <2>3. CASE h = BatchCount
    <3>1. batch_len'[SlotOf(j)'] = 0
      BY <1>15, <2>1, <2>2, <2>3
    <3>2. ~(j = m /\ dec'.pc = "done")
      <4>1. k = BatchCount => dec.pc \in {"rdpos", "room"}
        BY <1>1 DEF QueueInv
      <4>2. QED
        BY <1>2, <2>2, <2>3, <4>1
    <3>3. QED
      BY <3>1, <3>2
  <2>4. CASE h # BatchCount
    <3>1. h \in k .. BatchCount - 1
      BY <1>1, <1>6, <2>1, <2>4
    <3>2. batch_len[SlotOf(h)] = IF h = k /\ dec.pc = "done" THEN -1 ELSE 0
      BY <3>1 DEF QueueInv
    <3>3. batch_len'[SlotOf(j)'] = batch_len[SlotOf(h)]
      BY <1>15, <2>1, <2>2, <2>4
    <3>4. QED
      BY <1>2, <2>2, <3>2, <3>3
  <2>5. QED
    BY <2>3, <2>4
<1>18. QueueInv(m)'
  <2>1. SlotOf(m)' = SlotOf(k)
    BY <1>6, <1>12
  <2>2. SlotOf(k) = IF dec.pc = "rdpos" THEN Ahead(dec.slot, 1) ELSE dec.slot
    BY DEF QueueInv
  <2>3. m < BatchCount
    BY <1>1, <1>6
  <2>4. QED
    BY <1>2, <1>16, <1>17, <2>1, <2>2, <2>3 DEF QueueInv, Ahead
<1>19. ProcInv(m)'
  <2>1. First(m, 0)' = First(k, 1)
    <3>1. 0 \in 0 .. m /\ 0 + 1 = 1
      BY <1>6
    <3>2. QED
      BY <1>14, <3>1
  <2>2. First(k, 1) \in Int
    <3>1. 1 \in 0 .. k
      BY <1>1, <1>4
    <3>2. First(k, 1) \in 1 .. DecFirst
      BY <3>1, Positions
    <3>3. QED
      BY <3>2
  <2>3. ~Busy' /\ At(m)' = First(k, 1) /\ GivenUp(m)' = First(k, 1)
    BY <1>9, <2>1, <2>2 DEF Busy, At, GivenUp
  <2>4. At(k) = First(k, 1) /\ GivenUp(k) = First(k, 1)
    BY <1>2, <1>3, <1>4 DEF At, GivenUp
  <2>5. proc.off = 0
    BY <1>1, <1>2 DEF ProcInv
  <2>6. QED
    BY <1>2, <1>9, <2>3, <2>4, <2>5 DEF ProcInv
<1>20. HeadersRead' /\ DecInv' /\ RingInv'
  BY <1>2, DecFrame, RingFrame
<1>21. m \in 0 .. BatchCount
  BY <1>1, <1>6
<1>22. QED
  BY <1>5, <1>18, <1>19, <1>20, <1>21

-----------------------------------------------------------------------------
(* The theorems.                                                           *)

\* Every step but a release that misleads the processor keeps the invariant.
LEMMA StepInv ==
  ASSUME IInv, [Next]_vars, ~misled'
  PROVE  IInv'
<1>1. TypeOK /\ Base /\ HeadersRead /\ RingInv /\ DecInv
  BY DEF IInv, Base
<1>2. PICK k \in 0 .. BatchCount : QueueInv(k) /\ ProcInv(k)
  BY DEF IInv
<1>a. Base'
  BY <1>1, BaseStep
<1>3. SUFFICES \E m \in 0 .. BatchCount :
                 HeadersRead' /\ DecInv' /\ RingInv' /\ QueueInv(m)' /\ ProcInv(m)'
  BY <1>a DEF IInv
<1>4. CASE Prefetcher
  BY <1>1, <1>2, <1>4, PrefetcherStep
<1>5. CASE DecShort \/ DecMedium \/ DecSingle
  BY <1>1, <1>2, <1>5, StrategyStep
<1>6. CASE DecWait \/ DecSnapshot \/ DecRoom \/ (DecSubmit /\ dec.len = 0)
  BY <1>1, <1>2, <1>6, DecWaitStep
<1>7. CASE DecSubmit /\ dec.len # 0
  BY <1>1, <1>2, <1>7, SubmitStep
<1>8. CASE DecRdpos \/ DecStop
  BY <1>1, <1>2, <1>8, DecStoreStep
<1>9. CASE PrSmall \/ PrCopy \/ PrLiteral
  BY <1>1, <1>2, <1>9, WriteStep
<1>10. CASE PrTake \/ PrSnapshot \/ PrRelease
  BY <1>1, <1>2, <1>10, HandStep
<1>11. CASE PrFree
  BY <1>1, <1>2, <1>11, FreeStep
<1>12. CASE Joined \/ UNCHANGED vars
  <2>1. UNCHANGED <<stream, queue, pf, dec, proc, out>>
    BY <1>12 DEF Joined, vars
  <2>2. UNCHANGED <<stream, buf, prefetch_wrpos, prefetch_rdpos, prefetch_end,
                    batch_len, batch_prefetch_rdpos, batch, pf, dec, proc, out>>
    BY <2>1 DEF queue
  <2>3. prefetch_wrpos' \in Int /\ prefetch_wrpos' >= prefetch_wrpos
    <3>1. prefetch_wrpos \in 0 .. End
      BY <1>1, Types
    <3>2. QED
      BY <2>2, <3>1
  <2>4. /\ pf'.pos - PrefetchSize <= stream.start[GivenUp(k)]
        /\ pf'.pc = "load" =>
             pf'.pos + pf'.blen - PrefetchSize <= stream.start[GivenUp(k)]
    BY <1>2, <2>2 DEF ProcInv
  <2>5. HeadersRead' /\ DecInv' /\ QueueInv(k)' /\ ProcInv(k)'
    BY <1>1, <1>2, <2>2, <2>3, <2>4, PrefetchFrame
  <2>6. QED
    BY <1>1, <2>2, <2>5, RingFrame
<1>13. QED
  BY <1>4, <1>5, <1>6, <1>7, <1>8, <1>9, <1>10, <1>11, <1>12
     DEF Next, Decoder, Processor

\* Once misled, the processor stays so.
LEMMA StaysMisled ==
  ASSUME misled, [Next]_vars
  PROVE  misled'
BY DEF Next, Prefetcher, PfAlign, PfPublish, PfWait, PfLoad, Decoder, DecWait,
       DecShort, DecMedium, DecSnapshot, DecSingle, DecSubmit, DecRdpos, DecRoom,
       DecStop, Processor, PrTake, PrSmall, PrSnapshot, PrCopy, PrLiteral,
       PrRelease, PrFree, Joined, vars, history

\* In every state of the block, for every set of well formed streams, whatever
\* the shared words held before it and whichever release comes before the store
\* it should follow: the warps stay inside the stream and the queue, and the
\* queue, the ring and the output are in order unless some release took a word
\* ahead of the decoder that no batch stored.
THEOREM Inductive == Spec => []Inv
<1>1. Init => Inv
  BY InitInv DEF Inv, IInv
<1>2. ASSUME Inv, [Next]_vars PROVE Inv'
  <2>1. Base'
    BY <1>2, BaseStep DEF Inv
  <2>2. ASSUME ~misled' PROVE IInv'
    <3>1. ~misled
      BY <1>2, <2>2, StaysMisled
    <3>2. IInv
      BY <1>2, <3>1 DEF Inv
    <3>3. QED
      BY <1>2, <2>2, <3>2, StepInv
  <2>3. QED
    BY <2>1, <2>2 DEF Inv
<1>3. QED
  BY <1>1, <1>2, PTL DEF Spec

\* Every variable keeps its type: the three warps never leave the stream, the
\* ring or the queue, whatever was released.
THEOREM TypeCorrect == Spec => []TypeOK
<1>1. Inv => TypeOK
  BY DEF Inv, Base
<1>2. QED
  BY <1>1, Inductive, PTL

\* The decoder never takes a symbol header from bytes of the ring that are not
\* loaded yet or that are overwritten already, also if the processor released
\* the position of an earlier batch or an earlier stream, as long as none of
\* the latter was ahead of the decoder.
THEOREM HeadersLoaded == Spec => []DecoderReads
<1>1. Inv => DecoderReads
  BY DEF Inv, IInv, DecoderReads
<1>2. QED
  BY <1>1, Inductive, PTL

\* What the processor has written is at any time a beginning of the
\* decompressed data, and all of it when the block ends, whichever releases came
\* before their store, unless one of them misled it.
THEOREM OutputCorrect == Spec => []OutputRight
<1>1. ASSUME IInv PROVE OutputAlwaysRight
  <2>1. TypeOK /\ HeadersRead /\ RingInv /\ DecInv
    BY <1>1 DEF IInv, Base
  <2>2. PICK k \in 0 .. BatchCount : QueueInv(k) /\ ProcInv(k)
    BY <1>1 DEF IInv
  <2>3. /\ Len(out) = stream.dst[At(k)] + proc.off
        /\ \A i \in 1 .. Len(out) : out[i] = stream.text[i]
    BY <2>2 DEF ProcInv
  <2>4. /\ N \in Nat /\ N + 1 \in 1 .. N + 1 /\ proc.off \in Nat
        /\ stream.text \in Seq(Nat) /\ Len(stream.text) = stream.dst[N + 1]
        /\ stream.dst[N + 1] \in Nat
    <3>1. N \in Nat /\ N + 1 \in 1 .. N + 1
      BY <2>1, Here
    <3>2. QED
      BY <2>1, <3>1, Here, Types
  <2>5. At(k) \in 1 .. DecFirst /\ At(k) \in 1 .. N + 1
    BY <2>1, <2>2, Standing
  <2>6. stream.dst[At(k)] + ((N + 1) - At(k)) <= stream.dst[N + 1]
        /\ stream.dst[At(k)] \in Nat
    <3>1. At(k) <= N + 1
      BY <2>4, <2>5
    <3>2. QED
      BY <2>1, <2>4, <2>5, <3>1, Here
  <2>7. Len(out) <= Len(stream.text)
    <3>1. CASE proc.off = 0
      BY <2>3, <2>4, <2>5, <2>6, <3>1
    <3>2. CASE proc.off > 0
      <4>1. /\ proc.pc = "emit" /\ proc.done < proc.len
            /\ proc.off < stream.syms[At(k)].len
        BY <2>2, <3>2 DEF ProcInv
      <4>2. At(k) \in 1 .. N
        BY <2>1, <2>2, <4>1, Standing DEF Busy
      <4>3. PICK i : i = At(k) + 1
        OBVIOUS
      <4>4. i \in 1 .. N + 1 /\ i <= N + 1
        BY <2>4, <4>2, <4>3
      <4>5. /\ stream.dst[i] = stream.dst[At(k)] + stream.syms[At(k)].len
            /\ stream.syms[At(k)].len \in Nat
        BY <2>1, <4>2, <4>3, Here
      <4>6. stream.dst[i] + ((N + 1) - i) <= stream.dst[N + 1]
        BY <2>1, <2>4, <4>4, Here
      <4>7. QED
        BY <2>3, <2>4, <2>6, <4>1, <4>4, <4>5, <4>6
    <3>3. QED
      BY <2>4, <3>1, <3>2
  <2>8. ASSUME AllDone PROVE Len(out) = Len(stream.text)
    <3>1. k = 0 /\ ~Busy /\ dec.sym = N + 1 /\ ~Writing /\ proc.off = 0
      BY <2>1, <2>2, <2>4, <2>8 DEF AllDone, ProcInv, DecInv, Busy, Writing
    <3>2. At(k) = N + 1
      BY <2>4, <3>1 DEF At, First, DecFirst
    <3>3. QED
      BY <2>3, <2>4, <3>1, <3>2
  <2>9. QED
    BY <2>3, <2>7, <2>8 DEF OutputAlwaysRight
<1>2. Inv => OutputRight
  BY <1>1 DEF Inv, OutputRight
<1>3. QED
  BY <1>2, Inductive, PTL

\* The prefetcher never overwrites what was published and is not consumed: the
\* bytes of the symbols that are not in the output yet are still in the ring,
\* also behind a release of an older position.
THEOREM WindowKept == Spec => []WindowIntact
<1>1. ASSUME IInv PROVE WindowIntact
  <2>1. TypeOK /\ HeadersRead /\ RingInv /\ DecInv
    BY <1>1 DEF IInv, Base
  <2>2. PICK k \in 0 .. BatchCount : QueueInv(k) /\ ProcInv(k)
    BY <1>1 DEF IInv
  <2>3. SUFFICES ASSUME NEW i \in 1 .. N, Len(out) < stream.dst[i + 1],
                        NEW p \in stream.start[i] ..
                                    Least(stream.start[i + 1], prefetch_wrpos) - 1
                 PROVE  InRing(p)
    BY DEF WindowIntact
  <2>4. N \in Nat /\ proc.off \in Nat
    BY <2>1, Here, Types
  <2>5. At(k) \in 1 .. N + 1
    BY <2>1, <2>2, Standing
  <2>6. i \in 1 .. N + 1 /\ i + 1 \in 1 .. N + 1
    BY <2>4
  <2>7. Len(out) = stream.dst[At(k)] + proc.off /\ stream.dst[At(k)] \in Nat
        /\ stream.dst[i + 1] \in Nat
    BY <2>1, <2>2, <2>5, <2>6, Here DEF ProcInv
  <2>8. At(k) <= i
    <3>1. SUFFICES ASSUME i + 1 <= At(k) PROVE FALSE
      BY <2>4, <2>5
    <3>2. PICK h : h = i + 1
      OBVIOUS
    <3>3. h \in 1 .. N + 1 /\ h <= At(k) /\ stream.dst[h] \in Nat
      BY <2>6, <2>7, <3>1, <3>2
    <3>4. stream.dst[h] + (At(k) - h) <= stream.dst[At(k)]
      BY <2>1, <2>5, <3>3, Here
    <3>5. Len(out) < stream.dst[h]
      BY <2>3, <3>2
    <3>6. /\ At(k) \in Int /\ h \in Int /\ At(k) - h >= 0
          /\ stream.dst[At(k)] <= Len(out)
      <4>1. \A a, n \in Int : a \in 1 .. n => a \in Int
        OBVIOUS
      <4>2. N + 1 \in Int
        BY ONLY <2>4
      <4>3. At(k) \in Int /\ h \in Int
        BY ONLY <2>5, <3>3, <4>1, <4>2
      <4>4. At(k) - h >= 0
        BY ONLY <3>3, <4>3
      <4>5. stream.dst[At(k)] <= stream.dst[At(k)] + proc.off
        BY ONLY <2>4, <2>7
      <4>6. QED
        BY ONLY <2>7, <4>3, <4>4, <4>5
    <3>7. \A a, b, c, e \in Int :
            e >= 0 /\ a + e <= b /\ b <= c => ~(c < a)
      OBVIOUS
    <3>8. At(k) - h \in Int /\ stream.dst[h] \in Int /\ stream.dst[At(k)] \in Int
            /\ Len(out) \in Int
      BY ONLY <2>4, <2>7, <3>3, <3>6
    <3>9. QED
      BY ONLY <3>4, <3>5, <3>6, <3>7, <3>8
  <2>9. /\ stream.start[At(k)] <= stream.start[i]
        /\ stream.start[At(k)] \in Nat /\ stream.start[i] \in Nat
        /\ stream.start[i + 1] \in Nat
    BY <2>1, <2>5, <2>6, <2>8, Here
  <2>10. prefetch_wrpos <= pf.pos /\ prefetch_wrpos \in Int /\ pf.pos \in Int
    <3>1. prefetch_wrpos \in 0 .. End /\ pf.pos \in 0 .. End
      BY <2>1, Types
    <3>2. QED
      BY <2>1, <3>1 DEF RingInv
  <2>11. p \in Nat /\ p >= stream.start[At(k)] /\ p < pf.pos
    BY <2>9, <2>10 DEF Least
  <2>12. QED
    BY <2>1, <2>2, <2>11, Window
<1>2. Inv => WindowIntact
  <2>1. CASE misled
    BY <2>1 DEF WindowIntact
  <2>2. CASE ~misled
    BY <1>1, <2>2 DEF Inv
  <2>3. QED
    BY <2>1, <2>2
<1>3. QED
  BY <1>2, Inductive, PTL

\* A submitted batch is touched by nobody until the processor frees its slot,
\* misled or not: the slot that the decoder writes is empty.
THEOREM BatchesKept == Spec => BatchStays
<1>1. ASSUME Inv, [Next]_vars
      PROVE  [\A b \in Slots : batch_len[b] > 0 =>
                /\ batch'[b] = batch[b]
                /\ batch_len'[b] # batch_len[b] => proc.pc = "free" /\ proc.slot = b]_vars
  <2>1. SUFFICES ASSUME NEW b \in Slots, batch_len[b] > 0
                 PROVE  /\ batch'[b] = batch[b]
                        /\ batch_len'[b] # batch_len[b] =>
                             proc.pc = "free" /\ proc.slot = b
    OBVIOUS
  <2>2. TypeOK /\ Base
    BY <1>1 DEF Inv, Base
  <2>3. /\ batch \in [Slots -> [1 .. BatchSize -> Nat]]
        /\ batch_len \in [Slots -> -1 .. BatchSize]
        /\ dec.slot \in Slots /\ proc.slot \in Slots
    BY <2>2, Types, Zenon
  <2>4. ASSUME Writing \/ dec.pc = "stop" PROVE b # dec.slot
    BY <2>1, <2>2, <2>4 DEF Base
  <2>5. CASE DecShort \/ DecMedium \/ DecSingle
    <3>1. batch_len' = batch_len /\ Writing
      BY <2>5 DEF DecShort, DecMedium, DecSingle, Writing
    <3>2. \E n, to : DecodeNext(n, to)
      BY <2>5 DEF DecShort, DecMedium, DecSingle
    <3>3. batch'[b] = batch[b]
      BY <2>3, <2>4, <3>1, <3>2 DEF DecodeNext
    <3>4. QED
      BY <3>1, <3>3
  <2>6. CASE DecSubmit \/ DecStop
    <3>1. /\ batch' = batch /\ (Writing \/ dec.pc = "stop")
          /\ \E n : batch_len' = [batch_len EXCEPT ![dec.slot] = n]
      BY <2>6 DEF DecSubmit, DecStop, Writing
    <3>2. QED
      BY <2>3, <2>4, <3>1
  <2>7. CASE PrFree
    <3>1. /\ batch' = batch /\ proc.pc = "free"
          /\ batch_len' = [batch_len EXCEPT ![proc.slot] = 0]
      BY <2>7 DEF PrFree
    <3>2. QED
      BY <2>3, <3>1
  <2>8. CASE DecWait \/ DecSnapshot \/ DecRoom \/ DecRdpos
    BY <2>8 DEF DecWait, DecSnapshot, DecRoom, DecRdpos, queue
  <2>9. CASE Prefetcher
    BY <2>9 DEF Prefetcher, PfAlign, PfPublish, PfWait, PfLoad, queue
  <2>10. CASE PrTake \/ PrSmall \/ PrSnapshot \/ PrCopy \/ PrLiteral \/ PrRelease
    BY <2>10 DEF PrTake, PrSmall, PrSnapshot, PrCopy, PrLiteral, PrRelease, queue
  <2>11. CASE Joined \/ UNCHANGED vars
    BY <2>11 DEF Joined, vars, queue
  <2>12. QED
    BY <1>1, <2>5, <2>6, <2>7, <2>8, <2>9, <2>10, <2>11
       DEF Next, Decoder, Processor
<1>2. QED
  BY <1>1, Inductive, PTL DEF Spec, BatchStays
=============================================================================
