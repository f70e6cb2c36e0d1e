-------------------------- MODULE LowLevelBatch_proofs --------------------------
(***************************************************************************)
(* The batched interface: for every batch, what its blocks write stays in  *)
(* its bounds (TempApart, OutputBound), the sizes and answers that a       *)
(* caller gets are there and right (SizesAgree, TypedChunksAnswered,       *)
(* RoundTrip), whatever the order of the blocks.  The first part is about  *)
(* the LZ4 kernels as functions: an invariant of the compression's turns,  *)
(* and that the decompression finds the chunk again in what they wrote.    *)
(***************************************************************************)
EXTENDS LowLevelBatch, FiniteSetTheorems, TLAPS

SFP == INSTANCE SnappyFormat_proofs

-----------------------------------------------------------------------------
(* Numbers.                                                                *)

\* Division with remainder.
LEMMA DivMod ==
  ASSUME NEW a \in Int, NEW n \in Nat \ {0}
  PROVE  a \div n \in Int /\ a % n \in 0 .. n - 1 /\ a = n * (a \div n) + (a % n)
OBVIOUS

\* There is one quotient and one remainder.
LEMMA DivModIs ==
  ASSUME NEW n \in Nat \ {0}, NEW q \in Int, NEW r \in 0 .. n - 1
  PROVE  (n * q + r) % n = r /\ (n * q + r) \div n = q
OBVIOUS

\* A quotient of natural numbers is one, and not larger.
LEMMA DivNat ==
  ASSUME NEW a \in Nat, NEW n \in Nat \ {0}
  PROVE  a \div n \in Nat /\ a \div n <= a
OBVIOUS

\* A product of natural numbers is one.
LEMMA Product ==
  ASSUME NEW a \in Nat, NEW b \in Nat
  PROVE  a * b \in Nat
OBVIOUS

\* A larger factor gives a larger product.
LEMMA ProductLess ==
  ASSUME NEW a \in Nat, NEW b \in Nat, NEW c \in Nat, a <= b
  PROVE  a * c <= b * c
OBVIOUS

\* Products and sums.
LEMMA Distribute ==
  ASSUME NEW a \in Int, NEW b \in Int, NEW c \in Int
  PROVE  (a + b) * c = a * c + b * c /\ a * c \in Int /\ b * c \in Int /\ a * c = c * a
OBVIOUS

\* A set of numbers has a least one.
LEMMA MinIs ==
  ASSUME NEW S, S \subseteq Nat, S # {}
  PROVE  Min(S) \in S /\ \A y \in S : Min(S) <= y
<1>1. \E x \in S : \A y \in S : x <= y
  BY SFP!LeastMember
<1>2. QED
  BY <1>1 DEF Min

\* The largest member of a set of numbers up to n.
LEMMA MaxIs ==
  ASSUME NEW n \in Nat, NEW S, S \subseteq 0 .. n, S # {}
  PROVE  Max(S) \in S /\ \A y \in S : Max(S) >= y
<1>. DEFINE T == {n - x : x \in S}
<1>1. T \subseteq Nat /\ T # {}
  <2>1. \A x \in S : n - x \in Nat
    OBVIOUS
  <2>2. PICK x \in S : TRUE
    OBVIOUS
  <2>3. n - x \in T
    BY <2>2
  <2>4. QED
    BY <2>1, <2>3
<1>2. PICK z \in T : \A y \in T : z <= y
  BY <1>1, SFP!LeastMember
<1>3. PICK x \in S : z = n - x
  BY <1>2
<1>4. \A y \in S : x >= y
  <2>1. TAKE y \in S
  <2>2. n - y \in T
    OBVIOUS
  <2>3. n - x <= n - y
    BY <1>2, <1>3, <2>2
  <2>4. x \in Nat /\ y \in Nat
    OBVIOUS
  <2>5. QED
    BY <2>3, <2>4
<1>5. QED
  BY <1>4 DEF Max

\* The least member that a search finds, below a default.
LEMMA LeastIs ==
  ASSUME NEW n \in Nat, NEW S, S \subseteq 0 .. n - 1
  PROVE  /\ Least(S, n) \in 0 .. n
         /\ Least(S, n) # n => Least(S, n) \in S
         /\ Least(S, n) = n => S = {}
         /\ \A y \in S : Least(S, n) <= y
<1>1. CASE S = {}
  BY <1>1 DEF Least
<1>2. CASE S # {}
  <2>1. S \subseteq Nat
    OBVIOUS
  <2>2. Min(S) \in S /\ \A y \in S : Min(S) <= y
    BY <1>2, <2>1, MinIs
  <2>3. PICK m : m = Least(S, n)
    OBVIOUS
  <2>4. m = Min(S)
    BY <1>2, <2>3 DEF Least
  <2>5. m \in S /\ \A y \in S : m <= y
    BY <2>2, <2>4
  <2>6. m \in 0 .. n - 1
    BY <2>5
  <2>7. m \in 0 .. n /\ m # n
    BY <2>6
  <2>8. QED
    BY <2>3, <2>5, <2>7, Zenon
<1>3. QED
  BY <1>1, <1>2

-----------------------------------------------------------------------------
(* LZ4: the units of the format.                                           *)

\* The parameters are numbers.
LEMMA Lz4Constants ==
  /\ Lanes \in Nat /\ 4 <= Lanes /\ Lanes <= 64
  /\ TokenMax \in Nat /\ 1 <= TokenMax /\ TokenMax <= 15
  /\ LsicMax \in Nat \ {0} /\ LsicMax <= 255
  /\ OffsetByte \in Nat \ {0} /\ 2 <= OffsetByte
  /\ WordBytes \in Nat \ {0}
  /\ OffsetRange \in Nat \ {0} /\ Lanes <= OffsetRange
  /\ MAX_OFFSET = OffsetRange - 1 /\ NULL_OFFSET = OffsetRange - 1
<1>1. OffsetByte * OffsetByte \in Nat \ {0}
  BY Lz4Parameters
<1>2. QED
  BY <1>1, Lz4Parameters DEF OffsetRange, MAX_OFFSET, NULL_OFFSET

\* The bytes of s are in dst behind the first p.
Stands(dst, p, s) == \A k \in 1 .. Len(s) : dst[p + k] = s[k]

\* In bytes p to q - 1 is the linear code of n.
Code(dst, p, n, q) ==
  \E j \in Nat :
    /\ q = p + j + 1 /\ n = j * LsicMax + dst[q] /\ dst[q] \in 0 .. LsicMax - 1
    /\ \A i \in 1 .. j : dst[p + i] = LsicMax

\* The code of every number is read back.
LEMMA CodeWritten ==
  ASSUME NEW n \in Nat, NEW dst, NEW p \in Nat, Stands(dst, p, writeLSIC(n))
  PROVE  /\ writeLSIC(n) \in Seq(Int) /\ Len(writeLSIC(n)) = n \div LsicMax + 1
         /\ Code(dst, p, n, p + Len(writeLSIC(n)))
<1>1. PICK L \in Nat \ {0} : L = LsicMax
  BY Lz4Constants
<1>2. PICK j \in Nat, r \in 0 .. L - 1 :
        j = n \div L /\ r = n % L /\ n = L * j + r
  <2>1. n \div L \in Nat /\ n % L \in 0 .. L - 1 /\ n = L * (n \div L) + (n % L)
    OBVIOUS
  <2>2. QED
    BY ONLY <2>1, Zenon
<1>3. PICK s : s = writeLSIC(n)
  OBVIOUS
<1>4. s = [i \in 1 .. j + 1 |-> IF i <= j THEN L ELSE r]
  BY <1>1, <1>2, <1>3 DEF writeLSIC
<1>5. s \in Seq(Int) /\ Len(s) = j + 1 /\ s[j + 1] = r /\ \A i \in 1 .. j : s[i] = L
  BY <1>1, <1>2, <1>4
<1>6. dst[p + j + 1] = r /\ \A i \in 1 .. j : dst[p + i] = L
  <2>1. \A k \in 1 .. j + 1 : dst[p + k] = s[k]
    BY <1>3, <1>5 DEF Stands
  <2>2. j + 1 \in 1 .. j + 1 /\ \A i \in 1 .. j : i \in 1 .. j + 1
    OBVIOUS
  <2>3. dst[p + (j + 1)] = r /\ \A i \in 1 .. j : dst[p + i] = L
    BY <1>5, <2>1, <2>2, Zenon
  <2>4. p + (j + 1) = p + j + 1
    OBVIOUS
  <2>5. QED
    BY <2>3, <2>4
<1>7. PICK q \in Nat : q = p + j + 1
  OBVIOUS
<1>8. n = j * L + r
  BY <1>2
<1>9. Code(dst, p, n, q)
  BY <1>1, <1>2, <1>6, <1>7, <1>8 DEF Code
<1>10. p + Len(s) = q
  BY <1>5, <1>7
<1>11. QED
  BY <1>1, <1>2, <1>3, <1>5, <1>9, <1>10

\* A number that is told by a nibble and, if that is full, by the code in bytes
\* p to q - 1; the nibble counts from short.
LengthAt(dst, p, short, nibble, num, q) ==
  /\ nibble \in 0 .. TokenMax
  /\ nibble = TokenMax => num >= short + TokenMax /\ Code(dst, p, num - short - TokenMax, q)
  /\ nibble # TokenMax => num = nibble + short /\ q = p

\* Every length is read back, and what its code costs.
LEMMA LengthWritten ==
  ASSUME NEW num \in Nat, NEW short \in Nat, short <= num, NEW dst, NEW p \in Nat,
         NEW tok, tok = lengthToken(num, short), Stands(dst, p, tok.more)
  PROVE  /\ tok.more \in Seq(Int)
         /\ LengthAt(dst, p, short, tok.nibble, num, p + Len(tok.more))
         /\ num < short + TokenMax => Len(tok.more) = 0
         /\ num >= short + TokenMax =>
              Len(tok.more) = (num - short - TokenMax) \div LsicMax + 1
<1>1. CASE num >= TokenMax + short
  <2>1. PICK n \in Nat : n = num - (TokenMax + short) /\ n = num - short - TokenMax
    BY <1>1, Lz4Constants
  <2>2. tok = [nibble |-> TokenMax, more |-> writeLSIC(n)]
    BY <1>1, <2>1 DEF lengthToken
  <2>3. tok.nibble = TokenMax /\ tok.more = writeLSIC(n)
    BY <2>2
  <2>4. /\ tok.more \in Seq(Int) /\ Len(tok.more) = n \div LsicMax + 1
        /\ Code(dst, p, n, p + Len(tok.more))
    BY <2>3, CodeWritten
  <2>5. TokenMax \in 0 .. TokenMax /\ num >= short + TokenMax
    BY <1>1, Lz4Constants
  <2>6. ~ (num < short + TokenMax)
    BY <2>5, Lz4Constants
  <2>7. QED
    BY <2>1, <2>3, <2>4, <2>5, <2>6 DEF LengthAt
<1>2. CASE ~ (num >= TokenMax + short)
  <2>1. PICK n \in 0 .. 14 : n = num - short /\ n < TokenMax
    BY <1>2, Lz4Constants
  <2>2. n % 256 = n
    OBVIOUS
  <2>3. tok = [nibble |-> n, more |-> << >>]
    BY <1>2, <2>1, <2>2 DEF lengthToken
  <2>4. tok.nibble = n /\ tok.more = << >>
    BY <2>3
  <2>5. n \in 0 .. TokenMax /\ n # TokenMax /\ num = n + short
    BY <2>1, Lz4Constants
  <2>6. << >> \in Seq(Int) /\ Len(<< >>) = 0 /\ p + Len(<< >>) = p
    OBVIOUS
  <2>7. ~ (num >= short + TokenMax)
    BY <1>2, Lz4Constants
  <2>8. QED
    BY <2>4, <2>5, <2>6, <2>7 DEF LengthAt
<1>3. QED
  BY <1>1, <1>2

\* The nibbles of a token are read back.
LEMMA PairRead ==
  ASSUME NEW a \in 0 .. TokenMax, NEW b \in Nat
  PROVE  /\ decodePair(encodePair(a, b)).num_literals = a
         /\ b <= TokenMax => decodePair(encodePair(a, b)).num_matches = b
         /\ decodePair(encodePair(a, b)).num_matches \in 0 .. TokenMax
         /\ encodePair(a, b) \in Int
<1>1. PICK n \in Nat \ {0} : n = TokenMax + 1
  BY Lz4Constants
<1>2. a \in 0 .. n - 1 /\ a % n = a
  BY <1>1, Lz4Constants
<1>3. PICK r \in 0 .. n - 1 : r = b % n
  <2>1. b % n \in 0 .. n - 1
    OBVIOUS
  <2>2. QED
    BY ONLY <2>1, Zenon
<1>4. b <= TokenMax => r = b
  BY <1>1, <1>3, Lz4Constants
<1>5. PICK t \in Int : t = n * a + r
  OBVIOUS
<1>6. t % n = r /\ t \div n = a
  BY <1>2, <1>5, DivModIs
<1>7. encodePair(a, b) = t
  BY <1>1, <1>2, <1>3, <1>5 DEF encodePair
<1>8. decodePair(t) = [num_literals |-> a, num_matches |-> r]
  BY <1>1, <1>6 DEF decodePair
<1>9. QED
  BY <1>1, <1>4, <1>7, <1>8, Lz4Constants

-----------------------------------------------------------------------------
(* LZ4: a sequence as it is written.                                       *)

\* Two pieces one behind the other.
LEMMA Concat ==
  ASSUME NEW s \in Seq(Int), NEW t \in Seq(Int)
  PROVE  /\ s \o t \in Seq(Int) /\ Len(s \o t) = Len(s) + Len(t)
         /\ Len(s) \in Nat /\ Len(t) \in Nat
         /\ \A k \in 1 .. Len(s) : (s \o t)[k] = s[k]
         /\ \A k \in 1 .. Len(t) : (s \o t)[Len(s) + k] = t[k]
OBVIOUS

\* What stands in the first of them, and in the second.
LEMMA StandsBefore ==
  ASSUME NEW s \in Seq(Int), NEW t \in Seq(Int), NEW r \in Seq(Int), NEW p \in Nat,
         Stands(s, p, r), p + Len(r) <= Len(s)
  PROVE  Stands(s \o t, p, r)
<1>1. Len(r) \in Nat /\ Len(s) \in Nat
  OBVIOUS
<1>2. ASSUME NEW k \in 1 .. Len(r) PROVE (s \o t)[p + k] = r[k]
  <2>1. p + k \in 1 .. Len(s)
    BY <1>1
  <2>2. (s \o t)[p + k] = s[p + k]
    BY <2>1, Concat, Zenon
  <2>9. QED
    BY <2>2 DEF Stands
<1>3. QED
  BY <1>2 DEF Stands

\* What stands in a sequence stands in one that it is appended to.
LEMMA StandsBehind ==
  ASSUME NEW s \in Seq(Int), NEW t \in Seq(Int), NEW r \in Seq(Int), NEW p \in Nat,
         Stands(t, p, r), p + Len(r) <= Len(t), NEW q, q = Len(s) + p
  PROVE  Stands(s \o t, q, r)
<1>1. Len(r) \in Nat /\ Len(s) \in Nat /\ Len(t) \in Nat
  OBVIOUS
<1>2. ASSUME NEW k \in 1 .. Len(r) PROVE (s \o t)[q + k] = r[k]
  <2>1. p + k \in 1 .. Len(t) /\ q + k = Len(s) + (p + k)
    BY <1>1
  <2>2. PICK j \in 1 .. Len(t) : j = p + k /\ q + k = Len(s) + j
    BY <2>1
  <2>3. (s \o t)[Len(s) + j] = t[j]
    BY Concat, Zenon
  <2>4. t[j] = r[k]
    BY <2>2 DEF Stands
  <2>5. QED
    BY <2>2, <2>3, <2>4, Zenon
<1>3. QED
  BY <1>2 DEF Stands

\* Four pieces behind what there is.
Laid(s, h, x, y, v, n) ==
  /\ n \in Seq(Int) /\ Len(n) = Len(s) + Len(h) + Len(x) + Len(y) + Len(v)
  /\ \A k \in 1 .. Len(s) : n[k] = s[k]
  /\ Stands(n, Len(s), h)
  /\ Stands(n, Len(s) + Len(h), x)
  /\ Stands(n, Len(s) + Len(h) + Len(x), y)
  /\ Stands(n, Len(s) + Len(h) + Len(x) + Len(y), v)

\* Four pieces that are appended are laid behind what there is.
LEMMA FourPieces ==
  ASSUME NEW s \in Seq(Int), NEW h \in Seq(Int), NEW x \in Seq(Int), NEW y \in Seq(Int),
         NEW v \in Seq(Int), NEW n, n = s \o (((h \o x) \o y) \o v)
  PROVE  Laid(s, h, x, y, v, n)
<1>1. PICK a \in Seq(Int) : a = h \o x
  BY Concat
<1>2. PICK b \in Seq(Int) : b = a \o y
  BY Concat
<1>3. PICK c \in Seq(Int) : c = b \o v
  BY Concat
<1>4. n = s \o c
  BY <1>1, <1>2, <1>3
<1>5. /\ Len(s) \in Nat /\ Len(h) \in Nat /\ Len(x) \in Nat /\ Len(y) \in Nat
      /\ Len(v) \in Nat /\ Len(a) = Len(h) + Len(x) /\ Len(b) = Len(a) + Len(y)
      /\ Len(c) = Len(b) + Len(v)
  BY <1>1, <1>2, <1>3, Concat
<1>6. Stands(a, 0, h) /\ Stands(a, Len(h), x)
  BY <1>1, Concat DEF Stands
<1>7. Stands(b, 0, h) /\ Stands(b, Len(h), x) /\ Stands(b, Len(a), y)
  <2>1. Stands(b, Len(a), y)
    BY <1>2, Concat DEF Stands
  <2>2. Stands(b, 0, h)
    BY <1>2, <1>5, <1>6, StandsBefore
  <2>3. Stands(b, Len(h), x)
    BY <1>2, <1>5, <1>6, StandsBefore
  <2>4. QED
    BY <2>1, <2>2, <2>3
<1>8. /\ Stands(c, 0, h) /\ Stands(c, Len(h), x) /\ Stands(c, Len(a), y)
      /\ Stands(c, Len(b), v)
  <2>1. Stands(c, Len(b), v)
    BY <1>3, Concat DEF Stands
  <2>2. Stands(c, 0, h)
    BY <1>3, <1>5, <1>7, StandsBefore
  <2>3. Stands(c, Len(h), x)
    BY <1>3, <1>5, <1>7, StandsBefore
  <2>4. Stands(c, Len(a), y)
    BY <1>3, <1>5, <1>7, StandsBefore, SMTT(30)
  <2>5. QED
    BY <2>1, <2>2, <2>3, <2>4
<1>9. /\ Stands(n, Len(s), h) /\ Stands(n, Len(s) + Len(h), x)
      /\ Stands(n, Len(s) + Len(a), y) /\ Stands(n, Len(s) + Len(b), v)
  <2>1. Stands(n, Len(s), h)
    BY <1>4, <1>5, <1>8, StandsBehind, SMTT(30)
  <2>2. Stands(n, Len(s) + Len(h), x)
    BY <1>4, <1>5, <1>8, StandsBehind
  <2>3. Stands(n, Len(s) + Len(a), y)
    BY <1>4, <1>5, <1>8, StandsBehind, SMTT(30)
  <2>4. Stands(n, Len(s) + Len(b), v)
    BY <1>4, <1>5, <1>8, StandsBehind
  <2>5. QED
    BY <2>1, <2>2, <2>3, <2>4
<1>10. n \in Seq(Int) /\ Len(n) = Len(s) + Len(c) /\ \A k \in 1 .. Len(s) : n[k] = s[k]
  BY <1>4, Concat
<1>11. /\ Len(s) + Len(a) = Len(s) + Len(h) + Len(x)
       /\ Len(s) + Len(b) = Len(s) + Len(h) + Len(x) + Len(y)
       /\ Len(s) + Len(c) = Len(s) + Len(h) + Len(x) + Len(y) + Len(v)
  BY <1>5
<1>12. QED
  BY <1>9, <1>10, <1>11 DEF Laid

\* A token at byte c of dst.
Token(dst, c, a, b) ==
  /\ a \in 0 .. TokenMax /\ b \in 0 .. TokenMax
  /\ decodePair(dst[c + 1]) = [num_literals |-> a, num_matches |-> b]

\* The data goes on for m bytes behind the first n with what it has f before.
Repeated(data, n, m, f) == 1 <= f /\ \A k \in 1 .. m : data[n + k] = data[n + k - f]

\* The l literals of data behind the first d stand in dst from byte p on.
Literals(dst, data, d, l, p) == \A k \in 1 .. l : dst[p + k] = data[d + k]

OffsetAt(dst, p, f) == f = dst[p + 1] + OffsetByte * dst[p + 2]

\* From byte c of dst to byte e stands a sequence that takes a reader with the
\* first d bytes of data to the first u; if exact, with the right bytes.
SequenceOf(dst, data, c, d, e, u, exact, l, m, p, f, a, b) ==
  /\ c \in Nat /\ d \in Nat /\ e \in Nat /\ u \in Nat
  /\ l \in Nat /\ m \in Nat /\ p \in Nat /\ f \in Nat
  /\ Token(dst, c, a, b) /\ LengthAt(dst, c + 1, 0, a, l, p)
  /\ Literals(dst, data, d, l, p) /\ OffsetAt(dst, p + l, f)
  /\ LengthAt(dst, p + l + 2, 4, b, m, e)
  /\ c < p /\ p + l + 2 <= e /\ e <= Len(dst)
  /\ 4 <= m /\ u = d + l + m /\ u <= Len(data) /\ f <= d + l
  /\ exact => Repeated(data, d + l, m, f)

Sequence(dst, data, c, d, e, u, exact) ==
  \E l, m, p, f, a, b : SequenceOf(dst, data, c, d, e, u, exact, l, m, p, f, a, b)

\* Behind it the last one, with literals to the end.
LastOf(dst, data, c, d, l, p, a, b) ==
  /\ c \in Nat /\ d \in Nat /\ l \in Nat /\ p \in Nat
  /\ Token(dst, c, a, b) /\ LengthAt(dst, c + 1, 0, a, l, p)
  /\ Literals(dst, data, d, l, p)
  /\ c < p /\ Len(dst) = p + l /\ Len(data) = d + l

Ending(dst, data, c, d) == \E l, p, a, b : LastOf(dst, data, c, d, l, p, a, b)

\* One byte, and two bytes in front of others.
LEMMA OneByte ==
  ASSUME NEW t \in Int
  PROVE  << t >> \in Seq(Int) /\ Len(<< t >>) = 1 /\ << t >>[1] = t
OBVIOUS

\* Two bytes in front of others.
TwoFirst(v, o1, o2, lb) ==
  /\ v \in Seq(Int) /\ Len(v) = 2 + Len(lb) /\ v[1] = o1 /\ v[2] = o2
  /\ \A k \in 1 .. Len(lb) : v[2 + k] = lb[k]

\* They are there when they are put there.
LEMMA TwoBytes ==
  ASSUME NEW o1 \in Int, NEW o2 \in Int, NEW lb \in Seq(Int)
  PROVE  TwoFirst(<< o1, o2 >> \o lb, o1, o2, lb)
BY DEF TwoFirst

\* Literals as they are cut from the data.
LEMMA LiteralsCut ==
  ASSUME NEW data \in Seq(Nat), NEW d \in Nat, NEW l \in Nat, d + l <= Len(data)
  PROVE  /\ SubSeq(data, d + 1, d + l) \in Seq(Int) /\ Len(SubSeq(data, d + 1, d + l)) = l
         /\ \A k \in 1 .. l : SubSeq(data, d + 1, d + l)[k] = data[d + k]
<1>1. Len(data) \in Nat
  OBVIOUS
<1>2. PICK y : y = SubSeq(data, d + 1, d + l)
  OBVIOUS
<1>3. y = [k \in 1 .. l |-> data[d + k]]
  <2>1. d + l - (d + 1) + 1 = l
    OBVIOUS
  <2>2. \A k \in 1 .. l : d + 1 + k - 1 = d + k
    OBVIOUS
  <2>3. SubSeq(data, d + 1, d + l) = [k \in 1 .. (d + l - (d + 1) + 1) |-> data[d + 1 + k - 1]]
    OBVIOUS
  <2>4. QED
    BY <1>2, <2>1, <2>2, <2>3
<1>4. QED
  OBVIOUS

\* The l bytes in y are those of data behind the first d.
Cut(y, data, d, l) == y \in Seq(Int) /\ Len(y) = l /\ \A k \in 1 .. l : y[k] = data[d + k]

\* What is written for l literals and a match of m bytes.
Written(str, data, d, l, m, u, y, off, f, exact, new) ==
  /\ str \in Seq(Int) /\ d \in Nat /\ l \in Nat /\ m \in Nat /\ 4 <= m
  /\ u = d + l + m /\ u <= Len(data) /\ Len(data) \in Nat
  /\ Cut(y, data, d, l) /\ off \in Nat /\ f \in Nat /\ f = off % OffsetRange /\ f <= d + l
  /\ (exact => Repeated(data, d + l, m, f))
  /\ new = str \o writeSequenceData(y, m, off)

\* The pieces of it.
Pieces(str, y, l, m, f, new, t, a, la, b, lb, o1, o2, v) ==
  /\ a = lengthToken(l, 0).nibble /\ la = lengthToken(l, 0).more
  /\ b = lengthToken(m, 4).nibble /\ lb = lengthToken(m, 4).more
  /\ t \in Int /\ decodePair(t) = [num_literals |-> a, num_matches |-> b]
  /\ a \in 0 .. TokenMax /\ b \in 0 .. TokenMax
  /\ o1 \in Int /\ o2 \in Int /\ f = o1 + OffsetByte * o2
  /\ la \in Seq(Int) /\ lb \in Seq(Int) /\ y \in Seq(Int)
  /\ v \in Seq(Int) /\ v = << o1, o2 >> \o lb
  /\ new = str \o (((<< t >> \o la) \o y) \o v)

\* A sequence that was written is its token, lengths, literals and offset.
LEMMA WrittenPieces ==
  ASSUME NEW str \in Seq(Int), NEW data, NEW d \in Nat, NEW l \in Nat, NEW m \in Nat,
         NEW u \in Nat, NEW y \in Seq(Int), NEW off \in Nat, NEW f \in Nat, NEW exact,
         NEW new, Written(str, data, d, l, m, u, y, off, f, exact, new)
  PROVE  \E t \in Int, a \in 0 .. TokenMax, la \in Seq(Int), b \in 0 .. TokenMax,
            lb \in Seq(Int), o1 \in Int, o2 \in Int, v \in Seq(Int) :
           Pieces(str, y, l, m, f, new, t, a, la, b, lb, o1, o2, v)
<1>0. /\ l \in Nat /\ m \in Nat /\ 4 <= m /\ y \in Seq(Int) /\ Len(y) = l /\ f \in Nat
      /\ f = off % OffsetRange /\ str \in Seq(Int) /\ new = str \o writeSequenceData(y, m, off)
  BY DEF Written, Cut
<1>1. \A n, short \in Nat : short <= n =>
          /\ lengthToken(n, short).more \in Seq(Int)
          /\ lengthToken(n, short).nibble \in 0 .. TokenMax
  <2>1. SUFFICES ASSUME NEW n \in Nat, NEW short \in Nat, short <= n
                 PROVE  /\ lengthToken(n, short).more \in Seq(Int)
                        /\ lengthToken(n, short).nibble \in 0 .. TokenMax
    OBVIOUS
  <2>2. PICK tok : tok = lengthToken(n, short)
    OBVIOUS
  <2>3. Stands(tok.more, 0, tok.more) /\ 0 \in Nat
    BY DEF Stands
  <2>4. QED
    BY ONLY <2>1, <2>2, <2>3, LengthWritten, ZenonT(40) DEF LengthAt
<1>2. PICK a \in 0 .. TokenMax, la \in Seq(Int) :
        a = lengthToken(l, 0).nibble /\ la = lengthToken(l, 0).more
  <2>1. 0 \in Nat /\ 0 <= l
    OBVIOUS
  <2>2. lengthToken(l, 0).more \in Seq(Int) /\ lengthToken(l, 0).nibble \in 0 .. TokenMax
    BY ONLY <1>1, <2>1, l \in Nat, Zenon
  <2>3. QED
    BY ONLY <2>2, Zenon
<1>3. PICK b \in 0 .. TokenMax, lb \in Seq(Int) :
        b = lengthToken(m, 4).nibble /\ lb = lengthToken(m, 4).more
  <2>1. 4 \in Nat
    OBVIOUS
  <2>2. lengthToken(m, 4).more \in Seq(Int) /\ lengthToken(m, 4).nibble \in 0 .. TokenMax
    BY ONLY <1>0, <1>1, <2>1, Zenon
  <2>3. QED
    BY ONLY <2>2, Zenon
<1>6. PICK t \in Int : t = encodePair(a, b)
  <2>1. b \in Nat
    BY <1>3, Lz4Constants
  <2>2. QED
    BY <1>2, <2>1, PairRead, Zenon
<1>7. decodePair(t) = [num_literals |-> a, num_matches |-> b]
  <2>1. b \in Nat /\ b <= TokenMax
    BY ONLY <1>3, Lz4Constants
  <2>2. decodePair(t).num_literals = a /\ decodePair(t).num_matches = b
    BY <1>2, <1>6, <2>1, PairRead, Zenon
  <2>3. QED
    BY ONLY <2>2 DEF decodePair
<1>8. PICK o1 \in Int, o2 \in Int : o1 = f % OffsetByte /\ o2 = f \div OffsetByte
                                    /\ f = o1 + OffsetByte * o2
  <2>1. PICK n \in Nat \ {0} : n = OffsetByte
    BY ONLY Lz4Constants
  <2>2. f % n \in Int /\ f \div n \in Int /\ f = (f % n) + n * (f \div n)
    <3>1. f \div n \in Int /\ f % n \in 0 .. n - 1 /\ f = n * (f \div n) + (f % n)
      BY ONLY DivMod, f \in Nat
    <3>2. \A q \in Int, r \in 0 .. n - 1 : r \in Int /\ n * q + r = r + n * q
      OBVIOUS
    <3>3. QED
      BY ONLY <3>1, <3>2, Zenon
  <2>3. QED
    BY ONLY <2>1, <2>2, Zenon
<1>9. PICK v \in Seq(Int) : v = << o1, o2 >> \o lb
  <2>1. << o1, o2 >> \o lb \in Seq(Int)
    BY ONLY TwoBytes
  <2>2. QED
    BY ONLY <2>1, Zenon
<1>11. writeSequenceData(y, m, off) = ((<< t >> \o la) \o y) \o v
  <2>1. m # 0
    BY ONLY <1>0
  <2>2. QED
    BY ONLY <1>0, <1>2, <1>3, <1>6, <1>8, <1>9, <2>1 DEF writeSequenceData
<1>13. new = str \o (((<< t >> \o la) \o y) \o v)
  BY ONLY <1>0, <1>11, SMTT(30)
<1>14. Pieces(str, y, l, m, f, new, t, a, la, b, lb, o1, o2, v)
  BY ONLY <1>0, <1>2, <1>3, <1>6, <1>7, <1>8, <1>9, <1>13 DEF Pieces
<1>15. QED
  BY ONLY <1>2, <1>3, <1>6, <1>8, <1>9, <1>14, Zenon

\* The bytes of a sequence and of the last one, and a stream that is longer by some.
CostOf(l, m)  == 1 + Len(lengthToken(l, 0).more) + l + 2 + Len(lengthToken(m, 4).more)
LastCostOf(l) == 1 + Len(lengthToken(l, 0).more) + l

Grown(str, new, n) ==
  /\ new \in Seq(Int) /\ n \in Nat /\ Len(new) = Len(str) + n
  /\ \A k \in 1 .. Len(str) : new[k] = str[k]

\* What is written for literals and a match is a sequence.
LEMMA SequenceWritten ==
  ASSUME NEW str \in Seq(Int), NEW data, NEW d \in Nat, NEW l \in Nat, NEW m \in Nat,
         NEW u \in Nat, NEW y \in Seq(Int), NEW off \in Nat, NEW f \in Nat, NEW exact,
         NEW new, Written(str, data, d, l, m, u, y, off, f, exact, new)
  PROVE  Grown(str, new, CostOf(l, m)) /\ Sequence(new, data, Len(str), d, Len(new), u, exact)
<1>0. PICK t \in Int, a \in 0 .. TokenMax, la \in Seq(Int), b \in 0 .. TokenMax,
           lb \in Seq(Int), o1 \in Int, o2 \in Int, v \in Seq(Int) :
           Pieces(str, y, l, m, f, new, t, a, la, b, lb, o1, o2, v)
  BY WrittenPieces
<1>1. /\ l \in Nat /\ m \in Nat /\ 4 <= m /\ f \in Nat /\ d \in Nat /\ u = d + l + m
      /\ u \in Nat /\ u <= Len(data) /\ str \in Seq(Int) /\ Len(y) = l
      /\ \A k \in 1 .. l : y[k] = data[d + k]
      /\ f <= d + l /\ (exact => Repeated(data, d + l, m, f))
  BY DEF Written, Cut
<1>2. decodePair(t) = [num_literals |-> a, num_matches |-> b] /\ f = o1 + OffsetByte * o2
  BY ONLY <1>0 DEF Pieces
<1>3. v = << o1, o2 >> \o lb
  BY ONLY <1>0 DEF Pieces
<1>5. /\ a = lengthToken(l, 0).nibble /\ la = lengthToken(l, 0).more
      /\ b = lengthToken(m, 4).nibble /\ lb = lengthToken(m, 4).more
  BY ONLY <1>0 DEF Pieces
<1>4. PICK c \in Nat, x \in Nat, w \in Nat, e \in Nat :
         c = Len(str) /\ x = Len(la) /\ w = Len(lb) /\ e = c + 1 + x + l + 2 + w
  BY ONLY <1>3
<1>10. PICK h \in Seq(Int) : h = << t >> /\ Len(h) = 1 /\ h[1] = t
  BY ONLY OneByte, Zenon
<1>13. Len(v) = 2 + w /\ v[1] = o1 /\ v[2] = o2 /\ \A k \in 1 .. w : v[2 + k] = lb[k]
  <2>1. TwoFirst(v, o1, o2, lb)
    BY ONLY <1>3, TwoBytes, o1 \in Int, o2 \in Int, lb \in Seq(Int)
  <2>2. w = Len(lb)
    BY ONLY <1>4
  <2>3. QED
    BY ONLY <2>1, <2>2 DEF TwoFirst
<1>14. /\ new \in Seq(Int) /\ Len(new) = e
       /\ \A k \in 1 .. c : new[k] = str[k]
       /\ Stands(new, c, h) /\ Stands(new, c + 1, la)
       /\ Stands(new, c + 1 + x, y) /\ Stands(new, c + 1 + x + l, v)
  <2>1. new = str \o (((h \o la) \o y) \o v)
    BY ONLY <1>0, <1>10 DEF Pieces
  <2>2. Laid(str, h, la, y, v, new)
    BY ONLY <2>1, FourPieces
  <2>3. Len(str) + Len(h) + Len(la) + Len(y) + Len(v) = e
    <3>1. Len(h) = 1 /\ Len(y) = l /\ Len(v) = 2 + w
      BY ONLY <1>1, <1>10, <1>13
    <3>2. QED
      BY ONLY <1>4, <3>1, l \in Nat
  <2>4. QED
    BY ONLY <1>1, <1>10, <1>4, <2>2, <2>3 DEF Laid
<1>15. PICK p \in Nat : p = c + 1 + x
  BY ONLY <1>4
<1>16. new[c + 1] = t
  <2>1. 1 \in 1 .. Len(h)
    BY ONLY <1>10
  <2>2. QED
    BY ONLY <1>10, <1>14, <2>1 DEF Stands
<1>17. Token(new, c, a, b)
  BY ONLY <1>2, <1>16 DEF Token
<1>18. LengthAt(new, c + 1, 0, a, l, p)
  <2>1. Stands(new, c + 1, la) /\ c + 1 \in Nat /\ 0 <= l /\ c + 1 + Len(la) = p
        /\ 0 \in Nat
    BY ONLY <1>1, <1>4, <1>14, <1>15
  <2>2. LengthAt(new, c + 1, 0, a, l, c + 1 + Len(la))
    BY ONLY <1>1, <1>5, <2>1, LengthWritten, Zenon
  <2>3. QED
    BY ONLY <2>1, <2>2
<1>19. Literals(new, data, d, l, p)
  <2>1. \A k \in 1 .. l : new[p + k] = y[k]
    BY ONLY <1>1, <1>14, <1>15 DEF Stands
  <2>2. QED
    BY ONLY <1>1, <2>1 DEF Literals
<1>20. /\ OffsetAt(new, p + l, f) /\ Stands(new, p + l + 2, lb)
  <2>1. \A k \in 1 .. 2 + w : new[p + l + k] = v[k]
    BY ONLY <1>13, <1>14, <1>15 DEF Stands
  <2>2. new[p + l + 1] = o1 /\ new[p + l + 2] = o2
    <3>1. 1 \in 1 .. 2 + w /\ 2 \in 1 .. 2 + w
      BY ONLY <1>4
    <3>2. QED
      BY ONLY <1>13, <2>1, <3>1
  <2>3. ASSUME NEW k \in 1 .. Len(lb) PROVE new[p + l + 2 + k] = lb[k]
    <3>1. 2 + k \in 1 .. 2 + w /\ p + l + 2 + k = p + l + (2 + k)
      BY ONLY <1>1, <1>4, <1>15, k \in 1 .. Len(lb)
    <3>2. v[2 + k] = lb[k]
      BY ONLY <1>4, <1>13, k \in 1 .. Len(lb)
    <3>3. QED
      BY ONLY <2>1, <3>1, <3>2
  <2>4. QED
    BY ONLY <1>2, <2>2, <2>3 DEF OffsetAt, Stands
<1>21. LengthAt(new, p + l + 2, 4, b, m, e)
  <2>1. p + l + 2 \in Nat /\ p + l + 2 + Len(lb) = e /\ 4 \in Nat
    BY ONLY <1>1, <1>4, <1>15
  <2>2. LengthAt(new, p + l + 2, 4, b, m, p + l + 2 + Len(lb))
    BY ONLY <1>1, <1>5, <1>20, <2>1, LengthWritten, Zenon
  <2>3. QED
    BY ONLY <2>1, <2>2
<1>22. c < p /\ p + l + 2 <= e /\ e \in Nat
  BY ONLY <1>1, <1>4, <1>15, SMTT(30)
<1>23. SequenceOf(new, data, c, d, e, u, exact, l, m, p, f, a, b)
  BY ONLY <1>1, <1>4, <1>14, <1>15, <1>17, <1>18, <1>19, <1>20, <1>21, <1>22 DEF SequenceOf
<1>24. Sequence(new, data, c, d, e, u, exact)
  BY ONLY <1>23, Zenon DEF Sequence
<1>25. Grown(str, new, CostOf(l, m))
  <2>1. CostOf(l, m) = 1 + x + l + 2 + w
    BY ONLY <1>4, <1>5 DEF CostOf
  <2>2. PICK z \in Nat : z = 1 + x + l + 2 + w /\ e = c + z
    <3>1. e = c + 1 + x + l + 2 + w
      BY ONLY <1>4
    <3>2. 1 + x + l + 2 + w \in Nat /\ e = c + (1 + x + l + 2 + w)
      BY ONLY <3>1, l \in Nat, c \in Nat, x \in Nat, w \in Nat
    <3>3. QED
      BY ONLY <3>2, Zenon
  <2>3. Len(new) = Len(str) + z
    BY ONLY <1>4, <1>14, <2>2
  <2>4. CostOf(l, m) = z
    BY ONLY <2>1, <2>2
  <2>5. QED
    BY ONLY <1>4, <1>14, <2>3, <2>4, z \in Nat DEF Grown
<1>26. Sequence(new, data, Len(str), d, Len(new), u, exact)
  <2>1. c = Len(str) /\ e = Len(new)
    BY ONLY <1>4, <1>14
  <2>2. QED
    BY ONLY <1>24, <2>1
<1>27. QED
  BY ONLY <1>25, <1>26

\* What is written for the l literals at the end.
LastWrite(str, data, d, l, y, new) ==
  /\ Cut(y, data, d, l) /\ d + l = Len(data)
  /\ new = str \o writeSequenceData(y, 0, 0)

\* It is the last sequence.
LEMMA LastWritten ==
  ASSUME NEW str \in Seq(Int), NEW data, NEW d \in Nat, NEW l \in Nat, NEW y \in Seq(Int),
         NEW new, LastWrite(str, data, d, l, y, new)
  PROVE  Grown(str, new, LastCostOf(l)) /\ Ending(new, data, Len(str), d)
<1>1. Len(y) = l /\ \A k \in 1 .. l : y[k] = data[d + k]
  BY DEF LastWrite, Cut
<1>2. Len(data) = d + l /\ new = str \o writeSequenceData(y, 0, 0)
  BY DEF LastWrite
<1>3. \A n \in Nat :
          /\ lengthToken(n, 0).more \in Seq(Int)
          /\ lengthToken(n, 0).nibble \in 0 .. TokenMax
  <2>1. SUFFICES ASSUME NEW n \in Nat
                 PROVE  /\ lengthToken(n, 0).more \in Seq(Int)
                        /\ lengthToken(n, 0).nibble \in 0 .. TokenMax
    OBVIOUS
  <2>2. PICK tok : tok = lengthToken(n, 0)
    OBVIOUS
  <2>3. Stands(tok.more, 0, tok.more) /\ 0 \in Nat /\ 0 <= n
    BY DEF Stands
  <2>4. QED
    BY ONLY <2>2, <2>3, LengthWritten, n \in Nat DEF LengthAt
<1>4. PICK a \in 0 .. TokenMax, la \in Seq(Int) :
        a = lengthToken(l, 0).nibble /\ la = lengthToken(l, 0).more
  BY ONLY <1>3, l \in Nat, Zenon
<1>5. PICK b \in Nat : b = lengthToken(0, 4).nibble
  <2>1. ~ (0 >= TokenMax + 4)
    BY ONLY Lz4Constants
  <2>4. (0 - 4) % 256 = 252
    <3>1. PICK n \in Nat \ {0}, q \in Int, z \in Nat : n = 256 /\ q = 0 - 1 /\ z = 252
      BY ONLY SMT
    <3>2. (n * q + z) % n = z
      <4>1. z \in 0 .. n - 1
        BY ONLY <3>1
      <4>2. QED
        BY ONLY <4>1, DivModIs
    <3>3. n * q + z = 0 - 4
      BY ONLY <3>1
    <3>4. QED
      BY ONLY <3>1, <3>2, <3>3
  <2>2. lengthToken(0, 4) = [nibble |-> (0 - 4) % 256, more |-> << >>]
    BY ONLY <2>1 DEF lengthToken
  <2>3. lengthToken(0, 4).nibble = 252
    BY ONLY <2>2, <2>4
  <2>5. QED
    BY ONLY <2>3
<1>6. PICK t \in Int, r \in 0 .. TokenMax :
        /\ t = encodePair(a, b)
        /\ decodePair(t) = [num_literals |-> a, num_matches |-> r]
  <2>1. /\ encodePair(a, b) \in Int
        /\ decodePair(encodePair(a, b)).num_literals = a
        /\ decodePair(encodePair(a, b)).num_matches \in 0 .. TokenMax
    BY ONLY PairRead, Zenon
  <2>2. PICK t : t = encodePair(a, b)
    OBVIOUS
  <2>3. decodePair(t) = [num_literals |-> a, num_matches |-> decodePair(t).num_matches]
    BY ONLY <2>1, <2>2 DEF decodePair
  <2>4. QED
    BY ONLY <2>1, <2>2, <2>3, Zenon
<1>7. new = str \o (((<< t >> \o la) \o y) \o << >>)
  <2>1. writeSequenceData(y, 0, 0) = ((<< t >> \o la) \o y) \o << >>
    BY ONLY <1>1, <1>4, <1>5, <1>6 DEF writeSequenceData
  <2>2. QED
    BY ONLY <1>2, <2>1
<1>8. PICK h \in Seq(Int) : h = << t >> /\ Len(h) = 1 /\ h[1] = t
  BY ONLY OneByte, Zenon
<1>9. PICK v \in Seq(Int) : v = << >> /\ Len(v) = 0
  <2>1. << >> \in Seq(Int) /\ Len(<< >>) = 0
    BY ONLY SMT
  <2>2. QED
    BY ONLY <2>1, Zenon
<1>10. PICK c \in Nat, x \in Nat, e \in Nat : c = Len(str) /\ x = Len(la) /\ e = c + 1 + x + l
  OBVIOUS
<1>11. /\ new \in Seq(Int) /\ Len(new) = e
       /\ \A k \in 1 .. c : new[k] = str[k]
       /\ Stands(new, c, h) /\ Stands(new, c + 1, la) /\ Stands(new, c + 1 + x, y)
  <2>1. new = str \o (((h \o la) \o y) \o v)
    BY ONLY <1>7, <1>8, <1>9
  <2>2. Laid(str, h, la, y, v, new)
    BY ONLY <2>1, FourPieces
  <2>3. Len(str) + Len(h) + Len(la) + Len(y) + Len(v) = e
    BY ONLY <1>1, <1>8, <1>9, <1>10
  <2>4. QED
    BY ONLY <1>1, <1>8, <1>10, <2>2, <2>3 DEF Laid
<1>12. PICK p \in Nat : p = c + 1 + x
  OBVIOUS
<1>13. Token(new, c, a, r)
  <2>1. 1 \in 1 .. Len(h)
    BY ONLY <1>8
  <2>2. new[c + 1] = t
    BY ONLY <1>8, <1>11, <2>1 DEF Stands
  <2>3. QED
    BY ONLY <1>6, <2>2 DEF Token
<1>14. LengthAt(new, c + 1, 0, a, l, p)
  <2>1. Stands(new, c + 1, la) /\ c + 1 \in Nat /\ 0 <= l /\ c + 1 + Len(la) = p
        /\ 0 \in Nat
    BY ONLY <1>10, <1>11, <1>12
  <2>2. LengthAt(new, c + 1, 0, a, l, c + 1 + Len(la))
    BY ONLY <1>4, <2>1, LengthWritten, Zenon
  <2>3. QED
    BY ONLY <2>1, <2>2
<1>15. Literals(new, data, d, l, p)
  <2>1. \A k \in 1 .. l : new[p + k] = y[k]
    BY ONLY <1>1, <1>11, <1>12 DEF Stands
  <2>2. QED
    BY ONLY <1>1, <2>1 DEF Literals
<1>16. c < p /\ Len(new) = p + l
  BY ONLY <1>10, <1>11, <1>12
<1>17. LastOf(new, data, c, d, l, p, a, r)
  BY ONLY <1>2, <1>13, <1>14, <1>15, <1>16 DEF LastOf
<1>18. Ending(new, data, c, d)
  BY ONLY <1>17, Zenon DEF Ending
<1>19. Grown(str, new, LastCostOf(l))
  <2>1. LastCostOf(l) = 1 + x + l
    BY ONLY <1>4, <1>10 DEF LastCostOf
  <2>2. PICK z \in Nat : z = 1 + x + l /\ e = c + z
    <3>1. e = c + 1 + x + l
      BY ONLY <1>10
    <3>2. 1 + x + l \in Nat /\ e = c + (1 + x + l)
      BY ONLY <3>1, l \in Nat, c \in Nat, x \in Nat
    <3>3. QED
      BY ONLY <3>2, Zenon
  <2>3. Len(new) = Len(str) + z
    BY ONLY <1>10, <1>11, <2>2
  <2>4. LastCostOf(l) = z
    BY ONLY <2>1, <2>2
  <2>5. QED
    BY ONLY <1>10, <1>11, <2>3, <2>4, z \in Nat DEF Grown
<1>20. QED
  BY ONLY <1>10, <1>18, <1>19

\* A sequence stays one when more is written behind it.
LEMMA SequenceStays ==
  ASSUME NEW str \in Seq(Int), NEW new \in Seq(Int), NEW data, NEW c, NEW d, NEW e, NEW u,
         NEW exact, Len(str) <= Len(new), \A k \in 1 .. Len(str) : new[k] = str[k],
         Sequence(str, data, c, d, e, u, exact)
  PROVE  Sequence(new, data, c, d, e, u, exact)
<1>1. PICK l, m, p, f, a, b : SequenceOf(str, data, c, d, e, u, exact, l, m, p, f, a, b)
  BY DEF Sequence
<1>2. PICK n \in Nat : n = Len(str)
  OBVIOUS
<1>3. /\ c \in Nat /\ d \in Nat /\ e \in Nat /\ u \in Nat
      /\ l \in Nat /\ m \in Nat /\ p \in Nat /\ f \in Nat
      /\ c < p /\ p + l + 2 <= e /\ e <= n
  BY <1>1, <1>2 DEF SequenceOf
<1>4. \A i, j, x, y, z : i \in Nat /\ j \in Nat /\ y \in Nat /\ j <= n /\ LengthAt(str, i, y, x, z, j)
         => LengthAt(new, i, y, x, z, j)
  <2>1. ASSUME NEW i \in Nat, NEW j \in Nat, NEW x, j <= n, Code(str, i, x, j)
        PROVE  Code(new, i, x, j)
    <3>1. PICK k \in Nat :
            /\ j = i + k + 1 /\ x = k * LsicMax + str[j] /\ str[j] \in 0 .. LsicMax - 1
            /\ \A o \in 1 .. k : str[i + o] = LsicMax
      BY <2>1 DEF Code
    <3>2. j \in 1 .. n /\ \A o \in 1 .. k : i + o \in 1 .. n
      BY <2>1, <3>1
    <3>3. new[j] = str[j] /\ \A o \in 1 .. k : new[i + o] = str[i + o]
      BY <1>2, <3>2
    <3>4. QED
      BY <3>1, <3>3 DEF Code
  <2>2. QED
    BY <2>1 DEF LengthAt
<1>5. c + 1 \in Nat /\ p + l + 2 \in Nat /\ p <= n /\ 0 \in Nat /\ 4 \in Nat
  BY <1>3
<1>6. LengthAt(new, c + 1, 0, a, l, p) /\ LengthAt(new, p + l + 2, 4, b, m, e)
  <2>1. LengthAt(str, c + 1, 0, a, l, p) /\ LengthAt(str, p + l + 2, 4, b, m, e)
    BY <1>1 DEF SequenceOf
  <2>2. QED
    BY ONLY <1>3, <1>4, <1>5, <2>1, Zenon
<1>7. Token(new, c, a, b)
  <2>1. c + 1 \in 1 .. n
    BY <1>3
  <2>2. new[c + 1] = str[c + 1]
    BY <1>2, <2>1
  <2>3. QED
    BY <1>1, <2>2 DEF SequenceOf, Token
<1>8. Literals(new, data, d, l, p)
  <2>1. ASSUME NEW k \in 1 .. l PROVE new[p + k] = data[d + k]
    <3>1. p + k \in 1 .. n
      BY <1>3
    <3>2. QED
      BY <1>1, <1>2, <3>1 DEF SequenceOf, Literals
  <2>2. QED
    BY <2>1 DEF Literals
<1>9. OffsetAt(new, p + l, f)
  <2>1. p + l + 1 \in 1 .. n /\ p + l + 2 \in 1 .. n
    BY <1>3
  <2>2. new[p + l + 1] = str[p + l + 1] /\ new[p + l + 2] = str[p + l + 2]
    BY <1>2, <2>1
  <2>3. OffsetAt(str, p + l, f)
    BY <1>1 DEF SequenceOf
  <2>4. QED
    BY ONLY <2>2, <2>3 DEF OffsetAt
<1>10. e <= Len(new) /\ e <= Len(str)
  BY <1>2, <1>3
<1>11. SequenceOf(new, data, c, d, e, u, exact, l, m, p, f, a, b)
  BY ONLY <1>1, <1>6, <1>7, <1>8, <1>9, <1>10 DEF SequenceOf
<1>12. QED
  BY ONLY <1>11, Zenon DEF Sequence

-----------------------------------------------------------------------------
(* LZ4: a stream of sequences.                                             *)

\* The pairs in M - so much of the stream, so much of the data - are stations of
\* a reader on its way from the beginning to <<c, d>>.
Path(str, data, M, c, d, exact) ==
  /\ << 0, 0 >> \in M /\ << c, d >> \in M
  /\ \A x1, x2 : << x1, x2 >> \in M =>
        \/ x1 = c /\ x2 = d
        \/ \E y1, y2 : << y1, y2 >> \in M /\ Sequence(str, data, x1, x2, y1, y2, exact)

\* The stream up to now tells the first d bytes of the data.
Told(str, data, d, exact) == \E M : Path(str, data, M, Len(str), d, exact)

\* It tells all of the data.
Complete(str, data, exact) ==
  \/ data = << >> /\ str = << >>
  \/ \E M, c, d : Path(str, data, M, c, d, exact) /\ Ending(str, data, c, d)

\* Nothing is told at first.
LEMMA ToldNothing ==
  ASSUME NEW data, NEW exact
  PROVE  Told(<< >>, data, 0, exact)
<1>1. Path(<< >>, data, {<< 0, 0 >>}, 0, 0, exact)
  BY DEF Path
<1>2. Len(<< >>) = 0
  OBVIOUS
<1>3. QED
  BY ONLY <1>1, <1>2 DEF Told

\* A path stays one when more is written.
LEMMA PathStays ==
  ASSUME NEW str \in Seq(Int), NEW new \in Seq(Int), NEW data, NEW d, NEW exact, NEW M, NEW c,
         Len(str) <= Len(new), \A k \in 1 .. Len(str) : new[k] = str[k],
         Path(str, data, M, c, d, exact)
  PROVE  Path(new, data, M, c, d, exact)
<1>1. \A x1, x2, y1, y2 : Sequence(str, data, x1, x2, y1, y2, exact)
                            => Sequence(new, data, x1, x2, y1, y2, exact)
  BY SequenceStays
<1>2. QED
  BY ONLY <1>1, Path(str, data, M, c, d, exact), Zenon DEF Path

\* It goes on over the next sequence,
LEMMA ToldMore ==
  ASSUME NEW str \in Seq(Int), NEW new \in Seq(Int), NEW data, NEW d, NEW u, NEW exact,
         Len(str) <= Len(new), \A k \in 1 .. Len(str) : new[k] = str[k],
         Told(str, data, d, exact), Sequence(new, data, Len(str), d, Len(new), u, exact)
  PROVE  Told(new, data, u, exact)
<1>1. PICK M : Path(str, data, M, Len(str), d, exact)
  BY DEF Told
<1>2. Path(new, data, M, Len(str), d, exact)
  BY <1>1, PathStays
<1>3. PICK N : N = M \cup {<< Len(new), u >>}
  OBVIOUS
<1>4. << 0, 0 >> \in N /\ << Len(new), u >> \in N
  BY ONLY <1>2, <1>3 DEF Path
<1>5. ASSUME NEW x1, NEW x2, << x1, x2 >> \in N
      PROVE  \/ x1 = Len(new) /\ x2 = u
             \/ \E y1, y2 : << y1, y2 >> \in N /\ Sequence(new, data, x1, x2, y1, y2, exact)
  <2>1. CASE << x1, x2 >> = << Len(new), u >>
    BY ONLY <2>1
  <2>2. CASE << x1, x2 >> \in M
    <3>1. CASE x1 = Len(str) /\ x2 = d
      BY ONLY <1>4, <3>1, Sequence(new, data, Len(str), d, Len(new), u, exact), Zenon
    <3>2. CASE ~ (x1 = Len(str) /\ x2 = d)
      <4>1. PICK y1, y2 : << y1, y2 >> \in M /\ Sequence(new, data, x1, x2, y1, y2, exact)
        BY ONLY <1>2, <2>2, <3>2, Zenon DEF Path
      <4>2. << y1, y2 >> \in N
        BY ONLY <1>3, <4>1
      <4>3. QED
        BY ONLY <4>1, <4>2, Zenon
    <3>3. QED
      BY ONLY <3>1, <3>2
  <2>3. QED
    BY ONLY <1>3, <1>5, <2>1, <2>2
<1>6. Path(new, data, N, Len(new), u, exact)
  BY ONLY <1>4, <1>5, Zenon DEF Path
<1>7. QED
  BY ONLY <1>6, Zenon DEF Told

\* and the last one completes it.
LEMMA ToldLast ==
  ASSUME NEW str \in Seq(Int), NEW new \in Seq(Int), NEW data, NEW d, NEW exact,
         Len(str) <= Len(new), \A k \in 1 .. Len(str) : new[k] = str[k],
         Told(str, data, d, exact), Ending(new, data, Len(str), d)
  PROVE  Complete(new, data, exact)
<1>1. PICK M : Path(str, data, M, Len(str), d, exact)
  BY DEF Told
<1>2. Path(new, data, M, Len(str), d, exact)
  BY <1>1, PathStays
<1>3. QED
  BY ONLY <1>2, Ending(new, data, Len(str), d), Zenon DEF Complete

-----------------------------------------------------------------------------
(* LZ4: how much is written.                                               *)

\* The bytes of a length code are few.
LEMMA CodeIsShort ==
  ASSUME NEW n \in Nat, NEW short \in Nat, short <= n
  PROVE  /\ Len(lengthToken(n, short).more) \in Nat
         /\ LsicMax * Len(lengthToken(n, short).more) \in Nat
         /\ \/ Len(lengthToken(n, short).more) = 0
            \/ /\ n >= short + 1
               /\ LsicMax * Len(lengthToken(n, short).more) <= n - short - 1 + LsicMax
<1>1. PICK tok : tok = lengthToken(n, short)
  OBVIOUS
<1>2. Stands(tok.more, 0, tok.more)
  BY DEF Stands
<1>3. /\ tok.more \in Seq(Int)
      /\ n < short + TokenMax => Len(tok.more) = 0
      /\ n >= short + TokenMax => Len(tok.more) = (n - short - TokenMax) \div LsicMax + 1
  <2>1. CASE n < short + TokenMax
    <3>1. ~ (n >= TokenMax + short)
      BY ONLY <2>1, Lz4Constants, n \in Nat, short \in Nat
    <3>2. tok.more = << >>
      BY ONLY <1>1, <3>1 DEF lengthToken
    <3>3. ~ (n >= short + TokenMax)
      BY ONLY <2>1, Lz4Constants, n \in Nat, short \in Nat
    <3>4. QED
      BY ONLY <3>2, <3>3
  <2>2. CASE ~ (n < short + TokenMax)
    <3>1. n >= TokenMax + short /\ n >= short + TokenMax
      BY ONLY <2>2, Lz4Constants, n \in Nat, short \in Nat
    <3>2. PICK r \in Nat : r = n - short - TokenMax /\ r = n - (TokenMax + short)
      BY ONLY <3>1, Lz4Constants, n \in Nat, short \in Nat
    <3>3. tok.more = writeLSIC(r)
      BY ONLY <1>1, <3>1, <3>2 DEF lengthToken
    <3>4. Stands(writeLSIC(r), 0, writeLSIC(r))
      BY ONLY <1>2, <3>3
    <3>5. writeLSIC(r) \in Seq(Int) /\ Len(writeLSIC(r)) = r \div LsicMax + 1
      <4>1. 0 \in Nat
        OBVIOUS
      <4>2. QED
        BY ONLY <3>4, <4>1, CodeWritten, r \in Nat
    <3>6. QED
      BY ONLY <2>2, <3>2, <3>3, <3>5
  <2>3. QED
    BY ONLY <2>1, <2>2
<1>4. PICK x : x = Len(tok.more)
  OBVIOUS
<1>5. PICK L \in Nat \ {0} : L = LsicMax
  BY Lz4Constants
<1>6. x \in Nat /\ L * x \in Nat
  <2>1. x \in Nat
    BY ONLY <1>3, <1>4
  <2>2. QED
    BY ONLY <2>1, Product, L \in Nat \ {0}
<1>7. CASE n < short + TokenMax
  BY ONLY <1>1, <1>3, <1>4, <1>5, <1>6, <1>7
<1>8. CASE ~ (n < short + TokenMax)
  <2>1. PICK r \in Nat : r = n - short - TokenMax
    BY <1>8, Lz4Constants
  <2>2. r >= 0 /\ x = r \div L + 1
    BY ONLY <1>3, <1>4, <1>5, <1>8, <2>1, Lz4Constants, n \in Nat, short \in Nat
  <2>3. PICK q \in Nat : q = r \div L /\ L * q <= r
    <3>1. r \div L \in Nat
      BY ONLY DivNat, r \in Nat, L \in Nat \ {0}
    <3>2. L * (r \div L) <= r
      OBVIOUS
    <3>3. QED
      BY ONLY <3>1, <3>2, Zenon
  <2>4. L * x = L * q + L
    BY ONLY <2>2, <2>3, x \in Nat, q \in Nat, L \in Nat \ {0}
  <2>5. L * q \in Nat
    BY ONLY Product, L \in Nat \ {0}, q \in Nat
  <2>6. n >= short + 1 /\ L * x <= n - short - 1 + L
    BY <2>1, <2>3, <2>4, <2>5, Lz4Constants
  <2>7. QED
    BY ONLY <1>1, <1>4, <1>5, <1>6, <2>6
<1>9. QED
  BY ONLY <1>7, <1>8

\* For d bytes of data no more than d bytes and one for each LsicMax of them.
Bounded(str, d) == LsicMax * Len(str) <= LsicMax * d + d

\* A sequence keeps to that bound: its token and lengths cost no more than its match saves.
LEMMA SequenceCost ==
  ASSUME NEW k \in Nat, NEW d \in Nat, NEW l \in Nat, NEW m \in Nat, 4 <= m,
         LsicMax * k <= LsicMax * d + d, NEW u \in Nat, u = d + l + m,
         NEW n, n = k + CostOf(l, m)
  PROVE  LsicMax * n <= LsicMax * u + u
<1>1. PICK L \in Nat \ {0} : L = LsicMax
  BY Lz4Constants
<1>2. 0 \in Nat /\ 4 \in Nat /\ 0 <= l
  OBVIOUS
<1>3. PICK x \in Nat : x = Len(lengthToken(l, 0).more) /\ (x = 0 \/ (l >= 1 /\ L * x <= l - 1 + L))
  <2>1. /\ Len(lengthToken(l, 0).more) \in Nat
        /\ \/ Len(lengthToken(l, 0).more) = 0
           \/ /\ l >= 0 + 1
              /\ LsicMax * Len(lengthToken(l, 0).more) <= l - 0 - 1 + LsicMax
    BY ONLY <1>2, CodeIsShort, l \in Nat, Zenon
  <2>2. PICK x \in Nat : x = Len(lengthToken(l, 0).more)
    BY ONLY <2>1, Zenon
  <2>3. x = 0 \/ (l >= 0 + 1 /\ L * x <= l - 0 - 1 + L)
    BY ONLY <1>1, <2>1, <2>2, Zenon
  <2>4. x = 0 \/ (l >= 1 /\ L * x <= l - 1 + L)
    BY ONLY <2>3, l \in Nat, L \in Nat \ {0}, x \in Nat
  <2>5. QED
    BY ONLY <2>2, <2>4, Zenon
<1>4. PICK w \in Nat : w = Len(lengthToken(m, 4).more) /\ (w = 0 \/ (m >= 5 /\ L * w <= m - 5 + L))
  <2>1. /\ Len(lengthToken(m, 4).more) \in Nat
        /\ \/ Len(lengthToken(m, 4).more) = 0
           \/ /\ m >= 4 + 1
              /\ LsicMax * Len(lengthToken(m, 4).more) <= m - 4 - 1 + LsicMax
    BY ONLY <1>2, CodeIsShort, m \in Nat, 4 <= m, Zenon
  <2>2. PICK y \in Nat : y = Len(lengthToken(m, 4).more)
    BY ONLY <2>1, Zenon
  <2>3. y = 0 \/ (m >= 4 + 1 /\ L * y <= m - 4 - 1 + L)
    BY ONLY <1>1, <2>1, <2>2, Zenon
  <2>4. y = 0 \/ (m >= 5 /\ L * y <= m - 5 + L)
    BY ONLY <2>3, m \in Nat, L \in Nat \ {0}, y \in Nat
  <2>5. QED
    BY ONLY <2>2, <2>4, Zenon
<1>5. PICK nn \in Nat : nn = n /\ nn = k + 1 + x + l + 2 + w
  <2>1. k + 1 + x + l + 2 + w \in Nat
    OBVIOUS
  <2>2. n = k + 1 + x + l + 2 + w
    <3>1. CostOf(l, m) = 1 + x + l + 2 + w
      BY ONLY <1>3, <1>4 DEF CostOf
    <3>2. n = k + (1 + x + l + 2 + w)
      BY ONLY <3>1, n = k + CostOf(l, m)
    <3>3. QED
      BY ONLY <3>2, k \in Nat, x \in Nat, l \in Nat, w \in Nat
  <2>3. QED
    BY ONLY <2>1, <2>2, Zenon
<1>6. PICK lk \in Int, lx \in Int, ll \in Int, lw \in Int, ld \in Int, lm \in Int :
        lk = L * k /\ lx = L * x /\ ll = L * l /\ lw = L * w /\ ld = L * d /\ lm = L * m
  BY Product
<1>7. L * nn = lk + lx + ll + lw + 3 * L
  BY ONLY <1>5, <1>6, k \in Nat, x \in Nat, l \in Nat, w \in Nat, L \in Nat \ {0}
<1>8. L * u = ld + ll + lm
  BY ONLY <1>6, u = d + l + m, d \in Nat, l \in Nat, m \in Nat, L \in Nat \ {0}
<1>9. lk <= ld + d
  BY ONLY <1>1, <1>6, LsicMax * k <= LsicMax * d + d
<1>10. (lx = 0 \/ lx <= l - 1 + L) /\ (lw = 0 \/ (m >= 5 /\ lw <= m - 5 + L))
  <2>1. (x = 0 => lx = 0) /\ (w = 0 => lw = 0)
    BY ONLY <1>6, L \in Nat \ {0}
  <2>2. QED
    BY ONLY <1>3, <1>4, <1>6, <2>1
<1>11. lm >= 4 * L /\ (m >= 5 => lm >= 5 * L)
  <2>1. 4 * L <= m * L
    BY ONLY 4 <= m, m \in Nat, L \in Nat \ {0}, ProductLess
  <2>2. m >= 5 => 5 * L <= m * L
    <3>1. ASSUME m >= 5 PROVE 5 * L <= m * L
      <4>1. 5 \in Nat /\ L \in Nat /\ 5 <= m
        BY ONLY <3>1, m \in Nat, L \in Nat \ {0}
      <4>2. QED
        BY ONLY <4>1, m \in Nat, ProductLess
    <3>2. QED
      BY ONLY <3>1
  <2>3. m * L = lm
    BY ONLY <1>6, m \in Nat, L \in Nat \ {0}
  <2>4. QED
    BY ONLY <2>1, <2>2, <2>3
<1>12. lk + lx + ll + lw + 3 * L <= ld + ll + lm + u
  BY ONLY <1>9, <1>10, <1>11, 4 <= m, u = d + l + m, d \in Nat, l \in Nat, m \in Nat,
          L \in Nat \ {0}
<1>13. QED
  BY ONLY <1>1, <1>5, <1>7, <1>8, <1>12

\* The last literals cost their token and lengths.
LEMMA LastCost ==
  ASSUME NEW k \in Nat, NEW d \in Nat, NEW l \in Nat,
         LsicMax * k <= LsicMax * d + d, NEW u \in Nat, u = d + l,
         NEW n, n = k + LastCostOf(l)
  PROVE  n \in Nat /\ n <= u + 1 + RoundUpDiv(u, LsicMax)
<1>1. PICK L \in Nat \ {0} : L = LsicMax
  BY Lz4Constants
<1>2. 0 \in Nat /\ 0 <= l
  OBVIOUS
<1>3. PICK x \in Nat : x = Len(lengthToken(l, 0).more) /\ (x = 0 \/ (l >= 1 /\ L * x <= l - 1 + L))
  <2>1. /\ Len(lengthToken(l, 0).more) \in Nat
        /\ \/ Len(lengthToken(l, 0).more) = 0
           \/ /\ l >= 0 + 1
              /\ LsicMax * Len(lengthToken(l, 0).more) <= l - 0 - 1 + LsicMax
    BY ONLY <1>2, CodeIsShort, l \in Nat, Zenon
  <2>2. PICK x \in Nat : x = Len(lengthToken(l, 0).more)
    BY ONLY <2>1, Zenon
  <2>3. x = 0 \/ (l >= 0 + 1 /\ L * x <= l - 0 - 1 + L)
    BY ONLY <1>1, <2>1, <2>2, Zenon
  <2>4. x = 0 \/ (l >= 1 /\ L * x <= l - 1 + L)
    BY ONLY <2>3, l \in Nat, L \in Nat \ {0}, x \in Nat
  <2>5. QED
    BY ONLY <2>2, <2>4, Zenon
<1>5. PICK nn \in Nat : nn = n /\ nn = k + 1 + x + l
  <2>1. k + 1 + x + l \in Nat
    OBVIOUS
  <2>2. n = k + 1 + x + l
    <3>1. LastCostOf(l) = 1 + x + l
      BY ONLY <1>3 DEF LastCostOf
    <3>2. n = k + (1 + x + l)
      BY ONLY <3>1, n = k + LastCostOf(l)
    <3>3. QED
      BY ONLY <3>2, k \in Nat, x \in Nat, l \in Nat
  <2>3. QED
    BY ONLY <2>1, <2>2, Zenon
<1>6. PICK q \in Nat, r \in 0 .. L - 1 : q = u \div L /\ r = u % L /\ u = L * q + r
  <2>1. u \div L \in Int /\ u % L \in 0 .. L - 1 /\ u = L * (u \div L) + (u % L)
    BY ONLY DivMod, u \in Nat, L \in Nat \ {0}
  <2>2. u \div L \in Nat
    BY ONLY DivNat, u \in Nat, L \in Nat \ {0}
  <2>3. QED
    BY ONLY <2>1, <2>2, Zenon
<1>7. PICK c \in Nat : c = RoundUpDiv(u, L) /\ u <= L * c /\ L * c \in Nat
  <2>1. CASE r > 0
    <3>1. q + 1 \in Nat /\ RoundUpDiv(u, L) = q + 1
      BY ONLY <1>6, <2>1 DEF RoundUpDiv
    <3>2. L * (q + 1) = L * q + L /\ L * q \in Nat
      OBVIOUS
    <3>3. u <= L * (q + 1) /\ L * (q + 1) \in Nat
      BY ONLY <1>6, <3>2, r \in 0 .. L - 1
    <3>4. QED
      BY ONLY <3>1, <3>3, Zenon
  <2>2. CASE ~ (r > 0)
    <3>1. RoundUpDiv(u, L) = q /\ u = L * q
      BY ONLY <1>6, <2>2, r \in 0 .. L - 1 DEF RoundUpDiv
    <3>2. u <= L * q /\ L * q \in Nat
      BY ONLY <3>1, u \in Nat
    <3>3. QED
      BY ONLY <3>1, <3>2, Zenon
  <2>3. QED
    BY ONLY <2>1, <2>2
<1>8. PICK lk \in Int, lx \in Int, ll \in Int, ld \in Int, lc \in Int :
        lk = L * k /\ lx = L * x /\ ll = L * l /\ ld = L * d /\ lc = L * c
  BY Product
<1>9. L * nn = lk + lx + ll + L
  BY ONLY <1>5, <1>8, k \in Nat, x \in Nat, l \in Nat, L \in Nat \ {0}
<1>10. lk <= ld + d
  BY ONLY <1>1, <1>8, LsicMax * k <= LsicMax * d + d
<1>11. lx = 0 \/ lx <= l - 1 + L
  <2>1. x = 0 => lx = 0
    BY ONLY <1>8, L \in Nat \ {0}
  <2>2. QED
    BY ONLY <1>3, <1>8, <2>1
<1>12. L * (u + 1 + c) = ld + ll + lc + L
  BY ONLY <1>8, u = d + l, d \in Nat, l \in Nat, L \in Nat \ {0}, c \in Nat
<1>13. L * nn < L * (u + 1 + c) + L
  <2>1. u <= lc
    BY ONLY <1>7, <1>8
  <2>2. lk + lx + ll + L < ld + ll + lc + L + L
    BY ONLY <2>1, <1>10, <1>11, u = d + l, d \in Nat, l \in Nat, L \in Nat \ {0}
  <2>3. QED
    BY ONLY <1>9, <1>12, <2>2
<1>14. nn <= u + 1 + c
  <2>1. SUFFICES ASSUME ~ (nn <= u + 1 + c) PROVE FALSE
    OBVIOUS
  <2>2. PICK z \in Nat : z = u + 1 + c + 1 /\ z <= nn
    BY ONLY <2>1, nn \in Nat, u \in Nat, c \in Nat
  <2>3. z * L <= nn * L
    BY ONLY <2>2, ProductLess, nn \in Nat, L \in Nat \ {0}
  <2>4. z * L = L * (u + 1 + c) + L /\ nn * L = L * nn
    BY ONLY <2>2, nn \in Nat, u \in Nat, c \in Nat, L \in Nat \ {0}
  <2>5. L * nn \in Int /\ L * (u + 1 + c) \in Int
    OBVIOUS
  <2>6. QED
    BY ONLY <1>13, <2>3, <2>4, <2>5, L \in Nat \ {0}
<1>15. QED
  BY ONLY <1>1, <1>5, <1>7, <1>14

-----------------------------------------------------------------------------
(* LZ4: the units a compressor counts in.                                  *)

\* Whole units that n bytes take.
LEMMA RoundedUp ==
  ASSUME NEW n \in Nat, NEW m \in Nat \ {0}
  PROVE  /\ RoundUpDiv(n, m) \in Nat /\ n <= RoundUpDiv(n, m) * m
         /\ \A p \in Nat : p < RoundUpDiv(n, m) => p * m < n
         /\ RoundUpDiv(n, m) = 0 <=> n = 0
<1>1. PICK q \in Nat, r \in 0 .. m - 1 : q = n \div m /\ r = n % m /\ n = m * q + r
  <2>1. n \div m \in Int /\ n % m \in 0 .. m - 1 /\ n = m * (n \div m) + (n % m)
    BY ONLY DivMod, n \in Nat, m \in Nat \ {0}
  <2>2. n \div m \in Nat
    BY ONLY DivNat, n \in Nat, m \in Nat \ {0}
  <2>3. QED
    BY ONLY <2>1, <2>2, Zenon
<1>2. PICK c \in Nat : c = RoundUpDiv(n, m) /\ (r > 0 => c = q + 1) /\ (~ (r > 0) => c = q)
  <2>1. RoundUpDiv(n, m) = q + (IF r > 0 THEN 1 ELSE 0)
    BY ONLY <1>1 DEF RoundUpDiv
  <2>2. QED
    BY ONLY <2>1, q \in Nat, r \in 0 .. m - 1
<1>3. n <= c * m
  <2>1. CASE r > 0
    <3>1. c * m = m * q + m
      BY ONLY <1>2, <2>1, q \in Nat, m \in Nat \ {0}
    <3>2. QED
      BY ONLY <1>1, <3>1, q \in Nat, m \in Nat \ {0}, r \in 0 .. m - 1
  <2>2. CASE ~ (r > 0)
    BY ONLY <1>1, <1>2, <2>2, q \in Nat, m \in Nat \ {0}, r \in 0 .. m - 1
  <2>3. QED
    BY ONLY <2>1, <2>2
<1>4. ASSUME NEW p \in Nat, p < c PROVE p * m < n
  <2>1. CASE r > 0
    <3>1. p <= q
      BY ONLY <1>2, <1>4, <2>1, q \in Nat, c \in Nat, p \in Nat
    <3>2. p * m <= q * m
      BY ONLY <3>1, ProductLess, p \in Nat, q \in Nat, m \in Nat \ {0}
    <3>3. QED
      BY ONLY <1>1, <2>1, <3>2, p \in Nat, q \in Nat, m \in Nat \ {0}, r \in 0 .. m - 1
  <2>2. CASE ~ (r > 0)
    <3>1. p + 1 <= q /\ p + 1 \in Nat
      BY ONLY <1>2, <1>4, <2>2, q \in Nat, c \in Nat, p \in Nat
    <3>2. (p + 1) * m <= q * m
      BY ONLY <3>1, ProductLess, q \in Nat, m \in Nat \ {0}
    <3>3. (p + 1) * m = p * m + m
      BY ONLY p \in Nat, m \in Nat \ {0}
    <3>4. QED
      BY ONLY <1>1, <2>2, <3>2, <3>3, p \in Nat, q \in Nat, m \in Nat \ {0}, r \in 0 .. m - 1
  <2>3. QED
    BY ONLY <2>1, <2>2
<1>5. c = 0 <=> n = 0
  <2>1. ASSUME n = 0 PROVE c = 0
    <3>1. 0 < c => 0 * m < n
      BY ONLY <1>4
    <3>2. 0 * m = 0
      BY ONLY m \in Nat \ {0}
    <3>3. QED
      BY ONLY <2>1, <3>1, <3>2, c \in Nat
  <2>2. ASSUME c = 0 PROVE n = 0
    BY ONLY <1>3, <2>2, n \in Nat, m \in Nat \ {0}
  <2>3. QED
    BY ONLY <2>1, <2>2
<1>6. QED
  BY ONLY <1>2, <1>3, <1>4, <1>5

\* The ends of a block.
LEMMA Margins ==
  /\ last_valid_match(1) = 12 /\ min_ending_literals(1) = 5 /\ 3 \div 1 = 3
  /\ last_valid_match(2) = 6 /\ min_ending_literals(2) = 3 /\ 3 \div 2 = 1
  /\ last_valid_match(4) = 3 /\ min_ending_literals(4) = 2 /\ 3 \div 4 = 0
<1>1. 12 \div 1 = 12 /\ 12 % 1 = 0 /\ 5 \div 1 = 5 /\ 5 % 1 = 0 /\ 3 \div 1 = 3
  OBVIOUS
<1>2. 12 \div 2 = 6 /\ 12 % 2 = 0 /\ 5 \div 2 = 2 /\ 5 % 2 = 1 /\ 3 \div 2 = 1
  OBVIOUS
<1>3. 12 \div 4 = 3 /\ 12 % 4 = 0 /\ 5 \div 4 = 1 /\ 5 % 4 = 1 /\ 3 \div 4 = 0
  OBVIOUS
<1>4. QED
  BY ONLY <1>1, <1>2, <1>3 DEF last_valid_match, min_ending_literals, RoundUpDiv

-----------------------------------------------------------------------------
(* LZ4: the hash of a word is an entry of the table.                       *)

\* The sums of the first numbers of f.
IsSum(h, f, n) == h = [k \in 0 .. n |-> IF k = 0 THEN 0 ELSE h[k - 1] + f[k - 1]]

\* They exist.
LEMMA SumExists ==
  ASSUME NEW f, NEW n \in Nat
  PROVE  \E h : IsSum(h, f, n)
<1>. DEFINE S == {i \in Nat : \E h : IsSum(h, f, i)}
<1>1. 0 \in S
  <2>1. IsSum([k \in 0 .. 0 |-> 0], f, 0)
    BY DEF IsSum
  <2>2. QED
    BY <2>1
<1>2. ASSUME NEW i \in Nat, i >= 0 /\ i \in S PROVE i + 1 \in S
  <2>1. PICK h : IsSum(h, f, i)
    BY <1>2
  <2>2. /\ h = [k \in 0 .. i |-> IF k = 0 THEN 0 ELSE h[k - 1] + f[k - 1]]
    BY <2>1 DEF IsSum
  <2>3. PICK g : g = [k \in 0 .. i + 1 |-> IF k <= i THEN h[k] ELSE h[i] + f[i]]
    OBVIOUS
  <2>4. ASSUME NEW k \in 0 .. i + 1
        PROVE  g[k] = IF k = 0 THEN 0 ELSE g[k - 1] + f[k - 1]
    <3>1. CASE k <= i
      <4>1. k \in 0 .. i /\ (k # 0 => k - 1 \in 0 .. i)
        BY <3>1
      <4>2. g[k] = h[k] /\ (k # 0 => g[k - 1] = h[k - 1])
        BY <2>3, <4>1
      <4>3. h[k] = IF k = 0 THEN 0 ELSE h[k - 1] + f[k - 1]
        BY <2>2, <4>1
      <4>4. QED
        BY ONLY <4>2, <4>3
    <3>2. CASE ~ (k <= i)
      <4>1. k = i + 1 /\ k # 0 /\ k - 1 = i /\ i \in 0 .. i + 1 /\ i <= i
        BY <3>2
      <4>2. g[k] = h[i] + f[i] /\ g[i] = h[i]
        BY <2>3, <3>2, <4>1
      <4>3. QED
        BY ONLY <4>1, <4>2
    <3>3. QED
      BY <3>1, <3>2
  <2>5. g = [k \in 0 .. i + 1 |-> IF k = 0 THEN 0 ELSE g[k - 1] + f[k - 1]]
    BY <2>3, <2>4
  <2>6. IsSum(g, f, i + 1)
    BY <2>5 DEF IsSum
  <2>7. QED
    BY <2>6
<1>3. \A i \in Nat : i >= 0 => i \in S
  BY <1>1, <1>2, SFP!Induction
<1>4. QED
  BY <1>3

\* A sum of whole numbers is one.
LEMMA TotalIsInt ==
  ASSUME NEW f, NEW n \in Nat, \A k \in 0 .. n - 1 : f[k] \in Int
  PROVE  Total(f, n) \in Int
<1>1. PICK h : h = CHOOSE g : IsSum(g, f, n)
  OBVIOUS
<1>2. IsSum(h, f, n)
  BY <1>1, SumExists
<1>3. Total(f, n) = h[n]
  BY <1>1 DEF Total, IsSum
<1>. DEFINE S == {i \in Nat : i <= n => h[i] \in Int}
<1>4. 0 \in S
  BY <1>2 DEF IsSum
<1>5. ASSUME NEW i \in Nat, i >= 0 /\ i \in S PROVE i + 1 \in S
  <2>1. SUFFICES ASSUME i + 1 <= n PROVE h[i + 1] \in Int
    OBVIOUS
  <2>2. i \in 0 .. n - 1 /\ i + 1 \in 0 .. n /\ i + 1 # 0 /\ i + 1 - 1 = i
    BY <2>1
  <2>3. h[i + 1] = h[i] + f[i]
    BY <1>2, <2>2 DEF IsSum
  <2>4. h[i] \in Int /\ f[i] \in Int
    BY <1>5, <2>2
  <2>5. QED
    BY ONLY <2>3, <2>4
<1>6. \A i \in Nat : i >= 0 => i \in S
  BY <1>4, <1>5, SFP!Induction
<1>7. n \in S
  BY <1>6
<1>8. QED
  BY <1>3, <1>7

\* The first powers of two.
LEMMA Powers == \A i \in 0 .. 7 : 2 ^ i \in Nat \ {0}
<1>1. /\ 2 ^ 0 = 1 /\ 2 ^ 1 = 2 /\ 2 ^ 2 = 4 /\ 2 ^ 3 = 8
      /\ 2 ^ 4 = 16 /\ 2 ^ 5 = 32 /\ 2 ^ 6 = 64 /\ 2 ^ 7 = 128
  OBVIOUS
<1>2. \A i \in 0 .. 7 : i = 0 \/ i = 1 \/ i = 2 \/ i = 3 \/ i = 4 \/ i = 5 \/ i = 6 \/ i = 7
  OBVIOUS
<1>3. TAKE i \in 0 .. 7
<1>4. 2 ^ i = 1 \/ 2 ^ i = 2 \/ 2 ^ i = 4 \/ 2 ^ i = 8
        \/ 2 ^ i = 16 \/ 2 ^ i = 32 \/ 2 ^ i = 64 \/ 2 ^ i = 128
  BY <1>1, <1>2, ZenonT(40)
<1>5. QED
  BY ONLY <1>4

\* A hash is less than the size.
LEMMA HashIsEntry ==
  ASSUME NEW key, key[1] \in Int, key[4] \in Int, NEW size \in Nat \ {0}
  PROVE  hash(key, size) \in 0 .. size - 1
<1>1. ASSUME NEW i \in 0 .. 7, NEW n \in Int PROVE Bit(n, i) \in Int
  <2>1. PICK p \in Nat \ {0} : p = 2 ^ i
    BY Powers
  <2>2. (n \div p) % 2 \in Int
    OBVIOUS
  <2>3. QED
    BY ONLY <2>1, <2>2 DEF Bit
<1>2. ASSUME NEW i \in 0 .. 7 PROVE Bit(key[4], i) * 2 ^ (7 - i) \in Int
  <2>1. Bit(key[4], i) \in Int
    BY <1>1
  <2>2. 7 - i \in 0 .. 7
    OBVIOUS
  <2>3. 2 ^ (7 - i) \in Nat \ {0}
    BY ONLY <2>2, Powers
  <2>4. QED
    BY <2>1, <2>3
<1>3. ASSUME NEW i \in 0 .. 7 PROVE ((Bit(key[1], i) + Bit(117, i)) % 2) * 2 ^ i \in Int
  <2>1. Bit(key[1], i) \in Int /\ Bit(117, i) \in Int
    <3>1. 117 \in Int
      OBVIOUS
    <3>2. QED
      BY <1>1, <3>1, Zenon
  <2>2. PICK p \in Nat \ {0} : p = 2 ^ i
    BY Powers
  <2>3. ((Bit(key[1], i) + Bit(117, i)) % 2) \in Int
    BY <2>1
  <2>4. QED
    BY <2>2, <2>3
<1>4. PICK f : f = [i \in 0 .. 7 |-> Bit(key[4], i) * 2 ^ (7 - i)]
  OBVIOUS
<1>5. PICK g : g = [i \in 0 .. 7 |-> ((Bit(key[1], i) + Bit(117, i)) % 2) * 2 ^ i]
  OBVIOUS
<1>6. 8 \in Nat /\ 8 - 1 = 7
  OBVIOUS
<1>7. Total(f, 8) \in Int
  <2>1. \A i \in 0 .. 8 - 1 : f[i] \in Int
    BY <1>2, <1>4, <1>6
  <2>2. QED
    BY <1>6, <2>1, TotalIsInt
<1>8. Total(g, 8) \in Int
  <2>1. \A i \in 0 .. 8 - 1 : g[i] \in Int
    BY <1>3, <1>5, <1>6
  <2>2. QED
    BY <1>6, <2>1, TotalIsInt
<1>9. hash(key, size) = (Total(f, 8) + Total(g, 8)) % size
  BY <1>4, <1>5 DEF hash
<1>10. \A n \in Int : n % size \in 0 .. size - 1
  OBVIOUS
<1>11. QED
  BY <1>7, <1>8, <1>9, <1>10

-----------------------------------------------------------------------------
(* LZ4: where a match lies, and how long it is.                            *)

\* The margins of a block for an element of T bytes.
LEMMA Unit ==
  ASSUME NEW T \in {1, 2, 4}
  PROVE  /\ T \in Nat \ {0} /\ 3 \div T \in 0 .. 3
         /\ last_valid_match(T) \in Nat /\ last_valid_match(T) * T = 12
         /\ min_ending_literals(T) \in Nat /\ 1 <= min_ending_literals(T)
         /\ \E c \in Nat : c * T = 4 /\ c + min_ending_literals(T) <= last_valid_match(T) + 1
<1>1. CASE T = 1
  <2>1. 4 * 1 = 4 /\ 4 + 5 <= 12 + 1 /\ 4 \in Nat /\ 12 * 1 = 12
    OBVIOUS
  <2>2. QED
    BY <1>1, <2>1, Margins
<1>2. CASE T = 2
  <2>1. 2 * 2 = 4 /\ 2 + 3 <= 6 + 1 /\ 2 \in Nat /\ 6 * 2 = 12
    OBVIOUS
  <2>2. QED
    BY <1>2, <2>1, Margins
<1>3. CASE T = 4
  <2>1. 1 * 4 = 4 /\ 1 + 2 <= 3 + 1 /\ 1 \in Nat /\ 3 * 4 = 12
    OBVIOUS
  <2>2. QED
    BY <1>3, <2>1, Margins
<1>4. QED
  BY <1>1, <1>2, <1>3

\* The table remembers positions before at, of which it keeps what an offset holds.
TableOK(table, n, at) ==
  /\ table \in [0 .. n - 1 -> 0 .. MAX_OFFSET]
  /\ \A h \in 0 .. n - 1 :
        table[h] = NULL_OFFSET \/ \E p \in 0 .. at - 1 : table[h] = p % OffsetRange

\* A position behind is found again, or one that lies behind as well.
LEMMA ConvertBehind ==
  ASSUME NEW pos \in Nat, NEW p \in Nat, p < pos
  PROVE  convertIdx(p % OffsetRange, pos) \in 0 .. pos - 1
<1>1. PICK R \in Nat \ {0} : R = OffsetRange
  BY Lz4Constants
<1>2. PICK q \in Nat, r \in 0 .. R - 1 : q = pos \div R /\ pos = R * q + r
  <2>1. pos \div R \in Int /\ pos % R \in 0 .. R - 1 /\ pos = R * (pos \div R) + (pos % R)
    BY ONLY DivMod, pos \in Nat, R \in Nat \ {0}
  <2>2. pos \div R \in Nat
    BY ONLY DivNat, pos \in Nat, R \in Nat \ {0}
  <2>3. QED
    BY ONLY <2>1, <2>2, Zenon
<1>3. PICK e \in 0 .. R - 1 : e = p % R
  <2>1. p % R \in 0 .. R - 1
    OBVIOUS
  <2>2. QED
    BY ONLY <2>1, Zenon
<1>4. PICK x \in Int : x = q * R + e /\ (q = 0 => x = e) /\ (q >= 1 => x >= R) /\ x - R < pos
  <2>1. PICK y \in Int : y = R * q /\ y = q * R /\ (q = 0 => y = 0) /\ (q >= 1 => y >= R)
    <3>1. R * q \in Int /\ R * q = q * R /\ (q = 0 => R * q = 0)
      OBVIOUS
    <3>2. q >= 1 => R * q >= R
      <4>1. ASSUME q >= 1 PROVE 1 * R <= q * R
        <5>1. 1 \in Nat /\ R \in Nat /\ 1 <= q
          BY ONLY <4>1, q \in Nat, R \in Nat \ {0}
        <5>2. QED
          BY ONLY <5>1, ProductLess, q \in Nat
      <4>2. 1 * R = R /\ q * R = R * q
        OBVIOUS
      <4>3. QED
        BY ONLY <4>1, <4>2
    <3>3. QED
      BY ONLY <3>1, <3>2, Zenon
  <2>2. y + e \in Int /\ y + e - R < pos /\ (q = 0 => y + e = e) /\ (q >= 1 => y + e >= R)
    BY ONLY <1>2, <2>1, r \in 0 .. R - 1, e \in 0 .. R - 1, R \in Nat \ {0}, q \in Nat, pos \in Nat
  <2>3. PICK x \in Int : x = y + e
    BY ONLY <2>2, Zenon
  <2>4. x = q * R + e /\ (q = 0 => x = e) /\ (q >= 1 => x >= R) /\ x - R < pos
    BY ONLY <2>1, <2>2, <2>3
  <2>5. QED
    BY ONLY <2>4, Zenon
<1>5. convertIdx(e, pos) = IF x >= pos THEN x - R ELSE x
  BY ONLY <1>1, <1>2, <1>4 DEF convertIdx
<1>6. CASE q >= 1
  BY ONLY <1>1, <1>3, <1>4, <1>5, <1>6, x \in Int, pos \in Nat, R \in Nat \ {0}
<1>7. CASE q = 0
  <2>1. p < R
    BY ONLY <1>2, <1>7, p < pos, p \in Nat, pos \in Nat, R \in Nat \ {0}, r \in 0 .. R - 1
  <2>2. p % R = p
    BY ONLY <2>1, p \in Nat, R \in Nat \ {0}
  <2>3. x = p
    BY ONLY <1>3, <1>4, <1>7, <2>2
  <2>4. QED
    BY ONLY <1>1, <1>3, <1>5, <2>3, p < pos, p \in Nat, pos \in Nat
<1>8. QED
  BY ONLY <1>6, <1>7, q \in Nat

\* Positions that are stored keep the table.
LEMMA TableAfter ==
  ASSUME NEW n \in Nat \ {0}, NEW at \in Nat, NEW table, TableOK(table, n, at), NEW words,
         NEW count \in Nat
  PROVE  TableOK(insertHashTableWarp(table, at, words, count), n, at + count)
<1>1. PICK R \in Nat \ {0} : R = OffsetRange
  BY Lz4Constants
<1>2. DOMAIN table = 0 .. n - 1
  BY DEF TableOK
<1>3. PICK new : new = insertHashTableWarp(table, at, words, count)
  OBVIOUS
<1>. DEFINE same(h) == {i \in 0 .. count - 1 : hash(words[i], Cardinality(DOMAIN table)) = h}
<1>4. new = [h \in 0 .. n - 1 |-> IF same(h) = {} THEN table[h] ELSE (at + Max(same(h))) % R]
  BY ONLY <1>1, <1>2, <1>3 DEF insertHashTableWarp
<1>5. \A h : same(h) \subseteq 0 .. count - 1
  OBVIOUS
<1>. HIDE DEF same
<1>6. ASSUME NEW h \in 0 .. n - 1
      PROVE  /\ new[h] \in 0 .. MAX_OFFSET
             /\ new[h] = NULL_OFFSET \/ \E p \in 0 .. at + count - 1 : new[h] = p % R
  <2>1. CASE same(h) = {}
    <3>1. new[h] = table[h]
      BY ONLY <1>4, <2>1, h \in 0 .. n - 1
    <3>2. table[h] \in 0 .. MAX_OFFSET
      BY DEF TableOK
    <3>3. table[h] = NULL_OFFSET \/ \E p \in 0 .. at - 1 : table[h] = p % R
      BY <1>1 DEF TableOK
    <3>4. \A p \in 0 .. at - 1 : p \in 0 .. at + count - 1
      OBVIOUS
    <3>5. QED
      BY ONLY <3>1, <3>2, <3>3, <3>4, Zenon
  <2>2. CASE same(h) # {}
    <3>1. PICK i : i = Max(same(h))
      OBVIOUS
    <3>2. i \in 0 .. count - 1
      <4>1. same(h) \subseteq 0 .. count
        BY <1>5
      <4>2. Max(same(h)) \in same(h)
        BY ONLY <2>2, <4>1, MaxIs, count \in Nat
      <4>3. QED
        BY ONLY <1>5, <3>1, <4>2
    <3>3. PICK p \in 0 .. at + count - 1 : p = at + i
      BY <3>2
    <3>4. new[h] = p % R
      BY ONLY <1>4, <2>2, <3>1, <3>3, h \in 0 .. n - 1
    <3>5. p % R \in 0 .. R - 1
      BY ONLY p \in 0 .. at + count - 1, at \in Nat, count \in Nat, R \in Nat \ {0}
    <3>6. R - 1 = MAX_OFFSET
      BY ONLY <1>1, Lz4Constants
    <3>7. QED
      BY ONLY <3>4, <3>5, <3>6
  <2>3. QED
    BY ONLY <2>1, <2>2
<1>7. new \in [0 .. n - 1 -> 0 .. MAX_OFFSET]
  BY ONLY <1>4, <1>6
<1>8. TableOK(new, n, at + count)
  <2>1. \A h \in 0 .. n - 1 :
          new[h] = NULL_OFFSET \/ \E p \in 0 .. at + count - 1 : new[h] = p % OffsetRange
    BY ONLY <1>1, <1>6, Zenon
  <2>2. QED
    BY ONLY <1>7, <2>1 DEF TableOK
<1>9. QED
  BY ONLY <1>3, <1>8

\* A word that lies in the data.
LEMMA WordAt ==
  ASSUME NEW data \in Seq(Nat), NEW T, NEW i, NEW b \in Nat, b = i * T, b + 4 <= Len(data)
  PROVE  Cut(word(data, T, i), data, b, 4)
<1>1. word(data, T, i) = SubSeq(data, b + 1, b + 4)
  <2>1. ~ (b < 0)
    OBVIOUS
  <2>2. QED
    BY <2>1 DEF word, Bytes
<1>2. 4 \in Nat
  OBVIOUS
<1>3. /\ SubSeq(data, b + 1, b + 4) \in Seq(Int) /\ Len(SubSeq(data, b + 1, b + 4)) = 4
      /\ \A k \in 1 .. 4 : SubSeq(data, b + 1, b + 4)[k] = data[b + k]
  BY ONLY <1>2, LiteralsCut, data \in Seq(Nat), b \in Nat, b + 4 <= Len(data)
<1>4. QED
  BY ONLY <1>1, <1>3 DEF Cut

\* An element that lies in the data.
LEMMA ElementAt ==
  ASSUME NEW data \in Seq(Nat), NEW T \in Nat, NEW i \in Nat, NEW b \in Nat, b = i * T,
         b + T <= Len(data)
  PROVE  Element(data, T, i) = [k \in 1 .. T |-> data[b + k]]
<1>1. Element(data, T, i) = SubSeq(data, b + 1, b + T)
  <2>1. ~ (b < 0) /\ (i + 1) * T = b + T
    OBVIOUS
  <2>2. QED
    BY ONLY <2>1, b = i * T DEF Element, Bytes
<1>2. PICK s : s = SubSeq(data, b + 1, b + T)
  OBVIOUS
<1>3. s \in Seq(Int) /\ Len(s) = T /\ \A k \in 1 .. T : s[k] = data[b + k]
  BY ONLY <1>2, LiteralsCut, data \in Seq(Nat), b \in Nat, T \in Nat, b + T <= Len(data)
<1>4. s = [k \in 1 .. T |-> data[b + k]]
  <2>1. s = [k \in 1 .. Len(s) |-> s[k]]
    BY ONLY <1>3
  <2>2. QED
    BY ONLY <1>3, <2>1
<1>5. QED
  BY ONLY <1>1, <1>2, <1>4

\* An element in front of the last one lies in the data.
LEMMA ElementInside ==
  ASSUME NEW T \in Nat \ {0}, NEW N \in Nat, NEW x \in Nat, NEW E \in Nat, x + 1 < E,
         \A p \in Nat : p < E => p * T < N
  PROVE  x * T \in Nat /\ x * T + T <= N
<1>1. x + 1 \in Nat /\ (x + 1) * T = x * T + T /\ x * T \in Nat
  OBVIOUS
<1>2. (x + 1) * T < N
  BY ONLY <1>1, x + 1 < E, \A p \in Nat : p < E => p * T < N
<1>3. QED
  BY ONLY <1>1, <1>2, T \in Nat \ {0}, N \in Nat

\* Byte k of a run of elements is a byte of one of them.
LEMMA ByteOfElement ==
  ASSUME NEW T \in Nat \ {0}, NEW num \in Nat, NEW k \in 1 .. num * T
  PROVE  \E j \in 0 .. num - 1, i \in 1 .. T : k = j * T + i
<1>1. PICK e \in Nat : e = k - 1 /\ e < num * T /\ num * T \in Nat
  <2>1. num * T \in Nat
    OBVIOUS
  <2>2. k \in Nat /\ 1 <= k /\ k <= num * T
    BY <2>1
  <2>3. k - 1 \in Nat /\ k - 1 < num * T
    BY <2>1, <2>2
  <2>4. QED
    BY ONLY <2>1, <2>3, Zenon
<1>2. PICK j \in Nat, r \in 0 .. T - 1 : e = T * j + r
  <2>1. e \div T \in Int /\ e % T \in 0 .. T - 1 /\ e = T * (e \div T) + (e % T)
    BY ONLY DivMod, e \in Nat, T \in Nat \ {0}
  <2>2. e \div T \in Nat
    BY ONLY DivNat, e \in Nat, T \in Nat \ {0}
  <2>3. QED
    BY ONLY <2>1, <2>2, Zenon
<1>3. j < num
  <2>1. SUFFICES ASSUME ~ (j < num) PROVE FALSE
    OBVIOUS
  <2>2. num <= j
    BY ONLY <2>1, num \in Nat, j \in Nat
  <2>3. num * T <= j * T /\ j * T = T * j /\ T * j \in Nat
    BY ONLY <2>2, ProductLess, num \in Nat, j \in Nat, T \in Nat \ {0}
  <2>4. QED
    BY ONLY <1>1, <1>2, <2>3, e \in Nat, r \in 0 .. T - 1, T \in Nat \ {0}
<1>4. PICK i \in 1 .. T : i = r + 1
  OBVIOUS
<1>5. j \in 0 .. num - 1
  BY ONLY <1>3, j \in Nat, num \in Nat
<1>6. k = j * T + i
  <2>1. j * T = T * j /\ T * j \in Nat
    OBVIOUS
  <2>2. k = e + 1
    BY <1>1
  <2>3. QED
    BY ONLY <1>2, <1>4, <2>1, <2>2, r \in 0 .. T - 1, e \in Nat
<1>7. QED
  BY ONLY <1>5, <1>6, Zenon

\* Byte i of an element of a run is a byte of the run.
LEMMA ElementOfRun ==
  ASSUME NEW T \in Nat \ {0}, NEW c \in Nat, NEW j \in 0 .. c - 1, NEW i \in 1 .. T
  PROVE  j * T + i \in 1 .. c * T
<1>1. j \in Nat /\ j + 1 \in Nat /\ j + 1 <= c
  OBVIOUS
<1>2. (j + 1) * T <= c * T
  BY ONLY <1>1, ProductLess, c \in Nat, T \in Nat \ {0}
<1>3. (j + 1) * T = j * T + T /\ j * T \in Nat /\ c * T \in Nat
  BY ONLY <1>1, c \in Nat, T \in Nat \ {0}
<1>4. QED
  BY ONLY <1>2, <1>3, i \in 1 .. T, T \in Nat \ {0}

\* Two elements are equal if their bytes are.
SameBytes(data, a, b, n) == \A k \in 1 .. n : data[a + k] = data[b + k]

\* That decides between elements at any two places.
LEMMA ElementsEqual ==
  ASSUME NEW data \in Seq(Nat), NEW T \in Nat \ {0}, NEW x \in Nat, NEW y \in Nat,
         NEW a \in Nat, a = x * T, a + T <= Len(data),
         NEW b \in Nat, b = y * T, b + T <= Len(data)
  PROVE  Element(data, T, x) = Element(data, T, y) <=> SameBytes(data, a, b, T)
<1>1. Element(data, T, x) = [k \in 1 .. T |-> data[a + k]]
  BY ElementAt
<1>2. Element(data, T, y) = [k \in 1 .. T |-> data[b + k]]
  BY ElementAt
<1>3. QED
  BY ONLY <1>1, <1>2 DEF SameBytes

\* Two places in the data with the same four bytes.
Twins(data, T, E, prev, next) ==
  /\ E = RoundUpDiv(Len(data), T) /\ next + last_valid_match(T) < E
  /\ word(data, T, prev) = word(data, T, next)

\* A match is four bytes at least, ends before the last literals, and is one.
LEMMA MatchIsLong ==
  ASSUME NEW data \in Seq(Nat), NEW T \in {1, 2, 4}, NEW E \in Nat, NEW prev \in Nat,
         NEW next \in Nat, prev < next, Twins(data, T, E, prev, next)
  PROVE  \E num \in Nat :
           /\ num = lengthOfMatch(data, T, prev, next, E)
           /\ 4 <= num * T /\ next + num < E
           /\ SameBytes(data, next * T, prev * T, num * T)
<1>1. PICK U \in Nat \ {0}, c \in Nat, lv \in Nat, me \in Nat :
        /\ U = T /\ c * U = 4 /\ lv = last_valid_match(U) /\ me = min_ending_literals(U)
        /\ lv * U = 12 /\ 1 <= me /\ c + me <= lv + 1
  BY Unit
<1>3. PICK N \in Nat : N = Len(data)
  OBVIOUS
<1>4. E = RoundUpDiv(N, U) /\ next + lv < E /\ word(data, U, prev) = word(data, U, next)
  BY ONLY <1>1, <1>3, Twins(data, T, E, prev, next) DEF Twins
<1>5. \A p \in Nat : p < E => p * U < N
  BY ONLY <1>4, RoundedUp, N \in Nat, U \in Nat \ {0}
<1>6. PICK r \in Nat : r = E - next - me /\ c <= r /\ next + r < E
  <2>1. next + lv < E /\ 1 <= me /\ c + me <= lv + 1
    BY ONLY <1>1, <1>4, Zenon
  <2>2. E - next - me \in Nat /\ c <= E - next - me /\ next + (E - next - me) < E
    BY ONLY <2>1, c \in Nat, lv \in Nat, me \in Nat, E \in Nat, next \in Nat
  <2>3. QED
    BY ONLY <2>2, Zenon
<1>7. PICK S : S = {j \in 0 .. r - 1 : Element(data, U, prev + j) # Element(data, U, next + j)}
  OBVIOUS
<1>8. lengthOfMatch(data, U, prev, next, E) = Least(S, r)
  BY ONLY <1>1, <1>6, <1>7 DEF lengthOfMatch
<1>9. S \subseteq 0 .. r - 1
  BY ONLY <1>7
<1>10. PICK num \in 0 .. r : num = Least(S, r) /\ (num # r => num \in S) /\ \A y \in S : num <= y
  <2>1. /\ Least(S, r) \in 0 .. r /\ (Least(S, r) # r => Least(S, r) \in S)
        /\ \A y \in S : Least(S, r) <= y
    BY ONLY <1>9, LeastIs, r \in Nat, Zenon
  <2>2. QED
    BY ONLY <2>1, Zenon
<1>11. PICK pb \in Nat, nb \in Nat : pb = prev * U /\ nb = next * U /\ pb <= nb
  <2>1. prev <= next
    BY ONLY prev < next, prev \in Nat, next \in Nat
  <2>2. prev * U <= next * U
    BY ONLY <2>1, ProductLess, prev \in Nat, next \in Nat, U \in Nat \ {0}
  <2>3. prev * U \in Nat /\ next * U \in Nat
    BY ONLY Product, prev \in Nat, next \in Nat, U \in Nat \ {0}
  <2>4. QED
    BY ONLY <2>2, <2>3, Zenon
<1>12. ASSUME NEW j \in 0 .. r - 1
       PROVE  (j \in S) <=> ~ SameBytes(data, pb + j * U, nb + j * U, U)
  <2>1. PICK x \in Nat, y \in Nat : x = prev + j /\ y = next + j
    OBVIOUS
  <2>2. x + 1 < E /\ y + 1 < E
    BY ONLY <1>6, <2>1, prev < next, j \in 0 .. r - 1, E \in Nat, prev \in Nat, next \in Nat,
            r \in Nat
  <2>3. x * U \in Nat /\ x * U + U <= N /\ y * U \in Nat /\ y * U + U <= N
    BY ONLY <1>5, <2>2, ElementInside, U \in Nat \ {0}, N \in Nat, E \in Nat, x \in Nat, y \in Nat
  <2>4. x * U = pb + j * U /\ y * U = nb + j * U
    BY ONLY <1>11, <2>1, Distribute, j \in 0 .. r - 1, prev \in Nat, next \in Nat, U \in Nat \ {0}
  <2>5. PICK a \in Nat, b \in Nat : a = x * U /\ b = y * U
    BY ONLY <2>3, Zenon
  <2>6. a + U <= Len(data) /\ b + U <= Len(data)
    BY ONLY <1>3, <2>3, <2>5
  <2>7. Element(data, U, x) = Element(data, U, y) <=> SameBytes(data, a, b, U)
    BY ONLY <2>5, <2>6, ElementsEqual, data \in Seq(Nat), U \in Nat \ {0}, x \in Nat, y \in Nat
  <2>8. j \in S <=> Element(data, U, x) # Element(data, U, y)
    BY ONLY <1>7, <2>1, j \in 0 .. r - 1
  <2>9. QED
    BY ONLY <2>4, <2>5, <2>7, <2>8, Zenon
<1>13. SameBytes(data, pb, nb, 4)
  <2>1. nb + 4 <= N /\ pb + 4 <= N
    <3>1. next + lv \in Nat /\ (next + lv) * U < N
      BY ONLY <1>4, <1>5, next \in Nat, lv \in Nat
    <3>2. (next + lv) * U = nb + 12
      BY ONLY <1>1, <1>11, Distribute, next \in Nat, lv \in Nat, U \in Nat \ {0}, SMTT(30)
    <3>3. QED
      BY ONLY <1>11, <3>1, <3>2, N \in Nat, pb \in Nat, nb \in Nat
  <2>2. /\ \A k \in 1 .. 4 : word(data, U, prev)[k] = data[pb + k]
        /\ \A k \in 1 .. 4 : word(data, U, next)[k] = data[nb + k]
    <3>1. pb = prev * U /\ nb = next * U /\ nb + 4 <= Len(data) /\ pb + 4 <= Len(data)
      BY ONLY <1>3, <1>11, <2>1
    <3>2. Cut(word(data, U, prev), data, pb, 4) /\ Cut(word(data, U, next), data, nb, 4)
      BY ONLY <3>1, WordAt, data \in Seq(Nat), pb \in Nat, nb \in Nat, Zenon
    <3>3. QED
      BY ONLY <3>2 DEF Cut
  <2>3. QED
    BY ONLY <1>4, <2>2 DEF SameBytes
<1>14. c <= num
  <2>1. SUFFICES ASSUME ~ (c <= num) PROVE FALSE
    OBVIOUS
  <2>2. num \in 0 .. r - 1 /\ num \in S /\ num \in 0 .. c - 1
    BY ONLY <1>6, <1>10, <2>1, c \in Nat, r \in Nat, num \in 0 .. r
  <2>3. PICK i \in 1 .. U : data[pb + num * U + i] # data[nb + num * U + i]
    BY ONLY <1>12, <2>2 DEF SameBytes
  <2>4. PICK k \in 1 .. 4 : k = num * U + i
    BY ONLY <1>1, <2>2, ElementOfRun, U \in Nat \ {0}, c \in Nat, i \in 1 .. U
  <2>5. PICK nt \in Nat : nt = num * U
    BY ONLY Product, num \in 0 .. r, U \in Nat \ {0}, r \in Nat
  <2>6. pb + nt + i = pb + k /\ nb + nt + i = nb + k
    BY ONLY <2>4, <2>5, i \in 1 .. U, U \in Nat \ {0}, pb \in Nat, nb \in Nat
  <2>7. data[pb + k] = data[nb + k]
    BY ONLY <1>13 DEF SameBytes
  <2>8. QED
    BY ONLY <2>3, <2>5, <2>6, <2>7
<1>15. num \in Nat /\ 4 <= num * U
  <2>1. num \in Nat
    BY ONLY <1>10, r \in Nat
  <2>2. c * U <= num * U
    BY ONLY <1>14, <2>1, ProductLess, c \in Nat, U \in Nat \ {0}
  <2>3. QED
    BY ONLY <1>1, <2>1, <2>2, Zenon
<1>16. next + num < E
  BY ONLY <1>6, r \in Nat, num \in 0 .. r, E \in Nat, next \in Nat
<1>17. ASSUME NEW k \in 1 .. num * U PROVE data[nb + k] = data[pb + k]
  <2>1. PICK j \in 0 .. num - 1, i \in 1 .. U : k = j * U + i
    BY ONLY <1>15, ByteOfElement, U \in Nat \ {0}
  <2>2. j \in 0 .. r - 1 /\ j \notin S /\ j \in Nat
    BY ONLY <1>10, <1>15, num \in 0 .. r, r \in Nat, j \in 0 .. num - 1
  <2>3. data[pb + j * U + i] = data[nb + j * U + i]
    BY ONLY <1>12, <2>2 DEF SameBytes
  <2>4. PICK jt \in Nat : jt = j * U
    BY ONLY <2>2, Product, U \in Nat \ {0}
  <2>5. pb + jt + i = pb + k /\ nb + jt + i = nb + k
    BY ONLY <2>1, <2>4, i \in 1 .. U, U \in Nat \ {0}, pb \in Nat, nb \in Nat
  <2>6. QED
    BY ONLY <2>3, <2>4, <2>5
<1>18. SameBytes(data, nb, pb, num * U)
  BY ONLY <1>17 DEF SameBytes
<1>19. QED
  BY ONLY <1>1, <1>8, <1>10, <1>11, <1>15, <1>16, <1>18, Zenon

-----------------------------------------------------------------------------
(* LZ4: a turn of the compressor.                                          *)

\* The lanes look at the words from at on.
Looking(data, T, E, at, valid, words) ==
  /\ E = RoundUpDiv(Len(data), T) /\ valid <= OffsetRange
  /\ at + valid + last_valid_match(T) <= E
  /\ words = [i \in 0 .. valid - 1 |-> word(data, T, at + i)]

\* A word that a lane looks at is four bytes.
LEMMA WordOfLane ==
  ASSUME NEW data \in Seq(Nat), NEW T \in {1, 2, 4}, NEW E \in Nat, NEW at \in Nat,
         NEW valid \in Nat, NEW words, Looking(data, T, E, at, valid, words),
         NEW i \in 0 .. valid - 1
  PROVE  /\ words[i] = word(data, T, at + i)
         /\ at + i + last_valid_match(T) < E
         /\ words[i][1] \in Int /\ words[i][4] \in Int
<1>1. PICK U \in Nat \ {0}, lv \in Nat : U = T /\ lv = last_valid_match(U) /\ lv * U = 12
  BY Unit
<1>2. PICK N \in Nat : N = Len(data)
  OBVIOUS
<1>3. at + valid + lv <= E /\ E = RoundUpDiv(N, U)
  BY ONLY <1>1, <1>2, Looking(data, T, E, at, valid, words) DEF Looking
<1>4. PICK x \in Nat : x = at + i /\ x + lv < E
  BY ONLY <1>3, at \in Nat, valid \in Nat, lv \in Nat, E \in Nat, i \in 0 .. valid - 1
<1>5. x + lv \in Nat /\ (x + lv) * U < N
  BY ONLY <1>3, <1>4, RoundedUp, N \in Nat, U \in Nat \ {0}, x \in Nat, lv \in Nat
<1>6. PICK b \in Nat : b = x * U /\ b + 4 <= N
  <2>1. (x + lv) * U = x * U + lv * U /\ x * U \in Nat
    BY ONLY Distribute, Product, x \in Nat, lv \in Nat, U \in Nat \ {0}
  <2>2. x * U + 12 < N
    BY ONLY <1>1, <1>5, <2>1
  <2>3. x * U + 4 <= N
    BY ONLY <2>1, <2>2, N \in Nat
  <2>4. QED
    BY ONLY <2>1, <2>3, Zenon
<1>7. Cut(word(data, U, x), data, b, 4)
  <2>1. b + 4 <= Len(data)
    BY ONLY <1>2, <1>6
  <2>2. QED
    BY ONLY <1>6, <2>1, WordAt, data \in Seq(Nat), b \in Nat, Zenon
<1>8. words[i] = word(data, U, x)
  BY ONLY <1>1, <1>4, Looking(data, T, E, at, valid, words), i \in 0 .. valid - 1 DEF Looking
<1>9. words[i] \in Seq(Int) /\ Len(words[i]) = 4
  BY ONLY <1>7, <1>8 DEF Cut
<1>10. words[i][1] \in Int /\ words[i][4] \in Int
  BY ONLY <1>9
<1>11. QED
  BY ONLY <1>1, <1>4, <1>8, <1>10

\* The lane with a match, if there is one, and where the match is.
LEMMA MatchFound ==
  ASSUME NEW data \in Seq(Nat), NEW T \in {1, 2, 4}, NEW E \in Nat, NEW at \in Nat,
         NEW valid \in Nat, NEW words, Looking(data, T, E, at, valid, words),
         NEW n \in Nat \ {0}, NEW table, TableOK(table, n, at),
         NEW lane, lane = findMatch(data, T, table, at, words, valid)
  PROVE  /\ lane \in 0 .. valid
         /\ lane # valid =>
              \E location \in Nat :
                /\ location = matchLocation(table, at, words, valid, lane)
                /\ location < at + lane /\ at + lane - location <= MAX_OFFSET
                /\ Twins(data, T, E, location, at + lane)
<1>1. PICK S : S = {i \in 0 .. valid - 1 : \E j \in 0 .. i - 1 : words[j] = words[i]}
  OBVIOUS
<1>2. PICK local \in 0 .. valid : local = firstTwin(words, valid) /\ (local # valid => local \in S)
  <2>1. S \subseteq 0 .. valid - 1
    BY ONLY <1>1
  <2>2. Least(S, valid) \in 0 .. valid /\ (Least(S, valid) # valid => Least(S, valid) \in S)
    BY ONLY <2>1, LeastIs, valid \in Nat, Zenon
  <2>3. firstTwin(words, valid) = Least(S, valid)
    BY ONLY <1>1 DEF firstTwin
  <2>4. QED
    BY ONLY <2>2, <2>3, Zenon
<1>3. PICK V : V = {i \in 0 .. local - 1 : isValidHash(data, T, table, words[i], at + i)}
  OBVIOUS
<1>4. /\ lane = Least(V, local) /\ lane \in 0 .. local
      /\ lane # local => lane \in V
  <2>1. V \subseteq 0 .. local - 1 /\ local \in Nat
    BY ONLY <1>3, local \in 0 .. valid, valid \in Nat
  <2>2. Least(V, local) \in 0 .. local /\ (Least(V, local) # local => Least(V, local) \in V)
    BY ONLY <2>1, LeastIs, Zenon
  <2>3. lane = Least(V, local)
    BY ONLY <1>2, <1>3, lane = findMatch(data, T, table, at, words, valid)
       DEF findMatch, findMatchBefore
  <2>4. QED
    BY ONLY <2>2, <2>3, Zenon
<1>5. lane \in 0 .. valid
  BY ONLY <1>4, local \in 0 .. valid, valid \in Nat
<1>6. ASSUME lane # valid
      PROVE  \E location \in Nat :
                /\ location = matchLocation(table, at, words, valid, lane)
                /\ location < at + lane /\ at + lane - location <= MAX_OFFSET
                /\ word(data, T, location) = words[lane]
  <2>1. lane \in 0 .. valid - 1
    BY ONLY <1>5, <1>6, valid \in Nat
  <2>2. words[lane][1] \in Int /\ words[lane][4] \in Int
    BY <2>1, WordOfLane, SMTT(30)
  <2>3. CASE lane # local
    <3>1. lane < local /\ isValidHash(data, T, table, words[lane], at + lane)
      <4>1. lane \in V
        BY ONLY <1>4, <2>3
      <4>2. QED
        BY ONLY <1>3, <4>1, local \in 0 .. valid, valid \in Nat
    <3>2. PICK h \in 0 .. n - 1 : h = hash(words[lane], Cardinality(DOMAIN table))
      <4>1. DOMAIN table = 0 .. n - 1
        BY DEF TableOK
      <4>2. Cardinality(0 .. n - 1) = n
        <5>1. 0 \in Int /\ n - 1 \in Int
          OBVIOUS
        <5>2. Cardinality(0 .. n - 1) = IF 0 > n - 1 THEN 0 ELSE n - 1 - 0 + 1
          BY ONLY <5>1, FS_Interval
        <5>3. QED
          BY ONLY <5>2, n \in Nat \ {0}
      <4>3. hash(words[lane], n) \in 0 .. n - 1
        BY ONLY <2>2, HashIsEntry, n \in Nat \ {0}
      <4>4. QED
        BY ONLY <4>1, <4>2, <4>3, Zenon
    <3>3. PICK x : x = convertIdx(table[h], at + lane)
      OBVIOUS
    <3>4. PICK key : key = words[lane]
      OBVIOUS
    <3>5. PICK pos \in Nat : pos = at + lane
      BY ONLY <2>1, at \in Nat, valid \in Nat
    <3>6. key = words[lane] /\ pos = at + lane
      BY ONLY <3>4, <3>5
    <3>7. /\ h = hash(key, Cardinality(DOMAIN table)) /\ x = convertIdx(table[h], pos)
          /\ isValidHash(data, T, table, key, pos)
      BY ONLY <3>1, <3>2, <3>3, <3>6
    <3>8. PICK p \in 0 .. at - 1 : table[h] = p % OffsetRange
      <4>1. table[h] # NULL_OFFSET
        BY ONLY <3>7 DEF isValidHash
      <4>2. QED
        BY ONLY <4>1, TableOK(table, n, at), h \in 0 .. n - 1 DEF TableOK
    <3>9. PICK z \in Nat : z = x /\ z < pos
      <4>1. p \in Nat /\ p < pos
        BY ONLY <2>1, <3>6, pos \in Nat, at \in Nat, p \in 0 .. at - 1, valid \in Nat
      <4>2. convertIdx(p % OffsetRange, pos) \in 0 .. pos - 1
        BY ONLY <4>1, ConvertBehind, pos \in Nat
      <4>3. x = convertIdx(p % OffsetRange, pos)
        BY ONLY <3>7, <3>8
      <4>4. x \in 0 .. pos - 1
        BY ONLY <4>2, <4>3, Zenon
      <4>5. QED
        BY ONLY <4>4, pos \in Nat
    <3>10. pos - z <= MAX_OFFSET
      BY ONLY <3>7, <3>9 DEF isValidHash
    <3>11. word(data, T, z) = key
      <4>1. x >= 0 => word(data, T, x) = key
        BY ONLY <3>7 DEF isValidHash
      <4>2. x \in Nat
        BY ONLY <3>9, z \in Nat, Zenon
      <4>3. QED
        BY ONLY <3>9, <4>1, <4>2
    <3>12. x = matchLocation(table, at, words, valid, lane)
      BY ONLY <1>2, <1>6, <3>1, <3>2, <3>3, valid \in Nat DEF matchLocation
    <3>13. z < at + lane /\ at + lane - z <= MAX_OFFSET
      BY ONLY <2>1, <3>6, <3>9, <3>10, at \in Nat, valid \in Nat, pos \in Nat, z \in Nat
    <3>14. z = matchLocation(table, at, words, valid, lane) /\ word(data, T, z) = words[lane]
      BY ONLY <3>6, <3>12, <3>9, <3>11
    <3>15. QED
      BY ONLY <3>13, <3>14, z \in Nat, Zenon
  <2>4. CASE lane = local
    <3>1. PICK J : J = {j \in 0 .. lane - 1 : words[j] = words[lane]}
      OBVIOUS
    <3>2. J # {} /\ J \subseteq Nat
      <4>1. lane \in S
        BY ONLY <1>2, <1>6, <2>4
      <4>2. QED
        BY ONLY <1>1, <3>1, <4>1, <2>1
    <3>3. PICK j \in 0 .. lane - 1 : j = Min(J) /\ words[j] = words[lane]
      <4>1. Min(J) \in J
        BY ONLY <3>2, MinIs
      <4>2. QED
        BY ONLY <3>1, <4>1
    <3>4. PICK x \in Nat : x = at + j /\ x < at + lane /\ at + lane - x <= MAX_OFFSET
      <4>1. valid <= OffsetRange /\ MAX_OFFSET = OffsetRange - 1 /\ OffsetRange \in Nat
        BY ONLY Lz4Constants, Looking(data, T, E, at, valid, words) DEF Looking
      <4>2. at + j \in Nat /\ at + j < at + lane /\ at + lane - (at + j) <= MAX_OFFSET
        BY ONLY <2>1, <4>1, at \in Nat, j \in 0 .. lane - 1, valid \in Nat
      <4>3. QED
        BY ONLY <4>2, Zenon
    <3>5. x = matchLocation(table, at, words, valid, lane)
      <4>1. ~ (lane < firstTwin(words, valid)) /\ lane # valid
        BY ONLY <1>2, <1>6, <2>4, valid \in Nat
      <4>2. matchLocation(table, at, words, valid, lane) = at + Min(J)
        BY ONLY <3>1, <4>1 DEF matchLocation
      <4>3. QED
        BY ONLY <3>3, <3>4, <4>2
    <3>6. word(data, T, x) = words[lane]
      <4>1. j \in 0 .. valid - 1
        BY ONLY <2>1, valid \in Nat, j \in 0 .. lane - 1
      <4>2. words[j] = word(data, T, at + j)
        BY ONLY <4>1, Looking(data, T, E, at, valid, words) DEF Looking
      <4>3. QED
        BY ONLY <3>3, <3>4, <4>2
    <3>7. QED
      BY ONLY <3>4, <3>5, <3>6, Zenon
  <2>5. QED
    BY ONLY <2>3, <2>4
<1>7. ASSUME lane # valid
      PROVE  \E location \in Nat :
                /\ location = matchLocation(table, at, words, valid, lane)
                /\ location < at + lane /\ at + lane - location <= MAX_OFFSET
                /\ Twins(data, T, E, location, at + lane)
  <2>1. PICK x \in Nat :
                /\ x = matchLocation(table, at, words, valid, lane)
                /\ x < at + lane /\ at + lane - x <= MAX_OFFSET
                /\ word(data, T, x) = words[lane]
    BY ONLY <1>6, <1>7
  <2>2. lane \in 0 .. valid - 1
    BY ONLY <1>5, <1>7, valid \in Nat
  <2>3. words[lane] = word(data, T, at + lane) /\ at + lane + last_valid_match(T) < E
    BY <2>2, WordOfLane, SMTT(30)
  <2>4. Twins(data, T, E, x, at + lane)
    BY ONLY <2>1, <2>3, Looking(data, T, E, at, valid, words) DEF Twins, Looking
  <2>5. QED
    BY ONLY <2>1, <2>4, Zenon
<1>8. QED
  BY ONLY <1>5, <1>7

\* What a compressor keeps between two turns: it is at a position, from tokenStart
\* on the literals are not written, the stream tells the data before.
LzState(data, T, E, n, at, ts, table, str, exact) ==
  /\ E = RoundUpDiv(Len(data), T) /\ at \in Nat /\ ts \in Nat /\ at <= E /\ ts <= at
  /\ TableOK(table, n, at) /\ str \in Seq(Int)
  /\ at < E => Told(str, data, ts * T, exact) /\ Bounded(str, ts * T)
  /\ at = E => /\ Complete(str, data, exact)
               /\ Len(str) <= Len(data) + 1 + RoundUpDiv(Len(data), LsicMax)

Kept(at, ts, table, str) == [at |-> at, tokenStart |-> ts, table |-> table, out |-> str]

\* Offsets that are counted in elements reach as far as in bytes.
Narrow(data, T) == T = 1 \/ Len(data) <= OffsetRange

\* A table stays one at a later position.
LEMMA TableLater ==
  ASSUME NEW table, NEW n, NEW at \in Nat, NEW to \in Nat, at <= to, TableOK(table, n, at)
  PROVE  TableOK(table, n, to)
<1>1. ASSUME NEW h \in 0 .. n - 1, table[h] # NULL_OFFSET
      PROVE  \E p \in 0 .. to - 1 : table[h] = p % OffsetRange
  <2>1. PICK p \in 0 .. at - 1 : table[h] = p % OffsetRange
    BY ONLY <1>1, TableOK(table, n, at) DEF TableOK
  <2>2. p \in 0 .. to - 1
    BY ONLY at \in Nat, to \in Nat, at <= to, p \in 0 .. at - 1
  <2>3. QED
    BY ONLY <2>1, <2>2, Zenon
<1>2. QED
  BY ONLY <1>1, TableOK(table, n, at) DEF TableOK

\* The literals that are not written yet.
LEMMA LiteralsKept ==
  ASSUME NEW data \in Seq(Nat), NEW T, NEW s, NEW d \in Nat, d = s.tokenStart * T,
         NEW l \in Nat, d + l <= Len(data), NEW to, to = d + l
  PROVE  Cut(literals(data, T, s, to), data, d, l)
<1>1. literals(data, T, s, to) = SubSeq(data, d + 1, d + l)
  <2>1. ~ (d < 0)
    OBVIOUS
  <2>2. literals(data, T, s, to) = Bytes(data, d, to)
    BY ONLY d = s.tokenStart * T DEF literals
  <2>3. QED
    BY ONLY <2>1, <2>2, to = d + l DEF Bytes
<1>2. /\ SubSeq(data, d + 1, d + l) \in Seq(Int) /\ Len(SubSeq(data, d + 1, d + l)) = l
      /\ \A k \in 1 .. l : SubSeq(data, d + 1, d + l)[k] = data[d + k]
  BY LiteralsCut
<1>3. QED
  BY ONLY <1>1, <1>2 DEF Cut

\* A stream that grows keeps its bytes.
LEMMA GrownIs ==
  ASSUME NEW str \in Seq(Int), NEW new, NEW n, Grown(str, new, n)
  PROVE  /\ new \in Seq(Int) /\ Len(str) <= Len(new)
         /\ \A k \in 1 .. Len(str) : new[k] = str[k]
<1>1. new \in Seq(Int) /\ n \in Nat /\ Len(new) = Len(str) + n
  BY DEF Grown
<1>2. Len(str) <= Len(new)
  BY ONLY <1>1, str \in Seq(Int)
<1>3. QED
  BY ONLY <1>1, <1>2, Grown(str, new, n) DEF Grown

\* A turn that writes the last literals.
LEMMA EndTurn ==
  ASSUME NEW data \in Seq(Nat), NEW T \in {1, 2, 4}, NEW E \in Nat, NEW n, NEW at \in Nat,
         NEW ts \in Nat, NEW table, NEW str \in Seq(Int), NEW exact,
         LzState(data, T, E, n, at, ts, table, str, exact), at < E
  PROVE  \E new :
           /\ compressEnd(data, T, Kept(at, ts, table, str)) = Kept(E, ts, table, new)
           /\ LzState(data, T, E, n, E, ts, table, new, exact)
<1>16. PICK U \in Nat \ {0} : U = T
  <2>1. T \in Nat \ {0}
    BY Unit
  <2>2. QED
    BY ONLY <2>1, Zenon
<1>17. PICK N \in Nat : N = Len(data)
  BY ONLY data \in Seq(Nat)
<1>1. U = T /\ N = Len(data)
  BY ONLY <1>16, <1>17
<1>2. E = RoundUpDiv(N, U) /\ ts < E
  BY ONLY <1>1, LzState(data, T, E, n, at, ts, table, str, exact), at \in Nat, ts \in Nat, E \in Nat,
          at < E DEF LzState
<1>3. PICK d \in Nat, l \in Nat : d = ts * U /\ d + l = N
  <2>1. ts * U \in Nat /\ ts * U < N
    <3>1. ts * U < N
      BY ONLY <1>2, RoundedUp, N \in Nat, U \in Nat \ {0}, ts \in Nat
    <3>2. QED
      BY ONLY <3>1, Product, ts \in Nat, U \in Nat \ {0}
  <2>2. N - ts * U \in Nat /\ ts * U + (N - ts * U) = N
    BY ONLY <2>1, N \in Nat
  <2>3. QED
    BY ONLY <2>1, <2>2, Zenon
<1>4. PICK s, y : s = Kept(at, ts, table, str) /\ y = literals(data, T, s, Len(data))
  OBVIOUS
<1>5. Cut(y, data, d, l) /\ y \in Seq(Int)
  <2>1. d = s.tokenStart * T /\ d + l <= Len(data) /\ Len(data) = d + l
    BY ONLY <1>1, <1>3, <1>4 DEF Kept
  <2>2. Cut(literals(data, T, s, Len(data)), data, d, l)
    BY ONLY <2>1, LiteralsKept, data \in Seq(Nat), d \in Nat, l \in Nat
  <2>3. QED
    BY ONLY <1>4, <2>2 DEF Cut
<1>6. PICK new : new = str \o writeSequenceData(y, 0, 0)
  OBVIOUS
<1>7. LastWrite(str, data, d, l, y, new)
  BY ONLY <1>1, <1>3, <1>5, <1>6 DEF LastWrite
<1>8. Grown(str, new, LastCostOf(l)) /\ Ending(new, data, Len(str), d)
  <2>1. y \in Seq(Int)
    BY ONLY <1>5
  <2>2. QED
    BY ONLY <1>7, <2>1, LastWritten, str \in Seq(Int), d \in Nat, l \in Nat, Zenon
<1>9. /\ new \in Seq(Int) /\ Len(str) <= Len(new)
      /\ \A k \in 1 .. Len(str) : new[k] = str[k]
  BY ONLY <1>8, GrownIs, str \in Seq(Int), Zenon
<1>10. Told(str, data, d, exact) /\ Bounded(str, d)
  BY ONLY <1>1, <1>3, at < E, LzState(data, T, E, n, at, ts, table, str, exact) DEF LzState
<1>11. Complete(new, data, exact)
  BY ONLY <1>8, <1>9, <1>10, ToldLast, str \in Seq(Int), Zenon
<1>12. Len(new) <= N + 1 + RoundUpDiv(N, LsicMax)
  <2>1. PICK k \in Nat : k = Len(str)
    BY ONLY str \in Seq(Int)
  <2>2. Len(new) = k + LastCostOf(l)
    BY ONLY <1>8, <2>1 DEF Grown
  <2>3. LsicMax * k <= LsicMax * d + d
    BY ONLY <1>10, <2>1 DEF Bounded
  <2>4. QED
    BY ONLY <1>3, <2>2, <2>3, LastCost, k \in Nat, d \in Nat, l \in Nat, N \in Nat
<1>13. LzState(data, T, E, n, E, ts, table, new, exact)
  <2>1. TableOK(table, n, E)
    BY ONLY LzState(data, T, E, n, at, ts, table, str, exact), TableLater, at < E, at \in Nat, E \in Nat
       DEF LzState
  <2>2. ts <= E /\ ~ (E < E) /\ E <= E
    BY ONLY <1>2, ts \in Nat, E \in Nat
  <2>3. new \in Seq(Int)
    BY ONLY <1>9
  <2>4. Len(new) <= Len(data) + 1 + RoundUpDiv(Len(data), LsicMax)
    BY ONLY <1>1, <1>12
  <2>5. E = RoundUpDiv(Len(data), T)
    BY ONLY <1>1, <1>2
  <2>6. QED
    BY ONLY <1>11, <2>1, <2>2, <2>3, <2>4, <2>5, E \in Nat, ts \in Nat, Zenon DEF LzState
<1>14. compressEnd(data, T, s) = Kept(E, ts, table, new)
  <2>1. E = RoundUpDiv(Len(data), T)
    BY ONLY <1>1, <1>2
  <2>2. compressEnd(data, T, s) = [s EXCEPT !.at = E, !.out = @ \o writeSequenceData(y, 0, 0)]
    BY ONLY <1>4, <2>1 DEF compressEnd
  <2>3. PICK w : w = writeSequenceData(y, 0, 0)
    OBVIOUS
  <2>4. compressEnd(data, T, s) = [s EXCEPT !.at = E, !.out = @ \o w]
    BY ONLY <2>2, <2>3
  <2>5. s = [at |-> at, tokenStart |-> ts, table |-> table, out |-> str]
    BY ONLY <1>4 DEF Kept
  <2>6. compressEnd(data, T, s) = [at |-> E, tokenStart |-> ts, table |-> table, out |-> str \o w]
    BY ONLY <2>4, <2>5
  <2>7. QED
    BY ONLY <1>6, <2>3, <2>6 DEF Kept
<1>15. QED
  BY ONLY <1>4, <1>13, <1>14, Zenon

\* A turn that finds no match.
LEMMA SkipTurn ==
  ASSUME NEW data \in Seq(Nat), NEW T \in {1, 2, 4}, NEW E \in Nat, NEW n \in Nat \ {0},
         NEW at \in Nat, NEW ts \in Nat, NEW table, NEW str \in Seq(Int), NEW exact,
         LzState(data, T, E, n, at, ts, table, str, exact),
         NEW words, NEW valid \in Nat, at + valid < E
  PROVE  LzState(data, T, E, n, at + valid, ts, insertHashTableWarp(table, at, words, valid), str, exact)
<1>1. at < E /\ at + valid \in Nat /\ at + valid <= E /\ at + valid # E
  BY ONLY at \in Nat, E \in Nat, valid \in Nat, at + valid < E
<1>2. ts <= at + valid
  BY ONLY at \in Nat, valid \in Nat, ts \in Nat, LzState(data, T, E, n, at, ts, table, str, exact)
     DEF LzState
<1>3. TableOK(insertHashTableWarp(table, at, words, valid), n, at + valid)
  BY ONLY TableAfter, n \in Nat \ {0}, at \in Nat, valid \in Nat,
          LzState(data, T, E, n, at, ts, table, str, exact) DEF LzState
<1>4. QED
  BY ONLY <1>1, <1>2, <1>3, LzState(data, T, E, n, at, ts, table, str, exact) DEF LzState

\* A number below the modulus is what it leaves, and it leaves no more than it is.
LEMMA Remainder ==
  ASSUME NEW a \in Nat, NEW n \in Nat \ {0}
  PROVE  a % n \in Nat /\ a % n <= a /\ (a < n => a % n = a)
<1>1. a \div n \in Nat /\ a % n \in 0 .. n - 1 /\ a = n * (a \div n) + (a % n)
  <2>1. a \div n \in Nat
    BY DivNat
  <2>2. a % n \in 0 .. n - 1 /\ a = n * (a \div n) + (a % n)
    BY DivMod
  <2>3. QED
    BY ONLY <2>1, <2>2
<1>2. PICK q \in Nat, r \in Nat, p \in Nat : q = a \div n /\ r = a % n /\ p = n * q
  <2>1. n * (a \div n) \in Nat
    BY ONLY <1>1, Product, n \in Nat \ {0}
  <2>2. a % n \in Nat
    BY ONLY <1>1
  <2>3. QED
    BY ONLY <1>1, <2>1, <2>2, Zenon
<1>3. a = p + r
  BY ONLY <1>1, <1>2
<1>4. r <= a
  BY ONLY <1>3, p \in Nat, r \in Nat
<1>5. a < n => r = a
  <2>1. ASSUME a < n PROVE r = a
    <3>1. n * 0 + a = a /\ a \in 0 .. n - 1 /\ 0 \in Int
      BY ONLY <2>1, a \in Nat, n \in Nat \ {0}
    <3>2. (n * 0 + a) % n = a
      BY ONLY <3>1, DivModIs, n \in Nat \ {0}
    <3>3. QED
      BY ONLY <1>2, <3>1, <3>2
  <2>2. QED
    BY ONLY <2>1
<1>6. QED
  BY ONLY <1>2, <1>4, <1>5, r \in Nat

\* A match that ends before the last literals.
Ahead(data, T, E, pos, prev, num) ==
  /\ prev < pos /\ pos - prev <= MAX_OFFSET /\ 4 <= num * T /\ pos + num < E
  /\ SameBytes(data, pos * T, prev * T, num * T)

\* The offset of a match: the data repeats itself if it can hold the distance.
LEMMA MatchOffset ==
  ASSUME NEW data \in Seq(Nat), NEW T \in Nat \ {0}, NEW E, NEW pos \in Nat, NEW prev \in Nat,
         NEW num \in Nat, Ahead(data, T, E, pos, prev, num),
         NEW off, off = ((pos - prev) % OffsetRange) * T,
         NEW q \in Nat, q = pos * T, NEW m \in Nat, m = num * T, q + m <= Len(data)
  PROVE  /\ off \in Nat /\ off % OffsetRange \in Nat /\ off % OffsetRange <= q
         /\ Narrow(data, T) => Repeated(data, q, m, off % OffsetRange)
<1>1. PICK R \in Nat \ {0} : R = OffsetRange /\ MAX_OFFSET = R - 1
  BY Lz4Constants
<1>2. PICK g \in Nat \ {0} : g = pos - prev /\ g < R /\ prev + g = pos
  BY ONLY <1>1, Ahead(data, T, E, pos, prev, num), pos \in Nat, prev \in Nat, R \in Nat \ {0} DEF Ahead
<1>3. PICK o \in Nat : o = g * T /\ off = o /\ o \in Nat \ {0}
  <2>1. g % R = g
    BY ONLY <1>2, Remainder, g \in Nat \ {0}, R \in Nat \ {0}
  <2>2. off = g * T
    BY ONLY <1>1, <1>2, <2>1, off = ((pos - prev) % OffsetRange) * T
  <2>3. 1 * T <= g * T /\ g * T \in Nat /\ 1 * T = T
    <3>1. 1 <= g /\ 1 \in Nat /\ T \in Nat
      BY ONLY g \in Nat \ {0}, T \in Nat \ {0}
    <3>2. QED
      BY ONLY <3>1, ProductLess, Product, g \in Nat \ {0}, T \in Nat \ {0}
  <2>4. g * T \in Nat \ {0}
    BY ONLY <2>3, T \in Nat \ {0}
  <2>5. QED
    BY ONLY <2>2, <2>3, <2>4, Zenon
<1>4. PICK p \in Nat : p = prev * T /\ p + o = q
  <2>1. (prev + g) * T = prev * T + g * T /\ prev * T \in Nat
    BY ONLY Distribute, Product, prev \in Nat, g \in Nat \ {0}, T \in Nat \ {0}
  <2>2. q = prev * T + o
    BY ONLY <1>2, <1>3, <2>1, q = pos * T
  <2>3. QED
    BY ONLY <2>1, <2>2, Zenon
<1>5. PICK f \in Nat : f = off % R /\ f <= o /\ (o < R => f = o)
  BY ONLY <1>3, Remainder, o \in Nat, R \in Nat \ {0}
<1>6. f <= q
  BY ONLY <1>4, <1>5, o \in Nat, f \in Nat, p \in Nat, q \in Nat
<1>7. ASSUME Narrow(data, T) PROVE Repeated(data, q, m, f)
  <2>1. o < R
    <3>1. CASE T = 1
      BY ONLY <1>2, <1>3, <3>1, g \in Nat \ {0}
    <3>2. CASE Len(data) <= OffsetRange
      <4>1. 1 <= m
        <5>1. 4 <= m
          BY ONLY Ahead(data, T, E, pos, prev, num), m = num * T DEF Ahead
        <5>2. QED
          BY ONLY <5>1, m \in Nat
      <4>2. PICK N \in Nat : N = Len(data)
        BY ONLY data \in Seq(Nat)
      <4>3. N <= R /\ q + m <= N
        BY ONLY <1>1, <3>2, <4>2, q + m <= Len(data)
      <4>4. QED
        BY ONLY <1>4, <4>1, <4>3, o \in Nat, p \in Nat, q \in Nat, m \in Nat, N \in Nat, R \in Nat \ {0}
    <3>3. QED
      BY ONLY <1>7, <3>1, <3>2 DEF Narrow
  <2>2. f = o /\ 1 <= f
    BY ONLY <1>3, <1>5, <2>1
  <2>3. ASSUME NEW k \in 1 .. m PROVE data[q + k] = data[q + k - f]
    <3>1. data[q + k] = data[p + k]
      <4>1. SameBytes(data, q, p, m)
        BY ONLY <1>4, Ahead(data, T, E, pos, prev, num), q = pos * T, m = num * T DEF Ahead
      <4>2. QED
        BY ONLY <4>1, k \in 1 .. m DEF SameBytes
    <3>2. q + k - f = p + k
      BY ONLY <1>4, <2>2, p \in Nat, q \in Nat, o \in Nat, f \in Nat, k \in 1 .. m
    <3>3. QED
      BY ONLY <3>1, <3>2
  <2>4. QED
    BY ONLY <2>2, <2>3 DEF Repeated
<1>8. QED
  BY ONLY <1>1, <1>3, <1>5, <1>6, <1>7, o \in Nat, f \in Nat

\* What a turn leaves is a state again.
Turned(data, T, E, n, exact, s) ==
  \E at, ts, table, str : s = Kept(at, ts, table, str) /\ LzState(data, T, E, n, at, ts, table, str, exact)

\* A lane that has a match writes it and goes on behind.
Matching(data, T, E, n, at, ts, table, str, exact, words, lane, pos, prev, num, kept, to) ==
  /\ LzState(data, T, E, n, at, ts, table, str, exact) /\ at < E /\ (exact => Narrow(data, T))
  /\ pos = at + lane /\ to = pos + num /\ Ahead(data, T, E, pos, prev, num)
  /\ kept = insertHashTableWarp(table, at, words, lane)

\* A turn that finds a match and writes it.
LEMMA MatchTurn ==
  ASSUME NEW data \in Seq(Nat), NEW T \in {1, 2, 4}, NEW E \in Nat, NEW n \in Nat \ {0},
         NEW at \in Nat, NEW ts \in Nat, NEW table, NEW str \in Seq(Int), NEW exact,
         NEW words, NEW lane \in Nat, NEW pos \in Nat, NEW prev \in Nat,
         NEW num \in Nat, NEW kept, NEW to \in Nat,
         Matching(data, T, E, n, at, ts, table, str, exact, words, lane, pos, prev, num, kept, to)
  PROVE  Turned(data, T, E, n, exact, compressMatch(data, T, Kept(at, ts, table, str), kept, pos, prev, num))
<1>0. /\ LzState(data, T, E, n, at, ts, table, str, exact) /\ at < E /\ (exact => Narrow(data, T))
      /\ pos = at + lane /\ to = pos + num /\ Ahead(data, T, E, pos, prev, num)
      /\ kept = insertHashTableWarp(table, at, words, lane)
  BY DEF Matching
<1>1. PICK U \in Nat \ {0} : U = T
  <2>1. T \in Nat \ {0}
    BY Unit
  <2>2. QED
    BY ONLY <2>1, Zenon
<1>2. PICK N \in Nat : N = Len(data)
  BY ONLY data \in Seq(Nat)
<1>3. E = RoundUpDiv(N, U) /\ ts <= at /\ TableOK(table, n, at)
  BY ONLY <1>1, <1>2, <1>0 DEF LzState
<1>4. to < E /\ ts <= pos /\ to # E /\ to <= E
  <2>1. pos + num < E
    BY ONLY <1>0 DEF Ahead
  <2>2. QED
    BY ONLY <1>3, <2>1, <1>0, to \in Nat, E \in Nat, ts \in Nat, at \in Nat,
            lane \in Nat, SMTT(30)
<1>5. PICK q \in Nat, m \in Nat, u \in Nat : q = pos * U /\ m = num * U /\ u = to * U /\ u = q + m
  <2>1. (pos + num) * U = pos * U + num * U /\ pos * U \in Nat /\ num * U \in Nat /\ to * U \in Nat
    BY ONLY Distribute, Product, pos \in Nat, num \in Nat, to \in Nat, U \in Nat \ {0}
  <2>2. to * U = pos * U + num * U
    BY ONLY <2>1, <1>0
  <2>3. QED
    BY ONLY <2>1, <2>2, Zenon
<1>6. u < N
  BY ONLY <1>3, <1>4, <1>5, RoundedUp, N \in Nat, U \in Nat \ {0}, to \in Nat
<1>7. PICK d \in Nat, l \in Nat : d = ts * U /\ d + l = q
  <2>1. ts * U \in Nat /\ ts * U <= pos * U
    BY ONLY <1>4, Product, ProductLess, ts \in Nat, pos \in Nat, U \in Nat \ {0}
  <2>2. q - ts * U \in Nat /\ ts * U + (q - ts * U) = q
    BY ONLY <1>5, <2>1, q \in Nat
  <2>3. QED
    BY ONLY <2>1, <2>2, Zenon
<1>8. PICK s, y : s = Kept(at, ts, table, str) /\ y = literals(data, T, s, q)
  OBVIOUS
<1>9. Cut(y, data, d, l) /\ y \in Seq(Int)
  <2>1. d = s.tokenStart * T /\ d + l <= Len(data) /\ q = d + l
    <3>1. s.tokenStart = ts
      BY ONLY <1>8 DEF Kept
    <3>2. d + l <= N
      BY ONLY <1>5, <1>6, <1>7, q \in Nat, m \in Nat, u \in Nat, N \in Nat
    <3>3. QED
      BY ONLY <1>1, <1>2, <1>7, <3>1, <3>2
  <2>2. Cut(literals(data, T, s, q), data, d, l)
    BY ONLY <2>1, LiteralsKept, data \in Seq(Nat), d \in Nat, l \in Nat
  <2>3. QED
    BY ONLY <1>8, <2>2 DEF Cut
<1>10. PICK off \in Nat, f \in Nat :
         /\ off = ((pos - prev) % OffsetRange) * U /\ f = off % OffsetRange /\ f <= q
         /\ Narrow(data, T) => Repeated(data, q, m, f)
  <2>1. PICK o : o = ((pos - prev) % OffsetRange) * U
    OBVIOUS
  <2>2. Ahead(data, U, E, pos, prev, num) /\ q + m <= Len(data)
    <3>1. q + m <= N
      BY ONLY <1>5, <1>6, q \in Nat, m \in Nat, u \in Nat, N \in Nat
    <3>2. QED
      BY ONLY <1>1, <1>2, <3>1, <1>0
  <2>3. /\ o \in Nat /\ o % OffsetRange \in Nat /\ o % OffsetRange <= q
        /\ Narrow(data, U) => Repeated(data, q, m, o % OffsetRange)
    BY ONLY <1>5, <2>1, <2>2, MatchOffset, data \in Seq(Nat), U \in Nat \ {0}, pos \in Nat, prev \in Nat,
            num \in Nat, q \in Nat, m \in Nat, Zenon
  <2>4. Narrow(data, T) => Repeated(data, q, m, o % OffsetRange)
    BY ONLY <1>1, <2>3
  <2>5. QED
    BY ONLY <2>1, <2>3, <2>4, Zenon
<1>11. PICK new : new = str \o writeSequenceData(y, m, off)
  OBVIOUS
<1>12. Written(str, data, d, l, m, u, y, off, f, exact, new)
  <2>1. 4 <= m
    BY ONLY <1>1, <1>5, <1>0 DEF Ahead
  <2>2. u = d + l + m /\ u <= Len(data) /\ Len(data) \in Nat /\ f <= d + l
    BY ONLY <1>2, <1>5, <1>6, <1>7, <1>10, q \in Nat, m \in Nat, u \in Nat, N \in Nat, d \in Nat, l \in Nat
  <2>3. exact => Repeated(data, d + l, m, f)
    BY ONLY <1>7, <1>10, <1>0
  <2>4. QED
    BY ONLY <1>9, <1>10, <1>11, <2>1, <2>2, <2>3, str \in Seq(Int), d \in Nat, l \in Nat, m \in Nat,
            off \in Nat, f \in Nat DEF Written
<1>13. Grown(str, new, CostOf(l, m)) /\ Sequence(new, data, Len(str), d, Len(new), u, exact)
  <2>1. y \in Seq(Int)
    BY ONLY <1>9
  <2>2. QED
    BY ONLY <1>12, <2>1, SequenceWritten, str \in Seq(Int), d \in Nat, l \in Nat, m \in Nat, u \in Nat,
            off \in Nat, f \in Nat, Zenon
<1>14. /\ new \in Seq(Int) /\ Len(str) <= Len(new)
       /\ \A k \in 1 .. Len(str) : new[k] = str[k]
  BY ONLY <1>13, GrownIs, str \in Seq(Int), ZenonT(40)
<1>15. Told(str, data, d, exact) /\ Bounded(str, d)
  BY ONLY <1>1, <1>7, <1>0 DEF LzState
<1>16. Told(new, data, u, exact)
  BY ONLY <1>13, <1>14, <1>15, ToldMore, str \in Seq(Int), Zenon
<1>17. Bounded(new, u)
  <2>1. PICK k \in Nat : k = Len(str)
    BY ONLY str \in Seq(Int)
  <2>2. Len(new) = k + CostOf(l, m)
    BY ONLY <1>13, <2>1 DEF Grown
  <2>3. LsicMax * k <= LsicMax * d + d
    BY ONLY <1>15, <2>1 DEF Bounded
  <2>4. u = d + l + m /\ 4 <= m
    BY ONLY <1>12 DEF Written
  <2>5. LsicMax * Len(new) <= LsicMax * u + u
    BY ONLY <2>2, <2>3, <2>4, SequenceCost, k \in Nat, d \in Nat, l \in Nat, m \in Nat, u \in Nat
  <2>6. QED
    BY ONLY <2>5 DEF Bounded
<1>18. LzState(data, T, E, n, to, to, kept, new, exact)
  <2>1. TableOK(kept, n, to)
    <3>1. TableOK(kept, n, at + lane)
      BY ONLY <1>3, TableAfter, n \in Nat \ {0}, at \in Nat, lane \in Nat,
              <1>0
    <3>2. pos <= to /\ TableOK(kept, n, pos)
      BY ONLY <3>1, <1>0, pos \in Nat, num \in Nat
    <3>3. QED
      BY ONLY <3>2, TableLater, pos \in Nat, to \in Nat
  <2>2. to * T = u
    BY ONLY <1>1, <1>5
  <2>3. E = RoundUpDiv(Len(data), T) /\ to <= to
    BY ONLY <1>1, <1>2, <1>3, to \in Nat
  <2>4. new \in Seq(Int)
    BY ONLY <1>14
  <2>5. Told(new, data, to * T, exact) /\ Bounded(new, to * T)
    BY ONLY <1>16, <1>17, <2>2
  <2>6. QED
    BY ONLY <1>4, <2>1, <2>3, <2>4, <2>5, to \in Nat, Zenon DEF LzState
<1>19. compressMatch(data, T, s, kept, pos, prev, num) = Kept(to, to, kept, new)
  <2>1. s.out = str
    BY ONLY <1>8 DEF Kept
  <2>2. pos * T = q /\ num * T = m /\ off = ((pos - prev) % OffsetRange) * T
    BY ONLY <1>1, <1>5, <1>10
  <2>3. compressMatch(data, T, s, kept, pos, prev, num)
          = [at |-> to, tokenStart |-> to, table |-> kept, out |-> str \o writeSequenceData(y, m, off)]
    BY ONLY <1>8, <2>1, <2>2, <1>0 DEF compressMatch
  <2>4. QED
    BY ONLY <1>11, <2>3 DEF Kept
<1>20. Turned(data, T, E, n, exact, compressMatch(data, T, s, kept, pos, prev, num))
  BY ONLY <1>18, <1>19, Zenon DEF Turned
<1>21. QED
  BY ONLY <1>8, <1>20

\* A turn of the compressor.
LEMMA Turn ==
  ASSUME NEW data \in Seq(Nat), NEW T \in {1, 2, 4}, NEW E \in Nat, NEW n \in Nat \ {0},
         NEW at \in Nat, NEW ts \in Nat, NEW table, NEW str \in Seq(Int), NEW exact,
         LzState(data, T, E, n, at, ts, table, str, exact), at < E, exact => Narrow(data, T)
  PROVE  Turned(data, T, E, n, exact, compressTurn(data, T, Kept(at, ts, table, str)))
<1>7. PICK s : s = Kept(at, ts, table, str)
  OBVIOUS
<1>1. s = Kept(at, ts, table, str) /\ s.at = at /\ s.table = table
  BY ONLY <1>7 DEF Kept
<1>2. PICK lv \in Nat, w \in 0 .. 3 : lv = last_valid_match(T) /\ w = 3 \div T
  BY Unit
<1>3. PICK left \in Int : left = E - at - lv /\ left = RoundUpDiv(Len(data), T) - s.at - last_valid_match(T)
  <2>1. E = RoundUpDiv(Len(data), T)
    BY ONLY LzState(data, T, E, n, at, ts, table, str, exact) DEF LzState
  <2>2. E - at - lv \in Int
    BY ONLY E \in Nat, at \in Nat, lv \in Nat
  <2>3. E - at - lv = RoundUpDiv(Len(data), T) - s.at - last_valid_match(T)
    BY ONLY <1>1, <1>2, <2>1
  <2>4. QED
    BY ONLY <2>2, <2>3, Zenon
<1>4. CASE left <= 0
  <2>1. compressTurn(data, T, s) = compressEnd(data, T, s)
    BY ONLY <1>3, <1>4 DEF compressTurn
  <2>2. PICK new :
           /\ compressEnd(data, T, s) = Kept(E, ts, table, new)
           /\ LzState(data, T, E, n, E, ts, table, new, exact)
    BY <1>1, EndTurn
  <2>3. QED
    BY ONLY <1>1, <2>1, <2>2, Zenon DEF Turned
<1>5. CASE ~ (left <= 0)
  <2>1. PICK valid \in Nat : valid = Min({Lanes - 3 \div T, left}) /\ 1 <= valid
                             /\ valid <= left /\ valid <= Lanes
    <3>1. PICK La \in Nat : La = Lanes /\ 4 <= La
      BY ONLY Lz4Constants
    <3>2. PICK S : S = {La - w, left}
      OBVIOUS
    <3>3. S \subseteq Nat \ {0} /\ S # {}
      BY ONLY <1>5, <3>1, <3>2, left \in Int, La \in Nat, w \in 0 .. 3
    <3>4. Min(S) \in S /\ \A y \in S : Min(S) <= y
      <4>1. S \subseteq Nat
        BY ONLY <3>3
      <4>2. QED
        BY ONLY <3>3, <4>1, MinIs
    <3>5. PICK v \in Nat \ {0} : v = Min(S) /\ v <= left /\ v <= La - w
      BY ONLY <3>2, <3>3, <3>4
    <3>6. v <= La /\ 1 <= v
      BY ONLY <3>5, v \in Nat \ {0}, La \in Nat, w \in 0 .. 3
    <3>7. v = Min({Lanes - 3 \div T, left})
      BY ONLY <1>2, <3>1, <3>2, <3>5
    <3>8. QED
      BY ONLY <3>1, <3>5, <3>6, <3>7, v \in Nat \ {0}
  <2>2. PICK words : words = [i \in 0 .. valid - 1 |-> word(data, T, at + i)]
    OBVIOUS
  <2>3. PICK lane : lane = findMatch(data, T, table, at, words, valid)
    OBVIOUS
  <2>4. compressTurn(data, T, s) = compressWords(data, T, s, words, valid, lane)
    BY ONLY <1>1, <1>3, <1>5, <2>1, <2>2, <2>3 DEF compressTurn
  <2>5. Looking(data, T, E, at, valid, words)
    <3>1. valid <= OffsetRange
      BY ONLY <2>1, Lz4Constants, valid \in Nat
    <3>2. at + valid + lv <= E
      BY ONLY <1>3, <2>1, valid \in Nat, left \in Int, at \in Nat, lv \in Nat, E \in Nat
    <3>3. E = RoundUpDiv(Len(data), T)
      BY ONLY LzState(data, T, E, n, at, ts, table, str, exact) DEF LzState
    <3>4. QED
      BY ONLY <1>2, <2>2, <3>1, <3>2, <3>3 DEF Looking
  <2>6. TableOK(table, n, at)
    BY ONLY LzState(data, T, E, n, at, ts, table, str, exact) DEF LzState
  <2>7. PICK location : location = matchLocation(table, at, words, valid, lane)
    OBVIOUS
  <2>8. /\ lane \in 0 .. valid
        /\ lane # valid =>
             /\ location \in Nat /\ location < at + lane /\ at + lane - location <= MAX_OFFSET
             /\ Twins(data, T, E, location, at + lane)
    <3>1. /\ lane \in 0 .. valid
          /\ lane # valid =>
              \E loc \in Nat :
                /\ loc = matchLocation(table, at, words, valid, lane)
                /\ loc < at + lane /\ at + lane - loc <= MAX_OFFSET
                /\ Twins(data, T, E, loc, at + lane)
      BY ONLY <2>3, <2>5, <2>6, MatchFound, data \in Seq(Nat), T \in {1, 2, 4}, E \in Nat, at \in Nat,
              valid \in Nat, n \in Nat \ {0}, SMTT(30)
    <3>2. QED
      BY ONLY <2>7, <3>1, Zenon
  <2>9. compressTurn(data, T, s) = compressLane(data, T, s, words, valid, lane, location)
    BY ONLY <1>1, <2>4, <2>7 DEF compressWords
  <2>10. CASE lane = valid
    <3>1. PICK to \in Nat : to = at + valid /\ to < E
      <4>1. 1 <= lv
        <5>1. lv * T = 12 /\ T \in Nat
          BY ONLY <1>2, Unit, T \in {1, 2, 4}
        <5>2. QED
          BY ONLY <5>1, lv \in Nat, T \in {1, 2, 4}
      <4>2. at + valid + lv <= E
        BY ONLY <1>2, <2>5 DEF Looking
      <4>3. at + valid \in Nat /\ at + valid < E
        BY ONLY <4>1, <4>2, at \in Nat, valid \in Nat, lv \in Nat, E \in Nat
      <4>4. QED
        BY ONLY <4>3, Zenon
    <3>2. PICK table2 : table2 = insertHashTableWarp(table, at, words, valid)
      OBVIOUS
    <3>3. compressTurn(data, T, s) = Kept(to, ts, table2, str)
      <4>1. compressTurn(data, T, s)
              = [s EXCEPT !.at = @ + valid, !.table = insertHashTableWarp(@, s.at, words, lane)]
        BY ONLY <2>9, <2>10 DEF compressLane
      <4>2. s = [at |-> at, tokenStart |-> ts, table |-> table, out |-> str]
        BY ONLY <1>1 DEF Kept
      <4>3. QED
        BY ONLY <2>10, <3>1, <3>2, <4>1, <4>2 DEF Kept
    <3>4. LzState(data, T, E, n, to, ts, table2, str, exact)
      <4>1. LzState(data, T, E, n, at + valid, ts, insertHashTableWarp(table, at, words, valid), str, exact)
        <5>1. at + valid < E
          BY ONLY <3>1
        <5>2. QED
          BY ONLY <5>1, SkipTurn, data \in Seq(Nat), T \in {1, 2, 4}, E \in Nat, at \in Nat,
              ts \in Nat, str \in Seq(Int), valid \in Nat, n \in Nat \ {0},
              LzState(data, T, E, n, at, ts, table, str, exact)
      <4>2. QED
        BY ONLY <3>1, <3>2, <4>1
    <3>5. QED
      BY ONLY <1>1, <3>3, <3>4, Zenon DEF Turned
  <2>11. CASE lane # valid
    <3>1. PICK pos \in Nat : pos = at + lane
      BY ONLY <2>8, at \in Nat, valid \in Nat
    <3>2. location \in Nat /\ location < pos /\ pos - location <= MAX_OFFSET /\ Twins(data, T, E, location, pos)
      BY ONLY <2>8, <2>11, <3>1
    <3>3. PICK num \in Nat :
           /\ num = lengthOfMatch(data, T, location, pos, E)
           /\ 4 <= num * T /\ pos + num < E
           /\ SameBytes(data, pos * T, location * T, num * T)
      BY ONLY <3>2, MatchIsLong, data \in Seq(Nat), T \in {1, 2, 4}, E \in Nat, pos \in Nat
    <3>4. Ahead(data, T, E, pos, location, num)
      BY ONLY <3>2, <3>3 DEF Ahead
    <3>5. PICK kept : kept = insertHashTableWarp(table, at, words, lane)
      OBVIOUS
    <3>6. PICK to \in Nat : to = pos + num
      BY ONLY pos \in Nat, num \in Nat
    <3>7. compressTurn(data, T, s) = compressMatch(data, T, s, kept, pos, location, num)
      <4>1. E = RoundUpDiv(Len(data), T)
        BY ONLY LzState(data, T, E, n, at, ts, table, str, exact) DEF LzState
      <4>2. QED
        BY ONLY <1>1, <2>9, <2>11, <3>1, <3>3, <3>5, <4>1 DEF compressLane
    <3>8. Turned(data, T, E, n, exact, compressMatch(data, T, s, kept, pos, location, num))
      <4>1. lane \in Nat /\ location \in Nat
        BY ONLY <2>8, <3>2, valid \in Nat
      <4>2. Matching(data, T, E, n, at, ts, table, str, exact, words, lane, pos, location, num, kept, to)
        BY ONLY <3>1, <3>4, <3>5, <3>6, LzState(data, T, E, n, at, ts, table, str, exact), at < E,
            exact => Narrow(data, T) DEF Matching
      <4>3. Turned(data, T, E, n, exact, compressMatch(data, T, Kept(at, ts, table, str), kept, pos, location, num))
        BY ONLY <4>1, <4>2, MatchTurn, Zenon, data \in Seq(Nat), T \in {1, 2, 4}, E \in Nat,
            n \in Nat \ {0}, at \in Nat, ts \in Nat, str \in Seq(Int), pos \in Nat, num \in Nat, to \in Nat
      <4>4. QED
        BY ONLY <1>1, <4>3
    <3>9. QED
      BY ONLY <1>1, <3>7, <3>8
  <2>12. QED
    BY ONLY <2>10, <2>11
<1>6. QED
  BY ONLY <1>4, <1>5

-----------------------------------------------------------------------------
(* LZ4: the decompressor reads what was written.                           *)

\* The buffer of a warp holds the bytes of the stream from base on.
Holds(ctrl, base, lz) ==
  /\ ctrl.base = base
  /\ \A i \in 0 .. BufferSize - 1 :
        base + i \in 0 .. Len(lz) - 1 => ctrl.cells[i] = lz[base + i + 1]

\* The buffer is four words long at least, and filled when half of it is read.
LEMMA BufferConstants ==
  /\ BufferSize \in Nat /\ WordBytes \in Nat \ {0} /\ 4 * WordBytes <= BufferSize
  /\ PrefetchDist \in Nat /\ 1 <= PrefetchDist
<1>1. PICK L \in Nat, W \in Nat \ {0} : L = Lanes /\ W = WordBytes /\ 4 <= L
  <2>1. Lanes \in Nat /\ WordBytes \in Nat \ {0} /\ 4 <= Lanes
    BY Lz4Constants
  <2>2. QED
    BY ONLY <2>1, Zenon
<1>2. 4 \in Nat /\ W \in Nat
  BY ONLY W \in Nat \ {0}
<1>3. PICK B \in Nat : B = L * W /\ 4 * W <= B
  <2>1. L * W \in Nat /\ 4 * W <= L * W
    BY ONLY <1>1, <1>2, Product, ProductLess, L \in Nat
  <2>2. QED
    BY ONLY <2>1, Zenon
<1>4. B = BufferSize
  BY ONLY <1>1, <1>3 DEF BufferSize
<1>5. B \div 2 \in Nat /\ 1 <= B \div 2
  BY ONLY <1>3, B \in Nat, W \in Nat \ {0}
<1>6. QED
  BY ONLY <1>1, <1>3, <1>4, <1>5, W \in Nat \ {0}, B \in Nat DEF PrefetchDist

\* A byte of the stream that is in the buffer.
LEMMA RawRead ==
  ASSUME NEW lz \in Seq(Int), NEW ctrl, NEW base \in Int, Holds(ctrl, base, lz),
         NEW i \in Nat, base <= i, i < base + BufferSize, i < Len(lz)
  PROVE  rawAt(ctrl, i) = lz[i + 1]
<1>1. PICK B \in Nat : B = BufferSize
  BY BufferConstants
<1>2. PICK j \in 0 .. B - 1 : j = i - base /\ base + j = i
  BY ONLY <1>1, base <= i, i < base + BufferSize, B \in Nat, base \in Int, i \in Nat
<1>3. base + j \in 0 .. Len(lz) - 1
  BY ONLY <1>2, i < Len(lz), i \in Nat, lz \in Seq(Int)
<1>4. ctrl.cells[j] = lz[base + j + 1] /\ ctrl.base = base
  BY ONLY <1>1, <1>3, Holds(ctrl, base, lz), j \in 0 .. B - 1 DEF Holds
<1>5. rawAt(ctrl, i) = ctrl.cells[j]
  BY ONLY <1>1, <1>2, <1>4 DEF rawAt
<1>6. QED
  BY ONLY <1>2, <1>4, <1>5

\* A byte of a part of the stream, from the buffer or from the stream itself.
LEMMA PartRead ==
  ASSUME NEW lz \in Seq(Int), NEW ctrl, NEW base \in Int, Holds(ctrl, base, lz),
         NEW i \in Nat, NEW to \in Nat, base <= i, i < to, to <= Len(lz)
  PROVE  streamByte(ctrl, lz, to, i) = lz[i + 1]
<1>1. PICK B \in Nat, N \in Nat : B = BufferSize /\ N = Len(lz)
  BY BufferConstants
<1>2. i \in 0 .. N - 1 /\ i < N
  BY ONLY <1>1, i < to, to <= Len(lz), i \in Nat, to \in Nat, N \in Nat
<1>3. end(ctrl) = base + B
  BY ONLY <1>1, Holds(ctrl, base, lz) DEF end, Holds
<1>4. CASE to > base + B
  BY ONLY <1>1, <1>2, <1>3, <1>4 DEF streamByte, byteAt
<1>5. CASE ~ (to > base + B)
  <2>1. i < base + BufferSize /\ i < Len(lz)
    BY ONLY <1>1, <1>2, <1>5, i < to, i \in Nat, to \in Nat, base \in Int, B \in Nat
  <2>2. rawAt(ctrl, i) = lz[i + 1]
    BY <2>1, RawRead
  <2>3. QED
    BY ONLY <1>3, <1>5, <2>2 DEF streamByte
<1>6. QED
  BY ONLY <1>4, <1>5

\* A load brings in the bytes from the word of a position on.
LEMMA BufferLoaded ==
  ASSUME NEW lz \in Seq(Int), NEW ctrl, NEW align \in Nat, NEW c \in Nat
  PROVE  \E at \in Int : Holds(loadAt(ctrl, lz, align, c), at, lz) /\ at <= c /\ c < at + BufferSize
<1>0. PICK B \in Nat, W \in Nat \ {0} : B = BufferSize /\ W = WordBytes /\ 4 * W <= B
  BY BufferConstants
<1>a. PICK new : new = loadAt(ctrl, lz, align, c)
  OBVIOUS
<1>1. PICK k \in Nat : k = align + c
  BY ONLY align \in Nat, c \in Nat
<1>2. PICK q \in Nat, r \in 0 .. W - 1 : q = k \div W /\ k = W * q + r
  <2>1. k \div W \in Nat
    BY ONLY DivNat, k \in Nat, W \in Nat \ {0}
  <2>2. k % W \in 0 .. W - 1 /\ k = W * (k \div W) + (k % W)
    BY ONLY DivMod, k \in Nat, W \in Nat \ {0}
  <2>3. QED
    BY ONLY <2>1, <2>2, Zenon
<1>3. PICK p \in Nat : p = W * q /\ p = q * W
  BY ONLY Product, q \in Nat, W \in Nat \ {0}
<1>4. PICK at \in Int : at = p - align
  BY ONLY p \in Nat, align \in Nat
<1>5. at <= c /\ c < at + B
  <2>1. k = p + r
    BY ONLY <1>2, <1>3
  <2>2. QED
    BY ONLY <1>0, <1>1, <1>4, <2>1, c \in Nat, align \in Nat, p \in Nat, at \in Int, B \in Nat,
            W \in Nat \ {0}, r \in 0 .. W - 1
<1>6. new = [base  |-> at,
             cells |-> [i \in 0 .. BufferSize - 1 |->
                   IF at + i \in 0 .. Len(lz) - 1 THEN lz[at + i + 1] ELSE ctrl.cells[i]]]
  <2>1. ((align + c) \div WordBytes) * WordBytes - align = at
    BY ONLY <1>0, <1>1, <1>2, <1>3, <1>4
  <2>2. QED
    BY ONLY <1>a, <2>1 DEF loadAt
<1>7. Holds(new, at, lz)
  BY ONLY <1>6 DEF Holds
<1>8. QED
  BY ONLY <1>0, <1>5, <1>7, <1>a, at \in Int

\* Before a token is read the buffer is filled, if that is due.
LEMMA BufferFilled ==
  ASSUME NEW lz \in Seq(Int), NEW ctrl, NEW base \in Int, Holds(ctrl, base, lz),
         NEW align \in Nat, NEW c \in Nat, base <= c,
         NEW new, new = IF c + PrefetchDist <= end(ctrl) THEN ctrl ELSE loadAt(ctrl, lz, align, c)
  PROVE  \E at \in Int : Holds(new, at, lz) /\ at <= c /\ c < at + BufferSize
<1>1. PICK B \in Nat, W \in Nat \ {0}, P \in Nat :
        B = BufferSize /\ W = WordBytes /\ P = PrefetchDist /\ 4 * W <= B /\ 1 <= P
  BY BufferConstants
<1>2. CASE c + PrefetchDist <= end(ctrl)
  <2>1. end(ctrl) = base + B
    BY ONLY <1>1, Holds(ctrl, base, lz) DEF end, Holds
  <2>2. c < base + B
    BY ONLY <1>1, <1>2, <2>1, c \in Nat, P \in Nat, base \in Int, B \in Nat
  <2>3. new = ctrl
    BY ONLY <1>2, new = IF c + PrefetchDist <= end(ctrl) THEN ctrl ELSE loadAt(ctrl, lz, align, c)
  <2>4. QED
    BY <1>1, <2>2, <2>3
<1>3. CASE ~ (c + PrefetchDist <= end(ctrl))
  <2>1. new = loadAt(ctrl, lz, align, c)
    BY ONLY <1>3, new = IF c + PrefetchDist <= end(ctrl) THEN ctrl ELSE loadAt(ctrl, lz, align, c)
  <2>2. \E at \in Int : Holds(loadAt(ctrl, lz, align, c), at, lz) /\ at <= c /\ c < at + BufferSize
    BY ONLY BufferLoaded, lz \in Seq(Int), align \in Nat, c \in Nat, Zenon
  <2>3. QED
    BY ONLY <2>1, <2>2
<1>4. QED
  BY ONLY <1>2, <1>3

\* The larger one of two numbers.
LEMMA MaxOfPair ==
  ASSUME NEW a \in Int, NEW b \in Int
  PROVE  Max({a, b}) \in {a, b} /\ \A y \in {a, b} : Max({a, b}) >= y
<1>1. \E x \in {a, b} : \A y \in {a, b} : x >= y
  OBVIOUS
<1>2. QED
  BY <1>1 DEF Max

\* A length is read as it was written.
LEMMA LengthRead ==
  ASSUME NEW lz \in Seq(Int), NEW ctrl, NEW base \in Int, Holds(ctrl, base, lz),
         NEW p \in Nat, base <= p, NEW short \in Nat, NEW nibble, NEW num \in Nat, NEW q \in Nat,
         LengthAt(lz, p, short, nibble, num, q), q <= Len(lz)
  PROVE  length(ctrl, lz, nibble, p) = [num |-> num - short, idx |-> q]
<1>1. CASE nibble # TokenMax
  <2>1. num = nibble + short /\ q = p /\ nibble \in 0 .. TokenMax
    BY ONLY <1>1, LengthAt(lz, p, short, nibble, num, q) DEF LengthAt
  <2>2. nibble = num - short
    BY ONLY <2>1, Lz4Constants, num \in Nat, short \in Nat
  <2>3. QED
    BY ONLY <1>1, <2>1, <2>2 DEF length
<1>2. CASE nibble = TokenMax
  <2>1. num >= short + TokenMax /\ Code(lz, p, num - short - TokenMax, q)
    BY ONLY <1>2, LengthAt(lz, p, short, nibble, num, q) DEF LengthAt
  <2>2. PICK t \in Nat, L \in Nat \ {0} : t = TokenMax /\ L = LsicMax
    BY Lz4Constants
  <2>3. PICK n \in Nat : n = num - short - t
    BY ONLY <2>1, <2>2, num \in Nat, short \in Nat, t \in Nat
  <2>4. PICK j \in Nat :
          /\ q = p + j + 1 /\ n = j * L + lz[q] /\ lz[q] \in 0 .. L - 1
          /\ \A i \in 1 .. j : lz[p + i] = L
    BY ONLY <2>1, <2>2, <2>3 DEF Code
  <2>5. PICK z \in Nat : z = lz[q] /\ z # L
    BY ONLY <2>4, L \in Nat \ {0}
  <2>6. PICK B \in Nat, N \in Nat : B = BufferSize /\ N = Len(lz)
    BY BufferConstants
  <2>7. PICK e \in Int : e = end(ctrl) /\ e = base + B
    BY ONLY <2>6, Holds(ctrl, base, lz), base \in Int, B \in Nat DEF end, Holds
  <2>8. PICK next : next = [i \in Nat |-> IF i < e THEN rawAt(ctrl, i) ELSE byteAt(lz, i)]
    OBVIOUS
  <2>9. ASSUME NEW i \in Nat, p <= i, i < q PROVE next[i] = lz[i + 1]
    <3>1. base <= i /\ i < N /\ i \in 0 .. N - 1
      BY ONLY <2>6, <2>9, base <= p, q <= Len(lz), base \in Int, p \in Nat, q \in Nat, N \in Nat, i \in Nat
    <3>2. CASE i < e
      <4>1. i < base + BufferSize /\ i < Len(lz)
        BY ONLY <2>6, <2>7, <3>1, <3>2
      <4>2. rawAt(ctrl, i) = lz[i + 1]
        BY <3>1, <4>1, RawRead
      <4>3. QED
        BY ONLY <2>8, <3>2, <4>2, i \in Nat
    <3>3. CASE ~ (i < e)
      BY ONLY <2>6, <2>8, <3>1, <3>3, i \in Nat DEF byteAt
    <3>4. QED
      BY ONLY <3>2, <3>3
  <2>10. PICK last \in Nat : last = p + j /\ last + 1 = q
    BY ONLY <2>4, p \in Nat, j \in Nat
  <2>11. next[last] = z /\ z # L
    BY ONLY <2>5, <2>9, <2>10, last \in Nat, p \in Nat, j \in Nat, q \in Nat
  <2>12. ASSUME NEW i \in Nat, p <= i, i < last PROVE next[i] = L
    <3>1. i < q
      BY ONLY <2>10, <2>12, i \in Nat, last \in Nat, q \in Nat
    <3>2. next[i] = lz[i + 1]
      BY ONLY <2>9, <2>12, <3>1, i \in Nat
    <3>3. PICK m \in 1 .. j : i + 1 = p + m
      BY ONLY <2>10, <2>12, i \in Nat, p \in Nat, j \in Nat, last \in Nat
    <3>4. QED
      BY ONLY <2>4, <3>2, <3>3
  <2>13. PICK top : top = Max({end(ctrl), Len(lz)})
    OBVIOUS
  <2>14. top \in Int /\ N <= top
    <3>1. {e, N} \subseteq Int /\ {e, N} # {}
      BY ONLY e \in Int, N \in Nat
    <3>2. top \in {e, N} /\ \A y \in {e, N} : top >= y
      BY ONLY <2>6, <2>7, <2>13, <3>1, MaxOfPair
    <3>3. QED
      BY ONLY <3>2, e \in Int, N \in Nat
  <2>15. PICK S : S = {i \in p .. top : next[i] # L}
    OBVIOUS
  <2>16. last = Least(S, p)
    <3>1. last \in S
      <4>1. last \in p .. top
        BY ONLY <2>6, <2>10, <2>14, q <= Len(lz), last \in Nat, p \in Nat, j \in Nat, q \in Nat, N \in Nat
      <4>2. QED
        BY ONLY <2>11, <2>15, <4>1
    <3>2. S \subseteq Nat /\ S # {}
      BY ONLY <2>15, <3>1, p \in Nat
    <3>3. PICK x \in Nat : x = Min(S) /\ x \in S /\ \A y \in S : x <= y
      BY ONLY <3>2, MinIs
    <3>4. x <= last /\ p <= x /\ next[x] # L
      BY ONLY <2>15, <3>1, <3>3, p \in Nat, <2>14
    <3>5. x = last
      BY ONLY <2>12, <3>4, x \in Nat, last \in Nat
    <3>6. QED
      BY ONLY <3>2, <3>3, <3>5 DEF Least
  <2>17. readLSIC(ctrl, lz, p) = [num |-> (last - p) * LsicMax + next[last], idx |-> last + 1]
    <3>1. \A i \in p .. top : (IF i < end(ctrl) THEN rawAt(ctrl, i) ELSE byteAt(lz, i)) = next[i]
      BY ONLY <2>7, <2>8, <2>14, p \in Nat
    <3>2. S = {i \in p .. Max({end(ctrl), Len(lz)}) :
                 (IF i < end(ctrl) THEN rawAt(ctrl, i) ELSE byteAt(lz, i)) # LsicMax}
      BY ONLY <2>2, <2>13, <2>15, <3>1
    <3>3. next[last] = IF last < end(ctrl) THEN rawAt(ctrl, last) ELSE byteAt(lz, last)
      BY ONLY <2>7, <2>8, last \in Nat
    <3>4. QED
      BY ONLY <2>16, <3>2, <3>3 DEF readLSIC
  <2>18. (last - p) * LsicMax + next[last] = n /\ n + t = num - short
    <3>1. last - p = j
      BY ONLY <2>10, p \in Nat, j \in Nat
    <3>2. (last - p) * LsicMax + next[last] = j * L + z
      BY ONLY <2>2, <2>11, <3>1
    <3>3. n = j * L + z
      BY ONLY <2>4, <2>5
    <3>4. n + t = num - short
      BY ONLY <2>3, num \in Nat, short \in Nat, t \in Nat
    <3>5. QED
      BY ONLY <3>2, <3>3, <3>4
  <2>19. readLSIC(ctrl, lz, p) = [num |-> n, idx |-> q]
    BY ONLY <2>10, <2>17, <2>18
  <2>20. length(ctrl, lz, nibble, p) = [num |-> n + t, idx |-> q]
    BY ONLY <1>2, <2>2, <2>19 DEF length
  <2>21. QED
    BY ONLY <2>18, <2>20
<1>3. QED
  BY ONLY <1>1, <1>2

\* The state of a reader.
Reader(ctrl, c, d, o, bad) ==
  [ctrl |-> ctrl, comp_idx |-> c, decomp_idx |-> d, out |-> o, corrupted |-> bad]

\* What it has written for the first d bytes of the data, if it is to write at all.
Output(output, exact, data, o, d) ==
  IF output THEN o \in Seq(Int) /\ Len(o) = d /\ (exact => \A k \in 1 .. d : o[k] = data[k])
  ELSE o = << >>

\* The literals of a sequence behind what was written before.
Copied(new, d, l, lz, p) == \A k \in 1 .. l : new[d + k] = lz[p + k]

CopyOf(ctrl, lz, e, p, l) == [k \in 1 .. l |-> streamByte(ctrl, lz, e, p + k - 1)]

\* The decompression copies the literals of a sequence behind what it has.
LEMMA LiteralsCopied ==
  ASSUME NEW lz \in Seq(Int), NEW ctrl, NEW base \in Int, Holds(ctrl, base, lz),
         NEW data, NEW d \in Nat, NEW l \in Nat, NEW p \in Nat, base <= p, NEW e \in Nat, e = p + l,
         e <= Len(lz), Literals(lz, data, d, l, p),
         NEW o \in Seq(Int), NEW exact, Output(TRUE, exact, data, o, d), NEW D \in Nat, D = d + l
  PROVE  /\ Output(TRUE, exact, data, o \o CopyOf(ctrl, lz, e, p, l), D)
         /\ Copied(o \o CopyOf(ctrl, lz, e, p, l), d, l, lz, p)
<1>0. PICK y, new : y = CopyOf(ctrl, lz, e, p, l) /\ new = o \o CopyOf(ctrl, lz, e, p, l)
  OBVIOUS
<1>1. y = [k \in 1 .. l |-> streamByte(ctrl, lz, e, p + k - 1)]
  BY ONLY <1>0 DEF CopyOf
<1>2. ASSUME NEW k \in 1 .. l PROVE y[k] = lz[p + k] /\ lz[p + k] \in Int
  <2>1. PICK i \in Nat : i = p + k - 1 /\ i + 1 = p + k /\ base <= i /\ i < e
    BY ONLY e = p + l, base <= p, p \in Nat, l \in Nat, e \in Nat, base \in Int, k \in 1 .. l
  <2>2. streamByte(ctrl, lz, e, i) = lz[i + 1]
    BY ONLY <2>1, PartRead, lz \in Seq(Int), base \in Int, Holds(ctrl, base, lz), i \in Nat, e \in Nat,
            e <= Len(lz)
  <2>3. p + k \in 1 .. Len(lz)
    BY ONLY <2>1, e <= Len(lz), lz \in Seq(Int), i \in Nat, e \in Nat
  <2>4. lz[p + k] \in Int
    BY ONLY <2>3, lz \in Seq(Int)
  <2>5. y[k] = streamByte(ctrl, lz, e, i)
    BY ONLY <1>1, <2>1, k \in 1 .. l
  <2>6. QED
    BY ONLY <2>1, <2>2, <2>4, <2>5
<1>3. y \in Seq(Int) /\ Len(y) = l
  <2>1. y \in [1 .. l -> Int]
    BY ONLY <1>1, <1>2
  <2>2. QED
    BY ONLY <2>1, l \in Nat
<1>4. new = o \o y
  BY ONLY <1>0
<1>5. Len(o) = d /\ (exact => \A k \in 1 .. d : o[k] = data[k])
  BY ONLY Output(TRUE, exact, data, o, d) DEF Output
<1>6. /\ new \in Seq(Int) /\ Len(new) = d + l
      /\ \A k \in 1 .. d : new[k] = o[k]
      /\ \A k \in 1 .. l : new[d + k] = y[k]
  BY ONLY <1>3, <1>4, <1>5, Concat, o \in Seq(Int), ZenonT(40)
<1>7. Copied(new, d, l, lz, p)
  BY ONLY <1>2, <1>6 DEF Copied
<1>8. ASSUME exact, NEW k \in 1 .. D PROVE new[k] = data[k]
  <2>1. CASE k <= d
    BY ONLY <1>5, <1>6, <1>8, <2>1, k \in 1 .. D, d \in Nat
  <2>2. CASE ~ (k <= d)
    <3>1. PICK j \in 1 .. l : k = d + j
      BY ONLY <2>2, D = d + l, d \in Nat, l \in Nat, D \in Nat, k \in 1 .. D
    <3>2. new[d + j] = lz[p + j] /\ lz[p + j] = data[d + j]
      BY ONLY <1>7, Literals(lz, data, d, l, p), j \in 1 .. l DEF Copied, Literals
    <3>3. QED
      BY ONLY <3>1, <3>2
  <2>3. QED
    BY ONLY <2>1, <2>2
<1>9. Output(TRUE, exact, data, new, D)
  BY ONLY <1>6, <1>8, D = d + l DEF Output
<1>10. QED
  BY ONLY <1>0, <1>7, <1>9

\* Where a match is read from.
InBuffer(ctrl, f, l, p) ==
  f <= l /\ 0 <= ctrl.base /\ ctrl.base <= p /\ end(ctrl) >= p + l

SourceByte(ctrl, o, D, f, l, p, k) ==
  IF InBuffer(ctrl, f, l, p) THEN rawAt(ctrl, p + l - f + k) ELSE byteAt(o, D - f + k)

FromEnd(o, D, f, k, z) == z = o[D - f + k + 1] /\ z \in Int

\* Whether from the buffer or from the output, it is the bytes f before the end.
LEMMA SourceIs ==
  ASSUME NEW lz \in Seq(Int), NEW ctrl, NEW base \in Int, Holds(ctrl, base, lz),
         NEW d \in Nat, NEW l \in Nat, NEW p \in Nat, p + l <= Len(lz),
         NEW o \in Seq(Int), NEW D \in Nat, D = d + l, Len(o) = D, Copied(o, d, l, lz, p),
         NEW f \in Nat, f <= D, NEW k \in Nat, k < f
  PROVE  FromEnd(o, D, f, k, SourceByte(ctrl, o, D, f, l, p, k))
<1>0. PICK z : z = SourceByte(ctrl, o, D, f, l, p, k)
  OBVIOUS
<1>1. PICK i \in Nat : i = D - f + k /\ i < D
  BY ONLY f <= D, k < f, k \in Nat, f \in Nat, D \in Nat
<1>2. o[i + 1] \in Int
  BY ONLY <1>1, Len(o) = D, o \in Seq(Int), i \in Nat, D \in Nat
<1>3. CASE InBuffer(ctrl, f, l, p)
  <2>1. PICK B \in Nat : B = BufferSize
    BY BufferConstants
  <2>2. f <= l /\ base <= p /\ base + B >= p + l
    BY ONLY <1>3, <2>1, Holds(ctrl, base, lz) DEF InBuffer, Holds, end
  <2>3. PICK x \in Nat, j \in 1 .. l :
          x = p + l - f + k /\ x + 1 = p + j /\ i + 1 = d + j /\ base <= x /\ x < base + B /\ x < p + l
    <3>1. PICK j \in 1 .. l : j = l - f + k + 1
      BY ONLY <2>2, k < f, l \in Nat, f \in Nat, k \in Nat
    <3>2. PICK x \in Nat : x = p + l - f + k
      BY ONLY <2>2, l \in Nat, f \in Nat, k \in Nat, p \in Nat
    <3>3. x + 1 = p + j /\ i + 1 = d + j /\ base <= x /\ x < base + B /\ x < p + l
      BY ONLY <1>1, <2>2, <3>1, <3>2, D = d + l, k < f, l \in Nat, f \in Nat, k \in Nat, p \in Nat,
              d \in Nat, D \in Nat, i \in Nat, x \in Nat, base \in Int, B \in Nat
    <3>4. QED
      BY ONLY <3>1, <3>2, <3>3, Zenon
  <2>4. x < Len(lz) /\ x < base + BufferSize
    BY ONLY <2>1, <2>3, p + l <= Len(lz), lz \in Seq(Int), p \in Nat, l \in Nat, x \in Nat
  <2>5. rawAt(ctrl, x) = lz[x + 1]
    BY <2>3, <2>4, RawRead
  <2>6. z = rawAt(ctrl, x)
    BY ONLY <1>0, <1>3, <2>3 DEF SourceByte
  <2>7. lz[x + 1] = o[i + 1]
    BY ONLY <2>3, Copied(o, d, l, lz, p), j \in 1 .. l DEF Copied
  <2>8. QED
    BY ONLY <1>0, <1>1, <1>2, <2>5, <2>6, <2>7 DEF FromEnd
<1>4. CASE ~ InBuffer(ctrl, f, l, p)
  <2>1. z = byteAt(o, i)
    BY ONLY <1>0, <1>1, <1>4 DEF SourceByte
  <2>2. i \in 0 .. Len(o) - 1
    BY ONLY <1>1, Len(o) = D, i \in Nat, D \in Nat
  <2>3. z = o[i + 1]
    BY ONLY <2>1, <2>2 DEF byteAt
  <2>4. QED
    BY ONLY <1>0, <1>1, <1>2, <2>3 DEF FromEnd
<1>5. QED
  BY ONLY <1>3, <1>4

MatchSource(ctrl, o, D, f, l, p, m) ==
  [k \in 0 .. Min({f, m}) - 1 |-> SourceByte(ctrl, o, D, f, l, p, k)]

\* A match is copied.
LEMMA MatchCopied ==
  ASSUME NEW lz \in Seq(Int), NEW ctrl, NEW base \in Int, Holds(ctrl, base, lz),
         NEW data, NEW d \in Nat, NEW l \in Nat, NEW p \in Nat, p + l <= Len(lz),
         NEW o \in Seq(Int), NEW exact, NEW D \in Nat, D = d + l, Output(TRUE, exact, data, o, D),
         Copied(o, d, l, lz, p),
         NEW f \in Nat, f <= D, NEW m \in Nat, exact => Repeated(data, D, m, f),
         NEW u \in Nat, u = D + m
  PROVE  Output(TRUE, exact, data, o \o coopCopyOverlap(MatchSource(ctrl, o, D, f, l, p, m), f, m), u)
<1>0. PICK source, new : /\ source = [k \in 0 .. Min({f, m}) - 1 |-> SourceByte(ctrl, o, D, f, l, p, k)]
                         /\ source = MatchSource(ctrl, o, D, f, l, p, m)
                         /\ new = o \o coopCopyOverlap(MatchSource(ctrl, o, D, f, l, p, m), f, m)
                         /\ new = o \o coopCopyOverlap(source, f, m)
  BY DEF MatchSource
<1>1. Len(o) = D /\ (exact => \A k \in 1 .. D : o[k] = data[k])
  BY ONLY Output(TRUE, exact, data, o, D) DEF Output
<1>2. PICK y : y = coopCopyOverlap(source, f, m)
  OBVIOUS
<1>3. ASSUME f # 0, NEW j \in 1 .. m
      PROVE  /\ y[j] = o[D - f + 1 + ((j - 1) % f)] /\ o[D - f + 1 + ((j - 1) % f)] \in Int
             /\ D - f + 1 + ((j - 1) % f) \in 1 .. D
  <2>1. PICK k \in Nat : k = (j - 1) % f /\ k < f /\ k < m
    <3>1. f \in Nat \ {0} /\ j - 1 \in Nat /\ j - 1 < m
      BY ONLY <1>3, f \in Nat, m \in Nat, j \in 1 .. m
    <3>2. (j - 1) % f \in 0 .. f - 1
      BY ONLY <3>1, DivMod
    <3>3. (j - 1) % f <= j - 1
      BY ONLY <3>1, Remainder
    <3>4. PICK r \in Nat : r = (j - 1) % f /\ r < f
      BY ONLY <3>2, f \in Nat
    <3>5. r < m
      BY ONLY <3>1, <3>3, <3>4, m \in Nat, j \in 1 .. m, r \in Nat, SMTT(30)
    <3>6. QED
      BY ONLY <3>4, <3>5, Zenon
  <2>2. k \in 0 .. Min({f, m}) - 1
    <3>1. {f, m} \subseteq Nat /\ {f, m} # {}
      BY ONLY f \in Nat, m \in Nat
    <3>2. Min({f, m}) \in {f, m}
      BY ONLY <3>1, MinIs
    <3>3. QED
      BY ONLY <2>1, <3>2, f \in Nat, m \in Nat, k \in Nat
  <2>3. PICK z : z = source[k] /\ z = SourceByte(ctrl, o, D, f, l, p, k)
    BY ONLY <1>0, <2>2
  <2>4. z = o[D - f + k + 1] /\ o[D - f + k + 1] \in Int
    <3>1. Len(o) = D /\ k < f
      BY ONLY <1>1, <2>1
    <3>2. FromEnd(o, D, f, k, SourceByte(ctrl, o, D, f, l, p, k))
      BY ONLY <3>1, SourceIs, lz \in Seq(Int), base \in Int, Holds(ctrl, base, lz), d \in Nat, l \in Nat,
              p \in Nat, p + l <= Len(lz), o \in Seq(Int), D \in Nat, D = d + l, Copied(o, d, l, lz, p),
              f \in Nat, f <= D, k \in Nat, Zenon
    <3>3. QED
      BY ONLY <2>3, <3>2 DEF FromEnd
  <2>5. y[j] = source[k]
    BY ONLY <1>2, <1>3, <2>1, j \in 1 .. m DEF coopCopyOverlap
  <2>6. D - f + k + 1 = D - f + 1 + ((j - 1) % f) /\ D - f + 1 + ((j - 1) % f) \in 1 .. D
    <3>1. D - f + k + 1 = D - f + 1 + k /\ D - f + 1 + k \in 1 .. D
      BY ONLY <2>1, f <= D, D \in Nat, f \in Nat, k \in Nat
    <3>2. QED
      BY ONLY <2>1, <3>1
  <2>7. QED
    BY ONLY <2>3, <2>4, <2>5, <2>6
<1>4. y \in Seq(Int) /\ Len(y) = m
  <2>1. y = [k \in 1 .. m |-> IF f = 0 THEN Garbage ELSE source[(k - 1) % f]]
    BY ONLY <1>2 DEF coopCopyOverlap
  <2>2. \A k \in 1 .. m : y[k] \in Int
    <3>1. CASE f = 0
      BY ONLY <2>1, <3>1 DEF Garbage
    <3>2. CASE f # 0
      BY ONLY <1>3, <3>2
    <3>3. QED
      BY ONLY <3>1, <3>2
  <2>3. y \in [1 .. m -> Int]
    BY ONLY <2>1, <2>2
  <2>4. QED
    BY ONLY <2>3, m \in Nat
<1>5. new = o \o y
  BY ONLY <1>0, <1>2
<1>6. /\ new \in Seq(Int) /\ Len(new) = D + m
      /\ \A k \in 1 .. D : new[k] = o[k]
      /\ \A k \in 1 .. m : new[D + k] = y[k]
  BY ONLY <1>1, <1>4, <1>5, Concat, o \in Seq(Int), ZenonT(40)
<1>7. ASSUME exact, NEW k \in 1 .. u PROVE new[k] = data[k]
  <2>1. CASE k <= D
    BY ONLY <1>1, <1>6, <1>7, <2>1, k \in 1 .. u, D \in Nat
  <2>2. CASE ~ (k <= D)
    <3>1. PICK j \in 1 .. m : k = D + j
      BY ONLY <2>2, u = D + m, D \in Nat, m \in Nat, u \in Nat, k \in 1 .. u
    <3>2. f # 0 /\ f \in Nat \ {0} /\ SFP!GoesOn(data, f, D, m)
      BY ONLY <1>7, exact => Repeated(data, D, m, f), f \in Nat DEF Repeated, SFP!GoesOn
    <3>3. SFP!AsBefore(data, f, D, j)
      BY ONLY <3>2, SFP!Repeats, D \in Nat, m \in Nat, j \in 1 .. m, Zenon
    <3>4. data[D + j] = data[D - f + 1 + ((j - 1) % f)]
      BY ONLY <3>3 DEF SFP!AsBefore
    <3>5. o[D - f + 1 + ((j - 1) % f)] = data[D - f + 1 + ((j - 1) % f)]
      BY ONLY <1>1, <1>3, <1>7, <3>2, j \in 1 .. m
    <3>6. new[D + j] = o[D - f + 1 + ((j - 1) % f)]
      BY ONLY <1>3, <1>6, <3>2, j \in 1 .. m
    <3>7. QED
      BY ONLY <3>1, <3>4, <3>5, <3>6
  <2>3. QED
    BY ONLY <2>1, <2>2
<1>8. Output(TRUE, exact, data, new, u)
  BY ONLY <1>6, <1>7, u = D + m DEF Output
<1>9. QED
  BY ONLY <1>0, <1>8

\* What a turn comes to when the buffer is filled and the literals are counted.
Opened(lz, buf_end, output, c, d, o, b, l, p, s) ==
  \E full : \E at \in Int :
    /\ Holds(full, at, lz) /\ at <= c
    /\ s = decompressMatch(lz, buf_end, output, [num |-> l, idx |-> p], b,
             copyLiterals(lz, buf_end, output, [num |-> l, idx |-> p], Reader(full, c, d, o, FALSE)))

\* A turn reads the token and the number of literals, and goes on with a filled buffer.
LEMMA TurnOpens ==
  ASSUME NEW lz \in Seq(Int), NEW ctrl, NEW base \in Int, Holds(ctrl, base, lz),
         NEW align \in Nat, NEW buf_end, NEW output, NEW c \in Nat, base <= c, c < Len(lz),
         NEW d, NEW o, NEW a, NEW b, NEW l \in Nat, NEW p \in Nat,
         Token(lz, c, a, b), LengthAt(lz, c + 1, 0, a, l, p), p <= Len(lz)
  PROVE  Opened(lz, buf_end, output, c, d, o, b, l, p,
                decompressTurn(lz, align, buf_end, output, Reader(ctrl, c, d, o, FALSE)))
<1>1. PICK full : full = IF c + PrefetchDist <= end(ctrl) THEN ctrl ELSE loadAt(ctrl, lz, align, c)
  OBVIOUS
<1>2. PICK at \in Int : Holds(full, at, lz) /\ at <= c /\ c < at + BufferSize
  BY ONLY <1>1, BufferFilled, lz \in Seq(Int), base \in Int, Holds(ctrl, base, lz), align \in Nat,
          c \in Nat, base <= c
<1>3. rawAt(full, c) = lz[c + 1]
  BY ONLY <1>2, RawRead, lz \in Seq(Int), at \in Int, c \in Nat, c < Len(lz), Zenon
<1>4. decodePair(rawAt(full, c)) = [num_literals |-> a, num_matches |-> b]
  BY ONLY <1>3, Token(lz, c, a, b) DEF Token
<1>5. length(full, lz, a, c + 1) = [num |-> l, idx |-> p]
  <2>1. c + 1 \in Nat /\ at <= c + 1 /\ 0 \in Nat /\ l - 0 = l
    BY ONLY <1>2, c \in Nat, at \in Int, l \in Nat
  <2>2. length(full, lz, a, c + 1) = [num |-> l - 0, idx |-> p]
    BY ONLY <1>2, <2>1, LengthRead, lz \in Seq(Int), at \in Int, l \in Nat, p \in Nat, p <= Len(lz),
            LengthAt(lz, c + 1, 0, a, l, p)
  <2>3. QED
    BY ONLY <2>1, <2>2
<1>6. PICK s : s = Reader(ctrl, c, d, o, FALSE)
  OBVIOUS
<1>7. PICK filled : filled = IF s.comp_idx + PrefetchDist <= end(s.ctrl) THEN s
                             ELSE [s EXCEPT !.ctrl = loadAt(@, lz, align, s.comp_idx)]
  OBVIOUS
<1>8. s.comp_idx = c /\ s.ctrl = ctrl
        /\ s = [ctrl |-> ctrl, comp_idx |-> c, decomp_idx |-> d, out |-> o, corrupted |-> FALSE]
  BY ONLY <1>6 DEF Reader
<1>9. filled = Reader(full, c, d, o, FALSE) /\ filled.ctrl = full
  <2>1. CASE c + PrefetchDist <= end(ctrl)
    <3>1. filled = s /\ full = ctrl
      BY ONLY <1>1, <1>7, <1>8, <2>1
    <3>2. QED
      BY ONLY <1>6, <1>8, <3>1
  <2>2. CASE ~ (c + PrefetchDist <= end(ctrl))
    <3>1. full = loadAt(ctrl, lz, align, c)
      BY ONLY <1>1, <2>2
    <3>2. filled = [s EXCEPT !.ctrl = full]
      BY ONLY <1>7, <1>8, <2>2, <3>1
    <3>3. PICK bad : bad = FALSE
      OBVIOUS
    <3>4. s = Reader(ctrl, c, d, o, bad)
      BY ONLY <1>6, <3>3
    <3>5. filled = Reader(full, c, d, o, bad)
      BY ONLY <3>2, <3>4 DEF Reader
    <3>6. filled = Reader(full, c, d, o, FALSE)
      BY ONLY <3>3, <3>5
    <3>7. filled.ctrl = full
      BY ONLY <3>5 DEF Reader
    <3>8. QED
      BY ONLY <3>6, <3>7
  <2>3. QED
    BY ONLY <2>1, <2>2
<1>10. decompressTurn(lz, align, buf_end, output, s)
         = decompressMatch(lz, buf_end, output, [num |-> l, idx |-> p], b,
             copyLiterals(lz, buf_end, output, [num |-> l, idx |-> p], filled))
  <2>1. decodePair(rawAt(filled.ctrl, s.comp_idx)) = [num_literals |-> a, num_matches |-> b]
    BY ONLY <1>4, <1>8, <1>9
  <2>2. length(filled.ctrl, lz, a, s.comp_idx + 1) = [num |-> l, idx |-> p]
    BY ONLY <1>5, <1>8, <1>9
  <2>3. QED
    BY ONLY <1>7, <2>1, <2>2 DEF decompressTurn
<1>11. decompressTurn(lz, align, buf_end, output, Reader(ctrl, c, d, o, FALSE))
         = decompressMatch(lz, buf_end, output, [num |-> l, idx |-> p], b,
             copyLiterals(lz, buf_end, output, [num |-> l, idx |-> p], Reader(full, c, d, o, FALSE)))
  <2>1. filled = Reader(full, c, d, o, FALSE)
    BY ONLY <1>9
  <2>2. QED
    BY ONLY <1>6, <1>10, <2>1
<1>12. QED
  BY ONLY <1>2, <1>11, at \in Int, Zenon DEF Opened

\* A reader at byte c of the stream that has told d bytes of the data, or that has
\* found the output too small for them.
ReadAt(lz, data, M, exact, buf_end, output, ctrl, base, c, d, o, bad) ==
  /\ base \in Int /\ Holds(ctrl, base, lz) /\ c \in Nat /\ base <= c /\ c <= Len(lz)
  /\ d \in Nat /\ d <= buf_end /\ Output(output, exact, data, o, d)
  /\ bad \in BOOLEAN
  /\ bad => buf_end < Len(data)
  /\ ~ bad => << c, d >> \in M \/ (c = Len(lz) /\ d = Len(data))

Reading(lz, data, M, exact, buf_end, output, low, s) ==
  \E ctrl, base, c, d, o, bad :
    /\ s = Reader(ctrl, c, d, o, bad)
    /\ ReadAt(lz, data, M, exact, buf_end, output, ctrl, base, c, d, o, bad)
    /\ bad \/ c = Len(lz) \/ low <= c

\* The literals are copied if there is room for them.
LiteralsDone(lz, data, exact, buf_end, output, full, c, d, o, l, p, e, D, s) ==
  /\ D > buf_end => s = Reader(full, c, d, o, TRUE)
  /\ D <= buf_end => \E new : /\ s = Reader(full, e, D, new, FALSE)
                              /\ Output(output, exact, data, new, D)
                              /\ output => Copied(new, d, l, lz, p)

Counted(l, p) == [num |-> l, idx |-> p]

LiteralsDue(lz, data, exact, buf_end, output, full, at, c, d, o, l, p, e, D) ==
  /\ lz \in Seq(Int) /\ at \in Int /\ c \in Nat /\ d \in Nat /\ l \in Nat /\ p \in Nat
  /\ e \in Nat /\ D \in Nat /\ buf_end \in Nat /\ output \in BOOLEAN
  /\ Holds(full, at, lz) /\ at <= p /\ e = p + l /\ e <= Len(lz) /\ D = d + l
  /\ Literals(lz, data, d, l, p) /\ Output(output, exact, data, o, d)

\* Case by case.
LEMMA LiteralsRead ==
  ASSUME NEW lz, NEW full, NEW at, NEW data, NEW c, NEW d, NEW l, NEW p, NEW e, NEW D, NEW exact,
         NEW buf_end, NEW output, NEW o,
         LiteralsDue(lz, data, exact, buf_end, output, full, at, c, d, o, l, p, e, D)
  PROVE  LiteralsDone(lz, data, exact, buf_end, output, full, c, d, o, l, p, e, D,
           copyLiterals(lz, buf_end, output, Counted(l, p), Reader(full, c, d, o, FALSE)))
<1> USE DEF LiteralsDue
<1>0. PICK s : s = copyLiterals(lz, buf_end, output, Counted(l, p), Reader(full, c, d, o, FALSE))
  OBVIOUS
<1>1. PICK r, lit : /\ r = [ctrl |-> full, comp_idx |-> c, decomp_idx |-> d, out |-> o, corrupted |-> FALSE]
                    /\ lit = [num |-> l, idx |-> p]
  OBVIOUS
<1>2. r.ctrl = full /\ r.decomp_idx = d /\ r.out = o /\ lit.num = l /\ lit.idx = p
  BY ONLY <1>1
<1>3. s = copyLiterals(lz, buf_end, output, lit, r)
  BY ONLY <1>0, <1>1 DEF Reader, Counted
<1>4. D > buf_end => s = Reader(full, c, d, o, TRUE)
  <2>0. SUFFICES ASSUME D > buf_end PROVE s = Reader(full, c, d, o, TRUE)
    OBVIOUS
  <2>1. s = [r EXCEPT !.corrupted = TRUE]
    BY ONLY <1>2, <1>3, <2>0, D = d + l DEF copyLiterals
  <2>2. s = Reader(full, c, d, o, TRUE)
    BY ONLY <1>1, <2>1 DEF Reader
  <2>3. QED
    BY ONLY <2>2
<1>5. ASSUME D <= buf_end
      PROVE  \E new : /\ s = Reader(full, e, D, new, FALSE)
                      /\ Output(output, exact, data, new, D)
                      /\ output => Copied(new, d, l, lz, p)
  <2>0. ~ (D > buf_end)
    BY ONLY <1>5, D \in Nat, buf_end \in Nat
  <2>1. PICK new : new = IF ~ output THEN o
                         ELSE o \o CopyOf(full, lz, e, p, l)
    OBVIOUS
  <2>2. s = [r EXCEPT !.comp_idx = lit.idx + lit.num, !.decomp_idx = @ + lit.num,
                      !.out = IF ~ output THEN @
                              ELSE @ \o [k \in 1 .. lit.num |->
                                        streamByte(r.ctrl, lz, lit.idx + lit.num, lit.idx + k - 1)]]
    BY ONLY <1>2, <1>3, <2>0, D = d + l DEF copyLiterals
  <2>3. s = [r EXCEPT !.comp_idx = e, !.decomp_idx = D, !.out = new]
    BY ONLY <1>2, <2>1, <2>2, e = p + l, D = d + l DEF CopyOf
  <2>4. s = Reader(full, e, D, new, FALSE)
    BY ONLY <1>1, <2>3 DEF Reader
  <2>5. Output(output, exact, data, new, D) /\ (output => Copied(new, d, l, lz, p))
    <3>1. CASE output
      <4>1. o \in Seq(Int) /\ Output(TRUE, exact, data, o, d)
        BY ONLY <3>1, Output(output, exact, data, o, d) DEF Output
      <4>2. new = o \o CopyOf(full, lz, e, p, l)
        BY ONLY <2>1, <3>1
      <4>3. /\ Output(TRUE, exact, data, o \o CopyOf(full, lz, e, p, l), D)
            /\ Copied(o \o CopyOf(full, lz, e, p, l), d, l, lz, p)
        BY ONLY <4>1, LiteralsCopied, lz \in Seq(Int), at \in Int, Holds(full, at, lz), d \in Nat,
                l \in Nat, p \in Nat, at <= p, e \in Nat, e = p + l, e <= Len(lz),
                Literals(lz, data, d, l, p), D \in Nat, D = d + l, Zenon
      <4>4. QED
        BY ONLY <3>1, <4>2, <4>3 DEF Output
    <3>2. CASE ~ output
      BY ONLY <2>1, <3>2, Output(output, exact, data, o, d) DEF Output
    <3>3. QED
      BY ONLY <3>1, <3>2
  <2>6. QED
    BY ONLY <2>4, <2>5, Zenon
<1>7. LiteralsDone(lz, data, exact, buf_end, output, full, c, d, o, l, p, e, D, s)
  BY ONLY <1>4, <1>5, Zenon DEF LiteralsDone
<1>8. QED
  BY ONLY <1>0, <1>7, Zenon

\* What a sequence is made of.
LEMMA SequenceParts ==
  ASSUME NEW lz, NEW data, NEW c, NEW d, NEW e, NEW u, NEW exact, NEW l, NEW m, NEW p,
         NEW f, NEW a, NEW b, SequenceOf(lz, data, c, d, e, u, exact, l, m, p, f, a, b)
  PROVE  /\ c \in Nat /\ d \in Nat /\ e \in Nat /\ u \in Nat
         /\ l \in Nat /\ m \in Nat /\ p \in Nat /\ f \in Nat
         /\ Token(lz, c, a, b) /\ LengthAt(lz, c + 1, 0, a, l, p)
         /\ Literals(lz, data, d, l, p) /\ OffsetAt(lz, p + l, f)
         /\ LengthAt(lz, p + l + 2, 4, b, m, e)
         /\ c < p /\ p + l + 2 <= e /\ e <= Len(lz)
         /\ 4 <= m /\ u = d + l + m /\ u <= Len(data) /\ f <= d + l
         /\ (exact => Repeated(data, d + l, m, f))
BY DEF SequenceOf

\* The match of a sequence is copied if there is room for it.
MatchDone(data, exact, buf_end, output, full, E, D, o, e, u, s) ==
  /\ u > buf_end => s = Reader(full, E, D, o, TRUE)
  /\ u <= buf_end => \E new : s = Reader(full, e, u, new, FALSE) /\ Output(output, exact, data, new, u)

MatchDue(lz, data, exact, buf_end, output, full, at, c, d, o, l, p, e, u, E, D, m, f, a, b) ==
  /\ lz \in Seq(Int) /\ at \in Int /\ d \in Nat /\ l \in Nat /\ p \in Nat /\ e \in Nat
  /\ u \in Nat /\ E \in Nat /\ D \in Nat /\ m \in Nat /\ f \in Nat
  /\ buf_end \in Nat /\ output \in BOOLEAN
  /\ Holds(full, at, lz) /\ at <= p /\ E = p + l /\ D = d + l
  /\ SequenceOf(lz, data, c, d, e, u, exact, l, m, p, f, a, b)
  /\ Output(output, exact, data, o, D) /\ (output => Copied(o, d, l, lz, p))

\* Case by case.
LEMMA MatchRead ==
  ASSUME NEW lz, NEW data, NEW exact, NEW buf_end, NEW output, NEW full, NEW at, NEW c, NEW d, NEW o,
         NEW l, NEW p, NEW e, NEW u, NEW E, NEW D, NEW m, NEW f, NEW a, NEW b,
         MatchDue(lz, data, exact, buf_end, output, full, at, c, d, o, l, p, e, u, E, D, m, f, a, b)
  PROVE  MatchDone(data, exact, buf_end, output, full, E, D, o, e, u,
           decompressMatch(lz, buf_end, output, Counted(l, p), b, Reader(full, E, D, o, FALSE)))
<1> USE DEF MatchDue
<1>0. PICK s : s = decompressMatch(lz, buf_end, output, Counted(l, p), b, Reader(full, E, D, o, FALSE))
  OBVIOUS
<1>1. /\ OffsetAt(lz, E, f) /\ LengthAt(lz, E + 2, 4, b, m, e)
      /\ E + 2 <= e /\ e <= Len(lz) /\ 4 <= m /\ u = D + m /\ f <= D
      /\ exact => Repeated(data, D, m, f)
  <2>1. /\ OffsetAt(lz, p + l, f) /\ LengthAt(lz, p + l + 2, 4, b, m, e)
        /\ p + l + 2 <= e /\ e <= Len(lz) /\ 4 <= m /\ u = d + l + m /\ f <= d + l
        /\ exact => Repeated(data, d + l, m, f)
    BY ONLY SequenceOf(lz, data, c, d, e, u, exact, l, m, p, f, a, b) DEF SequenceOf
  <2>2. QED
    BY ONLY <2>1, E = p + l, D = d + l
<1>2. PICK r, lit : /\ r = [ctrl |-> full, comp_idx |-> E, decomp_idx |-> D, out |-> o, corrupted |-> FALSE]
                    /\ lit = [num |-> l, idx |-> p]
  OBVIOUS
<1>3. /\ r.ctrl = full /\ r.comp_idx = E /\ r.decomp_idx = D /\ r.out = o /\ r.corrupted = FALSE
      /\ lit.num = l /\ lit.idx = p
  BY ONLY <1>2
<1>4. PICK w \in Nat : w = m - 4 /\ w + 4 = m
  BY ONLY <1>1, m \in Nat
<1>5. PICK N \in Nat : N = Len(lz) /\ E + 2 <= N /\ at <= E
  BY ONLY <1>1, lz \in Seq(Int), E = p + l, at <= p, E \in Nat, e \in Nat, p \in Nat, l \in Nat, at \in Int
<1>6. readOffset(full, lz, E) = f
  <2>1. PICK E1 \in Nat, E2 \in Nat : E1 = E + 1 /\ E2 = E + 2
    OBVIOUS
  <2>2. at <= E /\ E < E2 /\ at <= E1 /\ E1 < E2 /\ E2 <= Len(lz)
    BY ONLY <1>5, <2>1, at \in Int, E \in Nat
  <2>3. streamByte(full, lz, E2, E) = lz[E + 1] /\ streamByte(full, lz, E2, E1) = lz[E1 + 1]
    BY ONLY <2>2, PartRead, lz \in Seq(Int), at \in Int, Holds(full, at, lz), E \in Nat, E1 \in Nat,
            E2 \in Nat
  <2>4. E1 + 1 = E + 2
    BY ONLY <2>1, E \in Nat
  <2>5. f = lz[E + 1] + OffsetByte * lz[E + 2]
    BY ONLY <1>1 DEF OffsetAt
  <2>6. QED
    BY ONLY <2>1, <2>3, <2>4, <2>5 DEF readOffset
<1>7. length(full, lz, b, E + 2) = [num |-> w, idx |-> e]
  <2>1. E + 2 \in Nat /\ at <= E + 2 /\ 4 \in Nat
    BY ONLY <1>5, E \in Nat, at \in Int
  <2>2. length(full, lz, b, E + 2) = [num |-> m - 4, idx |-> e]
    BY ONLY <1>1, <2>1, LengthRead, lz \in Seq(Int), at \in Int, Holds(full, at, lz), m \in Nat, e \in Nat
  <2>3. QED
    BY ONLY <1>4, <2>2
<1>8. PICK match : match = [num |-> w, idx |-> e] /\ match.num = w /\ match.idx = e
  <2>1. PICK match : match = [num |-> w, idx |-> e]
    OBVIOUS
  <2>2. match.num = w /\ match.idx = e
    BY ONLY <2>1
  <2>3. QED
    BY ONLY <2>1, <2>2, Zenon
<1>9. s = copyMatch(buf_end, output, lit, f, match, r)
  <2>1. s = decompressMatch(lz, buf_end, output, lit, b, r)
    BY ONLY <1>0, <1>2 DEF Reader, Counted
  <2>2. ~ (r.corrupted \/ r.comp_idx >= Len(lz))
    BY ONLY <1>3, <1>5, E \in Nat, N \in Nat
  <2>3. s = copyMatch(buf_end, output, lit, readOffset(r.ctrl, lz, r.comp_idx),
                   length(r.ctrl, lz, b, r.comp_idx + 2), r)
    BY ONLY <2>1, <2>2 DEF decompressMatch
  <2>4. QED
    BY ONLY <1>3, <1>6, <1>7, <1>8, <2>3
<1>10. PICK source : source = MatchSource(full, o, D, f, l, p, m)
  OBVIOUS
<1>11. source = [k \in 0 .. Min({f, match.num + 4}) - 1 |->
                   IF /\ f <= lit.num /\ 0 <= r.ctrl.base /\ r.ctrl.base <= lit.idx
                      /\ end(r.ctrl) >= lit.idx + lit.num
                   THEN rawAt(r.ctrl, lit.idx + lit.num - f + k)
                   ELSE byteAt(r.out, r.decomp_idx - f + k)]
  <2>1. match.num + 4 = m
    BY ONLY <1>4, <1>8
  <2>2. QED
    BY ONLY <1>3, <1>10, <2>1 DEF MatchSource, SourceByte, InBuffer
<1>12. ~ (D < f) /\ D + w + 4 = u
  BY ONLY <1>1, <1>4, D \in Nat, f \in Nat, w \in Nat, m \in Nat
<1>13. s = IF r.decomp_idx < f \/ r.decomp_idx + match.num + 4 > buf_end
           THEN [r EXCEPT !.corrupted = TRUE]
           ELSE [r EXCEPT !.comp_idx = match.idx, !.decomp_idx = @ + match.num + 4,
                          !.out = IF output THEN @ \o coopCopyOverlap(source, f, match.num + 4) ELSE @]
  BY ONLY <1>9, <1>11 DEF copyMatch
<1>14. u > buf_end => s = Reader(full, E, D, o, TRUE)
  <2>0. SUFFICES ASSUME u > buf_end PROVE s = Reader(full, E, D, o, TRUE)
    OBVIOUS
  <2>1. s = [r EXCEPT !.corrupted = TRUE]
    BY ONLY <1>3, <1>8, <1>12, <1>13, <2>0
  <2>2. s = Reader(full, E, D, o, TRUE)
    BY ONLY <1>2, <2>1 DEF Reader
  <2>3. QED
    BY ONLY <2>2
<1>15. ASSUME u <= buf_end
       PROVE  \E new : s = Reader(full, e, u, new, FALSE) /\ Output(output, exact, data, new, u)
  <2>0. ~ (u > buf_end)
    BY ONLY <1>15, u \in Nat, buf_end \in Nat
  <2>1. PICK new : new = IF output THEN o \o coopCopyOverlap(source, f, m) ELSE o
    OBVIOUS
  <2>2. s = [r EXCEPT !.comp_idx = match.idx, !.decomp_idx = @ + match.num + 4,
                          !.out = IF output THEN @ \o coopCopyOverlap(source, f, match.num + 4) ELSE @]
    BY ONLY <1>3, <1>8, <1>12, <1>13, <2>0
  <2>3. match.num + 4 = m /\ r.decomp_idx + match.num + 4 = u
    BY ONLY <1>3, <1>4, <1>8, <1>12
  <2>4. s = [r EXCEPT !.comp_idx = e, !.decomp_idx = u, !.out = new]
    BY ONLY <1>3, <1>8, <2>1, <2>2, <2>3
  <2>5. s = Reader(full, e, u, new, FALSE)
    BY ONLY <1>2, <2>4 DEF Reader
  <2>6. Output(output, exact, data, new, u)
    <3>1. CASE output
      <4>1. o \in Seq(Int) /\ Output(TRUE, exact, data, o, D) /\ Copied(o, d, l, lz, p)
        BY ONLY <3>1, Output(output, exact, data, o, D), output => Copied(o, d, l, lz, p) DEF Output
      <4>2. new = o \o coopCopyOverlap(source, f, m)
        BY ONLY <2>1, <3>1
      <4>3. p + l <= Len(lz)
        BY ONLY <1>5, E = p + l, E \in Nat, N \in Nat
      <4>4. u = D + m /\ f <= D /\ (exact => Repeated(data, D, m, f))
        BY ONLY <1>1
      <4>5. Output(TRUE, exact, data, new, u)
        <5>1. Output(TRUE, exact, data, o \o coopCopyOverlap(MatchSource(full, o, D, f, l, p, m), f, m), u)
          BY ONLY <4>1, <4>3, <4>4, MatchCopied, lz \in Seq(Int), at \in Int,
                  Holds(full, at, lz), d \in Nat, l \in Nat, p \in Nat, D \in Nat, D = d + l,
                  f \in Nat, m \in Nat, u \in Nat, ZenonT(40)
        <5>2. QED
          BY ONLY <1>10, <4>2, <5>1
      <4>6. QED
        BY ONLY <3>1, <4>5 DEF Output
    <3>2. CASE ~ output
      BY ONLY <2>1, <3>2, Output(output, exact, data, o, D) DEF Output
    <3>3. QED
      BY ONLY <3>1, <3>2
  <2>7. QED
    BY ONLY <2>5, <2>6, Zenon
<1>17. MatchDone(data, exact, buf_end, output, full, E, D, o, e, u, s)
  BY ONLY <1>14, <1>15, Zenon DEF MatchDone
<1>18. QED
  BY ONLY <1>0, <1>17

\* What a reader at a station finds: the last sequence, or one that leads to a station.
LEMMA Stations ==
  ASSUME NEW lz, NEW data, NEW M, NEW c, NEW d, NEW exact, NEW cE, NEW dE,
         Path(lz, data, M, cE, dE, exact), Ending(lz, data, cE, dE), << c, d >> \in M
  PROVE  \/ \E l, p, a, b : LastOf(lz, data, c, d, l, p, a, b)
         \/ \E e, u : /\ << e, u >> \in M
                      /\ \E l, m, p, f, a, b : SequenceOf(lz, data, c, d, e, u, exact, l, m, p, f, a, b)
<1>1. (c = cE /\ d = dE) \/ \E e, u : << e, u >> \in M /\ Sequence(lz, data, c, d, e, u, exact)
  BY ONLY Path(lz, data, M, cE, dE, exact), << c, d >> \in M DEF Path
<1>2. QED
  BY ONLY <1>1, Ending(lz, data, cE, dE), Zenon DEF Ending, Sequence

\* The reader stops where it found no room.
LEMMA ReadBad ==
  ASSUME NEW lz, NEW data, NEW M, NEW exact, NEW buf_end \in Nat, NEW output,
         NEW full, NEW at \in Int, Holds(full, at, lz), NEW c \in Nat, at <= c, c <= Len(lz),
         NEW d \in Nat, d <= buf_end, NEW o, Output(output, exact, data, o, d),
         buf_end < Len(data), NEW low
  PROVE  Reading(lz, data, M, exact, buf_end, output, low, Reader(full, c, d, o, TRUE))
<1>1. PICK bad : bad = TRUE
  OBVIOUS
<1>2. ReadAt(lz, data, M, exact, buf_end, output, full, at, c, d, o, bad)
  BY <1>1 DEF ReadAt
<1>3. Reading(lz, data, M, exact, buf_end, output, low, Reader(full, c, d, o, bad))
  BY ONLY <1>1, <1>2, Zenon DEF Reading
<1>4. QED
  BY ONLY <1>1, <1>3

\* It goes on from a station further on, or from the end.
LEMMA ReadOn ==
  ASSUME NEW lz, NEW data, NEW M, NEW exact, NEW buf_end \in Nat, NEW output,
         NEW full, NEW at \in Int, Holds(full, at, lz), NEW c \in Nat, at <= c, c <= Len(lz),
         NEW d \in Nat, d <= buf_end, NEW o, Output(output, exact, data, o, d),
         << c, d >> \in M \/ (c = Len(lz) /\ d = Len(data)), NEW low, low <= c
  PROVE  Reading(lz, data, M, exact, buf_end, output, low, Reader(full, c, d, o, FALSE))
<1>1. PICK bad : bad = FALSE
  OBVIOUS
<1>2. ReadAt(lz, data, M, exact, buf_end, output, full, at, c, d, o, bad)
  BY <1>1 DEF ReadAt
<1>3. Reading(lz, data, M, exact, buf_end, output, low, Reader(full, c, d, o, bad))
  BY ONLY <1>1, <1>2, low <= c, Zenon DEF Reading
<1>4. QED
  BY ONLY <1>1, <1>3

\* The reader in front of a turn.
TurnDue(lz, data, exact, align, buf_end, output, ctrl, base, c, d, o) ==
  /\ lz \in Seq(Int) /\ Len(data) \in Nat /\ align \in Nat /\ buf_end \in Nat /\ output \in BOOLEAN
  /\ base \in Int /\ Holds(ctrl, base, lz) /\ c \in Nat /\ base <= c /\ c < Len(lz)
  /\ d \in Nat /\ d <= buf_end /\ Output(output, exact, data, o, d)

\* The turn of the last sequence.
LEMMA LastTurn ==
  ASSUME NEW lz, NEW data, NEW M, NEW exact, NEW align, NEW buf_end, NEW output,
         NEW ctrl, NEW base, NEW c, NEW d, NEW o, NEW l, NEW p, NEW a, NEW b,
         TurnDue(lz, data, exact, align, buf_end, output, ctrl, base, c, d, o),
         LastOf(lz, data, c, d, l, p, a, b)
  PROVE  Reading(lz, data, M, exact, buf_end, output, c + 1,
                 decompressTurn(lz, align, buf_end, output, Reader(ctrl, c, d, o, FALSE)))
<1> USE DEF TurnDue
<1>0. l \in Nat /\ p \in Nat
  BY ONLY LastOf(lz, data, c, d, l, p, a, b) DEF LastOf
<1> USE <1>0
<1>1. /\ Token(lz, c, a, b) /\ LengthAt(lz, c + 1, 0, a, l, p) /\ Literals(lz, data, d, l, p)
      /\ c < p /\ Len(lz) = p + l /\ Len(data) = d + l
  BY ONLY LastOf(lz, data, c, d, l, p, a, b) DEF LastOf
<1>2. PICK e \in Nat, D \in Nat : e = p + l /\ D = d + l
  OBVIOUS
<1>3. e = Len(lz) /\ D = Len(data) /\ e <= Len(lz) /\ p <= Len(lz) /\ c + 1 <= e /\ c <= e
  BY ONLY <1>1, <1>2, p \in Nat, l \in Nat, e \in Nat, c \in Nat
<1>4. PICK s : s = decompressTurn(lz, align, buf_end, output, Reader(ctrl, c, d, o, FALSE))
  OBVIOUS
<1>5. PICK lit : lit = [num |-> l, idx |-> p]
  OBVIOUS
<1>6. Opened(lz, buf_end, output, c, d, o, b, l, p,
             decompressTurn(lz, align, buf_end, output, Reader(ctrl, c, d, o, FALSE)))
  BY ONLY <1>1, <1>3, TurnOpens, lz \in Seq(Int), base \in Int, Holds(ctrl, base, lz),
          align \in Nat, c \in Nat, base <= c, c < Len(lz), l \in Nat, p \in Nat, Zenon
<1>7. Opened(lz, buf_end, output, c, d, o, b, l, p, s)
  BY ONLY <1>4, <1>6
<1>8. PICK full : \E at \in Int :
        /\ Holds(full, at, lz) /\ at <= c
        /\ s = decompressMatch(lz, buf_end, output, lit, b,
                 copyLiterals(lz, buf_end, output, lit, Reader(full, c, d, o, FALSE)))
  BY ONLY <1>5, <1>7 DEF Opened
<1>9. PICK at \in Int :
        /\ Holds(full, at, lz) /\ at <= c
        /\ s = decompressMatch(lz, buf_end, output, lit, b,
                 copyLiterals(lz, buf_end, output, lit, Reader(full, c, d, o, FALSE)))
  BY ONLY <1>8, Zenon
<1>10. PICK t : t = copyLiterals(lz, buf_end, output, lit, Reader(full, c, d, o, FALSE))
  OBVIOUS
<1>11. LiteralsDone(lz, data, exact, buf_end, output, full, c, d, o, l, p, e, D, t)
  <2>1. at <= p
    BY ONLY <1>1, <1>9, at \in Int, c \in Nat, p \in Nat
  <2>2. LiteralsDone(lz, data, exact, buf_end, output, full, c, d, o, l, p, e, D,
          copyLiterals(lz, buf_end, output, Counted(l, p), Reader(full, c, d, o, FALSE)))
    <3>1. Literals(lz, data, d, l, p) /\ Holds(full, at, lz) /\ e <= Len(lz)
      BY ONLY <1>1, <1>3, <1>9
    <3>2. LiteralsDue(lz, data, exact, buf_end, output, full, at, c, d, o, l, p, e, D)
      BY ONLY <1>2, <2>1, <3>1, lz \in Seq(Int), at \in Int, c \in Nat, d \in Nat, l \in Nat,
              p \in Nat, e \in Nat, D \in Nat, buf_end \in Nat, output \in BOOLEAN,
              Output(output, exact, data, o, d) DEF LiteralsDue
    <3>3. QED
      BY ONLY <3>2, LiteralsRead, Zenon
  <2>3. QED
    BY ONLY <1>5, <1>10, <2>2 DEF Counted
<1>12. CASE D > buf_end
  <2>0. t = Reader(full, c, d, o, TRUE)
    BY ONLY <1>11, <1>12 DEF LiteralsDone
  <2>1. s = Reader(full, c, d, o, TRUE)
    <3>1. t.corrupted = TRUE
      BY ONLY <2>0 DEF Reader
    <3>2. decompressMatch(lz, buf_end, output, lit, b, t) = t
      BY ONLY <3>1 DEF decompressMatch
    <3>3. QED
      BY ONLY <1>9, <1>10, <2>0, <3>2
  <2>2. buf_end < Len(data) /\ c <= Len(lz)
    BY ONLY <1>3, <1>12, c < Len(lz), c \in Nat, buf_end \in Nat, D \in Nat, e \in Nat
  <2>3. Reading(lz, data, M, exact, buf_end, output, c + 1, Reader(full, c, d, o, TRUE))
    BY ONLY <1>9, <2>2, ReadBad, buf_end \in Nat, at \in Int, c \in Nat, d \in Nat, d <= buf_end,
            Output(output, exact, data, o, d)
  <2>4. QED
    BY ONLY <1>4, <2>1, <2>3
<1>13. CASE ~ (D > buf_end)
  <2>0. D <= buf_end /\ at <= e
    BY ONLY <1>3, <1>9, <1>13, D \in Nat, buf_end \in Nat, at \in Int, c \in Nat, e \in Nat
  <2>1. PICK new : t = Reader(full, e, D, new, FALSE) /\ Output(output, exact, data, new, D)
    BY ONLY <1>11, <2>0, Zenon DEF LiteralsDone
  <2>2. e >= Len(lz)
    BY ONLY <1>3, e \in Nat
  <2>3. s = Reader(full, e, D, new, FALSE)
    <3>1. t.comp_idx = e
      BY ONLY <2>1 DEF Reader
    <3>2. decompressMatch(lz, buf_end, output, lit, b, t) = t
      BY ONLY <2>2, <3>1 DEF decompressMatch
    <3>3. QED
      BY ONLY <1>9, <1>10, <2>1, <3>2
  <2>4. << e, D >> \in M \/ (e = Len(lz) /\ D = Len(data))
    BY ONLY <1>3
  <2>5. Reading(lz, data, M, exact, buf_end, output, c + 1, Reader(full, e, D, new, FALSE))
    BY ONLY <1>3, <1>9, <2>0, <2>1, <2>4, ReadOn, buf_end \in Nat, at \in Int, D \in Nat, e \in Nat, Zenon
  <2>6. QED
    BY ONLY <1>4, <2>3, <2>5
<1>14. QED
  BY ONLY <1>12, <1>13

\* The turn of a sequence that leads to a station.
LEMMA SequenceTurn ==
  ASSUME NEW lz, NEW data, NEW M, NEW exact, NEW align, NEW buf_end, NEW output,
         NEW ctrl, NEW base, NEW c, NEW d, NEW o, NEW l, NEW p, NEW a, NEW b, NEW m, NEW f, NEW e, NEW u,
         TurnDue(lz, data, exact, align, buf_end, output, ctrl, base, c, d, o), << e, u >> \in M,
         SequenceOf(lz, data, c, d, e, u, exact, l, m, p, f, a, b)
  PROVE  Reading(lz, data, M, exact, buf_end, output, c + 1,
                 decompressTurn(lz, align, buf_end, output, Reader(ctrl, c, d, o, FALSE)))
<1> USE DEF TurnDue
<1>0. l \in Nat /\ p \in Nat /\ m \in Nat /\ f \in Nat /\ e \in Nat /\ u \in Nat
  BY ONLY SequenceOf(lz, data, c, d, e, u, exact, l, m, p, f, a, b) DEF SequenceOf
<1> USE <1>0
<1>1. /\ Token(lz, c, a, b) /\ LengthAt(lz, c + 1, 0, a, l, p) /\ Literals(lz, data, d, l, p)
      /\ c < p /\ p + l + 2 <= e /\ e <= Len(lz) /\ u = d + l + m /\ u <= Len(data)
  BY ONLY SequenceOf(lz, data, c, d, e, u, exact, l, m, p, f, a, b) DEF SequenceOf
<1>2. PICK E \in Nat, D \in Nat : E = p + l /\ D = d + l
  OBVIOUS
<1>a. PICK N \in Nat : N = Len(lz)
  OBVIOUS
<1>3. E < Len(lz) /\ E <= Len(lz) /\ D <= Len(data) /\ p <= Len(lz) /\ c <= E /\ c + 1 <= e
  BY ONLY <1>1, <1>2, <1>a, p \in Nat, l \in Nat, e \in Nat, c \in Nat, E \in Nat, D \in Nat, d \in Nat,
          m \in Nat, u \in Nat, Len(data) \in Nat, N \in Nat
<1>4. PICK s : s = decompressTurn(lz, align, buf_end, output, Reader(ctrl, c, d, o, FALSE))
  OBVIOUS
<1>5. PICK lit : lit = [num |-> l, idx |-> p]
  OBVIOUS
<1>6. Opened(lz, buf_end, output, c, d, o, b, l, p,
             decompressTurn(lz, align, buf_end, output, Reader(ctrl, c, d, o, FALSE)))
  BY ONLY <1>1, <1>3, TurnOpens, lz \in Seq(Int), base \in Int, Holds(ctrl, base, lz),
          align \in Nat, c \in Nat, base <= c, c < Len(lz), l \in Nat, p \in Nat, Zenon
<1>7. Opened(lz, buf_end, output, c, d, o, b, l, p, s)
  BY ONLY <1>4, <1>6
<1>8. PICK full : \E at \in Int :
        /\ Holds(full, at, lz) /\ at <= c
        /\ s = decompressMatch(lz, buf_end, output, lit, b,
                 copyLiterals(lz, buf_end, output, lit, Reader(full, c, d, o, FALSE)))
  BY ONLY <1>5, <1>7 DEF Opened
<1>9. PICK at \in Int :
        /\ Holds(full, at, lz) /\ at <= c
        /\ s = decompressMatch(lz, buf_end, output, lit, b,
                 copyLiterals(lz, buf_end, output, lit, Reader(full, c, d, o, FALSE)))
  BY ONLY <1>8, Zenon
<1>b. at <= p /\ at <= E /\ at <= e
  BY ONLY <1>1, <1>2, <1>3, <1>9, at \in Int, c \in Nat, p \in Nat, E \in Nat, e \in Nat, l \in Nat
<1>10. PICK t : t = copyLiterals(lz, buf_end, output, lit, Reader(full, c, d, o, FALSE))
  OBVIOUS
<1>11. LiteralsDone(lz, data, exact, buf_end, output, full, c, d, o, l, p, E, D, t)
  <2>1. LiteralsDone(lz, data, exact, buf_end, output, full, c, d, o, l, p, E, D,
          copyLiterals(lz, buf_end, output, Counted(l, p), Reader(full, c, d, o, FALSE)))
    <3>1. Literals(lz, data, d, l, p) /\ Holds(full, at, lz) /\ E <= Len(lz)
      BY ONLY <1>1, <1>3, <1>9
    <3>2. LiteralsDue(lz, data, exact, buf_end, output, full, at, c, d, o, l, p, E, D)
      BY ONLY <1>2, <1>b, <3>1, lz \in Seq(Int), at \in Int, c \in Nat, d \in Nat, l \in Nat,
              p \in Nat, E \in Nat, D \in Nat, buf_end \in Nat, output \in BOOLEAN,
              Output(output, exact, data, o, d) DEF LiteralsDue
    <3>3. QED
      BY ONLY <3>2, LiteralsRead, Zenon
  <2>2. QED
    BY ONLY <1>5, <1>10, <2>1 DEF Counted
<1>12. CASE D > buf_end
  <2>0. t = Reader(full, c, d, o, TRUE)
    BY ONLY <1>11, <1>12 DEF LiteralsDone
  <2>1. s = Reader(full, c, d, o, TRUE)
    <3>1. t.corrupted = TRUE
      BY ONLY <2>0 DEF Reader
    <3>2. decompressMatch(lz, buf_end, output, lit, b, t) = t
      BY ONLY <3>1 DEF decompressMatch
    <3>3. QED
      BY ONLY <1>9, <1>10, <2>0, <3>2
  <2>2. buf_end < Len(data) /\ c <= Len(lz)
    BY ONLY <1>3, <1>12, <1>a, c < Len(lz), c \in Nat, N \in Nat, buf_end \in Nat, D \in Nat,
            Len(data) \in Nat
  <2>3. Reading(lz, data, M, exact, buf_end, output, c + 1, Reader(full, c, d, o, TRUE))
    BY ONLY <1>9, <2>2, ReadBad, buf_end \in Nat, at \in Int, c \in Nat, d \in Nat, d <= buf_end,
            Output(output, exact, data, o, d)
  <2>4. QED
    BY ONLY <1>4, <2>1, <2>3
<1>13. CASE ~ (D > buf_end)
  <2>0. D <= buf_end
    BY ONLY <1>13, D \in Nat, buf_end \in Nat
  <2>1. PICK new : /\ t = Reader(full, E, D, new, FALSE) /\ Output(output, exact, data, new, D)
                   /\ output => Copied(new, d, l, lz, p)
    BY ONLY <1>11, <2>0, Zenon DEF LiteralsDone
  <2>2. MatchDue(lz, data, exact, buf_end, output, full, at, c, d, new, l, p, e, u, E, D, m, f, a, b)
    BY ONLY <1>2, <1>9, <1>b, <2>1, lz \in Seq(Int), at \in Int, d \in Nat, l \in Nat, p \in Nat,
            e \in Nat, u \in Nat, E \in Nat, D \in Nat, m \in Nat, f \in Nat, buf_end \in Nat,
            output \in BOOLEAN, SequenceOf(lz, data, c, d, e, u, exact, l, m, p, f, a, b) DEF MatchDue
  <2>3. MatchDone(data, exact, buf_end, output, full, E, D, new, e, u,
          decompressMatch(lz, buf_end, output, Counted(l, p), b, Reader(full, E, D, new, FALSE)))
    BY ONLY <2>2, MatchRead, Zenon
  <2>4. MatchDone(data, exact, buf_end, output, full, E, D, new, e, u, s)
    BY ONLY <1>5, <1>9, <1>10, <2>1, <2>3 DEF Counted
  <2>5. CASE u > buf_end
    <3>1. s = Reader(full, E, D, new, TRUE)
      BY ONLY <2>4, <2>5 DEF MatchDone
    <3>2. buf_end < Len(data)
      BY ONLY <1>1, <2>5, u \in Nat, buf_end \in Nat, Len(data) \in Nat
    <3>3. Reading(lz, data, M, exact, buf_end, output, c + 1, Reader(full, E, D, new, TRUE))
      BY ONLY <1>3, <1>9, <1>b, <2>0, <2>1, <3>2, ReadBad, buf_end \in Nat, at \in Int, E \in Nat, D \in Nat
    <3>4. QED
      BY ONLY <1>4, <3>1, <3>3
  <2>6. CASE ~ (u > buf_end)
    <3>0. u <= buf_end
      BY ONLY <2>6, u \in Nat, buf_end \in Nat
    <3>1. PICK o2 : s = Reader(full, e, u, o2, FALSE) /\ Output(output, exact, data, o2, u)
      BY ONLY <2>4, <3>0, Zenon DEF MatchDone
    <3>2. << e, u >> \in M \/ (e = Len(lz) /\ u = Len(data))
      BY ONLY << e, u >> \in M
    <3>3. Reading(lz, data, M, exact, buf_end, output, c + 1, Reader(full, e, u, o2, FALSE))
      BY ONLY <1>1, <1>3, <1>9, <1>b, <3>0, <3>1, <3>2, ReadOn, buf_end \in Nat, at \in Int, e \in Nat,
              u \in Nat
    <3>4. QED
      BY ONLY <1>4, <3>1, <3>3
  <2>7. QED
    BY ONLY <2>5, <2>6
<1>14. QED
  BY ONLY <1>12, <1>13

\* Any turn of the decompression.
LEMMA ReadTurn ==
  ASSUME NEW lz \in Seq(Int), NEW data, Len(data) \in Nat, NEW M, NEW exact, NEW align \in Nat,
         NEW buf_end \in Nat, NEW output \in BOOLEAN, NEW cE, NEW dE,
         Path(lz, data, M, cE, dE, exact), Ending(lz, data, cE, dE),
         NEW ctrl, NEW base, NEW c, NEW d, NEW o,
         ReadAt(lz, data, M, exact, buf_end, output, ctrl, base, c, d, o, FALSE), c < Len(lz)
  PROVE  Reading(lz, data, M, exact, buf_end, output, c + 1,
                 decompressTurn(lz, align, buf_end, output, Reader(ctrl, c, d, o, FALSE)))
<1>1. /\ base \in Int /\ Holds(ctrl, base, lz) /\ c \in Nat /\ base <= c
      /\ d \in Nat /\ d <= buf_end /\ Output(output, exact, data, o, d)
      /\ << c, d >> \in M \/ c = Len(lz)
  BY ONLY ReadAt(lz, data, M, exact, buf_end, output, ctrl, base, c, d, o, FALSE) DEF ReadAt
<1>2. << c, d >> \in M
  BY ONLY <1>1, c < Len(lz), lz \in Seq(Int)
<1>3. \/ \E l, p, a, b : LastOf(lz, data, c, d, l, p, a, b)
      \/ \E e, u : /\ << e, u >> \in M
                   /\ \E l, m, p, f, a, b : SequenceOf(lz, data, c, d, e, u, exact, l, m, p, f, a, b)
  BY ONLY <1>2, Stations, Path(lz, data, M, cE, dE, exact), Ending(lz, data, cE, dE), Zenon
<1>a. TurnDue(lz, data, exact, align, buf_end, output, ctrl, base, c, d, o)
  BY ONLY <1>1, lz \in Seq(Int), Len(data) \in Nat, align \in Nat, buf_end \in Nat, output \in BOOLEAN,
          c < Len(lz) DEF TurnDue
<1>4. ASSUME NEW l, NEW p, NEW a, NEW b, LastOf(lz, data, c, d, l, p, a, b)
      PROVE  Reading(lz, data, M, exact, buf_end, output, c + 1,
                     decompressTurn(lz, align, buf_end, output, Reader(ctrl, c, d, o, FALSE)))
  BY ONLY <1>4, <1>a, LastTurn, Zenon
<1>5. ASSUME NEW e, NEW u, << e, u >> \in M, NEW l, NEW m, NEW p, NEW f, NEW a, NEW b,
             SequenceOf(lz, data, c, d, e, u, exact, l, m, p, f, a, b)
      PROVE  Reading(lz, data, M, exact, buf_end, output, c + 1,
                     decompressTurn(lz, align, buf_end, output, Reader(ctrl, c, d, o, FALSE)))
  BY ONLY <1>5, <1>a, SequenceTurn, Zenon
<1>6. QED
  BY ONLY <1>3, <1>4, <1>5, Zenon

\* The states of the kernel, turn after turn.
IsRun(h, lz, align, buf_end, output, n) ==
  h = [k \in 0 .. n |->
         IF k = 0
         THEN [ctrl |-> loadAt(NoBuffer, lz, align, 0), comp_idx |-> 0,
               decomp_idx |-> 0, out |-> << >>, corrupted |-> FALSE]
         ELSE decompressFurther(lz, align, buf_end, output, h[k - 1])]

\* There are such states.
LEMMA RunExists ==
  ASSUME NEW lz, NEW align, NEW buf_end, NEW output, NEW n \in Nat
  PROVE  \E h : IsRun(h, lz, align, buf_end, output, n)
<1>. DEFINE S == {i \in Nat : \E h : IsRun(h, lz, align, buf_end, output, i)}
<1>0. PICK first : first = [ctrl |-> loadAt(NoBuffer, lz, align, 0), comp_idx |-> 0,
                            decomp_idx |-> 0, out |-> << >>, corrupted |-> FALSE]
  OBVIOUS
<1>1. 0 \in S
  <2>1. IsRun([k \in 0 .. 0 |-> first], lz, align, buf_end, output, 0)
    <3>1. [k \in 0 .. 0 |-> first] = [k \in 0 .. 0 |-> IF k = 0 THEN first ELSE
             decompressFurther(lz, align, buf_end, output, [j \in 0 .. 0 |-> first][k - 1])]
      OBVIOUS
    <3>2. QED
      BY ONLY <1>0, <3>1 DEF IsRun
  <2>2. QED
    BY <2>1
<1>2. ASSUME NEW i \in Nat, i >= 0 /\ i \in S PROVE i + 1 \in S
  <2>1. PICK h : IsRun(h, lz, align, buf_end, output, i)
    BY <1>2
  <2>2. h = [k \in 0 .. i |-> IF k = 0 THEN first ELSE decompressFurther(lz, align, buf_end, output, h[k - 1])]
    BY ONLY <1>0, <2>1 DEF IsRun
  <2>3. PICK g : g = [k \in 0 .. i + 1 |-> IF k <= i THEN h[k]
                                            ELSE decompressFurther(lz, align, buf_end, output, h[i])]
    OBVIOUS
  <2>4. ASSUME NEW k \in 0 .. i + 1
        PROVE  g[k] = IF k = 0 THEN first ELSE decompressFurther(lz, align, buf_end, output, g[k - 1])
    <3>1. CASE k <= i
      <4>1. k \in 0 .. i /\ (k # 0 => k - 1 \in 0 .. i)
        BY ONLY <3>1, i \in Nat, k \in 0 .. i + 1
      <4>2. g[k] = h[k] /\ (k # 0 => g[k - 1] = h[k - 1])
        BY ONLY <2>3, <4>1, i \in Nat
      <4>3. h[k] = IF k = 0 THEN first ELSE decompressFurther(lz, align, buf_end, output, h[k - 1])
        BY ONLY <2>2, <4>1
      <4>4. QED
        BY ONLY <4>2, <4>3
    <3>2. CASE ~ (k <= i)
      <4>1. k = i + 1 /\ k # 0 /\ k - 1 = i /\ i \in 0 .. i + 1 /\ i <= i
        BY ONLY <3>2, i \in Nat, k \in 0 .. i + 1
      <4>2. g[k] = decompressFurther(lz, align, buf_end, output, h[i]) /\ g[i] = h[i]
        BY ONLY <2>3, <3>2, <4>1, k \in 0 .. i + 1
      <4>3. QED
        BY ONLY <4>1, <4>2
    <3>3. QED
      BY ONLY <3>1, <3>2
  <2>5. g = [k \in 0 .. i + 1 |-> IF k = 0 THEN first ELSE decompressFurther(lz, align, buf_end, output, g[k - 1])]
    BY ONLY <2>3, <2>4
  <2>6. IsRun(g, lz, align, buf_end, output, i + 1)
    BY ONLY <1>0, <2>5 DEF IsRun
  <2>7. QED
    BY <2>6
<1>3. \A i \in Nat : i >= 0 => i \in S
  BY ONLY <1>1, <1>2, SFP!Induction, 0 \in Nat
<1>4. QED
  BY <1>3

\* The kernel ends in the last of them.
LEMMA StreamRun ==
  ASSUME NEW lz \in Seq(Int), NEW align, NEW buf_end, NEW output
  PROVE  \E h : /\ IsRun(h, lz, align, buf_end, output, Len(lz))
                /\ decompressStream(lz, align, buf_end, output) = decompressed(h[Len(lz)])
<1>1. PICK n \in Nat : n = Len(lz)
  OBVIOUS
<1>2. PICK h : h = CHOOSE g : IsRun(g, lz, align, buf_end, output, Len(lz))
  OBVIOUS
<1>3. \E g : IsRun(g, lz, align, buf_end, output, Len(lz))
  <2>1. \E g : IsRun(g, lz, align, buf_end, output, n)
    BY ONLY RunExists, n \in Nat
  <2>2. QED
    BY ONLY <1>1, <2>1
<1>4. IsRun(h, lz, align, buf_end, output, Len(lz))
  BY ONLY <1>2, <1>3, Zenon
<1>5. decompressStream(lz, align, buf_end, output) = decompressed(h[Len(lz)])
  BY ONLY <1>2 DEF decompressStream, IsRun
<1>6. QED
  BY ONLY <1>4, <1>5

\* What the kernel answers for the stream of the data.
Answers(data, exact, buf_end, output, r) ==
  IF buf_end < Len(data)
  THEN r.status = "hipcompErrorCannotDecompress" /\ r.size = 0 /\ Len(r.out) <= buf_end
  ELSE /\ r.status = "hipcompSuccess" /\ r.size = Len(data)
       /\ output /\ exact => r.out = data

\* No turn is left when the end is reached.
LEMMA Further ==
  ASSUME NEW lz \in Seq(Int), NEW data, Len(data) \in Nat, NEW M, NEW exact, NEW align \in Nat,
         NEW buf_end \in Nat, NEW output \in BOOLEAN, NEW cE, NEW dE,
         Path(lz, data, M, cE, dE, exact), Ending(lz, data, cE, dE),
         NEW n \in Nat, NEW s, Reading(lz, data, M, exact, buf_end, output, n, s)
  PROVE  Reading(lz, data, M, exact, buf_end, output, n + 1,
                 decompressFurther(lz, align, buf_end, output, s))
<1>1. PICK ctrl, base, c, d, o, bad :
        /\ s = Reader(ctrl, c, d, o, bad)
        /\ ReadAt(lz, data, M, exact, buf_end, output, ctrl, base, c, d, o, bad)
        /\ bad \/ c = Len(lz) \/ n <= c
  BY ONLY Reading(lz, data, M, exact, buf_end, output, n, s) DEF Reading
<1>2. s.comp_idx = c /\ s.corrupted = bad
  BY ONLY <1>1 DEF Reader
<1>3. c \in Nat /\ c <= Len(lz) /\ bad \in BOOLEAN
  BY ONLY <1>1 DEF ReadAt
<1>4. CASE c >= Len(lz) \/ bad
  <2>1. decompressFurther(lz, align, buf_end, output, s) = s
    BY ONLY <1>2, <1>4 DEF decompressFurther
  <2>2. bad \/ c = Len(lz) \/ n + 1 <= c
    BY ONLY <1>3, <1>4, lz \in Seq(Int)
  <2>3. Reading(lz, data, M, exact, buf_end, output, n + 1, s)
    BY ONLY <1>1, <2>2, Zenon DEF Reading
  <2>4. QED
    BY ONLY <2>1, <2>3
<1>5. CASE ~ (c >= Len(lz) \/ bad)
  <2>1. bad = FALSE /\ c < Len(lz) /\ n + 1 <= c + 1 /\ c + 1 \in Nat
    BY ONLY <1>1, <1>3, <1>5, lz \in Seq(Int), n \in Nat
  <2>2. decompressFurther(lz, align, buf_end, output, s) = decompressTurn(lz, align, buf_end, output, s)
    BY ONLY <1>2, <1>5 DEF decompressFurther
  <2>3. s = Reader(ctrl, c, d, o, FALSE)
    BY ONLY <1>1, <2>1
  <2>4. ReadAt(lz, data, M, exact, buf_end, output, ctrl, base, c, d, o, FALSE)
    BY ONLY <1>1, <2>1
  <2>5. Reading(lz, data, M, exact, buf_end, output, c + 1,
                decompressTurn(lz, align, buf_end, output, Reader(ctrl, c, d, o, FALSE)))
    BY ONLY <2>1, <2>4, ReadTurn, lz \in Seq(Int), Len(data) \in Nat, align \in Nat, buf_end \in Nat,
            output \in BOOLEAN, Path(lz, data, M, cE, dE, exact), Ending(lz, data, cE, dE), Zenon
  <2>6. PICK t : t = decompressFurther(lz, align, buf_end, output, s)
    OBVIOUS
  <2>7. Reading(lz, data, M, exact, buf_end, output, c + 1, t)
    BY ONLY <2>2, <2>3, <2>5, <2>6
  <2>8. PICK ctrl1, base1, c1, d1, o1, bad1 :
        /\ t = Reader(ctrl1, c1, d1, o1, bad1)
        /\ ReadAt(lz, data, M, exact, buf_end, output, ctrl1, base1, c1, d1, o1, bad1)
        /\ bad1 \/ c1 = Len(lz) \/ c + 1 <= c1
    BY ONLY <2>7 DEF Reading
  <2>9. c1 \in Nat
    BY ONLY <2>8 DEF ReadAt
  <2>10. bad1 \/ c1 = Len(lz) \/ n + 1 <= c1
    BY ONLY <1>3, <2>1, <2>8, <2>9, n \in Nat
  <2>11. Reading(lz, data, M, exact, buf_end, output, n + 1, t)
    BY ONLY <2>8, <2>10, Zenon DEF Reading
  <2>12. QED
    BY ONLY <2>6, <2>11
<1>6. QED
  BY ONLY <1>4, <1>5

\* A station is never at the end of the stream.
LEMMA StationIsBefore ==
  ASSUME NEW lz, NEW data, NEW M, NEW c, NEW d, NEW exact, NEW cE, NEW dE, Len(lz) \in Nat,
         Path(lz, data, M, cE, dE, exact), Ending(lz, data, cE, dE), << c, d >> \in M
  PROVE  c \in Nat /\ c < Len(lz)
<1>1. \/ \E l, p, a, b : LastOf(lz, data, c, d, l, p, a, b)
      \/ \E e, u : /\ << e, u >> \in M
                   /\ \E l, m, p, f, a, b : SequenceOf(lz, data, c, d, e, u, exact, l, m, p, f, a, b)
  BY ONLY Stations, Path(lz, data, M, cE, dE, exact), Ending(lz, data, cE, dE), << c, d >> \in M, Zenon
<1>2. PICK N \in Nat : N = Len(lz)
  BY ONLY Len(lz) \in Nat
<1>3. ASSUME NEW l, NEW p, NEW a, NEW b, LastOf(lz, data, c, d, l, p, a, b)
      PROVE  c \in Nat /\ c < Len(lz)
  BY ONLY <1>2, <1>3, N \in Nat DEF LastOf
<1>4. ASSUME NEW e, NEW u, NEW l, NEW m, NEW p, NEW f, NEW a, NEW b,
             SequenceOf(lz, data, c, d, e, u, exact, l, m, p, f, a, b)
      PROVE  c \in Nat /\ c < Len(lz)
  BY ONLY <1>2, <1>4, N \in Nat DEF SequenceOf
<1>5. QED
  BY ONLY <1>1, <1>3, <1>4, Zenon

\* The answer of a reader that is through.
LEMMA ReaderAnswers ==
  ASSUME NEW lz \in Seq(Int), NEW data \in Seq(Int), NEW M, NEW exact, NEW buf_end \in Nat,
         NEW output \in BOOLEAN, \A c, d : << c, d >> \in M => c \in Nat /\ c < Len(lz),
         NEW s, Reading(lz, data, M, exact, buf_end, output, Len(lz), s)
  PROVE  Answers(data, exact, buf_end, output, decompressed(s))
<1>1. PICK ctrl, base, c, d, o, bad :
        /\ s = Reader(ctrl, c, d, o, bad)
        /\ ReadAt(lz, data, M, exact, buf_end, output, ctrl, base, c, d, o, bad)
        /\ bad \/ c = Len(lz) \/ Len(lz) <= c
  BY ONLY Reading(lz, data, M, exact, buf_end, output, Len(lz), s) DEF Reading
<1>2. /\ c \in Nat /\ c <= Len(lz) /\ d \in Nat /\ d <= buf_end /\ Output(output, exact, data, o, d)
      /\ bad \in BOOLEAN /\ (bad => buf_end < Len(data))
      /\ ~ bad => << c, d >> \in M \/ (c = Len(lz) /\ d = Len(data))
  BY ONLY <1>1 DEF ReadAt
<1>3. s.out = o /\ s.decomp_idx = d /\ s.corrupted = bad
  BY ONLY <1>1 DEF Reader
<1>4. PICK r : r = decompressed(s)
  OBVIOUS
<1>5. /\ r.out = o /\ r.size = (IF bad THEN 0 ELSE d)
      /\ r.status = (IF bad THEN "hipcompErrorCannotDecompress" ELSE "hipcompSuccess")
  BY ONLY <1>3, <1>4 DEF decompressed
<1>6. CASE bad
  <2>1. Len(o) <= buf_end
    <3>1. CASE output
      BY ONLY <1>2, <3>1 DEF Output
    <3>2. CASE ~ output
      <4>1. o = << >>
        BY ONLY <1>2, <3>2 DEF Output
      <4>2. QED
        BY ONLY <4>1, buf_end \in Nat
    <3>3. QED
      BY ONLY <3>1, <3>2
  <2>2. Answers(data, exact, buf_end, output, r)
    BY ONLY <1>2, <1>5, <1>6, <2>1 DEF Answers
  <2>3. QED
    BY ONLY <1>4, <2>2
<1>7. CASE ~ bad
  <2>1. c = Len(lz)
    BY ONLY <1>1, <1>2, <1>7, lz \in Seq(Int)
  <2>2. ~ (c < Len(lz))
    BY ONLY <2>1, lz \in Seq(Int)
  <2>3. d = Len(data)
    BY ONLY <1>2, <1>7, <2>2, \A c_1, d_1 : << c_1, d_1 >> \in M => c_1 \in Nat /\ c_1 < Len(lz), Zenon
  <2>4. ~ (buf_end < Len(data))
    BY ONLY <1>2, <2>3, buf_end \in Nat, data \in Seq(Int)
  <2>5. ASSUME output, exact PROVE o = data
    <3>1. o \in Seq(Int) /\ Len(o) = d /\ \A k \in 1 .. d : o[k] = data[k]
      BY ONLY <1>2, <2>5 DEF Output
    <3>2. QED
      <4>1. o \in [1 .. d -> Int] /\ data \in [1 .. d -> Int]
        BY ONLY <2>3, <3>1, data \in Seq(Int)
      <4>2. QED
        BY ONLY <3>1, <4>1
  <2>6. Answers(data, exact, buf_end, output, r)
    BY ONLY <1>5, <1>7, <2>3, <2>4, <2>5 DEF Answers
  <2>7. QED
    BY ONLY <1>4, <2>6
<1>8. QED
  BY ONLY <1>6, <1>7

\* The decompression of a stream that tells all of the data answers the data, or
\* that its output is too small for them.
LEMMA Decompression ==
  ASSUME NEW lz \in Seq(Int), NEW data \in Seq(Int), NEW exact, NEW align \in Nat, NEW buf_end \in Nat,
         NEW output \in BOOLEAN, Complete(lz, data, exact)
  PROVE  Answers(data, exact, buf_end, output, decompressStream(lz, align, buf_end, output))
<1>1. PICK n \in Nat : n = Len(lz)
  OBVIOUS
<1>2. PICK h : /\ IsRun(h, lz, align, buf_end, output, Len(lz))
               /\ decompressStream(lz, align, buf_end, output) = decompressed(h[Len(lz)])
  BY ONLY StreamRun, lz \in Seq(Int), Zenon
<1>3. h = [k \in 0 .. n |->
         IF k = 0
         THEN [ctrl |-> loadAt(NoBuffer, lz, align, 0), comp_idx |-> 0,
               decomp_idx |-> 0, out |-> << >>, corrupted |-> FALSE]
         ELSE decompressFurther(lz, align, buf_end, output, h[k - 1])]
  BY ONLY <1>1, <1>2 DEF IsRun
<1>4. h[0] = Reader(loadAt(NoBuffer, lz, align, 0), 0, 0, << >>, FALSE)
  <2>1. 0 \in 0 .. n
    BY ONLY n \in Nat
  <2>2. QED
    BY ONLY <1>3, <2>1 DEF Reader
<1>5. PICK at \in Int : Holds(loadAt(NoBuffer, lz, align, 0), at, lz) /\ at <= 0
  <2>1. \E at \in Int : /\ Holds(loadAt(NoBuffer, lz, align, 0), at, lz)
                        /\ at <= 0 /\ 0 < at + BufferSize
    BY ONLY BufferLoaded, lz \in Seq(Int), align \in Nat, 0 \in Nat
  <2>2. QED
    BY ONLY <2>1, Zenon
<1>6. Output(output, exact, data, << >>, 0)
  BY ONLY output \in BOOLEAN DEF Output
<1>7. ASSUME NEW M, << 0, 0 >> \in M \/ (0 = Len(lz) /\ 0 = Len(data))
      PROVE  Reading(lz, data, M, exact, buf_end, output, 0, h[0])
  <2>1. PICK full : full = loadAt(NoBuffer, lz, align, 0)
    OBVIOUS
  <2>2. 0 \in Nat /\ 0 <= Len(lz) /\ 0 <= buf_end /\ 0 <= 0
    BY ONLY lz \in Seq(Int), buf_end \in Nat
  <2>3. Reading(lz, data, M, exact, buf_end, output, 0, Reader(full, 0, 0, << >>, FALSE))
    BY ONLY <1>5, <1>6, <1>7, <2>1, <2>2, ReadOn, buf_end \in Nat, at \in Int
  <2>4. QED
    BY ONLY <1>4, <2>1, <2>3
<1>8. CASE data = << >> /\ lz = << >>
  <2>1. 0 = Len(lz) /\ 0 = Len(data)
    BY ONLY <1>8
  <2>2. Reading(lz, data, {}, exact, buf_end, output, 0, h[0])
    BY ONLY <1>7, <2>1
  <2>3. Reading(lz, data, {}, exact, buf_end, output, Len(lz), h[Len(lz)])
    BY ONLY <2>1, <2>2
  <2>4. \A c, d : << c, d >> \in {} => c \in Nat /\ c < Len(lz)
    OBVIOUS
  <2>5. Answers(data, exact, buf_end, output, decompressed(h[Len(lz)]))
    BY ONLY <2>3, <2>4, ReaderAnswers, lz \in Seq(Int), data \in Seq(Int), buf_end \in Nat, output \in BOOLEAN
  <2>6. QED
    BY ONLY <1>2, <2>5
<1>9. CASE \E M, cE, dE : Path(lz, data, M, cE, dE, exact) /\ Ending(lz, data, cE, dE)
  <2>1. PICK M, cE, dE : Path(lz, data, M, cE, dE, exact) /\ Ending(lz, data, cE, dE)
    BY ONLY <1>9, Zenon
  <2>2. << 0, 0 >> \in M
    BY ONLY <2>1 DEF Path
  <2>. DEFINE S == {i \in Nat : i <= n => Reading(lz, data, M, exact, buf_end, output, i, h[i])}
  <2>3. 0 \in S
    BY ONLY <1>7, <2>2, 0 \in Nat
  <2>4. ASSUME NEW i \in Nat, i >= 0 /\ i \in S PROVE i + 1 \in S
    <3>1. SUFFICES ASSUME i + 1 <= n PROVE Reading(lz, data, M, exact, buf_end, output, i + 1, h[i + 1])
      OBVIOUS
    <3>2. i + 1 \in 0 .. n /\ i + 1 # 0 /\ i + 1 - 1 = i /\ i <= n
      BY ONLY <3>1, i \in Nat, n \in Nat
    <3>3. h[i + 1] = decompressFurther(lz, align, buf_end, output, h[i])
      <4>1. PICK k \in 0 .. n : k = i + 1 /\ k # 0 /\ k - 1 = i
        BY ONLY <3>2
      <4>2. h[k] = decompressFurther(lz, align, buf_end, output, h[k - 1])
        BY ONLY <1>3, <4>1, k \in 0 .. n
      <4>3. QED
        BY ONLY <4>1, <4>2
    <3>4. Reading(lz, data, M, exact, buf_end, output, i, h[i])
      BY ONLY <2>4, <3>2
    <3>5. Len(data) \in Nat
      BY ONLY data \in Seq(Int)
    <3>6. Reading(lz, data, M, exact, buf_end, output, i + 1,
                  decompressFurther(lz, align, buf_end, output, h[i]))
      BY ONLY <2>1, <3>4, <3>5, Further, lz \in Seq(Int), align \in Nat, buf_end \in Nat,
              output \in BOOLEAN, i \in Nat, Zenon
    <3>7. QED
      BY ONLY <3>3, <3>6
  <2>5. \A i \in Nat : i >= 0 => i \in S
    <3>. HIDE DEF S
    <3>. QED
      BY ONLY <2>3, <2>4, SFP!Induction, 0 \in Nat
  <2>6. Reading(lz, data, M, exact, buf_end, output, Len(lz), h[Len(lz)])
    BY ONLY <1>1, <2>5, n \in Nat
  <2>7. ASSUME NEW c, NEW d, << c, d >> \in M PROVE c \in Nat /\ c < Len(lz)
    BY ONLY <2>1, <2>7, StationIsBefore, lz \in Seq(Int)
  <2>8. Answers(data, exact, buf_end, output, decompressed(h[Len(lz)]))
    BY ONLY <2>6, <2>7, ReaderAnswers, lz \in Seq(Int), data \in Seq(Int), buf_end \in Nat, output \in BOOLEAN
  <2>9. QED
    BY ONLY <1>2, <2>8
<1>10. QED
  BY ONLY <1>8, <1>9, Complete(lz, data, exact) DEF Complete

-----------------------------------------------------------------------------
(* The stream of launches.                                                 *)

\* What is left of the launches st when block i of the first one is through.
After(st, i) ==
  IF Head(st).blocks = {i} THEN Tail(st) ELSE [st EXCEPT ![1].blocks = @ \ {i}]

\* The operations that a launch may have.
Opcode == {"compress", "query", "decompress", "actual", "convert", "typed1", "typed2", "typed4", "typed8"}

Added(st, ops, C) == st \o [k \in DOMAIN ops |-> [op |-> ops[k], blocks |-> C]]

LeftIn(st, o, i) == \E k \in DOMAIN st : st[k].op = o /\ i \in st[k].blocks

DoneIn(st, q, P, o, i) == (\E k \in 1 .. q : P[k] = o) /\ ~ LeftIn(st, o, i)

\* The launches are the last of the first q of a plan P over the blocks C.
Ordered(st, q, P, C) ==
  /\ st \in Seq([op : Opcode, blocks : SUBSET C]) /\ q \in Nat /\ Len(st) <= q
  /\ \A k \in 1 .. Len(st) :
        /\ st[k].op = P[q - Len(st) + k] /\ st[k].blocks \in (SUBSET C) \ {{}}
        /\ k > 1 => st[k].blocks = C

\* The blocks C have the operations ops left beside those of st.
Beside(new, st, ops, C) ==
  \A o : \A j \in C : LeftIn(new, o, j) <=> LeftIn(st, o, j) \/ \E k \in 1 .. Len(ops) : ops[k] = o

\* The operations ops come next in the plan, behind the first q.
NextOps(q, r, ops, P) == r = q + Len(ops) /\ \A k \in 1 .. Len(ops) : P[q + k] = ops[k]

\* A plan has no operation twice.
Distinct(P) == \A j, k \in 1 .. Len(P) : P[j] = P[k] => j = k

\* A block that ends keeps the order.
LEMMA AfterOrdered ==
  ASSUME NEW C, NEW st, NEW q, NEW P, Ordered(st, q, P, C), st # << >>,
         NEW i, i \in Head(st).blocks
  PROVE  Ordered(After(st, i), q, P, C)
<1>1. PICK n \in Nat \ {0} : n = Len(st)
  BY ONLY Ordered(st, q, P, C), st # << >> DEF Ordered
<1>2. /\ st \in Seq([op : Opcode, blocks : SUBSET C]) /\ q \in Nat /\ n <= q
      /\ \A k \in 1 .. n : /\ st[k].op = P[q - n + k] /\ st[k].blocks \in (SUBSET C) \ {{}}
                           /\ k > 1 => st[k].blocks = C
  BY ONLY <1>1, Ordered(st, q, P, C) DEF Ordered
<1>3. CASE st[1].blocks = {i}
  <2>1. PICK t : t = Tail(st)
    OBVIOUS
  <2>2. PICK m \in Nat : m = n - 1
    BY ONLY n \in Nat \ {0}
  <2>3. t \in Seq([op : Opcode, blocks : SUBSET C]) /\ Len(t) = m /\ \A k \in 1 .. m : t[k] = st[k + 1]
    BY ONLY <1>1, <1>2, <2>1, <2>2, n \in Nat \ {0}, m \in Nat
  <2>4. ASSUME NEW k \in 1 .. m
        PROVE  t[k].op = P[q - m + k] /\ t[k].blocks = C /\ C \in (SUBSET C) \ {{}}
    <3>1. PICK j \in 1 .. n : j = k + 1 /\ j > 1 /\ q - n + j = q - m + k
      BY ONLY <1>2, <2>2, n \in Nat \ {0}, m \in Nat, k \in 1 .. m
    <3>2. t[k] = st[j]
      BY ONLY <2>3, <3>1, k \in 1 .. m
    <3>3. QED
      BY ONLY <1>2, <3>1, <3>2, j \in 1 .. n
  <2>5. m <= q
    BY ONLY <1>2, <2>2, n \in Nat \ {0}, m \in Nat
  <2>6. Ordered(t, q, P, C)
    BY ONLY <1>2, <2>3, <2>4, <2>5 DEF Ordered
  <2>7. After(st, i) = t
    BY ONLY <1>3, <2>1 DEF After
  <2>8. QED
    BY ONLY <2>6, <2>7
<1>4. CASE st[1].blocks # {i}
  <2>1. PICK t : t = [st EXCEPT ![1].blocks = @ \ {i}]
    OBVIOUS
  <2>2. After(st, i) = t
    BY ONLY <1>4, <2>1 DEF After
  <2>3. 1 \in 1 .. n
    BY ONLY n \in Nat \ {0}
  <2>4. st[1].blocks \in (SUBSET C) \ {{}} /\ st[1] \in [op : Opcode, blocks : SUBSET C]
    <3>1. PICK R : R = [op : Opcode, blocks : SUBSET C]
      OBVIOUS
    <3>2. st \in Seq(R)
      BY ONLY <1>2, <3>1
    <3>3. st[1] \in R
      BY ONLY <1>1, <3>2, <2>3
    <3>4. st[1].blocks \in (SUBSET C) \ {{}}
      BY ONLY <1>2, <2>3, Zenon
    <3>5. QED
      BY ONLY <3>1, <3>3, <3>4
  <2>5. PICK B : B = st[1].blocks \ {i} /\ B \in (SUBSET C) \ {{}}
    <3>1. i \in st[1].blocks
      BY ONLY i \in Head(st).blocks
    <3>2. PICK A : A = st[1].blocks
      OBVIOUS
    <3>3. A \ {i} \in SUBSET C /\ A \ {i} # {}
      <4>1. A \in SUBSET C /\ i \in A /\ A # {i}
        BY ONLY <1>4, <2>4, <3>1, <3>2
      <4>2. QED
        BY ONLY <4>1
    <3>4. QED
      BY ONLY <3>2, <3>3
  <2>6. t = [st EXCEPT ![1] = [st[1] EXCEPT !.blocks = B]]
    BY ONLY <2>1, <2>5
  <2>7. [st[1] EXCEPT !.blocks = B] = [op |-> st[1].op, blocks |-> B]
    BY ONLY <2>4
  <2>8. PICK r : r = [op |-> st[1].op, blocks |-> B]
    OBVIOUS
  <2>9. r.op = st[1].op /\ r.blocks = B /\ r \in [op : Opcode, blocks : SUBSET C]
    BY ONLY <2>4, <2>5, <2>8
  <2>10. /\ t \in Seq([op : Opcode, blocks : SUBSET C]) /\ Len(t) = n /\ t[1] = r
         /\ \A k \in 2 .. n : t[k] = st[k]
    BY ONLY <1>1, <1>2, <2>6, <2>7, <2>8, <2>9, n \in Nat \ {0}
  <2>11. ASSUME NEW k \in 1 .. n
         PROVE  t[k].op = P[q - n + k] /\ t[k].blocks \in (SUBSET C) \ {{}} /\ (k > 1 => t[k].blocks = C)
    <3>1. CASE k = 1
      BY ONLY <1>2, <2>5, <2>9, <2>10, <3>1, k \in 1 .. n
    <3>2. CASE k # 1
      <4>1. k \in 2 .. n
        BY ONLY <3>2, n \in Nat \ {0}, k \in 1 .. n
      <4>2. QED
        BY ONLY <1>2, <2>10, <4>1, k \in 1 .. n
    <3>3. QED
      BY ONLY <3>1, <3>2
  <2>12. Ordered(t, q, P, C)
    BY ONLY <1>2, <2>10, <2>11 DEF Ordered
  <2>13. QED
    BY ONLY <2>2, <2>12
<1>5. QED
  BY ONLY <1>3, <1>4

\* It is the only one that is not left any more.
LEMMA AfterLeft ==
  ASSUME NEW C, NEW st, NEW q, NEW P, Ordered(st, q, P, C), q <= Len(P), Len(P) \in Nat, Distinct(P),
         st # << >>, NEW i, i \in Head(st).blocks, NEW o, NEW j
  PROVE  LeftIn(After(st, i), o, j) <=> LeftIn(st, o, j) /\ ~ (o = Head(st).op /\ j = i)
<1>1. PICK n \in Nat \ {0} : n = Len(st)
  BY ONLY Ordered(st, q, P, C), st # << >> DEF Ordered
<1>2. /\ st \in Seq([op : Opcode, blocks : SUBSET C]) /\ q \in Nat /\ n <= q
      /\ \A k \in 1 .. n : st[k].op = P[q - n + k]
  BY ONLY <1>1, Ordered(st, q, P, C) DEF Ordered
<1>3. \A k \in 2 .. n : st[k].op # st[1].op
  <2>1. SUFFICES ASSUME NEW k \in 2 .. n, st[k].op = st[1].op PROVE FALSE
    OBVIOUS
  <2>2. PICK a \in 1 .. Len(P), b \in 1 .. Len(P) : a = q - n + 1 /\ b = q - n + k /\ a # b
    <3>1. q - n + 1 \in 1 .. Len(P) /\ q - n + k \in 1 .. Len(P) /\ q - n + 1 # q - n + k
      BY ONLY <1>2, q <= Len(P), Len(P) \in Nat, n \in Nat \ {0}, k \in 2 .. n
    <3>2. QED
      BY ONLY <3>1, Zenon
  <2>3. st[1].op = P[a] /\ st[k].op = P[b]
    <3>1. 1 \in 1 .. n /\ k \in 1 .. n
      BY ONLY n \in Nat \ {0}, k \in 2 .. n
    <3>2. st[1].op = P[q - n + 1] /\ st[k].op = P[q - n + k]
      BY ONLY <1>2, <3>1, Zenon
    <3>3. QED
      BY ONLY <2>2, <3>2, Zenon
  <2>4. QED
    BY ONLY <2>1, <2>2, <2>3, Distinct(P) DEF Distinct
<1>4. Head(st) = st[1] /\ DOMAIN st = 1 .. n /\ i \in st[1].blocks
  BY ONLY <1>1, <1>2, i \in Head(st).blocks
<1>5. CASE st[1].blocks = {i}
  <2>1. PICK t : t = Tail(st)
    OBVIOUS
  <2>2. DOMAIN t = 1 .. n - 1 /\ \A k \in 1 .. n - 1 : t[k] = st[k + 1]
    BY ONLY <1>1, <1>2, <2>1, n \in Nat \ {0}
  <2>3. ASSUME LeftIn(t, o, j) PROVE LeftIn(st, o, j) /\ ~ (o = st[1].op /\ j = i)
    <3>1. PICK k \in 1 .. n - 1 : t[k].op = o /\ j \in t[k].blocks
      BY ONLY <2>2, <2>3 DEF LeftIn
    <3>2. PICK h \in 2 .. n : h = k + 1
      BY ONLY n \in Nat \ {0}, k \in 1 .. n - 1
    <3>3. h \in 1 .. n /\ st[h].op = o /\ j \in st[h].blocks
      BY ONLY <2>2, <3>1, <3>2, h \in 2 .. n, k \in 1 .. n - 1, n \in Nat \ {0}
    <3>4. QED
      BY ONLY <1>3, <1>4, <3>3, h \in 2 .. n DEF LeftIn
  <2>4. ASSUME LeftIn(st, o, j), ~ (o = st[1].op /\ j = i) PROVE LeftIn(t, o, j)
    <3>1. PICK k \in 1 .. n : st[k].op = o /\ j \in st[k].blocks
      BY ONLY <1>4, <2>4 DEF LeftIn
    <3>2. k # 1
      BY ONLY <1>5, <2>4, <3>1
    <3>3. PICK h \in 1 .. n - 1 : k = h + 1
      BY ONLY <3>2, n \in Nat \ {0}, k \in 1 .. n
    <3>4. QED
      BY ONLY <2>2, <3>1, <3>3, h \in 1 .. n - 1 DEF LeftIn
  <2>5. After(st, i) = t
    BY ONLY <1>4, <1>5, <2>1 DEF After
  <2>6. QED
    BY ONLY <1>4, <2>3, <2>4, <2>5
<1>6. CASE st[1].blocks # {i}
  <2>1. PICK t : t = [st EXCEPT ![1].blocks = @ \ {i}]
    OBVIOUS
  <2>2. After(st, i) = t
    BY ONLY <1>4, <1>6, <2>1 DEF After
  <2>3. st[1] \in [op : Opcode, blocks : SUBSET C]
    <3>1. PICK R : R = [op : Opcode, blocks : SUBSET C]
      OBVIOUS
    <3>2. st \in Seq(R)
      BY ONLY <1>2, <3>1
    <3>3. st[1] \in R
      BY ONLY <1>1, <3>2, n \in Nat \ {0}
    <3>4. QED
      BY ONLY <3>1, <3>3
  <2>4. /\ DOMAIN t = 1 .. n /\ t[1].op = st[1].op /\ t[1].blocks = st[1].blocks \ {i}
        /\ \A k \in 2 .. n : t[k] = st[k]
    BY ONLY <1>1, <1>2, <2>1, <2>3, n \in Nat \ {0}
  <2>5. \A k \in 1 .. n : k # 1 => k \in 2 .. n
    BY ONLY n \in Nat \ {0}
  <2>6. ASSUME LeftIn(t, o, j) PROVE LeftIn(st, o, j) /\ ~ (o = st[1].op /\ j = i)
    <3>1. PICK k \in 1 .. n : t[k].op = o /\ j \in t[k].blocks
      BY ONLY <2>4, <2>6 DEF LeftIn
    <3>2. CASE k = 1
      BY ONLY <1>4, <2>4, <3>1, <3>2, k \in 1 .. n DEF LeftIn
    <3>3. CASE k # 1
      BY ONLY <1>3, <1>4, <2>4, <2>5, <3>1, <3>3, k \in 1 .. n DEF LeftIn
    <3>4. QED
      BY ONLY <3>2, <3>3
  <2>7. ASSUME LeftIn(st, o, j), ~ (o = st[1].op /\ j = i) PROVE LeftIn(t, o, j)
    <3>1. PICK k \in 1 .. n : st[k].op = o /\ j \in st[k].blocks
      BY ONLY <1>4, <2>7 DEF LeftIn
    <3>2. t[k].op = o /\ j \in t[k].blocks
      <4>1. CASE k = 1
        BY ONLY <2>4, <2>7, <3>1, <4>1
      <4>2. CASE k # 1
        BY ONLY <2>4, <2>5, <3>1, <4>2, k \in 1 .. n
      <4>3. QED
        BY ONLY <4>1, <4>2
    <3>3. QED
      BY ONLY <2>4, <3>2, k \in 1 .. n DEF LeftIn
  <2>8. QED
    BY ONLY <1>4, <2>2, <2>6, <2>7
<1>7. QED
  BY ONLY <1>5, <1>6

\* New launches go behind those that are there.
LEMMA AddedOrdered ==
  ASSUME NEW C, C # {}, NEW st, NEW q \in Nat, NEW P, Ordered(st, q, P, C),
         NEW ops \in Seq(Opcode), NEW r \in Nat, NextOps(q, r, ops, P)
  PROVE  /\ Ordered(Added(st, ops, C), r, P, C)
         /\ Beside(Added(st, ops, C), st, ops, C)
<1>1. PICK n \in Nat, m \in Nat : n = Len(st) /\ m = Len(ops)
  BY ONLY Ordered(st, q, P, C), ops \in Seq(Opcode) DEF Ordered
<1>2. /\ st \in Seq([op : Opcode, blocks : SUBSET C]) /\ n <= q
      /\ \A k \in 1 .. n : /\ st[k].op = P[q - n + k] /\ st[k].blocks \in (SUBSET C) \ {{}}
                           /\ k > 1 => st[k].blocks = C
  BY ONLY <1>1, Ordered(st, q, P, C) DEF Ordered
<1>3. PICK new : new = [k \in 1 .. m |-> [op |-> ops[k], blocks |-> C]]
  OBVIOUS
<1>4. ASSUME NEW k \in 1 .. m
      PROVE  new[k].op = ops[k] /\ new[k].blocks = C /\ new[k] \in [op : Opcode, blocks : SUBSET C]
  <2>1. ops[k] \in Opcode
    BY ONLY <1>1, ops \in Seq(Opcode), k \in 1 .. m
  <2>2. new[k] = [op |-> ops[k], blocks |-> C]
    BY ONLY <1>3, k \in 1 .. m
  <2>3. QED
    BY ONLY <2>1, <2>2
<1>5. new \in Seq([op : Opcode, blocks : SUBSET C]) /\ Len(new) = m
  <2>1. new \in [1 .. m -> [op : Opcode, blocks : SUBSET C]]
    BY ONLY <1>3, <1>4
  <2>2. \A R : new \in [1 .. m -> R] => new \in Seq(R) /\ Len(new) = m
    BY ONLY m \in Nat
  <2>3. QED
    BY ONLY <2>1, <2>2, Zenon
<1>6. PICK t : t = st \o new
  OBVIOUS
<1>7. PICK z \in Nat : z = n + m
  OBVIOUS
<1>8. /\ t \in Seq([op : Opcode, blocks : SUBSET C]) /\ Len(t) = z
      /\ \A k \in 1 .. n : t[k] = st[k]
      /\ \A k \in 1 .. m : t[n + k] = new[k]
  <2>1. \A R : st \in Seq(R) /\ new \in Seq(R) =>
            /\ t \in Seq(R) /\ Len(t) = z
            /\ \A k \in 1 .. n : t[k] = st[k]
            /\ \A k \in 1 .. m : t[n + k] = new[k]
    <3>1. SUFFICES ASSUME NEW R, st \in Seq(R), new \in Seq(R)
                   PROVE  /\ t \in Seq(R) /\ Len(t) = z
                          /\ \A k \in 1 .. n : t[k] = st[k]
                          /\ \A k \in 1 .. m : t[n + k] = new[k]
      OBVIOUS
    <3>2. Len(st) = n /\ Len(new) = m
      BY <1>1, <1>5
    <3>3. t \in Seq(R) /\ Len(t) = z
      <4>1. st \in Seq(R) /\ new \in Seq(R)
        BY <3>1
      <4>2. t \in Seq(R)
        BY ONLY <1>6, <4>1
      <4>3. Len(t) = Len(st) + Len(new)
        BY ONLY <1>6, <4>1
      <4>4. QED
        BY ONLY <1>7, <3>2, <4>2, <4>3
    <3>4. ASSUME NEW k \in 1 .. n PROVE t[k] = st[k]
      BY ONLY <1>6, <3>1, <3>2, n \in Nat, m \in Nat, k \in 1 .. n
    <3>5. ASSUME NEW k \in 1 .. m PROVE t[n + k] = new[k]
      BY ONLY <1>6, <3>1, <3>2, n \in Nat, m \in Nat, k \in 1 .. m
    <3>6. QED
      BY ONLY <3>3, <3>4, <3>5
  <2>2. QED
    BY ONLY <1>2, <1>5, <2>1, Zenon
<1>9. \A k \in 1 .. z : k \in 1 .. n \/ \E h \in 1 .. m : k = n + h
  <2>1. SUFFICES ASSUME NEW k \in 1 .. z, ~ (k \in 1 .. n) PROVE \E h \in 1 .. m : k = n + h
    OBVIOUS
  <2>2. k - n \in 1 .. m /\ k = n + (k - n)
    BY ONLY <1>7, <2>1, n \in Nat, m \in Nat, z \in Nat, k \in 1 .. z
  <2>3. QED
    BY ONLY <2>2
<1>10. q - n = r - z
  BY ONLY <1>1, <1>7, NextOps(q, r, ops, P), n \in Nat, m \in Nat, q \in Nat, r \in Nat, z \in Nat, SMTT(30) DEF NextOps
<1>11. ASSUME NEW k \in 1 .. z
       PROVE  /\ t[k].op = P[r - z + k] /\ t[k].blocks \in (SUBSET C) \ {{}}
              /\ k > 1 => t[k].blocks = C
  <2>1. CASE k \in 1 .. n
    BY ONLY <1>2, <1>8, <1>10, <2>1
  <2>2. CASE \E h \in 1 .. m : k = n + h
    <3>1. PICK h \in 1 .. m : k = n + h
      BY <2>2
    <3>2. r - z + k = q + h
      BY ONLY <1>10, <3>1, n \in Nat, q \in Nat, r \in Nat, z \in Nat, h \in 1 .. m, m \in Nat
    <3>3. t[k] = new[h]
      BY ONLY <1>8, <3>1, h \in 1 .. m
    <3>4. P[q + h] = ops[h]
      BY ONLY <1>1, NextOps(q, r, ops, P), h \in 1 .. m DEF NextOps
    <3>5. t[k].op = P[q + h] /\ t[k].blocks = C
      BY ONLY <1>4, <3>3, <3>4, h \in 1 .. m
    <3>6. C \in (SUBSET C) \ {{}}
      BY ONLY C # {}
    <3>7. QED
      BY ONLY <3>2, <3>5, <3>6
  <2>3. QED
    BY ONLY <1>9, <2>1, <2>2
<1>12. z <= r
  BY ONLY <1>2, <1>10, n \in Nat, q \in Nat, r \in Nat, z \in Nat
<1>13. Ordered(t, r, P, C)
  BY ONLY <1>8, <1>11, <1>12, r \in Nat DEF Ordered
<1>14. Added(st, ops, C) = t
  <2>1. DOMAIN ops = 1 .. m
    BY ONLY <1>1, ops \in Seq(Opcode)
  <2>2. QED
    BY ONLY <1>3, <1>6, <2>1 DEF Added
<1>15. ASSUME NEW o, NEW j \in C
       PROVE  LeftIn(t, o, j) <=> LeftIn(st, o, j) \/ \E k \in 1 .. m : ops[k] = o
  <2>1. DOMAIN t = 1 .. z /\ DOMAIN st = 1 .. n /\ n <= z
    BY ONLY <1>1, <1>2, <1>7, <1>8, n \in Nat, m \in Nat, z \in Nat
  <2>2. ASSUME LeftIn(t, o, j) PROVE LeftIn(st, o, j) \/ \E k \in 1 .. m : ops[k] = o
    <3>1. PICK k \in 1 .. z : t[k].op = o /\ j \in t[k].blocks
      BY ONLY <2>1, <2>2 DEF LeftIn
    <3>2. CASE k \in 1 .. n
      BY ONLY <1>8, <2>1, <3>1, <3>2 DEF LeftIn
    <3>3. CASE \E h \in 1 .. m : k = n + h
      <4>1. PICK h \in 1 .. m : k = n + h
        BY <3>3
      <4>2. t[k].op = ops[h]
        BY ONLY <1>4, <1>8, <4>1, h \in 1 .. m
      <4>3. QED
        BY ONLY <3>1, <4>2, h \in 1 .. m
    <3>4. QED
      BY ONLY <1>9, <3>2, <3>3
  <2>3. ASSUME LeftIn(st, o, j) PROVE LeftIn(t, o, j)
    <3>1. PICK k \in 1 .. n : st[k].op = o /\ j \in st[k].blocks
      BY ONLY <2>1, <2>3 DEF LeftIn
    <3>2. k \in 1 .. z
      BY ONLY <2>1, n \in Nat, z \in Nat, k \in 1 .. n
    <3>3. QED
      BY ONLY <1>8, <2>1, <3>1, <3>2, k \in 1 .. n DEF LeftIn
  <2>4. ASSUME NEW k \in 1 .. m, ops[k] = o PROVE LeftIn(t, o, j)
    <3>1. n + k \in 1 .. z
      BY ONLY <1>7, n \in Nat, m \in Nat, z \in Nat, k \in 1 .. m
    <3>2. t[n + k].op = o /\ j \in t[n + k].blocks
      BY ONLY <1>4, <1>8, <1>15, <2>4, k \in 1 .. m
    <3>3. QED
      BY ONLY <2>1, <3>1, <3>2 DEF LeftIn
  <2>5. QED
    BY ONLY <2>2, <2>3, <2>4
<1>16. QED
  BY ONLY <1>1, <1>13, <1>14, <1>15 DEF Beside

\* The operations that are queued, and those that are through for a block.
DueOps(q, P) == {P[k] : k \in 1 .. q}
DoneOps(st, q, P, i) == {o \in DueOps(q, P) : ~ LeftIn(st, o, i)}

\* Block i is through with the first launch, and no other block is.
OneThrough(st, q, P, C, i) ==
  /\ Ordered(After(st, i), q, P, C)
  /\ DoneOps(After(st, i), q, P, i) = DoneOps(st, q, P, i) \cup {Head(st).op}
  /\ Head(st).op \in DueOps(q, P) /\ Head(st).op \notin DoneOps(st, q, P, i)
  /\ \A j : j # i => DoneOps(After(st, i), q, P, j) = DoneOps(st, q, P, j)

\* This is what a block does that ends.
LEMMA FinishDone ==
  ASSUME NEW C, NEW st, NEW q, NEW P, Ordered(st, q, P, C), q <= Len(P), Len(P) \in Nat, Distinct(P),
         st # << >>, NEW i, i \in Head(st).blocks
  PROVE  OneThrough(st, q, P, C, i)
<1>1. Ordered(After(st, i), q, P, C)
  BY AfterOrdered
<1>2. \A o, j : LeftIn(After(st, i), o, j) <=> LeftIn(st, o, j) /\ ~ (o = Head(st).op /\ j = i)
  BY AfterLeft
<1>3. Head(st).op \in DueOps(q, P) /\ LeftIn(st, Head(st).op, i)
  <2>1. PICK n \in Nat \ {0} : n = Len(st)
    BY ONLY Ordered(st, q, P, C), st # << >> DEF Ordered
  <2>2. /\ st \in Seq([op : Opcode, blocks : SUBSET C]) /\ q \in Nat /\ n <= q
        /\ \A k \in 1 .. n : st[k].op = P[q - n + k]
    BY ONLY <2>1, Ordered(st, q, P, C) DEF Ordered
  <2>3. Head(st) = st[1] /\ DOMAIN st = 1 .. n
    BY ONLY <2>1, <2>2
  <2>4. 1 \in 1 .. n
    BY ONLY n \in Nat \ {0}
  <2>5. PICK k \in 1 .. q : k = q - n + 1
    BY ONLY <2>2, n \in Nat \ {0}
  <2>6. st[1].op = P[k]
    BY ONLY <2>2, <2>4, <2>5
  <2>7. LeftIn(st, Head(st).op, i)
    BY ONLY <2>3, <2>4, i \in Head(st).blocks DEF LeftIn
  <2>8. QED
    BY ONLY <2>3, <2>6, <2>7, k \in 1 .. q DEF DueOps
<1>4. DoneOps(After(st, i), q, P, i) = DoneOps(st, q, P, i) \cup {Head(st).op}
  BY ONLY <1>2, <1>3 DEF DoneOps
<1>5. \A j : j # i => DoneOps(After(st, i), q, P, j) = DoneOps(st, q, P, j)
  BY ONLY <1>2 DEF DoneOps
<1>6. QED
  BY ONLY <1>1, <1>3, <1>4, <1>5 DEF DoneOps, OneThrough

\* The stream st with ops queued behind: the first r launches of the plan.
Lengthened(st, q, r, ops, P, C) ==
  /\ Ordered(Added(st, ops, C), r, P, C)
  /\ DueOps(q, P) \subseteq DueOps(r, P)
  /\ \A j \in C : DoneOps(Added(st, ops, C), r, P, j) = DoneOps(st, q, P, j)

\* Queueing more launches makes no block do anything.
LEMMA LaunchDone ==
  ASSUME NEW C, C # {}, NEW st, NEW q \in Nat, NEW P, Ordered(st, q, P, C), Len(P) \in Nat, Distinct(P),
         NEW ops \in Seq(Opcode), NEW r \in Nat, NextOps(q, r, ops, P), r <= Len(P)
  PROVE  Lengthened(st, q, r, ops, P, C)
<1>1. /\ Ordered(Added(st, ops, C), r, P, C)
      /\ Beside(Added(st, ops, C), st, ops, C)
  <2>1. C # {} /\ Ordered(st, q, P, C) /\ q \in Nat /\ r \in Nat /\ ops \in Seq(Opcode) /\ NextOps(q, r, ops, P)
    OBVIOUS
  <2>2. QED
    BY ONLY AddedOrdered, <2>1
<1>2. PICK m \in Nat : m = Len(ops)
  OBVIOUS
<1>0. r = q + Len(ops) /\ \A k \in 1 .. Len(ops) : P[q + k] = ops[k]
  BY ONLY NextOps(q, r, ops, P) DEF NextOps
<1>3. 1 .. q \subseteq 1 .. r
  BY ONLY <1>2, <1>0, q \in Nat, r \in Nat, m \in Nat
<1>4. DueOps(q, P) \subseteq DueOps(r, P)
  BY ONLY <1>3 DEF DueOps
<1>5. ASSUME NEW o \in DueOps(q, P), NEW k \in 1 .. m PROVE ops[k] # o
  <2>1. PICK h \in 1 .. q : o = P[h]
    BY ONLY o \in DueOps(q, P) DEF DueOps
  <2>2. PICK g \in 1 .. r : g = q + k /\ g # h
    BY ONLY <1>2, <1>0, q \in Nat, r \in Nat, m \in Nat, h \in 1 .. q, k \in 1 .. m
  <2>3. g \in 1 .. Len(P) /\ h \in 1 .. Len(P)
    BY ONLY <1>3, r <= Len(P), Len(P) \in Nat, r \in Nat, h \in 1 .. q, g \in 1 .. r
  <2>4. ops[k] = P[g]
    BY ONLY <1>2, <2>2, <1>0, k \in 1 .. m
  <2>5. QED
    BY ONLY <2>1, <2>2, <2>3, <2>4, Distinct(P), Zenon DEF Distinct
<1>6. ASSUME NEW o \in DueOps(r, P), o \notin DueOps(q, P)
      PROVE  \E k \in 1 .. m : ops[k] = o
  <2>1. PICK h \in 1 .. r : o = P[h]
    BY ONLY o \in DueOps(r, P) DEF DueOps
  <2>2. h \notin 1 .. q
    BY ONLY <1>6, <2>1 DEF DueOps
  <2>3. PICK k \in 1 .. m : h = q + k
    <3>1. h - q \in 1 .. m /\ h = q + (h - q)
      BY ONLY <1>2, <2>2, <1>0, q \in Nat, r \in Nat, m \in Nat, h \in 1 .. r
    <3>2. QED
      BY ONLY <3>1
  <2>4. ops[k] = P[h]
    BY ONLY <1>2, <2>3, <1>0, k \in 1 .. m
  <2>5. QED
    BY ONLY <2>1, <2>4, k \in 1 .. m
<1>7. ASSUME NEW j \in C PROVE DoneOps(Added(st, ops, C), r, P, j) = DoneOps(st, q, P, j)
  <2>1. ASSUME NEW o PROVE o \in DoneOps(Added(st, ops, C), r, P, j) <=> o \in DoneOps(st, q, P, j)
    <3>1. LeftIn(Added(st, ops, C), o, j) <=> LeftIn(st, o, j) \/ \E k \in 1 .. m : ops[k] = o
      BY ONLY <1>1, <1>2, j \in C DEF Beside
    <3>2. o \in DueOps(q, P) => (o \in DueOps(r, P) /\ ~ \E k \in 1 .. m : ops[k] = o)
      BY ONLY <1>4, <1>5
    <3>3. o \in DueOps(r, P) /\ o \notin DueOps(q, P) => \E k \in 1 .. m : ops[k] = o
      BY ONLY <1>6
    <3>4. QED
      BY ONLY <3>1, <3>2, <3>3 DEF DoneOps
  <2>2. QED
    BY ONLY <2>1 DEF DoneOps
<1>8. QED
  BY ONLY <1>1, <1>4, <1>7 DEF Lengthened

\* While the operation b of the plan runs, every block is through with those in
\* front of it, and with none of those behind it.
LEMMA InOrder ==
  ASSUME NEW C, NEW st, NEW q, NEW P, Ordered(st, q, P, C), q <= Len(P), Len(P) \in Nat, Distinct(P),
         st # << >>, NEW a \in 1 .. Len(P), NEW b \in 1 .. Len(P), P[b] = Head(st).op, NEW j \in C
  PROVE  /\ a < b => P[a] \in DoneOps(st, q, P, j)
         /\ b < a => P[a] \notin DoneOps(st, q, P, j)
<1>1. PICK n \in Nat \ {0}, p \in Nat : n = Len(st) /\ p = Len(P)
  BY ONLY Ordered(st, q, P, C), st # << >>, Len(P) \in Nat DEF Ordered
<1>2. /\ st \in Seq([op : Opcode, blocks : SUBSET C]) /\ q \in Nat /\ n <= q
      /\ \A k \in 1 .. n : st[k].op = P[q - n + k] /\ (k > 1 => st[k].blocks = C)
  BY ONLY <1>1, Ordered(st, q, P, C) DEF Ordered
<1>3. DOMAIN st = 1 .. n /\ 1 \in 1 .. n
  BY ONLY <1>1, <1>2, n \in Nat \ {0}
<1>4. b = q - n + 1
  <2>1. Head(st).op = P[q - n + 1]
    <3>1. Head(st) = st[1]
      BY ONLY <1>1, <1>2
    <3>2. QED
      BY ONLY <1>2, <1>3, <3>1
  <2>2. PICK h \in 1 .. Len(P) : h = q - n + 1
    <3>1. q - n + 1 \in 1 .. p
      BY ONLY <1>1, <1>2, q <= Len(P), n \in Nat \ {0}, p \in Nat
    <3>2. QED
      BY ONLY <1>1, <3>1
  <2>3. P[h] = P[b]
    BY ONLY <2>1, <2>2, P[b] = Head(st).op
  <2>4. QED
    BY ONLY <2>2, <2>3, Distinct(P), b \in 1 .. Len(P), Zenon DEF Distinct
<1>5. ASSUME a < b PROVE P[a] \in DoneOps(st, q, P, j)
  <2>1. a \in 1 .. q
    BY ONLY <1>1, <1>2, <1>4, <1>5, n \in Nat \ {0}, p \in Nat, a \in 1 .. Len(P)
  <2>2. ASSUME NEW k \in 1 .. n PROVE st[k].op # P[a]
    <3>1. PICK h \in 1 .. p : h = q - n + k /\ h # a
      <4>1. q - n + k \in 1 .. p /\ q - n + k # a
        BY ONLY <1>1, <1>2, <1>4, <1>5, q <= Len(P), n \in Nat \ {0}, p \in Nat, a \in 1 .. Len(P), k \in 1 .. n
      <4>2. QED
        BY ONLY <4>1
    <3>2. st[k].op = P[h]
      BY ONLY <1>2, <3>1, k \in 1 .. n
    <3>3. QED
      BY ONLY <1>1, <3>1, <3>2, Distinct(P), a \in 1 .. Len(P) DEF Distinct
  <2>3. QED
    BY ONLY <1>3, <2>1, <2>2 DEF DoneOps, DueOps, LeftIn
<1>6. ASSUME b < a PROVE P[a] \notin DoneOps(st, q, P, j)
  <2>1. CASE a <= q
    <3>1. PICK k \in 1 .. n : a = q - n + k /\ k > 1
      <4>1. a - (q - n) \in 1 .. n /\ a = q - n + (a - (q - n)) /\ a - (q - n) > 1
        BY ONLY <1>1, <1>2, <1>4, <1>6, <2>1, n \in Nat \ {0}, p \in Nat, a \in 1 .. Len(P)
      <4>2. QED
        BY ONLY <4>1
    <3>2. st[k].op = P[a] /\ st[k].blocks = C
      BY ONLY <1>2, <3>1, k \in 1 .. n
    <3>3. QED
      BY ONLY <1>3, <3>2, j \in C, k \in 1 .. n DEF DoneOps, LeftIn
  <2>2. CASE ~ (a <= q)
    <3>1. ASSUME NEW h \in 1 .. q PROVE P[h] # P[a]
      <4>1. h # a /\ h \in 1 .. Len(P)
        BY ONLY <1>1, <1>2, <2>2, q <= Len(P), p \in Nat, a \in 1 .. Len(P), h \in 1 .. q
      <4>2. QED
        BY ONLY <4>1, Distinct(P), a \in 1 .. Len(P), Zenon DEF Distinct
    <3>2. QED
      BY ONLY <3>1 DEF DoneOps, DueOps
  <2>3. QED
    BY ONLY <2>1, <2>2
<1>7. QED
  BY ONLY <1>5, <1>6

-----------------------------------------------------------------------------
(* What the batch keeps true.  The parts are about values, so that a part   *)
(* whose values a step leaves alone is the same formula after it.           *)

\* The launches of a format, and how many of them the host has queued.
Plan ==
    CASE job.format = "ans"      -> << >>
      [] job.format = "gdeflate" -> << "compress", "query", "decompress", "convert" >>
      [] job.format = "bitcomp"  -> << "compress", "query", "decompress", "actual", "convert" >>
      [] job.format = "cascaded" -> << "compress", "query", "typed1", "typed2", "typed4", "typed8" >>
      [] OTHER                   -> << "compress", "query", "decompress" >>

Queued ==
    IF job.format = "ans" THEN 0 ELSE
    CASE call = "query" -> 1 [] call = "decompress" -> 2 [] call = "done" -> Len(Plan) [] OTHER -> 0

\* The host went on with the sizes that it was told.
AskedInv ==
    /\ asked.temp \in Nat
    /\ call \in {"compress", "query", "decompress", "done"} /\ job.format # "ans" =>
          /\ TempSize.code = Success /\ MaxOutputChunkSize.code = Success
          /\ asked.temp = TempSize.bytes /\ asked.max = MaxOutputChunkSize.bytes
    /\ job.format = "lz4" /\ Queued > 0 =>
          job.T # 8 /\ scratch_bytes(job.max, Len(job.chunks)) <= asked.temp - job.short

\* The memory behind the scratch buffer is as it was.
TempInv ==
    \A a \in DOMAIN temp :
        a * OffsetBytes >= asked.temp - job.short => temp[a] = temp[ScratchBytes \div OffsetBytes]

Ops        == DueOps(Queued, Plan)
Through(i) == DoneOps(stream, Queued, Plan, i)
Table(i)   == [h \in 0 .. HT_size - 1 |-> temp[(i - 1) * HT_size + h]]

SizeOf(j, i) == Len(j.chunks[i]) * (IF j.format = "cascaded" THEN j.T ELSE 1)
RoomOf(j, i) == Max({SizeOf(j, i) + j.spare, 0})
NarrowAt(j, i) == Narrow(j.chunks[i], j.T)

\* The calls of a host.
HostOK ==
  /\ job \in Jobs
  /\ call \in {"sizes", "compress", "query", "decompress", "done", "stopped"}
  /\ job.format = "ans" => call # "done"
  /\ code \in {Success, InvalidValue, NotSupported} /\ lastError \in BOOLEAN
  /\ asked.temp \in Nat /\ asked.max \in Nat
  /\ call = "sizes" => asked.temp = 0
  /\ AskedInv

\* The launches in the stream.
StreamOK ==
  /\ Ordered(stream, Queued, Plan, Chunks)
  /\ Chunks = {} => stream = << >>
  /\ Chunks # {} => ~ lastError

\* The memory from the scratch buffer on.
TempOK == temp \in [0 .. ScratchBytes \div OffsetBytes -> 0 .. MAX_OFFSET] /\ TempInv

\* Each chunk has its buffers and answers.
BuffersOK ==
  /\ DOMAIN warp = Chunks /\ DOMAIN comp = Chunks /\ DOMAIN compBytes = Chunks
  /\ DOMAIN sizes = Chunks /\ DOMAIN out = Chunks /\ DOMAIN actual = Chunks
  /\ DOMAIN statuses = Chunks

\* The state w of a warp that compresses chunk i.
AtWork(j, n, table, i, w) ==
  \E at, ts, str :
     /\ w = [at |-> at, tokenStart |-> ts, out |-> str]
     /\ LzState(j.chunks[i], j.T, RoundUpDiv(Len(j.chunks[i]), j.T), n, at, ts, table, str, NarrowAt(j, i))
WarpOK(j, due, through, n, table, i, w) ==
  w # NoWarp => /\ j.format = "lz4" /\ "compress" \in due /\ "compress" \notin through
                /\ AtWork(j, n, table, i, w)

\* The compressed chunk i.
Header(j, i, c, b) ==
  IF SizeOf(j, i) = 0 THEN b = 0
  ELSE b \in Nat /\ Metadata <= b /\ Fetch(c, 4, 4) = SizeOf(j, i) /\ Fetch(c, 3, 1) = j.T
Stored(j, i, c, b) ==
  /\ j.format = "lz4" => c \in Seq(Int) /\ b = Len(c) /\ Complete(c, j.chunks[i], NarrowAt(j, i))
  /\ j.format = "snappy" => c = snap(j.chunks[i]) /\ b = Len(c)
  /\ j.format = "cascaded" => Header(j, i, c, b)
  /\ j.format \in Libraries => c = j.chunks[i] /\ b = SizeOf(j, i)
StoredOK(j, max, through, i, c, b) ==
  IF "compress" \in through THEN Stored(j, i, c, b) /\ b \in 0 .. max
  ELSE b = Unwritten /\ (j.format = "cascaded" => Len(c) = max)

\* The answer z of the query.
SizeOK(j, through, i, z) == z = IF "query" \in through THEN SizeOf(j, i) ELSE Unwritten

\* The answer of the decompression.
Fresh(a, s) == a = Unwritten /\ s = "unwritten"
Right(j, i, o, a, s) ==
  \/ /\ s = Success /\ o = j.chunks[i] /\ a = SizeOf(j, i)
     /\ RoomOf(j, i) < SizeOf(j, i) => j.format = "snappy" /\ RoomOf(j, i) = 0
  \/ /\ s = CannotDecompress \/ (s = InvalidValue /\ j.format = "bitcomp")
     /\ Len(o) <= RoomOf(j, i) /\ RoomOf(j, i) < SizeOf(j, i)
     /\ a = IF j.format = "bitcomp" THEN SizeOf(j, i) ELSE 0
Answering(j, i, o, a, s) ==
  /\ s \in Statuses /\ a # Unwritten
  /\ (j.format = "lz4" => NarrowAt(j, i)) => Right(j, i, o, a, s)
Decoding(j, through, i, o, a, s) ==
  /\ \/ s = "library success" /\ o = j.chunks[i] /\ SizeOf(j, i) <= RoomOf(j, i)
     \/ s \in LibraryCodes /\ o = << >> /\ RoomOf(j, i) < SizeOf(j, i)
  /\ j.format = "gdeflate" => a = IF s = "library success" THEN SizeOf(j, i) ELSE 0
  /\ j.format = "bitcomp" /\ "actual" \in through => a = SizeOf(j, i)
AnswerOK(j, through, i, o, a, s) ==
  /\ j.format \in {"lz4", "snappy"} =>
        IF "decompress" \in through THEN Answering(j, i, o, a, s) ELSE Fresh(a, s)
  /\ j.format = "cascaded" /\ Len(j.chunks) # 0 /\ SizeOf(j, 1) > 0 =>
        IF typed(j.T) \in through THEN s \in Statuses /\ a # Unwritten ELSE Fresh(a, s)
  /\ j.format \in Libraries =>
        IF "convert" \in through THEN Answering(j, i, o, a, s)
        ELSE IF "decompress" \in through THEN Decoding(j, through, i, o, a, s) ELSE Fresh(a, s)
  /\ j.format = "ans" => Fresh(a, s)

\* All of chunk i.
ChunkOK(j, max, due, through, n, table, i, w, c, b, z, o, a, s) ==
  /\ WarpOK(j, due, through, n, table, i, w) /\ StoredOK(j, max, through, i, c, b)
  /\ SizeOK(j, through, i, z) /\ AnswerOK(j, through, i, o, a, s)
ChunksOK ==
  \A i \in Chunks : ChunkOK(job, asked.max, Ops, Through(i), HT_size, Table(i), i, warp[i],
                            comp[i], compBytes[i], sizes[i], out[i], actual[i], statuses[i])

BatchInv == HostOK /\ StreamOK /\ TempOK /\ BuffersOK /\ ChunksOK

-----------------------------------------------------------------------------
(* Plans and jobs. *)

\* A plan has no operation twice, and the host queues no more than it has.
LEMMA PlanOK ==
  ASSUME HostOK
  PROVE  Len(Plan) \in Nat /\ Distinct(Plan) /\ Queued \in Nat /\ Queued <= Len(Plan)
<1>1. CASE job.format = "ans"
  BY <1>1 DEF Plan, Queued, Distinct
<1>2. CASE job.format = "gdeflate"
  BY <1>2 DEF Plan, Queued, Distinct
<1>3. CASE job.format = "bitcomp"
  BY <1>3 DEF Plan, Queued, Distinct
<1>4. CASE job.format = "cascaded"
  BY <1>4 DEF Plan, Queued, Distinct
<1>5. CASE job.format \notin {"ans", "gdeflate", "bitcomp", "cascaded"}
  BY <1>5 DEF Plan, Queued, Distinct
<1>6. QED
  BY ONLY <1>1, <1>2, <1>3, <1>4, <1>5, Zenon

\* What a caller sees to.
LEMMA JobOK ==
  ASSUME HostOK
  PROVE  /\ job \in Job /\ job.max <= UINT_MAX
         /\ \A i \in Chunks : SizeOf(job, i) <= job.max /\ job.chunks[i] \in Seq(Nat)
         /\ job.format = "lz4" /\ job.max <= MaxChunkSize =>
               scratch_bytes(job.max, Len(job.chunks)) <= ScratchBytes
<1>1. job \in Jobs
  BY DEF HostOK
<1>2. job \in Job /\ job.max <= UINT_MAX
  BY <1>1, JobsAssumption
<1>3. job.chunks \in Seq(Seq(Nat))
  BY ONLY <1>2 DEF Job
<1>4. ASSUME NEW i \in Chunks PROVE SizeOf(job, i) <= job.max /\ job.chunks[i] \in Seq(Nat)
  <2>1. i \in DOMAIN job.chunks
    BY ONLY <1>3, i \in Chunks DEF Chunks
  <2>2. Len(job.chunks[i]) * (IF job.format = "cascaded" THEN job.T ELSE 1) <= job.max
    BY <1>1, <2>1, JobsAssumption
  <2>3. job.chunks[i] \in Seq(Nat)
    <3>1. PICK S : S = Seq(Nat)
      OBVIOUS
    <3>2. job.chunks[i] \in S
      BY ONLY <1>3, <2>1, <3>1
    <3>3. QED
      BY ONLY <3>1, <3>2
  <2>4. QED
    BY ONLY <2>2, <2>3 DEF SizeOf
<1>5. job.format = "lz4" /\ job.max <= MaxChunkSize =>
               scratch_bytes(job.max, Len(job.chunks)) <= ScratchBytes
  BY <1>1, JobsAssumption
<1>6. QED
  BY ONLY <1>2, <1>4, <1>5

\* The tables of the blocks.
LEMMA MorePowers == \A k \in 0 .. 13 : 2 ^ k \in Nat \ {0}
<1>1. /\ 2 ^ 8 = 256 /\ 2 ^ 9 = 512 /\ 2 ^ 10 = 1024 /\ 2 ^ 11 = 2048
      /\ 2 ^ 12 = 4096 /\ 2 ^ 13 = 8192
  OBVIOUS
<1>2. \A k \in 0 .. 13 : k \in 0 .. 7 \/ k = 8 \/ k = 9 \/ k = 10 \/ k = 11 \/ k = 12 \/ k = 13
  OBVIOUS
<1>3. TAKE k \in 0 .. 13
<1>4. k \notin 0 .. 7 => 2 ^ k = 256 \/ 2 ^ k = 512 \/ 2 ^ k = 1024 \/ 2 ^ k = 2048
                         \/ 2 ^ k = 4096 \/ 2 ^ k = 8192
  <2>1. k \notin 0 .. 7 => k = 8 \/ k = 9 \/ k = 10 \/ k = 11 \/ k = 12 \/ k = 13
    BY ONLY <1>2, k \in 0 .. 13
  <2>2. CASE k \in 0 .. 7
    BY ONLY <2>2
  <2>3. CASE k = 8
    BY ONLY <1>1, <2>3
  <2>4. CASE k = 9
    BY ONLY <1>1, <2>4
  <2>5. CASE k = 10
    BY ONLY <1>1, <2>5
  <2>6. CASE k = 11
    BY ONLY <1>1, <2>6
  <2>7. CASE k = 12
    BY ONLY <1>1, <2>7
  <2>8. CASE k = 13
    BY ONLY <1>1, <2>8
  <2>9. QED
    BY ONLY <2>1, <2>2, <2>3, <2>4, <2>5, <2>6, <2>7, <2>8
<1>5. CASE k \in 0 .. 7
  BY ONLY Powers, <1>5
<1>6. CASE k \notin 0 .. 7
  BY ONLY <1>4, <1>6
<1>7. QED
  BY ONLY <1>5, <1>6

\* A table has an entry or more.
LEMMA TableSize == HT_size \in Nat \ {0}
<1>1. PICK S : S = {MaxHashTableSize} \cup {n \in {2^k : k \in 0..13} : n >= job.max}
  OBVIOUS
<1>2. S \subseteq Nat \ {0} /\ S # {}
  BY ONLY <1>1, MorePowers, JobsAssumption
<1>3. PICK m \in S : \A y \in S : m <= y
  <2>1. S \subseteq Nat
    BY ONLY <1>2
  <2>2. QED
    BY ONLY <1>2, <2>1, SFP!LeastMember
<1>4. Min(S) \in S
  BY ONLY <1>3 DEF Min
<1>5. HT_size = Min(S)
  BY ONLY <1>1 DEF HT_size, lz4GetHashTableSize
<1>6. QED
  BY ONLY <1>2, <1>4, <1>5

\* Slices of different blocks have nothing in common.
LEMMA SlicesApart ==
  ASSUME NEW n \in Nat, NEW i \in Nat, NEW k \in Nat, i # k
  PROVE  Slice(i, n) \cap Slice(k, n) = {}
<1>1. ASSUME NEW x \in Nat, NEW y \in Nat, x < y, NEW a \in Slice(x, n) PROVE a \notin Slice(y, n)
  <2>1. PICK d \in Nat : d = y - 1 /\ x <= d
    BY ONLY <1>1, x \in Nat, y \in Nat
  <2>2. x * n <= d * n /\ x * n \in Nat /\ d * n \in Nat
    BY ONLY ProductLess, Product, <2>1, d \in Nat, x \in Nat, n \in Nat
  <2>3. a \in Int /\ a <= x * n - 1
    BY ONLY <2>2, a \in Slice(x, n) DEF Slice
  <2>4. a \in Slice(y, n) => d * n <= a
    BY ONLY <2>1 DEF Slice
  <2>5. QED
    BY ONLY <2>2, <2>3, <2>4
<1>2. i < k \/ k < i
  BY ONLY i \in Nat, k \in Nat, i # k
<1>3. QED
  BY ONLY <1>1, <1>2, i \in Nat, k \in Nat

\* Once a compression is queued, slices lie in the scratch buffer.
LEMMA SliceFits ==
  ASSUME HostOK, job.format = "lz4", Queued > 0, NEW i \in Chunks, NEW a \in Slice(i, HT_size)
  PROVE  /\ a \in 0 .. ScratchBytes \div OffsetBytes /\ a # ScratchBytes \div OffsetBytes
         /\ ~ (a * OffsetBytes >= asked.temp - job.short)
<1>1. PICK n \in Nat \ {0} : n = HT_size
  BY TableSize
<1>2. scratch_bytes(job.max, Len(job.chunks)) <= asked.temp - job.short /\ TempSize.code = Success
  BY DEF HostOK, AskedInv, Queued
<1>3. job.max <= MaxChunkSize /\ job.max \in Nat /\ job.short \in Nat /\ job.chunks \in Seq(Seq(Nat))
  <2>1. job \in Job
    BY JobOK
  <2>2. job.max \in Nat /\ job.short \in Nat /\ job.chunks \in Seq(Seq(Nat))
    BY ONLY <2>1 DEF Job
  <2>3. lz4BatchCompressComputeTempSize # Throws
    BY <1>2 DEF TempSize, LZ4GetTempSize, exception_to_error, Success, InvalidValue
  <2>4. QED
    BY <2>2, <2>3, JobsAssumption DEF lz4BatchCompressComputeTempSize
<1>4. scratch_bytes(job.max, Len(job.chunks)) <= ScratchBytes
  BY <1>3, JobOK
<1>5. PICK L \in Nat : L = Len(job.chunks) /\ i \in 1 .. L
  BY ONLY <1>3, i \in Chunks DEF Chunks
<1>6. PICK x \in Nat, y \in Nat : x = i * n /\ y = L * n /\ x <= y
  <2>1. i * n \in Nat /\ L * n \in Nat /\ i * n <= L * n
    BY ONLY ProductLess, Product, <1>5, L \in Nat, n \in Nat \ {0}
  <2>2. QED
    BY ONLY <2>1
<1>7. PICK s \in Nat : s = scratch_bytes(job.max, Len(job.chunks)) /\ s = 2 * y
  <2>1. scratch_bytes(job.max, Len(job.chunks)) = n * 2 * L
    BY ONLY <1>1, <1>5 DEF scratch_bytes, HT_size, OffsetBytes
  <2>2. n * 2 * L = 2 * (L * n)
    BY ONLY n \in Nat \ {0}, L \in Nat
  <2>3. 2 * y \in Nat
    BY ONLY y \in Nat
  <2>4. QED
    BY ONLY <1>6, <2>1, <2>2, <2>3
<1>8. PICK w \in Nat : w = (i - 1) * n
  <2>1. PICK d \in Nat : d = i - 1
    BY ONLY <1>5, L \in Nat
  <2>2. d * n \in Nat
    BY ONLY Product, d \in Nat, n \in Nat \ {0}
  <2>3. QED
    BY ONLY <2>1, <2>2
<1>9. a \in Nat /\ a < y
  BY ONLY <1>1, <1>6, <1>8, w \in Nat, x \in Nat, y \in Nat, a \in Slice(i, HT_size) DEF Slice
<1>10. PICK B \in Nat : B = ScratchBytes /\ s <= B
  BY ONLY <1>4, <1>7, JobsAssumption
<1>11. PICK t \in Int : t = asked.temp - job.short /\ s <= t
  <2>1. asked.temp \in Nat
    BY DEF HostOK
  <2>2. QED
    BY ONLY <1>2, <1>3, <1>7, <2>1
<1>12. a \in 0 .. B \div 2 /\ a # B \div 2
  BY ONLY <1>7, <1>9, <1>10, a \in Nat, B \in Nat, s \in Nat, y \in Nat
<1>13. ~ (a * 2 >= t)
  BY ONLY <1>7, <1>9, <1>11, s \in Nat, y \in Nat, t \in Int
<1>14. QED
  BY ONLY <1>10, <1>11, <1>12, <1>13 DEF OffsetBytes

\* Nothing is queued at first.
LEMMA InitBatch == Init => BatchInv
<1>. SUFFICES ASSUME Init PROVE BatchInv
  OBVIOUS
<1>1. /\ job \in Jobs /\ Queued = 0 /\ stream = << >>
      /\ call \in {"sizes", "compress", "query", "decompress"} /\ (job.format # "ans" => call = "sizes")
  BY DEF Init, Queued
<1>2. asked.temp = 0 /\ asked.max = 0 /\ lastError = FALSE /\ code = Success
  BY DEF Init
<1>3. HostOK
  <2>1. AskedInv
    BY ONLY <1>1, <1>2 DEF AskedInv
  <2>2. call \in {"sizes", "compress", "query", "decompress", "done", "stopped"}
        /\ (job.format = "ans" => call # "done")
    BY ONLY <1>1
  <2>3. asked.temp \in Nat /\ asked.max \in Nat
    <3>1. asked.temp = 0 /\ asked.max = 0
      BY ONLY <1>2
    <3>2. QED
      BY ONLY <3>1
  <2>5. lastError \in BOOLEAN /\ code \in {Success, InvalidValue, NotSupported}
    BY ONLY <1>2, Zenon
  <2>4. QED
    BY ONLY <1>1, <1>2, <2>1, <2>2, <2>3, <2>5 DEF HostOK
<1>4. StreamOK
  <2>1. Ordered(<< >>, 0, Plan, Chunks)
    <3>1. << >> \in Seq([op : Opcode, blocks : SUBSET Chunks]) /\ Len(<< >>) = 0
      OBVIOUS
    <3>2. QED
      BY ONLY <3>1 DEF Ordered
  <2>2. QED
    BY ONLY <1>1, <1>2, <2>1 DEF StreamOK
<1>5. TempOK
  <2>1. PICK D : D = 0 .. ScratchBytes \div OffsetBytes /\ ScratchBytes \div OffsetBytes \in D
    <3>1. ScratchBytes \div 2 \in 0 .. ScratchBytes \div 2
      BY ONLY JobsAssumption
    <3>2. QED
      BY ONLY <3>1 DEF OffsetBytes
  <2>2. PICK left \in {NULL_OFFSET, 0} : temp = [a \in D |-> left]
    BY <2>1 DEF Init
  <2>3. left \in 0 .. MAX_OFFSET
    BY ONLY Lz4Parameters, left \in {NULL_OFFSET, 0} DEF NULL_OFFSET, MAX_OFFSET, OffsetRange
  <2>4. temp \in [D -> 0 .. MAX_OFFSET]
    BY ONLY <2>2, <2>3
  <2>5. TempInv
    BY ONLY <2>1, <2>2 DEF TempInv
  <2>6. QED
    BY ONLY <2>1, <2>4, <2>5 DEF TempOK
<1>6. BuffersOK
  BY DEF Init, BuffersOK
<1>7. ASSUME NEW i \in Chunks
      PROVE  ChunkOK(job, asked.max, Ops, Through(i), HT_size, Table(i), i, warp[i],
                     comp[i], compBytes[i], sizes[i], out[i], actual[i], statuses[i])
  <2>1. "compress" \notin Through(i) /\ "query" \notin Through(i) /\ "decompress" \notin Through(i)
        /\ "convert" \notin Through(i) /\ typed(job.T) \notin Through(i)
    BY ONLY <1>1 DEF Through, DoneOps, DueOps
  <2>2. /\ warp[i] = NoWarp /\ comp[i] = << >> /\ compBytes[i] = Unwritten /\ sizes[i] = Unwritten
        /\ actual[i] = Unwritten /\ statuses[i] = "unwritten"
    BY DEF Init
  <2>3. WarpOK(job, Ops, Through(i), HT_size, Table(i), i, warp[i])
    BY ONLY <2>2 DEF WarpOK
  <2>4. StoredOK(job, asked.max, Through(i), i, comp[i], compBytes[i])
    <3>1. Len(<< >>) = 0
      OBVIOUS
    <3>2. QED
      BY ONLY <1>2, <2>1, <2>2, <3>1 DEF StoredOK
  <2>5. SizeOK(job, Through(i), i, sizes[i])
    BY ONLY <2>1, <2>2 DEF SizeOK
  <2>6. AnswerOK(job, Through(i), i, out[i], actual[i], statuses[i])
    BY ONLY <2>1, <2>2 DEF AnswerOK, Fresh
  <2>7. QED
    BY ONLY <2>3, <2>4, <2>5, <2>6 DEF ChunkOK
<1>8. QED
  BY ONLY <1>3, <1>4, <1>5, <1>6, <1>7 DEF BatchInv, ChunksOK

-----------------------------------------------------------------------------
(* A block that ends. *)

\* Block i is through with op, and the calls are where they were.
Ended(op, i) ==
  /\ job' = job /\ call' = call /\ code' = code /\ asked' = asked /\ lastError' = lastError
  /\ Queued' = Queued /\ Plan' = Plan /\ HT_size' = HT_size /\ Chunks' = Chunks /\ Ops' = Ops
  /\ HostOK' /\ StreamOK'
  /\ op \in Ops /\ op \notin Through(i) /\ Through(i)' = Through(i) \cup {op}
  /\ \A k \in Chunks : k # i => Through(k)' = Through(k)

\* The calls stay where they are as long as no host steps.
LEMMA HostStays ==
  ASSUME HostOK, job' = job, UNCHANGED host
  PROVE  /\ call' = call /\ code' = code /\ asked' = asked /\ lastError' = lastError
         /\ Queued' = Queued /\ Plan' = Plan /\ HT_size' = HT_size /\ Chunks' = Chunks /\ HostOK'
<1>1. call' = call /\ code' = code /\ asked' = asked /\ lastError' = lastError
  BY DEF host
<1>2. Queued' = Queued
  BY <1>1 DEF Queued, Plan
<1>3. Plan' = Plan
  BY DEF Plan
<1>4. HT_size' = HT_size /\ Chunks' = Chunks
  BY DEF HT_size, Chunks
<1>5. AskedInv'
  <2>1. AskedInv
    BY DEF HostOK
  <2>2. TempSize' = TempSize /\ MaxOutputChunkSize' = MaxOutputChunkSize
    BY ONLY job' = job
       DEF TempSize, LZ4GetTempSize, SnappyGetTempSize, CascadedGetTempSize, GdeflateGetTempSize,
           BitcompGetTempSize, ANSGetTempSize, lz4BatchCompressComputeTempSize,
           MaxOutputChunkSize, LZ4GetMaxOutputChunkSize, SnappyGetMaxOutputChunkSize,
           CascadedGetMaxOutputChunkSize, GdeflateGetMaxOutputChunkSize,
           BitcompGetMaxOutputChunkSize, ANSGetMaxOutputChunkSize, lz4ComputeMaxSize,
           getGdeflateEnumFromFormatOpts
  <2>3. QED
    BY ONLY <1>1, <1>2, <2>1, <2>2, job' = job DEF AskedInv
<1>6. HostOK'
  BY ONLY <1>1, <1>5, HostOK, job' = job DEF HostOK
<1>7. QED
  BY ONLY <1>1, <1>2, <1>3, <1>4, <1>6

\* What an action does that finishes a block.
LEMMA BlockEnds ==
  ASSUME HostOK, StreamOK, NEW op, NEW i \in Chunks, Running(op, i), Finish(i),
         job' = job, UNCHANGED host
  PROVE  Ended(op, i)
<1>1. /\ call' = call /\ code' = code /\ asked' = asked /\ lastError' = lastError
      /\ Queued' = Queued /\ Plan' = Plan /\ HT_size' = HT_size /\ Chunks' = Chunks /\ HostOK'
  BY HostStays
<1>2. stream # << >> /\ Head(stream).op = op /\ i \in Head(stream).blocks
  BY DEF Running
<1>3. stream' = After(stream, i)
  BY DEF Finish, After
<1>4. Len(Plan) \in Nat /\ Distinct(Plan) /\ Queued \in Nat /\ Queued <= Len(Plan)
  BY PlanOK
<1>5. Ordered(stream, Queued, Plan, Chunks)
  BY DEF StreamOK
<1>a. OneThrough(stream, Queued, Plan, Chunks, i)
  BY ONLY FinishDone, <1>2, <1>4, <1>5, Zenon
<1>6. /\ Ordered(After(stream, i), Queued, Plan, Chunks)
      /\ DoneOps(After(stream, i), Queued, Plan, i) = DoneOps(stream, Queued, Plan, i) \cup {Head(stream).op}
      /\ Head(stream).op \in DueOps(Queued, Plan) /\ Head(stream).op \notin DoneOps(stream, Queued, Plan, i)
      /\ \A j : j # i => DoneOps(After(stream, i), Queued, Plan, j) = DoneOps(stream, Queued, Plan, j)
  BY ONLY <1>a DEF OneThrough
<1>7. Ops' = Ops
  BY ONLY <1>1 DEF Ops
<1>8. \A k : Through(k)' = DoneOps(After(stream, i), Queued, Plan, k)
  BY ONLY <1>1, <1>3 DEF Through
<1>9. op \in Ops /\ op \notin Through(i) /\ Through(i)' = Through(i) \cup {op}
  BY ONLY <1>2, <1>6, <1>8 DEF Ops, Through
<1>10. \A k \in Chunks : k # i => Through(k)' = Through(k)
  BY ONLY <1>6, <1>8 DEF Through
<1>11. StreamOK'
  <2>1. Ordered(stream, Queued, Plan, Chunks)'
    BY ONLY <1>1, <1>3, <1>6
  <2>2. Chunks' # {} /\ ~ lastError'
    BY <1>1 DEF StreamOK
  <2>3. QED
    BY ONLY <2>1, <2>2 DEF StreamOK
<1>12. QED
  BY ONLY <1>1, <1>7, <1>9, <1>10, <1>11, job' = job DEF Ended

\* Only the values of chunk i are other ones.
Alone(i) ==
  \A k \in Chunks : k # i =>
     /\ Table(k)' = Table(k) /\ warp'[k] = warp[k] /\ comp'[k] = comp[k] /\ compBytes'[k] = compBytes[k]
     /\ sizes'[k] = sizes[k] /\ out'[k] = out[k] /\ actual'[k] = actual[k] /\ statuses'[k] = statuses[k]

\* A block that ends keeps the invariant if it does so for its own chunk.
LEMMA EndedInv ==
  ASSUME BatchInv, NEW op, NEW i \in Chunks, Ended(op, i), TempOK', BuffersOK', Alone(i),
         ChunkOK(job, asked.max, Ops, Through(i) \cup {op}, HT_size, Table(i)', i, warp'[i],
                 comp'[i], compBytes'[i], sizes'[i], out'[i], actual'[i], statuses'[i])
  PROVE  BatchInv'
<1>1. ASSUME NEW k \in Chunks
      PROVE  ChunkOK(job', asked'.max, Ops', Through(k)', HT_size', Table(k)', k, warp'[k],
                     comp'[k], compBytes'[k], sizes'[k], out'[k], actual'[k], statuses'[k])
  <2>1. job' = job /\ asked' = asked /\ Ops' = Ops /\ HT_size' = HT_size
    BY ONLY Ended(op, i) DEF Ended
  <2>2. CASE k = i
    <3>1. Through(k)' = Through(i) \cup {op}
      BY ONLY <2>2, Ended(op, i) DEF Ended
    <3>2. Table(k)' = Table(i)'
      BY ONLY <2>2
    <3>3. QED
      BY <2>1, <2>2, <3>1, <3>2
  <2>3. CASE k # i
    <3>1. Through(k)' = Through(k)
      BY ONLY <2>3, Ended(op, i) DEF Ended
    <3>2. ChunkOK(job, asked.max, Ops, Through(k), HT_size, Table(k), k, warp[k],
                  comp[k], compBytes[k], sizes[k], out[k], actual[k], statuses[k])
      BY ONLY BatchInv DEF BatchInv, ChunksOK
    <3>3. QED
      BY ONLY <2>1, <2>3, <3>1, <3>2, Alone(i) DEF Alone
  <2>4. QED
    BY ONLY <2>2, <2>3
<1>2. ChunksOK'
  <2>1. Chunks' = Chunks
    BY ONLY Ended(op, i) DEF Ended
  <2>2. QED
    BY ONLY <1>1, <2>1 DEF ChunksOK
<1>3. QED
  BY ONLY <1>2, Ended(op, i), TempOK', BuffersOK' DEF BatchInv, Ended

\* What runs is in the plan: what is in front of it is through for every chunk,
\* and what is behind it is through for none.
LEMMA Before ==
  ASSUME BatchInv, NEW op, NEW i, Running(op, i)
  PROVE  \E b \in 1 .. Len(Plan) :
            /\ Plan[b] = op
            /\ \A a \in 1 .. Len(Plan) : \A k \in Chunks : /\ a < b => Plan[a] \in Through(k)
                                                           /\ b < a => Plan[a] \notin Through(k)
<1>1. stream # << >> /\ Head(stream).op = op
  BY DEF Running
<1>2. Len(Plan) \in Nat /\ Distinct(Plan) /\ Queued \in Nat /\ Queued <= Len(Plan)
  BY PlanOK DEF BatchInv
<1>3. Ordered(stream, Queued, Plan, Chunks)
  BY DEF BatchInv, StreamOK
<1>4. PICK b \in 1 .. Len(Plan) : Plan[b] = Head(stream).op
  <2>1. PICK n \in Nat \ {0} : n = Len(stream)
    BY ONLY <1>1, <1>3 DEF Ordered
  <2>2. n <= Queued /\ Head(stream) = stream[1] /\ stream[1].op = Plan[Queued - n + 1]
    <3>1. 1 \in 1 .. n
      BY ONLY n \in Nat \ {0}
    <3>2. QED
      BY ONLY <1>3, <2>1, <3>1 DEF Ordered
  <2>3. Queued - n + 1 \in 1 .. Len(Plan)
    BY ONLY <1>2, <2>2, n \in Nat \ {0}
  <2>4. QED
    BY ONLY <2>2, <2>3
<1>5. ASSUME NEW a \in 1 .. Len(Plan), NEW k \in Chunks
      PROVE  /\ a < b => Plan[a] \in DoneOps(stream, Queued, Plan, k)
             /\ b < a => Plan[a] \notin DoneOps(stream, Queued, Plan, k)
  BY ONLY InOrder, <1>1, <1>2, <1>3, <1>4, a \in 1 .. Len(Plan), b \in 1 .. Len(Plan), k \in Chunks, Zenon
<1>6. QED
  BY ONLY <1>1, <1>4, <1>5, b \in 1 .. Len(Plan) DEF Through

\* The same for the operations by name.
LEMMA QueryInOrder ==
  ASSUME BatchInv, NEW i, Running("query", i), NEW k \in Chunks
  PROVE  "compress" \in Through(k)
<1>1. PICK b \in 1 .. Len(Plan) :
            /\ Plan[b] = "query"
            /\ \A a \in 1 .. Len(Plan) : \A h \in Chunks : /\ a < b => Plan[a] \in Through(h)
                                                           /\ b < a => Plan[a] \notin Through(h)
  BY Before
<1>2. 1 \in 1 .. Len(Plan) /\ 1 < b /\ Plan[1] = "compress"
  BY ONLY <1>1, b \in 1 .. Len(Plan) DEF Plan
<1>3. QED
  BY ONLY <1>1, <1>2, k \in Chunks

\* A block that decompresses finds its chunk compressed, and nothing translated yet.
LEMMA DecompressInOrder ==
  ASSUME BatchInv, NEW i, Running("decompress", i), NEW k \in Chunks
  PROVE  /\ "compress" \in Through(k) /\ job.format \notin {"ans", "cascaded"}
         /\ job.format \in Libraries => "convert" \notin Through(k)
         /\ job.format = "bitcomp" => "actual" \notin Through(k)
<1>1. PICK b \in 1 .. Len(Plan) :
            /\ Plan[b] = "decompress"
            /\ \A a \in 1 .. Len(Plan) : \A h \in Chunks : /\ a < b => Plan[a] \in Through(h)
                                                           /\ b < a => Plan[a] \notin Through(h)
  BY Before
<1>2. /\ 1 \in 1 .. Len(Plan) /\ 1 < b /\ Plan[1] = "compress"
      /\ job.format \notin {"ans", "cascaded"}
      /\ job.format = "gdeflate" => 4 \in 1 .. Len(Plan) /\ b < 4 /\ Plan[4] = "convert"
      /\ job.format = "bitcomp" => /\ 4 \in 1 .. Len(Plan) /\ b < 4 /\ Plan[4] = "actual"
                                   /\ 5 \in 1 .. Len(Plan) /\ b < 5 /\ Plan[5] = "convert"
  BY ONLY <1>1, b \in 1 .. Len(Plan) DEF Plan
<1>3. QED
  BY ONLY <1>1, <1>2, k \in Chunks DEF Libraries

\* One that tells the sizes comes between the decompression and the translation.
LEMMA ActualInOrder ==
  ASSUME BatchInv, NEW i, Running("actual", i), NEW k \in Chunks
  PROVE  /\ job.format = "bitcomp" /\ "compress" \in Through(k) /\ "decompress" \in Through(k)
         /\ "convert" \notin Through(k)
<1>1. PICK b \in 1 .. Len(Plan) :
            /\ Plan[b] = "actual"
            /\ \A a \in 1 .. Len(Plan) : \A h \in Chunks : /\ a < b => Plan[a] \in Through(h)
                                                           /\ b < a => Plan[a] \notin Through(h)
  BY Before
<1>2. /\ 1 \in 1 .. Len(Plan) /\ 1 < b /\ Plan[1] = "compress" /\ job.format = "bitcomp"
      /\ 3 \in 1 .. Len(Plan) /\ 3 < b /\ Plan[3] = "decompress"
      /\ 5 \in 1 .. Len(Plan) /\ b < 5 /\ Plan[5] = "convert"
  BY ONLY <1>1, b \in 1 .. Len(Plan) DEF Plan
<1>3. QED
  BY ONLY <1>1, <1>2, k \in Chunks

\* One that translates comes behind both.
LEMMA ConvertInOrder ==
  ASSUME BatchInv, NEW i, Running("convert", i), NEW k \in Chunks
  PROVE  /\ job.format \in Libraries /\ "decompress" \in Through(k)
         /\ job.format = "bitcomp" => "actual" \in Through(k)
<1>1. PICK b \in 1 .. Len(Plan) :
            /\ Plan[b] = "convert"
            /\ \A a \in 1 .. Len(Plan) : \A h \in Chunks : /\ a < b => Plan[a] \in Through(h)
                                                           /\ b < a => Plan[a] \notin Through(h)
  BY Before
<1>2. /\ job.format \in Libraries /\ 3 \in 1 .. Len(Plan) /\ 3 < b /\ Plan[3] = "decompress"
      /\ job.format = "bitcomp" => 4 \in 1 .. Len(Plan) /\ 4 < b /\ Plan[4] = "actual"
  BY ONLY <1>1, b \in 1 .. Len(Plan) DEF Plan, Libraries
<1>3. QED
  BY ONLY <1>1, <1>2, k \in Chunks

\* A cascaded block that decompresses finds its chunk compressed.
LEMMA TypedInOrder ==
  ASSUME BatchInv, NEW i, NEW T \in {1, 2, 4, 8}, Running(typed(T), i), NEW k \in Chunks
  PROVE  job.format = "cascaded" /\ "compress" \in Through(k)
<1>1. PICK b \in 1 .. Len(Plan) :
            /\ Plan[b] = typed(T)
            /\ \A a \in 1 .. Len(Plan) : \A h \in Chunks : /\ a < b => Plan[a] \in Through(h)
                                                           /\ b < a => Plan[a] \notin Through(h)
  BY Before
<1>2. typed(T) \in {"typed1", "typed2", "typed4", "typed8"}
  BY ONLY T \in {1, 2, 4, 8} DEF typed
<1>3. /\ 1 \in 1 .. Len(Plan) /\ 1 < b /\ Plan[1] = "compress" /\ job.format = "cascaded"
  BY ONLY <1>1, <1>2, b \in 1 .. Len(Plan) DEF Plan
<1>4. QED
  BY ONLY <1>1, <1>3, k \in Chunks

\* Size and room as the model names them.
LEMMA SizesHere ==
  ASSUME NEW i
  PROVE  Size(i) = SizeOf(job, i) /\ room(i) = RoomOf(job, i)
BY DEF Size, SizeOf, Width, room, RoomOf

\* The size of a chunk is a number, and its room one that is not below 0.
LEMMA SizeAndRoom ==
  ASSUME HostOK, NEW i \in Chunks
  PROVE  /\ SizeOf(job, i) \in Nat /\ RoomOf(job, i) \in Nat /\ job.max \in Nat
         /\ SizeOf(job, i) <= job.max /\ job.max <= UINT_MAX
         /\ job.chunks[i] \in Seq(Nat) /\ Len(job.chunks[i]) \in Nat
         /\ job.format # "cascaded" => SizeOf(job, i) = Len(job.chunks[i])
<1>1. /\ job \in Job /\ job.max <= UINT_MAX /\ SizeOf(job, i) <= job.max /\ job.chunks[i] \in Seq(Nat)
  BY JobOK
<1>2. job.max \in Nat /\ job.spare \in Int /\ job.T \in {1, 2, 4, 8}
  BY ONLY <1>1 DEF Job
<1>3. PICK n \in Nat, U \in Nat : n = Len(job.chunks[i]) /\ U = IF job.format = "cascaded" THEN job.T ELSE 1
  <2>1. Len(job.chunks[i]) \in Nat
    BY ONLY <1>1
  <2>2. (IF job.format = "cascaded" THEN job.T ELSE 1) \in Nat
    BY ONLY <1>2
  <2>3. QED
    BY ONLY <2>1, <2>2
<1>4. PICK s \in Nat : s = SizeOf(job, i) /\ s = n * U
  <2>1. n * U \in Nat
    BY ONLY Product, n \in Nat, U \in Nat
  <2>2. QED
    BY ONLY <1>3, <2>1 DEF SizeOf
<1>5. job.format # "cascaded" => s = n
  BY ONLY <1>3, <1>4, n \in Nat
<1>6. RoomOf(job, i) \in Nat
  <2>1. PICK r \in Int : r = s + job.spare
    BY ONLY <1>2, s \in Nat
  <2>2. Max({r, 0}) \in {r, 0} /\ Max({r, 0}) >= 0
    BY ONLY MaxOfPair, r \in Int, 0 \in Int
  <2>3. Max({r, 0}) \in Nat
    BY ONLY <2>2, r \in Int
  <2>4. QED
    BY ONLY <1>4, <2>1, <2>3 DEF RoomOf
<1>7. QED
  BY ONLY <1>1, <1>2, <1>3, <1>4, <1>5, <1>6

\* What the invariant says of one chunk.
LEMMA OfChunk ==
  ASSUME BatchInv, NEW i \in Chunks
  PROVE  /\ WarpOK(job, Ops, Through(i), HT_size, Table(i), i, warp[i])
         /\ StoredOK(job, asked.max, Through(i), i, comp[i], compBytes[i])
         /\ SizeOK(job, Through(i), i, sizes[i])
         /\ AnswerOK(job, Through(i), i, out[i], actual[i], statuses[i])
BY ONLY BatchInv, i \in Chunks DEF BatchInv, ChunksOK, ChunkOK

\* A block that only answers a decompression keeps the invariant if the answer
\* is one that may be given.
LEMMA AnsweredInv ==
  ASSUME BatchInv, NEW i \in Chunks, NEW op, Running(op, i), op \notin {"compress", "query"},
         NEW a, Answered(i, a),
         AnswerOK(job, Through(i) \cup {op}, i, a.out, a.size, a.status)
  PROVE  BatchInv'
<1>1. /\ job' = job /\ UNCHANGED host /\ temp' = temp /\ warp' = warp /\ comp' = comp
      /\ compBytes' = compBytes /\ sizes' = sizes /\ Finish(i)
      /\ out' = [out EXCEPT ![i] = a.out] /\ actual' = [actual EXCEPT ![i] = a.size]
      /\ statuses' = [statuses EXCEPT ![i] = a.status]
  BY ONLY Answered(i, a) DEF Answered
<1>2. HostOK /\ StreamOK /\ TempOK /\ BuffersOK
  BY ONLY BatchInv DEF BatchInv
<1>3. Ended(op, i)
  BY ONLY BlockEnds, <1>1, <1>2, i \in Chunks, Running(op, i), Zenon
<1>4. Chunks' = Chunks /\ HT_size' = HT_size /\ asked' = asked
  BY ONLY <1>3 DEF Ended
<1>5. TempOK'
  BY ONLY <1>1, <1>2, <1>4 DEF TempOK, TempInv
<1>6. BuffersOK'
  BY ONLY <1>1, <1>2, <1>4 DEF BuffersOK
<1>7. \A k : Table(k)' = Table(k)
  BY ONLY <1>1, <1>4 DEF Table
<1>8. Alone(i)
  BY ONLY <1>1, <1>2, <1>7 DEF Alone, BuffersOK
<1>9. out'[i] = a.out /\ actual'[i] = a.size /\ statuses'[i] = a.status
  BY ONLY <1>1, <1>2, i \in Chunks DEF BuffersOK
<1>10. /\ "compress" \in Through(i) \cup {op} <=> "compress" \in Through(i)
       /\ "query" \in Through(i) \cup {op} <=> "query" \in Through(i)
  BY ONLY op \notin {"compress", "query"}
<1>11. /\ WarpOK(job, Ops, Through(i), HT_size, Table(i), i, warp[i])
       /\ StoredOK(job, asked.max, Through(i), i, comp[i], compBytes[i])
       /\ SizeOK(job, Through(i), i, sizes[i])
  BY ONLY OfChunk, BatchInv, i \in Chunks, Zenon
<1>12. /\ WarpOK(job, Ops, Through(i) \cup {op}, HT_size, Table(i)', i, warp'[i])
       /\ StoredOK(job, asked.max, Through(i) \cup {op}, i, comp'[i], compBytes'[i])
       /\ SizeOK(job, Through(i) \cup {op}, i, sizes'[i])
  <2>1. PICK more : more = Through(i) \cup {op}
    OBVIOUS
  <2>2. WarpOK(job, Ops, more, HT_size, Table(i), i, warp[i])
    BY ONLY <1>10, <1>11, <2>1 DEF WarpOK
  <2>3. StoredOK(job, asked.max, more, i, comp[i], compBytes[i])
    BY ONLY <1>10, <1>11, <2>1 DEF StoredOK
  <2>4. SizeOK(job, more, i, sizes[i])
    BY ONLY <1>10, <1>11, <2>1 DEF SizeOK
  <2>5. QED
    BY ONLY <1>1, <1>7, <2>1, <2>2, <2>3, <2>4
<1>13. ChunkOK(job, asked.max, Ops, Through(i) \cup {op}, HT_size, Table(i)', i, warp'[i],
               comp'[i], compBytes'[i], sizes'[i], out'[i], actual'[i], statuses'[i])
  BY ONLY <1>9, <1>12, AnswerOK(job, Through(i) \cup {op}, i, a.out, a.size, a.status) DEF ChunkOK
<1>14. QED
  BY ONLY EndedInv, BatchInv, i \in Chunks, <1>3, <1>5, <1>6, <1>8, <1>13, Zenon

\* The query finds the sizes.
LEMMA QueriedInv ==
  ASSUME BatchInv, NEW i \in Chunks, Running("query", i), NEW z, z = SizeOf(job, i),
         sizes' = [sizes EXCEPT ![i] = z], Finish(i),
         UNCHANGED << job, host, temp, warp, comp, compBytes, out, actual, statuses >>
  PROVE  BatchInv'
<1>1. /\ job' = job /\ UNCHANGED host /\ temp' = temp /\ warp' = warp /\ comp' = comp
      /\ compBytes' = compBytes /\ out' = out /\ actual' = actual /\ statuses' = statuses
  BY ONLY UNCHANGED << job, host, temp, warp, comp, compBytes, out, actual, statuses >>
<1>2. HostOK /\ StreamOK /\ TempOK /\ BuffersOK
  BY ONLY BatchInv DEF BatchInv
<1>3. Ended("query", i)
  BY ONLY BlockEnds, <1>1, <1>2, i \in Chunks, Running("query", i), Finish(i), Zenon
<1>4. Chunks' = Chunks /\ HT_size' = HT_size /\ asked' = asked
  BY ONLY <1>3 DEF Ended
<1>5. TempOK'
  BY ONLY <1>1, <1>2, <1>4 DEF TempOK, TempInv
<1>6. BuffersOK'
  BY ONLY <1>1, <1>2, <1>4, sizes' = [sizes EXCEPT ![i] = z] DEF BuffersOK
<1>7. \A k : Table(k)' = Table(k)
  BY ONLY <1>1, <1>4 DEF Table
<1>8. Alone(i) /\ sizes'[i] = z
  BY ONLY <1>1, <1>2, <1>7, sizes' = [sizes EXCEPT ![i] = z], i \in Chunks DEF Alone, BuffersOK
<1>11. /\ WarpOK(job, Ops, Through(i), HT_size, Table(i), i, warp[i])
       /\ StoredOK(job, asked.max, Through(i), i, comp[i], compBytes[i])
       /\ AnswerOK(job, Through(i), i, out[i], actual[i], statuses[i])
  BY ONLY OfChunk, BatchInv, i \in Chunks, Zenon
<1>12. PICK more : more = Through(i) \cup {"query"}
  OBVIOUS
<1>13. WarpOK(job, Ops, more, HT_size, Table(i), i, warp[i])
  <2>1. "compress" \in more <=> "compress" \in Through(i)
    BY ONLY <1>12
  <2>2. QED
    BY ONLY <1>11, <2>1 DEF WarpOK
<1>14. StoredOK(job, asked.max, more, i, comp[i], compBytes[i])
  <2>1. "compress" \in more <=> "compress" \in Through(i)
    BY ONLY <1>12
  <2>2. QED
    BY ONLY <1>11, <2>1 DEF StoredOK
<1>15. SizeOK(job, more, i, z)
  BY ONLY <1>12, z = SizeOf(job, i) DEF SizeOK
<1>16. AnswerOK(job, more, i, out[i], actual[i], statuses[i])
  <2>1. /\ "decompress" \in more <=> "decompress" \in Through(i)
        /\ "convert" \in more <=> "convert" \in Through(i)
        /\ "actual" \in more <=> "actual" \in Through(i)
    BY ONLY <1>12
  <2>2. job.T \in {1, 2, 4, 8}
    <3>1. job \in Job
      BY ONLY JobOK, <1>2
    <3>2. QED
      BY ONLY <3>1 DEF Job
  <2>3. typed(job.T) \in more <=> typed(job.T) \in Through(i)
    BY ONLY <1>12, <2>2 DEF typed
  <2>4. QED
    BY ONLY <1>11, <2>1, <2>3 DEF AnswerOK, Decoding
<1>17. ChunkOK(job, asked.max, Ops, Through(i) \cup {"query"}, HT_size, Table(i)', i, warp'[i],
               comp'[i], compBytes'[i], sizes'[i], out'[i], actual'[i], statuses'[i])
  BY ONLY <1>1, <1>7, <1>8, <1>12, <1>13, <1>14, <1>15, <1>16 DEF ChunkOK
<1>18. QED
  BY ONLY EndedInv, BatchInv, i \in Chunks, <1>3, <1>5, <1>6, <1>8, <1>17, Zenon

-----------------------------------------------------------------------------
(* Snappy streams. *)

\* Two pieces s and t one behind the other.
Joins(u, s, t) ==
  /\ u \in Seq(Nat) /\ Len(u) = Len(s) + Len(t)
  /\ \A k \in 1 .. Len(s) : u[k] = s[k]
  /\ \A k \in 1 .. Len(t) : u[Len(s) + k] = t[k]

\* Two sequences joined.
LEMMA Joined ==
  ASSUME NEW s \in Seq(Nat), NEW t \in Seq(Nat)
  PROVE  Joins(s \o t, s, t)
<1>1. s \o t \in Seq(Nat) /\ Len(s \o t) = Len(s) + Len(t)
  OBVIOUS
<1>2. \A k \in 1 .. Len(s) : (s \o t)[k] = s[k]
  OBVIOUS
<1>3. \A k \in 1 .. Len(t) : (s \o t)[Len(s) + k] = t[k]
  OBVIOUS
<1>4. QED
  BY <1>1, <1>2, <1>3 DEF Joins

\* A piece of a sequence.
LEMMA Piece ==
  ASSUME NEW R, NEW s \in Seq(R), NEW p \in Nat, NEW n \in Nat, p + n <= Len(s)
  PROVE  /\ SubSeq(s, p + 1, p + n) \in Seq(R) /\ Len(SubSeq(s, p + 1, p + n)) = n
         /\ \A k \in 1 .. n : SubSeq(s, p + 1, p + n)[k] = s[p + k]
<1>1. \A k \in 1 .. n : p + k \in 1 .. Len(s)
  OBVIOUS
<1>2. SubSeq(s, p + 1, p + n) = [k \in 1 .. n |-> s[p + k]]
  <2>1. p + n - (p + 1) + 1 = n /\ \A k \in 1 .. n : p + 1 + k - 1 = p + k
    OBVIOUS
  <2>2. QED
    BY <1>1, <2>1
<1>3. \A k \in 1 .. n : s[p + k] \in R
  BY <1>1
<1>4. [k \in 1 .. n |-> s[p + k]] \in [1 .. n -> R]
  BY <1>3
<1>5. PICK f : f = [k \in 1 .. n |-> s[p + k]]
  OBVIOUS
<1>6. f \in [1 .. n -> R]
  BY ONLY <1>4, <1>5
<1>7. f \in Seq(R) /\ Len(f) = n
  BY ONLY <1>6, n \in Nat
<1>8. \A k \in 1 .. n : f[k] = s[p + k]
  BY ONLY <1>5
<1>9. QED
  BY ONLY <1>2, <1>5, <1>7, <1>8

\* Sequences with the same elements.
LEMMA SameElements ==
  ASSUME NEW R, NEW s \in Seq(R), NEW t \in Seq(R), NEW n \in Nat, Len(s) = n, Len(t) = n,
         \A k \in 1 .. n : s[k] = t[k]
  PROVE  s = t
<1>1. s \in [1 .. n -> R] /\ t \in [1 .. n -> R]
  OBVIOUS
<1>2. QED
  BY ONLY <1>1, \A k \in 1 .. n : s[k] = t[k]

\* A literal's header has one to five bytes.
LEMMA LiteralHead ==
  ASSUME NEW l \in Nat
  PROVE  SF!LiteralHeader(l) \in Seq(Nat) /\ Len(SF!LiteralHeader(l)) \in 1 .. 5
<1>1. \A a \in Nat, n \in Nat \ {0} : a \div n \in Nat /\ a % n \in Nat
  BY ONLY DivMod, DivNat
<1>2. PICK b0 \in Nat, b1 \in Nat, b2 \in Nat, b3 \in Nat :
        b0 = l % 256 /\ b1 = (l \div 256) % 256 /\ b2 = (l \div 65536) % 256 /\ b3 = (l \div 16777216) % 256
  <2>1. 256 \in Nat \ {0} /\ 65536 \in Nat \ {0} /\ 16777216 \in Nat \ {0}
    BY SMT
  <2>2. l \div 256 \in Nat /\ l \div 65536 \in Nat /\ l \div 16777216 \in Nat
    BY ONLY <1>1, <2>1, l \in Nat, SMT
  <2>3. /\ l % 256 \in Nat /\ (l \div 256) % 256 \in Nat
        /\ (l \div 65536) % 256 \in Nat /\ (l \div 16777216) % 256 \in Nat
    BY ONLY <1>1, <2>1, <2>2, l \in Nat, SMT
  <2>4. QED
    BY ONLY <2>3, SMT
<1>3. PICK h \in Nat, h0 \in Nat, h1 \in Nat, h2 \in Nat, h3 \in Nat :
        h = 4 * l /\ h0 = 4 * 60 /\ h1 = 4 * 61 /\ h2 = 4 * 62 /\ h3 = 4 * 63
  BY SMT
<1>4. \/ SF!LiteralHeader(l) = << h >> \/ SF!LiteralHeader(l) = << h0, b0 >>
      \/ SF!LiteralHeader(l) = << h1, b0, b1 >> \/ SF!LiteralHeader(l) = << h2, b0, b1, b2 >>
      \/ SF!LiteralHeader(l) = << h3, b0, b1, b2, b3 >>
  BY ONLY <1>2, <1>3, SMT DEF SF!LiteralHeader
<1>5. CASE SF!LiteralHeader(l) = << h >>
  BY ONLY <1>5, h \in Nat
<1>6. CASE SF!LiteralHeader(l) = << h0, b0 >>
  BY ONLY <1>6, h0 \in Nat, b0 \in Nat
<1>7. CASE SF!LiteralHeader(l) = << h1, b0, b1 >>
  BY ONLY <1>7, h1 \in Nat, b0 \in Nat, b1 \in Nat
<1>8. CASE SF!LiteralHeader(l) = << h2, b0, b1, b2 >>
  BY ONLY <1>8, h2 \in Nat, b0 \in Nat, b1 \in Nat, b2 \in Nat
<1>9. CASE SF!LiteralHeader(l) = << h3, b0, b1, b2, b3 >>
  BY ONLY <1>9, h3 \in Nat, b0 \in Nat, b1 \in Nat, b2 \in Nat, b3 \in Nat
<1>10. QED
  BY ONLY <1>4, <1>5, <1>6, <1>7, <1>8, <1>9

\* The pieces of a stream, and what a reader finds in it.
SnapOf(s, data) ==
  /\ s \in Seq(Nat) /\ s # << >> /\ Len(s) <= 10 + Len(data)
  /\ SF!ReadSize(s) = Len(data)
  /\ SubSeq(s, Len(s) - Len(data) + 1, Len(s)) = data

\* The stream of a chunk without repetitions is read as that chunk.
LEMMA SnapStream ==
  ASSUME NEW data \in Seq(Nat), Len(data) <= SF!MaxSize
  PROVE  SnapOf(snap(data), data)
<1>1. PICK n \in Nat : n = Len(data)
  OBVIOUS
<1>2. PICK a \in Seq(Nat), x \in 1 .. 5 : a = SF!SizeBytes[n] /\ x = Len(a)
  <2>1. SFP!SizeBytes[n] \in Seq(Nat)
    <3>1. SFP!SizeBytes[n] \in Seq(SFP!Byte)
      BY ONLY SFP!SizeRecursion, n \in Nat
    <3>2. PICK t : t = SFP!SizeBytes[n]
      OBVIOUS
    <3>3. t \in Seq(0 .. 255)
      BY ONLY <3>1, <3>2 DEF SFP!Byte
    <3>4. \A R : t \in Seq(R) => Len(t) \in Nat /\ t \in [1 .. Len(t) -> R]
      OBVIOUS
    <3>a. PICK m \in Nat : m = Len(t) /\ t \in [1 .. m -> 0 .. 255]
      BY ONLY <3>3, <3>4, ZenonT(40)
    <3>5. t \in [1 .. m -> Nat]
      <4>1. ASSUME NEW k \in 1 .. m PROVE t[k] \in Nat
        <5>1. t[k] \in 0 .. 255
          BY ONLY <3>a, k \in 1 .. m
        <5>2. \A v \in 0 .. 255 : v \in Nat
          OBVIOUS
        <5>3. QED
          BY ONLY <5>1, <5>2, Zenon
      <4>2. t = [k \in 1 .. m |-> t[k]]
        BY ONLY <3>a
      <4>3. QED
        BY ONLY <4>1, <4>2
    <3>6. t \in Seq(Nat)
      BY ONLY <3>5, m \in Nat
    <3>7. QED
      BY ONLY <3>2, <3>6
  <2>2. Len(SFP!SizeBytes[n]) \in 1 .. 5
    <3>1. n <= SFP!MaxSize
      BY <1>1 DEF SF!MaxSize, SFP!MaxSize
    <3>2. QED
      BY ONLY SFP!SizeLength, <3>1, n \in Nat
  <2>3. SF!SizeBytes = SFP!SizeBytes
    BY DEF SF!SizeBytes, SFP!SizeBytes
  <2>4. QED
    BY ONLY <2>1, <2>2, <2>3
<1>3. PICK b \in Seq(Nat), y \in 0 .. 5 :
        /\ y = Len(b) /\ snap(data) = a \o (b \o data)
  <2>1. CASE data = << >>
    <3>1. << >> \in Seq(Nat) /\ Len(<< >>) = 0 /\ << >> \o << >> = << >>
      OBVIOUS
    <3>2. snap(data) = a \o << >>
      BY ONLY <1>1, <1>2, <2>1 DEF snap
    <3>3. snap(data) = a \o (<< >> \o data)
      BY ONLY <2>1, <3>1, <3>2
    <3>4. PICK b : b = << >>
      OBVIOUS
    <3>5. b \in Seq(Nat) /\ Len(b) \in 0 .. 5 /\ snap(data) = a \o (b \o data)
      BY ONLY <3>1, <3>3, <3>4
    <3>6. QED
      BY ONLY <3>5, Zenon
  <2>2. CASE data # << >>
    <3>1. PICK l \in Nat : l = n - 1
      BY ONLY <1>1, <2>2, data \in Seq(Nat), SMTT(30)
    <3>2. SF!LiteralHeader(l) \in Seq(Nat) /\ Len(SF!LiteralHeader(l)) \in 1 .. 5
      BY ONLY LiteralHead, l \in Nat
    <3>3. snap(data) = a \o (SF!LiteralHeader(l) \o data)
      BY ONLY <1>1, <1>2, <2>2, <3>1 DEF snap
    <3>4. PICK b : b = SF!LiteralHeader(l)
      OBVIOUS
    <3>5. b \in Seq(Nat) /\ Len(b) \in 0 .. 5 /\ snap(data) = a \o (b \o data)
      BY ONLY <3>2, <3>3, <3>4
    <3>6. QED
      BY ONLY <3>5, Zenon
  <2>3. QED
    BY ONLY <2>1, <2>2
<1>4. PICK t : t = b \o data
  OBVIOUS
<1>5. PICK s : s = a \o t
  OBVIOUS
<1>6. PICK z \in Nat : z = x + y
  OBVIOUS
<1>7. t \in Seq(Nat) /\ Len(t) = y + n /\ \A k \in 1 .. n : t[y + k] = data[k]
  <2>1. Joins(b \o data, b, data)
    BY ONLY Joined, data \in Seq(Nat), b \in Seq(Nat)
  <2>2. QED
    BY ONLY <1>1, <1>3, <1>4, <2>1, Zenon DEF Joins
<1>8. /\ s \in Seq(Nat) /\ Len(s) = z + n
      /\ \A k \in 1 .. x : s[k] = a[k]
      /\ \A k \in 1 .. y + n : s[x + k] = t[k]
  <2>1. t \in Seq(Nat) /\ Len(t) = y + n
    BY ONLY <1>7
  <2>2. Joins(a \o t, a, t)
    BY ONLY Joined, <2>1, a \in Seq(Nat)
  <2>3. /\ s \in Seq(Nat) /\ Len(s) = x + (y + n)
        /\ \A k \in 1 .. x : s[k] = a[k]
        /\ \A k \in 1 .. y + n : s[x + k] = t[k]
    BY ONLY <1>2, <1>5, <2>1, <2>2, Zenon DEF Joins
  <2>4. x + (y + n) = z + n
    BY ONLY <1>6, n \in Nat, y \in 0 .. 5, x \in 1 .. 5
  <2>5. QED
    BY ONLY <2>3, <2>4, Zenon
<1>9. ASSUME NEW k \in 1 .. n PROVE s[z + k] = data[k]
  <2>1. PICK h \in 1 .. y + n : h = y + k /\ z + k = x + h
    BY ONLY <1>6, n \in Nat, k \in 1 .. n, x \in 1 .. 5, y \in 0 .. 5, z \in Nat
  <2>2. QED
    BY ONLY <1>7, <1>8, <2>1, h \in 1 .. y + n, k \in 1 .. n
<1>10. SubSeq(s, z + 1, z + n) = data
  <2>1. PICK c : c = SubSeq(s, z + 1, z + n)
    OBVIOUS
  <2>2. /\ c \in Seq(Nat) /\ Len(c) = n
        /\ \A k \in 1 .. n : c[k] = s[z + k]
    <3>1. s \in Seq(Nat) /\ z + n <= Len(s)
      BY ONLY <1>8, z \in Nat, n \in Nat
    <3>2. /\ SubSeq(s, z + 1, z + n) \in Seq(Nat) /\ Len(SubSeq(s, z + 1, z + n)) = n
          /\ \A k \in 1 .. n : SubSeq(s, z + 1, z + n)[k] = s[z + k]
      BY ONLY Piece, <3>1, z \in Nat, n \in Nat, ZenonT(40)
    <3>3. QED
      BY ONLY <2>1, <3>2
  <2>3. \A k \in 1 .. n : c[k] = data[k]
    BY ONLY <1>9, <2>2, Zenon
  <2>4. c = data
    BY ONLY SameElements, <1>1, <2>2, <2>3, data \in Seq(Nat), n \in Nat, Zenon
  <2>5. QED
    BY ONLY <2>1, <2>4
<1>11. SF!ReadSize(s) = n
  <2>1. SFP!SizeBytes = SF!SizeBytes
    BY DEF SF!SizeBytes, SFP!SizeBytes
  <2>2. SFP!SizeStands(s, 0, n)
    <3>1. ASSUME NEW k \in 1 .. x PROVE s[0 + k] = a[k]
      <4>1. 0 + k = k
        BY ONLY k \in 1 .. x, x \in 1 .. 5
      <4>2. QED
        BY ONLY <1>8, <4>1, k \in 1 .. x
    <3>2. QED
      BY ONLY <1>2, <2>1, <3>1 DEF SFP!SizeStands
  <2>3. Len(SFP!SizeBytes[n]) <= Len(s)
    BY ONLY <1>2, <1>6, <1>8, <2>1, n \in Nat, x \in 1 .. 5, y \in 0 .. 5, z \in Nat
  <2>4. n <= SFP!MaxSize
    BY <1>1 DEF SF!MaxSize, SFP!MaxSize
  <2>5. SFP!ReadSize(s) = n
    <3>1. s \in Seq(Nat)
      BY ONLY <1>8
    <3>2. QED
      BY ONLY SFP!SizeRead, <2>2, <2>3, <2>4, <3>1, n \in Nat
  <2>6. SF!ReadSize(s) = SFP!ReadSize(s)
    BY DEF SF!ReadSize, SFP!ReadSize, SF!SizeError, SFP!SizeError
  <2>7. QED
    BY ONLY <2>5, <2>6
<1>12. /\ s # << >> /\ Len(s) <= 10 + n /\ Len(s) - n + 1 = z + 1
  <2>1. Len(s) = z + n /\ z >= 1 /\ z <= 10
    BY ONLY <1>6, <1>8, x \in 1 .. 5, y \in 0 .. 5
  <2>2. Len(<< >>) = 0
    OBVIOUS
  <2>3. QED
    BY ONLY <2>1, <2>2, n \in Nat, z \in Nat
<1>13. snap(data) = s
  BY ONLY <1>3, <1>4, <1>5
<1>14. SubSeq(s, Len(s) - n + 1, Len(s)) = data
  BY ONLY <1>8, <1>10, <1>12
<1>15. QED
  BY ONLY <1>1, <1>8, <1>11, <1>12, <1>13, <1>14 DEF SnapOf

-----------------------------------------------------------------------------
(* The blocks that read. *)

\* What a chunk's buffer has once its compression is through.
LEMMA StoredHere ==
  ASSUME BatchInv, NEW i \in Chunks, "compress" \in Through(i)
  PROVE  Stored(job, i, comp[i], compBytes[i]) /\ compBytes[i] \in 0 .. asked.max
<1>1. StoredOK(job, asked.max, Through(i), i, comp[i], compBytes[i])
  BY ONLY OfChunk, BatchInv, i \in Chunks, Zenon
<1>2. QED
  BY ONLY <1>1, "compress" \in Through(i) DEF StoredOK

\* The kernel of LZ4 reads its stream.
LEMMA Lz4Reads ==
  ASSUME BatchInv, NEW i \in Chunks, "compress" \in Through(i), job.format = "lz4",
         NEW buf_end \in Nat, NEW output \in BOOLEAN
  PROVE  Answers(job.chunks[i], NarrowAt(job, i), buf_end, output,
                 decompressStream(comp[i], job.align, buf_end, output))
<1>1. HostOK
  BY DEF BatchInv
<1>2. job.align \in Nat
  <2>1. job \in Job
    BY <1>1, JobOK
  <2>2. QED
    BY ONLY <2>1 DEF Job
<1>3. comp[i] \in Seq(Int) /\ Complete(comp[i], job.chunks[i], NarrowAt(job, i))
  <2>1. Stored(job, i, comp[i], compBytes[i])
    BY ONLY StoredHere, BatchInv, i \in Chunks, "compress" \in Through(i)
  <2>2. QED
    BY ONLY <2>1, job.format = "lz4" DEF Stored
<1>4. job.chunks[i] \in Seq(Int)
  <2>1. job.chunks[i] \in Seq(Nat)
    BY ONLY SizeAndRoom, <1>1, i \in Chunks, Zenon
  <2>2. PICK d : d = job.chunks[i]
    OBVIOUS
  <2>3. PICK n \in Nat : n = Len(d) /\ d \in [1 .. n -> Nat]
    BY ONLY <2>1, <2>2, SMTT(30)
  <2>4. d \in [1 .. n -> Int]
    BY ONLY <2>3
  <2>5. d \in Seq(Int)
    BY ONLY <2>4, n \in Nat
  <2>6. QED
    BY ONLY <2>2, <2>5
<1>5. QED
  BY ONLY Decompression, <1>2, <1>3, <1>4, buf_end \in Nat, output \in BOOLEAN, Zenon

\* The query of a size.
LEMMA QueryKeeps ==
  ASSUME BatchInv, NEW i \in Chunks, QueryBlock(i)
  PROVE  BatchInv'
<1>0. PICK q1, q2, q3, q4 :
        /\ q1 = decompressStream(comp[i], job.align, UINT_MAX, FALSE).size
        /\ q2 = snappy_size(comp[i]) /\ q3 = decompress_size(comp[i], compBytes[i]) /\ q4 = compBytes[i]
  OBVIOUS
<1>a. PICK z : /\ sizes' = [sizes EXCEPT ![i] = z]
               /\ z = CASE job.format = "lz4"      -> q1
                        [] job.format = "snappy"   -> q2
                        [] job.format = "cascaded" -> q3
                        [] job.format \in Libraries -> q4
  BY ONLY QueryBlock(i), <1>0 DEF QueryBlock
<1>1. /\ sizes' = [sizes EXCEPT ![i] = z]
      /\ job.format = "lz4" => z = q1
      /\ job.format = "snappy" => z = q2
      /\ job.format = "cascaded" => z = q3
      /\ job.format \in Libraries => z = q4
  BY ONLY <1>a DEF Libraries
<1>2. /\ Running("query", i) /\ Finish(i)
      /\ UNCHANGED << job, host, temp, warp, comp, compBytes, out, actual, statuses >>
  BY ONLY QueryBlock(i) DEF QueryBlock
<1>3. HostOK
  BY DEF BatchInv
<1>4. "compress" \in Through(i)
  BY ONLY QueryInOrder, BatchInv, <1>2, i \in Chunks
<1>5. Stored(job, i, comp[i], compBytes[i])
  BY ONLY StoredHere, BatchInv, i \in Chunks, <1>4
<1>6. /\ SizeOf(job, i) \in Nat /\ SizeOf(job, i) <= job.max /\ job.max <= UINT_MAX /\ job.max \in Nat
      /\ job.chunks[i] \in Seq(Nat) /\ Len(job.chunks[i]) \in Nat
      /\ job.format # "cascaded" => SizeOf(job, i) = Len(job.chunks[i])
  BY ONLY SizeAndRoom, <1>3, i \in Chunks
<1>7. job.format \in Formats \ {"ans"}
  <2>1. job.format \in Formats
    <3>1. job \in Job
      BY ONLY JobOK, <1>3
    <3>2. QED
      BY ONLY <3>1 DEF Job
  <2>2. job.format # "ans"
    <3>1. stream # << >>
      BY ONLY <1>2 DEF Running
    <3>2. Len(stream) <= Queued /\ stream \in Seq([op : Opcode, blocks : SUBSET Chunks])
      BY ONLY BatchInv DEF BatchInv, StreamOK, Ordered
    <3>3. Queued # 0
      BY ONLY <3>1, <3>2
    <3>4. QED
      BY ONLY <3>3 DEF Queued
  <2>3. QED
    BY ONLY <2>1, <2>2
<1>8. CASE job.format = "lz4"
  <2>1. UINT_MAX \in Nat /\ FALSE \in BOOLEAN
    BY SMT DEF UINT_MAX
  <2>2. PICK r : r = decompressStream(comp[i], job.align, UINT_MAX, FALSE)
    OBVIOUS
  <2>3. Answers(job.chunks[i], NarrowAt(job, i), UINT_MAX, FALSE, r)
    BY ONLY Lz4Reads, BatchInv, i \in Chunks, <1>4, <1>8, <2>1, <2>2, Zenon
  <2>4. r.size = Len(job.chunks[i])
    <3>1. PICK u \in Nat : u = UINT_MAX
      BY ONLY <2>1
    <3>2. ~ (u < Len(job.chunks[i]))
      BY ONLY <1>6, <1>8, <3>1, u \in Nat
    <3>3. QED
      BY ONLY <2>3, <3>1, <3>2 DEF Answers
  <2>5. z = r.size
    BY ONLY <1>0, <1>1, <1>8, <2>2
  <2>6. z = SizeOf(job, i)
    BY ONLY <1>6, <1>8, <2>4, <2>5
  <2>7. QED
    BY ONLY QueriedInv, BatchInv, i \in Chunks, <1>1, <1>2, <2>6
<1>9. CASE job.format = "snappy"
  <2>1. SnapOf(comp[i], job.chunks[i])
    <3>1. Len(job.chunks[i]) <= SF!MaxSize
      BY ONLY <1>6, <1>9 DEF UINT_MAX, SF!MaxSize
    <3>2. SnapOf(snap(job.chunks[i]), job.chunks[i])
      BY ONLY SnapStream, <1>6, <3>1
    <3>3. QED
      BY ONLY <1>5, <1>9, <3>2 DEF Stored
  <2>2. PICK n \in Nat : n = Len(job.chunks[i])
    BY ONLY <1>6
  <2>3. snappy_size(comp[i]) = Max({n, 0})
    BY ONLY <2>1, <2>2 DEF snappy_size, SnapOf
  <2>4. Max({n, 0}) \in {n, 0} /\ Max({n, 0}) >= n
    BY ONLY MaxOfPair, n \in Int, 0 \in Int, n \in Nat
  <2>5. Max({n, 0}) = n
    BY ONLY <2>4, n \in Nat
  <2>6. z = SizeOf(job, i)
    BY ONLY <1>0, <1>1, <1>6, <1>9, <2>2, <2>3, <2>5
  <2>7. QED
    BY ONLY QueriedInv, BatchInv, i \in Chunks, <1>1, <1>2, <2>6
<1>10. CASE job.format = "cascaded"
  <2>1. Header(job, i, comp[i], compBytes[i])
    BY ONLY <1>5, <1>10 DEF Stored
  <2>2. z = decompress_size(comp[i], compBytes[i])
    BY ONLY <1>0, <1>1, <1>10
  <2>3. z = SizeOf(job, i)
    <3>1. CASE SizeOf(job, i) = 0
      BY ONLY <2>1, <2>2, <3>1 DEF Header, decompress_size, Metadata
    <3>2. CASE SizeOf(job, i) # 0
      <4>1. PICK b \in Nat : b = compBytes[i] /\ Metadata <= b /\ Fetch(comp[i], 4, 4) = SizeOf(job, i)
        BY ONLY <2>1, <3>2 DEF Header
      <4>2. ~ (b < Metadata)
        BY ONLY <4>1, b \in Nat DEF Metadata
      <4>3. QED
        BY ONLY <2>2, <4>1, <4>2 DEF decompress_size
    <3>3. QED
      BY ONLY <3>1, <3>2
  <2>4. QED
    BY ONLY QueriedInv, BatchInv, i \in Chunks, <1>1, <1>2, <2>3
<1>11. CASE job.format \in Libraries
  <2>1. z = SizeOf(job, i)
    BY ONLY <1>0, <1>1, <1>5, <1>11 DEF Stored, Libraries
  <2>2. QED
    BY ONLY QueriedInv, BatchInv, i \in Chunks, <1>1, <1>2, <2>1
<1>12. QED
  BY ONLY <1>7, <1>8, <1>9, <1>10, <1>11 DEF Formats

\* A block that decompresses a chunk of LZ4 keeps the invariant.
LEMMA Lz4DecompressKeeps ==
  ASSUME BatchInv, NEW i \in Chunks, Lz4DecompressBlock(i)
  PROVE  BatchInv'
<1>1. PICK a : a = decompressStream(comp[i], job.align, room(i), TRUE) /\ Answered(i, a)
  BY ONLY Lz4DecompressBlock(i) DEF Lz4DecompressBlock
<1>2. Running("decompress", i) /\ job.format = "lz4"
  BY ONLY Lz4DecompressBlock(i) DEF Lz4DecompressBlock
<1>3. HostOK
  BY DEF BatchInv
<1>4. "compress" \in Through(i)
  BY ONLY DecompressInOrder, BatchInv, <1>2, i \in Chunks
<1>5. PICK d \in Nat, x \in Nat : /\ d = Len(job.chunks[i]) /\ d = SizeOf(job, i)
                                  /\ x = RoomOf(job, i)
  BY ONLY SizeAndRoom, <1>2, <1>3, i \in Chunks
<1>6. Answers(job.chunks[i], NarrowAt(job, i), x, TRUE, a)
  <2>1. room(i) = x
    BY ONLY SizesHere, <1>5
  <2>2. QED
    BY ONLY Lz4Reads, BatchInv, i \in Chunks, <1>1, <1>2, <1>4, <2>1, x \in Nat, Zenon
<1>7. Answering(job, i, a.out, a.size, a.status)
  <2>1. CASE x < d
    <3>1. a.status = CannotDecompress /\ a.size = 0 /\ Len(a.out) <= x
      BY ONLY <1>5, <1>6, <2>1 DEF Answers, CannotDecompress
    <3>2. Right(job, i, a.out, a.size, a.status)
      BY ONLY <1>2, <1>5, <2>1, <3>1 DEF Right
    <3>3. a.status \in Statuses /\ a.size # Unwritten
      BY ONLY <3>1 DEF Statuses, Unwritten
    <3>4. QED
      BY ONLY <3>2, <3>3 DEF Answering
  <2>2. CASE ~ (x < d)
    <3>1. a.status = Success /\ a.size = d /\ (NarrowAt(job, i) => a.out = job.chunks[i])
      BY ONLY <1>5, <1>6, <2>2 DEF Answers, Success
    <3>2. NarrowAt(job, i) => Right(job, i, a.out, a.size, a.status)
      BY ONLY <1>5, <2>2, <3>1 DEF Right
    <3>3. a.status \in Statuses /\ a.size # Unwritten
      BY ONLY <3>1, d \in Nat DEF Statuses, Unwritten
    <3>4. QED
      BY ONLY <1>2, <3>2, <3>3 DEF Answering
  <2>3. QED
    BY ONLY <2>1, <2>2
<1>8. AnswerOK(job, Through(i) \cup {"decompress"}, i, a.out, a.size, a.status)
  <2>1. PICK more : more = Through(i) \cup {"decompress"} /\ "decompress" \in more
    OBVIOUS
  <2>2. AnswerOK(job, more, i, a.out, a.size, a.status)
    BY ONLY <1>2, <1>7, <2>1 DEF AnswerOK, Libraries
  <2>3. QED
    BY ONLY <2>1, <2>2
<1>9. "decompress" \notin {"compress", "query"}
  OBVIOUS
<1>10. QED
  BY ONLY AnsweredInv, BatchInv, i \in Chunks, <1>1, <1>2, <1>8, <1>9

\* What runs for a chunk is not through for it.
LEMMA RunsNotThrough ==
  ASSUME HostOK, StreamOK, NEW op, NEW i \in Chunks, Running(op, i)
  PROVE  op \in Ops /\ op \notin Through(i)
<1>1. stream # << >> /\ Head(stream).op = op /\ i \in Head(stream).blocks
  BY DEF Running
<1>2. Len(Plan) \in Nat /\ Distinct(Plan) /\ Queued \in Nat /\ Queued <= Len(Plan)
  BY PlanOK
<1>3. Ordered(stream, Queued, Plan, Chunks)
  BY DEF StreamOK
<1>4. OneThrough(stream, Queued, Plan, Chunks, i)
  BY ONLY FinishDone, <1>1, <1>2, <1>3, Zenon
<1>5. QED
  BY ONLY <1>1, <1>4 DEF OneThrough, Ops, Through

\* The kernel of Snappy answers a chunk with what was compressed, or refuses it.
LEMMA UnsnapKeeps ==
  ASSUME BatchInv, NEW i \in Chunks, UnsnapBlock(i)
  PROVE  BatchInv'
<1>1. PICK a : a = unsnap(comp[i], room(i)) /\ Answered(i, a)
  BY ONLY UnsnapBlock(i) DEF UnsnapBlock
<1>2. Running("decompress", i) /\ job.format = "snappy"
  BY ONLY UnsnapBlock(i) DEF UnsnapBlock
<1>3. HostOK
  BY DEF BatchInv
<1>4. "compress" \in Through(i)
  BY ONLY DecompressInOrder, BatchInv, <1>2, i \in Chunks
<1>5. PICK d \in Nat, x \in Nat : /\ d = Len(job.chunks[i]) /\ d = SizeOf(job, i)
                                  /\ x = RoomOf(job, i) /\ d <= UINT_MAX /\ job.chunks[i] \in Seq(Nat)
  BY ONLY SizeAndRoom, <1>2, <1>3, i \in Chunks DEF UINT_MAX
<1>6. SnapOf(comp[i], job.chunks[i])
  <2>1. Stored(job, i, comp[i], compBytes[i])
    BY ONLY StoredHere, BatchInv, i \in Chunks, <1>4
  <2>2. Len(job.chunks[i]) <= SF!MaxSize
    BY ONLY <1>5 DEF UINT_MAX, SF!MaxSize
  <2>3. SnapOf(snap(job.chunks[i]), job.chunks[i])
    BY ONLY SnapStream, <1>5, <2>2
  <2>4. QED
    BY ONLY <1>2, <2>1, <2>3 DEF Stored
<1>7. /\ SF!ReadSize(comp[i]) = d
      /\ SubSeq(comp[i], Len(comp[i]) - d + 1, Len(comp[i])) = job.chunks[i]
  BY ONLY <1>5, <1>6 DEF SnapOf
<1>8. room(i) = x
  BY ONLY SizesHere, <1>5
<1>9. PICK limit \in Nat : limit = IF x = 0 THEN d ELSE x
  BY ONLY d \in Nat, x \in Nat
<1>10. Right(job, i, a.out, a.size, a.status) /\ a.status \in Statuses /\ a.size # Unwritten
  <2>1. CASE d > limit
    <3>1. a = [out |-> << >>, size |-> 0, status |-> CannotDecompress]
      BY ONLY <1>1, <1>7, <1>8, <1>9, <2>1 DEF unsnap
    <3>2. Len(a.out) = 0 /\ a.size = 0 /\ a.status = CannotDecompress
      BY ONLY <3>1
    <3>3. x < d /\ 0 <= x
      BY ONLY <1>9, <2>1, d \in Nat, x \in Nat
    <3>4. QED
      BY ONLY <1>2, <1>5, <3>2, <3>3 DEF Right, Statuses, Unwritten, CannotDecompress
  <2>2. CASE ~ (d > limit)
    <3>1. a = [out |-> SubSeq(comp[i], Len(comp[i]) - d + 1, Len(comp[i])), size |-> d, status |-> Success]
      BY ONLY <1>1, <1>7, <1>8, <1>9, <2>2, d \in Nat DEF unsnap, SF!SizeError
    <3>2. a.out = job.chunks[i] /\ a.size = d /\ a.status = Success
      BY ONLY <1>7, <3>1
    <3>3. x < d => x = 0
      BY ONLY <1>9, <2>2, d \in Nat, x \in Nat
    <3>4. QED
      BY ONLY <1>2, <1>5, <3>2, <3>3, d \in Nat DEF Right, Statuses, Unwritten, Success
  <2>3. QED
    BY ONLY <2>1, <2>2
<1>11. AnswerOK(job, Through(i) \cup {"decompress"}, i, a.out, a.size, a.status)
  <2>1. PICK more : more = Through(i) \cup {"decompress"} /\ "decompress" \in more
    OBVIOUS
  <2>2. Answering(job, i, a.out, a.size, a.status)
    BY ONLY <1>10 DEF Answering
  <2>3. AnswerOK(job, more, i, a.out, a.size, a.status)
    BY ONLY <1>2, <2>1, <2>2 DEF AnswerOK, Libraries
  <2>4. QED
    BY ONLY <2>1, <2>3
<1>12. "decompress" \notin {"compress", "query"}
  OBVIOUS
<1>13. QED
  BY ONLY AnsweredInv, BatchInv, i \in Chunks, <1>1, <1>2, <1>11, <1>12

\* A library decodes what there is room for, in a code of its own.
LEMMA LibraryDecompressKeeps ==
  ASSUME BatchInv, NEW i \in Chunks, LibraryDecompressBlock(i)
  PROVE  BatchInv'
<1>1. Running("decompress", i) /\ job.format \in Libraries
  BY ONLY LibraryDecompressBlock(i) DEF LibraryDecompressBlock
<1>2. PICK b : /\ b \in IF Len(comp[i]) > room(i)
                        THEN {[out |-> << >>, size |-> 0, status |-> e] : e \in LibraryCodes}
                        ELSE {[out |-> comp[i], size |-> Len(comp[i]), status |-> "library success"]}
               /\ Answered(i, IF job.format = "bitcomp" THEN [b EXCEPT !.size = actual[i]] ELSE b)
  BY ONLY LibraryDecompressBlock(i) DEF LibraryDecompressBlock
<1>3. PICK a : a = (IF job.format = "bitcomp" THEN [b EXCEPT !.size = actual[i]] ELSE b) /\ Answered(i, a)
  BY ONLY <1>2
<1>4. HostOK
  BY DEF BatchInv
<1>5. /\ "compress" \in Through(i) /\ "convert" \notin Through(i)
      /\ job.format = "bitcomp" => "actual" \notin Through(i)
  BY ONLY DecompressInOrder, BatchInv, <1>1, i \in Chunks
<1>6. PICK d \in Nat, x \in Nat : /\ d = Len(job.chunks[i]) /\ d = SizeOf(job, i) /\ x = RoomOf(job, i)
  BY ONLY SizeAndRoom, <1>1, <1>4, i \in Chunks DEF Libraries
<1>7. comp[i] = job.chunks[i]
  <2>1. Stored(job, i, comp[i], compBytes[i])
    BY ONLY StoredHere, BatchInv, i \in Chunks, <1>5
  <2>2. QED
    BY ONLY <1>1, <2>1 DEF Stored
<1>8. room(i) = x
  BY ONLY SizesHere, <1>6
<1>9. /\ \/ a.status = "library success" /\ a.out = job.chunks[i] /\ d <= x
         \/ a.status \in LibraryCodes /\ a.out = << >> /\ x < d
      /\ job.format = "gdeflate" => a.size = IF a.status = "library success" THEN d ELSE 0
  <2>1. CASE d > x
    <3>1. PICK e \in LibraryCodes : b = [out |-> << >>, size |-> 0, status |-> e]
      BY ONLY <1>2, <1>6, <1>7, <1>8, <2>1
    <3>2. a.status = e /\ a.out = << >> /\ (job.format = "gdeflate" => a.size = 0)
      BY ONLY <1>3, <3>1
    <3>3. QED
      BY ONLY <2>1, <3>2, e \in LibraryCodes, d \in Nat, x \in Nat DEF LibraryCodes
  <2>2. CASE ~ (d > x)
    <3>1. b = [out |-> job.chunks[i], size |-> d, status |-> "library success"]
      BY ONLY <1>2, <1>6, <1>7, <1>8, <2>2
    <3>2. a.status = "library success" /\ a.out = job.chunks[i] /\ (job.format = "gdeflate" => a.size = d)
      BY ONLY <1>3, <3>1
    <3>3. d <= x
      BY ONLY <2>2, d \in Nat, x \in Nat
    <3>4. QED
      BY ONLY <3>2, <3>3, Zenon
  <2>3. QED
    BY ONLY <2>1, <2>2
<1>10. AnswerOK(job, Through(i) \cup {"decompress"}, i, a.out, a.size, a.status)
  <2>1. PICK more : more = Through(i) \cup {"decompress"}
    OBVIOUS
  <2>2. /\ "decompress" \in more /\ "convert" \notin more
        /\ job.format = "bitcomp" => "actual" \notin more
    BY ONLY <1>5, <2>1
  <2>3. Decoding(job, more, i, a.out, a.size, a.status)
    BY ONLY <1>6, <1>9, <2>2 DEF Decoding
  <2>4. AnswerOK(job, more, i, a.out, a.size, a.status)
    BY ONLY <1>1, <2>2, <2>3 DEF AnswerOK, Libraries
  <2>5. QED
    BY ONLY <2>1, <2>4
<1>11. "decompress" \notin {"compress", "query"}
  OBVIOUS
<1>12. QED
  BY ONLY AnsweredInv, BatchInv, i \in Chunks, <1>1, <1>3, <1>10, <1>11

\* Bitcomp asks for the sizes in a launch of its own.
LEMMA ActualKeeps ==
  ASSUME BatchInv, NEW i \in Chunks, ActualBlock(i)
  PROVE  BatchInv'
<1>1. Running("actual", i)
  BY ONLY ActualBlock(i) DEF ActualBlock
<1>2. PICK a : a = [out |-> out[i], size |-> compBytes[i], status |-> statuses[i]] /\ Answered(i, a)
  BY ONLY ActualBlock(i) DEF ActualBlock
<1>3. /\ job.format = "bitcomp" /\ "compress" \in Through(i) /\ "decompress" \in Through(i)
      /\ "convert" \notin Through(i)
  BY ONLY ActualInOrder, BatchInv, <1>1, i \in Chunks
<1>4. compBytes[i] = SizeOf(job, i)
  <2>1. Stored(job, i, comp[i], compBytes[i])
    BY ONLY StoredHere, BatchInv, i \in Chunks, <1>3
  <2>2. QED
    BY ONLY <1>3, <2>1 DEF Stored, Libraries
<1>5. Decoding(job, Through(i), i, out[i], actual[i], statuses[i])
  <2>1. AnswerOK(job, Through(i), i, out[i], actual[i], statuses[i])
    BY ONLY OfChunk, BatchInv, i \in Chunks
  <2>2. QED
    BY ONLY <1>3, <2>1 DEF AnswerOK, Libraries
<1>6. AnswerOK(job, Through(i) \cup {"actual"}, i, a.out, a.size, a.status)
  <2>1. PICK more : more = Through(i) \cup {"actual"}
    OBVIOUS
  <2>2. "decompress" \in more /\ "convert" \notin more
    BY ONLY <1>3, <2>1
  <2>3. a.out = out[i] /\ a.size = SizeOf(job, i) /\ a.status = statuses[i]
    BY ONLY <1>2, <1>4
  <2>4. Decoding(job, more, i, a.out, a.size, a.status)
    BY ONLY <1>3, <1>5, <2>3 DEF Decoding
  <2>5. AnswerOK(job, more, i, a.out, a.size, a.status)
    BY ONLY <1>3, <2>2, <2>4 DEF AnswerOK, Libraries
  <2>6. QED
    BY ONLY <2>1, <2>5
<1>7. "actual" \notin {"compress", "query"}
  OBVIOUS
<1>8. QED
  BY ONLY AnsweredInv, BatchInv, i \in Chunks, <1>1, <1>2, <1>6, <1>7

\* The last launch translates the library's statuses.
LEMMA ConvertKeeps ==
  ASSUME BatchInv, NEW i \in Chunks, ConvertBlock(i)
  PROVE  BatchInv'
<1>1. Running("convert", i)
  BY ONLY ConvertBlock(i) DEF ConvertBlock
<1>2. PICK a : /\ a = [out |-> out[i], size |-> actual[i],
                       status |-> IF job.format = "gdeflate" THEN convertGdeflateOutputStatuses(statuses[i])
                                  ELSE convertOutputStatuses(statuses[i])]
               /\ Answered(i, a)
  BY ONLY ConvertBlock(i) DEF ConvertBlock
<1>3. /\ job.format \in Libraries /\ "decompress" \in Through(i)
      /\ job.format = "bitcomp" => "actual" \in Through(i)
  BY ONLY ConvertInOrder, BatchInv, <1>1, i \in Chunks
<1>4. HostOK
  BY DEF BatchInv
<1>5. PICK d \in Nat, x \in Nat : /\ d = SizeOf(job, i) /\ x = RoomOf(job, i)
  BY ONLY SizeAndRoom, <1>4, i \in Chunks
<1>6. "convert" \notin Through(i)
  <2>1. StreamOK
    BY ONLY BatchInv DEF BatchInv
  <2>2. QED
    BY ONLY RunsNotThrough, <1>1, <1>4, <2>1, i \in Chunks
<1>7. Decoding(job, Through(i), i, out[i], actual[i], statuses[i])
  <2>1. AnswerOK(job, Through(i), i, out[i], actual[i], statuses[i])
    BY ONLY OfChunk, BatchInv, i \in Chunks
  <2>2. QED
    BY ONLY <1>3, <1>6, <2>1 DEF AnswerOK, Libraries
<1>8. a.out = out[i] /\ a.size = actual[i]
  BY ONLY <1>2
<1>9. /\ statuses[i] = "library success" => a.status = Success
      /\ statuses[i] = "invalid data" => a.status = CannotDecompress
      /\ statuses[i] = "invalid parameter" =>
            a.status = IF job.format = "gdeflate" THEN CannotDecompress ELSE InvalidValue
  BY ONLY <1>2 DEF convertGdeflateOutputStatuses, convertOutputStatuses
<1>10. Answering(job, i, a.out, a.size, a.status)
  <2>1. actual[i] = IF job.format = "bitcomp" \/ statuses[i] = "library success" THEN d ELSE 0
    BY ONLY <1>3, <1>5, <1>7 DEF Decoding, Libraries
  <2>2. CASE statuses[i] = "library success"
    <3>1. out[i] = job.chunks[i] /\ d <= x
      BY ONLY <1>5, <1>7, <2>2 DEF Decoding, LibraryCodes
    <3>2. a.status = Success /\ a.out = job.chunks[i] /\ a.size = d
      BY ONLY <1>8, <1>9, <2>1, <2>2, <3>1
    <3>3. ~ (x < d)
      BY ONLY <3>1, d \in Nat, x \in Nat
    <3>4. Right(job, i, a.out, a.size, a.status)
      BY ONLY <1>5, <3>2, <3>3 DEF Right
    <3>5. a.status \in Statuses /\ a.size # Unwritten
      BY ONLY <3>2, d \in Nat DEF Statuses, Unwritten
    <3>6. QED
      BY ONLY <3>4, <3>5 DEF Answering
  <2>3. CASE statuses[i] # "library success"
    <3>1. statuses[i] \in LibraryCodes /\ out[i] = << >> /\ x < d
      BY ONLY <1>5, <1>7, <2>3 DEF Decoding
    <3>2. Len(a.out) = 0
      BY ONLY <1>8, <3>1
    <3>3. a.status = CannotDecompress \/ (a.status = InvalidValue /\ job.format = "bitcomp")
      BY ONLY <1>3, <1>9, <3>1 DEF LibraryCodes, Libraries
    <3>4. a.size = IF job.format = "bitcomp" THEN d ELSE 0
      BY ONLY <1>8, <2>1, <2>3
    <3>5. Right(job, i, a.out, a.size, a.status)
      BY ONLY <1>5, <3>1, <3>2, <3>3, <3>4, x \in Nat DEF Right
    <3>6. a.status \in Statuses /\ a.size # Unwritten
      BY ONLY <3>3, <3>4, d \in Nat DEF Statuses, Unwritten
    <3>7. QED
      BY ONLY <3>5, <3>6 DEF Answering
  <2>4. QED
    BY ONLY <2>2, <2>3
<1>11. AnswerOK(job, Through(i) \cup {"convert"}, i, a.out, a.size, a.status)
  <2>1. PICK more : more = Through(i) \cup {"convert"} /\ "convert" \in more
    OBVIOUS
  <2>2. AnswerOK(job, more, i, a.out, a.size, a.status)
    BY ONLY <1>3, <1>10, <2>1 DEF AnswerOK, Libraries
  <2>3. QED
    BY ONLY <2>1, <2>2
<1>12. "convert" \notin {"compress", "query"}
  OBVIOUS
<1>13. QED
  BY ONLY AnsweredInv, BatchInv, i \in Chunks, <1>1, <1>2, <1>11, <1>12

\* What the kernel of type T answers for a buffer with a header: a status and a size.
LEMMA PartitionAnswers ==
  ASSUME NEW j, NEW i, NEW c, NEW b, NEW r, NEW T \in {1, 2, 4, 8}, SizeOf(j, i) \in Nat,
         Header(j, i, c, b), NEW a, a = decompress_partition(c, b, r, T)
  PROVE  a.status \in Statuses /\ a.size # Unwritten
<1>1. ASSUME a = Failed PROVE a.status \in Statuses /\ a.size # Unwritten
  <2>1. a.status = CannotDecompress /\ a.size = 0
    BY ONLY <1>1 DEF Failed, CannotDecompress
  <2>2. QED
    BY ONLY <2>1 DEF Statuses, Unwritten
<1>2. ASSUME NEW o, Len(o) \in Nat, a = Done(o, T) PROVE a.status \in Statuses /\ a.size # Unwritten
  <2>1. a.status = Success /\ a.size = Len(o) * T
    BY ONLY <1>2 DEF Done, Success
  <2>2. Len(o) * T \in Nat
    BY ONLY Product, Len(o) \in Nat, T \in {1, 2, 4, 8}
  <2>3. QED
    BY ONLY <2>1, <2>2 DEF Statuses, Unwritten
<1>3. CASE SizeOf(j, i) = 0
  <2>1. b < Metadata
    BY ONLY Header(j, i, c, b), <1>3 DEF Header, Metadata
  <2>2. a = Failed
    BY ONLY <2>1, a = decompress_partition(c, b, r, T) DEF decompress_partition
  <2>3. QED
    BY ONLY <1>1, <2>2
<1>4. CASE SizeOf(j, i) # 0
  <2>1. PICK n \in Nat : n = Fetch(c, 4, 4) \div T
    <3>1. PICK s \in Nat : s = Fetch(c, 4, 4)
      BY ONLY Header(j, i, c, b), <1>4, SizeOf(j, i) \in Nat DEF Header
    <3>2. s \div T \in Nat
      BY ONLY DivNat, s \in Nat, T \in {1, 2, 4, 8}
    <3>3. QED
      BY ONLY <3>1, <3>2
  <2>2. PICK fo, start, s : /\ a \in {Failed, Done(fo, T), complete(s, n, T)}
                            /\ fo = FetchAll(c, start, n, T)
    <3>1. PICK start : start = RoundUpTo(Metadata, T)
      OBVIOUS
    <3>2. PICK o : o = [R |-> Fetch(c, 0, 1), D |-> Fetch(c, 1, 1), bp |-> Fetch(c, 2, 1) # 0, T |-> T]
      OBVIOUS
    <3>3. PICK s : s = decompress_chunks(c, (b \div 4) * 4, o, n, start)
      OBVIOUS
    <3>4. PICK fo : fo = FetchAll(c, start, n, T)
      OBVIOUS
    <3>5. a \in {Failed, Done(fo, T), complete(s, n, T)}
      BY ONLY <2>1, <3>1, <3>2, <3>3, <3>4, a = decompress_partition(c, b, r, T) DEF decompress_partition
    <3>6. QED
      BY ONLY <3>4, <3>5
  <2>3. Len(fo) \in Nat
    <3>1. PICK m \in Nat : m = n
      BY ONLY n \in Nat
    <3>2. fo = [k \in 1 .. m |-> Fetch(c, start + (k - 1) * T, T)]
      BY ONLY <2>2, <3>1 DEF FetchAll
    <3>3. Len(fo) = m
      BY ONLY <3>2, m \in Nat
    <3>4. QED
      BY ONLY <3>3, m \in Nat
  <2>4. CASE a = complete(s, n, T)
    <3>1. a = Failed \/ (Len(s.out) = n /\ a = Done(s.out, T))
      BY ONLY <2>4 DEF complete
    <3>2. QED
      BY ONLY <1>1, <1>2, <3>1, n \in Nat
  <2>5. QED
    BY ONLY <1>1, <1>2, <2>2, <2>3, <2>4
<1>5. QED
  BY ONLY <1>3, <1>4

\* The kernel of each type leaves the batch to that of its own type.
LEMMA TypedKeeps ==
  ASSUME BatchInv, NEW i \in Chunks, NEW T \in {1, 2, 4, 8}, TypedBlock(T, i)
  PROVE  BatchInv'
<1>1. Running(typed(T), i)
  BY ONLY TypedBlock(T, i) DEF TypedBlock
<1>2. PICK a : /\ a = (IF Fetch(comp[1], 3, 1) = T THEN decompress_partition(comp[i], compBytes[i], room(i), T)
                       ELSE [out |-> out[i], size |-> actual[i], status |-> statuses[i]])
               /\ Answered(i, a)
  BY ONLY TypedBlock(T, i) DEF TypedBlock
<1>3. HostOK /\ StreamOK
  BY ONLY BatchInv DEF BatchInv
<1>4. \A k \in Chunks : job.format = "cascaded" /\ "compress" \in Through(k)
  BY ONLY TypedInOrder, BatchInv, <1>1, T \in {1, 2, 4, 8}
<1>5. \A k \in Chunks : Header(job, k, comp[k], compBytes[k])
  <2>1. ASSUME NEW k \in Chunks PROVE Header(job, k, comp[k], compBytes[k])
    <3>1. "compress" \in Through(k) /\ job.format = "cascaded"
      BY ONLY <1>4
    <3>2. Stored(job, k, comp[k], compBytes[k])
      BY ONLY StoredHere, BatchInv, k \in Chunks, <3>1
    <3>3. QED
      BY ONLY <3>1, <3>2 DEF Stored
  <2>2. QED
    BY ONLY <2>1
<1>6. job.T \in {1, 2, 4, 8} /\ Len(job.chunks) \in Nat
  <2>1. job \in Job
    BY ONLY JobOK, <1>3
  <2>2. QED
    BY ONLY <2>1 DEF Job
<1>7. typed(T) \notin {"compress", "query", "decompress", "actual", "convert"}
  BY ONLY T \in {1, 2, 4, 8} DEF typed
<1>8. AnswerOK(job, Through(i), i, out[i], actual[i], statuses[i])
  BY ONLY OfChunk, BatchInv, i \in Chunks
<1>9. AnswerOK(job, Through(i) \cup {typed(T)}, i, a.out, a.size, a.status)
  <2>1. PICK more : more = Through(i) \cup {typed(T)}
    OBVIOUS
  <2>2. ASSUME Len(job.chunks) # 0, SizeOf(job, 1) > 0
        PROVE  IF typed(job.T) \in more THEN a.status \in Statuses /\ a.size # Unwritten
               ELSE Fresh(a.size, a.status)
    <3>1. 1 \in Chunks
      BY ONLY <1>6, <2>2 DEF Chunks
    <3>2. Fetch(comp[1], 3, 1) = job.T
      <4>1. Header(job, 1, comp[1], compBytes[1])
        BY ONLY <1>5, <3>1
      <4>2. QED
        BY ONLY <2>2, <4>1 DEF Header
    <3>3. CASE T = job.T
      <4>1. a = decompress_partition(comp[i], compBytes[i], room(i), T)
        BY ONLY <1>2, <3>2, <3>3
      <4>2. SizeOf(job, i) \in Nat
        BY ONLY SizeAndRoom, <1>3, i \in Chunks
      <4>3. Header(job, i, comp[i], compBytes[i])
        BY ONLY <1>5, i \in Chunks
      <4>4. a.status \in Statuses /\ a.size # Unwritten
        BY ONLY PartitionAnswers, <4>1, <4>2, <4>3, T \in {1, 2, 4, 8}
      <4>5. typed(job.T) \in more
        BY ONLY <2>1, <3>3
      <4>6. QED
        BY ONLY <4>4, <4>5
    <3>4. CASE T # job.T
      <4>1. a.size = actual[i] /\ a.status = statuses[i]
        BY ONLY <1>2, <3>2, <3>4
      <4>2. typed(T) # typed(job.T)
        BY ONLY <1>6, <3>4, T \in {1, 2, 4, 8} DEF typed
      <4>3. typed(job.T) \in more <=> typed(job.T) \in Through(i)
        BY ONLY <2>1, <4>2
      <4>4. job.format = "cascaded"
        BY ONLY <1>4, i \in Chunks
      <4>5. CASE typed(job.T) \in Through(i)
        BY ONLY <1>8, <2>2, <4>1, <4>3, <4>4, <4>5 DEF AnswerOK
      <4>6. CASE typed(job.T) \notin Through(i)
        BY ONLY <1>8, <2>2, <4>1, <4>3, <4>4, <4>6 DEF AnswerOK
      <4>7. QED
        BY ONLY <4>5, <4>6
    <3>5. QED
      BY ONLY <3>3, <3>4
  <2>3. job.format = "cascaded"
    BY ONLY <1>4, i \in Chunks
  <2>4. AnswerOK(job, more, i, a.out, a.size, a.status)
    BY ONLY <2>2, <2>3 DEF AnswerOK, Libraries
  <2>5. QED
    BY ONLY <2>1, <2>4
<1>10. QED
  BY ONLY AnsweredInv, BatchInv, i \in Chunks, <1>1, <1>2, <1>7, <1>9

-----------------------------------------------------------------------------
(* The blocks that compress. *)

\* A compression runs for a host that went on with the sizes that it was told.
Going ==
  /\ Queued > 0 /\ job.format # "ans" /\ "compress" \in Ops
  /\ TempSize.code = Success /\ MaxOutputChunkSize.code = Success
  /\ asked.max = MaxOutputChunkSize.bytes

\* A block that compresses runs behind a host that went on with its sizes.
LEMMA CompressGoing ==
  ASSUME BatchInv, NEW i \in Chunks, Running("compress", i)
  PROVE  Going /\ "compress" \notin Through(i)
<1>1. HostOK /\ StreamOK
  BY ONLY BatchInv DEF BatchInv
<1>2. "compress" \in Ops /\ "compress" \notin Through(i)
  BY ONLY RunsNotThrough, <1>1, i \in Chunks, Running("compress", i)
<1>3. Queued > 0
  <2>1. PICK k : k \in 1 .. Queued
    BY ONLY <1>2 DEF Ops, DueOps
  <2>2. Queued \in Nat
    BY ONLY PlanOK, <1>1
  <2>3. QED
    BY ONLY <2>1, <2>2
<1>4. job.format # "ans" /\ call \in {"query", "decompress", "done"}
  BY ONLY <1>3 DEF Queued
<1>5. /\ TempSize.code = Success /\ MaxOutputChunkSize.code = Success
      /\ asked.max = MaxOutputChunkSize.bytes
  BY ONLY <1>1, <1>4 DEF HostOK, AskedInv
<1>6. QED
  BY ONLY <1>2, <1>3, <1>4, <1>5 DEF Going

\* The warp of chunk i has nothing to do, and the others go on.
WarpRests(i) ==
  DOMAIN warp' = Chunks /\ warp'[i] = NoWarp /\ \A k \in Chunks : k # i => warp'[k] = warp[k]

\* Without a warp at work none is to be laid off.
LEMMA NoWarpRests ==
  ASSUME BatchInv, NEW i \in Chunks, job.format # "lz4", warp' = warp
  PROVE  WarpRests(i)
<1>1. WarpOK(job, Ops, Through(i), HT_size, Table(i), i, warp[i])
  BY ONLY OfChunk, BatchInv, i \in Chunks
<1>2. warp[i] = NoWarp
  BY ONLY <1>1, job.format # "lz4" DEF WarpOK
<1>3. DOMAIN warp = Chunks
  BY ONLY BatchInv DEF BatchInv, BuffersOK
<1>4. QED
  BY ONLY <1>2, <1>3, warp' = warp DEF WarpRests

\* A block that has compressed its chunk keeps the invariant if what it stores is
\* the chunk and stays within the bound.
LEMMA StoredInv ==
  ASSUME BatchInv, NEW i \in Chunks, Running("compress", i), NEW bytes, NEW size,
         Compressed(i, bytes, size), Finish(i), temp' = temp, WarpRests(i),
         Stored(job, i, bytes, size), size \in 0 .. asked.max
  PROVE  BatchInv'
<1>1. /\ job' = job /\ UNCHANGED host /\ temp' = temp /\ sizes' = sizes
      /\ out' = out /\ actual' = actual /\ statuses' = statuses
      /\ comp' = [comp EXCEPT ![i] = bytes] /\ compBytes' = [compBytes EXCEPT ![i] = size]
  BY ONLY Compressed(i, bytes, size), temp' = temp DEF Compressed
<1>2. HostOK /\ StreamOK /\ TempOK /\ BuffersOK
  BY ONLY BatchInv DEF BatchInv
<1>3. Ended("compress", i)
  BY ONLY BlockEnds, <1>1, <1>2, i \in Chunks, Running("compress", i), Finish(i), Zenon
<1>4. Chunks' = Chunks /\ HT_size' = HT_size /\ asked' = asked
  BY ONLY <1>3 DEF Ended
<1>5. TempOK'
  BY ONLY <1>1, <1>2, <1>4 DEF TempOK, TempInv
<1>6. BuffersOK'
  BY ONLY <1>1, <1>2, <1>4, WarpRests(i) DEF BuffersOK, WarpRests
<1>7. \A k : Table(k)' = Table(k)
  BY ONLY <1>1, <1>4 DEF Table
<1>8. Alone(i) /\ comp'[i] = bytes /\ compBytes'[i] = size /\ warp'[i] = NoWarp
  BY ONLY <1>1, <1>2, <1>7, i \in Chunks, WarpRests(i) DEF Alone, BuffersOK, WarpRests
<1>11. SizeOK(job, Through(i), i, sizes[i]) /\ AnswerOK(job, Through(i), i, out[i], actual[i], statuses[i])
  BY ONLY OfChunk, BatchInv, i \in Chunks, Zenon
<1>12. PICK more : more = Through(i) \cup {"compress"}
  OBVIOUS
<1>13. WarpOK(job, Ops, more, HT_size, Table(i)', i, NoWarp)
  BY ONLY DEF WarpOK
<1>14. StoredOK(job, asked.max, more, i, bytes, size)
  <2>1. "compress" \in more
    BY ONLY <1>12
  <2>2. QED
    BY ONLY <2>1, Stored(job, i, bytes, size), size \in 0 .. asked.max DEF StoredOK
<1>15. SizeOK(job, more, i, sizes[i])
  <2>1. "query" \in more <=> "query" \in Through(i)
    BY ONLY <1>12
  <2>2. QED
    BY ONLY <1>11, <2>1 DEF SizeOK
<1>16. AnswerOK(job, more, i, out[i], actual[i], statuses[i])
  <2>1. /\ "decompress" \in more <=> "decompress" \in Through(i)
        /\ "convert" \in more <=> "convert" \in Through(i)
        /\ "actual" \in more <=> "actual" \in Through(i)
    BY ONLY <1>12
  <2>2. job.T \in {1, 2, 4, 8}
    <3>1. job \in Job
      BY ONLY JobOK, <1>2
    <3>2. QED
      BY ONLY <3>1 DEF Job
  <2>3. typed(job.T) \in more <=> typed(job.T) \in Through(i)
    BY ONLY <1>12, <2>2 DEF typed
  <2>4. QED
    BY ONLY <1>11, <2>1, <2>3 DEF AnswerOK, Decoding
<1>17. ChunkOK(job, asked.max, Ops, Through(i) \cup {"compress"}, HT_size, Table(i)', i, warp'[i],
               comp'[i], compBytes'[i], sizes'[i], out'[i], actual'[i], statuses'[i])
  BY ONLY <1>1, <1>8, <1>12, <1>13, <1>14, <1>15, <1>16 DEF ChunkOK
<1>18. QED
  BY ONLY EndedInv, BatchInv, i \in Chunks, <1>3, <1>5, <1>6, <1>8, <1>17, Zenon

\* A stream of Snappy is within its bound.
LEMMA SnapKeeps ==
  ASSUME BatchInv, NEW i \in Chunks, SnapBlock(i)
  PROVE  BatchInv'
<1>1. Running("compress", i) /\ job.format = "snappy" /\ Finish(i) /\ temp' = temp /\ warp' = warp
  BY ONLY SnapBlock(i) DEF SnapBlock
<1>2. PICK s : s = snap(job.chunks[i]) /\ Compressed(i, s, Len(s))
  BY ONLY SnapBlock(i) DEF SnapBlock
<1>3. HostOK
  BY DEF BatchInv
<1>4. PICK d \in Nat, m \in Nat : /\ d = Len(job.chunks[i]) /\ m = job.max /\ d <= m /\ m <= UINT_MAX
                                  /\ job.chunks[i] \in Seq(Nat)
  <2>1. /\ SizeOf(job, i) \in Nat /\ SizeOf(job, i) <= job.max /\ job.max <= UINT_MAX /\ job.max \in Nat
        /\ job.chunks[i] \in Seq(Nat) /\ Len(job.chunks[i]) \in Nat
        /\ SizeOf(job, i) = Len(job.chunks[i])
    BY ONLY SizeAndRoom, <1>1, <1>3, i \in Chunks
  <2>2. QED
    BY ONLY <2>1
<1>5. SnapOf(s, job.chunks[i])
  <2>1. d <= SF!MaxSize
    BY ONLY <1>4, d \in Nat, m \in Nat DEF UINT_MAX, SF!MaxSize
  <2>2. QED
    BY ONLY SnapStream, <1>2, <1>4, <2>1
<1>6. Stored(job, i, s, Len(s))
  BY ONLY <1>1, <1>2 DEF Stored, Libraries
<1>7. Len(s) \in 0 .. asked.max
  <2>1. Going
    BY ONLY CompressGoing, BatchInv, <1>1, i \in Chunks
  <2>2. asked.max = 32 + m + m \div 6
    BY ONLY <1>1, <1>4, <2>1
       DEF Going, MaxOutputChunkSize, SnappyGetMaxOutputChunkSize, Answer
  <2>3. PICK x \in Nat : x = m \div 6
    BY ONLY DivNat, m \in Nat
  <2>4. PICK l \in Nat : l = Len(s) /\ l <= 10 + d
    BY ONLY <1>4, <1>5 DEF SnapOf
  <2>5. asked.max = 32 + m + x
    BY ONLY <2>2, <2>3
  <2>6. l \in 0 .. 32 + m + x
    BY ONLY <1>4, <2>4, l \in Nat, x \in Nat, d \in Nat, m \in Nat, SMTT(30)
  <2>7. QED
    BY ONLY <2>4, <2>5, <2>6
<1>8. WarpRests(i)
  BY ONLY NoWarpRests, BatchInv, i \in Chunks, <1>1
<1>9. QED
  BY ONLY StoredInv, BatchInv, i \in Chunks, <1>1, <1>2, <1>6, <1>7, <1>8

\* A library stores the chunk.
LEMMA LibraryCompressKeeps ==
  ASSUME BatchInv, NEW i \in Chunks, LibraryCompressBlock(i)
  PROVE  BatchInv'
<1>1. /\ Running("compress", i) /\ job.format \in Libraries /\ Finish(i) /\ temp' = temp /\ warp' = warp
      /\ Compressed(i, job.chunks[i], Size(i))
  BY ONLY LibraryCompressBlock(i) DEF LibraryCompressBlock
<1>2. HostOK
  BY DEF BatchInv
<1>3. PICK d \in Nat, m \in Nat : d = SizeOf(job, i) /\ m = job.max /\ d <= m /\ d = Size(i)
  BY ONLY SizeAndRoom, SizesHere, <1>2, i \in Chunks
<1>4. Stored(job, i, job.chunks[i], Size(i))
  BY ONLY <1>1, <1>3 DEF Stored, Libraries
<1>5. Size(i) \in 0 .. asked.max
  <2>1. Going
    BY ONLY CompressGoing, BatchInv, <1>1, i \in Chunks
  <2>2. asked.max = m
    <3>1. MaxOutputChunkSize = Answer(m)
      BY ONLY <1>1, <1>3
         DEF MaxOutputChunkSize, GdeflateGetMaxOutputChunkSize, BitcompGetMaxOutputChunkSize, Libraries
    <3>2. QED
      BY ONLY <2>1, <3>1 DEF Going, Answer
  <2>3. QED
    BY ONLY <1>3, <2>2, d \in Nat, m \in Nat
<1>6. WarpRests(i)
  <2>1. job.format # "lz4"
    BY ONLY <1>1 DEF Libraries
  <2>2. QED
    BY ONLY NoWarpRests, BatchInv, i \in Chunks, <1>1, <2>1
<1>7. QED
  BY ONLY StoredInv, BatchInv, i \in Chunks, <1>1, <1>4, <1>5, <1>6

-----------------------------------------------------------------------------
(* A warp that compresses with the table in its slice. *)

\* A slice starts behind those of the chunks before and has n entries.
LEMMA SliceIs ==
  ASSUME NEW i \in Nat \ {0}, NEW n \in Nat
  PROVE  \E w \in Nat : w = (i - 1) * n /\ Slice(i, n) = w .. w + n - 1
<1>1. PICK d \in Nat : d = i - 1
  BY ONLY i \in Nat \ {0}
<1>2. PICK w \in Nat : w = d * n
  BY ONLY Product, d \in Nat, n \in Nat
<1>3. i * n = w + n
  <2>1. (d + 1) * n = d * n + 1 * n
    BY ONLY Distribute, d \in Nat, n \in Nat, 1 \in Int
  <2>2. d + 1 = i /\ 1 * n = n
    BY ONLY <1>1, i \in Nat \ {0}, n \in Nat
  <2>3. QED
    BY ONLY <1>2, <2>1, <2>2
<1>4. QED
  BY ONLY <1>1, <1>2, <1>3, w \in Nat DEF Slice

\* The memory once the table of chunk i is written to its slice.
Sliced(i, table) ==
  temp' = [a \in DOMAIN temp |->
             IF a \in Slice(i, HT_size) THEN table[a - (i - 1) * HT_size] ELSE temp[a]]

\* What a write to the slice of chunk i leaves.
OneTable(i, table) ==
  TempOK' /\ Table(i)' = table /\ \A k \in Chunks : k # i => Table(k)' = Table(k)

\* The write reaches neither another table nor the memory behind the buffer.
LEMMA TableWritten ==
  ASSUME HostOK, TempOK, Queued > 0, job.format = "lz4", NEW i \in Chunks,
         NEW table, table \in [0 .. HT_size - 1 -> 0 .. MAX_OFFSET],
         job' = job, UNCHANGED host, Sliced(i, table)
  PROVE  OneTable(i, table)
<1>1. PICK n \in Nat \ {0} : n = HT_size
  BY TableSize
<1>2. asked' = asked /\ HT_size' = HT_size /\ Chunks' = Chunks
  BY ONLY HostStays, HostOK, job' = job, UNCHANGED host
<1>3. Chunks \subseteq Nat \ {0}
  BY ONLY DEF Chunks
<1>4. PICK w \in Nat : w = (i - 1) * n /\ Slice(i, n) = w .. w + n - 1
  BY ONLY SliceIs, <1>3, i \in Chunks, n \in Nat \ {0}
<1>5. PICK D : D = 0 .. ScratchBytes \div OffsetBytes /\ temp \in [D -> 0 .. MAX_OFFSET]
  BY ONLY TempOK DEF TempOK
<1>6. temp' = [a \in D |-> IF a \in Slice(i, n) THEN table[a - w] ELSE temp[a]]
  BY ONLY <1>1, <1>4, <1>5, Sliced(i, table) DEF Sliced
<1>7. \A a \in Slice(i, n) : a \in D /\ a # ScratchBytes \div OffsetBytes
                            /\ ~ (a * OffsetBytes >= asked.temp - job.short)
  BY ONLY SliceFits, HostOK, job.format = "lz4", Queued > 0, i \in Chunks, <1>1, <1>5
<1>8. \A a \in Slice(i, n) : a - w \in 0 .. n - 1
  BY ONLY <1>4, n \in Nat \ {0}, w \in Nat
<1>9. temp' \in [D -> 0 .. MAX_OFFSET]
  <2>1. ASSUME NEW a \in D
        PROVE  (IF a \in Slice(i, n) THEN table[a - w] ELSE temp[a]) \in 0 .. MAX_OFFSET
    BY ONLY <1>1, <1>5, <1>8, a \in D, table \in [0 .. HT_size - 1 -> 0 .. MAX_OFFSET]
  <2>2. QED
    BY ONLY <1>6, <2>1
<1>10. TempInv'
  <2>1. TempInv
    BY ONLY TempOK DEF TempOK
  <2>2. ScratchBytes \div OffsetBytes \in D
    <3>1. ScratchBytes \div 2 \in 0 .. ScratchBytes \div 2
      BY ONLY JobsAssumption
    <3>2. QED
      BY ONLY <1>5, <3>1 DEF OffsetBytes
  <2>3. \A a \in D : a * OffsetBytes >= asked.temp - job.short =>
                       temp[a] = temp[ScratchBytes \div OffsetBytes]
    BY ONLY <1>5, <2>1 DEF TempInv
  <2>4. temp'[ScratchBytes \div OffsetBytes] = temp[ScratchBytes \div OffsetBytes]
    BY ONLY <1>6, <1>7, <2>2
  <2>5. \A a \in D : a * OffsetBytes >= asked.temp - job.short => temp'[a] = temp[a]
    BY ONLY <1>6, <1>7
  <2>6. DOMAIN temp' = D
    BY ONLY <1>6
  <2>7. \A a \in D : a * OffsetBytes >= asked.temp - job.short =>
                       temp'[a] = temp'[ScratchBytes \div OffsetBytes]
    BY ONLY <2>3, <2>4, <2>5, Zenon
  <2>8. QED
    BY ONLY <1>2, <2>6, <2>7, job' = job DEF TempInv
<1>11. TempOK'
  BY ONLY <1>5, <1>9, <1>10 DEF TempOK
<1>12. Table(i)' = table
  <2>1. \A h \in 0 .. n - 1 : w + h \in Slice(i, n) /\ (w + h) - w = h
    BY ONLY <1>4, n \in Nat \ {0}, w \in Nat
  <2>2. \A h \in 0 .. n - 1 : temp'[w + h] = table[h]
    <3>1. ASSUME NEW h \in 0 .. n - 1 PROVE temp'[w + h] = table[h]
      <4>1. PICK a : a = w + h /\ a \in Slice(i, n) /\ a - w = h
        BY ONLY <2>1
      <4>2. a \in D
        BY ONLY <1>7, <4>1
      <4>3. QED
        BY ONLY <1>6, <4>1, <4>2
    <3>2. QED
      BY ONLY <3>1
  <2>3. Table(i)' = [h \in 0 .. n - 1 |-> temp'[w + h]]
    BY ONLY <1>1, <1>2, <1>4 DEF Table
  <2>4. table = [h \in 0 .. n - 1 |-> table[h]]
    BY ONLY <1>1, table \in [0 .. HT_size - 1 -> 0 .. MAX_OFFSET]
  <2>5. QED
    BY ONLY <2>2, <2>3, <2>4
<1>13. ASSUME NEW k \in Chunks, k # i PROVE Table(k)' = Table(k)
  <2>1. PICK v \in Nat : v = (k - 1) * n /\ Slice(k, n) = v .. v + n - 1
    BY ONLY SliceIs, <1>3, k \in Chunks, n \in Nat \ {0}
  <2>2. Slice(k, n) \cap Slice(i, n) = {}
    BY ONLY SlicesApart, <1>3, <1>13, i \in Chunks, n \in Nat \ {0}
  <2>3. \A a \in Slice(k, n) : a \in D
    BY ONLY SliceFits, HostOK, job.format = "lz4", Queued > 0, k \in Chunks, <1>1, <1>5
  <2>4. \A h \in 0 .. n - 1 : v + h \in Slice(k, n)
    BY ONLY <2>1, n \in Nat \ {0}, v \in Nat
  <2>5. \A h \in 0 .. n - 1 : temp'[v + h] = temp[v + h]
    <3>1. \A a \in Slice(k, n) : temp'[a] = temp[a]
      BY ONLY <1>6, <2>2, <2>3
    <3>2. QED
      BY ONLY <2>4, <3>1
  <2>6. Table(k)' = [h \in 0 .. n - 1 |-> temp'[v + h]]
    BY ONLY <1>1, <1>2, <2>1 DEF Table
  <2>7. Table(k) = [h \in 0 .. n - 1 |-> temp[v + h]]
    BY ONLY <1>1, <2>1 DEF Table
  <2>8. QED
    BY ONLY <2>5, <2>6, <2>7
<1>14. QED
  BY ONLY <1>11, <1>12, <1>13 DEF OneTable

\* A warp that goes on keeps the invariant if it has a state of the compression.
LEMMA WorkingInv ==
  ASSUME BatchInv, NEW i \in Chunks, Running("compress", i), job.format = "lz4",
         NEW table, table \in [0 .. HT_size - 1 -> 0 .. MAX_OFFSET], NEW w,
         AtWork(job, HT_size, table, i, w), Sliced(i, table), warp' = [warp EXCEPT ![i] = w],
         UNCHANGED << job, host, stream, comp, compBytes, sizes, out, actual, statuses >>
  PROVE  BatchInv'
<1>1. /\ job' = job /\ UNCHANGED host /\ stream' = stream /\ comp' = comp /\ compBytes' = compBytes
      /\ sizes' = sizes /\ out' = out /\ actual' = actual /\ statuses' = statuses
  BY ONLY UNCHANGED << job, host, stream, comp, compBytes, sizes, out, actual, statuses >>
<1>2. HostOK /\ StreamOK /\ TempOK /\ BuffersOK
  BY ONLY BatchInv DEF BatchInv
<1>3. Going /\ "compress" \notin Through(i)
  BY ONLY CompressGoing, BatchInv, i \in Chunks, Running("compress", i)
<1>4. /\ asked' = asked /\ lastError' = lastError
      /\ Queued' = Queued /\ Plan' = Plan /\ HT_size' = HT_size /\ Chunks' = Chunks /\ HostOK'
  BY ONLY HostStays, <1>1, <1>2
<1>5. StreamOK'
  BY ONLY <1>1, <1>2, <1>4 DEF StreamOK
<1>6. Ops' = Ops /\ \A k : Through(k)' = Through(k)
  BY ONLY <1>1, <1>4 DEF Ops, Through
<1>7. OneTable(i, table)
  <2>1. Queued > 0
    BY ONLY <1>3 DEF Going
  <2>2. QED
    BY ONLY TableWritten, <1>1, <1>2, <2>1, job.format = "lz4", i \in Chunks, Sliced(i, table),
            table \in [0 .. HT_size - 1 -> 0 .. MAX_OFFSET]
<1>8. BuffersOK'
  BY ONLY <1>1, <1>2, <1>4, warp' = [warp EXCEPT ![i] = w] DEF BuffersOK
<1>9. warp'[i] = w /\ \A k \in Chunks : k # i => warp'[k] = warp[k]
  BY ONLY <1>2, warp' = [warp EXCEPT ![i] = w], i \in Chunks DEF BuffersOK
<1>10. ASSUME NEW k \in Chunks
       PROVE  ChunkOK(job', asked'.max, Ops', Through(k)', HT_size', Table(k)', k, warp'[k],
                      comp'[k], compBytes'[k], sizes'[k], out'[k], actual'[k], statuses'[k])
  <2>1. ChunkOK(job, asked.max, Ops, Through(k), HT_size, Table(k), k, warp[k],
                comp[k], compBytes[k], sizes[k], out[k], actual[k], statuses[k])
    BY ONLY BatchInv DEF BatchInv, ChunksOK
  <2>2. CASE k # i
    <3>1. Table(k)' = Table(k) /\ warp'[k] = warp[k]
      BY ONLY <1>7, <1>9, <2>2 DEF OneTable
    <3>2. QED
      BY ONLY <1>1, <1>4, <1>6, <2>1, <3>1
  <2>3. CASE k = i
    <3>1. Table(k)' = table /\ warp'[k] = w
      BY ONLY <1>7, <1>9, <2>3 DEF OneTable
    <3>2. WarpOK(job, Ops, Through(k), HT_size, table, k, w)
      BY ONLY <1>3, <2>3, job.format = "lz4", AtWork(job, HT_size, table, i, w) DEF WarpOK, Going
    <3>3. ChunkOK(job, asked.max, Ops, Through(k), HT_size, table, k, w,
                  comp[k], compBytes[k], sizes[k], out[k], actual[k], statuses[k])
      BY ONLY <2>1, <3>2 DEF ChunkOK
    <3>4. QED
      BY ONLY <1>1, <1>4, <1>6, <3>1, <3>3
  <2>4. QED
    BY ONLY <2>2, <2>3
<1>11. ChunksOK'
  BY ONLY <1>4, <1>10 DEF ChunksOK
<1>12. QED
  BY ONLY <1>4, <1>5, <1>7, <1>8, <1>11 DEF BatchInv, OneTable

\* An LZ4 job that compresses has elements of up to four bytes.
LEMMA Lz4Job ==
  ASSUME HostOK, Going, job.format = "lz4", NEW i \in Chunks
  PROVE  /\ job.T \in {1, 2, 4} /\ job.chunks[i] \in Seq(Nat) /\ Size(i) = Len(job.chunks[i])
         /\ Len(job.chunks[i]) \in Nat /\ Len(job.chunks[i]) <= job.max /\ job.max \in Nat
         /\ asked.max = maxSizeOfStream(job.max)
<1>1. job.T \in {1, 2, 4, 8}
  <2>1. job \in Job
    BY ONLY JobOK, HostOK
  <2>2. QED
    BY ONLY <2>1 DEF Job
<1>2. job.T # 8
  BY ONLY HostOK, Going, job.format = "lz4" DEF HostOK, AskedInv, Going
<1>3. /\ SizeOf(job, i) \in Nat /\ job.max \in Nat /\ SizeOf(job, i) <= job.max
      /\ job.chunks[i] \in Seq(Nat) /\ SizeOf(job, i) = Len(job.chunks[i]) /\ SizeOf(job, i) = Size(i)
  BY ONLY SizeAndRoom, SizesHere, HostOK, i \in Chunks, job.format = "lz4"
<1>4. asked.max = maxSizeOfStream(job.max)
  <2>1. MaxOutputChunkSize = exception_to_error(lz4ComputeMaxSize)
    BY ONLY job.format = "lz4" DEF MaxOutputChunkSize, LZ4GetMaxOutputChunkSize
  <2>2. lz4ComputeMaxSize # Throws
    BY ONLY Going, <2>1 DEF Going, exception_to_error, Success, InvalidValue
  <2>3. MaxOutputChunkSize.bytes = lz4ComputeMaxSize
    BY ONLY <2>1 DEF exception_to_error
  <2>4. QED
    BY ONLY Going, <2>2, <2>3 DEF Going, lz4ComputeMaxSize
<1>5. QED
  BY ONLY <1>1, <1>2, <1>3, <1>4

\* A table is emptied, and a warp begins.
LEMMA ResetKeeps ==
  ASSUME BatchInv, NEW i \in Chunks, Lz4Reset(i)
  PROVE  BatchInv'
<1>1. /\ Running("compress", i) /\ job.format = "lz4"
      /\ warp' = [warp EXCEPT ![i] = [at |-> 0, tokenStart |-> 0, out |-> << >>]]
      /\ UNCHANGED << job, host, stream, comp, compBytes, sizes, out, actual, statuses >>
      /\ temp' = [a \in DOMAIN temp |-> IF a \in Slice(i, HT_size) THEN NULL_OFFSET ELSE temp[a]]
  BY ONLY Lz4Reset(i) DEF Lz4Reset
<1>2. HostOK
  BY ONLY BatchInv DEF BatchInv
<1>3. Going
  BY ONLY CompressGoing, BatchInv, <1>1, i \in Chunks
<1>4. PICK n \in Nat \ {0} : n = HT_size
  BY TableSize
<1>5. PICK table : table = [h \in 0 .. n - 1 |-> NULL_OFFSET]
  OBVIOUS
<1>6. NULL_OFFSET \in 0 .. MAX_OFFSET
  BY ONLY Lz4Parameters DEF NULL_OFFSET, MAX_OFFSET, OffsetRange
<1>7. table \in [0 .. HT_size - 1 -> 0 .. MAX_OFFSET]
  BY ONLY <1>4, <1>5, <1>6
<1>8. Sliced(i, table)
  <2>1. PICK w \in Nat : w = (i - 1) * n /\ Slice(i, n) = w .. w + n - 1
    <3>1. i \in Nat \ {0}
      BY ONLY i \in Chunks DEF Chunks
    <3>2. QED
      BY ONLY SliceIs, <3>1, n \in Nat \ {0}
  <2>2. \A a \in Slice(i, n) : a - w \in 0 .. n - 1
    BY ONLY <2>1, n \in Nat \ {0}, w \in Nat
  <2>3. \A a \in Slice(i, n) : table[a - w] = NULL_OFFSET
    BY ONLY <1>5, <2>2
  <2>4. [a \in DOMAIN temp |-> IF a \in Slice(i, n) THEN NULL_OFFSET ELSE temp[a]]
         = [a \in DOMAIN temp |-> IF a \in Slice(i, n) THEN table[a - w] ELSE temp[a]]
    BY ONLY <2>3
  <2>5. QED
    BY ONLY <1>1, <1>4, <2>1, <2>4 DEF Sliced
<1>9. PICK d \in Seq(Nat), len \in Nat, T \in {1, 2, 4} : d = job.chunks[i] /\ len = Len(d) /\ T = job.T
  BY ONLY Lz4Job, <1>1, <1>2, <1>3, i \in Chunks
<1>10. PICK E \in Nat : E = RoundUpDiv(len, T) /\ (E = 0 <=> len = 0)
  <2>1. T \in Nat \ {0}
    BY ONLY T \in {1, 2, 4}
  <2>2. RoundUpDiv(len, T) \in Nat /\ (RoundUpDiv(len, T) = 0 <=> len = 0)
    BY ONLY RoundedUp, <2>1, len \in Nat
  <2>3. QED
    BY ONLY <2>2
<1>11. LzState(d, T, E, n, 0, 0, table, << >>, NarrowAt(job, i))
  <2>1. TableOK(table, n, 0)
    BY ONLY <1>4, <1>5, <1>7 DEF TableOK
  <2>2. << >> \in Seq(Int) /\ Len(<< >>) = 0
    OBVIOUS
  <2>3. 0 * T = 0
    BY ONLY T \in {1, 2, 4}
  <2>4. Told(<< >>, d, 0, NarrowAt(job, i))
    BY ONLY ToldNothing
  <2>5. Bounded(<< >>, 0)
    BY ONLY <2>2, Lz4Parameters DEF Bounded
  <2>6. 0 = E => Complete(<< >>, d, NarrowAt(job, i)) /\ Len(<< >>) <= Len(d) + 1 + RoundUpDiv(Len(d), LsicMax)
    <3>1. ASSUME 0 = E PROVE d = << >>
      BY ONLY <1>9, <1>10, <3>1
    <3>2. LsicMax \in Nat \ {0}
      BY ONLY Lz4Parameters
    <3>3. RoundUpDiv(Len(d), LsicMax) \in Nat
      BY ONLY RoundedUp, <1>9, <3>2, len \in Nat
    <3>4. QED
      BY ONLY <1>9, <2>2, <3>1, <3>3, len \in Nat DEF Complete
  <2>7. /\ E = RoundUpDiv(Len(d), T) /\ 0 \in Nat /\ 0 <= E /\ 0 <= 0
    BY ONLY <1>9, <1>10, E \in Nat
  <2>8. QED
    BY ONLY <2>1, <2>2, <2>3, <2>4, <2>5, <2>6, <2>7 DEF LzState
<1>12. PICK w : w = [at |-> 0, tokenStart |-> 0, out |-> << >>]
  OBVIOUS
<1>13. AtWork(job, HT_size, table, i, w)
  BY ONLY <1>4, <1>9, <1>10, <1>11, <1>12 DEF AtWork
<1>14. QED
  BY ONLY WorkingInv, BatchInv, i \in Chunks, <1>1, <1>7, <1>8, <1>12, <1>13

\* The warp of a chunk at work.
LEMMA WarpAtWork ==
  ASSUME BatchInv, NEW i \in Chunks, warp[i] # NoWarp
  PROVE  job.format = "lz4" /\ AtWork(job, HT_size, Table(i), i, warp[i])
<1>1. WarpOK(job, Ops, Through(i), HT_size, Table(i), i, warp[i])
  BY ONLY OfChunk, BatchInv, i \in Chunks
<1>2. QED
  BY ONLY <1>1, warp[i] # NoWarp DEF WarpOK

\* A turn of a warp.
LEMMA TurnKeeps ==
  ASSUME BatchInv, NEW i \in Chunks, Lz4Turn(i)
  PROVE  BatchInv'
<1>1. /\ Running("compress", i) /\ warp[i] # NoWarp
      /\ warp[i].at < RoundUpDiv(Size(i), job.T)
      /\ UNCHANGED << job, host, stream, comp, compBytes, sizes, out, actual, statuses >>
  BY ONLY Lz4Turn(i) DEF Lz4Turn
<1>2. PICK s, before :
        /\ before = [at |-> warp[i].at, tokenStart |-> warp[i].tokenStart, table |-> Table(i),
                     out |-> warp[i].out]
        /\ s = compressTurn(job.chunks[i], job.T, before)
        /\ temp' = [a \in DOMAIN temp |->
              IF a \in Slice(i, HT_size) THEN s.table[a - (i - 1) * HT_size] ELSE temp[a]]
        /\ warp' = [warp EXCEPT ![i] = [at |-> s.at, tokenStart |-> s.tokenStart, out |-> s.out]]
  BY ONLY Lz4Turn(i) DEF Lz4Turn, Table
<1>3. HostOK
  BY ONLY BatchInv DEF BatchInv
<1>4. Going
  BY ONLY CompressGoing, BatchInv, <1>1, i \in Chunks
<1>5. PICK n \in Nat \ {0} : n = HT_size
  BY TableSize
<1>6. job.format = "lz4" /\ AtWork(job, HT_size, Table(i), i, warp[i])
  BY ONLY WarpAtWork, BatchInv, <1>1, i \in Chunks
<1>7. PICK d \in Seq(Nat), len \in Nat, T \in {1, 2, 4} :
        d = job.chunks[i] /\ len = Len(d) /\ T = job.T /\ len = Size(i)
  BY ONLY Lz4Job, <1>3, <1>4, <1>6, i \in Chunks
<1>8. PICK E \in Nat : E = RoundUpDiv(len, T)
  BY ONLY RoundedUp, len \in Nat, T \in {1, 2, 4}
<1>9. PICK exact : exact = NarrowAt(job, i)
  OBVIOUS
<1>10. PICK at, ts, str : /\ warp[i] = [at |-> at, tokenStart |-> ts, out |-> str]
                          /\ LzState(d, T, E, n, at, ts, Table(i), str, exact)
  BY ONLY <1>5, <1>6, <1>7, <1>8, <1>9 DEF AtWork
<1>11. at \in Nat /\ ts \in Nat /\ str \in Seq(Int)
  BY ONLY <1>10 DEF LzState
<1>12. at < E
  BY ONLY <1>1, <1>7, <1>8, <1>10
<1>13. before = Kept(at, ts, Table(i), str)
  <2>1. warp[i].at = at /\ warp[i].tokenStart = ts /\ warp[i].out = str
    BY ONLY <1>10
  <2>2. QED
    BY ONLY <1>2, <2>1 DEF Kept
<1>14. Turned(d, T, E, n, exact, s)
  <2>1. exact => Narrow(d, T)
    BY ONLY <1>7, <1>9 DEF NarrowAt
  <2>2. Turned(d, T, E, n, exact, compressTurn(d, T, Kept(at, ts, Table(i), str)))
    BY ONLY Turn, <1>10, <1>11, <1>12, <2>1, d \in Seq(Nat), T \in {1, 2, 4}, E \in Nat, n \in Nat \ {0}, Zenon
  <2>3. QED
    BY ONLY <1>2, <1>7, <1>13, <2>2
<1>15. PICK at2, ts2, table2, str2 :
         s = Kept(at2, ts2, table2, str2) /\ LzState(d, T, E, n, at2, ts2, table2, str2, exact)
  BY ONLY <1>14 DEF Turned
<1>16. s.at = at2 /\ s.tokenStart = ts2 /\ s.table = table2 /\ s.out = str2
  BY ONLY <1>15 DEF Kept
<1>17. table2 \in [0 .. HT_size - 1 -> 0 .. MAX_OFFSET]
  BY ONLY <1>5, <1>15 DEF LzState, TableOK
<1>18. PICK w : w = [at |-> at2, tokenStart |-> ts2, out |-> str2] /\ warp' = [warp EXCEPT ![i] = w]
  BY ONLY <1>2, <1>16
<1>19. AtWork(job, HT_size, table2, i, w)
  BY ONLY <1>5, <1>7, <1>8, <1>9, <1>15, <1>18 DEF AtWork
<1>20. Sliced(i, table2)
  BY ONLY <1>2, <1>16 DEF Sliced
<1>21. QED
  BY ONLY WorkingInv, BatchInv, i \in Chunks, <1>1, <1>6, <1>17, <1>18, <1>19, <1>20

\* A larger size has no smaller bound.
LEMMA StreamBound ==
  ASSUME NEW d \in Nat, NEW m \in Nat, d <= m
  PROVE  /\ maxSizeOfStream(m) \in Nat
         /\ d + 1 + RoundUpDiv(d, LsicMax) <= maxSizeOfStream(m)
<1>1. PICK L \in Nat \ {0} : L = LsicMax
  BY ONLY Lz4Parameters
<1>2. PICK x \in Nat : x = RoundUpDiv(d, L) /\ \A p \in Nat : p < x => p * L < d
  BY ONLY RoundedUp, d \in Nat, L \in Nat \ {0}
<1>3. PICK y \in Nat : y = RoundUpDiv(m, L) /\ m <= y * L
  BY ONLY RoundedUp, m \in Nat, L \in Nat \ {0}
<1>4. x <= y
  <2>1. PICK yl \in Nat : yl = y * L
    BY ONLY Product, y \in Nat, L \in Nat \ {0}
  <2>2. y < x => yl < d
    BY ONLY <1>2, <2>1, y \in Nat
  <2>3. QED
    BY ONLY <1>3, <2>1, <2>2, d <= m, yl \in Nat, d \in Nat, m \in Nat, x \in Nat, y \in Nat
<1>5. PICK u \in Nat : u = m + 1 + y
  BY ONLY m \in Nat, y \in Nat
<1>6. RoundUpDiv(u, 8) \in Nat /\ u <= RoundUpDiv(u, 8) * 8
  BY ONLY RoundedUp, u \in Nat, 8 \in Nat \ {0}
<1>7. maxSizeOfStream(m) = RoundUpDiv(u, 8) * 8
  BY ONLY <1>1, <1>3, <1>5 DEF maxSizeOfStream, RoundUpTo
<1>8. PICK v \in Nat : v = RoundUpDiv(u, 8)
  BY ONLY <1>6
<1>9. QED
  BY ONLY <1>1, <1>2, <1>4, <1>5, <1>6, <1>7, <1>8, d <= m, d \in Nat, m \in Nat, x \in Nat, y \in Nat,
          u \in Nat, v \in Nat

\* A warp at the end has written the stream.
LEMMA WrittenKeeps ==
  ASSUME BatchInv, NEW i \in Chunks, Lz4Written(i)
  PROVE  BatchInv'
<1>1. /\ Running("compress", i) /\ warp[i] # NoWarp /\ Finish(i) /\ temp' = temp
      /\ warp[i].at >= RoundUpDiv(Size(i), job.T)
      /\ Compressed(i, warp[i].out, Len(warp[i].out)) /\ warp' = [warp EXCEPT ![i] = NoWarp]
  BY ONLY Lz4Written(i) DEF Lz4Written
<1>2. HostOK /\ BuffersOK
  BY ONLY BatchInv DEF BatchInv
<1>3. Going
  BY ONLY CompressGoing, BatchInv, <1>1, i \in Chunks
<1>4. job.format = "lz4" /\ AtWork(job, HT_size, Table(i), i, warp[i])
  BY ONLY WarpAtWork, BatchInv, <1>1, i \in Chunks
<1>5. PICK d \in Seq(Nat), len \in Nat, m \in Nat, T \in {1, 2, 4} :
        /\ d = job.chunks[i] /\ len = Len(d) /\ T = job.T /\ len = Size(i)
        /\ m = job.max /\ len <= m /\ asked.max = maxSizeOfStream(m)
  BY ONLY Lz4Job, <1>2, <1>3, <1>4, i \in Chunks
<1>6. PICK E \in Nat : E = RoundUpDiv(len, T)
  BY ONLY RoundedUp, len \in Nat, T \in {1, 2, 4}
<1>7. PICK at, ts, str : /\ warp[i] = [at |-> at, tokenStart |-> ts, out |-> str]
                         /\ LzState(d, T, E, HT_size, at, ts, Table(i), str, NarrowAt(job, i))
  BY ONLY <1>4, <1>5, <1>6 DEF AtWork
<1>8. at \in Nat /\ at <= E /\ str \in Seq(Int)
  BY ONLY <1>7 DEF LzState
<1>9. warp[i].at = at /\ warp[i].out = str
  BY ONLY <1>7
<1>10. at = E
  BY ONLY <1>1, <1>5, <1>6, <1>8, <1>9, E \in Nat
<1>11. Complete(str, d, NarrowAt(job, i)) /\ Len(str) <= len + 1 + RoundUpDiv(len, LsicMax)
  BY ONLY <1>5, <1>7, <1>10 DEF LzState
<1>12. Stored(job, i, str, Len(str))
  BY ONLY <1>4, <1>5, <1>8, <1>11 DEF Stored, Libraries
<1>13. Len(str) \in 0 .. asked.max
  <2>1. PICK M \in Nat : M = maxSizeOfStream(m) /\ len + 1 + RoundUpDiv(len, LsicMax) <= M
    BY ONLY StreamBound, <1>5, len \in Nat, m \in Nat
  <2>2. PICK x \in Nat : x = RoundUpDiv(len, LsicMax)
    <3>1. LsicMax \in Nat \ {0}
      BY ONLY Lz4Parameters
    <3>2. QED
      BY ONLY RoundedUp, <3>1, len \in Nat
  <2>3. PICK l \in Nat : l = Len(str)
    BY ONLY <1>8
  <2>4. QED
    BY ONLY <1>5, <1>11, <2>1, <2>2, <2>3, l \in Nat, M \in Nat, x \in Nat, len \in Nat
<1>14. WarpRests(i)
  BY ONLY <1>1, <1>2, i \in Chunks DEF WarpRests, BuffersOK
<1>15. Compressed(i, str, Len(str))
  BY ONLY <1>1, <1>9
<1>16. QED
  BY ONLY StoredInv, BatchInv, i \in Chunks, <1>1, <1>12, <1>13, <1>14, <1>15

-----------------------------------------------------------------------------
(* The steps of the host. *)

\* What the size functions answer depends on the job alone.
LEMMA SizesStay ==
  ASSUME job' = job
  PROVE  TempSize' = TempSize /\ MaxOutputChunkSize' = MaxOutputChunkSize
BY ONLY job' = job
   DEF TempSize, LZ4GetTempSize, SnappyGetTempSize, CascadedGetTempSize, GdeflateGetTempSize,
       BitcompGetTempSize, ANSGetTempSize, lz4BatchCompressComputeTempSize,
       MaxOutputChunkSize, LZ4GetMaxOutputChunkSize, SnappyGetMaxOutputChunkSize,
       CascadedGetMaxOutputChunkSize, GdeflateGetMaxOutputChunkSize,
       BitcompGetMaxOutputChunkSize, ANSGetMaxOutputChunkSize, lz4ComputeMaxSize,
       getGdeflateEnumFromFormatOpts

\* Launches that are queued leave the chunks as they are.
LEMMA HostMoves ==
  ASSUME BatchInv, UNCHANGED << job, asked, device >>, HostOK', StreamOK', Ops \subseteq Ops',
         \A k \in Chunks : Through(k)' = Through(k)
  PROVE  BatchInv'
<1>1. /\ job' = job /\ asked' = asked /\ temp' = temp /\ warp' = warp /\ comp' = comp
      /\ compBytes' = compBytes /\ sizes' = sizes /\ out' = out /\ actual' = actual
      /\ statuses' = statuses
  BY ONLY UNCHANGED << job, asked, device >> DEF device
<1>2. TempOK /\ BuffersOK
  BY ONLY BatchInv DEF BatchInv
<1>3. Chunks' = Chunks /\ HT_size' = HT_size
  BY ONLY <1>1 DEF Chunks, HT_size
<1>4. TempOK'
  BY ONLY <1>1, <1>2 DEF TempOK, TempInv
<1>5. BuffersOK'
  BY ONLY <1>1, <1>2, <1>3 DEF BuffersOK
<1>6. \A k : Table(k)' = Table(k)
  BY ONLY <1>1, <1>3 DEF Table
<1>7. ASSUME NEW k \in Chunks
      PROVE  ChunkOK(job', asked'.max, Ops', Through(k)', HT_size', Table(k)', k, warp'[k],
                     comp'[k], compBytes'[k], sizes'[k], out'[k], actual'[k], statuses'[k])
  <2>1. ChunkOK(job, asked.max, Ops, Through(k), HT_size, Table(k), k, warp[k],
                comp[k], compBytes[k], sizes[k], out[k], actual[k], statuses[k])
    BY ONLY BatchInv DEF BatchInv, ChunksOK
  <2>2. WarpOK(job, Ops', Through(k), HT_size, Table(k), k, warp[k])
    <3>1. WarpOK(job, Ops, Through(k), HT_size, Table(k), k, warp[k])
      BY ONLY <2>1 DEF ChunkOK
    <3>2. "compress" \in Ops => "compress" \in Ops'
      BY ONLY Ops \subseteq Ops'
    <3>3. QED
      BY ONLY <3>1, <3>2 DEF WarpOK
  <2>3. ChunkOK(job, asked.max, Ops', Through(k), HT_size, Table(k), k, warp[k],
                comp[k], compBytes[k], sizes[k], out[k], actual[k], statuses[k])
    BY ONLY <2>1, <2>2 DEF ChunkOK
  <2>4. Through(k)' = Through(k) /\ Table(k)' = Table(k)
    BY ONLY <1>6, \A h \in Chunks : Through(h)' = Through(h)
  <2>5. QED
    BY ONLY <1>1, <1>3, <2>3, <2>4
<1>8. ChunksOK'
  BY ONLY <1>3, <1>7 DEF ChunksOK
<1>9. QED
  BY ONLY <1>4, <1>5, <1>8, HostOK', StreamOK' DEF BatchInv

\* A run that stops has nothing in its stream.
Stopping ==
  /\ call' = "stopped" /\ code' \in {InvalidValue, NotSupported} /\ stream' = stream
  /\ lastError' = lastError \/ lastError' = FALSE

\* A call that stops the run keeps the invariant.
LEMMA StopKeeps ==
  ASSUME BatchInv, UNCHANGED << job, asked, device >>, Stopping, Queued = 0 \/ Chunks = {}
  PROVE  BatchInv'
<1>1. job' = job /\ asked' = asked
  BY ONLY UNCHANGED << job, asked, device >>
<1>2. HostOK /\ StreamOK
  BY ONLY BatchInv DEF BatchInv
<1>3. Plan' = Plan /\ Chunks' = Chunks /\ Queued' = 0
  BY ONLY <1>1, Stopping DEF Plan, Chunks, Queued, Stopping
<1>4. lastError' \in BOOLEAN /\ (~ lastError => ~ lastError')
  <2>1. lastError \in BOOLEAN /\ (lastError' = lastError \/ lastError' = FALSE)
    BY ONLY <1>2, Stopping, Zenon DEF HostOK, Stopping
  <2>2. CASE lastError' = lastError
    BY ONLY <2>1, <2>2, Zenon
  <2>3. CASE lastError' = FALSE
    <3>1. lastError' \in BOOLEAN
      BY ONLY <2>3, Zenon
    <3>2. ~ lastError'
      BY ONLY <2>3, Zenon
    <3>3. QED
      BY ONLY <3>1, <3>2, Zenon
  <2>4. QED
    BY ONLY <2>1, <2>2, <2>3, Zenon
<1>5. HostOK'
  <2>1. AskedInv'
    BY ONLY <1>1, <1>2, <1>3, Stopping DEF AskedInv, HostOK, Stopping
  <2>2. QED
    BY ONLY <1>1, <1>2, <1>4, <2>1, Stopping DEF HostOK, Stopping
<1>6. stream = << >>
  <2>1. CASE Chunks = {}
    BY ONLY <1>2, <2>1 DEF StreamOK
  <2>2. CASE Queued = 0
    <3>1. Len(stream) <= 0 /\ stream \in Seq([op : Opcode, blocks : SUBSET Chunks])
      BY ONLY <1>2, <2>2 DEF StreamOK, Ordered
    <3>2. QED
      BY ONLY <3>1
  <2>3. QED
    BY ONLY <2>1, <2>2, Queued = 0 \/ Chunks = {}
<1>7. StreamOK'
  <2>1. Ordered(<< >>, 0, Plan, Chunks)
    <3>1. << >> \in Seq([op : Opcode, blocks : SUBSET Chunks]) /\ Len(<< >>) = 0
      OBVIOUS
    <3>2. QED
      BY ONLY <3>1 DEF Ordered
  <2>2. stream' = << >>
    BY ONLY <1>6, Stopping DEF Stopping
  <2>3. QED
    BY ONLY <1>2, <1>3, <1>4, <2>1, <2>2 DEF StreamOK
<1>8. CASE Chunks = {}
  <2>1. \A k \in Chunks : Through(k)' = Through(k)
    BY ONLY <1>8
  <2>2. TempOK' /\ BuffersOK'
    BY ONLY BatchInv, <1>1, <1>3, UNCHANGED << job, asked, device >>
       DEF BatchInv, TempOK, TempInv, BuffersOK, device
  <2>3. ChunksOK'
    BY ONLY <1>3, <1>8 DEF ChunksOK
  <2>4. QED
    BY ONLY <1>5, <1>7, <2>2, <2>3 DEF BatchInv
<1>9. CASE Queued = 0
  <2>1. Ops' = Ops /\ \A k \in Chunks : Through(k)' = Through(k)
    <3>1. stream' = stream /\ Queued' = Queued
      BY ONLY <1>3, <1>9, Stopping DEF Stopping
    <3>2. QED
      BY ONLY <1>3, <3>1 DEF Ops, Through
  <2>2. Ops \subseteq Ops'
    BY ONLY <2>1
  <2>3. QED
    BY ONLY HostMoves, BatchInv, UNCHANGED << job, asked, device >>, <1>5, <1>7, <2>1, <2>2
<1>10. QED
  BY ONLY <1>8, <1>9, Queued = 0 \/ Chunks = {}

\* A call that queues launches, or that has none to queue.
Queueing(ops, next) ==
  /\ call' = next /\ code' = Success /\ lastError' \in BOOLEAN
  /\ Chunks = {} => stream' = stream
  /\ Chunks # {} => stream' = Added(stream, ops, Chunks) /\ lastError' = lastError

\* The launches are the next of the plan.
OnPlan(ops, next) ==
  /\ ops \in Seq(Opcode) /\ next \in {"query", "decompress", "done"}
  /\ call \in {"compress", "query", "decompress"} /\ job.format # "ans"
  /\ Queued' \in Nat /\ Queued' <= Len(Plan) /\ NextOps(Queued, Queued', ops, Plan)

\* A call that queues the next launches keeps the invariant.
LEMMA QueueKeeps ==
  ASSUME BatchInv, UNCHANGED << job, asked, device >>, NEW ops, NEW next,
         Queueing(ops, next), OnPlan(ops, next),
         job.format = "lz4" => job.T # 8 /\ scratch_bytes(job.max, Len(job.chunks)) <= asked.temp - job.short
  PROVE  BatchInv'
<1>1. job' = job /\ asked' = asked
  BY ONLY UNCHANGED << job, asked, device >>
<1>2. HostOK /\ StreamOK
  BY ONLY BatchInv DEF BatchInv
<1>3. Plan' = Plan /\ Chunks' = Chunks
  BY ONLY <1>1 DEF Plan, Chunks
<1>4. PICK r \in Nat : r = Queued' /\ r <= Len(Plan) /\ NextOps(Queued, r, ops, Plan)
  BY ONLY OnPlan(ops, next) DEF OnPlan
<1>5. HostOK'
  <2>1. TempSize' = TempSize /\ MaxOutputChunkSize' = MaxOutputChunkSize
    BY ONLY SizesStay, <1>1
  <2>2. AskedInv
    BY ONLY <1>2 DEF HostOK
  <2>3. AskedInv'
    BY ONLY <1>1, <2>1, <2>2, OnPlan(ops, next),
            job.format = "lz4" => job.T # 8 /\ scratch_bytes(job.max, Len(job.chunks)) <= asked.temp - job.short
       DEF AskedInv, OnPlan
  <2>4. QED
    BY ONLY <1>1, <1>2, <2>3, Queueing(ops, next), OnPlan(ops, next) DEF HostOK, Queueing, OnPlan
<1>6. Len(Plan) \in Nat /\ Distinct(Plan) /\ Queued \in Nat
  BY ONLY PlanOK, <1>2
<1>7. CASE Chunks = {}
  <2>1. stream' = << >>
    BY ONLY <1>2, <1>7, Queueing(ops, next) DEF StreamOK, Queueing
  <2>2. Ordered(<< >>, r, Plan, Chunks)
    <3>1. << >> \in Seq([op : Opcode, blocks : SUBSET Chunks]) /\ Len(<< >>) = 0
      OBVIOUS
    <3>2. QED
      BY ONLY <3>1, r \in Nat DEF Ordered
  <2>3. StreamOK'
    BY ONLY <1>3, <1>4, <1>7, <2>1, <2>2 DEF StreamOK
  <2>4. TempOK' /\ BuffersOK'
    BY ONLY BatchInv, <1>1, <1>3, UNCHANGED << job, asked, device >>
       DEF BatchInv, TempOK, TempInv, BuffersOK, device
  <2>5. ChunksOK'
    BY ONLY <1>3, <1>7 DEF ChunksOK
  <2>6. QED
    BY ONLY <1>5, <2>3, <2>4, <2>5 DEF BatchInv
<1>8. CASE Chunks # {}
  <2>1. stream' = Added(stream, ops, Chunks) /\ lastError' = lastError
    BY ONLY <1>8, Queueing(ops, next) DEF Queueing
  <2>2. Ordered(stream, Queued, Plan, Chunks)
    BY ONLY <1>2 DEF StreamOK
  <2>3. ops \in Seq(Opcode)
    BY ONLY OnPlan(ops, next) DEF OnPlan
  <2>4. /\ Ordered(Added(stream, ops, Chunks), r, Plan, Chunks)
        /\ DueOps(Queued, Plan) \subseteq DueOps(r, Plan)
        /\ \A j \in Chunks : DoneOps(Added(stream, ops, Chunks), r, Plan, j) = DoneOps(stream, Queued, Plan, j)
    <3>1. Lengthened(stream, Queued, r, ops, Plan, Chunks)
      BY ONLY LaunchDone, <1>4, <1>6, <1>8, <2>2, <2>3, r \in Nat, Zenon
    <3>2. QED
      BY ONLY <3>1 DEF Lengthened
  <2>5. StreamOK'
    BY ONLY <1>2, <1>3, <1>4, <1>8, <2>1, <2>4 DEF StreamOK
  <2>6. Ops \subseteq Ops' /\ \A k \in Chunks : Through(k)' = Through(k)
    BY ONLY <1>3, <1>4, <2>1, <2>4 DEF Ops, Through
  <2>7. QED
    BY ONLY HostMoves, BatchInv, UNCHANGED << job, asked, device >>, <1>5, <2>5, <2>6
<1>9. QED
  BY ONLY <1>7, <1>8

\* The launches of a call, in the order of the calls.
Steps(ops, next) ==
  \/ call = "compress" /\ next = "query" /\ ops = << "compress" >>
  \/ call = "query" /\ next = "decompress" /\ ops = << "query" >>
  \/ /\ call = "decompress" /\ next = "done"
     /\ job.format \in {"lz4", "snappy"} => ops = << "decompress" >>
     /\ job.format = "cascaded" => ops = << "typed1", "typed2", "typed4", "typed8" >>
     /\ job.format = "gdeflate" => ops = << "decompress", "convert" >>
     /\ job.format = "bitcomp" => ops = << "decompress", "actual", "convert" >>

\* They are the next ones of the plan.
LEMMA StepsOnPlan ==
  ASSUME HostOK, NEW ops, NEW next, Steps(ops, next), job.format # "ans", job' = job, call' = next
  PROVE  OnPlan(ops, next)
<1>1. job.format \in {"lz4", "snappy", "cascaded", "gdeflate", "bitcomp"}
  <2>1. job \in Job
    BY ONLY JobOK, HostOK
  <2>2. QED
    BY ONLY <2>1, job.format # "ans" DEF Job, Formats, Libraries
<1>2. Plan' = Plan
  BY ONLY job' = job DEF Plan
<1>3. Plan[1] = "compress" /\ Plan[2] = "query" /\ Len(Plan) \in Nat /\ Len(Plan) >= 2
  BY ONLY <1>1 DEF Plan
<1>4. CASE call = "compress"
  <2>1. next = "query" /\ ops = << "compress" >>
    BY ONLY <1>4, Steps(ops, next) DEF Steps
  <2>2. Queued = 0 /\ Queued' = 1
    BY ONLY <1>4, <2>1, job.format # "ans", job' = job, call' = next DEF Queued
  <2>3. NextOps(0, 1, << "compress" >>, Plan)
    BY ONLY <1>3 DEF NextOps
  <2>4. ops \in Seq(Opcode)
    <3>1. "compress" \in Opcode /\ "query" \in Opcode
      BY ONLY DEF Opcode
    <3>2. QED
      BY ONLY <2>1, <3>1
  <2>5. QED
    BY ONLY <1>3, <1>4, <2>1, <2>2, <2>3, <2>4, job.format # "ans" DEF OnPlan
<1>5. CASE call = "query"
  <2>1. next = "decompress" /\ ops = << "query" >>
    BY ONLY <1>5, Steps(ops, next) DEF Steps
  <2>2. Queued = 1 /\ Queued' = 2
    BY ONLY <1>5, <2>1, job.format # "ans", job' = job, call' = next DEF Queued
  <2>3. NextOps(1, 2, << "query" >>, Plan)
    BY ONLY <1>3 DEF NextOps
  <2>4. ops \in Seq(Opcode)
    <3>1. "compress" \in Opcode /\ "query" \in Opcode
      BY ONLY DEF Opcode
    <3>2. QED
      BY ONLY <2>1, <3>1
  <2>5. QED
    BY ONLY <1>3, <1>5, <2>1, <2>2, <2>3, <2>4, job.format # "ans" DEF OnPlan
<1>6. CASE call = "decompress"
  <2>1. /\ next = "done"
        /\ job.format \in {"lz4", "snappy"} => ops = << "decompress" >>
        /\ job.format = "cascaded" => ops = << "typed1", "typed2", "typed4", "typed8" >>
        /\ job.format = "gdeflate" => ops = << "decompress", "convert" >>
        /\ job.format = "bitcomp" => ops = << "decompress", "actual", "convert" >>
    BY ONLY <1>6, Steps(ops, next) DEF Steps
  <2>2. Queued = 2 /\ Queued' = Len(Plan)
    BY ONLY <1>2, <1>6, <2>1, job.format # "ans", job' = job, call' = next DEF Queued
  <2>3. NextOps(2, Len(Plan), ops, Plan) /\ ops \in Seq(Opcode)
    <3>0. /\ "decompress" \in Opcode /\ "convert" \in Opcode /\ "actual" \in Opcode
          /\ "typed1" \in Opcode /\ "typed2" \in Opcode /\ "typed4" \in Opcode /\ "typed8" \in Opcode
      BY ONLY DEF Opcode
    <3>1. CASE job.format \in {"lz4", "snappy"}
      <4>1. Plan = << "compress", "query", "decompress" >> /\ ops = << "decompress" >>
        BY ONLY <2>1, <3>1 DEF Plan
      <4>2. ops \in Seq(Opcode)
        BY ONLY <3>0, <4>1
      <4>3. NextOps(2, Len(Plan), ops, Plan)
        BY ONLY <4>1 DEF NextOps
      <4>4. QED
        BY ONLY <4>2, <4>3
    <3>2. CASE job.format = "cascaded"
      <4>1. Plan = << "compress", "query", "typed1", "typed2", "typed4", "typed8" >>
            /\ ops = << "typed1", "typed2", "typed4", "typed8" >>
        BY ONLY <2>1, <3>2 DEF Plan
      <4>2. ops \in Seq(Opcode)
        BY ONLY <3>0, <4>1
      <4>3. NextOps(2, Len(Plan), ops, Plan)
        BY ONLY <4>1 DEF NextOps
      <4>4. QED
        BY ONLY <4>2, <4>3
    <3>3. CASE job.format = "gdeflate"
      <4>1. Plan = << "compress", "query", "decompress", "convert" >> /\ ops = << "decompress", "convert" >>
        BY ONLY <2>1, <3>3 DEF Plan
      <4>2. ops \in Seq(Opcode)
        BY ONLY <3>0, <4>1
      <4>3. NextOps(2, Len(Plan), ops, Plan)
        BY ONLY <4>1 DEF NextOps
      <4>4. QED
        BY ONLY <4>2, <4>3
    <3>4. CASE job.format = "bitcomp"
      <4>1. Plan = << "compress", "query", "decompress", "actual", "convert" >>
            /\ ops = << "decompress", "actual", "convert" >>
        BY ONLY <2>1, <3>4 DEF Plan
      <4>2. ops \in Seq(Opcode)
        BY ONLY <3>0, <4>1
      <4>3. NextOps(2, Len(Plan), ops, Plan)
        BY ONLY <4>1 DEF NextOps
      <4>4. QED
        BY ONLY <4>2, <4>3
    <3>5. QED
      BY ONLY <1>1, <3>1, <3>2, <3>3, <3>4
  <2>4. QED
    BY ONLY <1>3, <1>6, <2>1, <2>2, <2>3, job.format # "ans" DEF OnPlan
<1>7. QED
  BY ONLY <1>4, <1>5, <1>6, Steps(ops, next) DEF Steps

\* A call that launches, whether it looks at the outcome or not.
Launching(ops, next) ==
  \/ Launch(ops, next) \/ CheckedLaunch(ops, next)
  \/ Chunks = {} /\ (Checked \/ (Return(Success, next) /\ UNCHANGED << stream, lastError >>))

\* So does one that launches, whatever becomes of the launch.
LEMMA CallKeeps ==
  ASSUME BatchInv, UNCHANGED << job, asked, device >>, NEW ops, NEW next, Steps(ops, next),
         job.format # "ans", Launching(ops, next),
         job.format = "lz4" => job.T # 8 /\ scratch_bytes(job.max, Len(job.chunks)) <= asked.temp - job.short
  PROVE  BatchInv'
<1>1. HostOK /\ StreamOK
  BY ONLY BatchInv DEF BatchInv
<1>2. job' = job
  BY ONLY UNCHANGED << job, asked, device >>
<1>3. Chunks # {} => ~ lastError
  BY ONLY <1>1 DEF StreamOK
<1>4. lastError \in BOOLEAN
  BY ONLY <1>1, Zenon DEF HostOK
<1>5. ASSUME Checked, Chunks = {} PROVE BatchInv'
  <2>1. call' = "stopped" /\ code' = InvalidValue /\ lastError' = FALSE /\ stream' = stream
    BY ONLY <1>5 DEF Checked, Return, InvalidValue, Success
  <2>2. Stopping
    BY ONLY <2>1 DEF Stopping
  <2>3. QED
    BY ONLY StopKeeps, BatchInv, UNCHANGED << job, asked, device >>, <1>5, <2>2
<1>6. ASSUME Queueing(ops, next) PROVE BatchInv'
  <2>1. call' = next
    BY ONLY <1>6 DEF Queueing
  <2>2. OnPlan(ops, next)
    BY ONLY StepsOnPlan, <1>1, <1>2, <2>1, Steps(ops, next), job.format # "ans"
  <2>3. QED
    BY ONLY QueueKeeps, BatchInv, UNCHANGED << job, asked, device >>, <1>6, <2>2,
         job.format = "lz4" => job.T # 8 /\ scratch_bytes(job.max, Len(job.chunks)) <= asked.temp - job.short
<1>7. ASSUME Launch(ops, next) PROVE BatchInv'
  <2>1. /\ code' = Success /\ call' = next
        /\ Chunks = {} => lastError' = TRUE /\ stream' = stream
        /\ Chunks # {} => /\ stream' = stream \o [k \in DOMAIN ops |-> [op |-> ops[k], blocks |-> Chunks]]
                          /\ lastError' = lastError
    BY ONLY <1>7 DEF Launch, Return
  <2>2. Chunks # {} => stream' = Added(stream, ops, Chunks)
    BY ONLY <2>1 DEF Added
  <2>3. lastError' \in BOOLEAN
    <3>1. CASE Chunks = {}
      <4>1. lastError' = TRUE
        BY ONLY <2>1, <3>1
      <4>2. QED
        BY ONLY <4>1, Zenon
    <3>2. CASE Chunks # {}
      <4>1. lastError' = lastError
        BY ONLY <2>1, <3>2
      <4>2. QED
        BY ONLY <1>4, <4>1, Zenon
    <3>3. QED
      BY ONLY <3>1, <3>2, Zenon
  <2>4. Queueing(ops, next)
    BY ONLY <2>1, <2>2, <2>3, Zenon DEF Queueing
  <2>5. QED
    BY ONLY <1>6, <2>4
<1>8. ASSUME CheckedLaunch(ops, next) PROVE BatchInv'
  <2>1. CASE Chunks = {} \/ lastError
    <3>1. Checked /\ Chunks = {}
      BY ONLY <1>3, <1>8, <2>1, Zenon DEF CheckedLaunch
    <3>2. QED
      BY ONLY <1>5, <3>1
  <2>2. CASE ~ (Chunks = {} \/ lastError)
    <3>1. Launch(ops, next)
      BY ONLY <1>8, <2>2, Zenon DEF CheckedLaunch
    <3>2. QED
      BY ONLY <1>7, <3>1
  <2>3. QED
    BY ONLY <2>1, <2>2
<1>9. ASSUME Chunks = {}, Return(Success, next), UNCHANGED << stream, lastError >> PROVE BatchInv'
  <2>1. code' = Success /\ call' = next /\ stream' = stream /\ lastError' = lastError
    BY ONLY <1>9 DEF Return
  <2>2. lastError' \in BOOLEAN
    BY ONLY <1>4, <2>1, Zenon
  <2>3. Queueing(ops, next)
    BY ONLY <1>9, <2>1, <2>2, Zenon DEF Queueing
  <2>4. QED
    BY ONLY <1>6, <2>3
<1>10. QED
  BY ONLY <1>5, <1>7, <1>8, <1>9, Launching(ops, next), Zenon DEF Launching

\* A call that is refused.
LEMMA RefuseKeeps ==
  ASSUME BatchInv, UNCHANGED << job, asked, device >>, NEW result \in {InvalidValue, NotSupported},
         Refuse(result), Queued = 0
  PROVE  BatchInv'
<1>1. call' = "stopped" /\ code' = result /\ lastError' = lastError /\ stream' = stream
  BY ONLY result \in {InvalidValue, NotSupported}, Refuse(result)
     DEF Refuse, Return, InvalidValue, NotSupported, Success
<1>2. Stopping
  BY ONLY <1>1, result \in {InvalidValue, NotSupported}, Zenon DEF Stopping
<1>3. QED
  BY ONLY StopKeeps, BatchInv, UNCHANGED << job, asked, device >>, <1>2, Queued = 0

\* The scratch memory that was asked for is there once a compression is queued.
LEMMA ScratchThere ==
  ASSUME HostOK, job.format = "lz4", call \in {"query", "decompress"}
  PROVE  job.T # 8 /\ scratch_bytes(job.max, Len(job.chunks)) <= asked.temp - job.short
<1>1. Queued > 0
  BY ONLY job.format = "lz4", call \in {"query", "decompress"} DEF Queued
<1>2. QED
  BY ONLY <1>1, HostOK, job.format = "lz4" DEF HostOK, AskedInv

\* The call that compresses.
LEMMA HostCompressKeeps ==
  ASSUME BatchInv, HostCompress
  PROVE  BatchInv'
<1>1. call = "compress" /\ UNCHANGED << job, asked, device >>
  BY ONLY HostCompress DEF HostCompress
<1>2. /\ job.format = "lz4" => LZ4CompressAsync
      /\ job.format = "snappy" => SnappyCompressAsync
      /\ job.format = "cascaded" => CascadedCompressAsync
      /\ job.format = "gdeflate" => GdeflateCompressAsync
      /\ job.format = "bitcomp" => BitcompCompressAsync
      /\ job.format = "ans" => ANSCompressAsync
  BY ONLY HostCompress DEF HostCompress
<1>3. HostOK
  BY ONLY BatchInv DEF BatchInv
<1>4. job.format \in {"lz4", "snappy", "cascaded", "gdeflate", "bitcomp", "ans"} /\ job.short \in Nat
  <2>1. job \in Job
    BY ONLY JobOK, <1>3
  <2>2. QED
    BY ONLY <2>1 DEF Job, Formats, Libraries
<1>5. Queued = 0
  BY ONLY <1>1 DEF Queued
<1>6. PICK ops : ops = << "compress" >> /\ Steps(ops, "query")
  BY ONLY <1>1 DEF Steps
<1>7. ASSUME NEW result \in {InvalidValue, NotSupported}, Refuse(result) PROVE BatchInv'
  BY ONLY RefuseKeeps, BatchInv, <1>1, <1>5, <1>7
<1>8. ASSUME job.format \notin {"lz4", "ans"}, Launching(ops, "query") PROVE BatchInv'
  <2>1. job.format # "lz4" /\ job.format # "ans"
    BY ONLY <1>8
  <2>2. QED
    BY ONLY CallKeeps, BatchInv, <1>1, <1>6, <1>8, <2>1
<1>9. CASE job.format = "lz4"
  <2>1. CASE job.T = 8 \/ asked.temp - job.short < scratch_bytes(job.max, Len(job.chunks))
    <3>1. Refuse(InvalidValue)
      BY ONLY <1>2, <1>9, <2>1 DEF LZ4CompressAsync
    <3>2. QED
      BY ONLY <1>7, <3>1
  <2>2. CASE ~ (job.T = 8 \/ asked.temp - job.short < scratch_bytes(job.max, Len(job.chunks)))
    <3>1. Launching(ops, "query")
      BY ONLY <1>2, <1>6, <1>9, <2>2 DEF LZ4CompressAsync, Launching
    <3>2. PICK s \in Nat : s = scratch_bytes(job.max, Len(job.chunks))
      <4>1. HT_size \in Nat \ {0}
        BY TableSize
      <4>2. PICK n \in Nat : n = lz4GetHashTableSize(job.max)
        BY ONLY <4>1 DEF HT_size
      <4>3. PICK L \in Nat : L = Len(job.chunks)
        <5>1. job \in Job
          BY ONLY JobOK, <1>3
        <5>2. QED
          BY ONLY <5>1 DEF Job
      <4>4. PICK m \in Nat : m = n * 2
        BY ONLY n \in Nat
      <4>5. m * L \in Nat
        BY ONLY Product, m \in Nat, L \in Nat
      <4>6. QED
        BY ONLY <4>2, <4>3, <4>4, <4>5 DEF scratch_bytes, OffsetBytes
    <3>3. PICK t \in Int : t = asked.temp - job.short
      <4>1. asked.temp \in Nat
        BY ONLY <1>3 DEF HostOK
      <4>2. QED
        BY ONLY <1>4, <4>1
    <3>4. job.T # 8 /\ scratch_bytes(job.max, Len(job.chunks)) <= asked.temp - job.short
      BY ONLY <2>2, <3>2, <3>3, s \in Nat, t \in Int
    <3>5. job.format # "ans"
      BY ONLY <1>9
    <3>6. QED
      BY ONLY CallKeeps, BatchInv, <1>1, <1>6, <3>1, <3>4, <3>5
  <2>3. QED
    BY ONLY <2>1, <2>2
<1>10. CASE job.format = "snappy"
  <2>1. Launching(ops, "query")
    BY ONLY <1>2, <1>6, <1>10 DEF SnappyCompressAsync, Launching
  <2>2. QED
    BY ONLY <1>8, <1>10, <2>1
<1>11. CASE job.format = "cascaded"
  <2>1. Launching(ops, "query")
    BY ONLY <1>2, <1>6, <1>11 DEF CascadedCompressAsync, Launching
  <2>2. QED
    BY ONLY <1>8, <1>11, <2>1
<1>12. CASE job.format = "gdeflate"
  <2>1. Refuse(InvalidValue) \/ Launching(ops, "query")
    BY ONLY <1>2, <1>6, <1>12 DEF GdeflateCompressAsync, Launching
  <2>2. QED
    BY ONLY <1>7, <1>8, <1>12, <2>1
<1>13. CASE job.format = "bitcomp"
  <2>1. Launching(ops, "query")
    BY ONLY <1>2, <1>6, <1>13 DEF BitcompCompressAsync, Launching
  <2>2. QED
    BY ONLY <1>8, <1>13, <2>1
<1>14. CASE job.format = "ans"
  <2>1. Refuse(NotSupported)
    BY ONLY <1>2, <1>14 DEF ANSCompressAsync
  <2>2. QED
    BY ONLY <1>7, <2>1
<1>15. QED
  BY ONLY <1>4, <1>9, <1>10, <1>11, <1>12, <1>13, <1>14

\* The call that asks for the sizes of the chunks.
LEMMA HostQueryKeeps ==
  ASSUME BatchInv, HostQuery
  PROVE  BatchInv'
<1>1. call = "query" /\ UNCHANGED << job, asked, device >>
  BY ONLY HostQuery DEF HostQuery
<1>2. HostOK
  BY ONLY BatchInv DEF BatchInv
<1>3. job.format \in {"lz4", "snappy", "cascaded", "gdeflate", "bitcomp", "ans"}
  <2>1. job \in Job
    BY ONLY JobOK, <1>2
  <2>2. QED
    BY ONLY <2>1 DEF Job, Formats, Libraries
<1>4. PICK ops : ops = << "query" >> /\ Steps(ops, "decompress")
  BY ONLY <1>1 DEF Steps
<1>5. /\ job.format \in {"lz4", "snappy", "cascaded"} => CheckedLaunch(ops, "decompress")
      /\ job.format \in {"gdeflate", "bitcomp"} => Launch(ops, "decompress")
      /\ job.format = "ans" => Refuse(NotSupported)
  BY ONLY <1>3, <1>4, HostQuery
     DEF HostQuery, LZ4GetDecompressSizeAsync, SnappyGetDecompressSizeAsync,
         CascadedGetDecompressSizeAsync, GdeflateGetDecompressSizeAsync,
         BitcompGetDecompressSizeAsync, ANSGetDecompressSizeAsync
<1>6. CASE job.format # "ans"
  <2>1. Launching(ops, "decompress")
    BY ONLY <1>3, <1>5, <1>6 DEF Launching
  <2>2. job.format = "lz4" =>
          job.T # 8 /\ scratch_bytes(job.max, Len(job.chunks)) <= asked.temp - job.short
    BY ONLY ScratchThere, <1>1, <1>2
  <2>3. QED
    BY ONLY CallKeeps, BatchInv, <1>1, <1>4, <1>6, <2>1, <2>2
<1>7. CASE job.format = "ans"
  <2>1. Queued = 0 /\ Refuse(NotSupported)
    BY ONLY <1>5, <1>7 DEF Queued
  <2>2. QED
    BY ONLY RefuseKeeps, BatchInv, <1>1, <2>1
<1>8. QED
  BY ONLY <1>6, <1>7

\* The call that decompresses.
LEMMA HostDecompressKeeps ==
  ASSUME BatchInv, HostDecompress
  PROVE  BatchInv'
<1>1. call = "decompress" /\ UNCHANGED << job, asked, device >>
  BY ONLY HostDecompress DEF HostDecompress
<1>2. HostOK
  BY ONLY BatchInv DEF BatchInv
<1>3. job.format \in {"lz4", "snappy", "cascaded", "gdeflate", "bitcomp", "ans"}
  <2>1. job \in Job
    BY ONLY JobOK, <1>2
  <2>2. QED
    BY ONLY <2>1 DEF Job, Formats, Libraries
<1>4. CASE job.format = "ans"
  <2>1. Queued = 0
    BY ONLY <1>4 DEF Queued
  <2>2. Refuse(NotSupported)
    BY ONLY <1>4, HostDecompress DEF HostDecompress, ANSDecompressAsync
  <2>3. QED
    BY ONLY RefuseKeeps, BatchInv, <1>1, <2>1, <2>2
<1>5. CASE job.format # "ans"
  <2>1. \E ops : Steps(ops, "done") /\ Launching(ops, "done")
    <3>1. CASE job.format \in {"lz4", "snappy"}
      <4>1. PICK ops : ops = << "decompress" >>
        OBVIOUS
      <4>2. Steps(ops, "done")
        BY ONLY <1>1, <3>1, <4>1 DEF Steps
      <4>3. CheckedLaunch(ops, "done")
        BY ONLY <3>1, <4>1, HostDecompress DEF HostDecompress, LZ4DecompressAsync, SnappyDecompressAsync
      <4>4. QED
        BY ONLY <4>2, <4>3 DEF Launching
    <3>2. CASE job.format = "cascaded"
      <4>1. PICK ops : ops = << "typed1", "typed2", "typed4", "typed8" >>
        OBVIOUS
      <4>2. Steps(ops, "done")
        BY ONLY <1>1, <3>2, <4>1 DEF Steps
      <4>3. CheckedLaunch(ops, "done")
        BY ONLY <3>2, <4>1, HostDecompress DEF HostDecompress, CascadedDecompressAsync
      <4>4. QED
        BY ONLY <4>2, <4>3 DEF Launching
    <3>3. CASE job.format = "gdeflate"
      <4>1. PICK ops : ops = << "decompress", "convert" >>
        OBVIOUS
      <4>2. Steps(ops, "done")
        BY ONLY <1>1, <3>3, <4>1 DEF Steps
      <4>3. Launch(ops, "done")
        BY ONLY <3>3, <4>1, HostDecompress DEF HostDecompress, GdeflateDecompressAsync
      <4>4. QED
        BY ONLY <4>2, <4>3 DEF Launching
    <3>4. CASE job.format = "bitcomp"
      <4>1. PICK ops : ops = << "decompress", "actual", "convert" >>
        OBVIOUS
      <4>2. Steps(ops, "done")
        BY ONLY <1>1, <3>4, <4>1 DEF Steps
      <4>3. Launch(ops, "done")
        BY ONLY <3>4, <4>1, HostDecompress DEF HostDecompress, BitcompDecompressAsync
      <4>4. QED
        BY ONLY <4>2, <4>3 DEF Launching
    <3>5. QED
      BY ONLY <1>3, <1>5, <3>1, <3>2, <3>3, <3>4
  <2>2. job.format = "lz4" =>
          job.T # 8 /\ scratch_bytes(job.max, Len(job.chunks)) <= asked.temp - job.short
    BY ONLY ScratchThere, <1>1, <1>2
  <2>3. PICK ops : Steps(ops, "done") /\ Launching(ops, "done")
    BY ONLY <2>1
  <2>4. QED
    BY ONLY CallKeeps, BatchInv, <1>1, <1>5, <2>2, <2>3
<1>6. QED
  BY ONLY <1>4, <1>5

\* The codes of the size functions.
LEMMA SizeCodes ==
  ASSUME HostOK
  PROVE  /\ TempSize.code \in {Success, InvalidValue, NotSupported}
         /\ MaxOutputChunkSize.code \in {Success, InvalidValue, NotSupported}
         /\ DecompTempSize.code \in {Success, InvalidValue, NotSupported}
         /\ TempSize.code = Success => job.format # "ans"
<1>1. job.format \in {"lz4", "snappy", "cascaded", "gdeflate", "bitcomp", "ans"}
  <2>1. job \in Job
    BY ONLY JobOK, HostOK
  <2>2. QED
    BY ONLY <2>1 DEF Job, Formats, Libraries
<1>2. \A x : exception_to_error(x).code \in {Success, InvalidValue} /\ Answer(x).code = Success
  BY ONLY DEF exception_to_error, Answer
<1>3. NoCodec.code = NotSupported /\ NotSupported # Success
  BY ONLY DEF NoCodec, NotSupported, Success
<1>4. /\ \/ \E x : TempSize = exception_to_error(x) \/ TempSize = Answer(x)
         \/ TempSize = NoCodec
      /\ job.format = "ans" => TempSize = NoCodec
  BY ONLY <1>1
     DEF TempSize, LZ4GetTempSize, SnappyGetTempSize, CascadedGetTempSize, GdeflateGetTempSize,
         BitcompGetTempSize, ANSGetTempSize
<1>5. \/ \E x : MaxOutputChunkSize = exception_to_error(x) \/ MaxOutputChunkSize = Answer(x)
      \/ MaxOutputChunkSize = NoCodec
  BY ONLY <1>1
     DEF MaxOutputChunkSize, LZ4GetMaxOutputChunkSize, SnappyGetMaxOutputChunkSize,
         CascadedGetMaxOutputChunkSize, GdeflateGetMaxOutputChunkSize,
         BitcompGetMaxOutputChunkSize, ANSGetMaxOutputChunkSize
<1>6. \/ \E x : DecompTempSize = exception_to_error(x) \/ DecompTempSize = Answer(x)
      \/ DecompTempSize = NoCodec
  BY ONLY <1>1
     DEF DecompTempSize, LZ4DecompressGetTempSize, SnappyDecompressGetTempSize,
         CascadedDecompressGetTempSize, GdeflateDecompressGetTempSize,
         BitcompDecompressGetTempSize, ANSDecompressGetTempSize
<1>7. QED
  BY ONLY <1>2, <1>3, <1>4, <1>5, <1>6

\* The scratch memory that LZ4 asks for is a number of bytes.
LEMMA ScratchNumber ==
  ASSUME HostOK
  PROVE  scratch_bytes(job.max, Len(job.chunks)) \in Nat
<1>1. HT_size \in Nat \ {0}
  BY TableSize
<1>2. PICK n \in Nat : n = lz4GetHashTableSize(job.max)
  BY ONLY <1>1 DEF HT_size
<1>3. PICK L \in Nat : L = Len(job.chunks)
  <2>1. job \in Job
    BY ONLY JobOK, HostOK
  <2>2. QED
    BY ONLY <2>1 DEF Job
<1>4. PICK m \in Nat : m = n * 2
  BY ONLY n \in Nat
<1>5. m * L \in Nat
  BY ONLY Product, m \in Nat, L \in Nat
<1>6. QED
  BY ONLY <1>2, <1>3, <1>4, <1>5 DEF scratch_bytes, OffsetBytes

\* The sizes that are answered are numbers of bytes.
LEMMA SizeNumbers ==
  ASSUME HostOK, TempSize.code = Success, MaxOutputChunkSize.code = Success
  PROVE  TempSize.bytes \in Nat /\ MaxOutputChunkSize.bytes \in Nat
<1>1. job.max \in Nat
  <2>1. job \in Job
    BY ONLY JobOK, HostOK
  <2>2. QED
    BY ONLY <2>1 DEF Job
<1>2. job.format \in {"lz4", "snappy", "cascaded", "gdeflate", "bitcomp"}
  <2>1. job \in Job
    BY ONLY JobOK, HostOK
  <2>2. QED
    BY ONLY <2>1, SizeCodes, HostOK, TempSize.code = Success DEF Job, Formats, Libraries
<1>3. PICK m \in Nat : m = job.max
  BY ONLY <1>1
<1>4. \A x : exception_to_error(x).code = Success => x # Throws /\ exception_to_error(x).bytes = x
  BY ONLY DEF exception_to_error, Success, InvalidValue
<1>5. \A x : Answer(x).bytes = x
  BY ONLY DEF Answer
<1>6. CASE job.format = "lz4"
  <2>1. /\ TempSize = exception_to_error(lz4BatchCompressComputeTempSize)
        /\ MaxOutputChunkSize = exception_to_error(lz4ComputeMaxSize)
    BY ONLY <1>6 DEF TempSize, LZ4GetTempSize, MaxOutputChunkSize, LZ4GetMaxOutputChunkSize
  <2>2. /\ TempSize.bytes = lz4BatchCompressComputeTempSize /\ lz4BatchCompressComputeTempSize # Throws
        /\ MaxOutputChunkSize.bytes = lz4ComputeMaxSize /\ lz4ComputeMaxSize # Throws
    BY ONLY <1>4, <2>1, TempSize.code = Success, MaxOutputChunkSize.code = Success
  <2>3. /\ TempSize.bytes = scratch_bytes(job.max, Len(job.chunks))
        /\ MaxOutputChunkSize.bytes = maxSizeOfStream(m)
    BY ONLY <1>3, <2>2 DEF lz4BatchCompressComputeTempSize, lz4ComputeMaxSize
  <2>4. maxSizeOfStream(m) \in Nat
    <3>1. m <= m
      BY ONLY m \in Nat
    <3>2. QED
      BY ONLY StreamBound, <3>1, m \in Nat
  <2>5. QED
    BY ONLY <2>3, <2>4, ScratchNumber, HostOK
<1>7. CASE job.format = "snappy"
  <2>1. TempSize = Answer(0) /\ MaxOutputChunkSize = Answer(32 + m + m \div 6)
    BY ONLY <1>3, <1>7 DEF TempSize, SnappyGetTempSize, MaxOutputChunkSize, SnappyGetMaxOutputChunkSize
  <2>2. m \div 6 \in Nat
    BY ONLY DivNat, m \in Nat
  <2>3. QED
    BY ONLY <1>5, <2>1, <2>2, m \in Nat
<1>8. CASE job.format = "cascaded"
  <2>1. TempSize = Answer(0) /\ MaxOutputChunkSize = Answer(RoundUpTo(m, 4) + 8)
    BY ONLY <1>3, <1>8 DEF TempSize, CascadedGetTempSize, MaxOutputChunkSize, CascadedGetMaxOutputChunkSize
  <2>2. PICK q \in Nat : q = RoundUpDiv(m, 4)
    BY ONLY RoundedUp, m \in Nat, 4 \in Nat \ {0}
  <2>3. RoundUpTo(m, 4) + 8 \in Nat
    BY ONLY <2>2, q \in Nat DEF RoundUpTo
  <2>4. QED
    BY ONLY <1>5, <2>1, <2>3
<1>9. CASE job.format = "gdeflate"
  <2>1. PICK x : /\ x = (IF getGdeflateEnumFromFormatOpts = Throws THEN Throws ELSE 0)
                 /\ TempSize = exception_to_error(x) /\ MaxOutputChunkSize = Answer(m)
    BY ONLY <1>3, <1>9 DEF TempSize, GdeflateGetTempSize, MaxOutputChunkSize, GdeflateGetMaxOutputChunkSize
  <2>2. x = 0 /\ TempSize.bytes = x
    BY ONLY <1>4, <2>1, TempSize.code = Success
  <2>3. QED
    BY ONLY <1>5, <2>1, <2>2, m \in Nat
<1>10. CASE job.format = "bitcomp"
  <2>1. TempSize = Answer(0) /\ MaxOutputChunkSize = Answer(m)
    BY ONLY <1>3, <1>10 DEF TempSize, BitcompGetTempSize, MaxOutputChunkSize, BitcompGetMaxOutputChunkSize
  <2>2. QED
    BY ONLY <1>5, <2>1, m \in Nat
<1>11. QED
  BY ONLY <1>2, <1>6, <1>7, <1>8, <1>9, <1>10

\* The call for the sizes.
LEMMA HostSizesKeeps ==
  ASSUME BatchInv, HostSizes
  PROVE  BatchInv'
<1>1. call = "sizes" /\ UNCHANGED << job, lastError, stream, temp, warp, compBytes, sizes, out, actual, statuses >>
  BY ONLY HostSizes DEF HostSizes
<1>2. HostOK /\ StreamOK /\ TempOK /\ BuffersOK
  BY ONLY BatchInv DEF BatchInv
<1>3. Queued = 0 /\ asked.temp = 0
  BY ONLY <1>1, <1>2 DEF Queued, HostOK
<1>4. CASE {TempSize.code, MaxOutputChunkSize.code, DecompTempSize.code} # {Success}
  <2>1. PICK failed \in {TempSize.code, MaxOutputChunkSize.code, DecompTempSize.code} \ {Success} :
          Return(failed, "stopped") /\ UNCHANGED << asked, comp >>
    BY ONLY <1>4, HostSizes DEF HostSizes
  <2>2. failed \in {InvalidValue, NotSupported}
    BY ONLY SizeCodes, <1>2, failed \in {TempSize.code, MaxOutputChunkSize.code, DecompTempSize.code} \ {Success}
  <2>3. call' = "stopped" /\ code' = failed
    BY ONLY <2>1 DEF Return
  <2>4. Stopping
    BY ONLY <1>1, <2>2, <2>3, Zenon DEF Stopping
  <2>5. UNCHANGED << job, asked, device >>
    BY ONLY <1>1, <2>1 DEF device
  <2>6. QED
    BY ONLY StopKeeps, BatchInv, <1>3, <2>4, <2>5
<1>5. CASE {TempSize.code, MaxOutputChunkSize.code, DecompTempSize.code} = {Success}
  <2>1. TempSize.code = Success /\ MaxOutputChunkSize.code = Success
    BY ONLY <1>5
  <2>2. PICK t \in Nat, x \in Nat : t = TempSize.bytes /\ x = MaxOutputChunkSize.bytes
    BY ONLY SizeNumbers, <1>2, <2>1
  <2>3. /\ code' = Success /\ call' = "compress"
        /\ asked' = [temp |-> t, max |-> x, decomp |-> DecompTempSize.bytes]
        /\ comp' = IF job.format # "cascaded" THEN comp
                   ELSE [i \in Chunks |->
                           [a \in 1..x |-> IF a = 4 THEN << job.stale, 0, 1 >> ELSE Unread]]
    BY ONLY <1>5, <2>2, HostSizes DEF HostSizes, Return, Success
  <2>4. asked'.temp = t /\ asked'.max = x
    BY ONLY <2>3
  <2>5. /\ job' = job /\ lastError' = lastError /\ stream' = stream /\ temp' = temp /\ warp' = warp
        /\ compBytes' = compBytes /\ sizes' = sizes /\ out' = out /\ actual' = actual /\ statuses' = statuses
    BY ONLY <1>1
  <2>6. Plan' = Plan /\ Chunks' = Chunks /\ HT_size' = HT_size /\ Queued' = 0
    BY ONLY <2>3, <2>5 DEF Plan, Chunks, HT_size, Queued
  <2>7. HostOK'
    <3>1. TempSize' = TempSize /\ MaxOutputChunkSize' = MaxOutputChunkSize
      BY ONLY SizesStay, <2>5
    <3>2. AskedInv'
      BY ONLY <2>1, <2>2, <2>3, <2>4, <2>6, <3>1, t \in Nat DEF AskedInv
    <3>3. lastError' \in BOOLEAN
      <4>1. lastError \in BOOLEAN
        BY ONLY <1>2, Zenon DEF HostOK
      <4>2. QED
        BY ONLY <2>5, <4>1, Zenon
    <3>4. code' \in {Success, InvalidValue, NotSupported}
      BY ONLY <2>3
    <3>5. job' \in Jobs
      BY ONLY <1>2, <2>5 DEF HostOK
    <3>6. QED
      BY ONLY <2>3, <2>4, <3>2, <3>3, <3>4, <3>5, t \in Nat, x \in Nat DEF HostOK
  <2>8. StreamOK'
    BY ONLY <1>2, <1>3, <2>5, <2>6 DEF StreamOK
  <2>9. TempOK'
    <3>1. temp \in [0 .. ScratchBytes \div OffsetBytes -> 0 .. MAX_OFFSET] /\ TempInv
      BY ONLY <1>2 DEF TempOK
    <3>2. PICK D : D = 0 .. ScratchBytes \div OffsetBytes /\ DOMAIN temp = D
      BY ONLY <3>1
    <3>3. ASSUME NEW a \in D PROVE temp[a] = temp[ScratchBytes \div OffsetBytes]
      <4>1. a \in Nat
        BY ONLY <3>2, a \in D
      <4>2. job.short \in Nat
        <5>1. job \in Job
          BY ONLY JobOK, <1>2
        <5>2. QED
          BY ONLY <5>1 DEF Job
      <4>3. a * OffsetBytes >= asked.temp - job.short
        BY ONLY <1>3, <4>1, <4>2 DEF OffsetBytes
      <4>4. QED
        BY ONLY <3>1, <3>2, <4>3, a \in D DEF TempInv
    <3>4. TempInv'
      BY ONLY <2>5, <3>2, <3>3 DEF TempInv
    <3>5. QED
      BY ONLY <2>5, <3>1, <3>4 DEF TempOK
  <2>10. BuffersOK'
    <3>1. DOMAIN comp' = Chunks
      BY ONLY <1>2, <2>3 DEF BuffersOK
    <3>2. QED
      BY ONLY <1>2, <2>5, <2>6, <3>1 DEF BuffersOK
  <2>11. ChunksOK'
    <3>1. Ops' = Ops /\ \A k : Through(k)' = Through(k)
      BY ONLY <1>3, <2>5, <2>6 DEF Ops, Through
    <3>2. \A k : Table(k)' = Table(k)
      BY ONLY <2>5, <2>6 DEF Table
    <3>3. ASSUME NEW k \in Chunks
          PROVE  ChunkOK(job', asked'.max, Ops', Through(k)', HT_size', Table(k)', k, warp'[k],
                         comp'[k], compBytes'[k], sizes'[k], out'[k], actual'[k], statuses'[k])
      <4>1. /\ WarpOK(job, Ops, Through(k), HT_size, Table(k), k, warp[k])
            /\ StoredOK(job, asked.max, Through(k), k, comp[k], compBytes[k])
            /\ SizeOK(job, Through(k), k, sizes[k])
            /\ AnswerOK(job, Through(k), k, out[k], actual[k], statuses[k])
        BY ONLY OfChunk, BatchInv, k \in Chunks, Zenon
      <4>2. "compress" \notin Through(k)
        BY ONLY <1>3 DEF Through, DoneOps, DueOps
      <4>3. job.format = "cascaded" => Len(comp'[k]) = x
        <5>1. ASSUME job.format = "cascaded" PROVE Len(comp'[k]) = x
          <6>1. PICK f : f = [a \in 1..x |-> IF a = 4 THEN << job.stale, 0, 1 >> ELSE Unread]
            OBVIOUS
          <6>2. comp'[k] = f
            BY ONLY <2>3, <5>1, <6>1, k \in Chunks
          <6>3. Len(f) = x
            BY ONLY <6>1, x \in Nat
          <6>4. QED
            BY ONLY <6>2, <6>3
        <5>2. QED
          BY ONLY <5>1
      <4>4. StoredOK(job, x, Through(k), k, comp'[k], compBytes[k])
        BY ONLY <4>1, <4>2, <4>3 DEF StoredOK
      <4>5. ChunkOK(job, x, Ops, Through(k), HT_size, Table(k), k, warp[k],
                    comp'[k], compBytes[k], sizes[k], out[k], actual[k], statuses[k])
        BY ONLY <4>1, <4>4 DEF ChunkOK
      <4>6. QED
        BY ONLY <2>4, <2>5, <2>6, <3>1, <3>2, <4>5
    <3>4. QED
      BY ONLY <2>6, <3>3 DEF ChunksOK
  <2>12. QED
    BY ONLY <2>7, <2>8, <2>9, <2>10, <2>11 DEF BatchInv
<1>6. QED
  BY ONLY <1>4, <1>5

-----------------------------------------------------------------------------
(* The layers of a cascaded chunk.                                         *)

Types == {1, 2, 4, 8}

\* A chunk that a block of threads works on: its elements, the offset behind what
\* it has written, and its buffer of M bytes.
Layered(c, M) ==
  /\ c = [buf |-> c.buf, at |-> c.at, mem |-> c.mem, ok |-> c.ok, sizes |-> c.sizes, heads |-> c.heads]
  /\ Len(c.buf) \in Nat /\ c.at \in Nat /\ Metadata <= c.at /\ Len(c.mem) = M /\ c.ok \in BOOLEAN

\* One that does not go past the limit, or has given up.
Within(c, M, limit) == Layered(c, M) /\ (c.ok => c.at <= limit)

\* The next multiple.
LEMMA UpTo ==
  ASSUME NEW n \in Nat, NEW m \in Nat \ {0}
  PROVE  RoundUpTo(n, m) \in Nat /\ n <= RoundUpTo(n, m)
<1>1. RoundUpDiv(n, m) \in Nat /\ n <= RoundUpDiv(n, m) * m
  BY ONLY RoundedUp, n \in Nat, m \in Nat \ {0}
<1>2. RoundUpDiv(n, m) * m \in Nat
  BY ONLY Product, <1>1, m \in Nat \ {0}
<1>3. QED
  BY ONLY <1>1, <1>2 DEF RoundUpTo

\* A function on 1..k has a length.
LEMMA LengthOf ==
  ASSUME NEW k \in Nat, NEW f, f = [i \in DOMAIN f |-> f[i]], DOMAIN f = 1 .. k
  PROVE  Len(f) = k
<1>1. f \in Seq({f[i] : i \in 1 .. k})
  OBVIOUS
<1>2. QED
  BY <1>1

\* Storing keeps the length of a memory.
LEMMA StoreLength ==
  ASSUME NEW M \in Nat, NEW mem, Len(mem) = M, NEW a, NEW cells
  PROVE  Len(Store(mem, a, cells)) = M
<1>1. PICK f : f = Store(mem, a, cells)
  OBVIOUS
<1>2. DOMAIN f = 1 .. M /\ f = [i \in DOMAIN f |-> f[i]]
  BY ONLY <1>1, Len(mem) = M DEF Store
<1>3. QED
  BY ONLY LengthOf, <1>1, <1>2, M \in Nat

\* The bytes of an array.
LEMMA ArrayLength ==
  ASSUME NEW s, Len(s) \in Nat, NEW w \in Nat
  PROVE  Len(CellsOf(s, w)) \in Nat
<1>1. PICK k \in Nat : k = Len(s) * w
  BY ONLY Product, Len(s) \in Nat, w \in Nat
<1>2. PICK f : f = CellsOf(s, w)
  OBVIOUS
<1>3. DOMAIN f = 1 .. k /\ f = [i \in DOMAIN f |-> f[i]]
  BY ONLY <1>1, <1>2 DEF CellsOf
<1>4. QED
  BY ONLY LengthOf, <1>2, <1>3, k \in Nat

\* The bytes of an array of packed bits.
LEMMA PackedLength ==
  ASSUME NEW s, Len(s) \in Nat, NEW T \in Types
  PROVE  Len(block_bitpack(s, T)) \in Nat
<1>1. PICK meta : meta = get_for_bitwidth(s, T)
  OBVIOUS
<1>2. Bits(T) \in Nat /\ Bits(4) \in Nat \ {0}
  BY CascadedParameters DEF Bits, Types
<1>3. PICK b \in Nat : b = meta.bitwidth
  <2>1. PICK S : S \subseteq 0 .. Bits(T) /\ meta.bitwidth = Least(S, Bits(T))
    <3>. DEFINE signed == {Signed(s[i], T) : i \in DOMAIN s}
                range  == IF signed = {} THEN 0 ELSE Max(signed) - Min(signed)
                fit    == {b \in 0 .. Bits(T) : range < 2 ^ b}
    <3>1. meta.bitwidth = Least(fit, Bits(T))
      BY ONLY <1>1 DEF get_for_bitwidth
    <3>2. fit \subseteq 0 .. Bits(T)
      OBVIOUS
    <3>. HIDE DEF fit
    <3>3. QED
      BY ONLY <3>1, <3>2
  <2>2. S \subseteq Nat
    BY ONLY <1>2, <2>1
  <2>3. CASE S = {}
    BY ONLY <1>2, <2>1, <2>3 DEF Least
  <2>4. CASE S # {}
    <3>1. Min(S) \in S
      BY ONLY MinIs, <2>2, <2>4
    <3>2. meta.bitwidth \in Nat
      BY ONLY <2>1, <2>2, <2>4, <3>1 DEF Least
    <3>3. QED
      BY ONLY <3>2
  <2>5. QED
    BY ONLY <2>3, <2>4
<1>4. PICK k \in Nat : k = 4 * RoundUpDiv(Len(s) * b, Bits(4))
  <2>1. Len(s) * b \in Nat
    BY ONLY Product, Len(s) \in Nat, b \in Nat
  <2>2. RoundUpDiv(Len(s) * b, Bits(4)) \in Nat
    BY ONLY RoundedUp, <1>2, <2>1
  <2>3. QED
    BY ONLY <2>2
<1>5. PICK words : words = packed_words(s, T, meta) /\ Len(words) = k
  <2>1. PICK words : words = packed_words(s, T, meta)
    OBVIOUS
  <2>2. DOMAIN words = 1 .. k /\ words = [i \in DOMAIN words |-> words[i]]
    BY ONLY <1>3, <1>4, <2>1 DEF packed_words
  <2>3. QED
    BY ONLY LengthOf, <2>1, <2>2, k \in Nat
<1>6. PICK h \in Nat : h = bpHeader(T)
  <2>1. T + 4 \in Nat /\ (IF T > 4 THEN T ELSE 4) \in Nat \ {0}
    BY DEF Types
  <2>2. QED
    BY ONLY UpTo, <2>1 DEF bpHeader
<1>7. PICK blank : blank = [i \in 1 .. h + k |-> Unread] /\ Len(blank) = h + k
  <2>1. PICK blank : blank = [i \in 1 .. h + k |-> Unread]
    OBVIOUS
  <2>2. DOMAIN blank = 1 .. h + k /\ blank = [i \in DOMAIN blank |-> blank[i]] /\ h + k \in Nat
    BY ONLY <2>1, h \in Nat, k \in Nat
  <2>3. QED
    BY ONLY LengthOf, <2>1, <2>2
<1>8. block_bitpack(s, T) = Store(Store(Store(blank, 0, Cells(meta.frame, T)),
             bpWordAt(T), Cells(meta.bitwidth * 65536 + Len(s), 4)), bpDataAt(T), words)
  BY ONLY <1>1, <1>5, <1>6, <1>7 DEF block_bitpack, packed
<1>9. PICK M \in Nat : M = h + k
  BY ONLY h \in Nat, k \in Nat
<1>10. PICK one : one = Store(blank, 0, Cells(meta.frame, T)) /\ Len(one) = M
  BY ONLY StoreLength, <1>7, <1>9, M \in Nat
<1>11. PICK two : two = Store(one, bpWordAt(T), Cells(meta.bitwidth * 65536 + Len(s), 4)) /\ Len(two) = M
  BY ONLY StoreLength, <1>10, M \in Nat
<1>12. Len(Store(two, bpDataAt(T), words)) = M
  BY ONLY StoreLength, <1>11, M \in Nat
<1>13. QED
  BY ONLY <1>8, <1>10, <1>11, <1>12, M \in Nat

\* A chunk with given parts.
Parts(b, a, m, k, z, h) == [buf |-> b, at |-> a, mem |-> m, ok |-> k, sizes |-> z, heads |-> h]

\* Parts of the right kind make a chunk.
LEMMA Layering ==
  ASSUME NEW M, NEW b, NEW a \in Nat, NEW m, NEW k \in BOOLEAN, NEW z, NEW h,
         Len(b) \in Nat, Metadata <= a, Len(m) = M
  PROVE  Layered(Parts(b, a, m, k, z, h), M)
BY ONLY Len(b) \in Nat, a \in Nat, Metadata <= a, Len(m) = M, k \in BOOLEAN DEF Layered, Parts

\* A chunk has such parts.
LEMMA PartsOf ==
  ASSUME NEW M, NEW c, Layered(c, M)
  PROVE  \E b, a, m, k, z, h :
            /\ c = Parts(b, a, m, k, z, h) /\ Len(b) \in Nat /\ a \in Nat /\ Metadata <= a
            /\ Len(m) = M /\ k \in BOOLEAN
<1>1. c = Parts(c.buf, c.at, c.mem, c.ok, c.sizes, c.heads)
  BY ONLY Layered(c, M) DEF Layered, Parts
<1>2. Len(c.buf) \in Nat /\ c.at \in Nat /\ Metadata <= c.at /\ Len(c.mem) = M /\ c.ok \in BOOLEAN
  BY ONLY Layered(c, M) DEF Layered
<1>3. QED
  BY ONLY <1>1, <1>2, Zenon

\* What a block puts into the buffer does not pass the limit.
LEMMA PutKeeps ==
  ASSUME NEW M \in Nat, NEW c, Layered(c, M), NEW at \in Nat, Metadata <= at, NEW limit \in Nat,
         NEW cells, Len(cells) \in Nat
  PROVE  Within(put(c, at, limit, cells), M, limit)
<1>1. PICK n \in Nat : n = at + RoundUpTo(Len(cells), 4) /\ at <= n
  <2>1. RoundUpTo(Len(cells), 4) \in Nat
    BY ONLY UpTo, Len(cells) \in Nat, 4 \in Nat \ {0}
  <2>2. QED
    BY ONLY <2>1, at \in Nat
<1>2. PICK b, a, m, k, z, h :
            /\ c = Parts(b, a, m, k, z, h) /\ Len(b) \in Nat /\ a \in Nat /\ Metadata <= a
            /\ Len(m) = M /\ k \in BOOLEAN
  BY ONLY PartsOf, Layered(c, M)
<1>3. PICK d : d = put(c, at, limit, cells)
  OBVIOUS
<1>4. CASE n > limit
  <2>1. PICK bad \in BOOLEAN : bad = FALSE
    OBVIOUS
  <2>2. d = Parts(b, a, m, bad, z, h)
    BY ONLY <1>1, <1>2, <1>3, <1>4, <2>1 DEF put, Parts
  <2>3. Layered(d, M)
    BY ONLY Layering, <1>2, <2>1, <2>2
  <2>4. d.ok = bad
    BY ONLY <2>2 DEF Parts
  <2>5. QED
    BY ONLY <1>3, <2>1, <2>3, <2>4 DEF Within
<1>5. CASE ~ (n > limit)
  <2>1. PICK m1 : m1 = Store(m, at, cells) /\ Len(m1) = M
    BY ONLY StoreLength, <1>2, M \in Nat
  <2>2. \E z1 : d = Parts(b, n, m1, k, z1, h)
    <3>1. d = Parts(b, n, m1, k, Append(z, Len(cells)), h)
      BY ONLY <1>1, <1>2, <1>3, <1>5, <2>1 DEF put, Parts
    <3>2. QED
      BY ONLY <3>1
  <2>3. PICK z1 : d = Parts(b, n, m1, k, z1, h)
    BY ONLY <2>2
  <2>4. Metadata <= n /\ n <= limit
    BY ONLY <1>1, <1>5, n \in Nat, at \in Nat, Metadata <= at, limit \in Nat DEF Metadata
  <2>5. Layered(d, M)
    BY ONLY Layering, <1>2, <2>1, <2>3, <2>4, n \in Nat
  <2>6. d.at = n
    BY ONLY <2>3 DEF Parts
  <2>7. QED
    BY ONLY <1>3, <2>4, <2>5, <2>6 DEF Within
<1>6. QED
  BY ONLY <1>4, <1>5

\* The same for an array.
LEMMA WriteKeeps ==
  ASSUME NEW M \in Nat, NEW c, Layered(c, M), NEW at \in Nat, Metadata <= at, NEW limit \in Nat,
         NEW values, Len(values) \in Nat, NEW w \in Types, NEW bp \in BOOLEAN
  PROVE  Within(block_write(c, at, limit, values, w, bp), M, limit)
<1>1. PICK cells : cells = (IF bp THEN block_bitpack(values, w) ELSE CellsOf(values, w))
  OBVIOUS
<1>2. Len(cells) \in Nat
  <2>1. CASE bp
    BY ONLY PackedLength, <1>1, <2>1, Len(values) \in Nat, w \in Types
  <2>2. CASE ~ bp
    <3>1. w \in Nat
      BY ONLY w \in Types DEF Types
    <3>2. QED
      BY ONLY ArrayLength, <1>1, <2>2, <3>1, Len(values) \in Nat
  <2>3. QED
    BY ONLY <2>1, <2>2
<1>3. Within(put(c, at, limit, cells), M, limit)
  BY ONLY PutKeeps, <1>2, M \in Nat, Layered(c, M), at \in Nat, Metadata <= at, limit \in Nat
<1>4. block_write(c, at, limit, values, w, bp) = put(c, at, limit, cells)
  BY ONLY <1>1 DEF block_write
<1>5. QED
  BY ONLY <1>3, <1>4

\* Runs and their counts are as many as the elements that end a run.
LEMMA RunsLength ==
  ASSUME NEW input, Len(input) \in Nat
  PROVE  Len(block_rle_compress(input).vals) \in Nat /\ Len(block_rle_compress(input).counts) \in Nat
<1>. DEFINE n == Len(input)
            per == RoundUpDiv(n, ThreadBlock)
            last(i) == IF i < n THEN input[i + 1] # input[i] ELSE i = n
            ends == {i \in 1 .. n : last(i)}
            before(t) == Cardinality({i \in ends : i <= t * per})
            place(i) == LET t == (i - 1) \div per
                        IN before(t) + Cardinality({j \in ends : t * per < j /\ j <= i})
            tmp == [p \in 1 .. Cardinality(ends) |-> CHOOSE i \in ends : place(i) = p]
            vals == [o \in DOMAIN tmp |-> input[tmp[o]]]
            counts == [o \in DOMAIN tmp |-> tmp[o] - IF o = 1 THEN 0 ELSE tmp[o - 1]]
<1>1. block_rle_compress(input) = [vals |-> vals, counts |-> counts]
  BY ONLY DEF block_rle_compress
<1>2. Cardinality(ends) \in Nat
  <2>1. IsFiniteSet(1 .. n)
    BY FS_Interval
  <2>2. ends \subseteq 1 .. n
    OBVIOUS
  <2>. HIDE DEF ends
  <2>3. QED
    BY ONLY <2>1, <2>2, FS_Subset, FS_CardinalityType
<1>. HIDE DEF ends, place
<1>3. PICK k \in Nat : k = Cardinality(ends)
  BY ONLY <1>2
<1>4. DOMAIN tmp = 1 .. k
  BY ONLY <1>3
<1>. HIDE DEF tmp
<1>5. DOMAIN vals = 1 .. k /\ vals = [i \in DOMAIN vals |-> vals[i]]
  BY ONLY <1>4
<1>6. DOMAIN counts = 1 .. k /\ counts = [i \in DOMAIN counts |-> counts[i]]
  BY ONLY <1>4
<1>. HIDE DEF vals, counts
<1>7. Len(vals) = k /\ Len(counts) = k
  BY ONLY LengthOf, <1>5, <1>6, k \in Nat
<1>8. QED
  BY ONLY <1>1, <1>7, k \in Nat

\* Options of a cascaded batch.
Opts(o) == o.R \in 0 .. 7 /\ o.D \in 0 .. 7 /\ o.bp \in BOOLEAN /\ o.T \in Types

\* A layer of run lengths keeps a chunk what it is.
LEMMA RunsKeep ==
  ASSUME NEW M \in Nat, NEW c, Layered(c, M), NEW o, Opts(o), NEW limit \in Nat, NEW l
  PROVE  Layered(rle_layer(o, limit, l, c), M)
<1>1. CASE l > o.R \/ ~ c.ok
  BY ONLY <1>1, Layered(c, M) DEF rle_layer
<1>2. CASE ~ (l > o.R \/ ~ c.ok)
  <2>1. PICK runs : /\ runs = block_rle_compress(c.buf) /\ Len(runs.vals) \in Nat
                    /\ Len(runs.counts) \in Nat
    <3>1. Len(c.buf) \in Nat
      BY ONLY Layered(c, M) DEF Layered
    <3>2. QED
      BY ONLY RunsLength, <3>1
  <2>2. PICK b, a, m, k, z, h :
            /\ c = Parts(b, a, m, k, z, h) /\ Len(b) \in Nat /\ a \in Nat /\ Metadata <= a
            /\ Len(m) = M /\ k \in BOOLEAN
    BY ONLY PartsOf, Layered(c, M)
  <2>3. PICK v : v = runs.vals
    OBVIOUS
  <2>4. PICK d : d = [c EXCEPT !.buf = v]
    OBVIOUS
  <2>5. d = Parts(v, a, m, k, z, h)
    BY ONLY <2>2, <2>4 DEF Parts
  <2>6. Layered(d, M)
    BY ONLY Layering, <2>1, <2>2, <2>3, <2>5
  <2>7. RunBytes \in Types /\ o.bp \in BOOLEAN
    BY ONLY Opts(o) DEF RunBytes, Types, Opts
  <2>8. Within(block_write(d, a, limit, runs.counts, RunBytes, o.bp), M, limit)
    BY ONLY WriteKeeps, <2>1, <2>2, <2>6, <2>7, M \in Nat, limit \in Nat
  <2>9. c.at = a
    BY ONLY <2>2 DEF Parts
  <2>10. rle_layer(o, limit, l, c) = block_write(d, a, limit, runs.counts, RunBytes, o.bp)
    BY ONLY <1>2, <2>1, <2>3, <2>4, <2>9 DEF rle_layer, write_runs
  <2>11. QED
    BY ONLY <2>8, <2>10 DEF Within
<1>3. QED
  BY ONLY <1>1, <1>2

\* So does one of differences.
LEMMA DeltasKeep ==
  ASSUME NEW M \in Nat, NEW c, Layered(c, M), NEW o, NEW l
  PROVE  Layered(delta_layer(o, l, c), M)
<1>1. CASE l > o.D \/ ~ c.ok
  BY ONLY <1>1, Layered(c, M) DEF delta_layer
<1>2. CASE ~ (l > o.D \/ ~ c.ok)
  <2>1. PICK b, a, m, k, z, h :
            /\ c = Parts(b, a, m, k, z, h) /\ Len(b) \in Nat /\ a \in Nat /\ Metadata <= a
            /\ Len(m) = M /\ k \in BOOLEAN
    BY ONLY PartsOf, Layered(c, M)
  <2>2. PICK f : f = block_delta_compress(b, o.T)
    OBVIOUS
  <2>3. PICK n \in Nat : n = IF Len(b) = 0 THEN 0 ELSE Len(b) - 1
    <3>1. \A len \in Nat : (IF len = 0 THEN 0 ELSE len - 1) \in Nat
      OBVIOUS
    <3>2. QED
      BY ONLY <2>1, <3>1
  <2>4. 1 .. Len(b) - 1 = 1 .. n
    <3>1. \A len \in Nat : 1 .. len - 1 = 1 .. (IF len = 0 THEN 0 ELSE len - 1)
      OBVIOUS
    <3>2. QED
      BY ONLY <2>1, <2>3, <3>1
  <2>5. DOMAIN f = 1 .. n /\ f = [i \in DOMAIN f |-> f[i]]
    BY ONLY <2>2, <2>4 DEF block_delta_compress
  <2>6. Len(f) = n
    BY ONLY LengthOf, <2>5, n \in Nat
  <2>7. \E h1 : delta_layer(o, l, c) = Parts(f, a, m, k, z, h1)
    <3>1. delta_layer(o, l, c) = Parts(f, a, m, k, z, Append(h, b[1]))
      BY ONLY <1>2, <2>1, <2>2 DEF delta_layer, Parts
    <3>2. QED
      BY ONLY <3>1
  <2>8. QED
    BY ONLY Layering, <2>1, <2>6, <2>7, n \in Nat
<1>3. QED
  BY ONLY <1>1, <1>2

\* The function that compress_layers follows exists.
LayersRun(h, o, limit, c, n) ==
  h = [l \in 0 .. n |-> IF l = 0 THEN c ELSE delta_layer(o, l, rle_layer(o, limit, l, h[l - 1]))]

\* By induction on the number of layers.
LEMMA LayersExist ==
  ASSUME NEW o, NEW limit, NEW c, NEW n \in Nat
  PROVE  \E h : LayersRun(h, o, limit, c, n)
<1>. DEFINE S == {i \in Nat : \E h : LayersRun(h, o, limit, c, i)}
<1>1. 0 \in S
  <2>1. LayersRun([k \in 0 .. 0 |-> c], o, limit, c, 0)
    BY DEF LayersRun
  <2>2. QED
    BY <2>1
<1>2. ASSUME NEW i \in Nat, i >= 0 /\ i \in S PROVE i + 1 \in S
  <2>1. PICK h : LayersRun(h, o, limit, c, i)
    BY <1>2
  <2>2. h = [k \in 0 .. i |-> IF k = 0 THEN c ELSE delta_layer(o, k, rle_layer(o, limit, k, h[k - 1]))]
    BY ONLY <2>1 DEF LayersRun
  <2>3. PICK g : g = [k \in 0 .. i + 1 |-> IF k <= i THEN h[k]
                                           ELSE delta_layer(o, k, rle_layer(o, limit, k, h[i]))]
    OBVIOUS
  <2>4. ASSUME NEW k \in 0 .. i + 1
        PROVE  g[k] = IF k = 0 THEN c ELSE delta_layer(o, k, rle_layer(o, limit, k, g[k - 1]))
    <3>1. CASE k <= i
      <4>1. k \in 0 .. i /\ (k # 0 => k - 1 \in 0 .. i)
        BY ONLY <3>1, i \in Nat, k \in 0 .. i + 1
      <4>2. g[k] = h[k] /\ (k # 0 => g[k - 1] = h[k - 1])
        BY ONLY <2>3, <4>1, i \in Nat
      <4>3. h[k] = IF k = 0 THEN c ELSE delta_layer(o, k, rle_layer(o, limit, k, h[k - 1]))
        BY ONLY <2>2, <4>1
      <4>4. QED
        BY ONLY <4>2, <4>3
    <3>2. CASE ~ (k <= i)
      <4>1. k = i + 1 /\ k # 0 /\ k - 1 = i /\ i \in 0 .. i + 1 /\ i <= i
        BY ONLY <3>2, i \in Nat, k \in 0 .. i + 1
      <4>2. g[k] = delta_layer(o, k, rle_layer(o, limit, k, h[i])) /\ g[i] = h[i]
        BY ONLY <2>3, <3>2, <4>1, k \in 0 .. i + 1
      <4>3. QED
        BY ONLY <4>1, <4>2
    <3>3. QED
      BY ONLY <3>1, <3>2
  <2>5. g = [k \in 0 .. i + 1 |-> IF k = 0 THEN c ELSE delta_layer(o, k, rle_layer(o, limit, k, g[k - 1]))]
    BY ONLY <2>3, <2>4
  <2>6. LayersRun(g, o, limit, c, i + 1)
    BY ONLY <2>5 DEF LayersRun
  <2>7. QED
    BY <2>6
<1>3. \A i \in Nat : i >= 0 => i \in S
  BY ONLY <1>1, <1>2, SFP!Induction, 0 \in Nat
<1>4. QED
  BY <1>3

\* All the layers.
LEMMA LayersKeep ==
  ASSUME NEW M \in Nat, NEW c, Layered(c, M), NEW o, Opts(o), NEW limit \in Nat
  PROVE  Layered(compress_layers(o, limit, c), M)
<1>1. PICK n \in Nat : n = Layers(o)
  BY ONLY Opts(o) DEF Opts, Layers
<1>2. PICK h : h = CHOOSE g : LayersRun(g, o, limit, c, Layers(o))
  OBVIOUS
<1>3. LayersRun(h, o, limit, c, n)
  <2>1. \E g : LayersRun(g, o, limit, c, Layers(o))
    BY ONLY LayersExist, <1>1, n \in Nat
  <2>2. LayersRun(h, o, limit, c, Layers(o))
    BY ONLY <1>2, <2>1, Zenon
  <2>3. QED
    BY ONLY <1>1, <2>2
<1>4. compress_layers(o, limit, c) = h[n]
  BY ONLY <1>1, <1>2 DEF compress_layers, LayersRun
<1>. DEFINE S == {i \in Nat : i <= n => Layered(h[i], M)}
<1>5. h = [l \in 0 .. n |-> IF l = 0 THEN c ELSE delta_layer(o, l, rle_layer(o, limit, l, h[l - 1]))]
  BY ONLY <1>3 DEF LayersRun
<1>6. 0 \in S
  <2>1. h[0] = c
    BY ONLY <1>5, n \in Nat
  <2>2. QED
    BY ONLY <2>1, Layered(c, M)
<1>7. ASSUME NEW i \in Nat, i >= 0 /\ i \in S PROVE i + 1 \in S
  <2>1. CASE ~ (i + 1 <= n)
    BY ONLY <2>1, i \in Nat
  <2>2. CASE i + 1 <= n
    <3>1. i + 1 \in 0 .. n /\ i + 1 # 0 /\ (i + 1) - 1 = i /\ i <= n
      BY ONLY <2>2, i \in Nat, n \in Nat
    <3>2. h[i + 1] = delta_layer(o, i + 1, rle_layer(o, limit, i + 1, h[i]))
      BY ONLY <1>5, <3>1
    <3>3. PICK d : d = h[i] /\ Layered(d, M)
      BY ONLY <1>7, <3>1
    <3>4. PICK e : e = rle_layer(o, limit, i + 1, d) /\ Layered(e, M)
      BY ONLY RunsKeep, <3>3, M \in Nat, Opts(o), limit \in Nat
    <3>5. Layered(delta_layer(o, i + 1, e), M)
      BY ONLY DeltasKeep, <3>4, M \in Nat
    <3>6. Layered(h[i + 1], M)
      BY ONLY <3>2, <3>3, <3>4, <3>5
    <3>7. QED
      BY ONLY <3>6, i \in Nat
  <2>3. QED
    BY ONLY <2>1, <2>2
<1>8. \A i \in Nat : i >= 0 => i \in S
  BY ONLY <1>6, <1>7, SFP!Induction, 0 \in Nat
<1>9. Layered(h[n], M)
  BY ONLY <1>8, n \in Nat
<1>10. QED
  BY ONLY <1>4, <1>9

\* A limit that is a multiple of the alignment is not passed by aligning.
Aligned(limit, T) == \A n \in Nat : n <= limit => RoundUpTo(n, T) <= limit

\* A multiple is such a limit.
LEMMA AlignedLimit ==
  ASSUME NEW T \in Nat \ {0}, NEW q \in Nat, NEW limit, limit = q * T
  PROVE  Aligned(limit, T)
<1>1. limit \in Nat
  BY ONLY Product, limit = q * T, q \in Nat, T \in Nat \ {0}
<1>2. ASSUME NEW n \in Nat, n <= limit PROVE RoundUpTo(n, T) <= limit
  <2>1. PICK r \in Nat : r = RoundUpDiv(n, T) /\ (q < r => q * T < n)
    BY ONLY RoundedUp, n \in Nat, T \in Nat \ {0}, q \in Nat
  <2>2. ~ (q < r)
    BY ONLY <1>1, <1>2, <2>1, limit = q * T
  <2>3. r <= q
    BY ONLY <2>2, r \in Nat, q \in Nat
  <2>4. r * T <= q * T
    BY ONLY ProductLess, <2>3, r \in Nat, q \in Nat, T \in Nat \ {0}
  <2>5. QED
    BY ONLY <2>1, <2>4, limit = q * T DEF RoundUpTo
<1>3. QED
  BY ONLY <1>2 DEF Aligned

\* The limit of a partition.
LEMMA PartitionLimit ==
  ASSUME NEW T \in Types, NEW e \in Nat, NEW bytes, bytes = e * T
  PROVE  /\ bytes \in Nat /\ Metadata + RoundUpTo(bytes, 4) \in Nat
         /\ Metadata <= Metadata + RoundUpTo(bytes, 4)
         /\ Aligned(Metadata + RoundUpTo(bytes, 4), T)
         /\ RoundUpTo(Metadata, T) = Metadata
<1>1. bytes \in Nat
  BY ONLY T \in Types, e \in Nat, bytes = e * T DEF Types
<1>2. PICK r \in Nat : r = RoundUpDiv(bytes, 4)
  BY ONLY RoundedUp, <1>1, 4 \in Nat \ {0}
<1>3. RoundUpTo(bytes, 4) = r * 4
  BY ONLY <1>2 DEF RoundUpTo
<1>4. Aligned(8 + r * 4, T)
  <2>1. CASE T = 1
    BY ONLY AlignedLimit, <2>1, 1 \in Nat \ {0}, 8 + r * 4 \in Nat, 8 + r * 4 = (8 + r * 4) * 1, r \in Nat
  <2>2. CASE T = 2
    BY ONLY AlignedLimit, <2>2, 2 \in Nat \ {0}, 4 + r * 2 \in Nat, 8 + r * 4 = (4 + r * 2) * 2, r \in Nat
  <2>3. CASE T = 4
    BY ONLY AlignedLimit, <2>3, 4 \in Nat \ {0}, 2 + r \in Nat, 8 + r * 4 = (2 + r) * 4, r \in Nat
  <2>4. CASE T = 8
    <3>1. r = 2 * e
      BY ONLY <1>2, <2>4, bytes = e * T, e \in Nat DEF RoundUpDiv
    <3>2. 8 + r * 4 = (1 + e) * 8 /\ 1 + e \in Nat /\ 8 \in Nat \ {0}
      BY ONLY <3>1, e \in Nat
    <3>3. QED
      BY ONLY AlignedLimit, <2>4, <3>2
  <2>5. QED
    BY ONLY <2>1, <2>2, <2>3, <2>4, T \in Types DEF Types
<1>5. RoundUpTo(8, T) = 8
  BY ONLY T \in Types DEF Types, RoundUpTo, RoundUpDiv
<1>6. QED
  BY ONLY <1>1, <1>3, <1>4, <1>5, r \in Nat DEF Metadata

\* The final array, if the layers before it fit.
LEMMA FinalKeeps ==
  ASSUME NEW M \in Nat, NEW c, Layered(c, M), NEW o, Opts(o), NEW limit \in Nat
  PROVE  Within(final_layer(o, limit, c), M, limit)
<1>1. CASE ~ c.ok
  BY ONLY <1>1, Layered(c, M) DEF final_layer, Within
<1>2. CASE c.ok
  <2>1. c.at \in Nat /\ Metadata <= c.at /\ Len(c.buf) \in Nat
    BY ONLY Layered(c, M) DEF Layered
  <2>2. o.T \in Types /\ o.bp \in BOOLEAN
    BY ONLY Opts(o) DEF Opts
  <2>3. o.T \in Nat \ {0}
    BY ONLY <2>2 DEF Types
  <2>4. PICK at \in Nat : at = RoundUpTo(c.at, o.T) /\ c.at <= at
    BY ONLY UpTo, <2>1, <2>3
  <2>5. Metadata <= at
    BY ONLY <2>1, <2>4, at \in Nat DEF Metadata
  <2>6. Within(block_write(c, at, limit, c.buf, o.T, o.bp), M, limit)
    BY ONLY WriteKeeps, <2>1, <2>2, <2>5, at \in Nat, M \in Nat, limit \in Nat, Layered(c, M)
  <2>7. QED
    BY ONLY <1>2, <2>4, <2>6 DEF final_layer
<1>3. QED
  BY ONLY <1>1, <1>2

\* The metadata do not change where the chunk ends but for its alignment.
LEMMA CloseKeeps ==
  ASSUME NEW M \in Nat, NEW limit \in Nat, NEW c, Within(c, M, limit), NEW o, Opts(o),
         Aligned(limit, o.T), NEW base
  PROVE  Within(close_chunk(o, base, c), M, limit)
<1>1. CASE ~ c.ok
  BY ONLY <1>1, Within(c, M, limit) DEF close_chunk, write_metadata
<1>2. CASE c.ok
  <2>1. o.T \in Nat \ {0}
    BY ONLY Opts(o) DEF Opts, Types
  <2>2. PICK b, a, m, k, z, h :
            /\ c = Parts(b, a, m, k, z, h) /\ Len(b) \in Nat /\ a \in Nat /\ Metadata <= a
            /\ Len(m) = M /\ k \in BOOLEAN
    BY ONLY PartsOf, Within(c, M, limit) DEF Within
  <2>3. c.at = a /\ c.ok = k
    BY ONLY <2>2 DEF Parts
  <2>4. a <= limit
    BY ONLY <1>2, <2>3, Within(c, M, limit) DEF Within
  <2>5. PICK at \in Nat : at = RoundUpTo(a, o.T) /\ a <= at /\ at <= limit
    <3>1. RoundUpTo(a, o.T) \in Nat /\ a <= RoundUpTo(a, o.T)
      BY ONLY UpTo, <2>1, <2>2
    <3>2. RoundUpTo(a, o.T) <= limit
      BY ONLY <2>2, <2>4, Aligned(limit, o.T) DEF Aligned
    <3>3. QED
      BY ONLY <3>1, <3>2
  <2>6. PICK m1 : m1 = Store(m, base, CellsOf(<< at - base >> \o z, 4)) /\ Len(m1) = M
    BY ONLY StoreLength, <2>2, M \in Nat
  <2>7. PICK m2 : m2 = Store(m1, base + delta_header(o, 1), CellsOf(h, o.T)) /\ Len(m2) = M
    BY ONLY StoreLength, <2>6, M \in Nat
  <2>8. PICK d : d = write_metadata(o, base, at, c)
    OBVIOUS
  <2>9. d = Parts(b, at, m2, k, z, h)
    BY ONLY <1>2, <2>2, <2>6, <2>7, <2>8 DEF write_metadata, Parts
  <2>10. Metadata <= at
    BY ONLY <2>2, <2>5, at \in Nat, a \in Nat DEF Metadata
  <2>11. Layered(d, M)
    BY ONLY Layering, <2>2, <2>7, <2>9, <2>10, at \in Nat
  <2>12. d.at = at
    BY ONLY <2>9 DEF Parts
  <2>13. close_chunk(o, base, c) = d
    BY ONLY <2>3, <2>5, <2>8 DEF close_chunk
  <2>14. QED
    BY ONLY <2>5, <2>11, <2>12, <2>13 DEF Within
<1>3. QED
  BY ONLY <1>1, <1>2

\* A partition that has some of its chunks.
Filled(p, M, limit) ==
  /\ p.at \in Nat /\ Metadata <= p.at /\ Len(p.mem) = M /\ p.ok \in BOOLEAN
  /\ p.ok => p.at <= limit

\* One more chunk.
LEMMA ChunkKeeps ==
  ASSUME NEW M \in Nat, NEW limit \in Nat, NEW p, Filled(p, M, limit), NEW o, Opts(o),
         Aligned(limit, o.T), NEW elements, Len(elements) \in Nat
  PROVE  Filled(compress_chunk(o, limit, p, elements), M, limit)
<1>1. PICK at \in Nat : at = p.at + get_chunk_metadata_size(o) /\ Metadata <= at
  <2>1. o.T \in Nat \ {0} /\ o.R \in Nat /\ o.D \in Nat
    BY ONLY Opts(o) DEF Opts, Types
  <2>2. RoundUpTo(4 + 4 * (o.R + 1), o.T) \in Nat
    <3>1. 4 + 4 * (o.R + 1) \in Nat
      BY ONLY <2>1
    <3>2. QED
      BY ONLY UpTo, <2>1, <3>1
  <2>3. o.T * o.D \in Nat
    BY ONLY Product, <2>1
  <2>4. RoundUpTo(o.T * o.D, 4) \in Nat
    BY ONLY UpTo, <2>3, 4 \in Nat \ {0}
  <2>5. PICK n \in Nat : n = get_chunk_metadata_size(o)
    BY ONLY <2>2, <2>4 DEF get_chunk_metadata_size
  <2>6. p.at \in Nat /\ Metadata <= p.at
    BY ONLY Filled(p, M, limit) DEF Filled
  <2>7. QED
    BY ONLY <2>5, <2>6, n \in Nat DEF Metadata
<1>2. PICK c : c = [buf |-> elements, at |-> at, mem |-> p.mem, ok |-> TRUE, sizes |-> << >>, heads |-> << >>]
  OBVIOUS
<1>3. Layered(c, M)
  <2>1. c = Parts(elements, at, p.mem, TRUE, << >>, << >>)
    BY ONLY <1>2 DEF Parts
  <2>2. Len(p.mem) = M
    BY ONLY Filled(p, M, limit) DEF Filled
  <2>3. PICK yes \in BOOLEAN : yes = TRUE
    OBVIOUS
  <2>4. Layered(Parts(elements, at, p.mem, yes, << >>, << >>), M)
    BY ONLY Layering, <1>1, <2>2, at \in Nat, Len(elements) \in Nat, yes \in BOOLEAN
  <2>5. QED
    BY ONLY <2>1, <2>3, <2>4
<1>4. PICK d : d = compress_layers(o, limit, c) /\ Layered(d, M)
  BY ONLY LayersKeep, <1>3, M \in Nat, Opts(o), limit \in Nat
<1>5. PICK e : e = final_layer(o, limit, d) /\ Within(e, M, limit)
  BY ONLY FinalKeeps, <1>4, M \in Nat, Opts(o), limit \in Nat
<1>6. PICK f : f = close_chunk(o, p.at, e) /\ Within(f, M, limit)
  BY ONLY CloseKeeps, <1>5, M \in Nat, Opts(o), limit \in Nat, Aligned(limit, o.T)
<1>7. compress_chunk(o, limit, p, elements) = f
  BY ONLY <1>1, <1>2, <1>4, <1>5, <1>6 DEF compress_chunk
<1>8. QED
  BY ONLY <1>6, <1>7 DEF Within, Layered, Filled

\* The kernel's chunk has an element of any type.
LEMMA PerChunk ==
  ASSUME NEW o, Opts(o)
  PROVE  chunk_num_elements(o.T) \in Nat \ {0}
<1>1. o.T \in Types /\ ChunkBytes \in Nat /\ 8 <= ChunkBytes
  BY CascadedParameters, Opts(o) DEF Opts
<1>2. \A b \in Nat : 8 <= b => /\ b \div 1 \in Nat \ {0} /\ b \div 2 \in Nat \ {0}
                               /\ b \div 4 \in Nat \ {0} /\ b \div 8 \in Nat \ {0}
  OBVIOUS
<1>3. ChunkBytes \div o.T \in Nat \ {0}
  BY ONLY <1>1, <1>2 DEF Types
<1>4. QED
  BY ONLY <1>3 DEF chunk_num_elements

\* Or none, behind one that did not fit.
LEMMA AddKeeps ==
  ASSUME NEW M \in Nat, NEW limit \in Nat, NEW p, Filled(p, M, limit), NEW o, Opts(o),
         Aligned(limit, o.T), NEW elements \in Seq(Nat),
         NEW i \in Nat, i # 0, i <= RoundUpDiv(Len(elements), chunk_num_elements(o.T))
  PROVE  Filled(add_chunk(o, limit, elements, i, p), M, limit)
<1>1. CASE ~ p.ok
  BY ONLY <1>1, Filled(p, M, limit) DEF add_chunk
<1>2. CASE p.ok
  <2>1. PICK per \in Nat \ {0} : per = chunk_num_elements(o.T)
    BY ONLY PerChunk, Opts(o)
  <2>2. PICK part : part = SubSeq(elements, (i - 1) * per + 1, Min({i * per, Len(elements)}))
    OBVIOUS
  <2>3. Len(part) \in Nat
    <3>1. PICK n \in Nat : n = Len(elements)
      BY ONLY elements \in Seq(Nat)
    <3>2. PICK u \in Nat : u = (i - 1) * per /\ u < n
      <4>1. i - 1 \in Nat /\ i - 1 < RoundUpDiv(n, per)
        <5>1. RoundUpDiv(n, per) \in Nat
          BY ONLY RoundedUp, n \in Nat, per \in Nat \ {0}
        <5>2. i <= RoundUpDiv(n, per)
          BY ONLY <2>1, <3>1, i <= RoundUpDiv(Len(elements), chunk_num_elements(o.T))
        <5>3. QED
          BY ONLY <5>1, <5>2, i \in Nat, i # 0
      <4>2. (i - 1) * per < n
        BY ONLY <4>1, RoundedUp, n \in Nat, per \in Nat \ {0}
      <4>3. (i - 1) * per \in Nat
        BY ONLY Product, <4>1, per \in Nat \ {0}
      <4>4. QED
        BY ONLY <4>2, <4>3
    <3>3. PICK v \in Nat : v = Min({i * per, n}) /\ u <= v /\ v <= n
      <4>1. PICK w \in Nat : w = i * per /\ u <= w
        <5>1. i * per \in Nat
          BY ONLY Product, i \in Nat, per \in Nat \ {0}
        <5>2. (i - 1) * per <= i * per
          BY ONLY ProductLess, i - 1 \in Nat, i - 1 <= i, i \in Nat, i # 0, per \in Nat \ {0}
        <5>3. QED
          BY ONLY <3>2, <5>1, <5>2
      <4>2. {w, n} \subseteq Nat /\ {w, n} # {}
        OBVIOUS
      <4>3. Min({w, n}) \in {w, n} /\ \A y \in {w, n} : Min({w, n}) <= y
        BY ONLY MinIs, <4>2
      <4>4. QED
        BY ONLY <3>2, <4>1, <4>3, n \in Nat, w \in Nat, u \in Nat
    <3>4. part = SubSeq(elements, u + 1, v)
      BY ONLY <2>2, <3>1, <3>2, <3>3
    <3>5. Len(SubSeq(elements, u + 1, v)) = v - (u + 1) + 1
      BY ONLY <3>1, <3>2, <3>3, u \in Nat, v \in Nat, n \in Nat, elements \in Seq(Nat)
    <3>6. v - (u + 1) + 1 \in Nat
      BY ONLY <3>3, u \in Nat, v \in Nat
    <3>7. QED
      BY ONLY <3>4, <3>5, <3>6
  <2>4. Filled(compress_chunk(o, limit, p, part), M, limit)
    BY ONLY ChunkKeeps, <2>3, M \in Nat, limit \in Nat, Filled(p, M, limit), Opts(o), Aligned(limit, o.T)
  <2>5. add_chunk(o, limit, elements, i, p) = compress_chunk(o, limit, p, part)
    BY ONLY <1>2, <2>1, <2>2 DEF add_chunk
  <2>6. QED
    BY ONLY <2>4, <2>5
<1>3. QED
  BY ONLY <1>1, <1>2

\* The header of a partition with the type T and so many bytes.
Headed(mem, T, bytes) == Fetch(mem, 4, 4) = bytes /\ Fetch(mem, 3, 1) = T

\* The header that the kernel stores is such a header.
LEMMA HeaderStored ==
  ASSUME NEW M \in Nat, 8 <= M, NEW m, Len(m) = M, NEW R, NEW D, NEW bp, NEW T, NEW bytes
  PROVE  Headed(Store(Store(m, 0, CellsOf(<< R, D, bp, T >>, 1)), 4, Cells(bytes, 4)), T, bytes)
<1>1. PICK flags : flags = CellsOf(<< R, D, bp, T >>, 1)
  OBVIOUS
<1>2. Len(flags) = 4 /\ flags[4] = << T, 0, 1 >>
  <2>1. flags = [i \in 1 .. 4 |-> << << R, D, bp, T >>[((i - 1) \div 1) + 1], (i - 1) % 1, 1 >>]
    <3>1. Len(<< R, D, bp, T >>) * 1 = 4
      OBVIOUS
    <3>2. QED
      BY ONLY <1>1, <3>1 DEF CellsOf
  <2>2. DOMAIN flags = 1 .. 4 /\ flags = [i \in DOMAIN flags |-> flags[i]]
    BY ONLY <2>1
  <2>3. Len(flags) = 4
    BY ONLY LengthOf, <2>2, 4 \in Nat
  <2>4. (4 - 1) \div 1 + 1 = 4 /\ (4 - 1) % 1 = 0 /\ 4 \in 1 .. 4
    OBVIOUS
  <2>5. flags[4] = << << R, D, bp, T >>[4], 0, 1 >>
    BY ONLY <2>1, <2>4
  <2>6. QED
    BY ONLY <2>3, <2>5
<1>3. PICK size : size = Cells(bytes, 4)
  OBVIOUS
<1>4. /\ Len(size) = 4 /\ size[1] = << bytes, 0, 4 >> /\ size[2] = << bytes, 1, 4 >>
      /\ size[3] = << bytes, 2, 4 >> /\ size[4] = << bytes, 3, 4 >>
  <2>1. size = [k \in 1 .. 4 |-> << bytes, k - 1, 4 >>]
    BY ONLY <1>3 DEF Cells
  <2>2. DOMAIN size = 1 .. 4 /\ size = [i \in DOMAIN size |-> size[i]]
    BY ONLY <2>1
  <2>3. Len(size) = 4
    BY ONLY LengthOf, <2>2, 4 \in Nat
  <2>4. QED
    BY ONLY <2>1, <2>3
<1>5. PICK one : one = Store(m, 0, flags) /\ Len(one) = M
  BY ONLY StoreLength, Len(m) = M, M \in Nat
<1>6. PICK two : two = Store(one, 4, size) /\ Len(two) = M
  BY ONLY StoreLength, <1>5, M \in Nat
<1>7. one[4] = << T, 0, 1 >>
  <2>1. one = [i \in 1 .. M |-> IF i - 0 \in 1 .. 4 THEN flags[i - 0] ELSE m[i]]
    BY ONLY <1>2, <1>5, Len(m) = M DEF Store
  <2>2. 4 \in 1 .. M /\ 4 - 0 \in 1 .. 4 /\ 4 - 0 = 4
    BY ONLY M \in Nat, 8 <= M
  <2>3. one[4] = flags[4]
    BY ONLY <2>1, <2>2
  <2>4. QED
    BY ONLY <1>2, <2>3
<1>8. two = [i \in 1 .. M |-> IF i - 4 \in 1 .. 4 THEN size[i - 4] ELSE one[i]]
  BY ONLY <1>4, <1>5, <1>6 DEF Store
<1>9. /\ two[4] = << T, 0, 1 >> /\ two[5] = << bytes, 0, 4 >> /\ two[6] = << bytes, 1, 4 >>
      /\ two[7] = << bytes, 2, 4 >> /\ two[8] = << bytes, 3, 4 >>
  <2>1. /\ 4 \in 1 .. M /\ 5 \in 1 .. M /\ 6 \in 1 .. M /\ 7 \in 1 .. M /\ 8 \in 1 .. M
    BY ONLY M \in Nat, 8 <= M
  <2>2. two[4] = one[4]
    BY ONLY <1>8, <2>1
  <2>3. two[5] = size[1] /\ two[6] = size[2] /\ two[7] = size[3] /\ two[8] = size[4]
    BY ONLY <1>8, <2>1
  <2>4. QED
    BY ONLY <1>4, <1>7, <2>2, <2>3
<1>10. Fetch(two, 3, 1) = T
  <2>1. 3 + 1 <= Len(two)
    BY ONLY <1>6, M \in Nat, 8 <= M
  <2>2. two[3 + 1] = << T, 0, 1 >> /\ two[3 + 1][1] = T
    BY ONLY <1>9
  <2>3. \A k \in 0 .. 1 - 1 : two[3 + k + 1] = << two[3 + 1][1], k, 1 >>
    <3>1. \A k \in 0 .. 1 - 1 : k = 0 /\ 3 + k + 1 = 4
      OBVIOUS
    <3>2. QED
      BY ONLY <2>2, <3>1
  <2>4. QED
    BY ONLY <2>1, <2>2, <2>3 DEF Fetch
<1>11. Fetch(two, 4, 4) = bytes
  <2>1. 4 + 4 <= Len(two)
    BY ONLY <1>6, M \in Nat, 8 <= M
  <2>2. two[4 + 1][1] = bytes
    BY ONLY <1>9
  <2>3. \A k \in 0 .. 4 - 1 : two[4 + k + 1] = << two[4 + 1][1], k, 4 >>
    <3>1. \A k \in 0 .. 4 - 1 : \/ k = 0 /\ 4 + k + 1 = 5
                                \/ k = 1 /\ 4 + k + 1 = 6
                                \/ k = 2 /\ 4 + k + 1 = 7
                                \/ k = 3 /\ 4 + k + 1 = 8
      OBVIOUS
    <3>2. QED
      BY ONLY <1>9, <2>2, <3>1
  <2>4. QED
    BY ONLY <2>1, <2>2, <2>3 DEF Fetch
<1>12. QED
  BY ONLY <1>1, <1>3, <1>5, <1>6, <1>10, <1>11 DEF Headed

\* The function that compress_partition follows exists.
PartitionRun(h, o, limit, elements, first, n) ==
  h = [i \in 0 .. n |-> IF i = 0 THEN first ELSE add_chunk(o, limit, elements, i, h[i - 1])]

\* By induction on the number of chunks.
LEMMA PartitionExists ==
  ASSUME NEW o, NEW limit, NEW elements, NEW first, NEW n \in Nat
  PROVE  \E h : PartitionRun(h, o, limit, elements, first, n)
<1>. DEFINE S == {i \in Nat : \E h : PartitionRun(h, o, limit, elements, first, i)}
<1>1. 0 \in S
  <2>1. PartitionRun([k \in 0 .. 0 |-> first], o, limit, elements, first, 0)
    BY DEF PartitionRun
  <2>2. QED
    BY <2>1
<1>2. ASSUME NEW i \in Nat, i >= 0 /\ i \in S PROVE i + 1 \in S
  <2>1. PICK h : PartitionRun(h, o, limit, elements, first, i)
    BY <1>2
  <2>2. h = [k \in 0 .. i |-> IF k = 0 THEN first ELSE add_chunk(o, limit, elements, k, h[k - 1])]
    BY ONLY <2>1 DEF PartitionRun
  <2>3. PICK g : g = [k \in 0 .. i + 1 |-> IF k <= i THEN h[k] ELSE add_chunk(o, limit, elements, k, h[i])]
    OBVIOUS
  <2>4. ASSUME NEW k \in 0 .. i + 1
        PROVE  g[k] = IF k = 0 THEN first ELSE add_chunk(o, limit, elements, k, g[k - 1])
    <3>1. CASE k <= i
      <4>1. k \in 0 .. i /\ (k # 0 => k - 1 \in 0 .. i)
        BY ONLY <3>1, i \in Nat, k \in 0 .. i + 1
      <4>2. g[k] = h[k] /\ (k # 0 => g[k - 1] = h[k - 1])
        BY ONLY <2>3, <4>1, i \in Nat
      <4>3. h[k] = IF k = 0 THEN first ELSE add_chunk(o, limit, elements, k, h[k - 1])
        BY ONLY <2>2, <4>1
      <4>4. QED
        BY ONLY <4>2, <4>3
    <3>2. CASE ~ (k <= i)
      <4>1. k = i + 1 /\ k # 0 /\ k - 1 = i /\ i \in 0 .. i + 1 /\ i <= i
        BY ONLY <3>2, i \in Nat, k \in 0 .. i + 1
      <4>2. g[k] = add_chunk(o, limit, elements, k, h[i]) /\ g[i] = h[i]
        BY ONLY <2>3, <3>2, <4>1, k \in 0 .. i + 1
      <4>3. QED
        BY ONLY <4>1, <4>2
    <3>3. QED
      BY ONLY <3>1, <3>2
  <2>5. g = [k \in 0 .. i + 1 |-> IF k = 0 THEN first ELSE add_chunk(o, limit, elements, k, g[k - 1])]
    BY ONLY <2>3, <2>4
  <2>6. PartitionRun(g, o, limit, elements, first, i + 1)
    BY ONLY <2>5 DEF PartitionRun
  <2>7. QED
    BY <2>6
<1>3. \A i \in Nat : i >= 0 => i \in S
  BY ONLY <1>1, <1>2, SFP!Induction, 0 \in Nat
<1>4. QED
  BY <1>3

\* All chunks of a partition.
LEMMA PartitionKeeps ==
  ASSUME NEW M \in Nat, NEW limit \in Nat, NEW o, Opts(o), Aligned(limit, o.T),
         NEW elements \in Seq(Nat), NEW first, Filled(first, M, limit),
         NEW n \in Nat, n = RoundUpDiv(Len(elements), chunk_num_elements(o.T)),
         NEW h, PartitionRun(h, o, limit, elements, first, n)
  PROVE  Filled(h[n], M, limit)
<1>. DEFINE S == {i \in Nat : i <= n => Filled(h[i], M, limit)}
<1>1. h = [i \in 0 .. n |-> IF i = 0 THEN first ELSE add_chunk(o, limit, elements, i, h[i - 1])]
  BY ONLY PartitionRun(h, o, limit, elements, first, n) DEF PartitionRun
<1>2. 0 \in S
  <2>1. h[0] = first
    BY ONLY <1>1, n \in Nat
  <2>2. QED
    BY ONLY <2>1, Filled(first, M, limit)
<1>3. ASSUME NEW i \in Nat, i >= 0 /\ i \in S PROVE i + 1 \in S
  <2>1. CASE ~ (i + 1 <= n)
    BY ONLY <2>1, i \in Nat
  <2>2. CASE i + 1 <= n
    <3>1. i + 1 \in 0 .. n /\ i + 1 # 0 /\ (i + 1) - 1 = i /\ i <= n /\ i + 1 \in Nat
      BY ONLY <2>2, i \in Nat, n \in Nat
    <3>2. h[i + 1] = add_chunk(o, limit, elements, i + 1, h[i])
      BY ONLY <1>1, <3>1
    <3>3. PICK p : p = h[i] /\ Filled(p, M, limit)
      BY ONLY <1>3, <3>1
    <3>4. Filled(add_chunk(o, limit, elements, i + 1, p), M, limit)
      BY ONLY AddKeeps, <2>2, <3>1, <3>3, M \in Nat, limit \in Nat, Opts(o), Aligned(limit, o.T),
              elements \in Seq(Nat), n = RoundUpDiv(Len(elements), chunk_num_elements(o.T))
    <3>5. Filled(h[i + 1], M, limit)
      BY ONLY <3>2, <3>3, <3>4
    <3>6. QED
      BY ONLY <3>5, i \in Nat
  <2>3. QED
    BY ONLY <2>1, <2>2
<1>4. \A i \in Nat : i >= 0 => i \in S
  BY ONLY <1>2, <1>3, SFP!Induction, 0 \in Nat
<1>5. QED
  BY ONLY <1>4, n \in Nat

\* What a partition of a chunk with elements is: its header, and as many bytes as
\* GetMaxOutputChunkSize allows for.
Partition(r, T, bytes) ==
  /\ r.bytes \in Nat /\ Metadata <= r.bytes /\ r.bytes <= Metadata + RoundUpTo(bytes, 4)
  /\ Headed(r.mem, T, bytes)

\* Closing a partition makes it one, with its chunks or with the input as it is.
LEMMA Closing ==
  ASSUME NEW M \in Nat, 8 <= M, NEW o, Opts(o), NEW elements \in Seq(Nat),
         NEW bytes, bytes = Len(elements) * o.T,
         NEW p, Filled(p, M, Metadata + RoundUpTo(bytes, 4))
  PROVE  Partition(close_partition(p, elements, Metadata, o), o.T, bytes)
<1>1. PICK n \in Nat : n = Metadata + RoundUpTo(bytes, 4) /\ Metadata <= n
  <2>1. Len(elements) \in Nat /\ o.T \in Types
    BY ONLY elements \in Seq(Nat), Opts(o) DEF Opts
  <2>2. QED
    BY ONLY PartitionLimit, <2>1, bytes = Len(elements) * o.T
<1>2. PICK r : r = close_partition(p, elements, Metadata, o)
  OBVIOUS
<1>3. CASE p.ok
  <2>1. PICK u : u = IF o.bp THEN 1 ELSE 0
    OBVIOUS
  <2>2. Len(p.mem) = M
    BY ONLY Filled(p, M, Metadata + RoundUpTo(bytes, 4)) DEF Filled
  <2>3. Headed(Store(Store(p.mem, 0, CellsOf(<< o.R, o.D, u, o.T >>, 1)), 4, Cells(bytes, 4)), o.T, bytes)
    BY ONLY HeaderStored, <2>2, M \in Nat, 8 <= M
  <2>4. r.mem = Store(Store(p.mem, 0, CellsOf(<< o.R, o.D, u, o.T >>, 1)), 4, Cells(bytes, 4))
    BY ONLY <1>2, <1>3, <2>1, bytes = Len(elements) * o.T DEF close_partition
  <2>5. r.bytes = p.at
    BY ONLY <1>2, <1>3 DEF close_partition
  <2>6. p.at \in Nat /\ Metadata <= p.at /\ p.at <= n
    BY ONLY <1>1, <1>3, Filled(p, M, Metadata + RoundUpTo(bytes, 4)) DEF Filled
  <2>7. Partition(r, o.T, bytes)
    BY ONLY <1>1, <2>3, <2>4, <2>5, <2>6 DEF Partition
  <2>8. QED
    BY ONLY <1>2, <2>7
<1>4. CASE ~ p.ok
  <2>1. PICK m : m = Store(p.mem, Metadata, CellsOf(elements, o.T)) /\ Len(m) = M
    <3>1. Len(p.mem) = M
      BY ONLY Filled(p, M, Metadata + RoundUpTo(bytes, 4)) DEF Filled
    <3>2. QED
      BY ONLY StoreLength, <3>1, M \in Nat
  <2>2. Headed(Store(Store(m, 0, CellsOf(<< 0, 0, 0, o.T >>, 1)), 4, Cells(bytes, 4)), o.T, bytes)
    BY ONLY HeaderStored, <2>1, M \in Nat, 8 <= M
  <2>3. r.mem = Store(Store(m, 0, CellsOf(<< 0, 0, 0, o.T >>, 1)), 4, Cells(bytes, 4))
    BY ONLY <1>2, <1>4, <2>1, bytes = Len(elements) * o.T DEF close_partition
  <2>4. r.bytes = n
    BY ONLY <1>1, <1>2, <1>4, bytes = Len(elements) * o.T DEF close_partition
  <2>5. Partition(r, o.T, bytes)
    BY ONLY <1>1, <2>2, <2>3, <2>4 DEF Partition, Metadata
  <2>6. QED
    BY ONLY <1>2, <2>5
<1>5. QED
  BY ONLY <1>3, <1>4

\* The kernel writes such a partition into a buffer of eight bytes or more.
LEMMA PartitionWritten ==
  ASSUME NEW M \in Nat, 8 <= M, NEW o, Opts(o), NEW elements \in Seq(Nat),
         NEW bytes, bytes = Len(elements) * o.T, bytes # 0, NEW mem, Len(mem) = M
  PROVE  Partition(compress_partition(mem, elements, bytes, o), o.T, bytes)
<1>1. Len(elements) \in Nat /\ o.T \in Types
  BY ONLY elements \in Seq(Nat), Opts(o) DEF Opts
<1>2. PICK limit \in Nat : limit = Metadata + RoundUpTo(bytes, 4) /\ Metadata <= limit /\ Aligned(limit, o.T)
  BY ONLY PartitionLimit, <1>1, bytes = Len(elements) * o.T
<1>3. RoundUpTo(Metadata, o.T) = Metadata
  BY ONLY PartitionLimit, <1>1, bytes = Len(elements) * o.T
<1>4. PICK n \in Nat : n = RoundUpDiv(Len(elements), chunk_num_elements(o.T))
  <2>1. chunk_num_elements(o.T) \in Nat \ {0}
    BY ONLY PerChunk, Opts(o)
  <2>2. QED
    BY ONLY RoundedUp, <1>1, <2>1
<1>5. PICK first : first = [mem |-> mem, at |-> Metadata, ok |-> o.R # 0 \/ o.D # 0 \/ o.bp]
  OBVIOUS
<1>6. Filled(first, M, limit)
  <2>1. Metadata \in Nat /\ Metadata <= Metadata
    BY ONLY DEF Metadata
  <2>2. o.bp \in BOOLEAN
    BY ONLY Opts(o) DEF Opts
  <2>3. first.ok \in BOOLEAN
    BY ONLY <1>5, <2>2
  <2>4. first.mem = mem /\ first.at = Metadata
    BY ONLY <1>5
  <2>5. QED
    BY ONLY <1>2, <2>1, <2>3, <2>4, Len(mem) = M DEF Filled
<1>7. PICK h : h = CHOOSE g : PartitionRun(g, o, limit, elements, first, n)
  OBVIOUS
<1>8. PartitionRun(h, o, limit, elements, first, n)
  <2>1. \E g : PartitionRun(g, o, limit, elements, first, n)
    BY ONLY PartitionExists, n \in Nat
  <2>2. QED
    BY ONLY <1>7, <2>1, Zenon
<1>9. Filled(h[n], M, limit)
  BY ONLY PartitionKeeps, <1>2, <1>4, <1>6, <1>8, M \in Nat, limit \in Nat, Opts(o),
          elements \in Seq(Nat), n \in Nat
<1>10. compress_partition(mem, elements, bytes, o) = close_partition(h[n], elements, Metadata, o)
  BY ONLY <1>2, <1>3, <1>4, <1>5, <1>7, bytes # 0 DEF compress_partition, PartitionRun
<1>11. PICK p : p = h[n] /\ Filled(p, M, Metadata + RoundUpTo(bytes, 4))
  BY ONLY <1>2, <1>9
<1>12. Partition(close_partition(p, elements, Metadata, o), o.T, bytes)
  BY ONLY Closing, <1>11, M \in Nat, 8 <= M, Opts(o), elements \in Seq(Nat), bytes = Len(elements) * o.T
<1>13. QED
  BY ONLY <1>10, <1>11, <1>12

\* A block stores such a partition.
LEMMA CascadedCompressKeeps ==
  ASSUME BatchInv, NEW i \in Chunks, CascadedCompressBlock(i)
  PROVE  BatchInv'
<1>1. Running("compress", i) /\ job.format = "cascaded" /\ Finish(i) /\ temp' = temp /\ warp' = warp
  BY ONLY CascadedCompressBlock(i) DEF CascadedCompressBlock
<1>2. PICK p : p = compress_partition(comp[i], job.chunks[i], Size(i), Options) /\ Compressed(i, p.mem, p.bytes)
  BY ONLY CascadedCompressBlock(i) DEF CascadedCompressBlock
<1>3. HostOK
  BY DEF BatchInv
<1>4. /\ job \in Job /\ job.chunks[i] \in Seq(Nat)
  BY ONLY JobOK, SizeAndRoom, <1>3, i \in Chunks
<1>5. PICK d \in Nat, m \in Nat : /\ d = SizeOf(job, i) /\ m = job.max /\ d <= m /\ d = Size(i)
                                  /\ d = Len(job.chunks[i]) * job.T
  <2>1. /\ SizeOf(job, i) \in Nat /\ SizeOf(job, i) <= job.max /\ job.max \in Nat
        /\ Size(i) = SizeOf(job, i)
    BY ONLY SizeAndRoom, SizesHere, <1>3, i \in Chunks
  <2>2. SizeOf(job, i) = Len(job.chunks[i]) * job.T
    BY ONLY <1>1 DEF SizeOf
  <2>3. QED
    BY ONLY <2>1, <2>2
<1>6. PICK o : o = Options /\ Opts(o) /\ o.T = job.T
  <2>1. job.R \in 0 .. 7 /\ job.D \in 0 .. 7 /\ job.bp \in BOOLEAN /\ job.T \in {1, 2, 4, 8}
    BY ONLY <1>4 DEF Job
  <2>2. Options.R = job.R /\ Options.D = job.D /\ Options.bp = job.bp /\ Options.T = job.T
    BY ONLY DEF Options
  <2>3. Opts(Options)
    BY ONLY <2>1, <2>2 DEF Opts, Types
  <2>4. QED
    BY ONLY <2>2, <2>3
<1>7. Going /\ "compress" \notin Through(i)
  BY ONLY CompressGoing, BatchInv, <1>1, i \in Chunks
<1>8. PICK M \in Nat : M = asked.max /\ M = RoundUpTo(m, 4) + 8 /\ 8 <= M
  <2>1. asked.max = RoundUpTo(m, 4) + 8
    BY ONLY <1>1, <1>5, <1>7
       DEF Going, MaxOutputChunkSize, CascadedGetMaxOutputChunkSize, Answer
  <2>2. RoundUpTo(m, 4) \in Nat
    BY ONLY UpTo, m \in Nat, 4 \in Nat \ {0}
  <2>3. QED
    BY ONLY <2>1, <2>2
<1>9. Len(comp[i]) = M
  <2>1. StoredOK(job, asked.max, Through(i), i, comp[i], compBytes[i])
    BY ONLY OfChunk, BatchInv, i \in Chunks
  <2>2. QED
    BY ONLY <1>1, <1>7, <1>8, <2>1 DEF StoredOK
<1>10. WarpRests(i)
  BY ONLY NoWarpRests, BatchInv, i \in Chunks, <1>1
<1>11. CASE d = 0
  <2>1. p.bytes = 0
    BY ONLY <1>2, <1>5, <1>11, Zenon DEF compress_partition
  <2>2. Stored(job, i, p.mem, p.bytes)
    BY ONLY <1>1, <1>5, <1>11, <2>1 DEF Stored, Libraries, Header
  <2>3. p.bytes \in 0 .. asked.max
    BY ONLY <1>8, <2>1
  <2>4. QED
    BY ONLY StoredInv, BatchInv, i \in Chunks, <1>1, <1>2, <1>10, <2>2, <2>3
<1>12. CASE d # 0
  <2>1. Partition(p, job.T, d)
    BY ONLY PartitionWritten, <1>2, <1>4, <1>5, <1>6, <1>8, <1>9, <1>12, M \in Nat
  <2>2. Stored(job, i, p.mem, p.bytes)
    BY ONLY <1>1, <1>5, <1>12, <2>1 DEF Stored, Libraries, Header, Partition, Headed
  <2>3. RoundUpTo(d, 4) <= RoundUpTo(m, 4)
    BY ONLY <1>5, d \in Nat, m \in Nat, SMTT(30) DEF RoundUpTo, RoundUpDiv
  <2>4. PICK b \in Nat, x \in Nat, y \in Nat : /\ b = p.bytes /\ x = RoundUpTo(d, 4) /\ y = RoundUpTo(m, 4)
                                              /\ b <= 8 + x
    <3>1. RoundUpTo(d, 4) \in Nat /\ RoundUpTo(m, 4) \in Nat
      BY ONLY UpTo, d \in Nat, m \in Nat, 4 \in Nat \ {0}
    <3>2. QED
      BY ONLY <2>1, <3>1 DEF Partition, Metadata
  <2>5. p.bytes \in 0 .. asked.max
    BY ONLY <1>8, <2>3, <2>4, b \in Nat, x \in Nat, y \in Nat
  <2>6. QED
    BY ONLY StoredInv, BatchInv, i \in Chunks, <1>1, <1>2, <1>10, <2>2, <2>5
<1>13. QED
  BY ONLY <1>11, <1>12

-----------------------------------------------------------------------------
(* All steps.                                                              *)

\* A step that changes nothing keeps the invariant.
LEMMA StutterKeeps ==
  ASSUME BatchInv, UNCHANGED vars
  PROVE  BatchInv'
<1>1. /\ job' = job /\ call' = call /\ code' = code /\ asked' = asked /\ lastError' = lastError
      /\ stream' = stream /\ temp' = temp /\ warp' = warp /\ comp' = comp /\ compBytes' = compBytes
      /\ sizes' = sizes /\ out' = out /\ actual' = actual /\ statuses' = statuses
  BY ONLY UNCHANGED vars DEF vars, host, device
<1>2. Chunks' = Chunks /\ HT_size' = HT_size /\ Plan' = Plan /\ Queued' = Queued /\ Ops' = Ops
  <2>1. Chunks' = Chunks /\ HT_size' = HT_size
    BY ONLY <1>1 DEF Chunks, HT_size
  <2>2. Plan' = Plan
    BY ONLY <1>1 DEF Plan
  <2>3. Queued' = Queued
    BY ONLY <1>1, <2>2 DEF Queued
  <2>4. Ops' = Ops
    BY ONLY <2>2, <2>3 DEF Ops
  <2>5. QED
    BY ONLY <2>1, <2>2, <2>3, <2>4
<1>3. HostOK'
  <2>1. HostOK
    BY DEF BatchInv
  <2>2. AskedInv'
    <3>1. AskedInv
      BY ONLY <2>1 DEF HostOK
    <3>2. TempSize' = TempSize /\ MaxOutputChunkSize' = MaxOutputChunkSize
      BY ONLY SizesStay, <1>1
    <3>3. QED
      BY ONLY <1>1, <1>2, <3>1, <3>2 DEF AskedInv
  <2>3. QED
    BY ONLY <1>1, <2>1, <2>2 DEF HostOK
<1>4. StreamOK'
  <2>1. StreamOK
    BY DEF BatchInv
  <2>2. QED
    BY ONLY <1>1, <1>2, <2>1 DEF StreamOK
<1>5. TempOK'
  <2>1. TempOK
    BY DEF BatchInv
  <2>2. QED
    BY ONLY <1>1, <2>1 DEF TempOK, TempInv
<1>6. BuffersOK'
  <2>1. BuffersOK
    BY DEF BatchInv
  <2>2. QED
    BY ONLY <1>1, <1>2, <2>1 DEF BuffersOK
<1>7. ChunksOK'
  <2>1. ChunksOK
    BY DEF BatchInv
  <2>2. \A i : Through(i)' = Through(i) /\ Table(i)' = Table(i)
    BY ONLY <1>1, <1>2 DEF Through, Table
  <2>3. QED
    BY ONLY <1>1, <1>2, <2>1, <2>2 DEF ChunksOK
<1>8. QED
  BY ONLY <1>3, <1>4, <1>5, <1>6, <1>7 DEF BatchInv

\* So does a step of a block.
LEMMA BlockKeeps ==
  ASSUME BatchInv, NEW i \in Chunks, Block(i)
  PROVE  BatchInv'
<1>1. CASE Lz4Reset(i)
  BY ONLY ResetKeeps, <1>1, BatchInv, i \in Chunks
<1>2. CASE Lz4Turn(i)
  BY ONLY TurnKeeps, <1>2, BatchInv, i \in Chunks
<1>3. CASE Lz4Written(i)
  BY ONLY WrittenKeeps, <1>3, BatchInv, i \in Chunks
<1>4. CASE SnapBlock(i)
  BY ONLY SnapKeeps, <1>4, BatchInv, i \in Chunks
<1>5. CASE CascadedCompressBlock(i)
  BY ONLY CascadedCompressKeeps, <1>5, BatchInv, i \in Chunks
<1>6. CASE LibraryCompressBlock(i)
  BY ONLY LibraryCompressKeeps, <1>6, BatchInv, i \in Chunks
<1>7. CASE QueryBlock(i)
  BY ONLY QueryKeeps, <1>7, BatchInv, i \in Chunks
<1>8. CASE Lz4DecompressBlock(i)
  BY ONLY Lz4DecompressKeeps, <1>8, BatchInv, i \in Chunks
<1>9. CASE UnsnapBlock(i)
  BY ONLY UnsnapKeeps, <1>9, BatchInv, i \in Chunks
<1>10. CASE LibraryDecompressBlock(i)
  BY ONLY LibraryDecompressKeeps, <1>10, BatchInv, i \in Chunks
<1>11. ASSUME NEW T \in {1, 2, 4, 8}, TypedBlock(T, i)
       PROVE  BatchInv'
  BY ONLY TypedKeeps, <1>11, BatchInv, i \in Chunks, T \in {1, 2, 4, 8}
<1>12. CASE ActualBlock(i)
  BY ONLY ActualKeeps, <1>12, BatchInv, i \in Chunks
<1>13. CASE ConvertBlock(i)
  BY ONLY ConvertKeeps, <1>13, BatchInv, i \in Chunks
<1>14. QED
  BY ONLY <1>1, <1>2, <1>3, <1>4, <1>5, <1>6, <1>7, <1>8, <1>9, <1>10, <1>11, <1>12, <1>13,
          Block(i), Zenon DEF Block

\* And every step.
LEMMA NextKeeps == BatchInv /\ [Next]_vars => BatchInv'
<1>. SUFFICES ASSUME BatchInv, [Next]_vars PROVE BatchInv'
  OBVIOUS
<1>1. CASE HostSizes
  BY ONLY HostSizesKeeps, <1>1, BatchInv
<1>2. CASE HostCompress
  BY ONLY HostCompressKeeps, <1>2, BatchInv
<1>3. CASE HostQuery
  BY ONLY HostQueryKeeps, <1>3, BatchInv
<1>4. CASE HostDecompress
  BY ONLY HostDecompressKeeps, <1>4, BatchInv
<1>5. ASSUME NEW i \in Chunks, Block(i)
      PROVE  BatchInv'
  BY ONLY BlockKeeps, <1>5, BatchInv, i \in Chunks
<1>6. CASE UNCHANGED vars
  BY ONLY StutterKeeps, <1>6, BatchInv
<1>7. QED
  BY ONLY <1>1, <1>2, <1>3, <1>4, <1>5, <1>6, [Next]_vars, Zenon DEF Next, Host, Rest

\* What a batch keeps true, from any job that a caller may give: the launches in
\* the stream are the last of the plan of its format, a warp of LZ4 is in a state
\* of its chunk, and each chunk has what the launches behind it wrote.
THEOREM BatchInvariant == Spec => []BatchInv
<1>1. Init => BatchInv
  BY ONLY InitBatch
<1>2. BatchInv /\ [Next]_vars => BatchInv'
  BY ONLY NextKeeps
<1>3. QED
  BY <1>1, <1>2, PTL DEF Spec

-----------------------------------------------------------------------------
(* What follows for a caller.                                              *)

\* Every variable keeps its type: no launch of the stream is without a block left,
\* and a hash table in scratch memory has offsets only.
THEOREM TypeCorrect == Spec => []TypeOK
<1>1. ASSUME BatchInv PROVE TypeOK
  <2>1. HostOK /\ StreamOK /\ TempOK
    BY ONLY <1>1 DEF BatchInv
  <2>2. job \in Job
    BY ONLY JobOK, <2>1
  <2>3. \A k \in DOMAIN stream : stream[k].blocks \in (SUBSET Chunks) \ {{}}
    <3>1. Ordered(stream, Queued, Plan, Chunks)
      BY ONLY <2>1 DEF StreamOK
    <3>2. DOMAIN stream = 1 .. Len(stream)
      BY ONLY <3>1 DEF Ordered
    <3>3. QED
      BY ONLY <3>1, <3>2 DEF Ordered
  <2>4. \A a \in DOMAIN temp : temp[a] \in 0 .. MAX_OFFSET
    BY ONLY <2>1 DEF TempOK
  <2>5. QED
    BY ONLY <2>1, <2>2, <2>3, <2>4 DEF TypeOK, HostOK
<1>2. QED
  BY <1>1, BatchInvariant, PTL

\* Blocks that compress at the same time keep to tables of their own, and the
\* memory behind the scratch buffer is never written: for every number of chunks,
\* size of a table and size of a buffer.
THEOREM TablesApart == Spec => []TempApart
<1>1. ASSUME BatchInv PROVE TempApart
  <2>1. TempInv
    BY ONLY <1>1 DEF BatchInv, TempOK
  <2>2. ASSUME NEW i \in Chunks, NEW j \in Chunks, i # j
        PROVE  Slice(i, HT_size) \cap Slice(j, HT_size) = {}
    <3>1. i \in Nat /\ j \in Nat /\ HT_size \in Nat
      BY ONLY TableSize, i \in Chunks, j \in Chunks DEF Chunks
    <3>2. QED
      BY ONLY SlicesApart, <2>2, <3>1
  <2>3. QED
    BY ONLY <2>1, <2>2 DEF TempApart, TempInv
<1>2. QED
  BY <1>1, BatchInvariant, PTL

\* No compressed chunk is larger than the size that the host was told to allocate,
\* whatever the chunks, the format and its options are.
THEOREM OutputBounded == Spec => []OutputBound
<1>1. ASSUME BatchInv PROVE OutputBound
  <2>1. ASSUME NEW i \in Chunks, compBytes[i] # Unwritten PROVE compBytes[i] <= asked.max
    <3>1. StoredOK(job, asked.max, Through(i), i, comp[i], compBytes[i])
      BY ONLY OfChunk, <1>1, i \in Chunks
    <3>2. compBytes[i] \in 0 .. asked.max
      BY ONLY <2>1, <3>1 DEF StoredOK
    <3>3. asked.max \in Nat
      BY ONLY <1>1 DEF BatchInv, HostOK
    <3>4. QED
      BY ONLY <3>2, <3>3
  <2>2. QED
    BY ONLY <2>1 DEF OutputBound
<1>2. QED
  BY <1>1, BatchInvariant, PTL

\* The size that a query finds in a compressed chunk is the size of the chunk.
THEOREM SizesFound == Spec => []SizesAgree
<1>1. ASSUME BatchInv PROVE SizesAgree
  <2>1. ASSUME NEW i \in Chunks, sizes[i] # Unwritten PROVE sizes[i] = Size(i)
    <3>1. SizeOK(job, Through(i), i, sizes[i])
      BY ONLY OfChunk, <1>1, i \in Chunks
    <3>2. sizes[i] = SizeOf(job, i)
      BY ONLY <2>1, <3>1 DEF SizeOK
    <3>3. QED
      BY ONLY SizesHere, <3>2
  <2>2. QED
    BY ONLY <2>1 DEF SizesAgree
<1>2. QED
  BY <1>1, BatchInvariant, PTL

\* When the stream is idle behind calls that all returned success, every launch of
\* the plan is through for every chunk.
LEMMA AllThrough ==
  ASSUME BatchInv, AtRest, call = "done", NEW i \in Chunks
  PROVE  job.format # "ans" /\ Through(i) = {Plan[k] : k \in 1 .. Len(Plan)}
<1>1. job.format # "ans" /\ stream = << >>
  BY ONLY BatchInv, AtRest, call = "done" DEF BatchInv, HostOK, AtRest
<1>2. Queued = Len(Plan)
  BY ONLY <1>1, call = "done" DEF Queued
<1>3. DOMAIN stream = {}
  BY ONLY <1>1
<1>4. QED
  BY ONLY <1>1, <1>2, <1>3 DEF Through, DoneOps, DueOps, LeftIn

\* Then every chunk has its size and its status, but for a Cascaded batch whose
\* first chunk is empty.
THEOREM ChunksAnswered == Spec => []TypedChunksAnswered
<1>1. ASSUME BatchInv PROVE TypedChunksAnswered
  <2>1. ASSUME Typed, AtRest, call = "done", NEW i \in Chunks
        PROVE  sizes[i] # Unwritten /\ actual[i] # Unwritten /\ statuses[i] \in Statuses
    <3>1. /\ job.format # "ans"
          /\ \A k \in 1 .. Len(Plan) : Plan[k] \in Through(i)
      BY ONLY AllThrough, <1>1, <2>1, i \in Chunks
    <3>2. HostOK
      BY ONLY <1>1 DEF BatchInv
    <3>3. PICK d \in Nat : d = SizeOf(job, i)
      BY ONLY SizeAndRoom, <3>2, i \in Chunks
    <3>4. job.format \in {"lz4", "snappy", "cascaded", "gdeflate", "bitcomp"} /\ job.T \in {1, 2, 4, 8}
      <4>1. job \in Job
        BY ONLY JobOK, <3>2
      <4>2. QED
        BY ONLY <3>1, <4>1 DEF Job, Formats, Libraries
    <3>5. SizeOK(job, Through(i), i, sizes[i]) /\ AnswerOK(job, Through(i), i, out[i], actual[i], statuses[i])
      BY ONLY OfChunk, <1>1, i \in Chunks
    <3>6. "query" \in Through(i)
      <4>1. Len(Plan) >= 2 /\ Len(Plan) \in Nat /\ Plan[2] = "query"
        BY ONLY <3>4 DEF Plan
      <4>2. QED
        BY ONLY <3>1, <4>1
    <3>7. sizes[i] # Unwritten
      BY ONLY <3>3, <3>5, <3>6, d \in Nat DEF SizeOK, Unwritten
    <3>8. CASE job.format \in {"lz4", "snappy"}
      <4>1. Len(Plan) = 3 /\ Plan[3] = "decompress"
        BY ONLY <3>8 DEF Plan
      <4>2. "decompress" \in Through(i)
        BY ONLY <3>1, <4>1
      <4>3. QED
        BY ONLY <3>5, <3>7, <3>8, <4>2 DEF AnswerOK, Answering
    <3>9. CASE job.format = "cascaded"
      <4>1. /\ Len(Plan) = 6 /\ Plan[3] = "typed1" /\ Plan[4] = "typed2"
            /\ Plan[5] = "typed4" /\ Plan[6] = "typed8"
        BY ONLY <3>9 DEF Plan
      <4>2. typed(job.T) \in {"typed1", "typed2", "typed4", "typed8"}
        BY ONLY <3>4 DEF typed
      <4>3. typed(job.T) \in Through(i)
        BY ONLY <3>1, <4>1, <4>2
      <4>4. Len(job.chunks) # 0 /\ SizeOf(job, 1) > 0
        <5>1. Size(1) > 0
          BY ONLY <2>1, <3>9 DEF Typed
        <5>2. Size(1) = SizeOf(job, 1)
          BY ONLY SizesHere
        <5>3. Len(job.chunks) # 0
          BY ONLY i \in Chunks DEF Chunks
        <5>4. QED
          BY ONLY <5>1, <5>2, <5>3
      <4>5. QED
        BY ONLY <3>5, <3>7, <3>9, <4>3, <4>4 DEF AnswerOK
    <3>10. CASE job.format \in Libraries
      <4>1. "convert" \in Through(i)
        <5>1. CASE job.format = "gdeflate"
          <6>1. Len(Plan) = 4 /\ Plan[4] = "convert"
            BY ONLY <5>1 DEF Plan
          <6>2. QED
            BY ONLY <3>1, <6>1
        <5>2. CASE job.format = "bitcomp"
          <6>1. Len(Plan) = 5 /\ Plan[5] = "convert"
            BY ONLY <5>2 DEF Plan
          <6>2. QED
            BY ONLY <3>1, <6>1
        <5>3. QED
          BY ONLY <3>10, <5>1, <5>2 DEF Libraries
      <4>2. QED
        BY ONLY <3>5, <3>7, <3>10, <4>1 DEF AnswerOK, Answering
    <3>11. QED
      BY ONLY <3>4, <3>8, <3>9, <3>10 DEF Libraries
  <2>2. QED
    BY ONLY <2>1 DEF TypedChunksAnswered, EveryChunkAnswered
<1>2. QED
  BY <1>1, BatchInvariant, PTL

\* No match of a chunk of LZ4 is further back than an offset can tell: an element
\* has one byte, or the chunk is not longer than the range of offsets.
InReach == job.format = "lz4" => \A i \in Chunks : job.T = 1 \/ Len(job.chunks[i]) <= OffsetRange

\* A decompressed chunk is the chunk that was compressed, and one without room is
\* refused within its room: for every content of the chunks, every interleaving of
\* the blocks and every format but Cascaded, with LZ4 up to the reach of an offset.
THEOREM ChunksReturn == Spec => [](job.format # "cascaded" /\ InReach => RoundTrip)
<1>1. ASSUME BatchInv PROVE job.format # "cascaded" /\ InReach => RoundTrip
  <2>1. ASSUME job.format # "cascaded", InReach, NEW i \in Chunks, statuses[i] \in Statuses
        PROVE  \/ statuses[i] = Success /\ out[i] = job.chunks[i] /\ actual[i] = Size(i)
                  /\ (room(i) < Size(i) => job.format = "snappy" /\ room(i) = 0)
               \/ statuses[i] # Success /\ Len(out[i]) * Width <= room(i)
                  /\ actual[i] = (IF job.format = "bitcomp" THEN Size(i) ELSE 0)
                  /\ (room(i) < Size(i) \/ (job.format = "cascaded" /\ Size(i) = 0))
    <3>1. HostOK
      BY ONLY <1>1 DEF BatchInv
    <3>2. job.format \in {"lz4", "snappy", "gdeflate", "bitcomp", "ans"}
      <4>1. job \in Job
        BY ONLY JobOK, <3>1
      <4>2. QED
        BY ONLY <2>1, <4>1 DEF Job, Formats, Libraries
    <3>3. AnswerOK(job, Through(i), i, out[i], actual[i], statuses[i])
      BY ONLY OfChunk, <1>1, i \in Chunks
    <3>4. Answering(job, i, out[i], actual[i], statuses[i])
      <4>1. statuses[i] # "unwritten" /\ statuses[i] # "library success" /\ statuses[i] \notin LibraryCodes
        BY ONLY <2>1 DEF Statuses, LibraryCodes, Success, InvalidValue, CannotDecompress
      <4>2. QED
        BY ONLY <3>2, <3>3, <4>1 DEF AnswerOK, Fresh, Decoding, Libraries
    <3>5. job.format = "lz4" => NarrowAt(job, i)
      BY ONLY <2>1, i \in Chunks DEF InReach, NarrowAt, Narrow
    <3>6. Right(job, i, out[i], actual[i], statuses[i])
      BY ONLY <3>4, <3>5 DEF Answering
    <3>7. Size(i) = SizeOf(job, i) /\ room(i) = RoomOf(job, i) /\ Width = 1
      BY ONLY SizesHere, <2>1 DEF Width
    <3>8. PICK r \in Nat : r = RoomOf(job, i)
      BY ONLY SizeAndRoom, <3>1, i \in Chunks
    <3>9. CASE statuses[i] = Success
      BY ONLY <3>6, <3>7, <3>9 DEF Right, Success, CannotDecompress, InvalidValue
    <3>10. CASE statuses[i] # Success
      <4>1. /\ Len(out[i]) <= r /\ r < SizeOf(job, i)
            /\ actual[i] = IF job.format = "bitcomp" THEN SizeOf(job, i) ELSE 0
        BY ONLY <3>6, <3>8, <3>10 DEF Right
      <4>2. Len(out[i]) * Width <= r
        BY ONLY <3>7, <4>1, r \in Nat
      <4>3. QED
        BY ONLY <3>7, <3>8, <3>10, <4>1, <4>2
    <3>11. QED
      BY ONLY <3>9, <3>10
  <2>2. QED
    BY ONLY <2>1, Zenon DEF RoundTrip
<1>2. QED
  BY <1>1, BatchInvariant, PTL
=============================================================================
