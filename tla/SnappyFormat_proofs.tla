------------------------ MODULE SnappyFormat_proofs ------------------------
(***************************************************************************)
(* Whatever the compressor writes in front of a literal or for a copy, the *)
(* decompressor reads back, for all lengths and distances that it uses.    *)
(***************************************************************************)
EXTENDS SnappyFormat, WellFoundedInduction, TLAPS

\* The header h stands at position p of a stream.
Stands(bytes, p, h) == \A i \in 1 .. Len(h) : bytes[p + i - 1] = h[i]

-----------------------------------------------------------------------------
(* Induction.  The theorems of the library that take a predicate cannot be *)
(* used here, but well-foundedness of the natural numbers can be: the      *)
(* predicate becomes a set.                                                *)

\* The order of the natural numbers as a relation.
LEMMA LessThan ==
  \E R : IsWellFoundedOn(R, Nat) /\ \A x, y \in Nat : x < y => <<x, y>> \in R
<1>1. \A x, y \in Nat : x < y => <<x, y>> \in OpToRel(<, Nat)
  BY DEF OpToRel
<1>2. WITNESS OpToRel(<, Nat)
<1>3. QED
  BY <1>1, NatLessThanWellFounded

\* A set of natural numbers that is not empty has a least member.
LEMMA LeastMember ==
  ASSUME NEW T, T \subseteq Nat, T # {}
  PROVE  \E x \in T : \A y \in T : x <= y
<1>1. PICK R : /\ IsWellFoundedOn(R, Nat)
               /\ \A x, y \in Nat : x < y => <<x, y>> \in R
  BY LessThan
<1>2. \E x \in T : \A y \in T : ~ (<<y, x>> \in R)
  <2>1. IsWellFoundedOn(R, Nat)
    BY <1>1
  <2>2. QED
    BY ONLY <2>1, T \subseteq Nat, T # {}, WFMin, ZenonT(20)
<1>3. PICK x \in T : \A y \in T : ~ (<<y, x>> \in R)
  BY <1>2
<1>4. ASSUME NEW y \in T PROVE x <= y
  <2>1. x \in Nat /\ y \in Nat
    OBVIOUS
  <2>2. ~ (<<y, x>> \in R)
    BY <1>3
  <2>3. ~ (y < x)
    BY ONLY <1>1, <2>1, <2>2, ZenonT(20)
  <2>4. QED
    BY <2>1, <2>3
<1>5. QED
  BY <1>4

\* A set that holds m, and with a number the next, holds all from m on.
LEMMA Induction ==
  ASSUME NEW m \in Nat, NEW S, m \in S,
         \A n \in Nat : n >= m /\ n \in S => n + 1 \in S
  PROVE  \A n \in Nat : n >= m => n \in S
<1>. DEFINE T == {n \in Nat : n >= m /\ n \notin S}
<1>1. SUFFICES ASSUME T # {} PROVE FALSE
  OBVIOUS
<1>2. PICK x \in T : \A y \in T : x <= y
  BY <1>1, LeastMember
<1>3. x # m /\ x \in Nat /\ x >= m /\ x \notin S
  OBVIOUS
<1>4. x - 1 \in Nat /\ x - 1 >= m /\ x - 1 \in S
  BY <1>2, <1>3
<1>5. (x - 1) + 1 \in S
  BY <1>4
<1>6. QED
  BY <1>3, <1>5

-----------------------------------------------------------------------------
(* Repetitions: a copy stands for bytes that are not all there yet.        *)

\* A remainder is what it should be.
LEMMA Remainder ==
  ASSUME NEW n \in Nat \ {0}, NEW q \in Int, NEW r \in 0 .. n - 1
  PROVE  (n * q + r) % n = r
OBVIOUS

\* Behind a position, f goes on for len members with what it had d before.
GoesOn(f, d, at, len) == \A k \in 1 .. len : f[at + k] = f[at + k - d]
\* Member j of these is one of the last d before.
AsBefore(f, d, at, j) == f[at + j] = f[at - d + 1 + ((j - 1) % d)]

\* A sequence that goes on like that repeats the last d members before.
LEMMA Repeats ==
  ASSUME NEW f, NEW d, NEW at, NEW len, NEW j,
         d \in Nat \ {0}, at \in Nat, len \in Nat, j \in 1 .. len,
         GoesOn(f, d, at, len)
  PROVE  AsBefore(f, d, at, j)
<1>. DEFINE S == {k \in Nat : \A m \in 1 .. k : m <= len =>
                    f[at + m] = f[at - d + 1 + ((m - 1) % d)]}
<1>1. 0 \in S
  OBVIOUS
<1>2. ASSUME NEW k \in Nat, k >= 0, k \in S PROVE k + 1 \in S
  <2>1. SUFFICES ASSUME k + 1 <= len
                 PROVE  f[at + (k + 1)] = f[at - d + 1 + (((k + 1) - 1) % d)]
    <3>1. \A m \in 1 .. k + 1 : m \in 1 .. k \/ m = k + 1
      OBVIOUS
    <3>2. \A m \in 1 .. k : m <= len => f[at + m] = f[at - d + 1 + ((m - 1) % d)]
      BY <1>2
    <3>3. \A m \in 1 .. k + 1 : m <= len => f[at + m] = f[at - d + 1 + ((m - 1) % d)]
      BY <2>1, <3>1, <3>2
    <3>4. QED
      BY <3>3
  <2>0. (k + 1) - 1 = k
    OBVIOUS
  <2>2. f[at + (k + 1)] = f[at + (k + 1) - d]
    BY <2>1 DEF GoesOn
  <2>3. CASE k < d
    <3>1. k % d = k
      BY <2>3
    <3>2. at + (k + 1) - d = at - d + 1 + k
      OBVIOUS
    <3>3. QED
      BY <2>0, <2>2, <3>1, <3>2
  <2>4. CASE k >= d
    <3>. DEFINE m == k + 1 - d
    <3>1. m \in 1 .. k /\ m <= len
      BY <2>1, <2>4
    <3>2. f[at + m] = f[at - d + 1 + ((m - 1) % d)]
      BY <1>2, <3>1
    <3>3. (m - 1) % d = k % d
      <4>1. k \div d \in Int /\ k % d \in 0 .. d - 1 /\ k = d * (k \div d) + (k % d)
        OBVIOUS
      <4>2. PICK q \in Int, r \in 0 .. d - 1 : k % d = r /\ k = d * q + r
        BY <4>1
      <4>3. m - 1 = d * (q - 1) + r
        BY <4>2
      <4>4. (d * (q - 1) + r) % d = r
        BY Remainder
      <4>5. QED
        BY <4>2, <4>3, <4>4
    <3>4. at + (k + 1) - d = at + m
      OBVIOUS
    <3>5. QED
      BY <2>0, <2>2, <3>2, <3>3, <3>4
  <2>5. QED
    BY <2>3, <2>4
<1>. HIDE DEF S
<1>3. j \in S
  <2>1. j \in Nat /\ j >= 0
    OBVIOUS
  <2>2. QED
    BY <1>1, <1>2, <2>1, Induction
<1>4. QED
  BY <1>3 DEF S, AsBefore

-----------------------------------------------------------------------------
(* The size in front of a stream.  SizeBytes is recursive: it exists       *)
(* because its beginnings, the functions that satisfy the recursion up to  *)
(* some number, exist and agree.                                           *)

\* One step of the recursion, given the bytes of the rest.
SizeStep(n, rest) == IF n <= 127 THEN <<n>> ELSE <<(n % 128) + 128>> \o rest

\* The functions that satisfy it up to top.
Beginnings(top) ==
  {h \in [0 .. top -> Seq(Byte)] :
     \A n \in 0 .. top : h[n] = SizeStep(n, h[n \div 128])}

\* A number of several bytes is greater than the rest without the first.
LEMMA RestIsLess ==
  ASSUME NEW n \in Nat, n > 127
  PROVE  n \div 128 \in Nat /\ n \div 128 < n
BY SMT

\* One step gives bytes.
LEMMA StepType ==
  ASSUME NEW n \in Nat, NEW rest \in Seq(Byte)
  PROVE  SizeStep(n, rest) \in Seq(Byte)
<1>1. CASE n <= 127
  <2>1. n \in Byte
    BY <1>1 DEF Byte
  <2>2. QED
    BY <1>1, <2>1 DEF SizeStep
<1>2. CASE ~(n <= 127)
  <2>1. (n % 128) + 128 \in Byte
    BY DEF Byte
  <2>2. <<(n % 128) + 128>> \in Seq(Byte)
    BY <2>1
  <2>3. QED
    BY <1>2, <2>2 DEF SizeStep
<1>3. QED
  BY <1>1, <1>2

\* Two beginnings agree where both are defined.
LEMMA BeginningsAgree ==
  ASSUME NEW a \in Nat, NEW b \in Nat, NEW h \in Beginnings(a),
         NEW k \in Beginnings(b), NEW n \in Nat, n <= a, n <= b
  PROVE  h[n] = k[n]
<1>. DEFINE T == {i \in Nat : i <= a /\ i <= b /\ h[i] # k[i]}
<1>1. SUFFICES ASSUME T # {} PROVE FALSE
  OBVIOUS
<1>2. PICK i \in T : \A j \in T : i <= j
  BY <1>1, LeastMember
<1>3. i \in Nat /\ i <= a /\ i <= b /\ h[i] # k[i]
  OBVIOUS
<1>4. h[i] = SizeStep(i, h[i \div 128]) /\ k[i] = SizeStep(i, k[i \div 128])
  BY <1>3 DEF Beginnings
<1>5. i > 127
  BY <1>3, <1>4 DEF SizeStep
<1>6. PICK q : q = i \div 128
  OBVIOUS
<1>7. q \in Nat /\ q < i
  BY <1>3, <1>5, <1>6, RestIsLess
<1>8. h[q] = k[q]
  BY <1>2, <1>3, <1>7
<1>9. QED
  BY <1>3, <1>4, <1>6, <1>8

\* There are beginnings of every length.
LEMMA BeginningsExist ==
  ASSUME NEW top \in Nat
  PROVE  \E h : h \in Beginnings(top)
<1>. DEFINE S == {n \in Nat : \E h : h \in Beginnings(n)}
<1>1. 0 \in S
  <2>. DEFINE h == [i \in 0 .. 0 |-> <<0>>]
  <2>1. 0 \in Byte
    BY DEF Byte
  <2>2. h \in [0 .. 0 -> Seq(Byte)]
    BY <2>1
  <2>3. \A i \in 0 .. 0 : h[i] = SizeStep(i, h[i \div 128])
    BY DEF SizeStep
  <2>4. h \in Beginnings(0)
    BY <2>2, <2>3 DEF Beginnings
  <2>5. QED
    BY <2>4
<1>2. ASSUME NEW n \in Nat, n >= 0 /\ n \in S PROVE n + 1 \in S
  <2>1. PICK h : h \in Beginnings(n)
    BY <1>2
  <2>2. /\ h \in [0 .. n -> Seq(Byte)]
        /\ \A i \in 0 .. n : h[i] = SizeStep(i, h[i \div 128])
    BY <2>1 DEF Beginnings
  <2>3. PICK q : q = (n + 1) \div 128
    OBVIOUS
  <2>4. q \in 0 .. n
    BY <2>3, SMT
  <2>. DEFINE k == [i \in 0 .. n + 1 |-> IF i <= n THEN h[i]
                                                 ELSE SizeStep(n + 1, h[q])]
  <2>5. SizeStep(n + 1, h[q]) \in Seq(Byte)
    BY <2>2, <2>4, StepType
  <2>6. k \in [0 .. n + 1 -> Seq(Byte)]
    BY <2>2, <2>5
  <2>7. ASSUME NEW i \in 0 .. n + 1 PROVE k[i] = SizeStep(i, k[i \div 128])
    <3>1. PICK r : r = i \div 128
      OBVIOUS
    <3>2. r \in 0 .. n
      BY <3>1, SMT
    <3>3. k[r] = h[r]
      BY <3>2
    <3>4. CASE i <= n
      <4>1. k[i] = h[i] /\ h[i] = SizeStep(i, h[r])
        BY <2>2, <3>1, <3>4
      <4>2. QED
        BY <3>1, <3>3, <4>1
    <3>5. CASE i = n + 1
      <4>1. k[i] = SizeStep(n + 1, h[q]) /\ q = r
        BY <2>3, <3>1, <3>5
      <4>2. QED
        BY <3>1, <3>3, <3>5, <4>1
    <3>6. QED
      BY <3>4, <3>5
  <2>8. k \in Beginnings(n + 1)
    BY <2>6, <2>7 DEF Beginnings
  <2>9. QED
    BY <2>8
<1>3. \A n \in Nat : n >= 0 => n \in S
  BY <1>1, <1>2, Induction
<1>4. QED
  BY <1>3

\* SizeBytes satisfies its recursion, and gives bytes.
LEMMA SizeRecursion ==
  ASSUME NEW n \in Nat
  PROVE  /\ SizeBytes[n] = SizeStep(n, SizeBytes[n \div 128])
         /\ SizeBytes[n] \in Seq(Byte)
<1>. DEFINE B(i) == CHOOSE h : h \in Beginnings(i)
            F == [i \in Nat |-> B(i)[i]]
            Solves(g) == g = [i \in Nat |->
                                IF i <= 127 THEN <<i>>
                                ELSE <<(i % 128) + 128>> \o g[i \div 128]]
<1>1. \A i \in Nat : B(i) \in Beginnings(i)
  BY BeginningsExist
<1>. HIDE DEF B
<1>2. ASSUME NEW i \in Nat
      PROVE  /\ F[i] = IF i <= 127 THEN <<i>>
                                   ELSE <<(i % 128) + 128>> \o F[i \div 128]
             /\ F[i] \in Seq(Byte)
  <2>1. PICK q : q = i \div 128
    OBVIOUS
  <2>2. q \in Nat /\ q <= i
    BY <2>1, SMT
  <2>3. B(i) \in Beginnings(i) /\ B(q) \in Beginnings(q)
    BY <1>1, <2>2
  <2>4. B(i)[q] = B(q)[q]
    BY <2>2, <2>3, BeginningsAgree
  <2>5. B(i)[i] = SizeStep(i, B(i)[i \div 128]) /\ B(i)[i] \in Seq(Byte)
    BY <2>3 DEF Beginnings
  <2>6. F[i] = B(i)[i] /\ F[q] = B(q)[q]
    BY <2>2
  <2>7. F[i] = SizeStep(i, F[q]) /\ F[i] \in Seq(Byte)
    BY <2>1, <2>4, <2>5, <2>6
  <2>8. QED
    BY <2>1, <2>7 DEF SizeStep
<1>3. Solves(F)
  <2>1. F = [i \in Nat |-> F[i]]
    OBVIOUS
  <2>2. QED
    BY <1>2, <2>1, ZenonT(30)
<1>4. SizeBytes = CHOOSE g : Solves(g)
  BY ONLY ZenonT(30) DEF SizeBytes
<1>5. Solves(SizeBytes)
  BY <1>3, <1>4, Zenon
<1>6. ASSUME NEW i \in Nat
      PROVE  SizeBytes[i] = SizeStep(i, SizeBytes[i \div 128])
  BY <1>5 DEF SizeStep
<1>. HIDE DEF Solves, F
<1>. DEFINE T == {i \in Nat : SizeBytes[i] \notin Seq(Byte)}
<1>7. ASSUME T # {} PROVE FALSE
  <2>1. PICK i \in T : \A j \in T : i <= j
    BY <1>7, LeastMember
  <2>2. i \in Nat /\ SizeBytes[i] \notin Seq(Byte)
    OBVIOUS
  <2>3. CASE i <= 127
    <3>1. i \in Byte
      BY <2>2, <2>3 DEF Byte
    <3>2. SizeBytes[i] = <<i>>
      BY <1>6, <2>2, <2>3, Zenon DEF SizeStep
    <3>3. QED
      BY <2>2, <3>1, <3>2
  <2>4. CASE i > 127
    <3>1. PICK q : q = i \div 128
      OBVIOUS
    <3>2. q \in Nat /\ q < i
      BY <2>2, <2>4, <3>1, RestIsLess
    <3>3. SizeBytes[q] \in Seq(Byte)
      BY <2>1, <2>2, <3>2
    <3>4. SizeStep(i, SizeBytes[q]) \in Seq(Byte)
      BY <2>2, <3>3, StepType
    <3>5. QED
      BY <1>6, <2>2, <3>1, <3>4
  <2>5. QED
    BY <2>2, <2>3, <2>4
<1>8. QED
  BY <1>6, <1>7

-----------------------------------------------------------------------------
(* Arithmetic.                                                             *)

\* A number of two bytes from its bytes.
LEMMA TwoBytes ==
  ASSUME NEW d \in Nat, d < 256 * 256
  PROVE  (d % 256) + 256 * ((d \div 256) % 256) = d
<1>1. PICK q \in Nat : q = d \div 256
  BY SMT
<1>2. q < 256 /\ 256 * q + (d % 256) = d
  BY <1>1, SMT
<1>3. (q % 256) = q
  BY <1>2, SMT
<1> QED
  BY <1>1, <1>2, <1>3, SMT

\* The tag byte of a copy with one offset byte.
LEMMA ShortTag ==
  ASSUME NEW a \in 0 .. 7, NEW b \in 0 .. 7,
         NEW t \in Nat, t = (32 * a + 4 * b + 1) % 256
  PROVE  t % 4 = 1 /\ t \div 32 = a /\ ((t \div 4) % 8) = b
  BY SMT

\* The tag byte of a copy with two offset bytes.
LEMMA WideTag ==
  ASSUME NEW b \in 0 .. 63, NEW t \in Nat, t = (4 * b + 2) % 256
  PROVE  t % 4 = 2 /\ t \div 4 = b
  BY SMT

-----------------------------------------------------------------------------
(* Headers in a stream.                                                    *)

\* Where a header of one byte stands, it is read.
LEMMA OneStands ==
  ASSUME NEW bytes, NEW p \in Nat, NEW a, Stands(bytes, p, <<a>>)
  PROVE  bytes[p + 0] = a
<1>1. Len(<<a>>) = 1 /\ <<a>>[1] = a
  BY SMT
<1>2. bytes[p + 1 - 1] = a
  BY <1>1, SMT DEF Stands
<1>3. p + 1 - 1 = p + 0
  BY SMT
<1> QED
  BY <1>2, <1>3, SMT

\* So for a header of two bytes.
LEMMA TwoStand ==
  ASSUME NEW bytes, NEW p \in Nat, NEW a, NEW b, Stands(bytes, p, <<a, b>>)
  PROVE  bytes[p + 0] = a /\ bytes[p + 1] = b
<1>1. Len(<<a, b>>) = 2 /\ <<a, b>>[1] = a /\ <<a, b>>[2] = b
  BY SMT
<1>2. bytes[p + 1 - 1] = a /\ bytes[p + 2 - 1] = b
  BY <1>1, SMT DEF Stands
<1>3. p + 1 - 1 = p + 0 /\ p + 2 - 1 = p + 1
  BY SMT
<1> QED
  BY <1>2, <1>3, SMT

\* So for a header of three bytes.
LEMMA ThreeStand ==
  ASSUME NEW bytes, NEW p \in Nat, NEW a, NEW b, NEW c,
         Stands(bytes, p, <<a, b, c>>)
  PROVE  bytes[p + 0] = a /\ bytes[p + 1] = b /\ bytes[p + 2] = c
<1>1. /\ Len(<<a, b, c>>) = 3
      /\ <<a, b, c>>[1] = a /\ <<a, b, c>>[2] = b /\ <<a, b, c>>[3] = c
  BY SMT
<1>2. bytes[p + 1 - 1] = a /\ bytes[p + 2 - 1] = b /\ bytes[p + 3 - 1] = c
  BY <1>1, SMT DEF Stands
<1>3. p + 1 - 1 = p + 0 /\ p + 2 - 1 = p + 1 /\ p + 3 - 1 = p + 2
  BY SMT
<1> QED
  BY <1>2, <1>3, SMT

-----------------------------------------------------------------------------

\* What StoreCopy writes for a match of FindFourByteMatch and Match60 the
\* decompressor reads back: the same length and the same distance.
THEOREM CopyHeaderRead ==
  ASSUME NEW len \in 4 .. 64, NEW dist \in Nat, dist < 256 * 256,
         NEW bytes, NEW p \in Nat, Stands(bytes, p, CopyHeader(len, dist))
  PROVE  ReadSymbol(bytes, p) =
           [tag |-> Len(CopyHeader(len, dist)), len |-> len, dist |-> dist]
<1>1. PICK low \in Nat : low = dist % 256
  BY SMT
<1>2. CASE len < 12 /\ dist < 2048
  <2>1. PICK a \in Nat : a = dist \div 256
    BY SMT
  <2>2. a \in 0 .. 7 /\ 256 * a + low = dist /\ (a % 8) = a
    BY <1>1, <1>2, <2>1, SMT
  <2>3. PICK b \in 0 .. 7 : b = len - 4
    BY <1>2, SMT
  <2>4. PICK t \in Nat : t = (32 * a + 4 * b + 1) % 256
    BY SMT
  <2>5. t % 4 = 1 /\ t \div 32 = a /\ ((t \div 4) % 8) = b
    BY <2>2, <2>4, ShortTag, SMT
  <2>6. t = (32 * ((dist \div 256) % 8) + 4 * (len - 4) + 1) % 256
    BY <2>1, <2>2, <2>3, <2>4, SMT
  <2>7. CopyHeader(len, dist) = <<t, low>>
    BY <1>1, <1>2, <2>6, SMT DEF CopyHeader
  <2>8. bytes[p + 0] = t /\ bytes[p + 1] = low
    BY <2>7, TwoStand, SMT
  <2>9. ReadSymbol(bytes, p) = [tag |-> 2, len |-> b + 4, dist |-> 256 * a + low]
    BY <2>5, <2>8, SMT DEF ReadSymbol
  <2>10. Len(<<t, low>>) = 2 /\ b + 4 = len
    BY <2>3, SMT
  <2> QED
    BY <2>2, <2>7, <2>9, <2>10, SMT
<1>3. CASE ~(len < 12 /\ dist < 2048)
  <2>1. PICK b \in 0 .. 63 : b = len - 1
    BY SMT
  <2>2. PICK high \in Nat : high = (dist \div 256) % 256
    BY SMT
  <2>3. PICK t \in Nat : t = (4 * b + 2) % 256
    BY SMT
  <2>4. t % 4 = 2 /\ t \div 4 = b
    BY <2>3, WideTag, SMT
  <2>5. t = (4 * (len - 1) + 2) % 256
    BY <2>1, <2>3, SMT
  <2>6. CopyHeader(len, dist) = <<t, low, high>>
    BY <1>1, <1>3, <2>2, <2>5, SMT DEF CopyHeader
  <2>7. bytes[p + 0] = t /\ bytes[p + 1] = low /\ bytes[p + 2] = high
    BY <2>6, ThreeStand, SMT
  <2>8. ReadSymbol(bytes, p) = [tag |-> 3, len |-> 1 + b, dist |-> low + 256 * high]
    BY <2>4, <2>7, SMT DEF ReadSymbol
  <2>9. low + 256 * high = dist
    BY <1>1, <2>2, TwoBytes, SMT
  <2>10. Len(<<t, low, high>>) = 3 /\ 1 + b = len
    BY <2>1, SMT
  <2> QED
    BY <2>6, <2>8, <2>9, <2>10, SMT
<1> QED
  BY <1>2, <1>3

\* What StoreLiterals writes in front of a literal of l + 1 bytes, at most
\* the 256 that FindFourByteMatch finds, the decompressor reads back.
THEOREM LiteralHeaderRead ==
  ASSUME NEW l \in 0 .. 255, NEW bytes, NEW p \in Nat,
         Stands(bytes, p, LiteralHeader(l))
  PROVE  ReadSymbol(bytes, p) =
           [tag |-> Len(LiteralHeader(l)), len |-> l + 1, dist |-> 0]
<1>1. CASE l < 60
  <2>1. PICK t \in Nat : t = 4 * l
    BY SMT
  <2>2. t % 4 = 0 /\ t \div 4 = l
    BY <1>1, <2>1, SMT
  <2>3. LiteralHeader(l) = <<t>>
    BY <1>1, <2>1, SMT DEF LiteralHeader
  <2>4. bytes[p + 0] = t
    BY <2>3, OneStands, SMT
  <2>5. ReadSymbol(bytes, p) = [tag |-> 1, len |-> 1 + l, dist |-> 0]
    BY <1>1, <2>2, <2>4, SMT DEF ReadSymbol
  <2>6. Len(<<t>>) = 1 /\ 1 + l = l + 1
    BY SMT
  <2> QED
    BY <2>3, <2>5, <2>6, SMT
<1>2. CASE ~(l < 60)
  <2>1. (l % 256) = l
    BY SMT
  <2>2. LiteralHeader(l) = <<240, l>>
    BY <1>2, <2>1, SMT DEF LiteralHeader
  <2>3. bytes[p + 0] = 240 /\ bytes[p + 1] = l
    BY <2>2, TwoStand, SMT
  <2>4. 240 % 4 = 0 /\ 240 \div 4 = 60
    BY SMT
  <2>5. ReadSymbol(bytes, p) = [tag |-> 2, dist |-> 0, len |-> 1 + l + 0 + 0 + 0]
    BY <2>3, <2>4, SMT DEF ReadSymbol
  <2>6. Len(<<240, l>>) = 2 /\ 1 + l + 0 + 0 + 0 = l + 1
    BY SMT
  <2> QED
    BY <2>2, <2>5, <2>6, SMT
<1> QED
  BY <1>1, <1>2

-----------------------------------------------------------------------------
(* The size in front of a stream.                                          *)

\* The bytes of a size one by one.
LEMMA SizeUnfolded ==
  ASSUME NEW n \in Nat
  PROVE  /\ n <= 127 => Len(SizeBytes[n]) = 1 /\ SizeBytes[n][1] = n
         /\ n > 127 =>
              /\ Len(SizeBytes[n]) = 1 + Len(SizeBytes[n \div 128])
              /\ SizeBytes[n][1] = (n % 128) + 128
              /\ \A i \in 1 .. Len(SizeBytes[n \div 128]) :
                   SizeBytes[n][i + 1] = SizeBytes[n \div 128][i]
<1>1. PICK q : q = n \div 128
  OBVIOUS
<1>2. PICK d \in Nat : d = (n % 128) + 128
  OBVIOUS
<1>3. q \in Nat
  BY <1>1, SMT
<1>4. PICK r \in Seq(Byte) : r = SizeBytes[q]
  BY <1>3, SizeRecursion
<1>5. SizeBytes[n] = IF n <= 127 THEN <<n>> ELSE <<d>> \o r
  BY <1>1, <1>2, <1>4, SizeRecursion DEF SizeStep
<1>6. /\ Len(<<d>> \o r) = 1 + Len(r)
      /\ (<<d>> \o r)[1] = d
      /\ \A i \in 1 .. Len(r) : (<<d>> \o r)[i + 1] = r[i]
  BY SMT
<1>7. Len(<<n>>) = 1 /\ <<n>>[1] = n
  BY SMT
<1>8. QED
  BY <1>1, <1>2, <1>4, <1>5, <1>6, <1>7

\* A size that can be read has at most five bytes: n, and what is left of it
\* after one byte, two, three and four.
LEMMA SizeParts ==
  ASSUME NEW n \in Nat, n <= MaxSize
  PROVE  \E a, b, c \in Nat, d \in 0 .. 7 :
            a = n \div 128 /\ b = a \div 128 /\ c = b \div 128 /\ d = c \div 128
<1>1. PICK a \in Nat : a = n \div 128 /\ 128 * a <= n
  BY SMT
<1>2. PICK b \in Nat : b = a \div 128 /\ 128 * b <= a
  BY SMT
<1>3. PICK c \in Nat : c = b \div 128 /\ 128 * c <= b
  BY SMT
<1>4. PICK d \in Nat : d = c \div 128 /\ 128 * d <= c
  BY SMT
<1>5. d <= 7
  BY <1>1, <1>2, <1>3, <1>4, SMT DEF MaxSize
<1>6. d \in 0 .. 7
  BY <1>5, SMT
<1>7. a = n \div 128 /\ b = a \div 128 /\ c = b \div 128 /\ d = c \div 128
  BY <1>1, <1>2, <1>3, <1>4
<1>8. QED
  BY ONLY <1>6, <1>7, a \in Nat, b \in Nat, c \in Nat, Zenon

\* A size that can be read takes at most five bytes.
LEMMA SizeLength ==
  ASSUME NEW n \in Nat, n <= MaxSize
  PROVE  Len(SizeBytes[n]) \in 1 .. 5
<1>1. PICK a, b, c \in Nat, d \in 0 .. 7 :
         a = n \div 128 /\ b = a \div 128 /\ c = b \div 128 /\ d = c \div 128
  BY SizeParts
<1>2. \A i, q \in Nat :
        q = i \div 128 =>
          Len(SizeBytes[i]) = 1 \/ Len(SizeBytes[i]) = 1 + Len(SizeBytes[q])
  <2>1. SUFFICES ASSUME NEW i \in Nat, NEW q \in Nat, q = i \div 128
                 PROVE  \/ Len(SizeBytes[i]) = 1
                        \/ Len(SizeBytes[i]) = 1 + Len(SizeBytes[q])
    OBVIOUS
  <2>2. i <= 127 \/ i > 127
    BY SMT
  <2>3. QED
    BY <2>1, <2>2, SizeUnfolded, Zenon
<1>3. d <= 127 /\ d \in Nat
  BY SMT
<1>4. Len(SizeBytes[d]) = 1
  BY <1>3, SizeUnfolded, Zenon
<1>5. /\ Len(SizeBytes[c]) = 1 \/ Len(SizeBytes[c]) = 1 + Len(SizeBytes[d])
      /\ Len(SizeBytes[b]) = 1 \/ Len(SizeBytes[b]) = 1 + Len(SizeBytes[c])
      /\ Len(SizeBytes[a]) = 1 \/ Len(SizeBytes[a]) = 1 + Len(SizeBytes[b])
      /\ Len(SizeBytes[n]) = 1 \/ Len(SizeBytes[n]) = 1 + Len(SizeBytes[a])
  <2>1. a = n \div 128 /\ b = a \div 128 /\ c = b \div 128 /\ d = c \div 128
    BY <1>1
  <2>2. d \in Nat
    BY <1>3
  <2>3. Len(SizeBytes[c]) = 1 \/ Len(SizeBytes[c]) = 1 + Len(SizeBytes[d])
    BY ONLY <1>2, <2>1, <2>2, c \in Nat, Zenon
  <2>4. Len(SizeBytes[b]) = 1 \/ Len(SizeBytes[b]) = 1 + Len(SizeBytes[c])
    BY ONLY <1>2, <2>1, b \in Nat, c \in Nat, Zenon
  <2>5. Len(SizeBytes[a]) = 1 \/ Len(SizeBytes[a]) = 1 + Len(SizeBytes[b])
    BY ONLY <1>2, <2>1, a \in Nat, b \in Nat, Zenon
  <2>6. Len(SizeBytes[n]) = 1 \/ Len(SizeBytes[n]) = 1 + Len(SizeBytes[a])
    BY ONLY <1>2, <2>1, n \in Nat, a \in Nat, Zenon
  <2>7. QED
    BY ONLY <2>3, <2>4, <2>5, <2>6, Zenon
<1>6. \A u, v, w, x, y :
         /\ u = 1 /\ (v = 1 \/ v = 1 + u) /\ (w = 1 \/ w = 1 + v)
         /\ (x = 1 \/ x = 1 + w) /\ (y = 1 \/ y = 1 + x)
         => y \in 1 .. 5
  BY SMT
<1>7. QED
  BY <1>4, <1>5, <1>6, Zenon

\* The i bytes of n stand at the beginning of a stream, behind k other ones.
SizeStands(bytes, k, n) ==
  \A i \in 1 .. Len(SizeBytes[n]) : bytes[k + i] = SizeBytes[n][i]

\* The first of these bytes, and the rest.
LEMMA SizeSplit ==
  ASSUME NEW n \in Nat, NEW k \in Nat, NEW bytes, SizeStands(bytes, k, n)
  PROVE  /\ n <= 127 => bytes[k + 1] = n
         /\ n > 127 => /\ bytes[k + 1] = (n % 128) + 128
                       /\ SizeStands(bytes, k + 1, n \div 128)
<1>1. PICK q : q = n \div 128
  OBVIOUS
<1>2. q \in Nat
  BY <1>1, SMT
<1>3. SizeBytes[n] \in Seq(Byte) /\ SizeBytes[q] \in Seq(Byte)
  BY <1>2, SizeRecursion
<1>4. CASE n <= 127
  <2>1. 1 \in 1 .. Len(SizeBytes[n]) /\ SizeBytes[n][1] = n
    BY <1>4, SizeUnfolded
  <2>2. QED
    BY <1>4, <2>1 DEF SizeStands
<1>5. CASE n > 127
  <2>1. /\ Len(SizeBytes[n]) = 1 + Len(SizeBytes[q])
        /\ SizeBytes[n][1] = (n % 128) + 128
        /\ \A i \in 1 .. Len(SizeBytes[q]) : SizeBytes[n][i + 1] = SizeBytes[q][i]
    BY <1>1, <1>5, SizeUnfolded
  <2>2. Len(SizeBytes[q]) \in Nat
    BY <1>3
  <2>3. bytes[k + 1] = (n % 128) + 128
    BY <2>1, <2>2 DEF SizeStands
  <2>4. ASSUME NEW i \in 1 .. Len(SizeBytes[q])
        PROVE  bytes[(k + 1) + i] = SizeBytes[q][i]
    <3>1. i + 1 \in 1 .. Len(SizeBytes[n]) /\ k + (i + 1) = (k + 1) + i
      <4>1. PICK m \in Nat : m = Len(SizeBytes[q])
        BY <2>2
      <4>2. i \in 1 .. m /\ Len(SizeBytes[n]) = 1 + m
        BY <2>1, <4>1
      <4>3. i + 1 \in 1 .. 1 + m /\ k + (i + 1) = (k + 1) + i
        BY <4>1, <4>2
      <4>4. QED
        BY <4>2, <4>3
    <3>2. bytes[k + (i + 1)] = SizeBytes[n][i + 1]
      BY <3>1 DEF SizeStands
    <3>3. QED
      BY <2>1, <3>1, <3>2
  <2>5. SizeStands(bytes, k + 1, q)
    BY <2>4 DEF SizeStands
  <2>6. QED
    BY <1>1, <1>5, <2>3, <2>5
<1>6. QED
  BY <1>4, <1>5

\* The lowest seven bits of a number and the others.
LEMMA SevenBits ==
  ASSUME NEW n \in Nat
  PROVE  \E r \in 0 .. 127, a \in Nat :
            r = n % 128 /\ a = n \div 128 /\ n = 128 * a + r
<1>1. n % 128 \in 0 .. 127 /\ n \div 128 \in Nat /\ n = 128 * (n \div 128) + (n % 128)
  BY SMT
<1>2. QED
  BY <1>1, Zenon

\* A group of bits below the one that tells of another byte.
LEMMA LowSeven == ASSUME NEW r \in 0 .. 127 PROVE ((r + 128) % 128) = r
BY SMT
\* Two groups below it.
LEMMA LowFourteen ==
  ASSUME NEW x \in Nat, x < 16384 PROVE ((x + 16384) % 16384) = x
BY SMT
\* Three groups below it.
LEMMA LowTwentyOne ==
  ASSUME NEW x \in Nat, x < 2097152 PROVE ((x + 2097152) % 2097152) = x
BY SMT
\* Four groups below it.
LEMMA LowTwentyEight ==
  ASSUME NEW x \in Nat, x < 268435456 PROVE ((x + 268435456) % 268435456) = x
BY SMT

\* What ReadSize makes of five bytes (of zeros behind the end): the number
\* from two, three and four bytes, given the one from a byte less, and the
\* choice among these numbers.
ReadTwo(e1, e2)   == (e1 % 128) + 128 * e2
ReadThree(b2, e3) == (b2 % 16384) + 16384 * e3
ReadFour(b3, e4)  == (b3 % 2097152) + 2097152 * e4
Choice(e1, b2, b3, b4, e5) ==
  IF e1 < 128 THEN e1 ELSE IF b2 < 16384 THEN b2 ELSE
  IF b3 < 2097152 THEN b3 ELSE IF b4 < 268435456 THEN b4 ELSE
  IF e5 < 8 THEN (b4 % 268435456) + 268435456 * e5 ELSE SizeError
Combined(e1, e2, e3, e4, e5) ==
  LET b2 == ReadTwo(e1, e2)
      b3 == ReadThree(b2, e3)
      b4 == ReadFour(b3, e4)
  IN  Choice(e1, b2, b3, b4, e5)

\* A group of seven bits, the same with the bit that tells of another byte,
\* the lowest group of a number and the others.
Seven(x) == x \in 0 .. 127
Mark(x)  == x + 128
Low(n)   == n % 128
Rest(n)  == n \div 128

\* The number that has these groups of seven bits.
Number7(r, s, t, w, d) == r + 128 * s + 16384 * t + 2097152 * w + 268435456 * d

\* One byte with a group of seven bits is read as that number.
LEMMA OneGroup ==
  ASSUME NEW r, Seven(r), NEW e2, NEW e3, NEW e4, NEW e5
  PROVE  Combined(r, e2, e3, e4, e5) = Number7(r, 0, 0, 0, 0)
<1>types. r \in 0 .. 127
  BY DEF Seven
<1>1. \A b2, b3, b4 : Choice(r, b2, b3, b4, e5) = r
  BY <1>types, SMT DEF Choice
<1>2. QED
  BY <1>types, <1>1, SMT DEF Combined, Number7

\* Two bytes of which the first tells of another one are read as the number
\* that has these two groups.
LEMMA TwoGroups ==
  ASSUME NEW r, NEW s, Seven(r), Seven(s), NEW e3, NEW e4, NEW e5
  PROVE  Combined(Mark(r), s, e3, e4, e5) = Number7(r, s, 0, 0, 0)
<1>types. r \in 0 .. 127 /\ s \in 0 .. 127
  BY DEF Seven
<1>marks. PICK e1 \in Nat :
         /\ e1 = Mark(r) /\ e1 = r + 128
  BY <1>types, SMT DEF Mark
<1>1. (e1 % 128) = r
  BY <1>types, <1>marks, LowSeven
<1>2. PICK b2 \in Nat : b2 = r + 128 * s /\ b2 < 16384
  BY <1>types, <1>marks, SMT
<1>3. ReadTwo(e1, s) = b2
  BY <1>types, <1>marks, <1>1, <1>2, SMT DEF ReadTwo
<1>4. \A b3, b4 : Choice(e1, b2, b3, b4, e5) = b2
  BY <1>types, <1>marks, <1>2, SMT DEF Choice
<1>5. Combined(e1, s, e3, e4, e5) = b2
  BY <1>types, <1>marks, <1>3, <1>4, SMT DEF Combined
<1>6. QED
  BY <1>types, <1>marks, <1>2, <1>5, SMT DEF Number7

\* So are three bytes of which the first two do.
LEMMA ThreeGroups ==
  ASSUME NEW r, NEW s, NEW t, Seven(r), Seven(s), Seven(t), NEW e4, NEW e5
  PROVE  Combined(Mark(r), Mark(s), t, e4, e5) = Number7(r, s, t, 0, 0)
<1>types. r \in 0 .. 127 /\ s \in 0 .. 127 /\ t \in 0 .. 127
  BY DEF Seven
<1>marks. PICK e1, e2 \in Nat :
         /\ e1 = Mark(r) /\ e1 = r + 128
         /\ e2 = Mark(s) /\ e2 = s + 128
  BY <1>types, SMT DEF Mark
<1>1. (e1 % 128) = r
  BY <1>types, <1>marks, LowSeven
<1>2. PICK x \in Nat : x = r + 128 * s /\ x < 16384
  BY <1>types, <1>marks, SMT
<1>3. PICK b2 \in Nat : b2 = x + 16384 /\ (b2 % 16384) = x
  BY <1>types, <1>marks, <1>2, LowFourteen, SMT
<1>4. PICK b3 \in Nat : b3 = x + 16384 * t /\ b3 < 2097152
  BY <1>types, <1>marks, <1>2, SMT
<1>5. ReadTwo(e1, e2) = b2
  BY <1>types, <1>marks, <1>1, <1>2, <1>3, SMT DEF ReadTwo
<1>6. ReadThree(b2, t) = b3
  BY <1>types, <1>marks, <1>3, <1>4, SMT DEF ReadThree
<1>7. \A b4 : Choice(e1, b2, b3, b4, e5) = b3
  BY <1>types, <1>marks, <1>3, <1>4, SMT DEF Choice
<1>8. Combined(e1, e2, t, e4, e5) = b3
  BY <1>types, <1>marks, <1>5, <1>6, <1>7, SMT DEF Combined
<1>9. QED
  BY <1>types, <1>marks, <1>2, <1>4, <1>8, SMT DEF Number7

\* So are four.
LEMMA FourGroups ==
  ASSUME NEW r, NEW s, NEW t, NEW w, Seven(r), Seven(s), Seven(t),
         Seven(w), NEW e5
  PROVE  Combined(Mark(r), Mark(s), Mark(t), w, e5) = Number7(r, s, t, w, 0)
<1>types. r \in 0 .. 127 /\ s \in 0 .. 127 /\ t \in 0 .. 127 /\ w \in 0 .. 127
  BY DEF Seven
<1>marks. PICK e1, e2, e3 \in Nat :
         /\ e1 = Mark(r) /\ e1 = r + 128
         /\ e2 = Mark(s) /\ e2 = s + 128
         /\ e3 = Mark(t) /\ e3 = t + 128
  BY <1>types, SMT DEF Mark
<1>1. (e1 % 128) = r
  BY <1>types, <1>marks, LowSeven
<1>2. PICK x \in Nat : x = r + 128 * s /\ x < 16384
  BY <1>types, <1>marks, SMT
<1>3. PICK b2 \in Nat : b2 = x + 16384 /\ (b2 % 16384) = x
  BY <1>types, <1>marks, <1>2, LowFourteen, SMT
<1>4. PICK y \in Nat : y = x + 16384 * t /\ y < 2097152
  BY <1>types, <1>marks, <1>2, SMT
<1>5. PICK b3 \in Nat : b3 = y + 2097152 /\ (b3 % 2097152) = y
  BY <1>types, <1>marks, <1>4, LowTwentyOne, SMT
<1>6. PICK b4 \in Nat : b4 = y + 2097152 * w /\ b4 < 268435456
  BY <1>types, <1>marks, <1>4, SMT
<1>7. ReadTwo(e1, e2) = b2
  BY <1>types, <1>marks, <1>1, <1>2, <1>3, SMT DEF ReadTwo
<1>8. ReadThree(b2, e3) = b3
  BY <1>types, <1>marks, <1>3, <1>4, <1>5, SMT DEF ReadThree
<1>9. ReadFour(b3, w) = b4
  BY <1>types, <1>marks, <1>5, <1>6, SMT DEF ReadFour
<1>10. Choice(e1, b2, b3, b4, e5) = b4
  BY <1>types, <1>marks, <1>3, <1>5, <1>6, SMT DEF Choice
<1>11. Combined(e1, e2, e3, w, e5) = b4
  BY <1>types, <1>marks, <1>7, <1>8, <1>9, <1>10, SMT DEF Combined
<1>12. QED
  BY <1>types, <1>marks, <1>2, <1>4, <1>6, <1>11, SMT DEF Number7

\* So are five, with three bits in the last one.
LEMMA FiveGroups ==
  ASSUME NEW r, NEW s, NEW t, NEW w, NEW d, Seven(r), Seven(s), Seven(t),
         Seven(w), d \in 0 .. 7
  PROVE  Combined(Mark(r), Mark(s), Mark(t), Mark(w), d) = Number7(r, s, t, w, d)
<1>types. r \in 0 .. 127 /\ s \in 0 .. 127 /\ t \in 0 .. 127 /\ w \in 0 .. 127 /\ d \in 0 .. 7
  BY DEF Seven
<1>marks. PICK e1, e2, e3, e4 \in Nat :
         /\ e1 = Mark(r) /\ e1 = r + 128
         /\ e2 = Mark(s) /\ e2 = s + 128
         /\ e3 = Mark(t) /\ e3 = t + 128
         /\ e4 = Mark(w) /\ e4 = w + 128
  BY <1>types, SMT DEF Mark
<1>1. (e1 % 128) = r
  BY <1>types, <1>marks, LowSeven
<1>2. PICK x \in Nat : x = r + 128 * s /\ x < 16384
  BY <1>types, <1>marks, SMT
<1>3. PICK b2 \in Nat : b2 = x + 16384 /\ (b2 % 16384) = x
  BY <1>types, <1>marks, <1>2, LowFourteen, SMT
<1>4. PICK y \in Nat : y = x + 16384 * t /\ y < 2097152
  BY <1>types, <1>marks, <1>2, SMT
<1>5. PICK b3 \in Nat : b3 = y + 2097152 /\ (b3 % 2097152) = y
  BY <1>types, <1>marks, <1>4, LowTwentyOne, SMT
<1>6. PICK z \in Nat : z = y + 2097152 * w /\ z < 268435456
  BY <1>types, <1>marks, <1>4, SMT
<1>7. PICK b4 \in Nat : b4 = z + 268435456 /\ (b4 % 268435456) = z
  BY <1>types, <1>marks, <1>6, LowTwentyEight, SMT
<1>8. ReadTwo(e1, e2) = b2
  BY <1>types, <1>marks, <1>1, <1>2, <1>3, SMT DEF ReadTwo
<1>9. ReadThree(b2, e3) = b3
  BY <1>types, <1>marks, <1>3, <1>4, <1>5, SMT DEF ReadThree
<1>10. ReadFour(b3, e4) = b4
  BY <1>types, <1>marks, <1>5, <1>6, <1>7, SMT DEF ReadFour
<1>11. Choice(e1, b2, b3, b4, d) = z + 268435456 * d
  <2>1. ~(e1 < 128) /\ ~(b2 < 16384) /\ ~(b3 < 2097152) /\ ~(b4 < 268435456) /\ d < 8
    BY <1>types, <1>marks, <1>3, <1>5, <1>7, SMT
  <2>2. Choice(e1, b2, b3, b4, d) = (b4 % 268435456) + 268435456 * d
    BY <1>types, <1>marks, <2>1, SMT DEF Choice
  <2>3. QED
    BY <1>types, <1>marks, <1>7, <2>2, SMT
<1>12. Combined(e1, e2, e3, e4, d) = z + 268435456 * d
  BY <1>types, <1>marks, <1>8, <1>9, <1>10, <1>11, SMT DEF Combined
<1>13. QED
  BY <1>types, <1>marks, <1>2, <1>4, <1>6, <1>12, SMT DEF Number7

\* The bytes of m stand in a stream from position j on: m itself, or its lowest
\* group x and then the bytes of the others, q.
Level(bytes, j, m, x, q) ==
  \/ /\ Seven(m) /\ bytes[j] = m /\ Len(SizeBytes[m]) = 1
  \/ /\ bytes[j] = Mark(x) /\ SizeStands(bytes, j, q)
     /\ Len(SizeBytes[m]) = 1 + Len(SizeBytes[q]) /\ ~Seven(m)
After(k) == k + 1

\* Where the bytes of m stand, they do so level by level.
LEMMA SizeLevel ==
  ASSUME NEW bytes, NEW m, m \in Nat, NEW k, k \in Nat, SizeStands(bytes, k, m)
  PROVE  Level(bytes, After(k), m, Low(m), Rest(m))
<1>1. CASE m <= 127
  <2>1. Seven(m)
    BY <1>1 DEF Seven
  <2>2. bytes[k + 1] = m
    BY <1>1, SizeSplit
  <2>3. Len(SizeBytes[m]) = 1
    BY <1>1, SizeUnfolded
  <2>4. QED
    BY <2>1, <2>2, <2>3 DEF Level, After
<1>2. CASE m > 127
  <2>1. bytes[k + 1] = Mark(Low(m)) /\ SizeStands(bytes, k + 1, Rest(m))
    BY <1>2, SizeSplit DEF Mark, Low, Rest
  <2>2. Len(SizeBytes[m]) = 1 + Len(SizeBytes[Rest(m)])
    BY <1>2, SizeUnfolded DEF Rest
  <2>3. ~Seven(m)
    BY <1>2, SMT DEF Seven
  <2>4. QED
    BY <2>1, <2>2, <2>3 DEF Level, After
<1>3. QED
  BY <1>1, <1>2

\* The size that the compressor writes in front of a stream the decompressor
\* reads back, whatever follows.
THEOREM SizeRead ==
  ASSUME NEW n \in Nat, n <= MaxSize, NEW bytes \in Seq(Nat),
         Len(SizeBytes[n]) <= Len(bytes), SizeStands(bytes, 0, n)
  PROVE  ReadSize(bytes) = n
<1>. DEFINE At(i) == IF i <= Len(bytes) THEN bytes[i] ELSE 0
            L(i) == Len(SizeBytes[i])
<1>1. ReadSize(bytes) = Combined(At(1), At(2), At(3), At(4), At(5))
  BY SMT DEF ReadSize, Combined, Choice, ReadTwo, ReadThree, ReadFour
<1>2. Len(bytes) \in Nat /\ \A k \in 1 .. 5 : k <= Len(bytes) => At(k) = bytes[k]
  BY SMT
<1>. HIDE DEF At
<1>3. PICK a, b, c, d \in Nat : a = Rest(n) /\ b = Rest(a) /\ c = Rest(b) /\ d = Rest(c)
  <2>1. \A x \in Nat : Rest(x) \in Nat
    BY SMT DEF Rest
  <2>2. QED
    BY <2>1
<1>4. PICK r, s, t, w \in 0 .. 127 : r = Low(n) /\ s = Low(a) /\ t = Low(b) /\ w = Low(c)
  <2>1. \A x \in Nat : Low(x) \in 0 .. 127
    BY SMT DEF Low
  <2>2. QED
    BY <2>1
<1>5. n = 128 * a + r /\ a = 128 * b + s /\ b = 128 * c + t /\ c = 128 * d + w
  <2>1. \A x \in Nat : x = 128 * Rest(x) + Low(x)
    BY SMT DEF Rest, Low
  <2>2. QED
    BY <1>3, <1>4, <2>1
<1>6. Seven(r) /\ Seven(s) /\ Seven(t) /\ Seven(w) /\ d \in 0 .. 7 /\ Seven(d)
  <2>1. d <= 7
    BY <1>5, SMT DEF MaxSize
  <2>2. QED
    BY <2>1, SMT DEF Seven
<1>7. n = Number7(r, s, t, w, d)
  BY <1>5, SMT DEF Number7
<1>8. \A x \in Nat : Seven(x) => Low(x) = x /\ Rest(x) = 0
  BY SMT DEF Seven, Low, Rest
<1>9. /\ 1 = After(0) /\ 2 = After(1) /\ 3 = After(2) /\ 4 = After(3) /\ 5 = After(4)
      /\ 0 \in Nat /\ 1 \in Nat /\ 2 \in Nat /\ 3 \in Nat /\ 4 \in Nat
      /\ n \in Nat /\ a \in Nat /\ b \in Nat /\ c \in Nat /\ d \in Nat
      /\ SizeStands(bytes, 0, n)
  BY SMT DEF After
<1>10. \A x, k \in Nat : SizeStands(bytes, k, x) =>
           Level(bytes, After(k), x, Low(x), Rest(x))
  BY SizeLevel
<1>11. Level(bytes, 1, n, r, a)
  BY <1>3, <1>4, <1>9, <1>10
<1>12. SizeStands(bytes, 1, a) => Level(bytes, 2, a, s, b)
  BY <1>3, <1>4, <1>9, <1>10
<1>13. SizeStands(bytes, 2, b) => Level(bytes, 3, b, t, c)
  BY <1>3, <1>4, <1>9, <1>10
<1>14. SizeStands(bytes, 3, c) => Level(bytes, 4, c, w, d)
  BY <1>3, <1>4, <1>9, <1>10
<1>15. SizeStands(bytes, 4, d) => bytes[5] = d /\ L(d) = 1
  <2>1. SizeStands(bytes, 4, d) => Level(bytes, 5, d, Low(d), Rest(d))
    BY <1>9, <1>10
  <2>2. QED
    BY <1>6, <2>1 DEF Level
<1>. HIDE DEF L
<1>16. CASE Seven(n)
  <2>1. /\ bytes[1] = n
        /\ L(n) = 1
    BY <1>11, <1>16 DEF Level, L
  <2>2. L(n) = 1
    BY <2>1, SMT
  <2>3. 1 <= Len(bytes)
    BY <1>2, <2>2, SMT DEF L
  <2>4. /\ At(1) = bytes[1]
    BY <1>2, <2>3, SMT
  <2>5. n = r
    BY <1>3, <1>4, <1>8, <1>16
  <2>6. n = Number7(r, 0, 0, 0, 0)
    BY <1>5, <2>5, SMT DEF Number7
  <2>7. Combined(r, At(2), At(3), At(4), At(5)) = n
    BY <1>6, <2>6, OneGroup
  <2>8. QED
    BY <1>1, <2>1, <2>4, <2>5, <2>7
<1>17. CASE ~Seven(n) /\ Seven(a)
  <2>1. /\ bytes[1] = Mark(r) /\ bytes[2] = a
        /\ L(n) = 1 + L(a) /\ L(a) = 1
    BY <1>11, <1>12, <1>17 DEF Level, L
  <2>2. L(n) = 2
    BY <2>1, SMT
  <2>3. 2 <= Len(bytes)
    BY <1>2, <2>2, SMT DEF L
  <2>4. /\ At(1) = bytes[1] /\ At(2) = bytes[2]
    BY <1>2, <2>3, SMT
  <2>5. a = s
    BY <1>3, <1>4, <1>8, <1>17
  <2>6. n = Number7(r, s, 0, 0, 0)
    BY <1>5, <2>5, SMT DEF Number7
  <2>7. Combined(Mark(r), s, At(3), At(4), At(5)) = n
    BY <1>6, <2>6, TwoGroups
  <2>8. QED
    BY <1>1, <2>1, <2>4, <2>5, <2>7
<1>18. CASE ~Seven(n) /\ ~Seven(a) /\ Seven(b)
  <2>1. /\ bytes[1] = Mark(r) /\ bytes[2] = Mark(s) /\ bytes[3] = b
        /\ L(n) = 1 + L(a) /\ L(a) = 1 + L(b) /\ L(b) = 1
    BY <1>11, <1>12, <1>13, <1>18 DEF Level, L
  <2>2. L(n) = 3
    BY <2>1, SMT
  <2>3. 3 <= Len(bytes)
    BY <1>2, <2>2, SMT DEF L
  <2>4. /\ At(1) = bytes[1] /\ At(2) = bytes[2] /\ At(3) = bytes[3]
    BY <1>2, <2>3, SMT
  <2>5. b = t
    BY <1>3, <1>4, <1>8, <1>18
  <2>6. n = Number7(r, s, t, 0, 0)
    BY <1>5, <2>5, SMT DEF Number7
  <2>7. Combined(Mark(r), Mark(s), t, At(4), At(5)) = n
    BY <1>6, <2>6, ThreeGroups
  <2>8. QED
    BY <1>1, <2>1, <2>4, <2>5, <2>7
<1>19. CASE ~Seven(n) /\ ~Seven(a) /\ ~Seven(b) /\ Seven(c)
  <2>1. /\ bytes[1] = Mark(r) /\ bytes[2] = Mark(s) /\ bytes[3] = Mark(t)
        /\ bytes[4] = c
        /\ L(n) = 1 + L(a) /\ L(a) = 1 + L(b) /\ L(b) = 1 + L(c)
        /\ L(c) = 1
    BY <1>11, <1>12, <1>13, <1>14, <1>19 DEF Level, L
  <2>2. L(n) = 4
    BY <2>1, SMT
  <2>3. 4 <= Len(bytes)
    BY <1>2, <2>2, SMT DEF L
  <2>4. /\ At(1) = bytes[1] /\ At(2) = bytes[2] /\ At(3) = bytes[3]
        /\ At(4) = bytes[4]
    BY <1>2, <2>3, SMT
  <2>5. c = w
    BY <1>3, <1>4, <1>8, <1>19
  <2>6. n = Number7(r, s, t, w, 0)
    BY <1>5, <2>5, SMT DEF Number7
  <2>7. Combined(Mark(r), Mark(s), Mark(t), w, At(5)) = n
    BY <1>6, <2>6, FourGroups
  <2>8. QED
    BY <1>1, <2>1, <2>4, <2>5, <2>7
<1>20. CASE ~Seven(n) /\ ~Seven(a) /\ ~Seven(b) /\ ~Seven(c)
  <2>1. /\ bytes[1] = Mark(r) /\ bytes[2] = Mark(s) /\ bytes[3] = Mark(t)
        /\ bytes[4] = Mark(w) /\ bytes[5] = d
        /\ L(n) = 1 + L(a) /\ L(a) = 1 + L(b) /\ L(b) = 1 + L(c)
        /\ L(c) = 1 + L(d) /\ L(d) = 1
    BY <1>11, <1>12, <1>13, <1>14, <1>15, <1>20 DEF Level, L
  <2>2. L(n) = 5
    BY <2>1, SMT
  <2>3. 5 <= Len(bytes)
    BY <1>2, <2>2, SMT DEF L
  <2>4. /\ At(1) = bytes[1] /\ At(2) = bytes[2] /\ At(3) = bytes[3]
        /\ At(4) = bytes[4] /\ At(5) = bytes[5]
    BY <1>2, <2>3, SMT
  <2>5. Combined(Mark(r), Mark(s), Mark(t), Mark(w), d) = n
    BY <1>6, <1>7, FiveGroups
  <2>6. QED
    BY <1>1, <2>1, <2>4, <2>5
<1>21. QED
  BY <1>16, <1>17, <1>18, <1>19, <1>20
=============================================================================
