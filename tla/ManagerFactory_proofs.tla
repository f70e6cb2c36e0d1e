----------------------- MODULE ManagerFactory_proofs -----------------------
(***************************************************************************)
(* Proofs about the layout of a result, for every number of chunks, every  *)
(* size of a chunk and every format header (theorems of Spec), and about   *)
(* the managers of the formats and their factory, for every build and      *)
(* every device (theorems of FSpec).                                       *)
(***************************************************************************)
EXTENDS ManagerFactory, TLAPS

\* What each phase has fixed: the sizes promised for the input, the layout
\* of the writer at the place where the result lies now, and the header that
\* leads back to it.
LayoutInv ==
  /\ TypeOK
  /\ phase # "new" =>
       /\ config.num_chunks = NumChunks(config.size)
       /\ config.max_size = MaxOutputSize(config.num_chunks, format)
  /\ Written =>
       /\ layout = WriterLayout(base + HeaderSize + format, config.num_chunks)
       /\ header.num_chunks = config.num_chunks
       /\ header.comp_data_size <= config.num_chunks * MaxCompChunkSize
       /\ base + header.comp_data_offset = layout.data
  /\ phase = "found" => found = layout

-----------------------------------------------------------------------------
(* Arithmetic.                                                             *)

\* RoundUpTo an address to a word: it is at most seven bytes further on.
LEMMA RoundUp ==
  ASSUME NEW p \in Nat
  PROVE  /\ RoundUpTo(p, WordSize) \in Nat
         /\ RoundUpTo(p, WordSize) % WordSize = 0
         /\ p <= RoundUpTo(p, WordSize)
         /\ RoundUpTo(p, WordSize) <= p + WordSize - 1
BY DEF RoundUpTo, RoundUpDiv, WordSize

\* RoundUpTo commutes with a shift by words.
LEMMA RoundUpShift ==
  ASSUME NEW p \in Nat, NEW d \in Int, p + d \in Nat, d % WordSize = 0
  PROVE  RoundUpTo(p + d, WordSize) = RoundUpTo(p, WordSize) + d
BY DEF RoundUpTo, RoundUpDiv, WordSize

\* The distance of two words is a number of words.
LEMMA WordDistance ==
  ASSUME NEW a \in Nat, NEW b \in Nat, a % 8 = 0, b % 8 = 0
  PROVE  (b - a) % 8 = 0
<1>1. a = 8 * (a \div 8) /\ b = 8 * (b \div 8)
  OBVIOUS
<1>2. b - a = 8 * ((b \div 8) - (a \div 8))
  BY <1>1
<1>3. \A k \in Int : (8 * k) % 8 = 0
  OBVIOUS
<1>. QED
  BY <1>2, <1>3

\* The headers behind a buffer's beginning move with the buffer.
LEMMA HeadersMove ==
  ASSUME NEW a \in Nat, NEW b \in Nat, NEW f \in Nat
  PROVE  /\ b - a \in Int /\ a + HeaderSize + f \in Nat
         /\ (a + HeaderSize + f) + (b - a) \in Nat
         /\ (a + HeaderSize + f) + (b - a) = b + HeaderSize + f
BY DEF HeaderSize

\* A number of chunks is a natural number (roundUpDiv).
LEMMA NumChunksNat ==
  ASSUME NEW size \in Nat
  PROVE  NumChunks(size) \in Nat
BY LayoutAssumption DEF NumChunks, RoundUpDiv

\* Division with remainder.
LEMMA Division ==
  ASSUME NEW a \in Nat, NEW u \in Nat \ {0}
  PROVE  /\ a \div u \in Nat
         /\ a % u \in 0 .. u - 1
         /\ a = u * (a \div u) + (a % u)
<1>1. a \div u \in Nat /\ a % u \in 0 .. u - 1
  OBVIOUS
<1>2. a \in Int /\ u \in Int /\ u > 0
  OBVIOUS
<1>3. a = u * (a \div u) + (a % u)
  BY <1>2, Z3
<1>. QED
  BY <1>1, <1>3

\* Multiples of a chunk size.
LEMMA Multiples ==
  ASSUME NEW q \in Nat, NEW u \in Nat \ {0}
  PROVE  /\ q * u \in Nat /\ u * q = q * u
         /\ (q - 1) * u = q * u - u
         /\ q > 0 => q * u > 0
         /\ \A i \in Nat : i + 1 <= q => i * u + u <= q * u
OBVIOUS

\* The product that bounds the data of n chunks is a natural number.
LEMMA ProductNat ==
  ASSUME NEW n \in Nat
  PROVE  n * MaxCompChunkSize \in Nat /\ MaxCompChunkSize * n = n * MaxCompChunkSize
BY LayoutAssumption

\* A writer's layout from an address p: the offsets begin at the next word r,
\* the other sections at distances that the number of chunks gives.
LEMMA LayoutFields ==
  ASSUME NEW p \in Nat, NEW n \in Nat
  PROVE  \E r \in Nat :
           /\ r = RoundUpTo(p, WordSize)
           /\ r % 8 = 0 /\ p <= r /\ r <= p + 7
           /\ WriterLayout(p, n) =
                [offsets |-> r, sizes |-> r + 8 * n, comp_sums |-> r + 16 * n,
                 decomp_sums |-> r + 20 * n, data |-> r + 24 * n]
<1>. DEFINE r == RoundUpTo(p, WordSize)
<1>1. r \in Nat /\ r % 8 = 0 /\ p <= r /\ r <= p + 7
  BY RoundUp DEF WordSize
<1>2. WriterLayout(p, n) =
        [offsets |-> r, sizes |-> r + 8 * n, comp_sums |-> r + 8 * n + 8 * n,
         decomp_sums |-> r + 8 * n + 8 * n + 4 * n,
         data |-> r + 8 * n + 8 * n + 4 * n + 4 * n]
  <2>. HIDE DEF r
  <2>1. WriterLayout(p, n) =
          LET sizes == r + WordSize * n
              comp_sums == sizes + WordSize * n
              decomp_sums == comp_sums + ChecksumSize * n
          IN [offsets |-> r, sizes |-> sizes, comp_sums |-> comp_sums,
              decomp_sums |-> decomp_sums, data |-> decomp_sums + ChecksumSize * n]
    BY Zenon DEF WriterLayout, r
  <2>. QED
    BY <2>1 DEF WordSize, ChecksumSize
<1>. HIDE DEF r
<1>3. /\ r + 8 * n + 8 * n = r + 16 * n
      /\ r + 8 * n + 8 * n + 4 * n = r + 20 * n
      /\ r + 8 * n + 8 * n + 4 * n + 4 * n = r + 24 * n
  BY <1>1
<1>. QED
  BY <1>1, <1>2, <1>3 DEF r

\* A writer's layout is a record of addresses (do_compress).
LEMMA LayoutType ==
  ASSUME NEW p \in Nat, NEW n \in Nat
  PROVE  WriterLayout(p, n) \in Layouts
<1>1. PICK r \in Nat :
        WriterLayout(p, n) =
          [offsets |-> r, sizes |-> r + 8 * n, comp_sums |-> r + 16 * n,
           decomp_sums |-> r + 20 * n, data |-> r + 24 * n]
  BY LayoutFields
<1>. QED
  BY <1>1 DEF Layouts

\* The layout moves with the place where it begins, by whole words.
LEMMA LayoutShift ==
  ASSUME NEW p \in Nat, NEW n \in Nat, NEW d \in Int, p + d \in Nat,
         d % WordSize = 0
  PROVE  WriterLayout(p + d, n) =
           [s \in DOMAIN WriterLayout(p, n) |-> WriterLayout(p, n)[s] + d]
<1>1. PICK r \in Nat :
        /\ r = RoundUpTo(p, WordSize)
        /\ WriterLayout(p, n) =
             [offsets |-> r, sizes |-> r + 8 * n, comp_sums |-> r + 16 * n,
              decomp_sums |-> r + 20 * n, data |-> r + 24 * n]
  BY LayoutFields
<1>2. PICK q \in Nat :
        /\ q = RoundUpTo(p + d, WordSize)
        /\ WriterLayout(p + d, n) =
             [offsets |-> q, sizes |-> q + 8 * n, comp_sums |-> q + 16 * n,
              decomp_sums |-> q + 20 * n, data |-> q + 24 * n]
  BY LayoutFields
<1>3. q = r + d
  BY <1>1, <1>2, RoundUpShift
<1>. QED
  BY <1>1, <1>2, <1>3

-----------------------------------------------------------------------------
(* The invariant.                                                          *)

\* Init gives every variable its type, and no phase has passed yet.
LEMMA InitLayout == Init => LayoutInv
BY LayoutAssumption DEF Init, LayoutInv, TypeOK, Written, NoLayout, Layouts

\* configure_compression fixes the number of chunks and the promised size.
LEMMA ConfigureLayout == LayoutInv /\ Configure => LayoutInv'
<1>. SUFFICES ASSUME LayoutInv, Configure PROVE LayoutInv'
  OBVIOUS
<1>1. PICK size \in 0 .. MaxUncompSize :
        config' = [size |-> size, num_chunks |-> NumChunks(size),
                   max_size |-> MaxOutputSize(NumChunks(size), format)]
  BY DEF Configure
<1>2. NumChunks(size) \in Nat
  BY NumChunksNat, LayoutAssumption
<1>3. MaxOutputSize(NumChunks(size), format) \in Nat
  BY <1>2, ProductNat, LayoutAssumption
     DEF LayoutInv, TypeOK, MaxOutputSize, HeaderSize, WordSize, ChecksumSize
<1>4. TypeOK'
  BY <1>1, <1>2, <1>3 DEF LayoutInv, TypeOK, Configure
<1>. QED
  BY <1>1, <1>4 DEF LayoutInv, Configure, Written

\* compress lays out the result and leaves a header that leads to its data.
LEMMA CompressLayout == LayoutInv /\ Compress => LayoutInv'
<1>. SUFFICES ASSUME LayoutInv, Compress PROVE LayoutInv'
  OBVIOUS
<1>. DEFINE n == config.num_chunks
            start == base + HeaderSize + format
<1>1. n \in Nat /\ start \in Nat /\ base \in Nat /\ base <= start
  BY LayoutAssumption DEF LayoutInv, TypeOK, HeaderSize
<1>2. layout' = WriterLayout(start, n) /\ layout' \in Layouts
  BY <1>1, LayoutType DEF Compress
<1>3. layout'.data \in Nat /\ base <= layout'.data
  <2>. HIDE DEF n, start
  <2>1. PICK r \in Nat :
          /\ start <= r
          /\ WriterLayout(start, n) =
               [offsets |-> r, sizes |-> r + 8 * n, comp_sums |-> r + 16 * n,
                decomp_sums |-> r + 20 * n, data |-> r + 24 * n]
    BY <1>1, LayoutFields
  <2>2. layout'.data = r + 24 * n
    BY <1>2, <2>1
  <2>. QED
    BY <1>1, <2>1, <2>2
<1>4. PICK total \in n .. n * MaxCompChunkSize :
        header' = [decomp_data_size |-> config.size, num_chunks |-> n,
                   comp_data_size |-> total,
                   comp_data_offset |-> layout'.data - base]
  BY DEF Compress
<1>5. total \in Nat /\ total <= n * MaxCompChunkSize
  BY <1>1, ProductNat
<1>6. TypeOK'
  BY <1>1, <1>2, <1>3, <1>4, <1>5 DEF LayoutInv, TypeOK, Compress
<1>7. base' + header'.comp_data_offset = layout'.data
  BY <1>1, <1>3, <1>4 DEF Compress
<1>. QED
  BY <1>2, <1>4, <1>5, <1>6, <1>7 DEF LayoutInv, Compress, Written

\* A copy of the result keeps the layout, because both buffers begin at a
\* word.
LEMMA MoveLayout == LayoutInv /\ Move => LayoutInv'
<1>. SUFFICES ASSUME LayoutInv, Move PROVE LayoutInv'
  OBVIOUS
<1>. DEFINE n == config.num_chunks
            start == base + HeaderSize + format
            d == base' - base
<1>1. /\ n \in Nat /\ start \in Nat /\ base \in Nat /\ base' \in Nat
      /\ d \in Int /\ start + d \in Nat /\ d % WordSize = 0
      /\ start + d = base' + HeaderSize + format
  <2>1. base \in Bases /\ base' \in Bases
    BY DEF LayoutInv, TypeOK, Move
  <2>2. base \in Nat /\ base' \in Nat /\ n \in Nat /\ format \in Nat
    BY <2>1, LayoutAssumption DEF LayoutInv, TypeOK
  <2>3. d % WordSize = 0
    BY <2>1, <2>2, LayoutAssumption, WordDistance DEF WordSize
  <2>4. /\ d \in Int /\ start \in Nat /\ start + d \in Nat
        /\ start + d = base' + HeaderSize + format
    BY <2>2, HeadersMove
  <2>. QED
    BY <2>2, <2>3, <2>4
<1>2. layout = WriterLayout(start, n)
  BY DEF LayoutInv, Move, Written
<1>3. layout' = [s \in DOMAIN layout |-> layout[s] + d]
  BY <1>1, <1>2, LayoutType DEF Move, Layouts
<1>4. layout' = WriterLayout(base' + HeaderSize + format, n)
  BY <1>1, <1>2, <1>3, LayoutShift
<1>5. layout' \in Layouts
  BY <1>1, <1>4, LayoutType
<1>6. TypeOK'
  BY <1>5 DEF LayoutInv, TypeOK, Move
<1>7. base' + header'.comp_data_offset = layout'.data
  <2>1. layout \in Layouts /\ "data" \in DOMAIN layout /\ layout.data \in Nat
    BY DEF LayoutInv, TypeOK, Layouts
  <2>2. layout'.data = layout.data + d
    BY <1>3, <2>1
  <2>3. base + header.comp_data_offset = layout.data
    BY DEF LayoutInv, Move, Written
  <2>. QED
    BY <1>1, <2>1, <2>2, <2>3 DEF Move, LayoutInv, TypeOK
<1>. QED
  BY <1>4, <1>6, <1>7 DEF LayoutInv, Move, Written

\* The reader computes what the writer did, from the header's chunk count.
LEMMA DecompressLayout == LayoutInv /\ Decompress => LayoutInv'
<1>. SUFFICES ASSUME LayoutInv, Decompress PROVE LayoutInv'
  OBVIOUS
<1>1. found' = layout
  BY DEF Decompress, LayoutInv, Written, ReaderLayout, WriterLayout
<1>2. TypeOK'
  BY <1>1 DEF LayoutInv, TypeOK, Decompress
<1>. QED
  BY <1>1, <1>2 DEF LayoutInv, Decompress, Written

\* No operation, and nothing that leaves the result alone, breaks it.
LEMMA LayoutStep == LayoutInv /\ [Next]_vars => LayoutInv'
<1>. SUFFICES ASSUME LayoutInv, [Next]_vars PROVE LayoutInv'
  OBVIOUS
<1>1. CASE Configure
  BY <1>1, ConfigureLayout
<1>2. CASE Compress
  BY <1>2, CompressLayout
<1>3. CASE Move
  BY <1>3, MoveLayout
<1>4. CASE Decompress
  BY <1>4, DecompressLayout
<1>5. CASE UNCHANGED vars
  BY <1>5 DEF vars, LayoutInv, TypeOK, Written
<1>. QED
  BY <1>1, <1>2, <1>3, <1>4, <1>5 DEF Next

\* The layout invariant holds in every state.
THEOREM LayoutCorrect == Spec => []LayoutInv
BY InitLayout, LayoutStep, PTL DEF Spec

-----------------------------------------------------------------------------
(* What follows from it.                                                   *)

\* Every variable keeps its type: no address or size is ever negative, and
\* the reader's sections are addresses like the writer's.
THEOREM TypeCorrect == Spec => []TypeOK
<1>1. LayoutInv => TypeOK
  BY DEF LayoutInv
<1>. QED
  BY <1>1, LayoutCorrect, PTL

\* The sections of a result never overlap and are aligned, also in a copy
\* (do_compress, BatchManager.hpp).
THEOREM SectionsNeverOverlap == Spec => []SectionsApart
<1>1. LayoutInv => SectionsApart
  <2>. SUFFICES ASSUME LayoutInv, Written PROVE SectionsApart
    BY DEF SectionsApart
  <2>. DEFINE n == config.num_chunks
              start == base + HeaderSize + format
  <2>1. n \in Nat /\ start \in Nat
    BY LayoutAssumption DEF LayoutInv, TypeOK, HeaderSize
  <2>2. layout = WriterLayout(start, n)
    BY DEF LayoutInv
  <2>3. /\ RoundUpTo(start, WordSize) \in Nat
        /\ RoundUpTo(start, WordSize) % WordSize = 0
        /\ start <= RoundUpTo(start, WordSize)
    BY <2>1, RoundUp
  <2>. QED
    BY <2>1, <2>2, <2>3 DEF SectionsApart, WriterLayout, WordSize, ChecksumSize
<1>. QED
  BY <1>1, LayoutCorrect, PTL

\* A reader that has only the result finds every section where the writer
\* left it, wherever the result was copied (do_decompress, BatchManager.hpp).
THEOREM ReaderFindsSections == Spec => []ReaderAgrees
<1>1. LayoutInv => ReaderAgrees
  BY LayoutAssumption
     DEF LayoutInv, TypeOK, Written, ReaderAgrees, OutputSize, Layouts
<1>. QED
  BY <1>1, LayoutCorrect, PTL

\* A result exceeds the size that configure_compression promised by at most
\* four bytes per chunk and seven of padding
\* (calculate_max_compressed_output_size, BatchManager.hpp).
THEOREM ExcessIsBounded == Spec => []ExcessBounded
<1>1. LayoutInv => ExcessBounded
  <2>. SUFFICES ASSUME LayoutInv, Written PROVE ExcessBounded
    BY DEF ExcessBounded
  <2>. DEFINE n == config.num_chunks
              start == base + HeaderSize + format
              data == n * MaxCompChunkSize
  <2>1. n \in Nat /\ base \in Nat /\ format \in Nat /\ data \in Nat
    BY LayoutAssumption, ProductNat DEF LayoutInv, TypeOK
  <2>2. config.max_size = MaxOutputSize(n, format)
    BY DEF LayoutInv, Written
  <2>3. config.max_size = 64 + format + 8 * n + 4 * n + 4 * n * 2 + data
    BY <2>1, <2>2, ProductNat
       DEF MaxOutputSize, HeaderSize, WordSize, ChecksumSize
  <2>4. layout.data <= start + 7 + 24 * n
    BY <2>1, RoundUp DEF LayoutInv, WriterLayout, HeaderSize, WordSize, ChecksumSize
  <2>5. /\ header.comp_data_size \in Nat /\ header.comp_data_offset \in Nat
        /\ header.comp_data_size <= data
        /\ base + header.comp_data_offset = layout.data
    BY DEF LayoutInv, TypeOK
  <2>6. layout.data \in Nat
    BY DEF LayoutInv, TypeOK, Layouts
  <2>. QED
    BY <2>1, <2>3, <2>4, <2>5, <2>6
       DEF ExcessBounded, OutputSize, HeaderSize, WordSize
<1>. QED
  BY <1>1, LayoutCorrect, PTL

\* The chunks share the input among them without a gap, an overlap or an
\* empty chunk (do_configure_compression, HlifCompressBatch).
THEOREM ChunksTileInput == Spec => []ChunksTile
<1>1. ASSUME LayoutInv, phase # "new" PROVE ChunksTile
  <2>. DEFINE u == UncompChunkSize
              size == config.size
              n == config.num_chunks
              q == size \div u
              r == size % u
  <2>1. size \in Nat /\ u \in Nat \ {0}
    BY <1>1, LayoutAssumption DEF LayoutInv, TypeOK
  <2>2. n = q + (IF r > 0 THEN 1 ELSE 0)
    BY <1>1 DEF LayoutInv, NumChunks, RoundUpDiv
  <2>3. q \in Nat /\ r \in 0 .. u - 1 /\ size = u * q + r
    BY <2>1, Division
  <2>. HIDE DEF q, r
  <2>4. size = q * u + r /\ q * u \in Nat
    BY <2>1, <2>3, Multiples
  <2>5. n \in Nat
    BY <2>2, <2>3
  <2>6. size = 0 <=> n = 0
    BY <2>1, <2>2, <2>3, <2>4, Multiples
  <2>7. \A i \in 0 .. n - 1 :
          i < n - 1 => i * u + u <= size
    <3>. SUFFICES ASSUME NEW i \in Nat, i < n - 1 PROVE i * u + u <= size
      BY <2>5
    <3>1. i + 1 <= q
      BY <2>2, <2>3
    <3>2. i * u + u <= q * u
      BY <2>1, <2>3, <3>1, Multiples
    <3>3. i * u \in Nat
      BY <2>1, Multiples
    <3>. QED
      BY <2>1, <2>3, <2>4, <3>2, <3>3
  <2>8. n > 0 => /\ (n - 1) * u \in Nat
                 /\ 0 < size - (n - 1) * u
                 /\ size - (n - 1) * u <= u
    <3>1. CASE r > 0
      <4>1. n - 1 = q
        BY <2>2, <2>3, <3>1
      <4>. QED
        BY <2>1, <2>3, <2>4, <3>1, <4>1
    <3>2. CASE r = 0
      <4>1. n - 1 = q - 1 /\ (q - 1) * u = q * u - u
        BY <2>1, <2>2, <2>3, <3>2, Multiples
      <4>2. n > 0 => q \in Nat /\ q - 1 \in Nat
        BY <2>2, <2>3, <3>2
      <4>3. n > 0 => (q - 1) * u \in Nat
        BY <2>1, <4>2, Multiples
      <4>. QED
        BY <2>1, <2>4, <3>2, <4>1, <4>3
    <3>. QED
      BY <2>3, <3>1, <3>2
  <2>9. ASSUME NEW i \in 0 .. n - 1, i < n - 1
        PROVE  ChunkBytes(i, size) = u
    <3>1. i * u \in Nat
      BY <2>1, <2>5, Multiples
    <3>2. u <= size - i * u
      BY <2>1, <2>5, <2>7, <2>9, <3>1
    <3>. QED
      BY <3>2 DEF ChunkBytes, ChunkStart
  <2>10. ASSUME n > 0
         PROVE  /\ ChunkBytes(n - 1, size) > 0
                /\ ChunkStart(n - 1) + ChunkBytes(n - 1, size) = size
    BY <2>1, <2>8, <2>10 DEF ChunkBytes, ChunkStart
  <2>11. ASSUME n > 0, NEW i \in 0 .. n - 1 PROVE ChunkBytes(i, size) > 0
    <3>1. CASE i = n - 1
      BY <2>10, <2>11, <3>1
    <3>2. CASE i < n - 1
      BY <2>1, <2>9, <3>2
    <3>. QED
      BY <2>5, <3>1, <3>2
  <2>. QED
    BY <2>6, <2>9, <2>10, <2>11 DEF ChunksTile
<1>2. LayoutInv => ChunksTile
  BY <1>1 DEF ChunksTile
<1>. QED
  BY <1>2, LayoutCorrect, PTL

-----------------------------------------------------------------------------
(* The managers of the formats.                                            *)

Managers ==
  [made : {"not yet", "made", "refused"}, format : Formats \cup {"none"},
   chunk : Nat, type : Widths, algo : 0 .. 2, ctas : Nat, dctas : Nat]
Infos ==
  [format : Formats \cup {"none"}, uncomp_chunk_size : Nat,
   chunk_size : Nat, type : Widths, algo : 0 .. 2]

\* This build has kernels for what the manager is asked to do.
Available(m) ==
  /\ m.format = "lz4" => m.type # 8
  /\ m.format = "gdeflate" => "gdeflate" \in Built /\ m.algo = 0
  /\ m.format = "ans" => "ans" \in Built

\* A writer is one of the formats whose header the result has room for; only
\* one that was made gets as far as a result.
WriterInv ==
  /\ mgr \in Managers
  /\ mgr # NoManager =>
       /\ mgr.format \in Formats /\ SpecSize(mgr.format) = format
       /\ mgr.chunk = UncompChunkSize
       /\ mgr.made = "made" => Available(mgr)
  /\ phase # "new" => mgr.made = "made"

\* The headers of a result hold the options of its writer.
InfoInv ==
  /\ info \in Infos
  /\ Written =>
       /\ info.format = mgr.format
       /\ info.uncomp_chunk_size = mgr.chunk /\ info.chunk_size = mgr.chunk
       /\ info.type = mgr.type /\ info.algo = mgr.algo

\* A reader comes after the result, and is the writer again.
ReaderInv == reader # NoManager => Written /\ FactoryRebuilds

FactoryInv == LayoutInv /\ WriterInv /\ InfoInv /\ ReaderInv

-----------------------------------------------------------------------------
(* Constructors.                                                           *)

\* The types of the options and of the device's size.
LEMMA OptionTypes ==
  /\ \A o \in Options : o.format \in Formats /\ o.type \in Widths /\ o.algo \in 0 .. 2
  /\ \A n \in Ctas : n \in Nat /\ n # 0
  /\ UncompChunkSize \in Nat \ {0}
BY FactoryAssumption, LayoutAssumption DEF OptionsOK

\* What a constructor makes of its arguments, and when it throws.
LEMMA MadeFields ==
  ASSUME NEW f, NEW chunk, NEW type, NEW algo, NEW c, NEW d,
         f \in Formats, chunk \in Nat, type \in Widths, algo \in 0 .. 2,
         c \in Nat, d \in Nat
  PROVE  LET m == Made(f, chunk, type, algo, c, d) IN
         /\ m \in Managers /\ m # NoManager
         /\ m.format = f /\ m.chunk = chunk /\ m.type = type /\ m.algo = algo
         /\ m.made = "made" <=> c # 0 /\ d # 0
<1>1. Made(f, chunk, type, algo, c, d) =
        [made |-> IF c = 0 \/ d = 0 THEN "refused" ELSE "made",
         format |-> f, chunk |-> chunk, type |-> type, algo |-> algo,
         ctas |-> c, dctas |-> d]
  BY DEF Made, NoKernel
<1>2. PICK made \in {"made", "refused"} :
        /\ made = (IF c = 0 \/ d = 0 THEN "refused" ELSE "made")
        /\ made = "made" <=> c # 0 /\ d # 0
  OBVIOUS
<1>3. Made(f, chunk, type, algo, c, d) =
        [made |-> made, format |-> f, chunk |-> chunk, type |-> type,
         algo |-> algo, ctas |-> c, dctas |-> d]
  BY <1>1, <1>2
<1>4. Made(f, chunk, type, algo, c, d) \in Managers
  <2>1. /\ made \in {"not yet", "made", "refused"}
        /\ f \in Formats \cup {"none"}
    OBVIOUS
  <2>2. [made |-> made, format |-> f, chunk |-> chunk, type |-> type,
         algo |-> algo, ctas |-> c, dctas |-> d] \in Managers
    BY <2>1, Zenon DEF Managers
  <2>. QED
    BY <1>3, <2>2, Zenon
<1>5. NoManager.made = "not yet"
  BY DEF NoManager
<1>6. LET m == Made(f, chunk, type, algo, c, d) IN
      /\ m.made = made /\ m.format = f /\ m.chunk = chunk /\ m.type = type
      /\ m.algo = algo
  BY <1>3
<1>7. Made(f, chunk, type, algo, c, d) # NoManager
  BY <1>5, <1>6
<1>. QED
  BY <1>2, <1>4, <1>6, <1>7, Zenon

\* The formats, the default options, and how many blocks a device holds.
LEMMA Defaults ==
  /\ "lz4" \in Formats /\ "snappy" \in Formats /\ "cascaded" \in Formats
  /\ "gdeflate" \in Formats /\ "ans" \in Formats
  /\ 0 \in Widths /\ 0 \in 0 .. 2 /\ 1 \in Nat
  /\ \A n \in Ctas : n \in Nat /\ n # 0
BY OptionTypes DEF Formats, External, Widths

\* LZ4 has kernels for all types but eight bytes (LZ4BatchManager).
LEMMA LZ4Made ==
  ASSUME NEW chunk, NEW type, NEW n,
         chunk \in Nat, type \in Widths, n \in Ctas
  PROVE  LET m == LZ4BatchManager(chunk, type, n) IN
         /\ m \in Managers /\ m # NoManager /\ m.format = "lz4"
         /\ m.chunk = chunk /\ m.type = type
         /\ m.made = "made" <=> type # 8
<1>1. n \in Nat /\ n # 0
  BY Defaults
<1>2. PICK c \in Nat : c = (IF type = 8 THEN 0 ELSE n)
  BY <1>1
<1>3. LZ4BatchManager(chunk, type, n) = Made("lz4", chunk, type, 0, c, n)
  BY <1>2 DEF LZ4BatchManager, batchedLZ4CompMaxBlockOccupancy,
              batchedLZ4DecompMaxBlockOccupancy, NoKernel
<1>4. c \in Nat /\ (c # 0 <=> type # 8)
  BY <1>1, <1>2
<1>5. LET m == Made("lz4", chunk, type, 0, c, n) IN
      /\ m \in Managers /\ m # NoManager
      /\ m.format = "lz4" /\ m.chunk = chunk /\ m.type = type
      /\ m.made = "made" <=> c # 0 /\ n # 0
  BY <1>1, <1>4, Defaults, MadeFields
<1>. QED
  BY <1>1, <1>3, <1>4, <1>5

\* Snappy has no options (SnappyBatchManager).
LEMMA SnappyMade ==
  ASSUME NEW chunk, NEW n, chunk \in Nat, n \in Ctas
  PROVE  LET m == SnappyBatchManager(chunk, n) IN
         /\ m \in Managers /\ m # NoManager /\ m.format = "snappy"
         /\ m.chunk = chunk /\ m.made = "made"
<1>1. n \in Nat /\ n # 0
  BY Defaults
<1>2. SnappyBatchManager(chunk, n) = Made("snappy", chunk, 0, 0, n, n)
  BY DEF SnappyBatchManager, snappyHlifCompMaxBlockOccupancy,
         snappyHlifDecompMaxBlockOccupancy
<1>. QED
  BY <1>1, <1>2, Defaults, MadeFields

\* A cascaded manager is made for every type, also the one without a kernel
\* (CascadedBatchManager).
LEMMA CascadedMade ==
  ASSUME NEW chunk, NEW type, NEW n,
         chunk \in Nat, type \in Widths, n \in Ctas
  PROVE  LET m == CascadedBatchManager(chunk, type, n) IN
         /\ m \in Managers /\ m # NoManager /\ m.format = "cascaded"
         /\ m.chunk = chunk /\ m.type = type /\ m.made = "made"
<1>1. n \in Nat /\ n # 0
  BY Defaults
<1>2. PICK c \in Nat : c = (IF type = 0 THEN 1 ELSE n)
  BY <1>1
<1>3. CascadedBatchManager(chunk, type, n) = Made("cascaded", chunk, type, 0, c, c)
  BY <1>2 DEF CascadedBatchManager, cascadedHlifCompMaxBlockOccupancy,
              cascadedHlifDecompMaxBlockOccupancy
<1>4. c \in Nat /\ c # 0
  BY <1>1, <1>2
<1>5. LET m == Made("cascaded", chunk, type, 0, c, c) IN
      /\ m \in Managers /\ m # NoManager
      /\ m.format = "cascaded" /\ m.chunk = chunk /\ m.type = type
      /\ m.made = "made" <=> c # 0 /\ c # 0
  BY <1>4, Defaults, MadeFields
<1>. QED
  BY <1>3, <1>4, <1>5

\* GDeflate compresses with one of its algorithms only, and needs its library
\* (GdeflateBatchManager).
LEMMA GdeflateMade ==
  ASSUME NEW chunk, NEW algo, NEW n,
         chunk \in Nat, algo \in 0 .. 2, n \in Ctas
  PROVE  LET m == GdeflateBatchManager(chunk, algo, n) IN
         /\ m \in Managers /\ m # NoManager /\ m.format = "gdeflate"
         /\ m.chunk = chunk /\ m.algo = algo
         /\ m.made = "made" <=> "gdeflate" \in Built /\ algo = 0
<1>1. n \in Nat /\ n # 0
  BY Defaults
<1>2. PICK d \in Nat : d = (IF "gdeflate" \in Built THEN n ELSE 0)
  BY <1>1
<1>3. PICK c \in Nat : c = (IF algo # 0 THEN 0 ELSE d)
  BY <1>2
<1>4. GdeflateBatchManager(chunk, algo, n) = Made("gdeflate", chunk, 0, algo, c, d)
  BY <1>2, <1>3 DEF GdeflateBatchManager, batchedGdeflateCompMaxBlockOccupancy,
                    batchedGdeflateDecompMaxBlockOccupancy, NoKernel
<1>5. /\ c \in Nat /\ d \in Nat
      /\ c # 0 /\ d # 0 <=> "gdeflate" \in Built /\ algo = 0
  BY <1>1, <1>2, <1>3
<1>6. LET m == Made("gdeflate", chunk, 0, algo, c, d) IN
      /\ m \in Managers /\ m # NoManager
      /\ m.format = "gdeflate" /\ m.chunk = chunk /\ m.algo = algo
      /\ m.made = "made" <=> c # 0 /\ d # 0
  BY <1>5, Defaults, MadeFields
<1>. QED
  BY <1>4, <1>5, <1>6

\* ANS needs its library (ANSManager).
LEMMA ANSMade ==
  ASSUME NEW chunk, NEW n, chunk \in Nat, n \in Ctas
  PROVE  LET m == ANSManager(chunk, n) IN
         /\ m \in Managers /\ m # NoManager /\ m.format = "ans"
         /\ m.chunk = chunk
         /\ m.made = "made" <=> "ans" \in Built
<1>1. n \in Nat /\ n # 0
  BY Defaults
<1>2. PICK c \in Nat : c = (IF "ans" \in Built THEN n ELSE 0)
  BY <1>1
<1>3. ANSManager(chunk, n) = Made("ans", chunk, 0, 0, c, c)
  BY <1>2 DEF ANSManager, NoKernel
<1>4. c \in Nat /\ (c # 0 <=> "ans" \in Built)
  BY <1>1, <1>2
<1>5. LET m == Made("ans", chunk, 0, 0, c, c) IN
      /\ m \in Managers /\ m # NoManager /\ m.format = "ans" /\ m.chunk = chunk
      /\ m.made = "made" <=> c # 0 /\ c # 0
  BY <1>4, Defaults, MadeFields
<1>. QED
  BY <1>3, <1>4, <1>5

-----------------------------------------------------------------------------
(* The invariant.                                                          *)

\* At first there is no manager, no result and no reader.
LEMMA InitFactory == FInit => FactoryInv
<1>. SUFFICES ASSUME FInit PROVE FactoryInv
  OBVIOUS
<1>1. LayoutInv
  BY InitLayout DEF FInit
<1>2. phase = "new" /\ ~Written
  BY DEF FInit, Init, Written
<1>3. mgr = NoManager /\ info = NoInfo /\ reader = NoManager
  BY DEF FInit
<1>4. NoManager \in Managers
  BY DEF NoManager, Managers, Widths
<1>5. NoInfo \in Infos
  BY DEF NoInfo, Infos, Widths
<1>. QED
  BY <1>1, <1>2, <1>3, <1>4, <1>5
     DEF FactoryInv, WriterInv, InfoInv, ReaderInv

\* The size of a format's header (sizeof(FormatSpecHeader)).
LEMMA SpecSizes ==
  /\ SpecSize("lz4") = 4 /\ SpecSize("gdeflate") = 4
  /\ SpecSize("cascaded") = 24 /\ SpecSize("snappy") = 1 /\ SpecSize("ans") = 1
BY DEF SpecSize

\* A constructor that does not throw finds the kernels it needs.
LEMMA ConstructWriter ==
  ASSUME FactoryInv, Construct
  PROVE  /\ mgr' \in Managers /\ mgr' # NoManager
         /\ mgr'.format \in Formats /\ SpecSize(mgr'.format) = format
         /\ mgr'.chunk = UncompChunkSize
         /\ mgr'.made = "made" => Available(mgr')
<1>1. PICK o \in Options, n \in Ctas :
        /\ SpecSize(o.format) = format
        /\ mgr' = CASE o.format = "lz4"      -> LZ4BatchManager(UncompChunkSize, o.type, n)
                    [] o.format = "snappy"   -> SnappyBatchManager(UncompChunkSize, n)
                    [] o.format = "cascaded" -> CascadedBatchManager(UncompChunkSize, o.type, n)
                    [] o.format = "gdeflate" -> GdeflateBatchManager(UncompChunkSize, o.algo, n)
                    [] o.format = "ans"      -> ANSManager(UncompChunkSize, n)
  BY DEF Construct
<1>2. /\ o.format \in Formats /\ o.type \in Widths /\ o.algo \in 0 .. 2
      /\ n \in Ctas /\ UncompChunkSize \in Nat
  BY OptionTypes
<1>3. CASE o.format = "lz4"
  <2>1. mgr' = LZ4BatchManager(UncompChunkSize, o.type, n)
    BY <1>1, <1>3
  <2>2. /\ mgr' \in Managers /\ mgr' # NoManager /\ mgr'.format = "lz4"
        /\ mgr'.chunk = UncompChunkSize /\ mgr'.type = o.type
        /\ mgr'.made = "made" <=> o.type # 8
    BY <1>2, <2>1, LZ4Made
  <2>. QED
    BY <1>1, <1>2, <1>3, <2>2 DEF Available
<1>4. CASE o.format = "snappy"
  <2>1. mgr' = SnappyBatchManager(UncompChunkSize, n)
    BY <1>1, <1>4
  <2>2. /\ mgr' \in Managers /\ mgr' # NoManager /\ mgr'.format = "snappy"
        /\ mgr'.chunk = UncompChunkSize
    BY <1>2, <2>1, SnappyMade
  <2>. QED
    BY <1>1, <1>2, <1>4, <2>2 DEF Available
<1>5. CASE o.format = "cascaded"
  <2>1. mgr' = CascadedBatchManager(UncompChunkSize, o.type, n)
    BY <1>1, <1>5
  <2>2. /\ mgr' \in Managers /\ mgr' # NoManager /\ mgr'.format = "cascaded"
        /\ mgr'.chunk = UncompChunkSize
    BY <1>2, <2>1, CascadedMade
  <2>. QED
    BY <1>1, <1>2, <1>5, <2>2 DEF Available
<1>6. CASE o.format = "gdeflate"
  <2>1. mgr' = GdeflateBatchManager(UncompChunkSize, o.algo, n)
    BY <1>1, <1>6
  <2>2. /\ mgr' \in Managers /\ mgr' # NoManager /\ mgr'.format = "gdeflate"
        /\ mgr'.chunk = UncompChunkSize /\ mgr'.algo = o.algo
        /\ mgr'.made = "made" <=> "gdeflate" \in Built /\ o.algo = 0
    BY <1>2, <2>1, GdeflateMade
  <2>. QED
    BY <1>1, <1>2, <1>6, <2>2 DEF Available
<1>7. CASE o.format = "ans"
  <2>1. mgr' = ANSManager(UncompChunkSize, n)
    BY <1>1, <1>7
  <2>2. /\ mgr' \in Managers /\ mgr' # NoManager /\ mgr'.format = "ans"
        /\ mgr'.chunk = UncompChunkSize
        /\ mgr'.made = "made" <=> "ans" \in Built
    BY <1>2, <2>1, ANSMade
  <2>. QED
    BY <1>1, <1>2, <1>7, <2>2 DEF Available
<1>. QED
  BY <1>2, <1>3, <1>4, <1>5, <1>6, <1>7 DEF Formats, External

\* From the headers of a result, create_manager makes the writer again: what
\* the writer's constructor found in this build, the reader's finds as well.
LEMMA CreateReader ==
  ASSUME FactoryInv, CreateManager
  PROVE  /\ Written /\ reader'.made = "made"
         /\ reader'.format = mgr.format /\ reader'.chunk = mgr.chunk
         /\ mgr.format = "cascaded" => reader'.type = mgr.type
         /\ mgr.format = "gdeflate" => reader'.algo = mgr.algo
<1>1. PICK n \in Ctas : reader' = create_manager(info, n)
  BY DEF CreateManager
<1>2. Written /\ phase # "new"
  BY DEF CreateManager, Written
<1>3. /\ mgr.made = "made" /\ mgr # NoManager /\ mgr \in Managers
      /\ mgr.format \in Formats /\ Available(mgr)
  <2>1. NoManager.made # "made"
    BY DEF NoManager
  <2>. QED
    BY <1>2, <2>1 DEF FactoryInv, WriterInv
<1>4. /\ info.format = mgr.format
      /\ info.uncomp_chunk_size = mgr.chunk /\ info.chunk_size = mgr.chunk
      /\ info.type = mgr.type /\ info.algo = mgr.algo
  BY <1>2 DEF FactoryInv, InfoInv
<1>5. /\ mgr.chunk \in Nat /\ mgr.type \in Widths /\ mgr.algo \in 0 .. 2
      /\ n \in Ctas
  BY <1>3 DEF Managers
<1>6. create_manager(info, n) =
        CASE mgr.format = "lz4"      -> LZ4BatchManager(mgr.chunk, mgr.type, n)
          [] mgr.format = "snappy"   -> SnappyBatchManager(mgr.chunk, n)
          [] mgr.format = "cascaded" -> CascadedBatchManager(mgr.chunk, mgr.type, n)
          [] mgr.format = "gdeflate" -> GdeflateBatchManager(mgr.chunk, mgr.algo, n)
          [] mgr.format = "ans"      -> ANSManager(mgr.chunk, n)
  BY <1>4 DEF create_manager
<1>7. CASE mgr.format = "lz4"
  <2>1. reader' = LZ4BatchManager(mgr.chunk, mgr.type, n)
    BY <1>1, <1>6, <1>7
  <2>2. mgr.type # 8
    BY <1>3, <1>7 DEF Available
  <2>3. /\ reader'.format = "lz4" /\ reader'.chunk = mgr.chunk
        /\ reader'.made = "made" <=> mgr.type # 8
    BY <1>5, <2>1, LZ4Made
  <2>. QED
    BY <1>2, <1>7, <2>2, <2>3
<1>8. CASE mgr.format = "snappy"
  <2>1. reader' = SnappyBatchManager(mgr.chunk, n)
    BY <1>1, <1>6, <1>8
  <2>2. /\ reader'.format = "snappy" /\ reader'.chunk = mgr.chunk
        /\ reader'.made = "made"
    BY <1>5, <2>1, SnappyMade
  <2>. QED
    BY <1>2, <1>8, <2>2
<1>9. CASE mgr.format = "cascaded"
  <2>1. reader' = CascadedBatchManager(mgr.chunk, mgr.type, n)
    BY <1>1, <1>6, <1>9
  <2>2. /\ reader'.format = "cascaded" /\ reader'.chunk = mgr.chunk
        /\ reader'.type = mgr.type /\ reader'.made = "made"
    BY <1>5, <2>1, CascadedMade
  <2>. QED
    BY <1>2, <1>9, <2>2
<1>10. CASE mgr.format = "gdeflate"
  <2>1. reader' = GdeflateBatchManager(mgr.chunk, mgr.algo, n)
    BY <1>1, <1>6, <1>10
  <2>2. "gdeflate" \in Built /\ mgr.algo = 0
    BY <1>3, <1>10 DEF Available
  <2>3. /\ reader'.format = "gdeflate" /\ reader'.chunk = mgr.chunk
        /\ reader'.algo = mgr.algo
        /\ reader'.made = "made" <=> "gdeflate" \in Built /\ mgr.algo = 0
    BY <1>5, <2>1, GdeflateMade
  <2>. QED
    BY <1>2, <1>10, <2>2, <2>3
<1>11. CASE mgr.format = "ans"
  <2>1. reader' = ANSManager(mgr.chunk, n)
    BY <1>1, <1>6, <1>11
  <2>2. "ans" \in Built
    BY <1>3, <1>11 DEF Available
  <2>3. /\ reader'.format = "ans" /\ reader'.chunk = mgr.chunk
        /\ reader'.made = "made" <=> "ans" \in Built
    BY <1>5, <2>1, ANSMade
  <2>. QED
    BY <1>2, <1>11, <2>2, <2>3
<1>. QED
  BY <1>3, <1>7, <1>8, <1>9, <1>10, <1>11 DEF Formats, External

\* Every step of the managers is one of ResultLayout, or leaves its variables
\* alone.  For the reader of a result this takes the invariant: it finds its
\* way behind the header of a format that it has taken from the result.
LEMMA StepMaps == FactoryInv /\ [FNext]_fvars => [Next]_vars
<1>. SUFFICES ASSUME FactoryInv, [FNext]_fvars PROVE [Next]_vars
  OBVIOUS
<1>1. CASE ReadResult
  <2>1. NoManager.made # "made"
    BY DEF NoManager
  <2>2. /\ phase = "compressed" /\ reader.made = "made" /\ phase' = "found"
        /\ found' = ReaderLayout(base + HeaderSize + SpecSize(reader.format),
                                 header.num_chunks)
        /\ UNCHANGED <<format, config, base, layout, header>>
    BY <1>1 DEF ReadResult
  <2>3. reader.format = mgr.format
    BY <2>1, <2>2 DEF FactoryInv, ReaderInv, FactoryRebuilds
  <2>4. SpecSize(mgr.format) = format
    BY <2>1, <2>2 DEF FactoryInv, WriterInv
  <2>5. Decompress
    BY <2>2, <2>3, <2>4 DEF Decompress
  <2>. QED
    BY <2>5 DEF Next
<1>2. CASE Construct \/ WriteNothing \/ CreateManager
  BY <1>2 DEF Construct, WriteNothing, CreateManager
<1>3. CASE MakeConfig \/ WriteResult \/ MoveResult
  BY <1>3 DEF MakeConfig, WriteResult, MoveResult, Next
<1>4. CASE UNCHANGED fvars
  BY <1>4 DEF fvars
<1>. QED
  BY <1>1, <1>2, <1>3, <1>4 DEF FNext

\* A manager that cannot be made writes nothing.
LEMMA WriterStep == FactoryInv /\ [FNext]_fvars => WriterInv'
<1>. SUFFICES ASSUME FactoryInv, [FNext]_fvars PROVE WriterInv'
  OBVIOUS
<1>1. CASE Construct
  <2>1. phase = "new" /\ phase' = phase /\ format' = format
    BY <1>1 DEF Construct, vars
  <2>. QED
    BY <1>1, <2>1, ConstructWriter DEF WriterInv
<1>2. CASE MakeConfig
  BY <1>2 DEF MakeConfig, Configure, FactoryInv, WriterInv
<1>3. CASE WriteResult
  BY <1>3 DEF WriteResult, Compress, FactoryInv, WriterInv
<1>4. CASE WriteNothing \/ CreateManager
  BY <1>4 DEF WriteNothing, CreateManager, vars, FactoryInv, WriterInv
<1>5. CASE MoveResult
  BY <1>5 DEF MoveResult, Move, FactoryInv, WriterInv
<1>6. CASE ReadResult
  BY <1>6 DEF ReadResult, FactoryInv, WriterInv
<1>7. CASE UNCHANGED fvars
  BY <1>7 DEF fvars, vars, FactoryInv, WriterInv
<1>. QED
  BY <1>1, <1>2, <1>3, <1>4, <1>5, <1>6, <1>7 DEF FNext

\* What a manager stamps on a result.
LEMMA StampedFields ==
  ASSUME NEW i \in Infos, NEW m \in Managers
  PROVE  LET s == Stamped(i, m)
             w == [s EXCEPT !.format = m.format, !.uncomp_chunk_size = m.chunk]
         IN  /\ s \in Infos /\ w \in Infos
             /\ w.format = m.format /\ w.uncomp_chunk_size = m.chunk
             /\ w.chunk_size = m.chunk /\ w.type = m.type /\ w.algo = m.algo
<1>1. /\ m.format \in Formats \cup {"none"} /\ m.chunk \in Nat
      /\ m.type \in Widths /\ m.algo \in 0 .. 2
  BY DEF Managers
<1>. QED
  BY <1>1 DEF Stamped, Infos

\* The headers are written with the result and stay with it.
LEMMA InfoStep == FactoryInv /\ [FNext]_fvars => InfoInv'
<1>. SUFFICES ASSUME FactoryInv, [FNext]_fvars PROVE InfoInv'
  OBVIOUS
<1>1. info \in Infos /\ mgr \in Managers
  BY DEF FactoryInv, InfoInv, WriterInv
<1>2. CASE Construct
  BY <1>2 DEF Construct, vars, Written, FactoryInv, InfoInv
<1>3. CASE MakeConfig
  BY <1>3 DEF MakeConfig, Configure, Written, FactoryInv, InfoInv
<1>4. CASE WriteResult
  <2>1. /\ mgr' = mgr
        /\ info' = [Stamped(info, mgr) EXCEPT !.format = mgr.format,
                                              !.uncomp_chunk_size = mgr.chunk]
    BY <1>4 DEF WriteResult
  <2>2. /\ info' \in Infos
        /\ info'.format = mgr.format /\ info'.uncomp_chunk_size = mgr.chunk
        /\ info'.chunk_size = mgr.chunk
        /\ info'.type = mgr.type /\ info'.algo = mgr.algo
    BY <1>1, <2>1, StampedFields, Zenon
  <2>. QED
    BY <2>1, <2>2, Zenon DEF InfoInv
<1>5. CASE WriteNothing
  <2>1. info' = Stamped(info, mgr) /\ phase' = "configured"
    BY <1>5 DEF WriteNothing, vars
  <2>. QED
    BY <1>1, <2>1, StampedFields DEF InfoInv, Written
<1>6. CASE CreateManager
  BY <1>6 DEF CreateManager, vars, Written, FactoryInv, InfoInv
<1>7. CASE MoveResult
  BY <1>7 DEF MoveResult, Move, Written, FactoryInv, InfoInv
<1>8. CASE ReadResult
  BY <1>8 DEF ReadResult, Written, FactoryInv, InfoInv
<1>9. CASE UNCHANGED fvars
  BY <1>9 DEF fvars, vars, Written, FactoryInv, InfoInv
<1>. QED
  BY <1>2, <1>3, <1>4, <1>5, <1>6, <1>7, <1>8, <1>9 DEF FNext

\* A reader is made of the headers as they stay.
LEMMA ReaderStep == FactoryInv /\ [FNext]_fvars => ReaderInv'
<1>. SUFFICES ASSUME FactoryInv, [FNext]_fvars PROVE ReaderInv'
  OBVIOUS
<1>1. CASE phase \in {"new", "configured"} /\ reader' = reader
  BY <1>1 DEF Written, FactoryInv, ReaderInv
<1>2. CASE CreateManager
  <2>1. /\ mgr' = mgr /\ info' = info /\ phase' = phase
    BY <1>2 DEF CreateManager, vars
  <2>2. info.uncomp_chunk_size = info.chunk_size
    BY <1>2, CreateReader DEF FactoryInv, InfoInv
  <2>. QED
    BY <1>2, <2>1, <2>2, CreateReader DEF ReaderInv, FactoryRebuilds, Written
<1>3. CASE MoveResult
  BY <1>3 DEF MoveResult, Move, Written, FactoryInv, ReaderInv, FactoryRebuilds
<1>4. CASE ReadResult
  BY <1>4 DEF ReadResult, Written, FactoryInv, ReaderInv, FactoryRebuilds
<1>5. CASE UNCHANGED fvars
  BY <1>5 DEF fvars, vars, Written, FactoryInv, ReaderInv, FactoryRebuilds
<1>6. CASE Construct \/ MakeConfig \/ WriteResult \/ WriteNothing
  BY <1>1, <1>6 DEF Construct, MakeConfig, Configure, WriteResult, Compress,
                    WriteNothing
<1>. QED
  BY <1>2, <1>3, <1>4, <1>5, <1>6 DEF FNext

\* The inductive invariant: writer, headers and reader agree.
THEOREM FactoryCorrect == FSpec => []FactoryInv
<1>1. FactoryInv /\ [FNext]_fvars => FactoryInv'
  BY StepMaps, LayoutStep, WriterStep, InfoStep, ReaderStep DEF FactoryInv
<1>. QED
  BY <1>1, InitFactory, PTL DEF FSpec

\* From a result alone, whatever the format, the options and the device, the
\* build that wrote it makes a manager like the writer (create_manager).
THEOREM ReaderIsWriter == FSpec => []FactoryRebuilds
<1>1. FactoryInv => FactoryRebuilds
  BY DEF FactoryInv, ReaderInv, FactoryRebuilds
<1>. QED
  BY <1>1, FactoryCorrect, PTL

\* Results written and read by these managers are those of ResultLayout, whose
\* reader knows the size of the format's header beforehand.
THEOREM LayoutImplemented == FSpec => ImplementsLayout
<1>1. FInit => Init
  BY DEF FInit
<1>. QED
  BY <1>1, StepMaps, FactoryCorrect, PTL DEF FSpec, Spec, ImplementsLayout

-----------------------------------------------------------------------------
(* The scratch buffer.                                                     *)

\* The sizes of a hash table.
LEMMA Powers ==
  /\ 2 ^ 0 = 1 /\ 2 ^ 1 = 2 /\ 2 ^ 2 = 4 /\ 2 ^ 3 = 8 /\ 2 ^ 4 = 16
  /\ 2 ^ 5 = 32 /\ 2 ^ 6 = 64 /\ 2 ^ 7 = 128 /\ 2 ^ 8 = 256 /\ 2 ^ 9 = 512
  /\ 2 ^ 10 = 1024 /\ 2 ^ 11 = 2048 /\ 2 ^ 12 = 4096 /\ 2 ^ 13 = 8192
  /\ 2 ^ 14 = 16384
OBVIOUS

\* lz4GetHashTableSize finds one for every size of a chunk.
LEMMA HashTable ==
  ASSUME NEW m, m.chunk \in Nat \ {0}
  PROVE  hash_table_size(m) \in Nat
<1>. DEFINE S == {2 ^ k : k \in 0 .. 14}
            P(n) == /\ n >= m.chunk \/ n = 2 ^ 14
                    /\ n = 1 \/ n \div 2 < m.chunk
<1>1. {1, 2, 4, 8, 16, 32, 64, 128, 256, 512, 1024, 2048, 4096, 8192, 16384} = S
  <2>1. \A k \in 0 .. 14 : k \in {0, 1, 2, 3, 4, 5, 6, 7, 8, 9, 10, 11, 12, 13, 14}
    OBVIOUS
  <2>. QED
    BY <2>1, Powers
<1>. HIDE DEF S
<1>2. \E n \in S : P(n)
  <2>. DEFINE c == m.chunk
  <2>1. c \in Nat \ {0}
    OBVIOUS
  <2>. HIDE DEF c
  <2>2. \E n \in S : /\ n >= c \/ n = 16384
                     /\ n = 1 \/ n \div 2 < c
    <3>. DEFINE Q(n) == (n >= c \/ n = 16384) /\ (n = 1 \/ n \div 2 < c)
    <3>1. c <= 1 => Q(1)
      BY <2>1
    <3>2. 1 < c /\ c <= 2 => Q(2)
      BY <2>1
    <3>3. 2 < c /\ c <= 4 => Q(4)
      BY <2>1
    <3>4. 4 < c /\ c <= 8 => Q(8)
      BY <2>1
    <3>5. 8 < c /\ c <= 16 => Q(16)
      BY <2>1
    <3>6. 16 < c /\ c <= 32 => Q(32)
      BY <2>1
    <3>7. 32 < c /\ c <= 64 => Q(64)
      BY <2>1
    <3>8. 64 < c /\ c <= 128 => Q(128)
      BY <2>1
    <3>9. 128 < c /\ c <= 256 => Q(256)
      BY <2>1
    <3>10. 256 < c /\ c <= 512 => Q(512)
      BY <2>1
    <3>11. 512 < c /\ c <= 1024 => Q(1024)
      BY <2>1
    <3>12. 1024 < c /\ c <= 2048 => Q(2048)
      BY <2>1
    <3>13. 2048 < c /\ c <= 4096 => Q(4096)
      BY <2>1
    <3>14. 4096 < c /\ c <= 8192 => Q(8192)
      BY <2>1
    <3>15. 8192 < c => Q(16384)
      BY <2>1
    <3>16. \E n \in {1, 2, 4, 8, 16, 32, 64, 128, 256, 512, 1024, 2048, 4096,
                    8192, 16384} : Q(n)
      <4>. HIDE DEF Q
      <4>. QED
        BY <2>1, <3>1, <3>2, <3>3, <3>4, <3>5, <3>6, <3>7, <3>8,
           <3>9, <3>10, <3>11, <3>12, <3>13, <3>14, <3>15
    <3>. QED
      BY <1>1, <3>16
  <2>. QED
    BY <2>2, Powers DEF c
<1>3. hash_table_size(m) = CHOOSE n \in S : P(n)
  BY DEF hash_table_size, S
<1>. HIDE DEF P
<1>4. hash_table_size(m) \in S
  BY <1>2, <1>3
<1>. QED
  BY <1>1, <1>4

\* RoundUpTo a multiple of four bytes.
LEMMA RoundUpFour ==
  ASSUME NEW p, p \in Nat
  PROVE  RoundUpTo(p, 4) \in Nat
BY DEF RoundUpTo, RoundUpDiv

\* What a block needs for a compressed chunk and for its tables; with LZ4 both
\* are multiples of two bytes.
LEMMA ScratchSizes ==
  ASSUME FactoryInv, mgr.made = "made"
  PROVE  /\ slots(mgr) \in Nat
         /\ max_comp_chunk_size(mgr) \in Nat /\ tmp_bytes(mgr) \in Nat
         /\ mgr.format = "lz4" =>
              max_comp_chunk_size(mgr) % 2 = 0 /\ tmp_bytes(mgr) % 2 = 0
<1>. DEFINE u == mgr.chunk
<1>1. mgr # NoManager
  <2>1. NoManager.made # "made"
    BY DEF NoManager
  <2>. QED
    BY <2>1
<1>2. slots(mgr) \in Nat /\ mgr.format \in Formats /\ u \in Nat \ {0}
  <2>1. mgr.ctas \in Nat /\ mgr.format \in Formats /\ u \in Nat \ {0}
    BY <1>1, OptionTypes DEF FactoryInv, WriterInv, Managers
  <2>2. \A k, l \in Nat : k * l \in Nat
    OBVIOUS
  <2>. QED
    BY <2>1, <2>2, FactoryAssumption DEF slots
<1>3. CASE mgr.format = "lz4"
  <2>1. max_comp_chunk_size(mgr) = RoundUpTo(u + 1 + RoundUpDiv(u, 255), WordSize)
    BY <1>3 DEF max_comp_chunk_size, lz4_max_chunk_size
  <2>2. tmp_bytes(mgr) = 2 * hash_table_size(mgr)
    BY <1>3 DEF tmp_bytes, lz4_tmp_bytes
  <2>3. hash_table_size(mgr) \in Nat
    BY <1>2, HashTable
  <2>4. u + 1 + RoundUpDiv(u, 255) \in Nat
    BY <1>2 DEF RoundUpDiv
  <2>5. /\ max_comp_chunk_size(mgr) \in Nat
        /\ max_comp_chunk_size(mgr) % 8 = 0
    BY <2>1, <2>4, RoundUp DEF WordSize
  <2>6. /\ tmp_bytes(mgr) \in Nat /\ tmp_bytes(mgr) % 2 = 0
    BY <2>2, <2>3
  <2>7. \A k \in Nat : k % 8 = 0 => k % 2 = 0
    OBVIOUS
  <2>. QED
    BY <1>2, <2>5, <2>6, <2>7
<1>4. CASE mgr.format = "snappy"
  <2>1. max_comp_chunk_size(mgr) = 32 + u + u \div 6 /\ tmp_bytes(mgr) = 0
    BY <1>4 DEF max_comp_chunk_size, snappy_max_chunk_size, tmp_bytes
  <2>. QED
    BY <1>2, <1>4, <2>1
<1>5. CASE mgr.format = "cascaded"
  <2>1. max_comp_chunk_size(mgr) = RoundUpTo(u, 4) + 8 /\ tmp_bytes(mgr) = 0
    BY <1>5 DEF max_comp_chunk_size, cascaded_max_chunk_size, tmp_bytes
  <2>. QED
    BY <1>2, <1>5, <2>1, RoundUpFour
<1>6. CASE mgr.format = "gdeflate"
  <2>1. /\ max_comp_chunk_size(mgr) = u
        /\ tmp_bytes(mgr) = RoundUpTo(8 + 5 * u + 2 * 2 ^ 14, 4)
    BY <1>6 DEF max_comp_chunk_size, library_max_chunk_size, tmp_bytes,
                gdeflate_tmp_bytes
  <2>2. 8 + 5 * u + 2 * 2 ^ 14 \in Nat
    BY <1>2, Powers
  <2>. QED
    BY <1>2, <1>6, <2>1, <2>2, RoundUpFour
<1>7. CASE mgr.format = "ans"
  BY <1>2, <1>7, FactoryAssumption
  DEF max_comp_chunk_size, library_max_chunk_size, tmp_bytes
<1>. QED
  BY <1>2, <1>3, <1>4, <1>5, <1>6, <1>7 DEF Formats, External

\* Equal parts of a piece of memory, one after the other.
LEMMA Parts ==
  ASSUME NEW i, NEW j, NEW u, i \in Nat, j \in Nat, u \in Nat
  PROVE  /\ i * u \in Nat
         /\ i < j => i * u + u <= j * u
<1>1. i * u \in Nat
  OBVIOUS
<1>2. ASSUME i < j PROVE i * u + u <= j * u
  <2>1. PICK d \in Nat : j = i + 1 + d
    <3>1. j - i - 1 \in Nat /\ j = i + 1 + (j - i - 1)
      BY <1>2
    <3>. QED
      BY <3>1
  <2>2. d * u \in Nat /\ (i + 1 + d) * u = i * u + u + d * u
    BY <2>1
  <2>. QED
    BY <1>1, <2>1, <2>2
<1>. QED
  BY <1>1, <1>2

\* A multiple of an even number is even.
LEMMA EvenParts ==
  ASSUME NEW i, NEW u, i \in Nat, u \in Nat, u % 2 = 0
  PROVE  i * u \in Nat /\ (i * u) % 2 = 0
<1>1. PICK h \in Nat : u = 2 * h
  <2>1. u \div 2 \in Nat /\ u = 2 * (u \div 2)
    OBVIOUS
  <2>. QED
    BY <2>1
<1>2. PICK k \in Nat : i * u = 2 * k
  <2>1. i * h \in Nat /\ i * u = 2 * (i * h)
    BY <1>1
  <2>. QED
    BY <2>1
<1>3. 2 * k \in Nat /\ (2 * k) % 2 = 0
  BY <1>2
<1>. QED
  BY <1>2, <1>3

\* The blocks of a compression keep to their own parts of a scratch buffer of
\* the size that the manager tells the client (compute_scratch_buffer_size of
\* the formats), and the hash tables of LZ4 are aligned.
THEOREM BlocksApart == FSpec => []ScratchApart
<1>1. ASSUME FactoryInv, mgr.made = "made" PROVE ScratchApart
  <2>. DEFINE n == slots(mgr)
              u == max_comp_chunk_size(mgr)
              v == tmp_bytes(mgr)
              size == compute_scratch_buffer_size(mgr)
              out == {OutputPart(mgr, b) : b \in 0 .. n - 1}
              temp == {TempPart(mgr, b) : b \in 0 .. n - 1}
  <2>1. n \in Nat /\ u \in Nat /\ v \in Nat
    BY <1>1, ScratchSizes
  <2>2. mgr.format = "lz4" => u % 2 = 0 /\ v % 2 = 0
    BY <1>1, ScratchSizes
  <2>3. size = n * u + n * v
    <3>1. size = n * (v + u)
      BY DEF compute_scratch_buffer_size
    <3>. HIDE DEF n, u, v, size
    <3>. QED
      BY <2>1, <3>1
  <2>4. \A b \in 0 .. n - 1 :
          /\ OutputPart(mgr, b).at = b * u /\ OutputPart(mgr, b).len = u
          /\ TempPart(mgr, b).at = n * u + b * v /\ TempPart(mgr, b).len = v
    BY DEF OutputPart, TempPart
  <2>. HIDE DEF n, u, v, size
  <2>5. \A b \in 0 .. n - 1 : /\ b \in Nat /\ b * u \in Nat /\ b * v \in Nat
                              /\ b * u + u <= n * u /\ b * v + v <= n * v
    BY <2>1, Parts
  <2>6. n * u \in Nat /\ n * v \in Nat
    BY <2>1, Parts
  <2>7. \A b, c \in 0 .. n - 1 : b # c =>
          /\ b * u + u <= c * u \/ c * u + u <= b * u
          /\ b * v + v <= c * v \/ c * v + v <= b * v
    <3>. SUFFICES ASSUME NEW b \in 0 .. n - 1, NEW c \in 0 .. n - 1, b # c
                  PROVE  /\ b * u + u <= c * u \/ c * u + u <= b * u
                         /\ b * v + v <= c * v \/ c * v + v <= b * v
      OBVIOUS
    <3>1. b \in Nat /\ c \in Nat /\ (b < c \/ c < b)
      BY <2>1
    <3>. QED
      BY <2>1, <3>1, Parts
  <2>8. ASSUME NEW p \in out \cup temp
        PROVE  /\ p.at + p.len <= size
               /\ \A q \in (out \cup temp) \ {p} :
                    p.len = 0 \/ q.len = 0 \/ p.at + p.len <= q.at
                              \/ q.at + q.len <= p.at
    <3>1. PICK b \in 0 .. n - 1 : p = OutputPart(mgr, b) \/ p = TempPart(mgr, b)
      BY <2>8
    <3>2. p.at + p.len <= size
      BY <2>1, <2>3, <2>4, <2>5, <2>6, <3>1
    <3>3. ASSUME NEW q \in (out \cup temp) \ {p}
          PROVE  p.at + p.len <= q.at \/ q.at + q.len <= p.at
      <4>1. PICK c \in 0 .. n - 1 : q = OutputPart(mgr, c) \/ q = TempPart(mgr, c)
        BY <3>3
      <4>2. CASE p = OutputPart(mgr, b) /\ q = OutputPart(mgr, c)
        <5>1. b # c
          BY <3>3, <4>2
        <5>. QED
          BY <2>4, <2>7, <3>1, <4>1, <4>2, <5>1
      <4>3. CASE p = TempPart(mgr, b) /\ q = TempPart(mgr, c)
        <5>1. b # c
          BY <3>3, <4>3
        <5>2. b * v + v <= c * v \/ c * v + v <= b * v
          BY <2>7, <3>1, <4>1, <5>1
        <5>3. /\ p.at = n * u + b * v /\ p.len = v
              /\ q.at = n * u + c * v /\ q.len = v
              /\ b * v \in Nat /\ c * v \in Nat
          BY <2>4, <2>5, <3>1, <4>1, <4>3
        <5>. QED
          BY <2>1, <2>6, <5>2, <5>3
      <4>4. CASE p = OutputPart(mgr, b) /\ q = TempPart(mgr, c)
        <5>1. /\ p.at = b * u /\ p.len = u
              /\ q.at = n * u + c * v
              /\ b * u \in Nat /\ c * v \in Nat /\ b * u + u <= n * u
          BY <2>4, <2>5, <3>1, <4>1, <4>4
        <5>. QED
          BY <2>1, <2>6, <5>1
      <4>5. CASE p = TempPart(mgr, b) /\ q = OutputPart(mgr, c)
        <5>1. /\ q.at = c * u /\ q.len = u
              /\ p.at = n * u + b * v
              /\ c * u \in Nat /\ b * v \in Nat /\ c * u + u <= n * u
          BY <2>4, <2>5, <3>1, <4>1, <4>5
        <5>. QED
          BY <2>1, <2>6, <5>1
      <4>. QED
        BY <3>1, <4>1, <4>2, <4>3, <4>4, <4>5
    <3>. QED
      BY <3>2, <3>3
  <2>9. mgr.format = "lz4" =>
          \A b \in 0 .. n - 1 : TempPart(mgr, b).at % 2 = 0
    <3>. SUFFICES ASSUME mgr.format = "lz4", NEW b \in 0 .. n - 1
                  PROVE  TempPart(mgr, b).at % 2 = 0
      OBVIOUS
    <3>1. /\ n * u \in Nat /\ (n * u) % 2 = 0
          /\ b * v \in Nat /\ (b * v) % 2 = 0
      BY <2>1, <2>2, <2>5, EvenParts
    <3>2. \A k, l \in Nat : k % 2 = 0 /\ l % 2 = 0 => (k + l) % 2 = 0
      OBVIOUS
    <3>. QED
      BY <2>4, <3>1, <3>2
  <2>. QED
    BY <2>8, <2>9 DEF ScratchApart, n, u, v, size
<1>2. FactoryInv => ScratchApart
  BY <1>1 DEF ScratchApart
<1>. QED
  BY <1>2, FactoryCorrect, PTL
=============================================================================
