---------------------------- MODULE ResultLayout ----------------------------
(***************************************************************************)
(* The result buffer of a batch compression: how the host lays it out      *)
(* (ManagerBase.hpp, BatchManager.hpp), what the kernel leaves in its      *)
(* header (hlif_shared.cuh), and how a reader finds its way in it again,   *)
(* perhaps in a copy made elsewhere:                                       *)
(*                                                                         *)
(*   CommonHeader | FormatSpecHeader | padding | chunk offsets |           *)
(*   chunk sizes | checksums, compressed | checksums, decompressed | data  *)
(*                                                                         *)
(* Addresses and sizes are in bytes.  What the kernel does with the data   *)
(* is the matter of HlifCompress: only its total is kept here, the sum of  *)
(* one compressed size of 1 .. MaxCompChunkSize per chunk.                 *)
(***************************************************************************)
EXTENDS Integers

CONSTANTS
  Bases,              (* addresses at which the client's buffers begin       *)
  MaxUncompSize,      (* bound: bytes that the client compresses             *)
  UncompChunkSize,    (* uncomp_chunk_size                                   *)
  MaxCompChunkSize,   (* max_comp_chunk_size                                 *)
  FormatSizes         (* sizeof(FormatSpecHeader) of the managers            *)

WordSize     == 8     (* sizeof(size_t), sizeof(ChunkStartOffset_t)          *)
ChecksumSize == 4     (* sizeof(Checksum_t)                                  *)
HeaderSize   == 64    (* sizeof(CommonHeader)                                *)

\* The header has words in it, so the client's buffers begin at a word.
ASSUME LayoutAssumption ==
  /\ Bases \subseteq Nat /\ \A b \in Bases : b % WordSize = 0
  /\ MaxUncompSize \in Nat
  /\ UncompChunkSize \in Nat \ {0}
  /\ MaxCompChunkSize \in Nat \ {0}
  /\ FormatSizes \subseteq Nat \ {0}

VARIABLES
  phase,       (* "new", "configured", "compressed", "found"                 *)
  format,      (* sizeof(FormatSpecHeader) of this manager                   *)
  config,      (* CompressionConfig: [size, num_chunks, max_size]            *)
  base,        (* where the result buffer begins                             *)
  layout,      (* where the writer puts the sections                         *)
  header,      (* CommonHeader: [decomp_data_size, num_chunks,
                  comp_data_size, comp_data_offset]                          *)
  found        (* where the reader looks for the sections                    *)

vars == <<phase, format, config, base, layout, header, found>>

Layouts == [offsets : Nat, sizes : Nat, comp_sums : Nat, decomp_sums : Nat,
            data : Nat]
NoLayout == [offsets |-> 0, sizes |-> 0, comp_sums |-> 0, decomp_sums |-> 0,
             data |-> 0]

Init ==
  /\ phase = "new"
  /\ format \in FormatSizes
  /\ config = [size |-> 0, num_chunks |-> 0, max_size |-> 0]
  /\ base \in Bases
  /\ layout = NoLayout
  /\ header = [decomp_data_size |-> 0, num_chunks |-> 0, comp_data_size |-> 0,
               comp_data_offset |-> 0]
  /\ found = NoLayout

-----------------------------------------------------------------------------
(* Arithmetic of Common.h.                                                 *)

RoundUpDiv(n, chunk) == (n \div chunk) + (IF n % chunk > 0 THEN 1 ELSE 0)
RoundUpTo(n, chunk)  == RoundUpDiv(n, chunk) * chunk

-----------------------------------------------------------------------------
(* Chunks of the uncompressed data.                                        *)

\* Faulty variant: the tail of the input is forgotten.
NumWholeChunks(size) == size \div UncompChunkSize

\* do_configure_compression
NumChunks(size) == RoundUpDiv(size, UncompChunkSize)

ChunkStart(i) == i * UncompChunkSize

\* The bytes of chunk i that HlifCompressBatch compresses.
ChunkBytes(i, size) ==
  IF UncompChunkSize <= size - ChunkStart(i) THEN UncompChunkSize
                                             ELSE size - ChunkStart(i)

\* Faulty variant: no room for the second array of checksums.
OneChecksumSize(n, format_size) ==
  HeaderSize + format_size + WordSize * n + 4 * n + ChecksumSize * n
    + MaxCompChunkSize * n

\* calculate_max_compressed_output_size: a chunk size is counted as four
\* bytes, and no padding is.
MaxOutputSize(n, format_size) ==
  HeaderSize + format_size + WordSize * n + 4 * n + ChecksumSize * n * 2
    + MaxCompChunkSize * n

-----------------------------------------------------------------------------
(* The sections.                                                           *)

\* Faulty variant: the offsets are not aligned.
UnpaddedLayout(start, n) ==
  [offsets |-> start, sizes |-> start + WordSize * n,
   comp_sums |-> start + 2 * WordSize * n,
   decomp_sums |-> start + (2 * WordSize + ChecksumSize) * n,
   data |-> start + 2 * (WordSize + ChecksumSize) * n]

\* do_compress, from the address behind the two headers.
WriterLayout(start, n) ==
  LET offsets == RoundUpTo(start, WordSize)
      sizes == offsets + WordSize * n
      comp_sums == sizes + WordSize * n
      decomp_sums == comp_sums + ChecksumSize * n
  IN [offsets |-> offsets, sizes |-> sizes, comp_sums |-> comp_sums,
      decomp_sums |-> decomp_sums, data |-> decomp_sums + ChecksumSize * n]

\* Faulty variant: the reader expects one array of checksums.
OneChecksumLayout(start, n) ==
  LET offsets == RoundUpTo(start, WordSize)
      sizes == offsets + WordSize * n
      comp_sums == sizes + WordSize * n
  IN [offsets |-> offsets, sizes |-> sizes, comp_sums |-> comp_sums,
      decomp_sums |-> comp_sums, data |-> comp_sums + ChecksumSize * n]

\* do_decompress
ReaderLayout(start, n) ==
  LET offsets == RoundUpTo(start, WordSize)
      sizes == offsets + WordSize * n
      comp_sums == sizes + WordSize * n
      decomp_sums == comp_sums + ChecksumSize * n
  IN [offsets |-> offsets, sizes |-> sizes, comp_sums |-> comp_sums,
      decomp_sums |-> decomp_sums, data |-> decomp_sums + ChecksumSize * n]

-----------------------------------------------------------------------------
(* Operations.                                                             *)

\* configure_compression
Configure ==
  /\ phase = "new"
  /\ phase' = "configured"
  /\ \E size \in 0 .. MaxUncompSize :
       config' = [size |-> size, num_chunks |-> NumChunks(size),
                  max_size |-> MaxOutputSize(NumChunks(size), format)]
  /\ UNCHANGED <<format, base, layout, header, found>>

\* Faulty variant: the offset of the data taken from the wrong end.
CompressBackwards ==
  /\ phase = "configured"
  /\ phase' = "compressed"
  /\ layout' = WriterLayout(base + HeaderSize + format, config.num_chunks)
  /\ \E total \in config.num_chunks .. config.num_chunks * MaxCompChunkSize :
       header' = [decomp_data_size |-> config.size,
                  num_chunks |-> config.num_chunks,
                  comp_data_size |-> total,
                  comp_data_offset |-> base - layout'.data]
  /\ UNCHANGED <<format, config, base, found>>

\* compress, to the end of its kernel; get_compressed_output_size adds up the
\* last two words of the header.
Compress ==
  /\ phase = "configured"
  /\ phase' = "compressed"
  /\ layout' = WriterLayout(base + HeaderSize + format, config.num_chunks)
  /\ \E total \in config.num_chunks .. config.num_chunks * MaxCompChunkSize :
       header' = [decomp_data_size |-> config.size,
                  num_chunks |-> config.num_chunks,
                  comp_data_size |-> total,
                  comp_data_offset |-> layout'.data - base]
  /\ UNCHANGED <<format, config, base, found>>

OutputSize == header.comp_data_size + header.comp_data_offset

\* The client copies the first OutputSize bytes to another buffer.
Move ==
  /\ phase = "compressed"
  /\ base' \in Bases
  /\ layout' = [s \in DOMAIN layout |-> layout[s] + base' - base]
  /\ UNCHANGED <<phase, format, config, header, found>>

\* configure_decompression from the header, and decompress.
Decompress ==
  /\ phase = "compressed"
  /\ phase' = "found"
  /\ found' = ReaderLayout(base + HeaderSize + format, header.num_chunks)
  /\ UNCHANGED <<format, config, base, layout, header>>

Next == Configure \/ Compress \/ Move \/ Decompress

Spec == Init /\ [][Next]_vars

-----------------------------------------------------------------------------
(* Properties.                                                             *)

Written == phase \in {"compressed", "found"}

\* Every variable keeps its type; no size is negative.
TypeOK ==
  /\ phase \in {"new", "configured", "compressed", "found"}
  /\ format \in FormatSizes
  /\ config \in [size : 0 .. MaxUncompSize, num_chunks : Nat, max_size : Nat]
  /\ base \in Bases
  /\ layout \in Layouts
  /\ header \in [decomp_data_size : 0 .. MaxUncompSize, num_chunks : Nat,
                 comp_data_size : Nat, comp_data_offset : Nat]
  /\ found \in Layouts

\* The chunks share the input among them: the last one ends where the input
\* does, none is empty, and none but the last is short.
ChunksTile ==
  phase # "new" =>
    LET last == config.num_chunks - 1 IN
    /\ config.size = 0 <=> config.num_chunks = 0
    /\ config.num_chunks > 0 =>
         /\ ChunkStart(last) + ChunkBytes(last, config.size) = config.size
         /\ \A i \in 0 .. last :
              /\ ChunkBytes(i, config.size) > 0
              /\ i < last => ChunkBytes(i, config.size) = UncompChunkSize

\* The sections follow the headers and each other without overlap, and the
\* words and checksums in them are aligned, also in a copy of the result.
SectionsApart ==
  Written =>
    LET n == config.num_chunks IN
    /\ base + HeaderSize + format <= layout.offsets
    /\ layout.offsets + WordSize * n <= layout.sizes
    /\ layout.sizes + WordSize * n <= layout.comp_sums
    /\ layout.comp_sums + ChecksumSize * n <= layout.decomp_sums
    /\ layout.decomp_sums + ChecksumSize * n <= layout.data
    /\ layout.offsets % WordSize = 0
    /\ layout.sizes % WordSize = 0
    /\ layout.comp_sums % ChecksumSize = 0

\* A reader that has only the first OutputSize bytes of the result looks for
\* every section where the writer left it, wherever the result was copied
\* meanwhile, and what it looks for ends with those bytes.
ReaderAgrees ==
  phase = "found" =>
    /\ found = layout
    /\ found.data + header.comp_data_size = base + OutputSize

\* The result exceeds the size that configure_compression promised by at most
\* the four bytes per chunk and the padding which that size leaves out.
ExcessBounded ==
  Written => OutputSize <= config.max_size + 4 * config.num_chunks + WordSize - 1
=============================================================================
