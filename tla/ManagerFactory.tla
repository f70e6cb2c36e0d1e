--------------------------- MODULE ManagerFactory ---------------------------
(***************************************************************************)
(* The managers of the formats (highlevel/*Manager.hpp), and               *)
(* create_manager (hipcompManagerFactory.cpp), which makes a manager from  *)
(* nothing but a result in device memory.  ResultLayout has what all       *)
(* managers share of a result; here a manager has a format and options,    *)
(* leaves both in the headers, and the reader of the result is a manager   *)
(* that was made from these headers.                                       *)
(*                                                                         *)
(* The codec of GDeflate is an external library and may be missing from a  *)
(* build, as may that of ANS.  (Bitcomp does not work in chunks and is     *)
(* left out; without its library its manager cannot be made.)              *)
(***************************************************************************)
EXTENDS ResultLayout

CONSTANTS
  Options,     (* what clients construct managers with: see OptionsOK        *)
  Built,       (* external codecs of this build                              *)
  Ctas,        (* thread blocks that a device holds at a time                *)
  AnsChunksPerCTA,  (* ans::hlif::getBatchedCompChunksPerCTA                 *)
  AnsChunkTmpSize   (* ans::hlif::getChunkTmpSize                            *)

External == {"gdeflate", "ans"}
Formats  == {"lz4", "snappy", "cascaded"} \cup External
Widths   == {0, 1, 2, 4, 8}        (* of the type; 0: HIPCOMP_TYPE_BITS      *)

\* The type is an option of LZ4 and Cascaded, algo one of GDeflate.
OptionsOK ==
  Options \subseteq [format : Formats, type : Widths, algo : 0 .. 2]

\* MaxCompChunkSize is the largest of the formats.
ASSUME FactoryAssumption ==
  /\ OptionsOK /\ Built \subseteq External /\ Ctas \subseteq Nat \ {0}
  /\ AnsChunksPerCTA \in Nat \ {0} /\ AnsChunkTmpSize \in Nat

VARIABLES
  mgr,         (* the writer: [made, format, chunk, type, algo, ctas, dctas] *)
  info,        (* CommonHeader: [format, uncomp_chunk_size] and the
                  FormatSpecHeader behind it: [chunk_size, type, algo]       *)
  reader       (* the manager made from these headers                        *)

fvars == <<vars, mgr, info, reader>>

NoManager == [made |-> "not yet", format |-> "none", chunk |-> 0, type |-> 0,
              algo |-> 0, ctas |-> 0, dctas |-> 0]
NoInfo == [format |-> "none", uncomp_chunk_size |-> 0,
           chunk_size |-> 0, type |-> 0, algo |-> 0]

FInit == Init /\ mgr = NoManager /\ info = NoInfo /\ reader = NoManager

-----------------------------------------------------------------------------
(* Construction.                                                           *)

\* sizeof(FormatSpecHeader)
SpecSize(f) == CASE f \in {"lz4", "gdeflate"} -> 4
                 [] f = "cascaded"            -> 24
                 [] OTHER                     -> 1

\* How many thread blocks a manager compresses with, on a device that holds n
\* of them; none where there is no kernel for the type.
NoKernel == 0
batchedLZ4CompMaxBlockOccupancy(type, n)   == IF type = 8 THEN NoKernel ELSE n
snappyHlifCompMaxBlockOccupancy(n)         == n
cascadedHlifCompMaxBlockOccupancy(type, n) == IF type = 0 THEN 1 ELSE n
batchedGdeflateCompMaxBlockOccupancy(n)    == IF "gdeflate" \in Built THEN n ELSE NoKernel

\* How many it decompresses with; LZ4 does so without regard to the type.
batchedLZ4DecompMaxBlockOccupancy(n)         == n
snappyHlifDecompMaxBlockOccupancy(n)         == n
cascadedHlifDecompMaxBlockOccupancy(type, n) == IF type = 0 THEN 1 ELSE n
batchedGdeflateDecompMaxBlockOccupancy(n)    == IF "gdeflate" \in Built THEN n ELSE NoKernel

\* A constructor that finds no kernel for one of the two throws.
Made(f, chunk, type, algo, ctas, dctas) ==
  [made |-> IF NoKernel \in {ctas, dctas} THEN "refused" ELSE "made",
   format |-> f, chunk |-> chunk, type |-> type, algo |-> algo,
   ctas |-> ctas, dctas |-> dctas]

LZ4BatchManager(chunk, type, n) ==
  Made("lz4", chunk, type, 0, batchedLZ4CompMaxBlockOccupancy(type, n),
       batchedLZ4DecompMaxBlockOccupancy(n))
SnappyBatchManager(chunk, n) ==
  Made("snappy", chunk, 0, 0, snappyHlifCompMaxBlockOccupancy(n),
       snappyHlifDecompMaxBlockOccupancy(n))
CascadedBatchManager(chunk, type, n) ==
  Made("cascaded", chunk, type, 0, cascadedHlifCompMaxBlockOccupancy(type, n),
       cascadedHlifDecompMaxBlockOccupancy(type, n))
GdeflateBatchManager(chunk, algo, n) ==
  Made("gdeflate", chunk, 0, algo,
       IF algo # 0 THEN NoKernel ELSE batchedGdeflateCompMaxBlockOccupancy(n),
       batchedGdeflateDecompMaxBlockOccupancy(n))
ANSManager(chunk, n) ==
  LET blocks == IF "ans" \in Built THEN n ELSE NoKernel
  IN  Made("ans", chunk, 0, 0, blocks, blocks)

\* compute_max_compressed_chunk_size of each format
lz4_max_chunk_size(m) ==
  RoundUpTo(m.chunk + 1 + RoundUpDiv(m.chunk, 255), WordSize)
snappy_max_chunk_size(m)   == 32 + m.chunk + m.chunk \div 6
cascaded_max_chunk_size(m) == RoundUpTo(m.chunk, 4) + 8
library_max_chunk_size(m)  == m.chunk

max_comp_chunk_size(m) ==
  CASE m.format = "lz4"      -> lz4_max_chunk_size(m)
    [] m.format = "snappy"   -> snappy_max_chunk_size(m)
    [] m.format = "cascaded" -> cascaded_max_chunk_size(m)
    [] OTHER                 -> library_max_chunk_size(m)

\* format_specific_init (lz4GetHashTableSize): a power of two, at most 2^14.
hash_table_size(m) ==
  CHOOSE n \in {2 ^ k : k \in 0 .. 14} :
    /\ n >= m.chunk \/ n = 2 ^ 14
    /\ n = 1 \/ n \div 2 < m.chunk

\* How many chunks are compressed at a time, and what each needs besides room
\* for its compressed form.
slots(m) == m.ctas * (IF m.format = "ans" THEN AnsChunksPerCTA ELSE 1)

lz4_tmp_bytes(m)      == 2 * hash_table_size(m)
gdeflate_tmp_bytes(m) == RoundUpTo(8 + 5 * m.chunk + 2 * 2 ^ 14, 4)
tmp_bytes(m) ==
  CASE m.format = "lz4"      -> lz4_tmp_bytes(m)
    [] m.format = "gdeflate" -> gdeflate_tmp_bytes(m)
    [] m.format = "ans"      -> AnsChunkTmpSize
    [] OTHER                 -> 0

\* Faulty variant: the hash tables are forgotten.
compute_scratch_bare(m) == slots(m) * max_comp_chunk_size(m)

compute_scratch_buffer_size(m) == slots(m) * (tmp_bytes(m) + max_comp_chunk_size(m))

\* A client's constructor call for the kind of manager of this behaviour.
Construct ==
  /\ phase = "new" /\ mgr = NoManager
  /\ \E o \in Options, n \in Ctas :
       /\ SpecSize(o.format) = format
       /\ mgr' = CASE o.format = "lz4"      -> LZ4BatchManager(UncompChunkSize, o.type, n)
                   [] o.format = "snappy"   -> SnappyBatchManager(UncompChunkSize, n)
                   [] o.format = "cascaded" -> CascadedBatchManager(UncompChunkSize, o.type, n)
                   [] o.format = "gdeflate" -> GdeflateBatchManager(UncompChunkSize, o.algo, n)
                   [] o.format = "ans"      -> ANSManager(UncompChunkSize, n)
  /\ UNCHANGED <<vars, info, reader>>

-----------------------------------------------------------------------------
(* Writing, moving and reading a result.                                   *)

\* The FormatSpecHeader of a manager, copied behind the CommonHeader.
Stamped(i, m) ==
  [i EXCEPT !.chunk_size = m.chunk, !.type = m.type, !.algo = m.algo]

\* The widths for which the cascaded manager has a kernel, of compression and
\* of decompression.
Launches(m) == m.format = "cascaded" => m.type # 0
DecompLaunches(m) == m.format = "cascaded" => m.type # 0

MakeConfig ==
  /\ mgr.made = "made" /\ Configure /\ UNCHANGED <<mgr, info, reader>>

\* The kernel of the format fills the CommonHeader.
WriteResult ==
  /\ Launches(mgr) /\ Compress
  /\ info' = [Stamped(info, mgr) EXCEPT !.format = mgr.format,
                                        !.uncomp_chunk_size = mgr.chunk]
  /\ UNCHANGED <<mgr, reader>>

\* Nothing is launched and no error is reported: of the result only the
\* header of the format is written.
WriteNothing ==
  /\ ~Launches(mgr) /\ phase = "configured"
  /\ info' = Stamped(info, mgr)
  /\ UNCHANGED <<vars, mgr, reader>>

MoveResult == Move /\ UNCHANGED <<mgr, info, reader>>

\* Faulty variant: the options of Cascaded are taken to be the default ones.
create_manager_default(i, n) ==
  CASE i.format = "lz4"      -> LZ4BatchManager(i.uncomp_chunk_size, i.type, n)
    [] i.format = "snappy"   -> SnappyBatchManager(i.uncomp_chunk_size, n)
    [] i.format = "cascaded" -> CascadedBatchManager(i.chunk_size, 4, n)
    [] i.format = "gdeflate" -> GdeflateBatchManager(i.uncomp_chunk_size, i.algo, n)
    [] i.format = "ans"      -> ANSManager(i.uncomp_chunk_size, n)

\* create_manager: a manager from the two headers.
create_manager(i, n) ==
  CASE i.format = "lz4"      -> LZ4BatchManager(i.uncomp_chunk_size, i.type, n)
    [] i.format = "snappy"   -> SnappyBatchManager(i.uncomp_chunk_size, n)
    [] i.format = "cascaded" -> CascadedBatchManager(i.chunk_size, i.type, n)
    [] i.format = "gdeflate" -> GdeflateBatchManager(i.uncomp_chunk_size, i.algo, n)
    [] i.format = "ans"      -> ANSManager(i.uncomp_chunk_size, n)

\* Another device may read the result.
CreateManager ==
  /\ phase = "compressed" /\ reader = NoManager
  /\ \E n \in Ctas : reader' = create_manager(info, n)
  /\ UNCHANGED <<vars, mgr, info>>

\* Faulty variant: the reader forgets the header of the format.
ReadResultBare ==
  /\ phase = "compressed" /\ reader.made = "made"
  /\ phase' = "found"
  /\ found' = ReaderLayout(base + HeaderSize, header.num_chunks)
  /\ UNCHANGED <<format, config, base, layout, header, mgr, info, reader>>

\* configure_decompression and decompress of the reader.
ReadResult ==
  /\ phase = "compressed" /\ reader.made = "made" /\ DecompLaunches(reader)
  /\ phase' = "found"
  /\ found' = ReaderLayout(base + HeaderSize + SpecSize(reader.format),
                           header.num_chunks)
  /\ UNCHANGED <<format, config, base, layout, header, mgr, info, reader>>

FNext == \/ Construct \/ MakeConfig \/ WriteResult \/ WriteNothing
         \/ MoveResult \/ CreateManager \/ ReadResult

FSpec == FInit /\ [][FNext]_fvars

-----------------------------------------------------------------------------
(* Properties.                                                             *)

\* The part of a scratch buffer that block b of a compression (with ANS: one of
\* the chunks a block works on) has for a compressed chunk, and the part that
\* it has for its own tables: the offset and the length
\* (HlifCompressBatchKernel, lz4_compress_wrapper).
OutputPart(m, b) == [at |-> b * max_comp_chunk_size(m),
                     len |-> max_comp_chunk_size(m)]
TempPart(m, b) == [at |-> slots(m) * max_comp_chunk_size(m) + b * tmp_bytes(m),
                   len |-> tmp_bytes(m)]

\* The blocks of a compression do not share scratch memory and keep inside the
\* buffer whose size the client was told, whatever the format, the size of a
\* chunk and the device; those of LZ4 find their tables of 16-bit offsets
\* aligned, because the room for a compressed chunk is.
ScratchApart ==
  mgr.made = "made" =>
    LET parts == {OutputPart(mgr, b) : b \in 0 .. slots(mgr) - 1}
                 \cup {TempPart(mgr, b) : b \in 0 .. slots(mgr) - 1}
    IN  /\ \A p \in parts :
             /\ p.at + p.len <= compute_scratch_buffer_size(mgr)
             /\ \A q \in parts \ {p} :
                  p.len = 0 \/ q.len = 0 \/ p.at + p.len <= q.at
                            \/ q.at + q.len <= p.at
        /\ mgr.format = "lz4" =>
             \A b \in 0 .. slots(mgr) - 1 : TempPart(mgr, b).at % 2 = 0

\* A result tells all that its decompression needs: the build that wrote it
\* can make a manager from its headers, on whatever device, and this manager
\* has the format, the size of a chunk, the type of Cascaded and the algorithm
\* of GDeflate that the writer had.  (It also satisfies the assertion of
\* create_manager on the two sizes of a chunk.)
FactoryRebuilds ==
  reader # NoManager =>
    /\ reader.made = "made"
    /\ reader.format = mgr.format /\ reader.chunk = mgr.chunk
    /\ mgr.format = "cascaded" => reader.type = mgr.type
    /\ mgr.format = "gdeflate" => reader.algo = mgr.algo
    /\ mgr.format = "cascaded" => info.uncomp_chunk_size = info.chunk_size

\* Made and read by these managers, a result is one of ResultLayout: a reader
\* that takes the format, and with it the size of its header, from the result
\* finds what a reader that knows it would.
ImplementsLayout == Spec
=============================================================================
