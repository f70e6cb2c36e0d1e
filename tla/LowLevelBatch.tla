---------------------------- MODULE LowLevelBatch ----------------------------
(***************************************************************************)
(* The batched C interface (lowlevel/): a host asks for sizes, queues a    *)
(* compression, a query of the sizes and a decompression on one stream,    *)
(* and does not wait for any of them.  A launch has a block for each chunk *)
(* of the batch; the blocks of a launch run in any order, the launches of  *)
(* the stream one after the other.                                         *)
(*                                                                         *)
(* LZ4 and Cascaded blocks are the kernels of Lz4Codec and CascadedCodec,  *)
(* an LZ4 compression block turn by turn on its slice of the shared        *)
(* scratch memory.  A Snappy block is the contract that SnappySnap and     *)
(* SnappyUnsnap are checked for, with the stream of a chunk without        *)
(* repetitions; the codecs of Bitcomp and GDeflate are external libraries, *)
(* ANS is one that the build leaves out.                                   *)
(***************************************************************************)
EXTENDS Lz4Codec, CascadedCodec

CONSTANTS
    Jobs,             \* what the host may do: see TypeOK
    MaxHashTableSize, \* MAX_HASH_TABLE_SIZE
    MaxChunkSize,     \* lz4MaxChunkSize()
    ScratchBytes      \* bytes of the device's memory from the scratch buffer on

SF == INSTANCE SnappyFormat

VARIABLES
    job,        \* format, chunks and options of this run
    call,       \* the call that the host makes next
    code,       \* what its last call returned
    asked,      \* the sizes that the size functions returned
    lastError,  \* hipGetLastError() would report a failed launch
    stream,     \* launches not finished: the operation and its remaining blocks
    temp,       \* hash table entries in the memory from the scratch buffer on
    warp,       \* state of the warp of an LZ4 compression block
    comp, compBytes,         \* compressed buffers and their sizes
    sizes,                   \* answers of GetDecompressSizeAsync
    out, actual, statuses    \* answers of DecompressAsync

host   == << call, code, asked, lastError >>
device == << temp, warp, comp, compBytes, sizes, out, actual, statuses >>
vars   == << job, host, stream, device >>

Libraries == {"gdeflate", "bitcomp"}
Formats == {"lz4", "snappy", "cascaded", "ans"} \cup Libraries
Success == "hipcompSuccess"
InvalidValue == "hipcompErrorInvalidValue"
CannotDecompress == "hipcompErrorCannotDecompress"
NotSupported == "hipcompErrorNotSupported"
Statuses == {Success, InvalidValue, CannotDecompress}    \* of a chunk
Unwritten == -1
UINT_MAX == 2147483647     \* stands for the largest unsigned number

Chunks   == 1..Len(job.chunks)
Options  == [R |-> job.R, D |-> job.D, bp |-> job.bp, T |-> job.T]
Width    == IF job.format = "cascaded" THEN job.T ELSE 1
Size(i)  == Len(job.chunks[i]) * Width
room(i)  == Max({Size(i) + job.spare, 0})        \* device_uncompressed_bytes[i]

Job == [format : Formats, chunks : Seq(Seq(Nat)), T : {1, 2, 4, 8}, R : 0..7, D : 0..7,
        bp : BOOLEAN, max : Nat, algo : Nat, spare : Int, short : Nat, align : Nat, stale : Nat]

-----------------------------------------------------------------------------
(* The size functions, named after hipcompBatched<Format>CompressGet...:   *)
(* the number of bytes, or the error that an exception is turned into.     *)

Throws == -1
exception_to_error(bytes) ==
    [code |-> IF bytes = Throws THEN InvalidValue ELSE Success, bytes |-> bytes]
Answer(n) == [code |-> Success, bytes |-> n]
NoCodec   == [code |-> NotSupported, bytes |-> 0]     \* the build is without it

\* roundUpPow2, up to the largest table (1 << 14)
lz4GetHashTableSize(max) == Min({MaxHashTableSize} \cup {n \in {2^k : k \in 0..13} : n >= max})

OffsetBytes == 2                                \* sizeof(offset_type)
scratch_bytes_one(max, batch) == lz4GetHashTableSize(max) * OffsetBytes   \* faulty
scratch_bytes(max, batch) == lz4GetHashTableSize(max) * OffsetBytes * batch

\* What a caller sees to: no chunk is larger than it says the largest is, and
\* the scratch memory that it was told to reserve exists.
ASSUME JobsAssumption ==
    /\ MaxHashTableSize \in Nat \ {0} /\ MaxChunkSize \in Nat /\ ScratchBytes \in Nat
    /\ \A j \in Jobs :
          /\ j \in Job /\ j.max <= UINT_MAX
          /\ \A i \in DOMAIN j.chunks :
                /\ Len(j.chunks[i]) * (IF j.format = "cascaded" THEN j.T ELSE 1) <= j.max
                /\ j.format = "cascaded" =>
                      \A k \in DOMAIN j.chunks[i] : j.chunks[i][k] < Modulo(j.T)
          /\ j.format = "lz4" /\ j.max <= MaxChunkSize =>
                scratch_bytes(j.max, Len(j.chunks)) <= ScratchBytes

lz4BatchCompressComputeTempSize ==
    IF job.max > MaxChunkSize THEN Throws ELSE scratch_bytes(job.max, Len(job.chunks))
lz4ComputeMaxSize == IF job.max > MaxChunkSize THEN Throws ELSE maxSizeOfStream(job.max)
getGdeflateEnumFromFormatOpts == IF job.algo \in 0..2 THEN job.algo ELSE Throws

LZ4GetTempSize             == exception_to_error(lz4BatchCompressComputeTempSize)
LZ4GetMaxOutputChunkSize   == exception_to_error(lz4ComputeMaxSize)
SnappyGetTempSize          == Answer(0)
SnappyGetMaxOutputChunkSize   == Answer(32 + job.max + job.max \div 6)
CascadedGetTempSize        == Answer(0)
CascadedGetMaxOutputChunkSize == Answer(RoundUpTo(job.max, 4) + 8)
GdeflateGetTempSize        ==
    exception_to_error(IF getGdeflateEnumFromFormatOpts = Throws THEN Throws ELSE 0)
GdeflateGetMaxOutputChunkSize == Answer(job.max)
BitcompGetTempSize         == Answer(0)
BitcompGetMaxOutputChunkSize  == Answer(job.max)
ANSGetTempSize             == NoCodec
ANSGetMaxOutputChunkSize   == NoCodec

TempSize ==
    CASE job.format = "lz4"      -> LZ4GetTempSize
      [] job.format = "snappy"   -> SnappyGetTempSize
      [] job.format = "cascaded" -> CascadedGetTempSize
      [] job.format = "gdeflate" -> GdeflateGetTempSize
      [] job.format = "bitcomp"  -> BitcompGetTempSize
      [] job.format = "ans"      -> ANSGetTempSize
MaxOutputChunkSize ==
    CASE job.format = "lz4"      -> LZ4GetMaxOutputChunkSize
      [] job.format = "snappy"   -> SnappyGetMaxOutputChunkSize
      [] job.format = "cascaded" -> CascadedGetMaxOutputChunkSize
      [] job.format = "gdeflate" -> GdeflateGetMaxOutputChunkSize
      [] job.format = "bitcomp"  -> BitcompGetMaxOutputChunkSize
      [] job.format = "ans"      -> ANSGetMaxOutputChunkSize


\* hipcompBatched<Format>DecompressGetTempSize.  Only LZ4 asks for memory (the
\* 24 bytes of a chunk_header for each chunk), and does not use it either.
lz4DecompressComputeTempSize  == RoundUpTo(24 * Len(job.chunks), 8)
LZ4DecompressGetTempSize      == exception_to_error(lz4DecompressComputeTempSize)
SnappyDecompressGetTempSize   == exception_to_error(0)
CascadedDecompressGetTempSize == Answer(0)
GdeflateDecompressGetTempSize == exception_to_error(0)
BitcompDecompressGetTempSize  == Answer(0)
ANSDecompressGetTempSize      == NoCodec

DecompTempSize ==
    CASE job.format = "lz4"      -> LZ4DecompressGetTempSize
      [] job.format = "snappy"   -> SnappyDecompressGetTempSize
      [] job.format = "cascaded" -> CascadedDecompressGetTempSize
      [] job.format = "gdeflate" -> GdeflateDecompressGetTempSize
      [] job.format = "bitcomp"  -> BitcompDecompressGetTempSize
      [] job.format = "ans"      -> ANSDecompressGetTempSize

-----------------------------------------------------------------------------
HT_size      == lz4GetHashTableSize(job.max)
Slice(i, n)  == (i - 1) * n .. i * n - 1      \* temp_space + bidx * hash_table_size
NoWarp       == [at |-> Unwritten]

\* The buffers are the caller's and hold what an earlier use left there: the
\* fourth byte of one tells a type that is in the way of a cascaded kernel.
\* A caller who finds a codec missing may have begun with any function.
Init ==
    /\ job \in Jobs
    /\ call \in IF job.format = "ans" THEN {"sizes", "compress", "query", "decompress"}
                ELSE {"sizes"}
    /\ code = Success /\ lastError = FALSE /\ stream = << >>
    /\ asked = [temp |-> 0, max |-> 0, decomp |-> 0]
    /\ \E left \in IF job.format = "lz4" THEN {NULL_OFFSET, 0} ELSE {0} :
          temp = [a \in 0..ScratchBytes \div OffsetBytes |-> left]
    /\ warp = [i \in Chunks |-> NoWarp]
    /\ comp = [i \in Chunks |-> << >>]
    /\ compBytes = [i \in Chunks |-> Unwritten] /\ sizes = compBytes
    /\ out = comp /\ actual = compBytes
    /\ statuses = [i \in Chunks |-> "unwritten"]

\* A call that fails ends the run; the host checks every code.
Return(result, next) ==
    /\ code' = result
    /\ call' = IF result = Success THEN next ELSE "stopped"
Refuse(result) == Return(result, "stopped") /\ UNCHANGED << stream, lastError >>

\* Queue launches over the batch.  A grid without blocks is a failed launch,
\* which the next check_last_error reports and clears.
Launch(ops, next) ==
    /\ Return(Success, next)
    /\ IF Chunks = {}
       THEN lastError' = TRUE /\ UNCHANGED stream
       ELSE /\ stream' = stream \o [k \in DOMAIN ops |-> [op |-> ops[k], blocks |-> Chunks]]
            /\ UNCHANGED lastError

\* check_last_error
Checked == Return(InvalidValue, "stopped") /\ lastError' = FALSE /\ UNCHANGED stream

\* The launches, then check_last_error.
CheckedLaunch(ops, next) == IF Chunks = {} \/ lastError THEN Checked ELSE Launch(ops, next)

HostSizes ==
    /\ call = "sizes"
    /\ IF {TempSize.code, MaxOutputChunkSize.code, DecompTempSize.code} = {Success}
       THEN /\ Return(Success, "compress")
            /\ asked' = [temp |-> TempSize.bytes, max |-> MaxOutputChunkSize.bytes,
                         decomp |-> DecompTempSize.bytes]
            /\ comp' = IF job.format # "cascaded" THEN comp
                       ELSE [i \in Chunks |->
                               [a \in 1..MaxOutputChunkSize.bytes |->
                                  IF a = 4 THEN << job.stale, 0, 1 >> ELSE Unread]]
       ELSE /\ \E failed \in {TempSize.code, MaxOutputChunkSize.code, DecompTempSize.code} \ {Success} :
                  Return(failed, "stopped")
            /\ UNCHANGED << asked, comp >>
    /\ UNCHANGED << job, lastError, stream, temp, warp, compBytes, sizes, out, actual, statuses >>

\* The functions hipcompBatched<Format>CompressAsync.  LZ4 refuses a type of
\* eight bytes and a scratch buffer smaller than its tables.  Snappy launches
\* nothing for an empty batch; Cascaded does not look at the outcome of its
\* launch.  The libraries' launches are taken to succeed.
LZ4CompressAsync ==
    IF job.T = 8 \/ asked.temp - job.short < scratch_bytes(job.max, Len(job.chunks))
    THEN Refuse(InvalidValue) ELSE CheckedLaunch(<< "compress" >>, "query")
SnappyCompressAsync ==
    IF Chunks # {} THEN CheckedLaunch(<< "compress" >>, "query")
    ELSE IF lastError THEN Checked
    ELSE Return(Success, "query") /\ UNCHANGED << stream, lastError >>
CascadedCompressAsync == Launch(<< "compress" >>, "query")
GdeflateCompressAsync ==
    IF getGdeflateEnumFromFormatOpts = Throws THEN Refuse(InvalidValue)
    ELSE Launch(<< "compress" >>, "query")
BitcompCompressAsync == Launch(<< "compress" >>, "query")
ANSCompressAsync     == Refuse(NotSupported)

HostCompress ==
    /\ call = "compress"
    /\ CASE job.format = "lz4"      -> LZ4CompressAsync
         [] job.format = "snappy"   -> SnappyCompressAsync
         [] job.format = "cascaded" -> CascadedCompressAsync
         [] job.format = "gdeflate" -> GdeflateCompressAsync
         [] job.format = "bitcomp"  -> BitcompCompressAsync
         [] job.format = "ans"      -> ANSCompressAsync
    /\ UNCHANGED << job, asked, device >>

\* hipcompBatched<Format>GetDecompressSizeAsync
LZ4GetDecompressSizeAsync      == CheckedLaunch(<< "query" >>, "decompress")
SnappyGetDecompressSizeAsync   == CheckedLaunch(<< "query" >>, "decompress")
CascadedGetDecompressSizeAsync == CheckedLaunch(<< "query" >>, "decompress")
GdeflateGetDecompressSizeAsync == Launch(<< "query" >>, "decompress")
BitcompGetDecompressSizeAsync  == Launch(<< "query" >>, "decompress")
ANSGetDecompressSizeAsync      == Refuse(NotSupported)

HostQuery ==
    /\ call = "query"
    /\ CASE job.format = "lz4"      -> LZ4GetDecompressSizeAsync
         [] job.format = "snappy"   -> SnappyGetDecompressSizeAsync
         [] job.format = "cascaded" -> CascadedGetDecompressSizeAsync
         [] job.format = "gdeflate" -> GdeflateGetDecompressSizeAsync
         [] job.format = "bitcomp"  -> BitcompGetDecompressSizeAsync
         [] job.format = "ans"      -> ANSGetDecompressSizeAsync
    /\ UNCHANGED << job, asked, device >>

\* hipcompBatched<Format>DecompressAsync.  Cascaded launches a kernel for each
\* width of a type.  The wrappers of GDeflate and Bitcomp launch one more that
\* translates the library's statuses; Bitcomp waits for the stream first, and
\* asks for the sizes in a launch of its own.
LZ4DecompressAsync      == CheckedLaunch(<< "decompress" >>, "done")
SnappyDecompressAsync   == CheckedLaunch(<< "decompress" >>, "done")
CascadedNarrow          == CheckedLaunch(<< "typed1", "typed2" >>, "done")    \* faulty
CascadedDecompressAsync == CheckedLaunch(<< "typed1", "typed2", "typed4", "typed8" >>, "done")
GdeflateDecompressAsync == Launch(<< "decompress", "convert" >>, "done")
BitcompDecompressAsync  == stream = << >> /\ Launch(<< "decompress", "actual", "convert" >>, "done")
ANSDecompressAsync      == Refuse(NotSupported)

HostDecompress ==
    /\ call = "decompress"
    /\ CASE job.format = "lz4"      -> LZ4DecompressAsync
         [] job.format = "snappy"   -> SnappyDecompressAsync
         [] job.format = "cascaded" -> CascadedDecompressAsync
         [] job.format = "gdeflate" -> GdeflateDecompressAsync
         [] job.format = "bitcomp"  -> BitcompDecompressAsync
         [] job.format = "ans"      -> ANSDecompressAsync
    /\ UNCHANGED << job, asked, device >>

-----------------------------------------------------------------------------
(* The blocks of the launch at the head of the stream. *)

Running(op, i) == stream # << >> /\ Head(stream).op = op /\ i \in Head(stream).blocks

Finish(i) ==
    stream' = IF Head(stream).blocks = {i} THEN Tail(stream)
              ELSE [stream EXCEPT ![1].blocks = @ \ {i}]

Compressed(i, bytes, size) ==
    /\ comp' = [comp EXCEPT ![i] = bytes] /\ compBytes' = [compBytes EXCEPT ![i] = size]
    /\ UNCHANGED << job, host, sizes, out, actual, statuses >>

\* compressStream: the table is emptied, then turn after turn; each reads and
\* writes the table in scratch memory.
Lz4Reset(i) ==
    /\ Running("compress", i) /\ job.format = "lz4" /\ warp[i] = NoWarp
    /\ \E n \in {HT_size} : temp' = [a \in DOMAIN temp |->
          IF a \in Slice(i, n) THEN NULL_OFFSET ELSE temp[a]]
    /\ warp' = [warp EXCEPT ![i] = [at |-> 0, tokenStart |-> 0, out |-> << >>]]
    /\ UNCHANGED << job, host, stream, comp, compBytes, sizes, out, actual, statuses >>

Lz4Turn(i) ==
    /\ Running("compress", i) /\ warp[i] # NoWarp
    /\ warp[i].at < RoundUpDiv(Size(i), job.T)
    /\ \E n \in {HT_size}, data \in {job.chunks[i]} :
       \E before \in {[at |-> warp[i].at, tokenStart |-> warp[i].tokenStart, out |-> warp[i].out,
                       table |-> [h \in 0..n-1 |-> temp[(i - 1) * n + h]]]} :
       \E s \in {compressTurn(data, job.T, before)} :
        /\ temp' = [a \in DOMAIN temp |->
              IF a \in Slice(i, n) THEN s.table[a - (i - 1) * n] ELSE temp[a]]
        /\ warp' = [warp EXCEPT ![i] = [at |-> s.at, tokenStart |-> s.tokenStart, out |-> s.out]]
    /\ UNCHANGED << job, host, stream, comp, compBytes, sizes, out, actual, statuses >>

Lz4Written(i) ==
    /\ Running("compress", i) /\ warp[i] # NoWarp
    /\ warp[i].at >= RoundUpDiv(Size(i), job.T)
    /\ Compressed(i, warp[i].out, Len(warp[i].out))
    /\ warp' = [warp EXCEPT ![i] = NoWarp]
    /\ Finish(i) /\ UNCHANGED temp

\* The stream of a chunk in which no four bytes occur twice.
snap(data) == SF!SizeBytes[Len(data)]
              \o IF data = << >> THEN << >> ELSE SF!LiteralHeader(Len(data) - 1) \o data

\* snap_kernel, without a table of statuses and with all the room it needs.
SnapBlock(i) ==
    /\ Running("compress", i) /\ job.format = "snappy"
    /\ \E s \in {snap(job.chunks[i])} : Compressed(i, s, Len(s))
    /\ Finish(i) /\ UNCHANGED << temp, warp >>

CascadedCompressBlock(i) ==
    /\ Running("compress", i) /\ job.format = "cascaded"
    /\ \E p \in {compress_partition(comp[i], job.chunks[i], Size(i), Options)} :
          Compressed(i, p.mem, p.bytes)
    /\ Finish(i) /\ UNCHANGED << temp, warp >>

LibraryCompressBlock(i) ==
    /\ Running("compress", i) /\ job.format \in Libraries
    /\ Compressed(i, job.chunks[i], Size(i))
    /\ Finish(i) /\ UNCHANGED << temp, warp >>

\* The size that a snappy stream tells; none if there is no stream.
snappy_size(bytes) == IF bytes = << >> THEN 0 ELSE Max({SF!ReadSize(bytes), 0})

QueryBlock(i) ==
    /\ Running("query", i)
    /\ \E c \in {comp[i]} : sizes' = [sizes EXCEPT ![i] =
          CASE job.format = "lz4"      -> decompressStream(c, job.align, UINT_MAX, FALSE).size
            [] job.format = "snappy"   -> snappy_size(c)
            [] job.format = "cascaded" -> decompress_size(c, compBytes[i])
            [] job.format \in Libraries -> compBytes[i]]
    /\ Finish(i)
    /\ UNCHANGED << job, host, temp, warp, comp, compBytes, out, actual, statuses >>

Answered(i, a) ==
    /\ out' = [out EXCEPT ![i] = a.out] /\ actual' = [actual EXCEPT ![i] = a.size]
    /\ statuses' = [statuses EXCEPT ![i] = a.status]
    /\ Finish(i) /\ UNCHANGED << job, host, temp, warp, comp, compBytes, sizes >>

Lz4DecompressBlock(i) ==
    /\ Running("decompress", i) /\ job.format = "lz4"
    /\ \E a \in {decompressStream(comp[i], job.align, room(i), TRUE)} : Answered(i, a)

\* A size that the output has no room for is an error, but a room of 0 is none.
unsnap(bytes, dstSize) ==
    LET uncompressed_size == SF!ReadSize(bytes)
        limit == IF dstSize = 0 THEN uncompressed_size ELSE dstSize
    IN IF uncompressed_size = SF!SizeError \/ uncompressed_size > limit
       THEN [out |-> << >>, size |-> 0, status |-> CannotDecompress]
       ELSE [out |-> SubSeq(bytes, Len(bytes) - uncompressed_size + 1, Len(bytes)),
             size |-> uncompressed_size, status |-> Success]

UnsnapBlock(i) ==
    /\ Running("decompress", i) /\ job.format = "snappy"
    /\ \E a \in {unsnap(comp[i], room(i))} : Answered(i, a)

\* A library decodes what fits and reports the rest in a code of its own.
\* Bitcomp leaves the size to another launch.
LibraryCodes == {"invalid parameter", "invalid data"}
LibraryDecompressBlock(i) ==
    /\ Running("decompress", i) /\ job.format \in Libraries
    /\ \E a \in IF Len(comp[i]) > room(i)
                 THEN {[out |-> << >>, size |-> 0, status |-> e] : e \in LibraryCodes}
                 ELSE {[out |-> comp[i], size |-> Len(comp[i]), status |-> "library success"]} :
          Answered(i, IF job.format = "bitcomp" THEN [a EXCEPT !.size = actual[i]] ELSE a)

ActualBlock(i) ==
    /\ Running("actual", i)
    /\ Answered(i, [out |-> out[i], size |-> compBytes[i], status |-> statuses[i]])

\* cascaded_decompression_kernel_type_check: each of the four kernels looks at
\* the type of the first buffer and leaves all chunks to the kernel of that type.
typed(T) == CASE T = 1 -> "typed1" [] T = 2 -> "typed2" [] T = 4 -> "typed4" [] T = 8 -> "typed8"
TypedBlock(T, i) ==
    /\ Running(typed(T), i)
    /\ \E a \in {IF Fetch(comp[1], 3, 1) = T
                 THEN decompress_partition(comp[i], compBytes[i], room(i), T)
                 ELSE [out |-> out[i], size |-> actual[i], status |-> statuses[i]]} : Answered(i, a)

convertGdeflateOutputStatuses(ier) ==
    IF ier = "library success" THEN Success ELSE CannotDecompress
convertOutputStatuses(ier) ==
    CASE ier = "library success"   -> Success
      [] ier = "invalid parameter" -> InvalidValue
      [] ier = "invalid data"      -> CannotDecompress

ConvertBlock(i) ==
    /\ Running("convert", i)
    /\ Answered(i, [out |-> out[i], size |-> actual[i],
                    status |-> IF job.format = "gdeflate"
                               THEN convertGdeflateOutputStatuses(statuses[i])
                               ELSE convertOutputStatuses(statuses[i])])

Block(i) ==
    \/ Lz4Reset(i) \/ Lz4Turn(i) \/ Lz4Written(i)
    \/ SnapBlock(i) \/ CascadedCompressBlock(i) \/ LibraryCompressBlock(i)
    \/ QueryBlock(i)
    \/ Lz4DecompressBlock(i) \/ UnsnapBlock(i) \/ LibraryDecompressBlock(i)
    \/ \E T \in {1, 2, 4, 8} : TypedBlock(T, i)
    \/ ActualBlock(i) \/ ConvertBlock(i)

Host == HostSizes \/ HostCompress \/ HostQuery \/ HostDecompress

\* Nothing is left to do.
AtRest == call \in {"done", "stopped"} /\ stream = << >>
Rest   == AtRest /\ UNCHANGED vars

Next == Host \/ (\E i \in Chunks : Block(i)) \/ Rest

Spec == Init /\ [][Next]_vars

-----------------------------------------------------------------------------
(* Properties. *)

TypeOK ==
    /\ job \in Job
    /\ call \in {"sizes", "compress", "query", "decompress", "done", "stopped"}
    /\ code \in {Success, InvalidValue, NotSupported} /\ lastError \in BOOLEAN
    /\ \A k \in DOMAIN stream : stream[k].blocks \in (SUBSET Chunks) \ {{}}
    /\ \A a \in DOMAIN temp : temp[a] \in 0..MAX_OFFSET

\* The buffer that tells all kernels the type of a Cascaded batch was written.
Typed == job.format = "cascaded" => Chunks # {} /\ Size(1) > 0

\* A decompressed chunk is the chunk that was compressed; without room for it
\* the chunk is refused and what was written stays within its buffer.  This
\* relates what the compression and the decompression kernels of LZ4 and
\* Cascaded do on either side of the interface.  Snappy takes a room of 0 for
\* none; Cascaded refuses the chunk that it wrote nothing for; Bitcomp tells
\* the size of the chunk all the same.
RoundTrip ==
    Typed => \A i \in Chunks : statuses[i] \in Statuses =>
        \/ statuses[i] = Success /\ out[i] = job.chunks[i] /\ actual[i] = Size(i)
           /\ (room(i) < Size(i) => job.format = "snappy" /\ room(i) = 0)
        \/ statuses[i] # Success /\ Len(out[i]) * Width <= room(i)
           /\ actual[i] = (IF job.format = "bitcomp" THEN Size(i) ELSE 0)
           /\ (room(i) < Size(i) \/ (job.format = "cascaded" /\ Size(i) = 0))

\* No compressed chunk is larger than GetMaxOutputChunkSize answered for the
\* largest chunk, which is what a caller allocates.
OutputBound == \A i \in Chunks : compBytes[i] # Unwritten => compBytes[i] <= asked.max

\* The sizes that a query finds in the compressed chunks are those of the
\* chunks: a caller allocates them for the decompression.
SizesAgree == \A i \in Chunks : sizes[i] # Unwritten => sizes[i] = Size(i)

\* Blocks that compress at the same time keep to tables of their own, inside of
\* the scratch buffer: the memory behind it is never written.
TempApart ==
    /\ \A a \in DOMAIN temp :
          a * OffsetBytes >= asked.temp - job.short => temp[a] = temp[ScratchBytes \div OffsetBytes]
    /\ \A i, j \in Chunks : warp[i] # NoWarp /\ warp[j] # NoWarp /\ i # j =>
          Slice(i, HT_size) \cap Slice(j, HT_size) = {}

\* When the stream is idle behind calls that all returned success, every chunk
\* has its size and its status.
EveryChunkAnswered ==
    AtRest /\ call = "done" =>
        \A i \in Chunks : /\ sizes[i] # Unwritten /\ actual[i] # Unwritten
                         /\ statuses[i] \in Statuses

\* The same but for a Cascaded batch whose first chunk is empty.
TypedChunksAnswered == Typed => EveryChunkAnswered
=============================================================================
