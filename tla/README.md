# Verification of hipCOMP-core

TLA+ models of the core of hipCOMP-core, TLC runs that check them on small
instances, and TLAPS proofs of their main properties for all instances.
Paths are relative to the repository; `src/...` is the library's own source.

## 1. The system

hipCOMP compresses buffers on a GPU. Two interfaces lead to the same device
code:

* the **low-level batch interface** (`include/hipcomp/*.h`, `src/lowlevel`):
  one kernel launch compresses or decompresses many independent chunks, each
  with buffers of its own;
* the **high-level interface** (HLIF; `include/hipcomp/hipcompManager.hpp`,
  `src/highlevel`, `src/hipcomp_common_deps`): a manager cuts one buffer into
  chunks, lets a persistent kernel compress them in any order, and puts the
  results without gaps into one buffer behind a header from which the
  decompressor finds the chunks again.

### Components

| component | state | operations | interacts through | what makes it correct |
|---|---|---|---|---|
| HLIF compression kernel (`hlif_shared.cuh`, `HlifCompressBatch`) | per group: shared chunk index, scratch slot, status word; global: two atomic counters, header arrays, result | claim a chunk, compress, reserve, copy, report | atomics on the manager's chunk counter and on the header's size word; barriers of the group | every chunk claimed once; extents tile the result; the header leads to every chunk's data |
| HLIF decompression kernel (`HlifDecompressBatch`) | chunk index, status | claim, decompress, report | the same chunk counter | every chunk claimed once; an error reaches the host |
| managers and configs (`ManagerBase.hpp`, `BatchManager.hpp`, `CompressionConfigs.cpp`, `PinnedPtrs.hpp`) | scratch buffer and its owner, counters on the device, pool of pinned status words | configure, compress, decompress, set scratch buffer, copy and drop configs | queue operations on one stream; the status word is written by the device and read by the host | words not shared, not stale; counters zeroed; scratch freed by its owner |
| result layout (`BatchManager.hpp`, `common.h`) | the header and five sections of the result | size promise, write, read, copy elsewhere | the bytes of the result | writer and reader agree; sections aligned and apart; the promised size suffices |
| Snappy decompressor (`src/snappy/decompression*.cuh`) | ring of prefetched bytes, queue of symbol batches, positions | prefetch, decode, process | three warps that spin on words of shared memory | right output; ring bytes not overwritten before use; no cycle of waiting |
| warp scans (`decompression_decode_warp_scans.cuh`, `device_functions.cuh`, `symbol.cuh`) | registers of the lanes | vote on lengths, follow them through masks, sum up sizes | votes and shuffles of a warp | the symbols that a reader one by one finds |
| Snappy compressor (`src/snappy/compression.cuh`) | literal and copy lengths, hash map, output position | find a match, store literals and copies | two warps, one symbol apart, with two barriers a round | round trip; output bound |
| LZ4 kernels (`LZ4Kernels.cuh`) | hash table, token positions | find a match, write and read tokens | one warp, lane-level primitives | round trip; output bound |
| cascaded kernels (`CascadedKernels.cuh`) and the primitives `RunLengthEncodeGPU.cu`, `DeltaGPU.cu`, `BitPackGPU.cu` | arrays in shared memory | run-length, delta, bit-packing layers | barriers of one block | round trip of each layer; fallback for incompressible data |
| manager factory (`hipcompManagerFactory.cpp`) | none | manager from a buffer's header | the header | the chunk size and options of the writer |
| scratch broker (`TempSpaceBroker.cpp`) | next free address | reserve aligned space | - | reservations apart, aligned and inside |
| low-level batch interface (`src/lowlevel`) | the runtime's last error | tell sizes, check arguments, launch | one stream, scratch and output buffers of the caller | chunks come back; sizes told suffice; every chunk is answered |
| external codecs (ANS, Gdeflate, Bitcomp) | - | calls into closed libraries | statuses translated by a kernel of the wrapper | not in this repository |

### What is hard about it

* **Concurrency inside a kernel.** Warps of a group share words of shared
  memory with barriers in some places and none in others; groups meet only in
  atomics. Tests run on one device with one timing.
* **Spinning instead of barriers.** The Snappy decompressor's warps hand data
  over through volatile words; the order of single stores matters.
* **Host and device.** Everything is queued; the host runs ahead, frees,
  reuses and reads memory the device uses.
* **Two copies of one computation.** Sizes, sections and chunk boundaries are
  computed separately by host and device, writer and reader.

* **One data path in many pieces.** What the compressor writes in one file, the
  decompressor reads in another: layers undone in order, positions in elements
  and in bytes, votes of lanes over a ring with old bytes in it.
* **Limits far from test data.** Windows of 64 KB, headers with length bytes,
  runs that span tiles, partitions that are empty.

`PROJECT.json` lists the places under "hazards", each with the property that
would notice it going wrong.

## 2. The modules

State machines:

| module | models | state and actions |
|---|---|---|
| `GaplessBatch` | what a batch compression promises | extents of the chunks, the tail of the result, the set of stored chunks; `Place`, `Store` |
| `HlifCompress` | `HlifCompressBatch` and `copyScratchBuffer` | one program counter per warp; one action per piece of the loop body between two points where another warp can be seen; barriers are `Sync` |
| `HlifDecompress` | `HlifDecompressBatch` | as `HlifCompress`; every read of the shared index is an action of its own, and `Teams` says which warps `decompress_chunk` keeps together |
| `SnappyUnsnap` | the decompression pipeline | variables are the fields of `unsnap_queue_s` and the locals of the three warps; one action per access to a word another warp writes |
| `SnappySnap` | the Snappy compressor | the two warps of a block with their locals, the shared words between them, the hash table and the bytes written; one action per warp and phase between barriers, `Search` being one look of all lanes |
| `HlifManager` | a manager, its configs and the stream | the pool, the configs' reference counts and words, scratch buffer and heap, the queued operations; client actions are the public calls, device actions run the head of the stream |
| `ResultLayout` | sizes and sections of a result | one result from `Configure` through `Compress` and `Move` to `Decompress`; the layouts are pure operators |
| `ManagerFactory` | the managers of the formats, `create_manager` | extends `ResultLayout` with the managers that write and read a result and with the headers from which the reader is made; `Construct`, `WriteResult`, `WriteNothing`, `CreateManager`, `ReadResult` |
| `LowLevelBatch` | the C interface of `lowlevel/` and its kernels' blocks | the host's next call, the launches on the stream with their remaining blocks, the scratch memory and what the calls answer; one action per call (`HostSizes`, `HostCompress`, `HostQuery`, `HostDecompress`) and per kind of block |

Pure algorithms, which the state machines above execute:

| module | models | |
|---|---|---|
| `Common` | `roundUpDiv`, `roundUpTo` | |
| `Lz4Codec` | `LZ4Kernels.cuh` | `compressTurn` and `decompressTurn` are one turn of the kernels' loops with all lanes; below them the hash table, the ballots, the tokens and length bytes, the buffer through which the decompressor reads |
| `CascadedCodec` | `CascadedKernels.cuh` | run-length, delta and bit-packing layers of a block, chunks and their metadata, partitions, the fallback to plain data |
| `GridPrimitives` | `RunLengthEncodeGPU.cu`, `DeltaGPU.cu`, `BitPackGPU.cu`, `unpack.h`, `TempSpaceBroker.cpp` | the same layers by a grid of blocks: each kernel is a function of what the ones before it left in the scratch space, which the broker hands out |
| `SnappyFormat` | the bytes of a Snappy stream | how the compressor writes the size, a literal's header and a copy, and how the decompressor reads them |
| `SnappyScan` | the strategies of the decoding warp | votes, masks, the look-up table, prefix sums of lanes, and the batches that come out |

The modules `..._proofs` hold the theorems, one for each of `HlifCompress`,
`HlifDecompress`, `HlifManager`, `ManagerFactory` (with `ResultLayout`, which it
extends), `SnappyUnsnap`, `SnappySnap`, `SnappyFormat` and `LowLevelBatch` (with
the codecs). `SnappyFormat_proofs` also has the induction on numbers and the
lemma on repetitions that the modules about Snappy and the codecs use.
The modules `MC...` and their configurations are the small instances.

Each component's module holds a few *faulty variants* of its actions or
operators, marked as such and used by no specification: they are the bugs that
the properties are meant to notice.

### How they fit together

`HlifManager` treats a kernel as one step and shows that the counters are zero
when it starts (`KernelReady`); `HlifCompress` starts from zeroed counters and
opens that step up. `HlifDecompress` opens up
the decompression kernel, which shares the way of claiming chunks, and treats
`decompress_chunk` as one step; `SnappyUnsnap` is what happens inside that step
for Snappy, and `Lz4Codec` and `CascadedCodec` for the other formats.
`SnappyFormat` is shared by the writer (`SnappySnap`) and by what its
property `RoundTrip` reads the stream with: `ReadSize` and `ReadSymbol` are the
decompressor's own decoding. `ScansAgree` gives every stream that the
compressor finishes to `SnappyScan`: what `SnappyUnsnap` takes a decoding step
to deliver is what the lanes compute.
`ResultLayout` takes from `HlifCompress` that the total of
the compressed sizes is what the size word of the header ends up with
(`Gapless`), and adds where the sections lie; `ManagerFactory` adds who writes
and reads them, and implements `ResultLayout` (`ImplementsLayout`).
`GaplessBatch` is what the rest of the library may assume of the compression
kernel. `LowLevelBatch` runs the LZ4 and Cascaded kernels block by block behind
the C interface, with Snappy's blocks reduced to what `SnappySnap` and
`SnappyUnsnap` show; `GridPrimitives` is compared with the layers of
`CascadedCodec` on the same data (`LayersAgree`).

### Abstractions

* `HlifCompress`: a warp is the unit that runs (lanes of a warp run in step).
  The result is counted in cells, one stride of the copy loop of one warp. The
  compressed size of a chunk is any number from 1 to the maximum. Memory is
  sequentially consistent: the shared index is `volatile`, the rest is
  separated by barriers. `compress_chunk` is one step of the group because all
  wrappers have barriers inside. Header memory before it is written and the
  status word are arbitrary (`SharedStatus` bounds the latter).
* `HlifDecompress`: a chunk is its number; the data, the place and the size
  passed to `decompress_chunk` are three numbers, which agree or not. Which
  chunks cannot be decompressed is chosen at the start. Warp w writes part w
  of the output. An exited warp does not hold up a barrier. `Barriers` and
  `StatusWritten` tell the formats apart: whether `decompress_chunk` has a
  barrier inside and whether it sets the wrapper's status. `Asserts` tells the
  builds apart: with assertions, a warp stops (`trap`) at the one behind the
  loop if its group has others. `hlif_decompress` is a build without, which is
  every build but Debug (`CMakeLists.txt:176`); see the end of section 4.
* `SnappyUnsnap`: a byte of the stream is its position, so that the ring tells
  which byte it holds and the output tells where each of its bytes came from.
  The parallel strategies are modelled by which symbols they may take.
  Streams are well formed (`WellFormed`) and the output
  has room. Each store to a word that another warp reads is a step, so that
  `PrRelease` may come before `DecRdpos`; the words that no launch sets have any
  value in `StaleRdpos`. Three variables are history, read by no action:
  `unset` (slots whose position was never stored), `overtaken` (the last release
  came before the store) and `misled` (some release took an unset word that is
  ahead of the decoder). Once misled, what a symbol decoded from wrong bytes
  says is reduced to one arbitrary value, so from there on only what does not
  depend on it is claimed (`BatchStays`), and that the output is then wrong
  (`unsnap_stale`).
* `SnappyScan`: a mask is the set of its bits. The whole stream has been
  prefetched; behind it the ring holds one stale byte, of a literal or of a
  copy. The look-up table `k_len3lut` is given by what its entries mean, not by
  its 1024 numbers. Which strategy runs next is the code's own choice.
* `SnappySnap`: a warp's lanes run in step, so that what a warp does between
  two barriers, or in one turn of the search loop, is one step. Bytes are
  numbers; a byte that was skipped for want of room is `Unwritten`. The hash
  function is a parameter. What a warp writes between the barriers the other
  one does not read, so larger steps lose no behaviour. The shift by the whole
  width of the mask (`compression.cuh:251`, undefined in C++) has either of the
  outcomes that hardware gives it.
* `Lz4Codec`: the boundaries of the format are parameters (nibble, length byte,
  byte of an offset, width of a word), so that streams of a few dozen bytes
  reach all of them; the least match of 4 bytes and the rules for the end of a
  block (5 and 12 bytes) are the code's. A byte that the kernel should not have
  read is `Garbage`.
* `CascadedCodec`, `GridPrimitives`: sizes and alignments count real bytes, but
  a byte holds fewer bits, so that all values of a type occur; memory is a
  sequence of cells that know which value they are a byte of. The grid's
  packing orders elements as signed or as unsigned by their type, while the
  block's always takes them as signed: frames and widths are compared for signed
  types only, and that every element is got back is checked for both. The
  scratch space that hipcub asks for in a scan is a parameter
  (`requiredSpace`); if it exceeds what the code says there is, the primitive
  throws. Values of no known type, for which the type switches throw, do not
  occur, in `CascadedCompressAsync` neither. Neither module says
  anything of a delta layer over no elements, for which the code's loop runs
  on through memory (hazard at `CascadedKernels.cuh:306`).
* `LowLevelBatch`: blocks of a launch run in any order, launches one after the
  other. An LZ4 compression block takes a step for each turn, since it shares
  the scratch buffer with the others; any other block is one step. Buffers
  hold what an earlier use left in them. The launches of libraries succeed.
* `HlifManager`: the client is one thread, keeps a config until its operations
  have ended, and drops all configs before the manager. `hipFree` and copies
  to pageable memory wait for the device (runtime, modelled as external).
  HIP calls succeed.
* `ResultLayout`, `ManagerFactory`: buffers begin at a multiple of eight bytes,
  since the header has words in it. The compressed data is reduced to its total
  size. A device holds some number of blocks, of whatever kernel. What the ANS
  library tells of itself is given by two constants (`AnsChunksPerCTA`,
  `AnsChunkTmpSize`).

## 3. The runs

| run | instance | shows |
|---|---|---|
| `hlif_compress` | 2 groups of one warp, 4 chunks of 1 or 2 cells | the kernel is right for launches whose groups are single warps (LZ4) and implements `GaplessBatch` |
| `hlif_race` | 1 group of two warps, 2 chunks | **violation**: finding 1 |
| `hlif_decompress` | 2 groups of two warps, 3 chunks, any one or the first two of them corrupt | the loop is right for decompressors with barriers inside (Snappy): no two chunks mixed, errors reach the host, no group stuck |
| `unsnap` | 4 streams, ring of 16 bytes, 2 slots of 3 symbols | the pipeline, releases before the store of the position included: right output, intact ring, one way to stop short |
| `unsnap_stale` | the same, unset words hold a position ahead of the streams | **violation**: finding 2 |
| `snap` | warps of 3 lanes; literals up to 8, copies up to 7 bytes; a window of 8 positions, 5 of them in reach; 4 buckets; buffers of 8 bytes or as calculated | the compressor's streams expand to its inputs, are hardly longer, are reported whole only if they are, and are decoded by lanes as by one; the block ends |
| `manager` | 3 configs, 2 buffers, 1 user scratch buffer, 5 queued operations | the client's calls in any order against a late device |
| `layout` | 0 to 12 bytes in chunks of 4, three addresses, all formats and options, devices of 1 and 3 blocks | layout, chunk boundaries, the bound on the excess, scratch memory, and the reader that the factory makes |
| `batch` | some 900 batches of up to two chunks in all formats | the C interface and the LZ4 and Cascaded kernels behind it; the primitives of the grid |
| `lz4_wide` | elements of two bytes, a chunk longer than the window | **violation**: finding 3 |
| `cascaded_layers` | one run-length and two delta layers | **violation**: finding 4 |
| `cascaded_empty` | a batch whose first partition is empty | **violation**: finding 5 |

Why the bounds are enough to be interesting:

* `hlif_*`: more chunks than groups, so that chunks are claimed both by number
  and from the counter; two sizes, so that slots are partly filled; in
  `hlif_decompress` a warp can lag behind thread 0 at every barrier and leaves the
  loop by its own read of the index. The compression loop has the same form;
  that the warps of its groups meet at every barrier is `PhaseInv`, proved for
  any number of warps.
* `unsnap`: 14 symbols fill more than all slots, so batches wrap around; one
  literal is longer than the ring; every strategy decodes; the ring holds
  just a batch of headers, one unit being loaded and some slack, so the
  prefetcher has to wait. Two slots suffice for the position of an earlier
  batch to be released. Of the two unset values of `unsnap`, 0 is behind every
  batch and 7 is ahead of the first ones and behind later ones, so that misled
  and merely delayed executions both occur.
* `snap`: inputs up to 20 bytes go round the window twice, so entries of the
  table are one and two windows old; repetitions lie just within and just
  beyond reach; literals and copies of the greatest length occur, and so do
  streams that fill the small buffer exactly and ones that exceed it by a byte.
  The scans run with their real 32 and 64 lanes.
* `manager`: the pool starts with one word and grows by one, so three configs
  make it grow twice; five operations are a compression and a decompression.
  Configs and buffers are symmetric: the specification treats all alike and
  the properties quantify over all of them.
* `layout`: no chunk, whole and partial last chunks, headers of 1, 4 and 24
  bytes (the formats' own) at addresses that are all multiples of eight (nothing
  less aligned is a buffer of a manager); every type with LZ4 and Cascaded,
  every algorithm of GDeflate, ANS with two chunks to a block.
* `batch`: a nibble ends at 3 and a length byte at 3, so both lengths of a
  sequence take several bytes; an offset reaches 24 bytes, and one input
  repeats itself just beyond that; the hash table has 4 entries for data of up
  to 42 bytes, and two blocks share the scratch buffer, which may be two bytes
  too small; inputs begin at even and odd addresses and buffers of one byte too
  few are refused. Cascaded chunks of 64 bytes and data of 96 give partitions
  of two chunks, with 0 to 2 layers of either kind, packed or not, in types of
  1 and 4 bytes. Tiles of 4 elements make runs span several of them, and the
  arrays hold values on both sides of the sign bit.

In `manager`, `layout` and the runs of `SnappyUnsnap` deadlock is not checked: a
client may stop calling, the life of one result ends, and the pipeline may
stop short (finding 2; that it does so in no other way is `Terminates`). In the other
runs the end is an explicit
stuttering step and anything else is a deadlock.

### Fairness

* `HlifCompress`, `HlifDecompress`: weak fairness of each group. A launched block is resident
  until it exits, its warps are all scheduled, and a group never waits for
  another group.
* `SnappyUnsnap`: weak fairness of each warp. The three warps belong to one
  block; the hardware schedules warps independently, and the spin loops sleep.
  Where it stops short all the same, it is not for want of a turn.
* `SnappySnap`: weak fairness of the block: some warp that can go on does.
* `HlifManager`, `ResultLayout`, `ManagerFactory` and `LowLevelBatch` state none
  and check safety only: a client need not make progress by itself, and that
  blocks end is in `LowLevelBatch` a matter of the codec's operators being total.

## 4. Findings

1. **Race on the group's chunk index** (`hlif_race`).
   `copyScratchBuffer` gets `this_ix_chunk`, a `volatile` word of shared
   memory, at `hlif_shared.cuh:214`; thread 0 overwrites it at line 227 with no
   barrier in between. A warp that is late reads the next chunk's index, and
   copies its part of the slot to the extent of another chunk or, when no chunk
   is left, to an address read past the header arrays. `hlif_compress` and the
   theorem `ResultSafe` show that single-warp groups are safe. The
   decompression loop has the same form (lines 340 and 322 to 329); there a
   barrier inside `decompress_chunk` separates the two, which `hlif_decompress`
   shows to suffice. The cascaded path for chunks stored uncompressed
   (`CascadedKernels.cuh:1156`) has none, and its launch has more than one
   warp: with `Barriers = FALSE`, `Complete` fails.
2. **A position released before it is stored** (`unsnap_stale`).
   `decompression_decode.cuh:274` submits a batch before line 275 stores the
   position that `decompression_process.cuh:230` hands to the prefetcher. If the
   whole batch is processed between the two stores, and the slot is used for
   the first time, the word is what the last user of the shared memory left,
   such as an earlier chunk of the same block: the prefetcher runs ahead over
   bytes that are still needed, and the output is wrong. A slot that was used
   before holds the position of its last batch, `BATCH_COUNT` batches ago. That
   is safe for the data (`OutputRight`), but if the batches between are longer
   than the ring has to spare (3264 bytes for warps of 64 lanes, which takes
   long literals), the prefetcher keeps waiting for room, the decoder for bytes
   and the processor for a batch: the second alternative of `Terminates`, which
   fails without it. Storing the position before submitting the batch removes
   both.
3. **Distances in bytes that do not fit** (`lz4_wide`). `LZ4Kernels.cuh:901`
   multiplies a distance in elements by the size of an element and passes it as
   an `offset_type` of 16 bits. With types of two or four bytes and chunks of
   more than 64 KB (allowed up to 16 MB) the product is cut off, and the stream
   expands to other data without an error.
4. **Layers undone in another order** (`cascaded_layers`). With more delta than
   run-length layers, at least one of the latter, the conditions at
   `CascadedKernels.cuh:1261` and `1279` do not reverse the loop at line 862.
   Default options (two and one) are not affected.
5. **Type taken from an empty partition** (`cascaded_empty`).
   `CascadedBatch.cu:143` reads the type of the batch from the first compressed
   partition, which the compressor leaves unwritten when it has no data. No
   kernel may then take the batch, and no partition gets a status.
   `TypedChunksAnswered` shows that every partition is answered otherwise.

Four more follow from a line or two and have no run of their own:

* `BatchManager.hpp:201` counts four bytes per chunk size where the kernel's
  array has eight, and no padding: a format whose chunk bound is tight
  (cascaded, incompressible data) exceeds the promised size. `ExcessBounded`
  says by how much at most.
* `hlif_shared.cuh:369` asserts that a block is one warp wide, behind a loop of
  which line 306 says that with one chunk per block any width is allowed. The
  Snappy manager launches three warps (`SnappyHlifKernels.cu:132`), the
  cascaded one 128 threads (`CascadedKernels.cuh:94`). A Debug build aborts
  there.
* `hlif_shared.cuh:221` forwards a status word that no compression wrapper ever
  writes.
* `CascadedHlifKernels.cu:111` hides the member that should receive the status
  of a decompression.

## 5. Proofs

All theorems hold for every value of the constants that satisfies the named
assumption of the module (`HlifAssumption`, `HlifDecompressAssumption`,
`ManagerAssumption`, `LayoutAssumption`, `FactoryAssumption`,
`UnsnapAssumption`, `SnapAssumption` and `LiteralAssumption`, and for the
batches `Lz4Parameters`, `CascadedParameters` and `JobsAssumption`); those about
`SnappyFormat` need none. The assumptions are what the code sees to: positive
sizes, word-aligned buffers, types and algorithms that exist, a ring that has
room for a batch of headers and one unit, for the Snappy compressor the literals
of at most 256 bytes, copies of 4 to 64 and distances below 2^16 for which
there are headers, for LZ4 a nibble, a length byte and an offset of at most the
real sizes, the latter reaching back over a warp, for Cascaded a run length
that fits its count.
`JobsAssumption` is what a caller promises: no chunk is larger than it said, and
it has reserved the scratch memory that it was told to. Three hypotheses go
further and are named where they occur: `Warps = 1`, `Together`,
and in `ChunksReturn` the reach of an offset.

No safety property is inductive as it stands. Each module has an `IInv` (in
`ManagerFactory` and `ResultLayout`: `FactoryInv`, `LayoutInv`; in
`LowLevelBatch`: `BatchInv`), of parts that
are preserved one by one, with a lemma per action or per part. To see one hold on
an instance, name it in the configuration of its run (for `SnappyUnsnap`: `Inv`).

**`HlifCompress_proofs`.** That two groups hold different chunks says nothing
about the counter they claim from. `IInv` adds

* `PhaseInv`: the warps of a group stand between the same two barriers, only
  warp 0 is at thread 0's labels, and from the compression to the next claim
  the slot holds the data of the group's chunk;
* `ClaimInv`: every index a group holds is below the number handed out, and
  groups that have not started hold their own number;
* `ExtentInv`: the extents of the placed chunks tile the result, with sizes a
  slot can hold.

`TypeCorrect`, `ChunksClaimedOnce` and `ResultGapless` follow, for any number
of warps: the race of finding 1 damages data, never the reservations. With
`RoomInv` (the room taken is at most a slot for each placed chunk, counted by
cardinality) so does `ResultInRoom`. Assuming single-warp groups, `DataInv`
(what was copied is stored) is preserved too, and gives `ResultSafe` and
`StoredChunksStay`; with `FreshInv` (nothing of a chunk is in the result
before its group has copied it) every step is a step of `GaplessBatch` or
leaves its state alone (`BatchImplemented`). The assumption is the weakest
there is: with two warps `hlif_race` is a counterexample. That the steps of
`GaplessBatch` go on happening is liveness and stays with TLC.

**`HlifDecompress_proofs`.** The claims are those of the compression kernel,
but its last claims fail: `ClaimInv` counts them, since every claim after a
group's first one was paid for with a real chunk (`Retired`). A chunk is
`Pending` until its group has decompressed it; `DataInv` says that every part
of the output of a chunk no longer pending is in place. When all warps have
left, none is pending (`NonePending`), which is `OutputComplete`. The
hypothesis `Together` is that groups are single warps, as LZ4's are, or that
`decompress_chunk` has a barrier inside, as Snappy's has. The cascaded path
for plain chunks has neither, and there TLC finds the properties false.
`StatusCorrect` needs in addition that the wrapper sets its status:
`StatusInv` follows an error from the chunk to the group's word and to the
host's. `DecompressedOnce` is about steps: what is in place is not written
again.

**`HlifManager_proofs`.** `PoolInv` makes pool and held configs a partition of
the words that exist, counted, so that a config made next gets a word nobody
has, and copies share one reference count. `ScratchInv` is what the manager
believes of its scratch buffer, against the heap. `StreamInv` is about the
operations that are still queued: a kernel will find its chunk counter zeroed
because the zeroing stands right before it in the stream, or, when the kernel
has become the head, because the counter is zero (`Prepared`); so for the size
word one place further ahead. This is inductive because calls append at the
end and the device takes from the front (`QueueFrame`, `StreamMoves`).
`WordsShared`, `StatusOfConfig`, `KernelsReady` and `ScratchNeverTaken` follow,
for any number of configs and any length of the queue, and `FreedForGood`.

**`ManagerFactory_proofs`, the layout.** `LayoutInv` says that the config belongs to its
size, the layout is what the writer computes for the address where the result
now lies, and the header records its distances. That it survives `Move` is the
point: rounding up to a word commutes with a shift by a multiple of words
(`RoundUpShift`). `SectionsNeverOverlap`, `ReaderFindsSections`,
`ExcessIsBounded` and `ChunksTileInput` follow from it.

**`ManagerFactory_proofs`, the managers.** `FactoryInv` adds to it that the headers in front
of a result hold the options of the manager that wrote it (`InfoInv`), that
this manager could be made on this build, and that the reader is the writer
but for the device (`ReaderInv`, which gives `ReaderIsWriter`).
`LayoutImplemented` shows that each step is one of `ResultLayout` or leaves
its state alone; it needs the invariant, since only a manager that has a
format may configure. `BlocksApart` is arithmetic: the size of the scratch
memory is computed by the host from the number of blocks, each block finds its
part from its own number, and the parts are apart, inside and, for LZ4,
aligned for its hash table, because a power of two of at least two divides it
(`Powers`, `HashTable`).

**`SnappyUnsnap_proofs`.** The batches are numbered as they are submitted, and
`IInv` speaks of the k of them that are in flight: slot by slot what the queue
holds (`QueueInv`), where the processor is in the oldest (`ProcInv`), where the
decoder is in the stream (`DecInv`), and which bytes the ring holds
(`RingInv`: the last `PrefetchSize` that were loaded, short of the unit being
written). The prefetcher goes by the position of the oldest batch, so it keeps
off whatever that batch and its successors need: `Window`, with the fact
that a symbol's header and short literals lie behind the batch's start
(`BehindShort`), gives `WindowKept` and `HeadersLoaded`. `OutputCorrect` is in
`ProcInv`: the output is a beginning of the text; for a copy the bytes that
the processor takes modulo the distance are those of the text because the text
goes on from there like before (`Periodic`, by induction in `Repeats`).
`BatchesKept` is about steps.

All of this holds for any order of the stores. A position released before its
batch stored it is one that an earlier batch in the slot stored (`Base`: what
was ever stored, the decoder has reached; `QueueInv` pins the words of the
batches in flight, but for the one whose store is still to come), so it is at
most the batch's own, and `ProcInv` only says that what was released is not too
late (`Released`): an old position makes the prefetcher wait, never
overwrite. Only an unset word may be too far ahead, and that is `misled`. The
invariant of the theorems is `Inv`: `Base` always, and `IInv` unless misled;
`StaysMisled` and `BaseStep` are the steps of the former.

**`SnappySnap_proofs`.** The warps are `Together`, between the end of a round
and the reads of the next, with one symbol in shared memory; or `Apart`, warp
0 with a symbol in its registers and warp 1 looking for the one behind it. A
`Symbol` is a literal of bytes of the input and a copy of what the input has
before; that what warp 1 finds is one (`SearchFinds`, `MatchIsCopy`) holds for
every hash function and whatever the table holds, because the code compares
the four bytes and the distance itself.

* `BoundKept`: `Excess` counts the literals that are long. A header of
  one byte is paid for by a copy, unless no copy follows, and then the literal
  is long or the last; `LiteralAssumption` is what makes one of two bytes count
  twice. `NeverFull` draws the conclusion: a buffer of the length that
  `get_max_compressed_length` tells is never too small.
* `StreamsReadBack` (`RoundTrip`): `Stream` lists the positions of the symbols
  written so far and the lengths of the text they stand for. It grows by a
  symbol at the end while the bytes before stay (`StreamGrows`), as long as
  there is room. Its reader, a recursive function, exists and goes on symbol
  by symbol (`ReadingExists`, `ReadingUnfolds`); by induction on the list it
  gets where the list says with the text that the list says (`ListRead`), which
  is the input when warp 0 is at its end.

**`SnappyFormat_proofs`.** The instance of `snap` is too small for headers of
several bytes to matter. `CopyHeaderRead` and `LiteralHeaderRead` prove that
whatever header the compressor writes, for every length (copies of 4 to 64
bytes, literals of 1 to 256) and every distance of 16 bits, the decompressor
reads back the same length and distance. They split by the form of the header
and come down to the arithmetic of its tag byte. `SizeRead` does the same for
the size in front of the stream, up to 2^31 - 1, in one to five bytes: the
recursive `SizeBytes` is shown to exist by its beginnings (`Beginnings`), is
unfolded byte by byte (`SizeSplit`), and the reader's chain of comparisons is
followed for each number of bytes (`OneGroup` to `FiveGroups`).

**`LowLevelBatch_proofs`.** Two things have to come together: what the codecs
compute, as functions, and the order in which the host, the launches and their
blocks run.

*LZ4 as a function.* `LzState` is the invariant of the compression's turns: the
stream so far is made of whole sequences, from which the chunk can be read up to
the token that has not been written yet (`Told`), its length is paid for by what
it stands for and one byte in `LsicMax` (`Bounded`), the table holds offsets
(`TableOK`), and at the end the stream is `Complete`. Whatever the table says, a
match is one, because the lanes compare their words (`Twins`); so `Turn` holds
for any content that an earlier batch left there, any number of lanes and any
width. A sequence is read as it was written: the token and the length bytes
(`SequenceWritten`, `LengthWritten`), the offset, the literals, and a match that
overlaps itself. `Decompression` follows the decompressor through the sequences,
with its buffer reloaded at every alignment (the bytes that it sees are those of
the stream, `Holds`): it ends with the data or refuses a buffer that is too
small. The exact content needs `Narrow` (elements of a byte, or a chunk within
the range of an offset: finding 3 is what happens otherwise); the bound and the
sizes do not.

*Cascaded.* A partition's header holds its size and type, and its length is at
most that of the plain data behind a header, whatever the layers do: each of
them tests for room before it writes, or its chunk gives up and the
partition falls back to the plain data (`PartitionWritten`).

*The batch.* `BatchInv` has the parts

* `HostOK`: where the host is in its calls, and that what it was told (`asked`)
  is what the size functions compute from the batch;
* `StreamOK`: the stream is a piece of the `Plan` of the format, in its order, and
  of the launch at its head some blocks are left;
* `TempOK`: the memory from the scratch buffer on holds offsets, and what lies
  behind the buffer has not been touched (`TempInv`);
* `BuffersOK`, `ChunksOK`: for each chunk, from the launches that are through
  with it (`Through`): a warp in the middle of it is at an `LzState` with its
  slice of the scratch memory as the table (`WarpOK`), its compressed stream is
  one that tells the chunk (`StoredOK`), the size found in it is right
  (`SizeOK`), and so are the answers (`AnswerOK`).

The parts are formulas about values, so that a block's step disturbs only those
of its own chunk. From them follow `TypeCorrect`, `TablesApart`, `OutputBounded`,
`SizesFound`, `ChunksAnswered` for all formats, and `ChunksReturn` for all but
Cascaded. The libraries, which are not in this repository, contribute that they
give back what they were given (external).

**Induction.** The library's induction theorems take a predicate as a
parameter, which the installed provers cannot instantiate. `Induction` states
it for a set of numbers instead, and follows from the library's
well-foundedness of the numbers (`LeastMember`). With it a concrete
recursive *function* can be reasoned about: give a solution of its equation,
conclude that the function chosen is one, and unfold. This is how `SizeBytes`,
the reader of Snappy streams, the loops over layers and chunks and LZ4's
decompression are treated.

**Only model-checked.** Termination, and the fairness in `GaplessBatch`
(liveness and ENABLED are beyond the prover). That a cascaded chunk comes back
through its layers (the part of `RoundTrip` that `ChunksReturn` leaves out), that
the grid's primitives agree with the layers of a block (`LayersAgree`), and the
scans of Snappy (`ScansAgree`): these are statements about prefix sums, bit
fields and masks, each a development of the size of the one for LZ4.

## 6. Not modelled, and the plan

Not modelled: the closed codecs (ANS, GDeflate, Bitcomp), of which only the
wrappers are, and `BitcompManager`, which shares nothing with the chunked
managers; the run-length path that sums weighted runs with hipcub, and the
dispatch on types at run time; exceptions for null pointers and failures of HIP
calls other than launches; malformed streams (but for outputs without room and
chunks that cannot be decompressed as such); tests, benchmarks, build files.

The order in which the development goes on:

1. The layers of a cascaded chunk as functions that undo each other: run-length
   (`block_rle_compress` already names the place of each run), delta, and
   bit-packing; then `ChunksReturn` without its first hypothesis, for options
   with no more delta than run-length layers.
2. `ScansAgree`: the masks of the scans as sets of positions reached from the
   first symbol.
3. `LayersAgree`: the prefix sums of the grid against those of a block.
