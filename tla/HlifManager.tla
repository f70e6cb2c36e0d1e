---------------------------- MODULE HlifManager ----------------------------
(***************************************************************************)
(* A batch manager of the high-level interface as its client drives it:    *)
(* ManagerBase.hpp, BatchManager.hpp, the configs (CompressionConfigs.cpp) *)
(* with their status words from a pool of pinned memory (PinnedPtrs.hpp),  *)
(* and the stream on which the device works in the meantime.               *)
(*                                                                         *)
(* The client calls the manager from one thread.  compress and decompress  *)
(* only queue work; the stream executes it in order, at any later time.    *)
(* A kernel is one step here; HlifCompress models its inside, and starts   *)
(* from what KernelReady says of the counters.                             *)
(*                                                                         *)
(* The client keeps a config until its operations have ended and drops all *)
(* configs before the manager.                                             *)
(***************************************************************************)
EXTENDS Integers, Sequences, FiniteSets

CONSTANTS
  Configs,        (* names for the configs the client holds at a time        *)
  MaxRefs,        (* bound: copies of a config the client holds              *)
  CompBuffers,    (* compressed buffers of the client                        *)
  UserScratch,    (* scratch buffers of the client                           *)
  Prealloc,       (* PINNED_POOL_PREALLOC_SIZE                               *)
  Realloc,        (* PINNED_POOL_REALLOC_SIZE                                *)
  MaxQueue        (* bound: operations waiting in the stream                 *)

Own     == "own"          (* the scratch buffer the manager allocates        *)
Nowhere == "nowhere"

\* The client's memory is none of the manager's.
ASSUME ManagerAssumption ==
  /\ IsFiniteSet(Configs)
  /\ {Own, Nowhere} \cap UserScratch = {}
  /\ {MaxRefs, Prealloc, Realloc, MaxQueue} \subseteq Nat \ {0}

Scratch == UserScratch \cup {Own}
Kinds   == {"compress", "decompress"}
Success == "success"
Status  == {Success, "error"}

VARIABLES
  alive,          (* the manager has not been destroyed                      *)
  pool,           (* free status words, the last is the next to go           *)
  capacity,       (* status words allocated in all: they are 1 .. capacity   *)
  status,         (* the status words                                        *)
  config,         (* per config: [kind, slot, refs], refs = 0 if there is none *)
  scratch,        (* [ptr, filled, mine]: scratch_buffer,
                     scratch_buffer_filled, manager_filled_scratch_buffer    *)
  heap,           (* per scratch buffer: none, live or freed                 *)
  stream,         (* operations queued on user_stream                        *)
  ix_chunk,       (* the manager's chunk counter is zero                     *)
  comp_data_size, (* per buffer: the size word of its header is zero         *)
  failed          (* configs with an operation that failed                   *)

vars == <<alive, pool, capacity, status, config, scratch, heap, stream,
          ix_chunk, comp_data_size, failed>>
device == <<stream, ix_chunk, comp_data_size, failed>>

NoConfig == [kind |-> "compress", slot |-> 0, refs |-> 0]
Held     == {c \in Configs : config[c].refs > 0}

Init ==
  /\ alive = TRUE
  /\ pool = [i \in 1 .. Prealloc |-> i]
  /\ capacity = Prealloc
  /\ status = [s \in 1 .. Prealloc |-> "error"]   (* not initialised *)
  /\ config = [c \in Configs |-> NoConfig]
  /\ scratch = [ptr |-> Nowhere, filled |-> FALSE, mine |-> FALSE]
  /\ heap = [b \in Scratch |-> IF b = Own THEN "none" ELSE "live"]
  /\ stream = <<>>
  /\ ix_chunk = FALSE
  /\ comp_data_size = [b \in CompBuffers |-> FALSE]
  /\ failed = {}

-----------------------------------------------------------------------------
(* The configs and their status words.                                     *)

\* The pool when a word is asked for: it grows when it is empty.
Supply == IF pool = <<>> THEN [i \in 1 .. Realloc |-> capacity + i] ELSE pool

\* Faulty variant: the handle that allocate() moves from returns the word.
NewConfigReturned(c, kind) ==
  LET s == Supply[Len(Supply)] IN
  /\ alive /\ config[c].refs = 0
  /\ pool' = Supply
  /\ capacity' = IF pool = <<>> THEN capacity + Realloc ELSE capacity
  /\ status' = [t \in 1 .. capacity' |-> IF t = s THEN Success
                  ELSE IF t <= capacity THEN status[t] ELSE "error"]
  /\ config' = [config EXCEPT ![c] = [kind |-> kind, slot |-> s, refs |-> 1]]
  /\ UNCHANGED <<alive, scratch, heap, device>>

\* Faulty variant: the config takes the word as it is.
NewConfigStale(c, kind) ==
  LET s == Supply[Len(Supply)] IN
  /\ alive /\ config[c].refs = 0
  /\ pool' = SubSeq(Supply, 1, Len(Supply) - 1)
  /\ capacity' = IF pool = <<>> THEN capacity + Realloc ELSE capacity
  /\ status' = [t \in 1 .. capacity' |->
                  IF t <= capacity THEN status[t] ELSE "error"]
  /\ config' = [config EXCEPT ![c] = [kind |-> kind, slot |-> s, refs |-> 1]]
  /\ UNCHANGED <<alive, scratch, heap, device>>

\* A config takes a status word from the pool and sets it to success.
NewConfig(c, kind) ==
  LET s == Supply[Len(Supply)] IN
  /\ alive /\ config[c].refs = 0
  /\ pool' = SubSeq(Supply, 1, Len(Supply) - 1)
  /\ capacity' = IF pool = <<>> THEN capacity + Realloc ELSE capacity
  /\ status' = [t \in 1 .. capacity' |-> IF t = s THEN Success
                  ELSE IF t <= capacity THEN status[t] ELSE "error"]
  /\ config' = [config EXCEPT ![c] = [kind |-> kind, slot |-> s, refs |-> 1]]
  /\ UNCHANGED <<alive, scratch, heap, device>>

ConfigureCompression(c) == NewConfig(c, "compress")

\* From a CompressionConfig the client holds: nothing is asked of the device.
ConfigureFromConfig(d) ==
  /\ \E c \in Held : config[c].kind = "compress"
  /\ NewConfig(d, "decompress")

\* From the header of a compressed buffer: the copies out of it are queued
\* and, being copies to pageable memory, waited for.
ConfigureFromBuffer(d) ==
  /\ stream = <<>>
  /\ NewConfig(d, "decompress")

\* Copies of a config share its status word.
CopyConfig(c) ==
  /\ config[c].refs \in 1 .. MaxRefs - 1
  /\ config' = [config EXCEPT ![c].refs = @ + 1]
  /\ UNCHANGED <<alive, pool, capacity, status, scratch, heap, device>>

Queued(c) == \E i \in DOMAIN stream : stream[i].op = "kernel" /\ stream[i].cfg = c

\* With the last copy the word goes back to the pool.
DropConfig(c) ==
  /\ config[c].refs > 0
  /\ IF config[c].refs = 1
     THEN /\ ~Queued(c)
          /\ config' = [config EXCEPT ![c] = NoConfig]
          /\ pool' = Append(pool, config[c].slot)
          /\ failed' = failed \ {c}
     ELSE /\ config' = [config EXCEPT ![c].refs = @ - 1]
          /\ UNCHANGED <<pool, failed>>
  /\ UNCHANGED <<alive, capacity, status, scratch, heap, stream, ix_chunk,
                 comp_data_size>>

-----------------------------------------------------------------------------
(* The scratch buffer.                                                     *)

\* Faulty variant: the user's buffer is taken for the manager's own.
SetScratchKept(u) ==
  /\ alive
  /\ IF scratch.filled /\ scratch.mine
     THEN /\ stream = <<>>
          /\ heap' = [heap EXCEPT ![scratch.ptr] = "freed"]
     ELSE UNCHANGED heap
  /\ scratch' = [scratch EXCEPT !.ptr = u, !.filled = TRUE]
  /\ UNCHANGED <<alive, pool, capacity, status, config, device>>

\* set_scratch_buffer: the manager's own buffer is freed, which waits for the
\* device (hipFree).
SetScratch(u) ==
  /\ alive
  /\ IF scratch.filled /\ scratch.mine
     THEN /\ stream = <<>>
          /\ heap' = [heap EXCEPT ![scratch.ptr] = "freed"]
     ELSE UNCHANGED heap
  /\ scratch' = [ptr |-> u, filled |-> TRUE, mine |-> FALSE]
  /\ UNCHANGED <<alive, pool, capacity, status, config, device>>

\* The scratch buffer of the next operation: allocated if there is none.
FillScratch ==
  IF scratch.filled THEN UNCHANGED <<scratch, heap>>
  ELSE /\ heap' = [heap EXCEPT ![Own] = "live"]
       /\ scratch' = [ptr |-> Own, filled |-> TRUE, mine |-> TRUE]

-----------------------------------------------------------------------------
(* Operations queued on the stream.                                        *)

Kernel(kind, b, c) ==
  [op |-> "kernel", kind |-> kind, buf |-> b, cfg |-> c,
   slot |-> config[c].slot, scratch |-> scratch'.ptr]
Prepare(b) == [op |-> "prepare", buf |-> b]      (* format header, zero size *)
ZeroChunk  == [op |-> "zero_chunk"]

Queue(ops) ==
  /\ Len(stream) + Len(ops) <= MaxQueue
  /\ stream' = stream \o ops

\* Faulty variant: the chunk counter is left as the last kernel left it.
CompressUnzeroed(b, c) ==
  /\ alive /\ c \in Held /\ config[c].kind = "compress"
  /\ FillScratch
  /\ Queue(<<Prepare(b), Kernel("compress", b, c)>>)
  /\ UNCHANGED <<alive, pool, capacity, status, config, ix_chunk,
                 comp_data_size, failed>>

Compress(b, c) ==
  /\ alive /\ c \in Held /\ config[c].kind = "compress"
  /\ FillScratch
  /\ Queue(<<Prepare(b), ZeroChunk, Kernel("compress", b, c)>>)
  /\ UNCHANGED <<alive, pool, capacity, status, config, ix_chunk,
                 comp_data_size, failed>>

Decompress(b, c) ==
  /\ alive /\ c \in Held /\ config[c].kind = "decompress"
  /\ FillScratch
  /\ Queue(<<ZeroChunk, Kernel("decompress", b, c)>>)
  /\ UNCHANGED <<alive, pool, capacity, status, config, ix_chunk,
                 comp_data_size, failed>>

-----------------------------------------------------------------------------
(* The device.                                                             *)

Executes(op) ==
  /\ stream # <<>> /\ Head(stream).op = op
  /\ stream' = Tail(stream)
  /\ UNCHANGED <<alive, pool, capacity, config, scratch, heap>>

RunPrepare ==
  /\ Executes("prepare")
  /\ comp_data_size' = [comp_data_size EXCEPT ![Head(stream).buf] = TRUE]
  /\ UNCHANGED <<status, ix_chunk, failed>>

RunZeroChunk ==
  /\ Executes("zero_chunk")
  /\ ix_chunk' = TRUE
  /\ UNCHANGED <<status, comp_data_size, failed>>

\* A kernel advances the counters and reports an error if it has one; it
\* never reports success.
RunKernel ==
  /\ Executes("kernel")
  /\ ix_chunk' = FALSE
  /\ LET k == Head(stream) IN
     /\ comp_data_size' = IF k.kind = "compress"
                          THEN [comp_data_size EXCEPT ![k.buf] = FALSE]
                          ELSE comp_data_size
     /\ \/ UNCHANGED <<status, failed>>
        \/ /\ status' = [status EXCEPT ![k.slot] = "error"]
           /\ failed' = failed \cup {k.cfg}

\* The destructors; freeing memory waits for the device.
Destroy ==
  /\ alive /\ Held = {} /\ stream = <<>>
  /\ alive' = FALSE
  /\ heap' = IF scratch.filled /\ scratch.mine
             THEN [heap EXCEPT ![scratch.ptr] = "freed"] ELSE heap
  /\ UNCHANGED <<pool, capacity, status, config, scratch, device>>

Client ==
  \/ \E c \in Configs :
       \/ ConfigureCompression(c)
       \/ ConfigureFromConfig(c)
       \/ ConfigureFromBuffer(c)
       \/ CopyConfig(c)
       \/ DropConfig(c)
       \/ \E b \in CompBuffers : Compress(b, c) \/ Decompress(b, c)
  \/ \E u \in UserScratch : SetScratch(u)
  \/ Destroy

Device == RunPrepare \/ RunZeroChunk \/ RunKernel

Next == Client \/ Device

Spec == Init /\ [][Next]_vars

-----------------------------------------------------------------------------
(* Properties.                                                             *)

Ops ==
  [op : {"prepare"}, buf : CompBuffers]
    \cup [op : {"zero_chunk"}]
    \cup [op : {"kernel"}, kind : Kinds, buf : CompBuffers, cfg : Configs,
          slot : 1 .. capacity, scratch : Scratch]

\* Every variable keeps its type.
TypeOK ==
  /\ alive \in BOOLEAN
  /\ capacity \in Nat
  /\ pool \in Seq(1 .. capacity)
  /\ status \in [1 .. capacity -> Status]
  /\ config \in [Configs -> [kind : Kinds, slot : 0 .. capacity,
                             refs : 0 .. MaxRefs]]
  /\ scratch \in [ptr : Scratch \cup {Nowhere}, filled : BOOLEAN,
                  mine : BOOLEAN]
  /\ heap \in [Scratch -> {"none", "live", "freed"}]
  /\ stream \in Seq(Ops)
  /\ ix_chunk \in BOOLEAN
  /\ comp_data_size \in [CompBuffers -> BOOLEAN]
  /\ failed \subseteq Configs

Free == {pool[i] : i \in DOMAIN pool}

\* A status word is never in two hands: the pool and the configs share the
\* words out among them, through growth, copies and moves of the handles.
WordsApart ==
  /\ Len(pool) + Cardinality(Held) = capacity
  /\ Cardinality(Free) = Len(pool)
  /\ \A c \in Held : config[c].slot \in (1 .. capacity) \ Free
  /\ \A c, d \in Held : c # d => config[c].slot # config[d].slot

\* The status a client reads is an error exactly if an operation called with
\* this config failed - not one of an earlier holder of the word.
StatusOwn == \A c \in Held : status[config[c].slot] = "error" <=> c \in failed

\* When a kernel starts its counters are zero, whatever ran before it on the
\* manager or in the buffer; the scratch it was given is still allocated, and
\* the word it reports to is still that of its config.
KernelReady ==
  stream # <<>> /\ Head(stream).op = "kernel" =>
    LET k == Head(stream) IN
    /\ ix_chunk
    /\ k.kind = "compress" => comp_data_size[k.buf] /\ heap[k.scratch] = "live"
    /\ k.cfg \in Held /\ config[k.cfg].slot = k.slot

\* The manager frees the scratch buffer it allocated, in the end and only
\* once, and never one of the client's.
ScratchOwned ==
  /\ \A u \in UserScratch : heap[u] = "live"
  /\ heap[Own] = "live" <=> alive /\ scratch.mine
  /\ scratch.mine => scratch.ptr = Own

-----------------------------------------------------------------------------
(* The inductive invariant behind them.                                    *)

\* The words in the pool are different ones, a config that is held has one of
\* the others, and none is lost.
PoolInv ==
  /\ \A i, j \in DOMAIN pool : i # j => pool[i] # pool[j]
  /\ \A c \in Held : config[c].slot \in (1 .. capacity) \ Free
  /\ \A c, d \in Held : c # d => config[c].slot # config[d].slot
  /\ Len(pool) + Cardinality(Held) = capacity

\* Only configs that are held have failed, and they read so.
StatusInv == StatusOwn /\ failed \subseteq Held

\* What the manager believes of its scratch buffer.
ScratchInv ==
  /\ ScratchOwned
  /\ scratch.mine => scratch.filled
  /\ scratch.filled /\ ~scratch.mine => scratch.ptr \in UserScratch
  /\ ~scratch.filled => heap[Own] = "none"

\* A kernel in the stream was queued with what it needs: its chunk counter is
\* zeroed right before it, or has been, and so is, for a compression, the size
\* word of its buffer before that; config and scratch are still there.
Prepared(i) ==
  LET k == stream[i] IN
  /\ k.cfg \in Held /\ config[k.cfg].slot = k.slot
  /\ heap[k.scratch] = "live"
  /\ IF i = 1 THEN ix_chunk ELSE stream[i - 1] = ZeroChunk
  /\ k.kind = "compress" =>
       IF i <= 2 THEN comp_data_size[k.buf] ELSE stream[i - 2] = Prepare(k.buf)

StreamInv ==
  \A i \in DOMAIN stream : stream[i].op = "kernel" => Prepared(i)

IInv == TypeOK /\ PoolInv /\ StatusInv /\ ScratchInv /\ StreamInv
=============================================================================
