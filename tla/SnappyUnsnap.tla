---------------------------- MODULE SnappyUnsnap ----------------------------
(***************************************************************************)
(* The Snappy decompressor (snappy/decompression*.cuh): one thread block   *)
(* whose three warps work as a pipeline over shared memory.                *)
(*                                                                         *)
(*   prefetcher  copies the compressed stream into the ring buf            *)
(*   decoder     reads the ring, finds the LZ77 symbols and submits them   *)
(*               in batches                                                *)
(*   processor   takes the batches in turn, writes the output, and tells   *)
(*               the prefetcher how far the stream has been consumed       *)
(*                                                                         *)
(* The only synchronisation is by spinning on shared words.  A byte of the *)
(* stream is represented by its position, so buf[p % PrefetchSize] = p     *)
(* says that the ring still holds byte p, and the output is the sequence   *)
(* of the literal bytes it consists of.  Streams are well formed and the   *)
(* output buffer has room for them (setup found no error).                 *)
(***************************************************************************)
EXTENDS Integers, Sequences

CONSTANTS
  Streams,          (* compressed streams, see WellFormed                    *)
  WarpSize,         (* lanes of a warp                                       *)
  PrefetchSize,     (* bytes of the ring (PREFETCH_SIZE)                     *)
  PrefetchUnit,     (* PREFETCH_SECTORS * warpsize                           *)
  LiteralUnit,      (* LITERAL_SECTORS * warpsize                            *)
  BatchSize,        (* symbols of a batch (BATCH_SIZE)                       *)
  BatchCount,       (* batches of the queue (BATCH_COUNT)                    *)
  MaxTag,           (* longest symbol header: 5 bytes                        *)
  MaxShort,         (* longest symbol of the 2-to-3 strategy: 3 bytes        *)
  StaleRdpos        (* what batch_prefetch_rdpos may hold at the start: the
                       launch does not set these words of shared memory      *)

Least(a, b) == IF a <= b THEN a ELSE b

\* A stream is a sequence of symbols - a header of tag bytes followed, for a
\* literal (dist = 0), by len bytes to be copied to the output; a copy repeats
\* len bytes of the output from dist back - with the position of each symbol
\* in the stream (start) and in the output (dst), and the output itself
\* (text), whose bytes are named by their positions in the stream.
IsLiteral(y) == y.dist = 0
SymBytes(y)  == y.tag + (IF IsLiteral(y) THEN y.len ELSE 0)

WellFormed(st) ==
  LET n == Len(st.syms) IN
  /\ st.syms \in Seq([tag : 1 .. MaxTag, len : Nat \ {0}, dist : Nat])
  /\ st.start \in Seq(Nat) /\ Len(st.start) = n + 1 /\ st.start[1] = 0
  /\ st.dst \in Seq(Nat) /\ Len(st.dst) = n + 1 /\ st.dst[1] = 0
  /\ st.text \in Seq(Nat) /\ Len(st.text) = st.dst[n + 1]
  /\ \A i \in 1 .. n :
       /\ st.start[i + 1] = st.start[i] + SymBytes(st.syms[i])
       /\ st.dst[i + 1] = st.dst[i] + st.syms[i].len
       /\ st.syms[i].dist <= st.dst[i]
       /\ \A k \in 1 .. st.syms[i].len :
            st.text[st.dst[i] + k] =
              IF IsLiteral(st.syms[i]) THEN st.start[i] + st.syms[i].tag + k - 1
              ELSE st.text[st.dst[i] + k - st.syms[i].dist]

\* The ring holds what the decoder waits for beside the unit being loaded.
ASSUME UnsnapAssumption ==
  /\ \A st \in Streams : WellFormed(st)
  /\ {WarpSize, PrefetchSize, PrefetchUnit, LiteralUnit, BatchSize,
      BatchCount, MaxTag, MaxShort} \subseteq Nat \ {0}
  /\ WarpSize <= PrefetchUnit
  /\ MaxShort <= MaxTag
  /\ MaxTag * BatchSize + PrefetchUnit <= PrefetchSize
  /\ StaleRdpos \subseteq Nat /\ StaleRdpos # {}

Slots   == 0 .. BatchCount - 1
Garbage == 0         (* symbol decoded from bytes that were not there        *)

VARIABLES
  stream,                (* the compressed stream of this launch             *)
  buf,                   (* the ring: index -> stream position of its byte   *)
  prefetch_wrpos,        (* prefetcher write position                        *)
  prefetch_rdpos,        (* consumer read position                           *)
  prefetch_end,          (* the prefetcher is to stop                        *)
  batch_len,             (* per slot: -1 end, 0 not ready, else symbol count *)
  batch_prefetch_rdpos,  (* per slot: stream position behind the batch       *)
  batch,                 (* per slot: the symbols, by number                 *)
  pf,                    (* prefetcher: [pc, pos, blen]                      *)
  dec,                   (* decoder: [pc, sym, slot, len, wrpos]             *)
  proc,                  (* processor: [pc, slot, len, done, off, wrpos]     *)
  out,                   (* the output written so far                        *)
  (* History that no action depends on: what the properties have to know of  *)
  (* releases that came before the decoder's store of the batch's position.  *)
  unset,                 (* slots whose position was never stored            *)
  overtaken,             (* the last release came before the store           *)
  misled                 (* some release took a position that was never
                            stored and lies ahead of the decoder             *)

queue == <<buf, prefetch_wrpos, prefetch_rdpos, prefetch_end, batch_len,
           batch_prefetch_rdpos, batch>>
history == <<unset, overtaken, misled>>
vars == <<stream, queue, pf, dec, proc, out, history>>

N        == Len(stream.syms)
End      == stream.start[N + 1]
Cur      == stream.start[dec.sym]        (* the decoder's read position      *)
InRing(p) == buf[p % PrefetchSize] = p

Init ==
  /\ stream \in Streams
  /\ buf = [a \in 0 .. PrefetchSize - 1 |-> -1]
  /\ prefetch_wrpos = 0 /\ prefetch_rdpos = 0 /\ prefetch_end = FALSE
  /\ batch_len = [b \in Slots |-> 0]
  /\ batch_prefetch_rdpos \in [Slots -> StaleRdpos]
  /\ batch = [b \in Slots |-> [i \in 1 .. BatchSize |-> 1]]
  /\ pf = [pc |-> "align", pos |-> 0, blen |-> 0]
  /\ dec = [pc |-> "wait", sym |-> 1, slot |-> 0, len |-> 0, wrpos |-> 0]
  /\ proc = [pc |-> "take", slot |-> 0, len |-> 0, done |-> 0, off |-> 0,
             wrpos |-> 0]
  /\ out = <<>>
  /\ unset = Slots /\ overtaken = FALSE /\ misled = FALSE

-----------------------------------------------------------------------------
(* Prefetcher (PrefetchByteStream::apply).                                 *)

\* The ring with the stream bytes from .. to - 1 loaded.
Loaded(from, to) ==
  [a \in DOMAIN buf |->
     IF \E p \in from .. to - 1 : p % PrefetchSize = a
     THEN CHOOSE p \in from .. to - 1 : p % PrefetchSize = a
     ELSE buf[a]]

\* Bytes up to the next aligned address.
PfAlign ==
  /\ pf.pc = "align"
  /\ \E align \in 1 .. WarpSize :
       LET n == Least(align, End) IN
       /\ buf' = Loaded(0, n)
       /\ pf' = [pf EXCEPT !.pc = "publish", !.pos = n]
  /\ UNCHANGED <<stream, prefetch_wrpos, prefetch_rdpos, prefetch_end,
                 batch_len, batch_prefetch_rdpos, batch, dec, proc, out, history>>

PfPublish ==
  /\ pf.pc = "publish"
  /\ prefetch_wrpos' = pf.pos
  /\ pf' = [pf EXCEPT !.pc = "wait",
                      !.blen = Least(PrefetchUnit, End - pf.pos)]
  /\ UNCHANGED <<stream, buf, prefetch_rdpos, prefetch_end, batch_len,
                 batch_prefetch_rdpos, batch, dec, proc, out, history>>

\* Faulty variant: the unit about to be loaded is forgotten.
MinRdposFull == pf.pos - Least(pf.pos, PrefetchSize)

\* The position that must have been consumed before the next unit is loaded.
MinRdpos == pf.pos - Least(pf.pos, PrefetchSize - PrefetchUnit)

\* Lane 0 leaves its spin loop: there is room, or the stream is finished.
PfWait ==
  /\ pf.pc = "wait"
  /\ \/ /\ prefetch_rdpos >= MinRdpos
        /\ pf' = [pf EXCEPT !.pc = "load"]
     \/ /\ prefetch_rdpos < MinRdpos
        /\ prefetch_end
        /\ pf' = [pf EXCEPT !.pc = "load", !.blen = 0]
  /\ UNCHANGED <<stream, queue, dec, proc, out, history>>

PfLoad ==
  /\ pf.pc = "load"
  /\ buf' = Loaded(pf.pos, pf.pos + pf.blen)
  /\ pf' = [pf EXCEPT !.pc = IF pf.blen > 0 THEN "publish" ELSE "done",
                      !.pos = pf.pos + pf.blen]
  /\ UNCHANGED <<stream, prefetch_wrpos, prefetch_rdpos, prefetch_end,
                 batch_len, batch_prefetch_rdpos, batch, dec, proc, out, history>>

Prefetcher == PfAlign \/ PfPublish \/ PfWait \/ PfLoad

-----------------------------------------------------------------------------
(* Decoder (DecodeSymbols::apply and its strategies).                      *)

\* Symbol i as decoded from the ring: its header must be there.
Decoded(i) ==
  IF \A p \in stream.start[i] .. stream.start[i] + stream.syms[i].tag - 1 :
       InRing(p)
  THEN i ELSE Garbage

\* The decoder appends the next k symbols to its batch and goes on to a label.
DecodeNext(k, to) ==
  /\ batch' = [batch EXCEPT ![dec.slot] =
                 [i \in 1 .. BatchSize |->
                    IF i > dec.len /\ i <= dec.len + k
                    THEN Decoded(dec.sym + i - dec.len - 1) ELSE @[i]]]
  /\ dec' = [dec EXCEPT !.pc = to, !.sym = dec.sym + k, !.len = dec.len + k]

\* What a strategy may still decode: symbols of the stream, room in the batch.
Room == Least(N + 1 - dec.sym, BatchSize - dec.len)

\* Symbols the two parallel strategies can decode: up to MaxShort bytes, and
\* literals of up to MaxTag bytes for the second.
IsShort(i)  == SymBytes(stream.syms[i]) <= MaxShort
IsMedium(i) ==
  IsShort(i) \/ (IsLiteral(stream.syms[i]) /\ SymBytes(stream.syms[i]) <= MaxTag)

\* Faulty variant: waits for one symbol although a batch is decoded.
DecWaitOne ==
  /\ dec.pc = "wait"
  /\ prefetch_wrpos >= Least(Cur + MaxTag, End)
  /\ dec' = [dec EXCEPT !.pc = "short"]
  /\ UNCHANGED <<stream, queue, pf, proc, out, history>>

\* WAIT_FOR_PREFETCHER: headers of a whole batch have been loaded.
DecWait ==
  /\ dec.pc = "wait"
  /\ prefetch_wrpos >= Least(Cur + MaxTag * BatchSize, End)
  /\ dec' = [dec EXCEPT !.pc = "short"]
  /\ UNCHANGED <<stream, queue, pf, proc, out, history>>

\* The second strategy follows the first if a longer literal stopped that
\* behind k symbols, and the batch has room.
BehindShort(k) ==
  IF k < BatchSize - 2 /\ dec.sym + k <= N /\ IsMedium(dec.sym + k)
  THEN "medium" ELSE "snapshot"

\* Strategy 2-to-3: all leading short symbols.
DecShort ==
  /\ dec.pc = "short"
  /\ \E k \in 0 .. Room :
       /\ \A i \in dec.sym .. dec.sym + k - 1 : IsShort(i)
       /\ k < Room => ~IsShort(dec.sym + k)
       /\ DecodeNext(k, BehindShort(k))
  /\ UNCHANGED <<stream, buf, prefetch_wrpos, prefetch_rdpos, prefetch_end,
                 batch_len, batch_prefetch_rdpos, pf, proc, out, history>>

\* Strategy 2-to-5: some of the leading medium symbols (how many one round
\* reaches depends on the bytes they take, and there may be several rounds).
DecMedium ==
  /\ dec.pc = "medium"
  /\ \E k \in 1 .. Room :
       /\ \A i \in dec.sym .. dec.sym + k - 1 : IsMedium(i)
       /\ DecodeNext(k, "snapshot")
  /\ UNCHANGED <<stream, buf, prefetch_wrpos, prefetch_rdpos, prefetch_end,
                 batch_len, batch_prefetch_rdpos, pf, proc, out, history>>

\* The single-thread loop reads the write position once ...
DecSnapshot ==
  /\ dec.pc = "snapshot"
  /\ dec' = [dec EXCEPT !.pc = "single", !.wrpos = prefetch_wrpos]
  /\ UNCHANGED <<stream, queue, pf, proc, out, history>>

CanDecode == Room > 0 /\ Least(Cur + MaxTag, End) <= dec.wrpos

\* ... and decodes symbols of any kind while it knows their header is there.
DecSingle ==
  /\ dec.pc = "single"
  /\ CanDecode
  /\ DecodeNext(1, "single")
  /\ UNCHANGED <<stream, buf, prefetch_wrpos, prefetch_rdpos, prefetch_end,
                 batch_len, batch_prefetch_rdpos, pf, proc, out, history>>

\* SUBMIT_BATCH_TO_SYMBOL_PROCESSOR, unless nothing was decoded.
DecSubmit ==
  /\ dec.pc = "single"
  /\ ~CanDecode
  /\ batch_len' = [batch_len EXCEPT ![dec.slot] = dec.len]
  /\ dec' = [dec EXCEPT !.pc = IF dec.len # 0 THEN "rdpos" ELSE "room"]
  /\ UNCHANGED <<stream, buf, prefetch_wrpos, prefetch_rdpos, prefetch_end,
                 batch_prefetch_rdpos, batch, pf, proc, out, history>>

\* UPDATE_PREFETCHER, a store of its own after the submission.
DecRdpos ==
  /\ dec.pc = "rdpos"
  /\ batch_prefetch_rdpos' = [batch_prefetch_rdpos EXCEPT ![dec.slot] = Cur]
  /\ dec' = [dec EXCEPT !.pc = "room", !.slot = (dec.slot + 1) % BatchCount]
  /\ unset' = unset \ {dec.slot}
  /\ UNCHANGED <<stream, buf, prefetch_wrpos, prefetch_rdpos, prefetch_end,
                 batch_len, batch, pf, proc, out, overtaken, misled>>

\* Faulty variant: the next slot is taken without waiting for it.
DecRoomTaken ==
  /\ dec.pc = "room"
  /\ dec' = [dec EXCEPT !.pc = IF dec.sym > N THEN "stop" ELSE "wait",
                        !.len = 0]
  /\ UNCHANGED <<stream, queue, pf, proc, out, history>>

\* WAIT_FOR_SYMBOL_PROCESSOR: the slot of the next batch is free.
DecRoom ==
  /\ dec.pc = "room"
  /\ batch_len[dec.slot] = 0
  /\ dec' = [dec EXCEPT !.pc = IF dec.sym > N THEN "stop" ELSE "wait",
                        !.len = 0]
  /\ UNCHANGED <<stream, queue, pf, proc, out, history>>

DecStop ==
  /\ dec.pc = "stop"
  /\ prefetch_end' = TRUE
  /\ batch_len' = [batch_len EXCEPT ![dec.slot] = -1]
  /\ dec' = [dec EXCEPT !.pc = "done"]
  /\ UNCHANGED <<stream, buf, prefetch_wrpos, prefetch_rdpos,
                 batch_prefetch_rdpos, batch, pf, proc, out, history>>

Decoder == DecWait \/ DecShort \/ DecMedium \/ DecSnapshot \/ DecSingle
           \/ DecSubmit \/ DecRdpos \/ DecRoom \/ DecStop

-----------------------------------------------------------------------------
(* Processor (ProcessSymbols::apply).                                      *)

\* The symbol the processor stands at, by number, and what it says; what it
\* says if it was decoded from other bytes is arbitrary.
Entry == batch[proc.slot][proc.done + 1]
Sym   == IF Entry \in 1 .. N THEN stream.syms[Entry]
                             ELSE [tag |-> 1, len |-> 1, dist |-> 0]

\* Bytes of the stream as the ring has them.
FromRing(from, n) == [k \in 1 .. n |-> buf[(from + k - 1) % PrefetchSize]]
\* Bytes of the stream as global memory has them.
FromBase(from, n) == [k \in 1 .. n |-> from + k - 1]
\* Bytes repeated from the output (what is in front of it is arbitrary).
FromOutput(y) ==
  [k \in 1 .. y.len |->
     LET at == Len(out) - y.dist + 1 + ((k - 1) % y.dist)
     IN  IF at >= 1 THEN out[at] ELSE -1]

LiteralPos ==
  IF Entry \in 1 .. N THEN stream.start[Entry] + Sym.tag + proc.off ELSE -1

PrTake ==
  /\ proc.pc = "take"
  /\ batch_len[proc.slot] # 0
  /\ proc' = IF batch_len[proc.slot] < 0
             THEN [proc EXCEPT !.pc = "done"]
             ELSE [proc EXCEPT !.pc = "combine", !.len = batch_len[proc.slot],
                               !.done = 0]
  /\ UNCHANGED <<stream, queue, pf, dec, out, history>>

\* Small symbols combined in one store, before the write position is read
\* ("combine") or in pairs after that ("emit"); literals come from global
\* memory.  How many are combined is left open: each is a step.
PrSmall ==
  /\ proc.pc \in {"combine", "emit"}
  /\ proc.done < proc.len /\ proc.off = 0
  /\ Sym.len <= WarpSize
  /\ out' = out \o (IF IsLiteral(Sym) THEN FromBase(LiteralPos, Sym.len)
                                      ELSE FromOutput(Sym))
  /\ proc' = [proc EXCEPT !.done = @ + 1]
  /\ UNCHANGED <<stream, queue, pf, dec, history>>

PrSnapshot ==
  /\ proc.pc = "combine"
  /\ proc' = [proc EXCEPT !.pc = "emit", !.wrpos = prefetch_wrpos]
  /\ UNCHANGED <<stream, queue, pf, dec, out, history>>

PrCopy ==
  /\ proc.pc = "emit"
  /\ proc.done < proc.len
  /\ ~IsLiteral(Sym)
  /\ out' = out \o FromOutput(Sym)
  /\ proc' = [proc EXCEPT !.done = @ + 1]
  /\ UNCHANGED <<stream, queue, pf, dec, history>>

\* Faulty variant: long literals are read from the ring unconditionally.
PrLiteralRing ==
  /\ proc.pc = "emit"
  /\ proc.done < proc.len
  /\ IsLiteral(Sym)
  /\ LET n == Least(LiteralUnit, Sym.len - proc.off) IN
     /\ out' = out \o FromRing(LiteralPos, n)
     /\ proc' = IF proc.off + n < Sym.len
                THEN [proc EXCEPT !.off = @ + n]
                ELSE [proc EXCEPT !.off = 0, !.done = @ + 1]
  /\ UNCHANGED <<stream, queue, pf, dec, history>>

\* The next piece of a literal, from the ring if it was loaded by the time of
\* the snapshot.
PrLiteral ==
  /\ proc.pc = "emit"
  /\ proc.done < proc.len
  /\ IsLiteral(Sym)
  /\ LET n == Least(LiteralUnit, Sym.len - proc.off) IN
     /\ out' = out \o (IF LiteralPos + n < proc.wrpos
                       THEN FromRing(LiteralPos, n) ELSE FromBase(LiteralPos, n))
     /\ proc' = IF proc.off + n < Sym.len
                THEN [proc EXCEPT !.off = @ + n]
                ELSE [proc EXCEPT !.off = 0, !.done = @ + 1]
  /\ UNCHANGED <<stream, queue, pf, dec, history>>

\* Faulty variant: the prefetcher is not told what was consumed.
PrReleaseSilent ==
  /\ proc.pc = "emit"
  /\ proc.done = proc.len
  /\ proc' = [proc EXCEPT !.pc = "free"]
  /\ UNCHANGED <<stream, queue, pf, dec, out, history>>

\* The batch is submitted, but its stream position is not stored yet.
Unstored(b) == dec.pc = "rdpos" /\ dec.slot = b

\* The prefetcher may overwrite the batch's part of the stream.  Nothing makes
\* the processor wait for the decoder's store of the position: if it is not
\* there yet, the word is what the slot's previous batch or the previous user
\* of the shared memory left ...
PrRelease ==
  /\ proc.pc = "emit"
  /\ proc.done = proc.len
  /\ prefetch_rdpos' = batch_prefetch_rdpos[proc.slot]
  /\ proc' = [proc EXCEPT !.pc = "free"]
  /\ overtaken' = Unstored(proc.slot)
  /\ misled' = (misled \/ (/\ proc.slot \in unset
                           /\ batch_prefetch_rdpos[proc.slot] > Cur))
  /\ UNCHANGED <<stream, buf, prefetch_wrpos, prefetch_end, batch_len,
                 batch_prefetch_rdpos, batch, pf, dec, out, unset>>

\* ... and the decoder may fill the slot again.
PrFree ==
  /\ proc.pc = "free"
  /\ batch_len' = [batch_len EXCEPT ![proc.slot] = 0]
  /\ proc' = [proc EXCEPT !.pc = "take", !.slot = (proc.slot + 1) % BatchCount]
  /\ UNCHANGED <<stream, buf, prefetch_wrpos, prefetch_rdpos, prefetch_end,
                 batch_prefetch_rdpos, batch, pf, dec, out, history>>

Processor == PrTake \/ PrSmall \/ PrSnapshot \/ PrCopy \/ PrLiteral
             \/ PrRelease \/ PrFree

-----------------------------------------------------------------------------
AllDone == pf.pc = "done" /\ dec.pc = "done" /\ proc.pc = "done"

\* The barrier behind the three warps.
Joined == AllDone /\ UNCHANGED vars

Next == Prefetcher \/ Decoder \/ Processor \/ Joined

\* The warps of a resident block are all scheduled: one that spins does not
\* keep another from running.
Spec == /\ Init /\ [][Next]_vars
        /\ WF_vars(Prefetcher) /\ WF_vars(Decoder) /\ WF_vars(Processor)

-----------------------------------------------------------------------------
(* Properties.                                                             *)

\* Every variable keeps its type: positions stay inside the stream and slots,
\* counts and symbols inside the queue.
TypeOK ==
  /\ stream \in Streams
  /\ buf \in [0 .. PrefetchSize - 1 -> Nat \cup {-1}]
  /\ prefetch_wrpos \in 0 .. End
  /\ prefetch_rdpos \in 0 .. End \cup StaleRdpos
  /\ prefetch_end \in BOOLEAN
  /\ batch_len \in [Slots -> -1 .. BatchSize]
  /\ batch_prefetch_rdpos \in [Slots -> 0 .. End \cup StaleRdpos]
  /\ batch \in [Slots -> [1 .. BatchSize -> Nat]]
  /\ pf \in [pc : {"align", "publish", "wait", "load", "done"},
             pos : 0 .. End, blen : 0 .. PrefetchUnit]
  /\ dec \in [pc : {"wait", "short", "medium", "snapshot", "single", "rdpos",
                    "room", "stop", "done"},
              sym : 1 .. N + 1, slot : Slots, len : 0 .. BatchSize,
              wrpos : 0 .. End]
  /\ proc \in [pc : {"take", "combine", "emit", "free", "done"}, slot : Slots,
               len : 0 .. BatchSize, done : 0 .. BatchSize, off : Nat,
               wrpos : 0 .. End]
  /\ out \in Seq(Nat \cup {-1})
  /\ unset \subseteq Slots /\ overtaken \in BOOLEAN /\ misled \in BOOLEAN

HeadersRead == \A b \in Slots, i \in 1 .. BatchSize : batch[b][i] # Garbage

\* Whatever is released before its store, unless it is a word no batch ever
\* stored and ahead of the decoder: the decoder never takes a byte for a
\* symbol header that the prefetcher has not loaded yet or has already
\* overwritten, although the parallel strategies do not look at the write
\* position.
DecoderReads == ~misled => HeadersRead

\* The output is at any time a beginning of the decompressed data, and all of
\* it when the block ends: whichever of the ring and the stream a literal is
\* read from, its bytes are right, and no batch is skipped, repeated or
\* overtaken.
OutputAlwaysRight ==
  /\ Len(out) <= Len(stream.text)
  /\ \A k \in 1 .. Len(out) : out[k] = stream.text[k]
  /\ AllDone => Len(out) = Len(stream.text)

\* So it is, also if positions of earlier batches or earlier streams are
\* released, unless such a position is ahead of the decoder.
OutputRight == ~misled => OutputAlwaysRight

\* Ring space is given up only behind the bytes that were consumed, on every
\* release that does not take a word ahead of the decoder that no batch
\* stored: what was published and not yet processed is still in the ring.
WindowIntact ==
  ~misled =>
    \A i \in 1 .. N :
      Len(out) < stream.dst[i + 1] =>
        \A p \in stream.start[i] .. Least(stream.start[i + 1], prefetch_wrpos) - 1 :
          InRing(p)

\* A submitted batch is not touched before the processor has freed it,
\* whatever was released.
BatchStays ==
  [][\A b \in Slots : batch_len[b] > 0 =>
       /\ batch'[b] = batch[b]
       /\ batch_len'[b] # batch_len[b] => proc.pc = "free" /\ proc.slot = b]_vars

\* No cycle of waiting - prefetcher for the consumer, decoder for the
\* prefetcher and for a free slot, processor for a batch - but one: the decoder
\* waits for bytes while the last release, before its store, gave an older
\* position, and no other release follows.
Terminates == <>(AllDone \/ misled) \/ <>[](overtaken /\ dec.pc = "wait")

-----------------------------------------------------------------------------
(* The inductive invariant behind them, as long as the processor is not     *)
(* misled.  It numbers the k batches that are submitted and not yet freed,  *)
(* in the order in which the processor takes them.                          *)

\* The slot j behind slot b, and the slot of the batch in flight number j.
Ahead(b, j) == (b + j) % BatchCount
SlotOf(j)   == Ahead(proc.slot, j)

\* The first symbol of batch number j, where batch number k is the one the
\* decoder is writing or will write next.
Writing     == dec.pc \in {"wait", "short", "medium", "snapshot", "single"}
DecFirst    == IF Writing THEN dec.sym - dec.len ELSE dec.sym
First(k, j) == IF j = k THEN DecFirst ELSE batch[SlotOf(j)][1]

\* What holds whatever is released: the prefetcher keeps inside the stream,
\* the slot the decoder writes, or ends the queue with, is empty, and a
\* position that was ever stored is one the decoder has reached.
Base ==
  /\ TypeOK
  /\ pf.pc \in {"wait", "load"} => pf.pos + pf.blen <= End
  /\ pf.pc = "align" => pf.pos = 0
  /\ Writing \/ dec.pc = "stop" => batch_len[dec.slot] = 0
  /\ \A b \in Slots \ unset : batch_prefetch_rdpos[b] <= Cur

\* The ring holds the last bytes that were loaded.
RingInv ==
  /\ \A p \in 0 .. pf.pos - 1 : p >= pf.pos - PrefetchSize => InRing(p)
  /\ prefetch_wrpos <= pf.pos

\* The batch that the decoder writes holds the symbols before its position;
\* for the parallel strategies the headers of a whole batch are loaded.
DecInv ==
  /\ Writing => \A i \in 1 .. dec.len : batch[dec.slot][i] = DecFirst + i - 1
  /\ dec.pc \in {"wait", "short"} => dec.len = 0
  /\ DecFirst >= 1
  /\ dec.pc \in {"short", "medium"} =>
       /\ prefetch_wrpos >= Least(stream.start[DecFirst] + MaxTag * BatchSize, End)
       /\ Cur <= stream.start[DecFirst] + MaxTag * dec.len
  /\ dec.pc = "single" => dec.wrpos <= prefetch_wrpos
  /\ dec.pc \in {"stop", "done"} => dec.sym = N + 1

\* The slots from the processor's to the decoder's hold batches of successive
\* symbols and the positions behind them, the other slots are empty.
QueueInv(k) ==
  /\ SlotOf(k) = IF dec.pc = "rdpos" THEN Ahead(dec.slot, 1) ELSE dec.slot
  /\ dec.pc \notin {"rdpos", "room"} => k < BatchCount
  /\ \A j \in 0 .. k - 1 :
       /\ batch_len[SlotOf(j)] > 0
       /\ \A i \in 1 .. batch_len[SlotOf(j)] :
            batch[SlotOf(j)][i] = First(k, j) + i - 1
       /\ First(k, j + 1) = First(k, j) + batch_len[SlotOf(j)]
       /\ ~Unstored(SlotOf(j)) =>
            batch_prefetch_rdpos[SlotOf(j)] = stream.start[First(k, j + 1)]
  /\ \A j \in k .. BatchCount - 1 :
       batch_len[SlotOf(j)] = IF j = k /\ dec.pc = "done" THEN -1 ELSE 0

\* The symbol the processor stands at, and the one up to which it has given
\* up the stream.
Busy        == proc.pc \in {"combine", "emit", "free"}
At(k)       == First(k, 0) + (IF Busy THEN proc.done ELSE 0)
GivenUp(k)  == First(k, IF proc.pc = "free" THEN 1 ELSE 0)

\* What the processor has written is what comes before that; the position it
\* released may be an older one, but no later one, and the prefetcher has
\* overwritten, or is about to overwrite, nothing behind it.
ProcInv(k) ==
  /\ Busy => k > 0 /\ proc.len = batch_len[proc.slot] /\ proc.done <= proc.len
  /\ proc.pc = "free" => proc.done = proc.len
  /\ proc.pc = "done" => k = 0 /\ dec.pc = "done"
  /\ proc.off > 0 =>
       /\ proc.pc = "emit" /\ proc.done < proc.len
       /\ IsLiteral(stream.syms[At(k)]) /\ proc.off < stream.syms[At(k)].len
  /\ proc.wrpos <= prefetch_wrpos
  /\ Len(out) = stream.dst[At(k)] + proc.off
  /\ \A i \in 1 .. Len(out) : out[i] = stream.text[i]
  /\ prefetch_rdpos <= stream.start[GivenUp(k)]
  /\ pf.pos - PrefetchSize <= stream.start[GivenUp(k)]
  /\ pf.pc = "load" =>
       pf.pos + pf.blen - PrefetchSize <= stream.start[GivenUp(k)]

IInv ==
  /\ Base /\ HeadersRead /\ RingInv /\ DecInv
  /\ \E k \in 0 .. BatchCount : QueueInv(k) /\ ProcInv(k)

\* All of it together.
Inv == Base /\ (~misled => IInv)
=============================================================================
