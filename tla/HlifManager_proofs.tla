------------------------- MODULE HlifManager_proofs -------------------------
(***************************************************************************)
(* Proofs about the batch managers: for every set of configs and buffers,  *)
(* every size of the pinned pool and every length of the stream.           *)
(***************************************************************************)
EXTENDS HlifManager, FiniteSetTheorems, SequenceTheorems, TLAPS

-----------------------------------------------------------------------------
(* Lemmas about the operators of the model.                                *)

\* The types of the bounds.
LEMMA Bounds ==
  /\ MaxRefs \in Nat \ {0} /\ Prealloc \in Nat \ {0}
  /\ Realloc \in Nat \ {0} /\ MaxQueue \in Nat \ {0}
  /\ IsFiniteSet(Configs)
  /\ Own \notin UserScratch /\ Nowhere \notin UserScratch
  BY ManagerAssumption DEF ManagerAssumption

\* The configs held are finitely many.
LEMMA HeldCount == IsFiniteSet(Held) /\ Cardinality(Held) \in Nat
<1>1. Held \in SUBSET Configs
  BY DEF Held
<1>2. IsFiniteSet(Held)
  BY <1>1, Bounds, FS_Subset
<1>3. QED
  BY <1>2, FS_CardinalityType

\* The operations that the client queues are operations.
LEMMA OpsMembers ==
  ASSUME NEW b \in CompBuffers
  PROVE  /\ Prepare(b) \in Ops /\ Prepare(b).op = "prepare" /\ Prepare(b).buf = b
         /\ ZeroChunk \in Ops /\ ZeroChunk.op = "zero_chunk"
  BY DEF Ops, Prepare, ZeroChunk

\* What a queued operation consists of.
LEMMA OpsKinds ==
  ASSUME NEW k \in Ops
  PROVE  /\ k.op \in {"prepare", "zero_chunk", "kernel"}
         /\ k.op = "prepare" => k.buf \in CompBuffers /\ k = Prepare(k.buf)
         /\ k.op = "zero_chunk" => k = ZeroChunk
         /\ k.op = "kernel" =>
              /\ k.kind \in Kinds
              /\ k.buf \in CompBuffers
              /\ k.cfg \in Configs
              /\ k.slot \in 1 .. capacity
              /\ k.scratch \in Scratch
<1>1. CASE k \in [op : {"prepare"}, buf : CompBuffers]
  BY <1>1 DEF Prepare
<1>2. CASE k \in [op : {"zero_chunk"}]
  BY <1>2 DEF ZeroChunk
<1>3. CASE k \in [op : {"kernel"}, kind : Kinds, buf : CompBuffers,
                  cfg : Configs, slot : 1 .. capacity, scratch : Scratch]
  BY <1>3
<1>4. QED
  BY <1>1, <1>2, <1>3 DEF Ops

\* A kernel that the client queues, while a config is held.
LEMMA KernelOp ==
  ASSUME TypeOK, PoolInv, NEW kind \in Kinds, NEW b \in CompBuffers,
         NEW c \in Held, scratch'.ptr \in Scratch
  PROVE  /\ Kernel(kind, b, c) \in Ops
         /\ Kernel(kind, b, c).op = "kernel"
         /\ Kernel(kind, b, c).kind = kind
         /\ Kernel(kind, b, c).buf = b
         /\ Kernel(kind, b, c).cfg = c
         /\ Kernel(kind, b, c).slot = config[c].slot
         /\ Kernel(kind, b, c).scratch = scratch'.ptr
<1>1. config[c].slot \in 1 .. capacity /\ c \in Configs
  BY DEF PoolInv, Held
<1>2. QED
  BY <1>1 DEF Kernel, Ops

\* Growing the pool's words keeps what is queued an operation.
LEMMA OpsGrow ==
  ASSUME capacity \in Nat, capacity' \in Nat, capacity <= capacity'
  PROVE  Ops \subseteq Ops'
  BY DEF Ops

-----------------------------------------------------------------------------
(* The pool.                                                               *)

\* The words the pool can give, after it has grown if it had to: different
\* ones, none of them with a config, and with those of the configs all.
LEMMA SupplyWords ==
  ASSUME TypeOK, PoolInv
  PROVE  LET cap == IF pool = <<>> THEN capacity + Realloc ELSE capacity IN
         /\ cap \in Nat /\ capacity <= cap
         /\ Supply \in Seq(1 .. cap)
         /\ Len(Supply) \in Nat /\ Len(Supply) >= 1
         /\ \A i, j \in 1 .. Len(Supply) : i # j => Supply[i] # Supply[j]
         /\ \A i \in 1 .. Len(Supply) : \A c \in Held : Supply[i] # config[c].slot
         /\ Len(Supply) + Cardinality(Held) = cap
<1> DEFINE cap == IF pool = <<>> THEN capacity + Realloc ELSE capacity
<1>1. capacity \in Nat /\ Realloc \in Nat \ {0}
  BY Bounds DEF TypeOK
<1>2. cap \in Nat /\ capacity <= cap
  BY <1>1
<1>3. CASE pool = <<>>
  <2>1. Supply = [i \in 1 .. Realloc |-> capacity + i]
    BY <1>3 DEF Supply
  <2>2. cap = capacity + Realloc
    BY <1>3
  <2>3. Supply \in [1 .. Realloc -> 1 .. cap]
    BY <1>1, <2>1, <2>2
  <2>4. Supply \in Seq(1 .. cap) /\ Len(Supply) = Realloc
    BY <1>1, <2>3
  <2>5. \A i \in 1 .. Realloc : \A c \in Held : Supply[i] # config[c].slot
    BY <1>1, <2>1 DEF PoolInv
  <2>6. Cardinality(Held) = capacity
    BY <1>1, <1>3, HeldCount DEF PoolInv
  <2>7. \A i, j \in 1 .. Realloc : i # j => Supply[i] # Supply[j]
    BY <1>1, <2>1
  <2>8. QED
    BY <1>1, <1>2, <2>2, <2>4, <2>5, <2>6, <2>7
<1>4. CASE pool # <<>>
  <2>1. Supply = pool /\ cap = capacity
    BY <1>4 DEF Supply
  <2>2. /\ Len(pool) \in Nat \ {0} /\ DOMAIN pool = 1 .. Len(pool)
        /\ pool \in Seq(1 .. capacity)
    BY <1>4, EmptySeq, LenProperties DEF TypeOK
  <2>3. \A i \in 1 .. Len(pool) : \A c \in Held : pool[i] # config[c].slot
    BY <2>2 DEF PoolInv, Free
  <2>4. QED
    BY <1>2, <2>1, <2>2, <2>3 DEF PoolInv
<1>5. QED
  BY <1>3, <1>4

\* The words in the pool are as many as its length.
LEMMA FreeCount ==
  ASSUME TypeOK, PoolInv
  PROVE  Cardinality(Free) = Len(pool)
<1>1. Len(pool) \in Nat /\ DOMAIN pool = 1 .. Len(pool)
      /\ pool \in [1 .. Len(pool) -> 1 .. capacity]
  BY LenProperties DEF TypeOK
<1>2. pool \in [1 .. Len(pool) -> Free]
  BY <1>1 DEF Free
<1>3. pool \in Bijection(1 .. Len(pool), Free)
  <2>1. \A i, j \in 1 .. Len(pool) : pool[i] = pool[j] => i = j
    BY <1>1 DEF PoolInv
  <2>2. \A t \in Free : \E i \in 1 .. Len(pool) : pool[i] = t
    BY <1>1 DEF Free
  <2>3. QED
    BY <1>2, <2>1, <2>2 DEF Bijection, Injection, Surjection, IsInjective
<1>4. ExistsBijection(1 .. Len(pool), Free)
  BY <1>3 DEF ExistsBijection
<1>5. IsFiniteSet(1 .. Len(pool)) /\ Cardinality(1 .. Len(pool)) = Len(pool)
  BY <1>1, FS_Interval
<1>6. QED
  BY <1>4, <1>5, FS_Bijection

\* What a new config does to the pool and to the configs.
LEMMA NewConfigEffect ==
  ASSUME TypeOK, PoolInv, NEW c \in Configs, NEW kind \in Kinds,
         NewConfig(c, kind)
  PROVE  /\ capacity' \in Nat /\ capacity <= capacity'
         /\ pool' \in Seq(1 .. capacity')
         /\ Len(pool') + 1 + Cardinality(Held) = capacity'
         /\ \A i, j \in DOMAIN pool' : i # j => pool'[i] # pool'[j]
         /\ \A i \in DOMAIN pool' : \A d \in Held : pool'[i] # config[d].slot
         /\ \E s \in 1 .. capacity' :
              /\ \A i \in DOMAIN pool' : pool'[i] # s
              /\ \A d \in Held : config[d].slot # s
              /\ status' = [t \in 1 .. capacity' |-> IF t = s THEN Success
                             ELSE IF t <= capacity THEN status[t] ELSE "error"]
              /\ config' = [config EXCEPT ![c] =
                              [kind |-> kind, slot |-> s, refs |-> 1]]
         /\ c \notin Held
         /\ Held' = Held \cup {c}
<1> DEFINE n == Len(Supply)
           s == Supply[n]
<1>1. capacity' = IF pool = <<>> THEN capacity + Realloc ELSE capacity
  BY DEF NewConfig
<1>2. /\ capacity' \in Nat /\ capacity <= capacity'
      /\ Supply \in Seq(1 .. capacity')
      /\ n \in Nat /\ n >= 1
      /\ \A i, j \in 1 .. n : i # j => Supply[i] # Supply[j]
      /\ \A i \in 1 .. n : \A d \in Held : Supply[i] # config[d].slot
      /\ n + Cardinality(Held) = capacity'
  BY <1>1, SupplyWords
<1>3. s \in 1 .. capacity'
  BY <1>2, ElementOfSeq
<1>4. /\ pool' = SubSeq(Supply, 1, n - 1)
      /\ status' = [t \in 1 .. capacity' |-> IF t = s THEN Success
                     ELSE IF t <= capacity THEN status[t] ELSE "error"]
      /\ config' = [config EXCEPT ![c] = [kind |-> kind, slot |-> s, refs |-> 1]]
      /\ config[c].refs = 0
  BY DEF NewConfig
<1>5. /\ pool' \in Seq(1 .. capacity')
      /\ Len(pool') = n - 1
      /\ \A i \in 1 .. n - 1 : pool'[i] = Supply[i]
  <2>1. \A i \in 1 .. n - 1 : Supply[i] \in 1 .. capacity'
    BY <1>2, ElementOfSeq
  <2>2. 1 \in Int /\ n - 1 \in Int
    BY <1>2
  <2> HIDE DEF n
  <2>3. /\ SubSeq(Supply, 1, n - 1) \in Seq(1 .. capacity')
        /\ Len(SubSeq(Supply, 1, n - 1)) = IF 1 <= n - 1 THEN n - 1 - 1 + 1 ELSE 0
        /\ \A i \in 1 .. n - 1 - 1 + 1 : SubSeq(Supply, 1, n - 1)[i] = Supply[1 + i - 1]
    BY <2>1, <2>2, SubSeqProperties
  <2>4. QED
    BY <1>2, <1>4, <2>3
<1>6. DOMAIN pool' = 1 .. n - 1
  BY <1>5, LenProperties
<1>7. Held' = Held \cup {c} /\ c \notin Held
  <2>1. \A d \in Configs : d # c => config'[d] = config[d]
    BY <1>4 DEF TypeOK
  <2>2. config'[c].refs = 1
    BY <1>4 DEF TypeOK
  <2>3. QED
    BY <1>4, <2>1, <2>2 DEF Held
<1>8. s = Supply[n]
  OBVIOUS
<1> HIDE DEF n, s
<1>9. \A i \in DOMAIN pool' : i \in 1 .. n /\ i # n /\ pool'[i] = Supply[i]
  BY <1>2, <1>5, <1>6
<1>11. /\ \A i \in DOMAIN pool' : pool'[i] # s
       /\ \A d \in Held : config[d].slot # s
  BY <1>2, <1>8, <1>9
<1>12. /\ \A i, j \in DOMAIN pool' : i # j => pool'[i] # pool'[j]
       /\ \A i \in DOMAIN pool' : \A d \in Held : pool'[i] # config[d].slot
  BY <1>2, <1>9
<1>10. Len(pool') + 1 + Cardinality(Held) = capacity'
  BY <1>2, <1>5, HeldCount
<1>13. QED
  BY <1>2, <1>3, <1>4, <1>5, <1>7, <1>10, <1>11, <1>12

-----------------------------------------------------------------------------
(* The initial states.                                                     *)

\* A new manager is in order: all words are in the pool, no config has one,
\* nothing is queued and no scratch buffer is known.
LEMMA InitInv == Init => IInv
<1> SUFFICES ASSUME Init PROVE IInv
  OBVIOUS
<1>1. TypeOK
  <2>1. pool \in Seq(1 .. capacity) /\ Len(pool) = Prealloc
    <3>1. pool \in [1 .. Prealloc -> 1 .. capacity]
      BY Bounds DEF Init
    <3>2. Prealloc \in Nat
      BY Bounds
    <3>3. pool \in Seq(1 .. capacity)
      BY <3>1, <3>2, SeqDef
    <3>4. QED
      BY <3>1, <3>2, <3>3, LenProperties
  <2>2. config \in [Configs -> [kind : Kinds, slot : 0 .. capacity,
                                refs : 0 .. MaxRefs]]
    BY Bounds DEF Init, NoConfig, Kinds
  <2>3. heap \in [Scratch -> {"none", "live", "freed"}]
    BY DEF Init
  <2>4. status \in [1 .. capacity -> Status]
    BY DEF Init, Status
  <2>5. stream \in Seq(Ops)
    BY EmptySeq DEF Init
  <2>6. scratch \in [ptr : Scratch \cup {Nowhere}, filled : BOOLEAN,
                    mine : BOOLEAN]
    BY DEF Init
  <2>7. comp_data_size \in [CompBuffers -> BOOLEAN] /\ capacity \in Nat
    BY Bounds DEF Init
  <2>8. QED
    BY <2>1, <2>2, <2>3, <2>4, <2>5, <2>6, <2>7 DEF Init, TypeOK
<1>2. Held = {}
  BY DEF Init, Held, NoConfig
<1>3. PoolInv
  <2>1. Len(pool) = Prealloc /\ DOMAIN pool = 1 .. Prealloc
    BY Bounds DEF Init
  <2>2. Cardinality(Held) = 0
    BY <1>2, FS_EmptySet
  <2>3. \A i, j \in DOMAIN pool : i # j => pool[i] # pool[j]
    BY <2>1 DEF Init
  <2>4. QED
    BY <1>2, <2>1, <2>2, <2>3, Bounds DEF Init, PoolInv
<1>4. StatusInv
  BY <1>2 DEF Init, StatusInv, StatusOwn
<1>5. ScratchInv
  BY Bounds DEF Init, ScratchInv, ScratchOwned, Scratch, Own
<1>6. StreamInv
  BY DEF Init, StreamInv
<1>7. QED
  BY <1>1, <1>3, <1>4, <1>5, <1>6 DEF IInv

-----------------------------------------------------------------------------
(* The configs.                                                            *)

\* A config that is held has a word of its own.
LEMMA HeldSlot ==
  ASSUME TypeOK, PoolInv, NEW c \in Held
  PROVE  /\ c \in Configs
         /\ config[c].slot \in 1 .. capacity
         /\ \A i \in DOMAIN pool : pool[i] # config[c].slot
  BY DEF PoolInv, Held, Free

\* A new config leaves everything in order: its word is one of the pool, and
\* reads success whoever held it before.
LEMMA NewConfigStep ==
  ASSUME IInv, NEW c \in Configs, NEW kind \in Kinds, NewConfig(c, kind)
  PROVE  IInv'
<1> USE DEF IInv
<1>1. PICK s \in 1 .. capacity' :
        /\ \A i \in DOMAIN pool' : pool'[i] # s
        /\ \A d \in Held : config[d].slot # s
        /\ status' = [t \in 1 .. capacity' |-> IF t = s THEN Success
                       ELSE IF t <= capacity THEN status[t] ELSE "error"]
        /\ config' = [config EXCEPT ![c] =
                        [kind |-> kind, slot |-> s, refs |-> 1]]
  BY NewConfigEffect
<1>2. /\ capacity' \in Nat /\ capacity <= capacity' /\ capacity \in Nat
      /\ pool' \in Seq(1 .. capacity')
      /\ Len(pool') + 1 + Cardinality(Held) = capacity'
      /\ \A i, j \in DOMAIN pool' : i # j => pool'[i] # pool'[j]
      /\ \A i \in DOMAIN pool' : \A d \in Held : pool'[i] # config[d].slot
      /\ c \notin Held
      /\ Held' = Held \cup {c}
  BY NewConfigEffect DEF TypeOK
<1>3. /\ alive' = alive /\ scratch' = scratch /\ heap' = heap
      /\ stream' = stream /\ ix_chunk' = ix_chunk
      /\ comp_data_size' = comp_data_size /\ failed' = failed
  BY DEF NewConfig, device
<1>4. /\ config'[c] = [kind |-> kind, slot |-> s, refs |-> 1]
      /\ \A d \in Configs \ {c} : config'[d] = config[d]
  BY <1>1 DEF TypeOK
<1>5. \A d \in Held : /\ d \in Configs \ {c} /\ config'[d] = config[d]
                      /\ config[d].slot \in 1 .. capacity
  BY <1>2, <1>4, HeldSlot
<1>6. TypeOK'
  <2>1. status' \in [1 .. capacity' -> Status]
    BY <1>1, <1>2 DEF TypeOK, Status, Success
  <2>2. config' \in [Configs -> [kind : Kinds, slot : 0 .. capacity',
                                 refs : 0 .. MaxRefs]]
    <3>1. [kind |-> kind, slot |-> s, refs |-> 1]
            \in [kind : Kinds, slot : 0 .. capacity', refs : 0 .. MaxRefs]
      BY <1>2, Bounds
    <3>2. \A d \in Configs : config[d] \in
            [kind : Kinds, slot : 0 .. capacity', refs : 0 .. MaxRefs]
      BY <1>2 DEF TypeOK
    <3>3. QED
      BY <1>1, <3>1, <3>2 DEF TypeOK
  <2>3. stream' \in Seq(Ops')
    <3>1. Ops \subseteq Ops'
      BY <1>2, OpsGrow
    <3>2. QED
      BY <1>3, <3>1 DEF TypeOK
  <2>4. QED
    BY <1>2, <1>3, <2>1, <2>2, <2>3 DEF TypeOK
<1>7. PoolInv'
  <2>1. Cardinality(Held') = Cardinality(Held) + 1
    BY <1>2, HeldCount, FS_AddElement
  <2>2. Len(pool') + Cardinality(Held') = capacity'
    BY <1>2, <2>1, HeldCount, LenProperties
  <2>3. \A d \in Held' : config'[d].slot \in (1 .. capacity') \ Free'
    BY <1>1, <1>2, <1>4, <1>5 DEF Free
  <2>4. \A d, e \in Held' : d # e => config'[d].slot # config'[e].slot
    BY <1>1, <1>2, <1>4, <1>5 DEF PoolInv
  <2>5. QED
    BY <1>2, <2>2, <2>3, <2>4 DEF PoolInv
<1>8. StatusInv'
  <2>1. failed' \subseteq Held'
    BY <1>2, <1>3 DEF StatusInv
  <2>2. status'[config'[c].slot] = Success /\ c \notin failed'
    BY <1>1, <1>2, <1>3, <1>4 DEF StatusInv
  <2>3. \A d \in Held : status'[config'[d].slot] = status[config[d].slot]
    BY <1>1, <1>2, <1>5
  <2>4. QED
    BY <1>2, <1>3, <2>1, <2>2, <2>3 DEF StatusInv, StatusOwn, Success
<1>9. ScratchInv'
  BY <1>3 DEF ScratchInv, ScratchOwned
<1>10. StreamInv'
  BY <1>2, <1>3, <1>5 DEF StreamInv, Prepared
<1>11. QED
  BY <1>6, <1>7, <1>8, <1>9, <1>10

\* Counting a copy of a config changes nothing else of the configs.
LEMMA RefsUpdate ==
  ASSUME NEW S, NEW f \in [Configs -> [kind : Kinds, slot : S,
                                       refs : 0 .. MaxRefs]],
         NEW c \in Configs, NEW r \in 0 .. MaxRefs
  PROVE  LET g == [f EXCEPT ![c].refs = r] IN
         /\ g \in [Configs -> [kind : Kinds, slot : S, refs : 0 .. MaxRefs]]
         /\ \A d \in Configs : g[d].slot = f[d].slot
         /\ \A d \in Configs \ {c} : g[d].refs = f[d].refs
         /\ g[c].refs = r
<1> DEFINE R == [kind : Kinds, slot : S, refs : 0 .. MaxRefs]
           h == [f[c] EXCEPT !.refs = r]
           g == [f EXCEPT ![c].refs = r]
<1>1. h \in R /\ h.slot = f[c].slot /\ h.refs = r
  OBVIOUS
<1>2. g \in [Configs -> R] /\ g[c] = h /\ \A d \in Configs \ {c} : g[d] = f[d]
  BY <1>1
<1> HIDE DEF h, g, R
<1>3. /\ \A d \in Configs : g[d].slot = f[d].slot
      /\ \A d \in Configs \ {c} : g[d].refs = f[d].refs
      /\ g[c].refs = r
  BY <1>1, <1>2
<1>4. QED
  BY <1>2, <1>3 DEF g, R

\* A copy of a config shares the word.
LEMMA CopyConfigStep ==
  ASSUME IInv, NEW c \in Configs, CopyConfig(c)
  PROVE  IInv'
<1> USE DEF IInv
<1>1. /\ alive' = alive /\ scratch' = scratch /\ heap' = heap
      /\ stream' = stream /\ ix_chunk' = ix_chunk /\ pool' = pool
      /\ capacity' = capacity /\ status' = status
      /\ comp_data_size' = comp_data_size /\ failed' = failed
  BY DEF CopyConfig, device
<1>2. /\ config' = [config EXCEPT ![c].refs = @ + 1]
      /\ config[c].refs \in 1 .. MaxRefs - 1
  BY DEF CopyConfig
<1>3. /\ config' \in [Configs -> [kind : Kinds, slot : 0 .. capacity,
                                  refs : 0 .. MaxRefs]]
      /\ \A d \in Configs : config'[d].slot = config[d].slot
      /\ \A d \in Configs \ {c} : config'[d].refs = config[d].refs
      /\ config'[c].refs = config[c].refs + 1
  <2>1. config[c].refs + 1 \in 0 .. MaxRefs
    BY <1>2, Bounds
  <2>2. config' = [config EXCEPT ![c].refs = config[c].refs + 1]
    BY <1>2
  <2>3. config \in [Configs -> [kind : Kinds, slot : 0 .. capacity,
                                refs : 0 .. MaxRefs]]
    BY DEF TypeOK
  <2>4. QED
    BY <2>1, <2>2, <2>3, RefsUpdate
<1>4. Held' = Held
  BY <1>2, <1>3, Bounds DEF Held
<1>5. Held \subseteq Configs
  BY DEF Held
<1>6. TypeOK'
  <2>1. Ops' = Ops
    BY <1>1 DEF Ops
  <2>2. QED
    BY <1>1, <1>3, <2>1 DEF TypeOK
<1>7. PoolInv'
  BY <1>1, <1>3, <1>4, <1>5 DEF PoolInv, Free
<1>8. StatusInv'
  BY <1>1, <1>3, <1>4, <1>5 DEF StatusInv, StatusOwn
<1>9. ScratchInv'
  BY <1>1 DEF ScratchInv, ScratchOwned
<1>10. StreamInv'
  BY <1>1, <1>3, <1>4, <1>5 DEF StreamInv, Prepared
<1>11. QED
  BY <1>6, <1>7, <1>8, <1>9, <1>10

\* A copy that is dropped while there are others leaves the word where it is.
LEMMA DropCopyStep ==
  ASSUME IInv, NEW c \in Configs, DropConfig(c), config[c].refs # 1
  PROVE  IInv'
<1> USE DEF IInv
<1>1. /\ alive' = alive /\ scratch' = scratch /\ heap' = heap
      /\ stream' = stream /\ ix_chunk' = ix_chunk /\ pool' = pool
      /\ capacity' = capacity /\ status' = status
      /\ comp_data_size' = comp_data_size /\ failed' = failed
  BY DEF DropConfig
<1>2. /\ config' = [config EXCEPT ![c].refs = config[c].refs - 1]
      /\ config[c].refs > 0 /\ config[c].refs # 1
  BY DEF DropConfig
<1>3. /\ config \in [Configs -> [kind : Kinds, slot : 0 .. capacity,
                                 refs : 0 .. MaxRefs]]
      /\ config[c].refs \in 0 .. MaxRefs
  BY DEF TypeOK
<1>4. config[c].refs - 1 \in 0 .. MaxRefs
  BY <1>2, <1>3, Bounds
<1>5. /\ config' \in [Configs -> [kind : Kinds, slot : 0 .. capacity,
                                  refs : 0 .. MaxRefs]]
      /\ \A d \in Configs : config'[d].slot = config[d].slot
      /\ \A d \in Configs \ {c} : config'[d].refs = config[d].refs
      /\ config'[c].refs = config[c].refs - 1
  <2>1. config' = [config EXCEPT ![c].refs = config[c].refs - 1]
    BY <1>2
  <2>2. config \in [Configs -> [kind : Kinds, slot : 0 .. capacity,
                                refs : 0 .. MaxRefs]]
    BY <1>3
  <2>3. QED
    BY <1>4, <2>1, <2>2, RefsUpdate
<1>6. Held' = Held
  BY <1>2, <1>3, <1>5, Bounds DEF Held
<1>7. Held \subseteq Configs
  BY DEF Held
<1>8. TypeOK'
  <2>1. Ops' = Ops
    BY <1>1 DEF Ops
  <2>2. QED
    BY <1>1, <1>5, <2>1 DEF TypeOK
<1>9. PoolInv'
  BY <1>1, <1>5, <1>6, <1>7 DEF PoolInv, Free
<1>10. StatusInv'
  BY <1>1, <1>5, <1>6, <1>7 DEF StatusInv, StatusOwn
<1>11. ScratchInv'
  BY <1>1 DEF ScratchInv, ScratchOwned
<1>12. StreamInv'
  BY <1>1, <1>5, <1>6, <1>7 DEF StreamInv, Prepared
<1>13. QED
  BY <1>8, <1>9, <1>10, <1>11, <1>12

\* The last copy gives the word back to the pool; no kernel in the stream
\* reports to it, for the client waited for the config's operations.
LEMMA DropLastStep ==
  ASSUME IInv, NEW c \in Configs, DropConfig(c), config[c].refs = 1
  PROVE  IInv'
<1> USE DEF IInv
<1>1. /\ alive' = alive /\ scratch' = scratch /\ heap' = heap
      /\ stream' = stream /\ ix_chunk' = ix_chunk
      /\ capacity' = capacity /\ status' = status
      /\ comp_data_size' = comp_data_size /\ failed' = failed \ {c}
      /\ pool' = Append(pool, config[c].slot)
      /\ config' = [config EXCEPT ![c] = NoConfig]
      /\ ~Queued(c)
  BY DEF DropConfig
<1>2. c \in Held
  BY DEF Held
<1>3. /\ config[c].slot \in 1 .. capacity
      /\ \A i \in DOMAIN pool : pool[i] # config[c].slot
  BY <1>2, HeldSlot
<1>4. /\ config'[c] = NoConfig
      /\ \A d \in Configs \ {c} : config'[d] = config[d]
  BY <1>1 DEF TypeOK
<1>5. Held' = Held \ {c}
  BY <1>4 DEF Held, NoConfig
<1>6. /\ pool \in Seq(1 .. capacity) /\ Len(pool) \in Nat
      /\ DOMAIN pool = 1 .. Len(pool)
  BY LenProperties DEF TypeOK
<1>7. /\ pool' \in Seq(1 .. capacity)
      /\ Len(pool') = Len(pool) + 1
      /\ \A i \in 1 .. Len(pool) : pool'[i] = pool[i]
      /\ pool'[Len(pool) + 1] = config[c].slot
  BY <1>1, <1>3, <1>6, AppendProperties
<1>8. DOMAIN pool' = 1 .. Len(pool) + 1
  BY <1>7, LenProperties
<1>9. \A d \in Held \ {c} : /\ d \in Configs \ {c} /\ config'[d] = config[d]
                            /\ config[d].slot \in 1 .. capacity
                            /\ config[d].slot # config[c].slot
                            /\ \A i \in DOMAIN pool : pool[i] # config[d].slot
  <2>1. \A d \in Held : d # c => config[d].slot # config[c].slot
    BY <1>2 DEF PoolInv
  <2>2. QED
    BY <1>4, <2>1, HeldSlot
<1>10. TypeOK'
  <2>1. config' \in [Configs -> [kind : Kinds, slot : 0 .. capacity,
                                 refs : 0 .. MaxRefs]]
    <3>1. NoConfig \in [kind : Kinds, slot : 0 .. capacity, refs : 0 .. MaxRefs]
      BY Bounds DEF NoConfig, Kinds, TypeOK
    <3>2. QED
      BY <1>1, <3>1 DEF TypeOK
  <2>2. Ops' = Ops
    BY <1>1 DEF Ops
  <2>3. failed' \subseteq Configs
    BY <1>1 DEF TypeOK
  <2>4. QED
    BY <1>1, <1>7, <2>1, <2>2, <2>3 DEF TypeOK
<1>11. PoolInv'
  <2>1. \A i, j \in DOMAIN pool' : i # j => pool'[i] # pool'[j]
    <3> SUFFICES ASSUME NEW i \in DOMAIN pool', NEW j \in DOMAIN pool', i # j
                 PROVE  pool'[i] # pool'[j]
      OBVIOUS
    <3>1. CASE i \in DOMAIN pool /\ j \in DOMAIN pool
      BY <1>6, <1>7, <3>1 DEF PoolInv
    <3>2. CASE i \notin DOMAIN pool
      BY <1>3, <1>6, <1>7, <1>8, <3>2
    <3>3. CASE j \notin DOMAIN pool
      BY <1>3, <1>6, <1>7, <1>8, <3>3
    <3>4. QED
      BY <3>1, <3>2, <3>3
  <2>2. \A d \in Held' : \A i \in DOMAIN pool' : pool'[i] # config'[d].slot
    <3> SUFFICES ASSUME NEW d \in Held \ {c}, NEW i \in DOMAIN pool'
                 PROVE  pool'[i] # config'[d].slot
      BY <1>5
    <3>1. CASE i \in DOMAIN pool
      BY <1>6, <1>7, <1>9, <3>1
    <3>2. CASE i \notin DOMAIN pool
      BY <1>6, <1>7, <1>8, <1>9, <3>2
    <3>3. QED
      BY <3>1, <3>2
  <2>3. \A d \in Held' : config'[d].slot \in (1 .. capacity) \ Free'
    BY <1>5, <1>9, <2>2 DEF Free
  <2>4. \A d, e \in Held' : d # e => config'[d].slot # config'[e].slot
    BY <1>5, <1>9 DEF PoolInv
  <2>5. Cardinality(Held') = Cardinality(Held) - 1
    BY <1>2, <1>5, HeldCount, FS_RemoveElement
  <2>6. Len(pool') + Cardinality(Held') = capacity'
    BY <1>1, <1>6, <1>7, <2>5, HeldCount DEF PoolInv
  <2>7. QED
    BY <1>1, <2>1, <2>3, <2>4, <2>6 DEF PoolInv
<1>12. StatusInv'
  BY <1>1, <1>5, <1>9 DEF StatusInv, StatusOwn
<1>13. ScratchInv'
  BY <1>1 DEF ScratchInv, ScratchOwned
<1>14. StreamInv'
  <2> SUFFICES ASSUME NEW i \in DOMAIN stream, stream[i].op = "kernel"
               PROVE  Prepared(i)'
    BY <1>1 DEF StreamInv
  <2>1. Prepared(i)
    BY DEF StreamInv
  <2>2. stream[i].cfg # c
    BY <1>1 DEF Queued
  <2>3. QED
    BY <1>1, <1>5, <1>9, <2>1, <2>2 DEF Prepared
<1>15. QED
  BY <1>10, <1>11, <1>12, <1>13, <1>14

-----------------------------------------------------------------------------
(* The scratch buffer.                                                     *)

\* A buffer of the client replaces the manager's own, which is freed only
\* when nothing queued uses it.
LEMMA SetScratchStep ==
  ASSUME IInv, NEW u \in UserScratch, SetScratch(u)
  PROVE  IInv'
<1> USE DEF IInv
<1>1. /\ alive' = alive /\ stream' = stream /\ ix_chunk' = ix_chunk
      /\ pool' = pool /\ capacity' = capacity /\ status' = status
      /\ config' = config
      /\ comp_data_size' = comp_data_size /\ failed' = failed
      /\ scratch' = [ptr |-> u, filled |-> TRUE, mine |-> FALSE]
      /\ alive
  BY DEF SetScratch, device
<1>2. Held' = Held /\ Ops' = Ops /\ Free' = Free
  BY <1>1 DEF Held, Ops, Free
<1>3. CASE scratch.mine
  <2>1. /\ stream = <<>>
        /\ heap' = [heap EXCEPT ![Own] = "freed"]
    BY <1>3 DEF SetScratch, ScratchInv, ScratchOwned
  <2>2. Own \in Scratch /\ Own \notin UserScratch
    BY Bounds DEF Scratch
  <2>3. heap' \in [Scratch -> {"none", "live", "freed"}] /\ heap'[Own] = "freed"
        /\ \A w \in UserScratch : heap'[w] = heap[w]
    BY <2>1, <2>2 DEF TypeOK, Scratch
  <2>4. scratch' \in [ptr : Scratch \cup {Nowhere}, filled : BOOLEAN,
                      mine : BOOLEAN]
    BY <1>1 DEF Scratch
  <2>5. TypeOK'
    BY <1>1, <1>2, <2>3, <2>4 DEF TypeOK
  <2>6. ScratchInv'
    BY <1>1, <2>3 DEF ScratchInv, ScratchOwned
  <2>7. StreamInv'
    BY <1>1, <2>1 DEF StreamInv
  <2>8. QED
    BY <1>1, <1>2, <2>5, <2>6, <2>7 DEF PoolInv, StatusInv, StatusOwn
<1>4. CASE ~scratch.mine
  <2>1. heap' = heap
    BY <1>4 DEF SetScratch
  <2>2. scratch' \in [ptr : Scratch \cup {Nowhere}, filled : BOOLEAN,
                      mine : BOOLEAN]
    BY <1>1 DEF Scratch
  <2>3. TypeOK'
    BY <1>1, <1>2, <2>1, <2>2 DEF TypeOK
  <2>4. ScratchInv'
    BY <1>1, <1>4, <2>1 DEF ScratchInv, ScratchOwned
  <2>5. StreamInv'
    BY <1>1, <1>2, <2>1 DEF StreamInv, Prepared
  <2>6. QED
    BY <1>1, <1>2, <2>3, <2>4, <2>5 DEF PoolInv, StatusInv, StatusOwn
<1>5. QED
  BY <1>3, <1>4

\* An operation gets a scratch buffer that is allocated, and takes none away.
LEMMA FillScratchEffect ==
  ASSUME TypeOK, ScratchInv, alive, alive' = alive, FillScratch
  PROVE  /\ scratch' \in [ptr : Scratch \cup {Nowhere}, filled : BOOLEAN,
                          mine : BOOLEAN]
         /\ heap' \in [Scratch -> {"none", "live", "freed"}]
         /\ scratch'.ptr \in Scratch /\ heap'[scratch'.ptr] = "live"
         /\ \A s \in Scratch : heap[s] = "live" => heap'[s] = "live"
         /\ ScratchInv'
<1>1. Own \in Scratch /\ Own \notin UserScratch /\ UserScratch \subseteq Scratch
  BY Bounds DEF Scratch
<1>2. CASE scratch.filled
  <2>1. scratch' = scratch /\ heap' = heap
    BY <1>2 DEF FillScratch
  <2>2. scratch.ptr \in Scratch /\ heap[scratch.ptr] = "live"
    BY <1>1, <1>2 DEF ScratchInv, ScratchOwned
  <2>3. QED
    BY <2>1, <2>2 DEF TypeOK, ScratchInv, ScratchOwned
<1>3. CASE ~scratch.filled
  <2>1. /\ heap' = [heap EXCEPT ![Own] = "live"]
        /\ scratch' = [ptr |-> Own, filled |-> TRUE, mine |-> TRUE]
    BY <1>3 DEF FillScratch
  <2>2. /\ heap' \in [Scratch -> {"none", "live", "freed"}]
        /\ heap'[Own] = "live"
        /\ \A s \in Scratch \ {Own} : heap'[s] = heap[s]
    BY <1>1, <2>1 DEF TypeOK
  <2>3. ScratchInv'
    BY <1>1, <2>1, <2>2 DEF ScratchInv, ScratchOwned
  <2>4. QED
    BY <1>1, <2>1, <2>2, <2>3
<1>4. QED
  BY <1>2, <1>3

-----------------------------------------------------------------------------
(* The stream.                                                             *)

\* What queueing an operation leaves alone.
LEMMA QueueFrame ==
  ASSUME IInv, alive, FillScratch,
         UNCHANGED <<alive, pool, capacity, status, config, ix_chunk,
                     comp_data_size, failed>>
  PROVE  /\ PoolInv' /\ StatusInv' /\ ScratchInv'
         /\ Held' = Held
         /\ stream' \in Seq(Ops) => TypeOK'
         /\ \A i \in DOMAIN stream :
              stream[i].op = "kernel" /\ Prepared(i) =>
                heap'[stream[i].scratch] = "live"
<1> USE DEF IInv
<1>1. /\ Held' = Held /\ Ops' = Ops /\ Free' = Free
      /\ alive' = alive /\ pool' = pool /\ capacity' = capacity
      /\ status' = status /\ config' = config /\ ix_chunk' = ix_chunk
      /\ comp_data_size' = comp_data_size /\ failed' = failed
  BY DEF Held, Ops, Free
<1>2. /\ scratch' \in [ptr : Scratch \cup {Nowhere}, filled : BOOLEAN,
                       mine : BOOLEAN]
      /\ heap' \in [Scratch -> {"none", "live", "freed"}]
      /\ \A s \in Scratch : heap[s] = "live" => heap'[s] = "live"
      /\ ScratchInv'
  BY <1>1, FillScratchEffect
<1>3. PoolInv' /\ StatusInv'
  BY <1>1 DEF PoolInv, StatusInv, StatusOwn
<1>4. stream' \in Seq(Ops) => TypeOK'
  BY <1>1, <1>2 DEF TypeOK
<1>5. \A i \in DOMAIN stream : stream[i].op = "kernel" =>
        stream[i].scratch \in Scratch
  <2> SUFFICES ASSUME NEW i \in DOMAIN stream, stream[i].op = "kernel"
               PROVE  stream[i].scratch \in Scratch
    OBVIOUS
  <2>1. stream[i] \in Ops
    BY LenProperties DEF TypeOK
  <2>2. QED
    BY <2>1, OpsKinds
<1>6. \A i \in DOMAIN stream : stream[i].op = "kernel" /\ Prepared(i) =>
        heap'[stream[i].scratch] = "live"
  BY <1>2, <1>5 DEF Prepared
<1>7. QED
  BY <1>1, <1>2, <1>3, <1>4, <1>6

\* A compression is queued with the zeroing of the buffer's size word and of
\* the chunk counter right before its kernel.
LEMMA CompressStep ==
  ASSUME IInv, NEW b \in CompBuffers, NEW c \in Configs, Compress(b, c)
  PROVE  IInv'
<1> DEFINE n == Len(stream)
           p == Prepare(b)
           z == ZeroChunk
           k == Kernel("compress", b, c)
<1> USE DEF IInv
<1>1. /\ alive /\ c \in Held /\ FillScratch
      /\ stream' = stream \o <<p, z, k>>
      /\ alive' = alive /\ pool' = pool /\ capacity' = capacity
      /\ status' = status /\ config' = config /\ ix_chunk' = ix_chunk
      /\ comp_data_size' = comp_data_size /\ failed' = failed
  BY DEF Compress, Queue
<1>2. scratch'.ptr \in Scratch /\ heap'[scratch'.ptr] = "live"
  BY <1>1, FillScratchEffect
<1>3. /\ k \in Ops /\ k.op = "kernel" /\ k.kind = "compress" /\ k.buf = b
      /\ k.cfg = c /\ k.slot = config[c].slot /\ k.scratch = scratch'.ptr
  BY <1>1, <1>2, KernelOp DEF Kinds
<1>4. /\ p \in Ops /\ p.op = "prepare" /\ p = Prepare(b)
      /\ z \in Ops /\ z.op = "zero_chunk" /\ z = ZeroChunk
  BY OpsMembers
<1>5. /\ PoolInv' /\ StatusInv' /\ ScratchInv' /\ Held' = Held
      /\ stream' \in Seq(Ops) => TypeOK'
      /\ \A i \in DOMAIN stream : stream[i].op = "kernel" /\ Prepared(i) =>
           heap'[stream[i].scratch] = "live"
  BY <1>1, QueueFrame
<1>6. stream \in Seq(Ops) /\ n \in Nat /\ DOMAIN stream = 1 .. n
  BY LenProperties DEF TypeOK
<1> HIDE DEF n, p, z, k
<1>7. /\ stream' \in Seq(Ops) /\ DOMAIN stream' = 1 .. n + 3
      /\ \A i \in 1 .. n : stream'[i] = stream[i]
      /\ stream'[n + 1] = p /\ stream'[n + 2] = z /\ stream'[n + 3] = k
  BY <1>1, <1>3, <1>4, <1>6 DEF n
<1>8. ASSUME NEW i \in DOMAIN stream', stream'[i].op = "kernel"
      PROVE  Prepared(i)'
  <2>1. CASE i \in 1 .. n
    <3>1. stream'[i] = stream[i]
      BY <1>7, <2>1
    <3>2. stream[i].op = "kernel"
      BY <1>8, <3>1
    <3>3. Prepared(i)
      BY <1>6, <2>1, <3>2 DEF StreamInv
    <3>4. heap'[stream[i].scratch] = "live"
      BY <1>5, <1>6, <2>1, <3>2, <3>3
    <3>5. i - 1 \in 1 .. n \/ i = 1
      BY <1>6, <2>1
    <3>6. i - 2 \in 1 .. n \/ i <= 2
      BY <1>6, <2>1
    <3>7. QED
      BY <1>1, <1>5, <1>7, <3>1, <3>3, <3>4, <3>5, <3>6 DEF Prepared
  <2>2. CASE i = n + 3
    <3>1. stream'[i] = k /\ stream'[i - 1] = z /\ stream'[i - 2] = p
      BY <1>6, <1>7, <2>2
    <3>2. ~(i <= 2) /\ i # 1
      BY <1>6, <2>2
    <3>3. QED
      BY <1>1, <1>2, <1>3, <1>4, <1>5, <3>1, <3>2 DEF Prepared
  <2>3. CASE i = n + 1 \/ i = n + 2
    BY <1>4, <1>7, <1>8, <2>3
  <2>4. QED
    BY <1>6, <1>7, <2>1, <2>2, <2>3
<1>9. StreamInv'
  BY <1>8 DEF StreamInv
<1>10. QED
  BY <1>5, <1>7, <1>9

\* A decompression is queued with the zeroing of the chunk counter right
\* before its kernel.
LEMMA DecompressStep ==
  ASSUME IInv, NEW b \in CompBuffers, NEW c \in Configs, Decompress(b, c)
  PROVE  IInv'
<1> DEFINE n == Len(stream)
           z == ZeroChunk
           k == Kernel("decompress", b, c)
<1> USE DEF IInv
<1>1. /\ alive /\ c \in Held /\ FillScratch
      /\ stream' = stream \o <<z, k>>
      /\ alive' = alive /\ pool' = pool /\ capacity' = capacity
      /\ status' = status /\ config' = config /\ ix_chunk' = ix_chunk
      /\ comp_data_size' = comp_data_size /\ failed' = failed
  BY DEF Decompress, Queue
<1>2. scratch'.ptr \in Scratch /\ heap'[scratch'.ptr] = "live"
  BY <1>1, FillScratchEffect
<1>3. /\ k \in Ops /\ k.op = "kernel" /\ k.kind = "decompress" /\ k.buf = b
      /\ k.cfg = c /\ k.slot = config[c].slot /\ k.scratch = scratch'.ptr
  BY <1>1, <1>2, KernelOp DEF Kinds
<1>4. z \in Ops /\ z.op = "zero_chunk" /\ z = ZeroChunk
  BY OpsMembers
<1>5. /\ PoolInv' /\ StatusInv' /\ ScratchInv' /\ Held' = Held
      /\ stream' \in Seq(Ops) => TypeOK'
      /\ \A i \in DOMAIN stream : stream[i].op = "kernel" /\ Prepared(i) =>
           heap'[stream[i].scratch] = "live"
  BY <1>1, QueueFrame
<1>6. stream \in Seq(Ops) /\ n \in Nat /\ DOMAIN stream = 1 .. n
  BY LenProperties DEF TypeOK
<1> HIDE DEF n, z, k
<1>7. /\ stream' \in Seq(Ops) /\ DOMAIN stream' = 1 .. n + 2
      /\ \A i \in 1 .. n : stream'[i] = stream[i]
      /\ stream'[n + 1] = z /\ stream'[n + 2] = k
  BY <1>1, <1>3, <1>4, <1>6 DEF n
<1>8. ASSUME NEW i \in DOMAIN stream', stream'[i].op = "kernel"
      PROVE  Prepared(i)'
  <2>1. CASE i \in 1 .. n
    <3>1. stream'[i] = stream[i]
      BY <1>7, <2>1
    <3>2. stream[i].op = "kernel"
      BY <1>8, <3>1
    <3>3. Prepared(i)
      BY <1>6, <2>1, <3>2 DEF StreamInv
    <3>4. heap'[stream[i].scratch] = "live"
      BY <1>5, <1>6, <2>1, <3>2, <3>3
    <3>5. i - 1 \in 1 .. n \/ i = 1
      BY <1>6, <2>1
    <3>6. i - 2 \in 1 .. n \/ i <= 2
      BY <1>6, <2>1
    <3>7. QED
      BY <1>1, <1>5, <1>7, <3>1, <3>3, <3>4, <3>5, <3>6 DEF Prepared
  <2>2. CASE i = n + 2
    <3>1. stream'[i] = k /\ stream'[i - 1] = z
      BY <1>6, <1>7, <2>2
    <3>2. i # 1
      BY <1>6, <2>2
    <3>3. QED
      BY <1>1, <1>2, <1>3, <1>4, <1>5, <3>1, <3>2 DEF Prepared
  <2>3. CASE i = n + 1
    BY <1>4, <1>7, <1>8, <2>3
  <2>4. QED
    BY <1>6, <1>7, <2>1, <2>2, <2>3
<1>9. StreamInv'
  BY <1>8 DEF StreamInv
<1>10. QED
  BY <1>5, <1>7, <1>9

\* The first operation and the rest of a stream that is not empty.
LEMMA HeadAndTail ==
  ASSUME TypeOK, stream # <<>>
  PROVE  /\ Len(stream) \in Nat \ {0} /\ DOMAIN stream = 1 .. Len(stream)
         /\ Head(stream) = stream[1] /\ Head(stream) \in Ops
         /\ Tail(stream) \in Seq(Ops)
         /\ DOMAIN Tail(stream) = 1 .. Len(stream) - 1
         /\ \A i \in 1 .. Len(stream) - 1 : Tail(stream)[i] = stream[i + 1]
<1>1. stream \in Seq(Ops) /\ Len(stream) \in Nat \ {0}
      /\ DOMAIN stream = 1 .. Len(stream)
  BY EmptySeq, LenProperties DEF TypeOK
<1>2. /\ Head(stream) \in Ops /\ Tail(stream) \in Seq(Ops)
      /\ Len(Tail(stream)) = Len(stream) - 1
      /\ \A i \in 1 .. Len(Tail(stream)) : Tail(stream)[i] = stream[i + 1]
  BY <1>1, HeadTailProperties
<1>3. Head(stream) = stream[1]
  BY <1>1
<1>4. DOMAIN Tail(stream) = 1 .. Len(stream) - 1
  BY <1>2, LenProperties
<1>5. QED
  BY <1>1, <1>2, <1>3, <1>4

\* When the stream moves on, a kernel finds done what was queued for it, if
\* the operation executed did what it is there for.
LEMMA StreamMoves ==
  ASSUME IInv, stream # <<>>, stream' = Tail(stream), config' = config,
         heap' = heap,
         Head(stream) = ZeroChunk => ix_chunk',
         Head(stream) = ZeroChunk => comp_data_size' = comp_data_size,
         \A b \in CompBuffers : Head(stream) = Prepare(b) => comp_data_size'[b]
  PROVE  StreamInv'
<1> DEFINE n == Len(stream)
<1> USE DEF IInv
<1>1. /\ n \in Nat \ {0} /\ DOMAIN stream = 1 .. n
      /\ Head(stream) = stream[1]
      /\ DOMAIN stream' = 1 .. n - 1
      /\ \A i \in 1 .. n - 1 : stream'[i] = stream[i + 1]
  BY HeadAndTail
<1>2. Held' = Held
  BY DEF Held
<1> HIDE DEF n
<1>3. ASSUME NEW i \in DOMAIN stream', stream'[i].op = "kernel"
      PROVE  Prepared(i)'
  <2>1. /\ i \in 1 .. n - 1 /\ i + 1 \in 1 .. n /\ i + 1 # 1
        /\ stream'[i] = stream[i + 1]
    BY <1>1
  <2>2. PICK j \in 1 .. n : j = i + 1
    BY <2>1
  <2>3. Prepared(j) /\ stream[j].op = "kernel" /\ stream'[i] = stream[j]
    BY <1>1, <1>3, <2>1, <2>2 DEF StreamInv
  <2>4. j # 1 /\ stream[j - 1] = ZeroChunk
    BY <2>1, <2>2, <2>3 DEF Prepared
  <2>5. IF i = 1 THEN ix_chunk' ELSE stream'[i - 1] = ZeroChunk
    <3>1. CASE i = 1
      BY <1>1, <2>2, <2>4, <3>1
    <3>2. CASE i # 1
      <4>1. i - 1 \in 1 .. n - 1 /\ (i - 1) + 1 = j - 1
        BY <1>1, <2>1, <2>2, <3>2
      <4>2. stream'[i - 1] = stream[j - 1]
        BY <1>1, <4>1
      <4>3. QED
        BY <2>4, <3>2, <4>2
    <3>3. QED
      BY <3>1, <3>2
  <2>6. stream[j].kind = "compress" =>
          IF i <= 2 THEN comp_data_size'[stream[j].buf]
          ELSE stream'[i - 2] = Prepare(stream[j].buf)
    <3> SUFFICES ASSUME stream[j].kind = "compress"
                 PROVE  IF i <= 2 THEN comp_data_size'[stream[j].buf]
                        ELSE stream'[i - 2] = Prepare(stream[j].buf)
      OBVIOUS
    <3>1. stream[j] \in Ops
      BY <2>2, LenProperties DEF TypeOK, n
    <3>2. stream[j].buf \in CompBuffers
      BY <2>3, <3>1, OpsKinds
    <3>3. IF j <= 2 THEN comp_data_size[stream[j].buf]
          ELSE stream[j - 2] = Prepare(stream[j].buf)
      BY <2>3 DEF Prepared
    <3>4. CASE i = 1
      BY <1>1, <2>2, <2>4, <3>3, <3>4
    <3>5. CASE i = 2
      BY <1>1, <2>2, <3>2, <3>3, <3>5
    <3>6. CASE i > 2
      <4>1. i - 2 \in 1 .. n - 1 /\ (i - 2) + 1 = j - 2 /\ ~(j <= 2) /\ ~(i <= 2)
        BY <1>1, <2>1, <2>2, <3>6
      <4>2. stream'[i - 2] = stream[j - 2]
        BY <1>1, <4>1
      <4>3. QED
        BY <3>3, <4>1, <4>2
    <3>7. QED
      BY <2>1, <3>4, <3>5, <3>6
  <2>7. QED
    BY <1>2, <2>3, <2>5, <2>6 DEF Prepared
<1>4. QED
  BY <1>3 DEF StreamInv

\* The size word of a buffer is zeroed.
LEMMA RunPrepareStep ==
  ASSUME IInv, RunPrepare
  PROVE  IInv'
<1> USE DEF IInv
<1>1. /\ stream # <<>> /\ Head(stream).op = "prepare" /\ stream' = Tail(stream)
      /\ alive' = alive /\ pool' = pool /\ capacity' = capacity
      /\ status' = status /\ config' = config /\ ix_chunk' = ix_chunk
      /\ scratch' = scratch /\ heap' = heap /\ failed' = failed
      /\ comp_data_size' = [comp_data_size EXCEPT ![Head(stream).buf] = TRUE]
  BY DEF RunPrepare, Executes
<1>2. Head(stream) \in Ops /\ Tail(stream) \in Seq(Ops)
  BY <1>1, HeadAndTail
<1>3. PICK b \in CompBuffers : Head(stream).buf = b /\ Head(stream) = Prepare(b)
  BY <1>1, <1>2, OpsKinds
<1>4. comp_data_size' = [comp_data_size EXCEPT ![b] = TRUE]
  BY <1>1, <1>3
<1>5. Head(stream) # ZeroChunk
  BY <1>1, OpsMembers, <1>3
<1>6. \A d \in CompBuffers : Head(stream) = Prepare(d) => comp_data_size'[d]
  <2> SUFFICES ASSUME NEW d \in CompBuffers, Head(stream) = Prepare(d)
               PROVE  comp_data_size'[d]
    OBVIOUS
  <2>1. d = b
    BY <1>3, OpsMembers
  <2>2. QED
    BY <1>4, <2>1 DEF TypeOK
<1>7. StreamInv'
  BY <1>1, <1>5, <1>6, StreamMoves
<1>8. Held' = Held /\ Ops' = Ops /\ Free' = Free
  BY <1>1 DEF Held, Ops, Free
<1>9. comp_data_size' \in [CompBuffers -> BOOLEAN]
  BY <1>4 DEF TypeOK
<1>10. TypeOK'
  BY <1>1, <1>2, <1>8, <1>9 DEF TypeOK
<1>11. PoolInv' /\ StatusInv' /\ ScratchInv'
  BY <1>1, <1>8 DEF PoolInv, StatusInv, StatusOwn, ScratchInv, ScratchOwned
<1>12. QED
  BY <1>7, <1>10, <1>11

\* The chunk counter is zeroed.
LEMMA RunZeroChunkStep ==
  ASSUME IInv, RunZeroChunk
  PROVE  IInv'
<1> USE DEF IInv
<1>1. /\ stream # <<>> /\ Head(stream).op = "zero_chunk"
      /\ stream' = Tail(stream)
      /\ alive' = alive /\ pool' = pool /\ capacity' = capacity
      /\ status' = status /\ config' = config /\ ix_chunk' = TRUE
      /\ scratch' = scratch /\ heap' = heap /\ failed' = failed
      /\ comp_data_size' = comp_data_size
  BY DEF RunZeroChunk, Executes
<1>2. Tail(stream) \in Seq(Ops)
  BY <1>1, HeadAndTail
<1>3. \A b \in CompBuffers : Head(stream) # Prepare(b)
  BY <1>1, OpsMembers
<1>4. StreamInv'
  BY <1>1, <1>3, StreamMoves
<1>5. Held' = Held /\ Ops' = Ops /\ Free' = Free
  BY <1>1 DEF Held, Ops, Free
<1>6. TypeOK'
  BY <1>1, <1>2, <1>5 DEF TypeOK
<1>7. PoolInv' /\ StatusInv' /\ ScratchInv'
  BY <1>1, <1>5 DEF PoolInv, StatusInv, StatusOwn, ScratchInv, ScratchOwned
<1>8. QED
  BY <1>4, <1>6, <1>7

\* A kernel reports to the word of its own config.
LEMMA RunKernelStep ==
  ASSUME IInv, RunKernel
  PROVE  IInv'
<1> DEFINE k == Head(stream)
<1> USE DEF IInv
<1>1. /\ stream # <<>> /\ k.op = "kernel" /\ stream' = Tail(stream)
      /\ alive' = alive /\ pool' = pool /\ capacity' = capacity
      /\ config' = config /\ ix_chunk' = FALSE
      /\ scratch' = scratch /\ heap' = heap
      /\ comp_data_size' = IF k.kind = "compress"
                           THEN [comp_data_size EXCEPT ![k.buf] = FALSE]
                           ELSE comp_data_size
      /\ \/ status' = status /\ failed' = failed
         \/ /\ status' = [status EXCEPT ![k.slot] = "error"]
            /\ failed' = failed \cup {k.cfg}
  BY DEF RunKernel, Executes
<1>2. k \in Ops /\ Tail(stream) \in Seq(Ops) /\ 1 \in DOMAIN stream
      /\ k = stream[1]
  BY <1>1, HeadAndTail
<1>3. k.slot \in 1 .. capacity /\ k.buf \in CompBuffers /\ k.cfg \in Configs
  BY <1>1, <1>2, OpsKinds
<1>4. k.cfg \in Held /\ config[k.cfg].slot = k.slot
  <2>1. Prepared(1)
    BY <1>1, <1>2 DEF StreamInv
  <2>2. QED
    BY <1>2, <2>1 DEF Prepared
<1>5. k # ZeroChunk /\ \A b \in CompBuffers : k # Prepare(b)
  BY <1>1, <1>3, OpsMembers
<1>6. StreamInv'
  BY <1>1, <1>5, StreamMoves
<1>7. Held' = Held /\ Ops' = Ops /\ Free' = Free
  BY <1>1 DEF Held, Ops, Free
<1> HIDE DEF k
<1>8. TypeOK'
  <2>1. comp_data_size' \in [CompBuffers -> BOOLEAN]
    BY <1>1, <1>3 DEF TypeOK
  <2>2. status' \in [1 .. capacity -> Status]
    BY <1>1, <1>3 DEF TypeOK, Status
  <2>3. failed' \subseteq Configs
    BY <1>1, <1>3 DEF TypeOK
  <2>4. QED
    BY <1>1, <1>2, <1>7, <2>1, <2>2, <2>3 DEF TypeOK
<1>9. PoolInv' /\ ScratchInv'
  BY <1>1, <1>7 DEF PoolInv, ScratchInv, ScratchOwned
<1>10. StatusInv'
  <2>1. CASE status' = status /\ failed' = failed
    BY <1>1, <1>7, <2>1 DEF StatusInv, StatusOwn
  <2>2. CASE /\ status' = [status EXCEPT ![k.slot] = "error"]
             /\ failed' = failed \cup {k.cfg}
    <3>1. \A d \in Held : /\ config[d].slot \in 1 .. capacity
                          /\ d # k.cfg => config[d].slot # k.slot
      BY <1>4, HeldSlot DEF PoolInv
    <3>2. /\ status'[k.slot] = "error"
          /\ \A s \in 1 .. capacity : s # k.slot => status'[s] = status[s]
      BY <1>3, <2>2 DEF TypeOK
    <3>3. QED
      BY <1>1, <1>4, <1>7, <2>2, <3>1, <3>2 DEF StatusInv, StatusOwn
  <2>3. QED
    BY <1>1, <2>1, <2>2
<1>11. QED
  BY <1>6, <1>8, <1>9, <1>10

\* The manager goes with nothing queued, and frees what it allocated.
LEMMA DestroyStep ==
  ASSUME IInv, Destroy
  PROVE  IInv'
<1> USE DEF IInv
<1>1. /\ alive /\ alive' = FALSE /\ stream = <<>> /\ stream' = stream
      /\ pool' = pool /\ capacity' = capacity /\ status' = status
      /\ config' = config /\ ix_chunk' = ix_chunk /\ scratch' = scratch
      /\ comp_data_size' = comp_data_size /\ failed' = failed
      /\ heap' = IF scratch.filled /\ scratch.mine
                 THEN [heap EXCEPT ![scratch.ptr] = "freed"] ELSE heap
  BY DEF Destroy, device
<1>2. Held' = Held /\ Ops' = Ops /\ Free' = Free
  BY <1>1 DEF Held, Ops, Free
<1>3. Own \in Scratch /\ Own \notin UserScratch
  BY Bounds DEF Scratch
<1>4. /\ heap' \in [Scratch -> {"none", "live", "freed"}]
      /\ heap'[Own] # "live"
      /\ \A u \in UserScratch : heap'[u] = heap[u]
  <2>1. CASE scratch.mine
    <3>1. heap' = [heap EXCEPT ![Own] = "freed"]
      BY <1>1, <2>1 DEF ScratchInv, ScratchOwned
    <3>2. QED
      BY <1>3, <3>1 DEF TypeOK, Scratch
  <2>2. CASE ~scratch.mine
    BY <1>1, <2>2 DEF TypeOK, ScratchInv, ScratchOwned
  <2>3. QED
    BY <2>1, <2>2
<1>5. TypeOK'
  BY <1>1, <1>2, <1>4 DEF TypeOK
<1>6. PoolInv' /\ StatusInv'
  BY <1>1, <1>2 DEF PoolInv, StatusInv, StatusOwn
<1>7. ScratchInv'
  BY <1>1, <1>4 DEF ScratchInv, ScratchOwned
<1>8. StreamInv'
  BY <1>1 DEF StreamInv
<1>9. QED
  BY <1>5, <1>6, <1>7, <1>8

-----------------------------------------------------------------------------
(* The theorems.                                                           *)

\* Every step of the client and of the device keeps the manager in order.
LEMMA NextStep ==
  ASSUME IInv, [Next]_vars
  PROVE  IInv'
<1>1. ASSUME NEW c \in Configs,
             \/ ConfigureCompression(c)
             \/ ConfigureFromConfig(c)
             \/ ConfigureFromBuffer(c)
      PROVE  IInv'
  <2>1. PICK kind \in Kinds : NewConfig(c, kind)
    BY <1>1 DEF ConfigureCompression, ConfigureFromConfig,
                ConfigureFromBuffer, Kinds
  <2>2. QED
    BY <2>1, NewConfigStep
<1>2. ASSUME NEW c \in Configs, CopyConfig(c) PROVE IInv'
  BY <1>2, CopyConfigStep
<1>3. ASSUME NEW c \in Configs, DropConfig(c) PROVE IInv'
  BY <1>3, DropCopyStep, DropLastStep
<1>4. ASSUME NEW c \in Configs, NEW b \in CompBuffers,
             Compress(b, c) \/ Decompress(b, c)
      PROVE  IInv'
  BY <1>4, CompressStep, DecompressStep
<1>5. ASSUME NEW u \in UserScratch, SetScratch(u) PROVE IInv'
  BY <1>5, SetScratchStep
<1>6. CASE Destroy
  BY <1>6, DestroyStep
<1>7. CASE Device
  BY <1>7, RunPrepareStep, RunZeroChunkStep, RunKernelStep DEF Device
<1>8. CASE UNCHANGED vars
  <2>1. /\ alive' = alive /\ pool' = pool /\ capacity' = capacity
        /\ status' = status /\ config' = config /\ scratch' = scratch
        /\ heap' = heap /\ stream' = stream /\ ix_chunk' = ix_chunk
        /\ comp_data_size' = comp_data_size /\ failed' = failed
    BY <1>8 DEF vars
  <2>2. Held' = Held /\ Ops' = Ops /\ Free' = Free
    BY <2>1 DEF Held, Ops, Free
  <2>3. TypeOK' /\ PoolInv'
    BY <2>1, <2>2 DEF IInv, TypeOK, PoolInv
  <2>4. StatusInv' /\ ScratchInv'
    BY <2>1, <2>2 DEF IInv, StatusInv, StatusOwn, ScratchInv, ScratchOwned
  <2>5. StreamInv'
    BY <2>1, <2>2 DEF IInv, StreamInv, Prepared
  <2>6. QED
    BY <2>3, <2>4, <2>5 DEF IInv
<1>9. QED
  BY <1>1, <1>2, <1>3, <1>4, <1>5, <1>6, <1>7, <1>8 DEF Next, Client

\* The inductive invariant: pool, configs, stream and scratch buffer agree
\* with each other in every state the client and the device can reach.
THEOREM Inductive == Spec => []IInv
<1>1. Init => IInv
  BY InitInv
<1>2. IInv /\ [Next]_vars => IInv'
  BY NextStep
<1>3. QED
  BY <1>1, <1>2, PTL DEF Spec

\* Every variable keeps its type: the stream holds nothing but operations and
\* the pool nothing but words that exist.
THEOREM TypeCorrect == Spec => []TypeOK
<1>1. IInv => TypeOK
  BY DEF IInv
<1>2. QED
  BY <1>1, Inductive, PTL

\* No status word is lost, none is in the pool and with a config, none is with
\* two configs (PinnedPtrPool: allocate, deallocate and the handle's moves).
THEOREM WordsShared == Spec => []WordsApart
<1>1. IInv => WordsApart
  BY FreeCount DEF IInv, PoolInv, WordsApart
<1>2. QED
  BY <1>1, Inductive, PTL

\* The status a client reads of a config is an error exactly if one of this
\* config's operations failed, though words are used again and again.
THEOREM StatusOfConfig == Spec => []StatusOwn
<1>1. IInv => StatusOwn
  BY DEF IInv, StatusInv
<1>2. QED
  BY <1>1, Inductive, PTL

\* A kernel starts with its chunk counter and size word zero, its scratch
\* buffer allocated and its status word that of its config, whatever was
\* queued, dropped or replaced between its launch and its start.
THEOREM KernelsReady == Spec => []KernelReady
<1>1. ASSUME IInv, stream # <<>>, Head(stream).op = "kernel"
      PROVE  LET k == Head(stream) IN
             /\ ix_chunk
             /\ k.kind = "compress" =>
                  comp_data_size[k.buf] /\ heap[k.scratch] = "live"
             /\ k.cfg \in Held /\ config[k.cfg].slot = k.slot
  <2>1. 1 \in DOMAIN stream /\ Head(stream) = stream[1]
    BY <1>1, HeadAndTail DEF IInv
  <2>2. Prepared(1)
    BY <1>1, <2>1 DEF IInv, StreamInv
  <2>3. QED
    BY <2>1, <2>2 DEF Prepared
<1>2. IInv => KernelReady
  BY <1>1 DEF KernelReady
<1>3. QED
  BY <1>2, Inductive, PTL

\* The manager frees the scratch buffer it allocated and never the client's.
THEOREM ScratchNeverTaken == Spec => []ScratchOwned
<1>1. IInv => ScratchOwned
  BY DEF IInv, ScratchInv
<1>2. QED
  BY <1>1, Inductive, PTL

\* What has been freed stays so: no operation allocates or uses a second time
\* the buffer that set_scratch_buffer has replaced (ManagerBase).
THEOREM FreedForGood ==
  Spec => [][\A s \in Scratch : heap[s] = "freed" => heap'[s] = "freed"]_vars
<1>1. ASSUME IInv, Next, NEW s \in Scratch, heap[s] = "freed"
      PROVE  heap'[s] = "freed"
  <2>1. CASE heap' = heap
    BY <1>1, <2>1
  <2>2. CASE heap' = [heap EXCEPT ![scratch.ptr] = "freed"]
    BY <1>1, <2>2 DEF IInv, TypeOK
  <2>3. CASE FillScratch
    BY <1>1, <2>3 DEF FillScratch, IInv, TypeOK, ScratchInv
  <2>4. heap' = heap \/ heap' = [heap EXCEPT ![scratch.ptr] = "freed"]
          \/ FillScratch
    BY <1>1 DEF Next, Client, Device, ConfigureCompression,
                ConfigureFromConfig, ConfigureFromBuffer, NewConfig,
                CopyConfig, DropConfig, Compress, Decompress, SetScratch,
                Destroy, RunPrepare, RunZeroChunk, RunKernel, Executes
  <2>5. QED
    BY <2>1, <2>2, <2>3, <2>4
<1>2. IInv /\ [Next]_vars =>
        [\A s \in Scratch : heap[s] = "freed" => heap'[s] = "freed"]_vars
  BY <1>1
<1>3. QED
  BY <1>2, Inductive, PTL DEF Spec
=============================================================================
