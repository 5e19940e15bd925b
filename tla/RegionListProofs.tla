-------------------------- MODULE RegionListProofs ---------------------------
(***************************************************************************)
(* Proofs that the safety properties of module RegionList hold for any     *)
(* sets of threads and regions, any sizes and any retry limit, and that    *)
(* the list implements module RegionPool.  All of them rest on one         *)
(* inductive invariant, Inv.                                               *)
(***************************************************************************)
EXTENDS RegionList, SequenceTheorems, TLAPS

\* A thread has a region from pup_heap_thread_init() on, and a second one
\* exactly while it pushes; the fresh one stays empty, and large enough for
\* the request, until the push is over.
ThreadInv ==
  \A t \in Threads :
    /\ pc[t] = "new" <=> local_region[t] = Null
    /\ Pushing(t) <=> old_region[t] # Null
    /\ Pushing(t) => /\ allocated[local_region[t]] = 0
                     /\ request[t] <= MaxAlloc
                     /\ aborted \/ limit[t] # 0
    /\ pc[t] = "cas" => next[old_region[t]] = old_head[t]
    /\ pc[t] = "exited" => t # Main

\* The collector's local is a region from the load on and NULL before it.
CollectorInv ==
  /\ gc \in {"idle", "load"} => gc_r = Null
  /\ gc \in {"next", "cas", "collect", "free"} => gc_r # Null

\* pup_heap_destroy() runs alone: the other threads have ended or never began,
\* and the collector is stopped before the list is freed.
DestroyInv ==
  /\ \A t \in Threads \ {Main} : pc[t] \notin {"join", "destroy", "destroyed"}
  /\ pc[Main] \in {"join", "destroy", "destroyed"} =>
       \A t \in Threads \ {Main} : pc[t] \in {"new", "exited"}
  /\ gc = "stopped" <=> pc[Main] \in {"destroy", "destroyed"}
  /\ pc[Main] = "destroyed" => tail = Null

\* An attempt whose compare-and-swap is going to fail has seen one more update
\* of the list than attempts that failed before it.
ContentionInv ==
  \A t \in Threads :
    ~aborted /\ pc[t] = "cas" /\ region_list # old_head[t] => Limit - limit[t] < moves[t]

Inv ==
  /\ TypeOK
  /\ ThreadInv
  /\ CollectorInv
  /\ DestroyInv
  /\ ContentionInv
  /\ ListIsChain
  /\ SingleOwner
  /\ StealIsCurrent
  /\ AbortNeedsContention

-----------------------------------------------------------------------------
(* Ownership as a partition.                                               *)

Owners == Threads \cup {"unmapped", "listed", "collector"}

Holding(o) ==
  IF o = "unmapped" THEN Regions \ mapped
  ELSE IF o = "listed" THEN Listed
  ELSE IF o = "collector" THEN Stolen
  ELSE OwnedBy(o)

Partition ==
  /\ \A o \in Owners : Holding(o) \subseteq Regions
  /\ \A r \in Regions : \E o \in Owners : r \in Holding(o)
  /\ \A o, p \in Owners : \A r \in Holding(o) : r \in Holding(p) => o = p

\* A thread that pushes a region does not use it any more.
FreshApart == \A t \in Threads : Pushing(t) => local_region[t] # old_region[t]

\* Region r changes hands and nothing else does.
Transfer(r, from, to) ==
  /\ from \in Owners /\ to \in Owners \ {from}
  /\ r \in Holding(from)
  /\ Holding(from)' = Holding(from) \ {r}
  /\ Holding(to)' = Holding(to) \cup {r}
  /\ \A o \in Owners \ {from, to} : Holding(o)' = Holding(o)

Unmoved == \A o \in Owners : Holding(o)' = Holding(o)

\* The chain holds regions only.
LEMMA ListedRegions == TypeOK => Listed \subseteq Regions
  BY ElementOfSeq, LenProperties DEF TypeOK, Listed

\* SingleOwner says that the owners' regions partition the address space.
LEMMA SingleOwnerIsPartition ==
  TypeOK => (SingleOwner <=> Partition /\ FreshApart)
<1> SUFFICES ASSUME TypeOK
             PROVE  SingleOwner <=> Partition /\ FreshApart
  OBVIOUS
<1>1. Listed \subseteq Regions
  BY ListedRegions
<1>2. Stolen \subseteq Regions
  BY DEF TypeOK, Stolen, RegionOrNull
<1>3. \A t \in Threads : OwnedBy(t) \subseteq Regions
  BY DEF TypeOK, OwnedBy, RegionOrNull
<1>4. mapped \subseteq Regions
  BY DEF TypeOK
<1>5. "unmapped" \notin Threads /\ "listed" \notin Threads /\ "collector" \notin Threads
  BY HeapAssumption
<1>6. /\ Holding("unmapped") = Regions \ mapped
      /\ Holding("listed") = Listed
      /\ Holding("collector") = Stolen
      /\ \A t \in Threads : Holding(t) = OwnedBy(t)
  BY <1>5 DEF Holding
<1>7. ASSUME SingleOwner PROVE Partition
  <2>1. \A o \in Owners : Holding(o) \subseteq Regions
    BY <1>1, <1>2, <1>3, <1>6 DEF Owners
  <2>2. \A r \in Regions : \E o \in Owners : r \in Holding(o)
    BY <1>6, <1>7 DEF SingleOwner, Owners
  <2>3. ASSUME NEW o \in Owners, NEW p \in Owners, NEW r \in Holding(o), r \in Holding(p)
        PROVE  o = p
    <3>1. Listed \cap Stolen = {} /\ Listed \subseteq mapped /\ Stolen \subseteq mapped
      BY <1>7 DEF SingleOwner
    <3>2. \A t \in Threads : /\ OwnedBy(t) \subseteq mapped
                             /\ OwnedBy(t) \cap (Listed \cup Stolen) = {}
      BY <1>7 DEF SingleOwner
    <3>3. \A t, u \in Threads : t # u => OwnedBy(t) \cap OwnedBy(u) = {}
      BY <1>7 DEF SingleOwner
    <3> QED
      BY <1>6, <2>3, <3>1, <3>2, <3>3 DEF Owners
  <2> QED
    BY <2>1, <2>2, <2>3 DEF Partition
<1>8. ASSUME Partition, FreshApart PROVE SingleOwner
  <2>1. \A r \in Regions : r \in mapped <=>
          r \in Listed \/ r \in Stolen \/ \E t \in Threads : r \in OwnedBy(t)
    BY <1>4, <1>5, <1>6, <1>8 DEF Partition, Owners
  <2>2. mapped = Listed \cup Stolen \cup UNION {OwnedBy(t) : t \in Threads}
    BY <1>1, <1>2, <1>3, <1>4, <2>1
  <2>3. Listed \cap Stolen = {}
    BY <1>6, <1>8 DEF Partition, Owners
  <2>4. ASSUME NEW t \in Threads PROVE OwnedBy(t) \cap (Listed \cup Stolen) = {}
    <3>1. OwnedBy(t) \cap Listed = {}
      BY <1>5, <1>6, <1>8 DEF Partition, Owners
    <3>2. OwnedBy(t) \cap Stolen = {}
      BY <1>5, <1>6, <1>8 DEF Partition, Owners
    <3> QED
      BY <3>1, <3>2
  <2>5. \A t \in Threads : \A u \in Threads \ {t} : OwnedBy(t) \cap OwnedBy(u) = {}
    BY <1>6, <1>8 DEF Partition, Owners
  <2> QED
    BY <1>8, <2>2, <2>3, <2>4, <2>5 DEF SingleOwner, FreshApart
<1>9. SingleOwner => FreshApart
  BY DEF SingleOwner, FreshApart
<1> QED
  BY <1>7, <1>8, <1>9

OwnerAgrees ==
  \A r \in Regions : \A o \in Owners : r \in Holding(o) => owner[r] = o

\* The abstract owner of a region is the one that holds it.
LEMMA OwnerHolds == Partition => OwnerAgrees
<1> SUFFICES ASSUME Partition,
                    NEW r \in Regions, NEW o \in Owners, r \in Holding(o)
             PROVE  owner[r] = o
  BY DEF OwnerAgrees
<1>5. "unmapped" \notin Threads /\ "listed" \notin Threads /\ "collector" \notin Threads
  BY HeapAssumption
<1>1. CASE o = "listed"
  BY <1>1 DEF owner, Holding
<1>2. CASE o = "collector"
  <2>1. r \notin Listed
    BY <1>2 DEF Partition, Holding, Owners
  <2> QED
    BY <1>2, <2>1 DEF owner, Holding
<1>3. CASE o \in Threads
  <2>1. r \in OwnedBy(o)
    BY <1>3, <1>5 DEF Holding
  <2>2. r \notin Listed /\ r \notin Stolen
    BY <1>3, <1>5 DEF Partition, Holding, Owners
  <2>3. \A t \in Threads : r \in OwnedBy(t) => t = o
    BY <1>3, <1>5 DEF Partition, Holding, Owners
  <2>4. (CHOOSE t \in Threads : r \in OwnedBy(t)) = o
    BY <1>3, <2>1, <2>3
  <2> QED
    BY <1>3, <2>1, <2>2, <2>4 DEF owner
<1>4. CASE o = "unmapped"
  <2>1. r \notin Listed /\ r \notin Stolen
    BY <1>4 DEF Partition, Holding, Owners
  <2>2. ~\E t \in Threads : r \in OwnedBy(t)
    BY <1>4, <1>5 DEF Partition, Holding, Owners
  <2> QED
    BY <2>1, <2>2, <1>4 DEF owner
<1> QED
  BY <1>1, <1>2, <1>3, <1>4 DEF Owners

\* Passing one region on keeps the partition.
LEMMA TransferKeepsPartition ==
  ASSUME Partition, NEW r, NEW from, NEW to, Transfer(r, from, to)
  PROVE  Partition'
<1> USE DEF Owners
<1>1. \A o \in Owners : Holding(o)' \subseteq Regions
  BY DEF Partition, Transfer
<1>2. \A q \in Regions : \E o \in Owners : q \in Holding(o)'
  BY DEF Partition, Transfer
<1>3. \A o, p \in Owners : \A q \in Holding(o)' : q \in Holding(p)' => o = p
  BY DEF Partition, Transfer
<1> QED
  BY <1>1, <1>2, <1>3 DEF Partition

\* Passing one region on is a step of RegionPool from its owner to the next.
LEMMA TransferIsPass ==
  ASSUME Partition, NEW r, NEW from, NEW to, Transfer(r, from, to)
  PROVE  r \in Regions /\ Pool!Pass(r, from, to)
<1>1. Partition'
  BY TransferKeepsPartition
<1>2. OwnerAgrees
  BY OwnerHolds
<1>3. OwnerAgrees'
  BY OwnerHolds, <1>1, PTL
<1>4. r \in Regions /\ from \in Owners /\ to \in Owners /\ owner[r] = from
  BY <1>2 DEF Transfer, OwnerAgrees, Partition
<1>5. owner'[r] = to
  BY <1>3, <1>4 DEF Transfer, OwnerAgrees
<1>6. \A q \in Regions \ {r} : owner'[q] = owner[q]
  BY <1>2, <1>3 DEF Transfer, OwnerAgrees, Partition
<1>7. owner = [q \in Regions |-> owner[q]] /\ owner' = [q \in Regions |-> owner'[q]]
  BY DEF owner
<1>8. owner' = [owner EXCEPT ![r] = to]
  BY <1>4, <1>5, <1>6, <1>7
<1> QED
  BY <1>4, <1>8 DEF Pool!Pass

-----------------------------------------------------------------------------
(* The history chain.                                                      *)

\* Where a traversal of the list begins.
ListHead == IF pc[Main] \in {"destroy", "destroyed"} THEN tail ELSE region_list

\* A successful push puts the region on top of what is listed.
LEMMA ChainPushed ==
  ASSUME TypeOK, NEW r \in Regions, chain' = Append(chain, r)
  PROVE  /\ chain' \in Seq(Regions)
         /\ Len(chain') = Len(chain) + 1
         /\ DOMAIN chain = 1 .. Len(chain) /\ DOMAIN chain' = 1 .. Len(chain')
         /\ \A i \in DOMAIN chain : chain'[i] = chain[i]
         /\ chain'[Len(chain')] = r
         /\ Listed' = Listed \cup {r}
<1>1. chain \in Seq(Regions)
  BY DEF TypeOK
<1>2. /\ chain' \in Seq(Regions)
      /\ Len(chain') = Len(chain) + 1
      /\ \A i \in 1 .. Len(chain) : chain'[i] = chain[i]
      /\ chain'[Len(chain) + 1] = r
  BY <1>1, AppendProperties
<1>3. Len(chain) \in Nat /\ DOMAIN chain = 1 .. Len(chain) /\ DOMAIN chain' = 1 .. Len(chain')
  BY <1>1, <1>2, LenProperties
<1>4. Listed' = Listed \cup {r}
  <2>1. DOMAIN chain' = DOMAIN chain \cup {Len(chain) + 1}
    BY <1>2, <1>3
  <2> QED
    BY <1>2, <1>3, <2>1 DEF Listed
<1> QED
  BY <1>2, <1>3, <1>4

\* Removing the top of the chain removes that region and no other.
LEMMA ChainPopped ==
  ASSUME TypeOK, ListIsChain, chain # <<>>, chain' = SubSeq(chain, 1, Len(chain) - 1)
  PROVE  /\ chain' \in Seq(Regions)
         /\ Len(chain) \in Nat \ {0} /\ Len(chain') = Len(chain) - 1
         /\ DOMAIN chain = 1 .. Len(chain) /\ DOMAIN chain' = 1 .. Len(chain')
         /\ \A i \in DOMAIN chain' : chain'[i] = chain[i]
         /\ Listed' = Listed \ {chain[Len(chain)]}
<1>1. chain \in Seq(Regions)
  BY DEF TypeOK
<1>2. Len(chain) \in Nat \ {0} /\ DOMAIN chain = 1 .. Len(chain)
  BY <1>1, EmptySeq, LenProperties
<1>3. \A i \in 1 .. Len(chain) - 1 : chain[i] \in Regions
  BY <1>1, <1>2, ElementOfSeq
<1>4. /\ chain' \in Seq(Regions)
      /\ Len(chain') = Len(chain) - 1
      /\ \A i \in 1 .. Len(chain) - 1 : chain'[i] = chain[i]
  <2>1. /\ chain' \in Seq(Regions)
        /\ Len(chain') = IF 1 <= Len(chain) - 1 THEN (Len(chain) - 1) - 1 + 1 ELSE 0
        /\ \A i \in 1 .. (Len(chain) - 1) - 1 + 1 : chain'[i] = chain[1 + i - 1]
    BY <1>2, <1>3, SubSeqProperties
  <2> QED
    BY <1>2, <2>1
<1>5. DOMAIN chain' = 1 .. Len(chain')
  BY <1>4, LenProperties
<1>6. Listed' = Listed \ {chain[Len(chain)]}
  <2>1. DOMAIN chain = DOMAIN chain' \cup {Len(chain)} /\ Len(chain) \notin DOMAIN chain'
    BY <1>2, <1>4, <1>5
  <2>2. \A i \in DOMAIN chain' : chain'[i] = chain[i]
    BY <1>4, <1>5
  <2>3. \A i \in DOMAIN chain' : chain[i] # chain[Len(chain)]
    BY <2>1 DEF ListIsChain
  <2> DEFINE rest == {chain[i] : i \in DOMAIN chain'}
  <2>4. Listed = rest \cup {chain[Len(chain)]}
    BY <2>1 DEF Listed
  <2>5. Listed' = rest
    BY <2>2 DEF Listed
  <2>6. chain[Len(chain)] \notin rest
    BY <2>3
  <2> QED
    BY <2>4, <2>5, <2>6
<1> QED
  BY <1>2, <1>4, <1>5, <1>6

\* A traversal that begins at a region begins at the top of the chain.
LEMMA HeadIsTop ==
  ASSUME TypeOK, ListIsChain, ListHead # Null
  PROVE  chain # <<>> /\ Len(chain) \in DOMAIN chain /\ ListHead = chain[Len(chain)]
<1>1. chain \in Seq(Regions) /\ Len(chain) \in Nat /\ DOMAIN chain = 1 .. Len(chain)
  BY LenProperties DEF TypeOK
<1>2. ListHead = Below(Len(chain) + 1)
  BY DEF ListIsChain, ListHead
<1>3. Len(chain) # 0
  BY <1>1, <1>2 DEF Below
<1> QED
  BY <1>1, <1>2, <1>3, EmptySeq DEF Below

\* A traversal that begins at NULL finds the chain empty.
LEMMA EmptyHead ==
  ASSUME TypeOK, ListIsChain, ListHead = Null
  PROVE  chain = <<>> /\ Listed = {}
<1>1. chain \in Seq(Regions) /\ Len(chain) \in Nat /\ DOMAIN chain = 1 .. Len(chain)
  BY LenProperties DEF TypeOK
<1>2. ListHead = Below(Len(chain) + 1)
  BY DEF ListIsChain, ListHead
<1>3. \A i \in 1 .. Len(chain) : chain[i] # Null
  BY <1>1, ElementOfSeq, HeapAssumption
<1>4. Len(chain) = 0
  BY <1>1, <1>2, <1>3 DEF Below
<1> QED
  BY <1>1, <1>4, EmptySeq DEF Listed

-----------------------------------------------------------------------------
(* The invariant is inductive.                                             *)

\* The values the actions assign are of the right types.
LEMMA Labels ==
  /\ "new" \in ThreadPC /\ "run" \in ThreadPC /\ "load" \in ThreadPC /\ "cas" \in ThreadPC
  /\ "exited" \in ThreadPC /\ "join" \in ThreadPC /\ "destroy" \in ThreadPC
  /\ "destroyed" \in ThreadPC
  /\ "idle" \in CollectorPC /\ "load" \in CollectorPC /\ "next" \in CollectorPC
  /\ "cas" \in CollectorPC /\ "collect" \in CollectorPC /\ "free" \in CollectorPC
  /\ "stopped" \in CollectorPC
  BY DEF ThreadPC, CollectorPC

\* What the assumption on the constants says of single values.
LEMMA Bounds ==
  /\ Null \in RegionOrNull /\ Null \notin Regions /\ Regions \subseteq RegionOrNull
  /\ RegionSize \in Nat /\ MaxAlloc \in Nat /\ Header \in Nat /\ MaxAlloc + Header <= RegionSize
  /\ 0 \in 0 .. RegionSize
  /\ Limit \in Nat \ {0} /\ Limit \in 0 .. Limit /\ 0 \in 0 .. Limit + 1 /\ 0 \in Nat
  BY HeapAssumption DEF RegionOrNull

\* The state in which the heap is created satisfies the invariant.
LEMMA InitInv == Init => Inv
<1> SUFFICES ASSUME Init PROVE Inv
  OBVIOUS
<1> USE DEF Init
<1>1. chain \in Seq(Regions) /\ Len(chain) = 0 /\ DOMAIN chain = {}
  BY EmptySeq, LenProperties
<1>2. TypeOK
  <2>1. /\ region_list \in RegionOrNull /\ next \in [Regions -> RegionOrNull]
        /\ allocated \in [Regions -> 0 .. RegionSize] /\ mapped \subseteq Regions
        /\ aborted \in BOOLEAN
    BY Bounds
  <2>2. /\ local_region \in [Threads -> RegionOrNull] /\ pc \in [Threads -> ThreadPC]
        /\ old_region \in [Threads -> RegionOrNull] /\ old_head \in [Threads -> RegionOrNull]
    BY Labels, Bounds
  <2>3. /\ limit \in [Threads -> 0 .. Limit] /\ request \in [Threads -> Nat]
        /\ gc \in CollectorPC /\ gc_r \in RegionOrNull /\ gc_next \in RegionOrNull
        /\ tail \in RegionOrNull
    BY Labels, Bounds
  <2>4. moves \in [Threads -> 0 .. Limit + 1]
    BY Bounds
  <2> QED
    BY <1>1, <2>1, <2>2, <2>3, <2>4 DEF TypeOK
<1>3. ThreadInv /\ CollectorInv /\ DestroyInv /\ ContentionInv /\ AbortNeedsContention
  BY HeapAssumption DEF ThreadInv, CollectorInv, DestroyInv, ContentionInv, AbortNeedsContention, Pushing
<1>4. ListIsChain
  BY <1>1 DEF ListIsChain, Below
<1>5. Listed = {} /\ Stolen = {} /\ \A t \in Threads : OwnedBy(t) = {}
  BY <1>1 DEF Listed, Stolen, OwnedBy
<1>6. SingleOwner
  BY <1>5 DEF SingleOwner, Pushing
<1>7. StealIsCurrent
  BY DEF StealIsCurrent
<1> QED
  BY <1>2, <1>3, <1>4, <1>6, <1>7 DEF Inv

\* Every step keeps the variables in their types.  No region is filled beyond
\* its size: the region installed for a push is still empty when the push ends,
\* and a request is at most MaxAlloc.
LEMMA TypeStep == Inv /\ Next => TypeOK'
<1> SUFFICES ASSUME Inv, Next PROVE TypeOK'
  OBVIOUS
<1> USE Labels, Bounds DEF threadVars, gcVars, TypeOK
<1>1. TypeOK /\ ThreadInv /\ CollectorInv /\ StealIsCurrent
  BY DEF Inv
<1>2. /\ Sizes \subseteq Nat
      /\ \A t \in Threads : /\ pc[t] # "new" => local_region[t] \in Regions
                            /\ pc[t] = "load" \/ pc[t] = "cas" => old_region[t] \in Regions
      /\ \A r \in RegionOrNull : r # Null => r \in Regions
  BY HeapAssumption DEF Inv, ThreadInv, RegionOrNull, Pushing
<1>3. chain' = SubSeq(chain, 1, Len(chain) - 1) /\ chain # <<>> => chain' \in Seq(Regions)
  BY ChainPopped DEF Inv
<1>4. ASSUME NEW t \in Threads, Mutator(t) PROVE TypeOK'
  <2>1. CASE ThreadInit(t)
    BY <1>1, <2>1 DEF ThreadInit, Goto, region_allocate
  <2>2. CASE AllocFails(t)
    BY <1>1, <2>2 DEF AllocFails
  <2>3. ASSUME NEW size \in Sizes, AllocLocal(t, size) PROVE TypeOK'
    <3>0. local_region[t] \in Regions
      BY <1>1, <1>2, <2>3 DEF AllocLocal
    <3>1. allocated[local_region[t]] \in 0 .. RegionSize /\ size \in Nat
      BY <1>1, <1>2, <3>0
    <3>2. allocated[local_region[t]] + (size + Header) \in 0 .. RegionSize
      BY <3>1, <2>3 DEF AllocLocal, have_room_for, alloc_size_for
    <3> QED
      BY <1>1, <2>3, <3>0, <3>2 DEF AllocLocal, make_room_for, alloc_size_for
  <2>4. ASSUME NEW size \in Sizes, AllocNewRegion(t, size) PROVE TypeOK'
    BY <1>1, <2>4, <1>2 DEF AllocNewRegion, Goto, region_allocate
  <2>5. CASE PushLoad(t)
    BY <1>1, <2>5, <1>2 DEF PushLoad, Goto
  <2>6. CASE PushCas(t)
    <3>1. /\ old_region[t] \in Regions /\ local_region[t] \in Regions
          /\ allocated[local_region[t]] + (request[t] + Header) \in 0 .. RegionSize
      BY <1>1, <1>2, <2>6, SMTT(20) DEF PushCas, ThreadInv, Pushing
    <3>2. chain' \in Seq(Regions)
      BY <1>1, <2>6, <3>1, ChainPushed DEF PushCas
    <3>3. moves' \in [Threads -> 0 .. Limit + 1]
      BY <1>1, <2>6 DEF PushCas, HeadMoved
    <3> QED
      BY <1>1, <2>6, <3>1, <3>2, <3>3 DEF PushCas, PushReturns, Goto, make_room_for, alloc_size_for
  <2>7. CASE PushRetry(t)
    <3>1. limit[t] # 0
      BY <1>1, <2>7 DEF PushRetry, ThreadInv, Pushing, Next
    <3>2. limit[t] \in 0 .. Limit
      BY <1>1
    <3>3. limit[t] - 1 \in 0 .. Limit
      BY <3>1, <3>2
    <3>4. pc' \in [Threads -> ThreadPC]
      BY <1>1, <2>7 DEF PushRetry, Goto
    <3>5. aborted' \in BOOLEAN
      BY <1>1, <2>7 DEF PushRetry
    <3> QED
      BY <1>1, <2>7, <3>3, <3>4, <3>5 DEF PushRetry
  <2>8. CASE ThreadExit(t)
    BY <1>1, <2>8 DEF ThreadExit, Goto
  <2> QED
    BY <1>4, <2>1, <2>2, <2>3, <2>4, <2>5, <2>6, <2>7, <2>8 DEF Mutator, Alloc, Push
<1>5. ASSUME CollectorStep PROVE TypeOK'
  <2>1. CASE CollectStart
    BY <1>1, <2>1 DEF CollectStart
  <2>2. CASE StealLoad
    BY <1>1, <2>2 DEF StealLoad
  <2>3. CASE StealNext
    BY <1>1, <2>3, <1>2 DEF StealNext, CollectorInv
  <2>4. CASE StealCas
    <3>1. CASE region_list = gc_r
      <4>1. moves' \in [Threads -> 0 .. Limit + 1]
        BY <1>1, <2>4, <3>1 DEF StealCas, HeadMoved
      <4>2. chain # <<>>
        <5>1. ListIsChain /\ DestroyInv
          BY DEF Inv
        <5> QED
          BY <1>1, <2>4, <3>1, <5>1, HeadIsTop DEF StealCas, ListHead, DestroyInv, CollectorInv
      <4> QED
        BY <1>1, <1>3, <2>4, <3>1, <4>1, <4>2 DEF StealCas
    <3>2. CASE region_list # gc_r
      BY <1>1, <2>4, <3>2 DEF StealCas
    <3> QED
      BY <3>1, <3>2
  <2>5. CASE Collect
    BY <1>1, <2>5 DEF Collect, CollectorInv
  <2>6. CASE FreeStolen
    BY <1>1, <2>6 DEF FreeStolen, unmap
  <2> QED
    BY <1>5, <2>1, <2>2, <2>3, <2>4, <2>5, <2>6 DEF CollectorStep
<1>6. ASSUME DestroyStep PROVE TypeOK'
  <2>1. CASE DestroyStart
    BY <1>1, <2>1 DEF DestroyStart, Goto
  <2>2. CASE CollectorStops
    BY <1>1, <2>2 DEF CollectorStops, Goto
  <2>3. CASE DestroyListed
    <3>1. chain # <<>>
      BY <1>1, <2>3, HeadIsTop DEF DestroyListed, ListHead, Inv
    <3> QED
      BY <1>1, <1>3, <1>2, <2>3, <3>1 DEF DestroyListed, unmap
  <2>4. CASE DestroyLocal
    BY <1>1, <2>4 DEF DestroyLocal, unmap, Goto
  <2> QED
    BY <1>6, <2>1, <2>2, <2>3, <2>4 DEF DestroyStep
<1> QED
  BY <1>4, <1>5, <1>6 DEF Next

\* What SingleOwner says of two pointers: regions held by threads are mapped,
\* neither listed nor stolen, and never the same.
LEMMA HeldApart ==
  ASSUME Inv
  PROVE  /\ \A t \in Threads : pc[t] \notin {"new", "destroyed"} =>
              /\ local_region[t] \in Regions
              /\ local_region[t] \in mapped
              /\ local_region[t] \notin Listed /\ local_region[t] \notin Stolen
         /\ \A t \in Threads : Pushing(t) =>
              /\ old_region[t] \in Regions
              /\ old_region[t] \in mapped /\ local_region[t] # old_region[t]
              /\ old_region[t] \notin Listed /\ old_region[t] \notin Stolen
         /\ \A t, u \in Threads :
              /\ t # u /\ pc[t] \notin {"new", "destroyed"} /\ pc[u] \notin {"new", "destroyed"}
                   => local_region[t] # local_region[u]
              /\ t # u /\ Pushing(t) /\ Pushing(u) => old_region[t] # old_region[u]
<1> USE DEF OwnedBy, Pushing
<1>1. \A t \in Threads : pc[t] \notin {"new", "destroyed"} =>
        local_region[t] \in Regions /\ local_region[t] \in OwnedBy(t)
  BY DEF Inv, ThreadInv, TypeOK, RegionOrNull
<1>2. \A t \in Threads : Pushing(t) =>
        old_region[t] \in Regions /\ old_region[t] \in OwnedBy(t)
  BY DEF Inv, ThreadInv, TypeOK, RegionOrNull
<1> HIDE DEF OwnedBy
<1>3. \A t \in Threads : \A r \in OwnedBy(t) : r \in mapped /\ r \notin Listed /\ r \notin Stolen
  BY DEF Inv, SingleOwner
<1>4. \A t, u \in Threads : t # u => \A r \in OwnedBy(t) : r \notin OwnedBy(u)
  BY DEF Inv, SingleOwner
<1>5. \A t \in Threads : Pushing(t) => local_region[t] # old_region[t]
  BY DEF Inv, SingleOwner
<1> QED
  BY <1>1, <1>2, <1>3, <1>4, <1>5

\* Every step keeps the threads' program counters and pointers in agreement.
LEMMA ThreadInvStep == Inv /\ Next => ThreadInv'
<1> SUFFICES ASSUME Inv, Next PROVE ThreadInv'
  OBVIOUS
<1> USE Bounds, HeldApart DEF threadVars, gcVars, Pushing
<1>1. TypeOK /\ ThreadInv
  BY DEF Inv
<1>2. gc = "free" => gc_r \in Stolen
  BY DEF Inv, CollectorInv, Stolen
<1>3. pc[Main] = "destroy" => \A t \in Threads : pc[t] # "load" /\ pc[t] # "cas"
  BY DEF Inv, DestroyInv
<1>4. ASSUME NEW t \in Threads, Mutator(t) PROVE ThreadInv'
  <2>1. CASE ThreadInit(t)
    BY <1>1, <2>1 DEF ThreadInit, Goto, region_allocate, TypeOK, ThreadInv
  <2>2. CASE AllocFails(t)
    BY <1>1, <2>2 DEF AllocFails, TypeOK, ThreadInv
  <2>3. ASSUME NEW size \in Sizes, AllocLocal(t, size) PROVE ThreadInv'
    BY <1>1, <2>3 DEF AllocLocal, make_room_for, have_room_for, alloc_size_for, TypeOK, ThreadInv
  <2>4. ASSUME NEW size \in Sizes, AllocNewRegion(t, size) PROVE ThreadInv'
    BY <1>1, <2>4 DEF AllocNewRegion, Goto, region_allocate, TypeOK, ThreadInv
  <2>5. CASE PushLoad(t)
    BY <1>1, <2>5 DEF PushLoad, Goto, TypeOK, ThreadInv
  <2>6. CASE PushCas(t)
    BY <1>1, <2>6, ZenonT(40)
    DEF PushCas, PushReturns, Goto, make_room_for, alloc_size_for, HeadMoved, TypeOK, ThreadInv
  <2>7. CASE PushRetry(t)
    BY <1>1, <2>7 DEF PushRetry, Goto, TypeOK, ThreadInv
  <2>8. CASE ThreadExit(t)
    BY <1>1, <2>8 DEF ThreadExit, Goto, TypeOK, ThreadInv
  <2> QED
    BY <1>4, <2>1, <2>2, <2>3, <2>4, <2>5, <2>6, <2>7, <2>8 DEF Mutator, Alloc, Push
<1>5. ASSUME CollectorStep PROVE ThreadInv'
  <2>1. CASE CollectStart
    BY <1>1, <2>1 DEF CollectStart, TypeOK, ThreadInv
  <2>2. CASE StealLoad
    BY <1>1, <2>2 DEF StealLoad, TypeOK, ThreadInv
  <2>3. CASE StealNext
    BY <1>1, <2>3 DEF StealNext, TypeOK, ThreadInv
  <2>4. CASE StealCas
    BY <1>1, <2>4 DEF StealCas, HeadMoved, TypeOK, ThreadInv
  <2>5. CASE Collect
    BY <1>1, <2>5 DEF Collect, TypeOK, ThreadInv
  <2>6. CASE FreeStolen
    BY <1>1, <2>6, <1>2 DEF FreeStolen, unmap, TypeOK, ThreadInv
  <2> QED
    BY <1>5, <2>1, <2>2, <2>3, <2>4, <2>5, <2>6 DEF CollectorStep
<1>6. ASSUME DestroyStep PROVE ThreadInv'
  <2>1. CASE DestroyStart
    BY <1>1, <2>1 DEF DestroyStart, Goto, TypeOK, ThreadInv
  <2>2. CASE CollectorStops
    BY <1>1, <2>2 DEF CollectorStops, Goto, TypeOK, ThreadInv
  <2>3. CASE DestroyListed
    BY <1>1, <2>3, <1>3 DEF DestroyListed, unmap, TypeOK, ThreadInv
  <2>4. CASE DestroyLocal
    BY <1>1, <2>4, <1>3, HeapAssumption DEF DestroyLocal, unmap, Goto, TypeOK, ThreadInv
  <2> QED
    BY <1>6, <2>1, <2>2, <2>3, <2>4 DEF DestroyStep
<1> QED
  BY <1>4, <1>5, <1>6 DEF Next

\* Every step keeps the collector's local in agreement with where it is.
LEMMA CollectorInvStep == Inv /\ Next => CollectorInv'
<1> SUFFICES ASSUME Inv, Next PROVE CollectorInv'
  OBVIOUS
<1> USE DEF threadVars, gcVars, CollectorInv
<1>1. CollectorInv
  BY DEF Inv
<1>2. ASSUME NEW t \in Threads, Mutator(t) PROVE CollectorInv'
  <2>1. CASE ThreadInit(t)
    BY <1>1, <2>1 DEF ThreadInit, Goto, region_allocate
  <2>2. CASE AllocFails(t)
    BY <1>1, <2>2 DEF AllocFails
  <2>3. ASSUME NEW size \in Sizes, AllocLocal(t, size) PROVE CollectorInv'
    BY <1>1, <2>3 DEF AllocLocal, make_room_for, have_room_for, alloc_size_for
  <2>4. ASSUME NEW size \in Sizes, AllocNewRegion(t, size) PROVE CollectorInv'
    BY <1>1, <2>4 DEF AllocNewRegion, Goto, region_allocate
  <2>5. CASE PushLoad(t)
    BY <1>1, <2>5 DEF PushLoad, Goto
  <2>6. CASE PushCas(t)
    BY <1>1, <2>6, SMTT(20) DEF PushCas, PushReturns, Goto, make_room_for, alloc_size_for, HeadMoved
  <2>7. CASE PushRetry(t)
    BY <1>1, <2>7 DEF PushRetry, Goto
  <2>8. CASE ThreadExit(t)
    BY <1>1, <2>8 DEF ThreadExit, Goto
  <2> QED
    BY <1>2, <2>1, <2>2, <2>3, <2>4, <2>5, <2>6, <2>7, <2>8 DEF Mutator, Alloc, Push
<1>3. ASSUME CollectorStep PROVE CollectorInv'
  <2>1. CASE CollectStart
    BY <1>1, <2>1 DEF CollectStart
  <2>2. CASE StealLoad
    BY <1>1, <2>2 DEF StealLoad
  <2>3. CASE StealNext
    BY <1>1, <2>3 DEF StealNext
  <2>4. CASE StealCas
    BY <1>1, <2>4 DEF StealCas, HeadMoved
  <2>5. CASE Collect
    BY <1>1, <2>5 DEF Collect
  <2>6. CASE FreeStolen
    BY <1>1, <2>6 DEF FreeStolen, unmap
  <2> QED
    BY <1>3, <2>1, <2>2, <2>3, <2>4, <2>5, <2>6 DEF CollectorStep
<1>4. ASSUME DestroyStep PROVE CollectorInv'
  <2>1. CASE DestroyStart
    BY <1>1, <2>1 DEF DestroyStart, Goto
  <2>2. CASE CollectorStops
    BY <1>1, <2>2 DEF CollectorStops, Goto
  <2>3. CASE DestroyListed
    BY <1>1, <2>3 DEF DestroyListed, unmap
  <2>4. CASE DestroyLocal
    BY <1>1, <2>4 DEF DestroyLocal, unmap, Goto
  <2> QED
    BY <1>4, <2>1, <2>2, <2>3, <2>4 DEF DestroyStep
<1> QED
  BY <1>2, <1>3, <1>4 DEF Next

\* Every step keeps pup_heap_destroy() alone with the list.
LEMMA DestroyInvStep == Inv /\ Next => DestroyInv'
<1> SUFFICES ASSUME Inv, Next PROVE DestroyInv'
  OBVIOUS
<1> USE HeapAssumption DEF threadVars, gcVars, DestroyInv
<1>1. DestroyInv /\ pc \in [Threads -> ThreadPC]
  BY DEF Inv, TypeOK
<1>2. ASSUME NEW t \in Threads, Mutator(t) PROVE DestroyInv'
  <2>1. CASE ThreadInit(t)
    BY <1>1, <2>1 DEF ThreadInit, Goto, region_allocate
  <2>2. CASE AllocFails(t)
    BY <1>1, <2>2 DEF AllocFails
  <2>3. ASSUME NEW size \in Sizes, AllocLocal(t, size) PROVE DestroyInv'
    BY <1>1, <2>3 DEF AllocLocal, make_room_for, have_room_for, alloc_size_for
  <2>4. ASSUME NEW size \in Sizes, AllocNewRegion(t, size) PROVE DestroyInv'
    BY <1>1, <2>4 DEF AllocNewRegion, Goto, region_allocate
  <2>5. CASE PushLoad(t)
    BY <1>1, <2>5 DEF PushLoad, Goto
  <2>6. CASE PushCas(t)
    BY <1>1, <2>6, SMTT(20) DEF PushCas, PushReturns, Goto, make_room_for, alloc_size_for, HeadMoved
  <2>7. CASE PushRetry(t)
    BY <1>1, <2>7 DEF PushRetry, Goto
  <2>8. CASE ThreadExit(t)
    BY <1>1, <2>8 DEF ThreadExit, Goto
  <2> QED
    BY <1>2, <2>1, <2>2, <2>3, <2>4, <2>5, <2>6, <2>7, <2>8 DEF Mutator, Alloc, Push
<1>3. ASSUME CollectorStep PROVE DestroyInv'
  <2>1. CASE CollectStart
    BY <1>1, <2>1 DEF CollectStart
  <2>2. CASE StealLoad
    BY <1>1, <2>2 DEF StealLoad
  <2>3. CASE StealNext
    BY <1>1, <2>3 DEF StealNext
  <2>4. CASE StealCas
    BY <1>1, <2>4 DEF StealCas, HeadMoved
  <2>5. CASE Collect
    BY <1>1, <2>5 DEF Collect
  <2>6. CASE FreeStolen
    BY <1>1, <2>6 DEF FreeStolen, unmap
  <2> QED
    BY <1>3, <2>1, <2>2, <2>3, <2>4, <2>5, <2>6 DEF CollectorStep
<1>4. ASSUME DestroyStep PROVE DestroyInv'
  <2>1. CASE DestroyStart
    BY <1>1, <2>1 DEF DestroyStart, Goto
  <2>2. CASE CollectorStops
    BY <1>1, <2>2 DEF CollectorStops, Goto
  <2>3. CASE DestroyListed
    BY <1>1, <2>3 DEF DestroyListed, unmap
  <2>4. CASE DestroyLocal
    BY <1>1, <2>4 DEF DestroyLocal, unmap, Goto
  <2> QED
    BY <1>4, <2>1, <2>2, <2>3, <2>4 DEF DestroyStep
<1> QED
  BY <1>2, <1>3, <1>4 DEF Next

\* A compare-and-swap fails only after the list was updated since the load, so
\* the attempts that fail are never more than the updates seen.
LEMMA ContentionStep == Inv /\ Next => ContentionInv' /\ AbortNeedsContention'
<1> SUFFICES ASSUME Inv, Next PROVE ContentionInv' /\ AbortNeedsContention'
  OBVIOUS
<1> USE Bounds DEF threadVars, gcVars, ContentionInv, AbortNeedsContention, Pushing
<1>1. /\ ContentionInv /\ AbortNeedsContention /\ ~aborted
      /\ pc \in [Threads -> ThreadPC] /\ old_head \in [Threads -> RegionOrNull]
      /\ limit \in [Threads -> 0 .. Limit] /\ moves \in [Threads -> 0 .. Limit + 1]
      /\ \A t \in Threads : Pushing(t) => limit[t] # 0
  BY DEF Inv, TypeOK, ThreadInv, Next
<1>2. Null \notin Threads
  BY HeapAssumption
<1>3. ASSUME NEW t \in Threads, Mutator(t) PROVE ContentionInv' /\ AbortNeedsContention'
  <2>1. CASE ThreadInit(t)
    BY <1>1, <2>1 DEF ThreadInit, Goto, region_allocate
  <2>2. CASE AllocFails(t)
    BY <1>1, <2>2 DEF AllocFails
  <2>3. ASSUME NEW size \in Sizes, AllocLocal(t, size) PROVE ContentionInv' /\ AbortNeedsContention'
    BY <1>1, <2>3 DEF AllocLocal, make_room_for, have_room_for, alloc_size_for
  <2>4. ASSUME NEW size \in Sizes, AllocNewRegion(t, size) PROVE ContentionInv' /\ AbortNeedsContention'
    BY <1>1, <2>4 DEF AllocNewRegion, Goto, region_allocate
  <2>5. CASE PushLoad(t)
    BY <1>1, <2>5 DEF PushLoad, Goto
  <2>6. CASE PushCas(t)
    BY <1>1, <2>6, SMTT(20) DEF PushCas, PushReturns, Goto, make_room_for, alloc_size_for, HeadMoved
  <2>7. CASE PushRetry(t)
    BY <1>1, <2>7 DEF PushRetry, Goto
  <2>8. CASE ThreadExit(t)
    BY <1>1, <2>8 DEF ThreadExit, Goto
  <2> QED
    BY <1>3, <2>1, <2>2, <2>3, <2>4, <2>5, <2>6, <2>7, <2>8 DEF Mutator, Alloc, Push
<1>4. ASSUME CollectorStep PROVE ContentionInv' /\ AbortNeedsContention'
  <2>1. CASE CollectStart
    BY <1>1, <2>1 DEF CollectStart
  <2>2. CASE StealLoad
    BY <1>1, <2>2 DEF StealLoad
  <2>3. CASE StealNext
    BY <1>1, <2>3 DEF StealNext
  <2>4. CASE StealCas
    <3>1. CASE region_list = gc_r
      <4>1. pc' = pc /\ limit' = limit /\ old_head' = old_head /\ aborted' = aborted
        BY <2>4 DEF StealCas
      <4>2. \A t \in Threads : moves'[t] =
              IF Pushing(t) /\ moves[t] <= Limit THEN moves[t] + 1 ELSE moves[t]
        BY <1>2, <2>4, <3>1 DEF StealCas, HeadMoved
      <4> QED
        BY <1>1, <4>1, <4>2
    <3>2. CASE region_list # gc_r
      BY <1>1, <2>4, <3>2 DEF StealCas
    <3> QED
      BY <3>1, <3>2
  <2>5. CASE Collect
    BY <1>1, <2>5 DEF Collect
  <2>6. CASE FreeStolen
    BY <1>1, <2>6 DEF FreeStolen, unmap
  <2> QED
    BY <1>4, <2>1, <2>2, <2>3, <2>4, <2>5, <2>6 DEF CollectorStep
<1>5. ASSUME DestroyStep PROVE ContentionInv' /\ AbortNeedsContention'
  <2>1. CASE DestroyStart
    BY <1>1, <2>1 DEF DestroyStart, Goto
  <2>2. CASE CollectorStops
    BY <1>1, <2>2 DEF CollectorStops, Goto
  <2>3. CASE DestroyListed
    BY <1>1, <2>3 DEF DestroyListed, unmap
  <2>4. CASE DestroyLocal
    BY <1>1, <2>4 DEF DestroyLocal, unmap, Goto
  <2> QED
    BY <1>5, <2>1, <2>2, <2>3, <2>4 DEF DestroyStep
<1> QED
  BY <1>3, <1>4, <1>5 DEF Next

\* Taking the top off the chain and going on at its next pointer leaves a list.
LEMMA PoppedIsChain ==
  ASSUME TypeOK, ListIsChain, chain # <<>>,
         chain' = SubSeq(chain, 1, Len(chain) - 1),
         \A r \in Regions \ {chain[Len(chain)]} : next'[r] = next[r],
         ListHead' = next[chain[Len(chain)]]
  PROVE  ListIsChain'
<1>1. /\ Len(chain) \in Nat \ {0} /\ Len(chain') = Len(chain) - 1
      /\ DOMAIN chain = 1 .. Len(chain) /\ DOMAIN chain' = 1 .. Len(chain')
      /\ \A i \in DOMAIN chain' : chain'[i] = chain[i]
  BY ChainPopped
<1>2. \A i \in 1 .. Len(chain) : Below(i)' = Below(i)
  BY <1>1 DEF Below
<1>3. \A i, j \in 1 .. Len(chain) : chain[i] = chain[j] => i = j
  BY <1>1 DEF ListIsChain
<1>4. \A i \in 1 .. Len(chain) : chain[i] \in Regions /\ next[chain[i]] = Below(i)
  BY <1>1, ElementOfSeq DEF ListIsChain, TypeOK
<1>5. \A i \in DOMAIN chain' : next'[chain'[i]] = Below(i)'
  <2> TAKE i \in DOMAIN chain'
  <2>1. i \in 1 .. Len(chain) /\ i # Len(chain) /\ Len(chain) \in 1 .. Len(chain)
    BY <1>1
  <2>2. chain[i] \in Regions \ {chain[Len(chain)]}
    BY <1>3, <1>4, <2>1
  <2> QED
    BY <1>1, <1>2, <1>4, <2>1, <2>2
<1>6. \A i, j \in DOMAIN chain' : chain'[i] = chain'[j] => i = j
  BY <1>1, <1>3
<1>7. ListHead' = Below(Len(chain) + 1)'
  BY <1>1, <1>2, <1>4
<1> QED
  BY <1>5, <1>6, <1>7 DEF ListIsChain, ListHead

\* Every step keeps the linked list and the history of pushes the same: a push
\* stores its next pointer in a region nobody else can see, a steal installs the
\* next pointer of the top, and no other step writes a listed region's pointer.
LEMMA ListStep == Inv /\ Next => ListIsChain'
<1> SUFFICES ASSUME Inv, Next PROVE ListIsChain'
  OBVIOUS
<1> USE DEF threadVars, gcVars, Pushing
<1>1. TypeOK /\ ListIsChain /\ ThreadInv /\ CollectorInv /\ DestroyInv /\ StealIsCurrent
  BY DEF Inv
<1>2. /\ Len(chain) \in Nat /\ DOMAIN chain = 1 .. Len(chain)
      /\ \A i \in DOMAIN chain : chain[i] \in Regions /\ chain[i] \in Listed
  BY <1>1, LenProperties, ElementOfSeq DEF TypeOK, Listed
<1>3. Listed \subseteq mapped /\ Listed \cap Stolen = {} /\ mapped \subseteq Regions
  BY DEF Inv, SingleOwner, TypeOK
<1>4. ASSUME chain' = chain,
             \A r \in Listed : next'[r] = next[r],
             ListHead' = ListHead
      PROVE  ListIsChain'
  <2>1. Len(chain') = Len(chain) /\ \A i : Below(i)' = Below(i)
    BY <1>4 DEF Below
  <2>2. \A i \in DOMAIN chain : next'[chain[i]] = Below(i)
    BY <1>1, <1>2, <1>4 DEF ListIsChain
  <2> QED
    BY <1>1, <1>4, <2>1, <2>2 DEF ListIsChain, ListHead
<1>5. ASSUME NEW t \in Threads, Mutator(t) PROVE ListIsChain'
  <2>1. CASE ThreadInit(t)
    BY <1>1, <2>1, <1>3, <1>4, HeapAssumption DEF ThreadInit, Goto, region_allocate, ListHead, TypeOK
  <2>2. CASE AllocFails(t)
    BY <1>1, <2>2, <1>4, HeapAssumption DEF AllocFails, ListHead, TypeOK
  <2>3. ASSUME NEW size \in Sizes, AllocLocal(t, size) PROVE ListIsChain'
    BY <1>1, <2>3, <1>4, HeapAssumption DEF AllocLocal, make_room_for, have_room_for, alloc_size_for, ListHead, TypeOK
  <2>4. ASSUME NEW size \in Sizes, AllocNewRegion(t, size) PROVE ListIsChain'
    BY <1>1, <2>4, <1>3, <1>4, HeapAssumption DEF AllocNewRegion, Goto, region_allocate, ListHead, TypeOK
  <2>5. CASE PushLoad(t)
    BY <1>1, <2>5, <1>4, HeldApart, HeapAssumption DEF PushLoad, Goto, ListHead, TypeOK
  <2>6. CASE PushCas(t)
    <3>1. /\ old_region[t] \in Regions \ Listed
          /\ next[old_region[t]] = region_list
      BY <1>1, <2>6, HeldApart DEF PushCas, ThreadInv
    <3>2. ListHead = region_list /\ ListHead' = old_region[t]
      BY <1>1, <2>6, HeapAssumption DEF PushCas, PushReturns, ListHead, Goto, DestroyInv, TypeOK
    <3>3. /\ Len(chain') = Len(chain) + 1
          /\ DOMAIN chain' = 1 .. Len(chain')
          /\ \A i \in 1 .. Len(chain) : chain'[i] = chain[i]
          /\ chain'[Len(chain')] = old_region[t]
      BY <1>1, <1>2, <2>6, <3>1, ChainPushed DEF PushCas
    <3>4. \A i \in 1 .. Len(chain) + 1 : Below(i)' = Below(i)
      BY <1>2, <3>3 DEF Below
    <3>5. \A i \in DOMAIN chain' : next'[chain'[i]] = Below(i)'
      <4>1. next' = next
        BY <2>6 DEF PushCas
      <4>2. region_list = Below(Len(chain) + 1)
        BY <1>1, <3>2 DEF ListIsChain, ListHead
      <4>3. \A i \in 1 .. Len(chain) : next[chain[i]] = Below(i)
        BY <1>1, <1>2 DEF ListIsChain
      <4> QED
        BY <1>2, <3>1, <3>3, <3>4, <4>1, <4>2, <4>3
    <3>6. \A i, j \in DOMAIN chain' : chain'[i] = chain'[j] => i = j
      <4>1. \A i \in 1 .. Len(chain) : chain[i] # old_region[t]
        BY <1>2, <3>1
      <4> QED
        BY <1>1, <1>2, <3>3, <4>1 DEF ListIsChain
    <3>7. ListHead' = Below(Len(chain) + 1)'
      BY <1>2, <3>2, <3>3 DEF Below
    <3> QED
      BY <3>5, <3>6, <3>7 DEF ListIsChain, ListHead
  <2>7. CASE PushRetry(t)
    BY <1>1, <2>7, <1>4, HeapAssumption DEF PushRetry, Goto, ListHead, TypeOK
  <2>8. CASE ThreadExit(t)
    BY <1>1, <2>8, <1>4, HeapAssumption DEF ThreadExit, Goto, ListHead, TypeOK
  <2> QED
    BY <1>5, <2>1, <2>2, <2>3, <2>4, <2>5, <2>6, <2>7, <2>8 DEF Mutator, Alloc, Push
<1>6. ASSUME CollectorStep PROVE ListIsChain'
  <2>1. CASE CollectStart
    BY <1>1, <2>1, <1>4, HeapAssumption DEF CollectStart, ListHead, TypeOK
  <2>2. CASE StealLoad
    BY <1>1, <2>2, <1>4, HeapAssumption DEF StealLoad, ListHead, TypeOK
  <2>3. CASE StealNext
    BY <1>1, <2>3, <1>4, HeapAssumption DEF StealNext, ListHead, TypeOK
  <2>4. CASE StealCas
    <3>1. CASE region_list = gc_r
      <4>1. ListHead = gc_r /\ ListHead' = gc_next /\ next' = next /\ gc_r # Null
        BY <1>1, <2>4, <3>1, HeapAssumption DEF StealCas, ListHead, DestroyInv, CollectorInv, TypeOK
      <4>2. chain # <<>> /\ gc_r = chain[Len(chain)]
        BY <1>1, <4>1, HeadIsTop
      <4>3. gc_next = next[gc_r]
        BY <1>1, <2>4 DEF StealCas, StealIsCurrent
      <4>4. chain' = SubSeq(chain, 1, Len(chain) - 1)
        BY <2>4, <3>1 DEF StealCas
      <4> QED
        BY <1>1, <4>1, <4>2, <4>3, <4>4, PoppedIsChain
    <3>2. CASE region_list # gc_r
      BY <1>1, <1>4, <2>4, <3>2 DEF StealCas, ListHead, TypeOK
    <3> QED
      BY <3>1, <3>2
  <2>5. CASE Collect
    BY <1>1, <2>5, <1>4, HeapAssumption DEF Collect, ListHead, TypeOK
  <2>6. CASE FreeStolen
    <3>1. gc_r \in Stolen /\ gc_r \in Regions
      BY <1>1, <2>6 DEF FreeStolen, Stolen, CollectorInv, TypeOK, RegionOrNull
    <3> QED
      BY <1>1, <1>3, <1>4, <2>6, <3>1 DEF FreeStolen, unmap, ListHead, TypeOK
  <2> QED
    BY <1>6, <2>1, <2>2, <2>3, <2>4, <2>5, <2>6 DEF CollectorStep
<1>7. ASSUME DestroyStep PROVE ListIsChain'
  <2>1. CASE DestroyStart
    BY <1>1, <2>1, <1>4, HeapAssumption DEF DestroyStart, Goto, ListHead, TypeOK
  <2>2. CASE CollectorStops
    <3>1. ListHead = region_list /\ ListHead' = region_list
      BY <1>1, <2>2, HeapAssumption DEF CollectorStops, ListHead, Goto, TypeOK
    <3> QED
      BY <1>1, <1>4, <2>2, <3>1 DEF CollectorStops
  <2>3. CASE DestroyListed
    <3>1. ListHead = tail /\ ListHead' = next[tail] /\ tail \in Regions
      BY <1>1, <2>3, HeapAssumption DEF DestroyListed, ListHead, TypeOK, RegionOrNull
    <3>2. chain # <<>> /\ tail = chain[Len(chain)]
      BY <1>1, <2>3, <3>1, HeadIsTop DEF DestroyListed
    <3>3. \A r \in Regions \ {tail} : next'[r] = next[r]
      BY <1>1, <2>3 DEF DestroyListed, unmap, TypeOK
    <3>4. chain' = SubSeq(chain, 1, Len(chain) - 1)
      BY <2>3 DEF DestroyListed
    <3> QED
      BY <1>1, <3>1, <3>2, <3>3, <3>4, PoppedIsChain
  <2>4. CASE DestroyLocal
    <3>1. local_region[Main] \in Regions \ Listed
      BY <2>4, HeldApart, HeapAssumption DEF DestroyLocal
    <3>2. ListHead' = ListHead
      BY <1>1, <2>4, HeapAssumption DEF DestroyLocal, ListHead, Goto, TypeOK
    <3> QED
      BY <1>1, <1>4, <2>4, <3>1, <3>2 DEF DestroyLocal, unmap, TypeOK
  <2> QED
    BY <1>7, <2>1, <2>2, <2>3, <2>4 DEF DestroyStep
<1> QED
  BY <1>5, <1>6, <1>7 DEF Next

-----------------------------------------------------------------------------
(* Ownership.                                                              *)

\* What may change hands in one step, as RegionPool allows it.
HandOver ==
  \E r \in Regions :
    \/ \E t \in Threads : Transfer(r, "unmapped", t) \/ Transfer(r, t, "listed")
    \/ Transfer(r, "listed", "collector")
    \/ Transfer(r, "collector", "unmapped")
    \/ Transfer(r, "listed", "unmapped")
    \/ Transfer(r, Main, "unmapped")

\* Who holds what, before and after a step.
LEMMA HoldingIs ==
  /\ Holding("unmapped") = Regions \ mapped /\ Holding("unmapped")' = Regions \ mapped'
  /\ Holding("listed") = Listed /\ Holding("listed")' = Listed'
  /\ Holding("collector") = Stolen /\ Holding("collector")' = Stolen'
  /\ \A t \in Threads : Holding(t) = OwnedBy(t) /\ Holding(t)' = OwnedBy(t)'
  BY HeapAssumption DEF Holding

\* Every step hands over at most one region, from an owner to one that RegionPool
\* allows.
LEMMA StepHandsOver == Inv /\ Next => Unmoved \/ HandOver
<1> SUFFICES ASSUME Inv, Next PROVE Unmoved \/ HandOver
  OBVIOUS
<1> USE DEF threadVars, gcVars
<1>1. TypeOK /\ ThreadInv /\ CollectorInv /\ DestroyInv /\ ListIsChain /\ StealIsCurrent
  BY DEF Inv
<1>2. ASSUME chain' = chain, mapped' = mapped, Stolen' = Stolen,
             \A t \in Threads : OwnedBy(t)' = OwnedBy(t)
      PROVE  Unmoved
  BY <1>2, HoldingIs DEF Unmoved, Owners, Listed
<1>3. ASSUME NEW t \in Threads, NEW r \in Regions \ mapped, mapped' = mapped \cup {r},
             chain' = chain, Stolen' = Stolen, OwnedBy(t)' = OwnedBy(t) \cup {r},
             \A u \in Threads \ {t} : OwnedBy(u)' = OwnedBy(u)
      PROVE  Transfer(r, "unmapped", t)
  <2>1. "unmapped" # t /\ Listed' = Listed
    BY <1>3, HeapAssumption DEF Listed
  <2> QED
    BY <1>3, <2>1, HoldingIs DEF Transfer, Owners
<1>4. \A t \in Threads : pc[t] # "new" => local_region[t] \in Regions
  BY <1>1 DEF ThreadInv, TypeOK, RegionOrNull
<1>5. ASSUME NEW t \in Threads, Mutator(t) PROVE Unmoved \/ HandOver
  <2>1. CASE ThreadInit(t)
    <3>1. PICK r \in Regions : region_allocate(r) /\ local_region' = [local_region EXCEPT ![t] = r]
      BY <2>1 DEF ThreadInit
    <3>2. \A u \in Threads \ {t} : OwnedBy(u)' = OwnedBy(u)
      BY <1>1, <2>1, <3>1 DEF ThreadInit, Goto, OwnedBy, TypeOK
    <3>3. OwnedBy(t) = {} /\ OwnedBy(t)' = {r}
      BY <1>1, <2>1, <3>1, HeapAssumption DEF ThreadInit, Goto, OwnedBy, TypeOK, ThreadInv, Pushing
    <3>4. r \in Regions \ mapped /\ mapped' = mapped \cup {r}
      BY <3>1 DEF region_allocate
    <3>5. chain' = chain /\ Stolen' = Stolen
      BY <2>1 DEF ThreadInit, Stolen
    <3>6. Transfer(r, "unmapped", t)
      BY <1>3, <3>2, <3>3, <3>4, <3>5
    <3> QED
      BY <3>6 DEF HandOver
  <2>2. CASE AllocFails(t)
    BY <1>1, <2>2, <1>2 DEF AllocFails, OwnedBy, Stolen, TypeOK
  <2>3. ASSUME NEW size \in Sizes, AllocLocal(t, size) PROVE Unmoved \/ HandOver
    BY <1>1, <2>3, <1>2 DEF AllocLocal, make_room_for, have_room_for, alloc_size_for, OwnedBy, Stolen, TypeOK
  <2>4. ASSUME NEW size \in Sizes, AllocNewRegion(t, size) PROVE Unmoved \/ HandOver
    <3>1. PICK r \in Regions : region_allocate(r) /\ local_region' = [local_region EXCEPT ![t] = r]
      BY <2>4 DEF AllocNewRegion
    <3>2. \A u \in Threads \ {t} : OwnedBy(u)' = OwnedBy(u)
      BY <1>1, <2>4, <3>1 DEF AllocNewRegion, Goto, OwnedBy, TypeOK
    <3>3. OwnedBy(t) = {local_region[t]} /\ OwnedBy(t)' = {local_region[t], r}
      BY <1>1, <1>4, <2>4, <3>1, HeapAssumption
      DEF AllocNewRegion, Goto, OwnedBy, TypeOK, ThreadInv, Pushing
    <3>4. r \in Regions \ mapped /\ mapped' = mapped \cup {r}
      BY <3>1 DEF region_allocate
    <3>5. chain' = chain /\ Stolen' = Stolen
      BY <2>4 DEF AllocNewRegion, Stolen
    <3>6. Transfer(r, "unmapped", t)
      BY <1>3, <3>2, <3>3, <3>4, <3>5
    <3> QED
      BY <3>6 DEF HandOver
  <2>5. CASE PushLoad(t)
    BY <1>1, <2>5, <1>2 DEF PushLoad, Goto, OwnedBy, Stolen, TypeOK
  <2>6. CASE PushCas(t)
    <3> DEFINE r == old_region[t]
    <3>1. r \in Regions /\ local_region[t] \in Regions /\ local_region[t] # r
      BY <2>6, HeldApart DEF PushCas, Pushing
    <3>2. Listed' = Listed \cup {r}
      BY <1>1, <2>6, <3>1, ChainPushed DEF PushCas
    <3>3. mapped' = mapped /\ Stolen' = Stolen
      BY <2>6 DEF PushCas, Stolen
    <3>4. \A u \in Threads \ {t} : OwnedBy(u)' = OwnedBy(u)
      BY <1>1, <2>6 DEF PushCas, PushReturns, Goto, OwnedBy, TypeOK
    <3>5. OwnedBy(t) = {local_region[t], r} /\ OwnedBy(t)' = {local_region[t]}
      BY <1>1, <2>6, <3>1, HeapAssumption DEF PushCas, PushReturns, Goto, OwnedBy, TypeOK
    <3>6. t # "listed"
      BY HeapAssumption
    <3>7. Transfer(r, t, "listed")
      <4> HIDE DEF r
      <4> QED
        BY <3>1, <3>2, <3>3, <3>4, <3>5, <3>6, HoldingIs DEF Transfer, Owners
    <3> QED
      BY <3>1, <3>7 DEF HandOver
  <2>7. CASE PushRetry(t)
    BY <1>1, <2>7, <1>2 DEF PushRetry, Goto, OwnedBy, Stolen, TypeOK
  <2>8. CASE ThreadExit(t)
    BY <1>1, <2>8, <1>2 DEF ThreadExit, Goto, OwnedBy, Stolen, TypeOK
  <2> QED
    BY <1>5, <2>1, <2>2, <2>3, <2>4, <2>5, <2>6, <2>7, <2>8 DEF Mutator, Alloc, Push
<1>6. ASSUME CollectorStep PROVE Unmoved \/ HandOver
  <2>1. CASE CollectStart
    BY <1>1, <2>1, <1>2 DEF CollectStart, OwnedBy, Stolen, TypeOK, CollectorInv
  <2>2. CASE StealLoad
    BY <1>1, <2>2, <1>2 DEF StealLoad, OwnedBy, Stolen, TypeOK, CollectorInv
  <2>3. CASE StealNext
    BY <1>1, <2>3, <1>2 DEF StealNext, OwnedBy, Stolen, TypeOK, CollectorInv
  <2>4. CASE StealCas
    <3>1. CASE region_list = gc_r
      <4>1. ListHead = gc_r /\ gc_r \in Regions
        BY <1>1, <2>4, <3>1 DEF StealCas, ListHead, DestroyInv, CollectorInv, TypeOK, RegionOrNull
      <4>2. chain # <<>> /\ gc_r = chain[Len(chain)]
        BY <1>1, <4>1, HeadIsTop, HeapAssumption
      <4>3. Listed' = Listed \ {gc_r} /\ gc_r \in Listed
        BY <1>1, <2>4, <3>1, <4>2, ChainPopped DEF StealCas, StealIsCurrent
      <4>4. mapped' = mapped /\ Stolen = {} /\ Stolen' = {gc_r}
        BY <2>4, <3>1, <4>1, HeapAssumption DEF StealCas, Stolen
      <4>5. \A t \in Threads : OwnedBy(t)' = OwnedBy(t)
        BY <2>4 DEF StealCas, OwnedBy
      <4>6. Transfer(gc_r, "listed", "collector")
        BY <4>3, <4>4, <4>5, HoldingIs, HeapAssumption DEF Transfer, Owners
      <4> QED
        BY <4>1, <4>6 DEF HandOver
    <3>2. CASE region_list # gc_r
      BY <1>2, <2>4, <3>2 DEF StealCas, Stolen, OwnedBy
    <3> QED
      BY <3>1, <3>2
  <2>5. CASE Collect
    BY <1>1, <2>5, <1>2 DEF Collect, OwnedBy, Stolen, TypeOK, CollectorInv
  <2>6. CASE FreeStolen
    <3>1. gc_r \in Regions /\ Stolen = {gc_r} /\ Stolen' = {}
      BY <1>1, <2>6 DEF FreeStolen, Stolen, CollectorInv, TypeOK, RegionOrNull
    <3>2. Listed' = Listed /\ mapped' = mapped \ {gc_r}
      BY <2>6 DEF FreeStolen, unmap, Listed
    <3>3. \A t \in Threads : OwnedBy(t)' = OwnedBy(t)
      BY <2>6 DEF FreeStolen, OwnedBy
    <3>4. Transfer(gc_r, "collector", "unmapped")
      BY <3>1, <3>2, <3>3, HoldingIs DEF Transfer, Owners
    <3> QED
      BY <3>1, <3>4 DEF HandOver
  <2> QED
    BY <1>6, <2>1, <2>2, <2>3, <2>4, <2>5, <2>6 DEF CollectorStep
<1>7. ASSUME DestroyStep PROVE Unmoved \/ HandOver
  <2>1. CASE DestroyStart
    BY <1>1, <2>1, <1>2 DEF DestroyStart, Goto, OwnedBy, Stolen, TypeOK
  <2>2. CASE CollectorStops
    BY <1>1, <2>2, <1>2 DEF CollectorStops, Goto, OwnedBy, Stolen, TypeOK, CollectorInv
  <2>3. CASE DestroyListed
    <3>1. ListHead = tail /\ tail \in Regions
      BY <1>1, <2>3 DEF DestroyListed, ListHead, TypeOK, RegionOrNull
    <3>2. chain # <<>> /\ tail = chain[Len(chain)] /\ tail \in Listed
      BY <1>1, <3>1, HeadIsTop, HeapAssumption DEF Listed
    <3>3. Listed' = Listed \ {tail}
      BY <1>1, <2>3, <3>2, ChainPopped DEF DestroyListed
    <3>4. mapped' = mapped \ {tail} /\ Stolen' = Stolen
      BY <2>3 DEF DestroyListed, unmap, Stolen
    <3>5. \A t \in Threads : OwnedBy(t)' = OwnedBy(t)
      BY <2>3 DEF DestroyListed, OwnedBy
    <3>6. Transfer(tail, "listed", "unmapped")
      BY <3>1, <3>2, <3>3, <3>4, <3>5, HoldingIs, HeapAssumption DEF Transfer, Owners
    <3> QED
      BY <3>1, <3>6 DEF HandOver
  <2>4. CASE DestroyLocal
    <3> DEFINE r == local_region[Main]
    <3>1. r \in Regions /\ OwnedBy(Main) = {r} /\ OwnedBy(Main)' = {}
      BY <1>1, <1>4, <2>4, HeapAssumption DEF DestroyLocal, Goto, OwnedBy, TypeOK, ThreadInv, Pushing
    <3>2. Listed' = Listed /\ Stolen' = Stolen /\ mapped' = mapped \ {r}
      BY <2>4 DEF DestroyLocal, unmap, Listed, Stolen
    <3>3. \A t \in Threads \ {Main} : OwnedBy(t)' = OwnedBy(t)
      BY <1>1, <2>4 DEF DestroyLocal, Goto, OwnedBy, TypeOK
    <3>4. Transfer(r, Main, "unmapped")
      <4> HIDE DEF r
      <4> QED
        BY <3>1, <3>2, <3>3, HoldingIs, HeapAssumption DEF Transfer, Owners
    <3> QED
      BY <3>1, <3>4 DEF HandOver
  <2> QED
    BY <1>7, <2>1, <2>2, <2>3, <2>4 DEF DestroyStep
<1> QED
  BY <1>5, <1>6, <1>7 DEF Next

\* The region a thread installs is not the one it pushes.
LEMMA FreshApartStep == Inv /\ Next => FreshApart'
<1> SUFFICES ASSUME Inv, Next PROVE FreshApart'
  OBVIOUS
<1> USE HeldApart DEF threadVars, gcVars, FreshApart, Pushing
<1>1. TypeOK
  BY DEF Inv
<1>2. ASSUME NEW t \in Threads, Mutator(t) PROVE FreshApart'
  <2>1. CASE ThreadInit(t)
    BY <1>1, <2>1 DEF ThreadInit, Goto, region_allocate, TypeOK
  <2>2. CASE AllocFails(t)
    BY <1>1, <2>2 DEF AllocFails, TypeOK
  <2>3. ASSUME NEW size \in Sizes, AllocLocal(t, size) PROVE FreshApart'
    BY <1>1, <2>3 DEF AllocLocal, make_room_for, have_room_for, alloc_size_for, TypeOK
  <2>4. ASSUME NEW size \in Sizes, AllocNewRegion(t, size) PROVE FreshApart'
    <3>1. PICK r \in Regions : region_allocate(r) /\ local_region' = [local_region EXCEPT ![t] = r]
      BY <2>4 DEF AllocNewRegion
    <3>2. local_region'[t] = r /\ old_region'[t] = local_region[t] /\ local_region[t] # r
      <4>1. local_region[t] \in mapped /\ r \notin mapped
        BY <2>4, <3>1 DEF AllocNewRegion, region_allocate
      <4> QED
        BY <1>1, <2>4, <3>1, <4>1 DEF AllocNewRegion, TypeOK
    <3>3. \A u \in Threads \ {t} :
            /\ pc'[u] = pc[u]
            /\ local_region'[u] = local_region[u] /\ old_region'[u] = old_region[u]
      BY <1>1, <2>4, <3>1 DEF AllocNewRegion, Goto, TypeOK
    <3> QED
      BY <3>2, <3>3
  <2>5. CASE PushLoad(t)
    BY <1>1, <2>5 DEF PushLoad, Goto, TypeOK
  <2>6. CASE PushCas(t)
    BY <1>1, <2>6 DEF PushCas, PushReturns, Goto, make_room_for, alloc_size_for, HeadMoved, TypeOK
  <2>7. CASE PushRetry(t)
    BY <1>1, <2>7 DEF PushRetry, Goto, TypeOK
  <2>8. CASE ThreadExit(t)
    BY <1>1, <2>8 DEF ThreadExit, Goto, TypeOK
  <2> QED
    BY <1>2, <2>1, <2>2, <2>3, <2>4, <2>5, <2>6, <2>7, <2>8 DEF Mutator, Alloc, Push
<1>3. ASSUME CollectorStep PROVE FreshApart'
  <2>1. CASE CollectStart
    BY <1>1, <2>1 DEF CollectStart, TypeOK
  <2>2. CASE StealLoad
    BY <1>1, <2>2 DEF StealLoad, TypeOK
  <2>3. CASE StealNext
    BY <1>1, <2>3 DEF StealNext, TypeOK
  <2>4. CASE StealCas
    BY <1>1, <2>4 DEF StealCas, HeadMoved, TypeOK
  <2>5. CASE Collect
    BY <1>1, <2>5 DEF Collect, TypeOK
  <2>6. CASE FreeStolen
    BY <1>1, <2>6 DEF FreeStolen, unmap, TypeOK
  <2> QED
    BY <1>3, <2>1, <2>2, <2>3, <2>4, <2>5, <2>6 DEF CollectorStep
<1>4. ASSUME DestroyStep PROVE FreshApart'
  <2>1. CASE DestroyStart
    BY <1>1, <2>1 DEF DestroyStart, Goto, TypeOK
  <2>2. CASE CollectorStops
    BY <1>1, <2>2 DEF CollectorStops, Goto, TypeOK
  <2>3. CASE DestroyListed
    BY <1>1, <2>3 DEF DestroyListed, unmap, TypeOK
  <2>4. CASE DestroyLocal
    BY <1>1, <2>4 DEF DestroyLocal, unmap, Goto, TypeOK
  <2> QED
    BY <1>4, <2>1, <2>2, <2>3, <2>4 DEF DestroyStep
<1> QED
  BY <1>2, <1>3, <1>4 DEF Next

\* The regions stay partitioned among their owners.
LEMMA SingleOwnerStep == Inv /\ Next => SingleOwner'
<1> SUFFICES ASSUME Inv, Next PROVE SingleOwner'
  OBVIOUS
<1>1. TypeOK /\ Partition
  BY SingleOwnerIsPartition DEF Inv
<1>2. TypeOK' /\ FreshApart'
  BY TypeStep, FreshApartStep
<1>3. Partition'
  <2>1. CASE Unmoved
    BY <1>1, <2>1 DEF Unmoved, Partition, Owners
  <2>2. CASE HandOver
    BY <1>1, <2>2, TransferKeepsPartition DEF HandOver
  <2> QED
    BY <2>1, <2>2, StepHandsOver
<1> QED
  BY <1>2, <1>3, SingleOwnerIsPartition, PTL

\* The region the collector has loaded stays on the list, and nobody writes its
\* next pointer, until the collector's compare-and-swap.
LEMMA StealStep == Inv /\ Next => StealIsCurrent'
<1> SUFFICES ASSUME Inv, Next PROVE StealIsCurrent'
  OBVIOUS
<1> USE DEF threadVars, gcVars, StealIsCurrent
<1>1. TypeOK /\ StealIsCurrent
  BY DEF Inv
<1>2. Listed \subseteq mapped /\ Listed \subseteq Regions
  BY ListedRegions DEF Inv, SingleOwner
<1>3. chain' = chain => Listed' = Listed
  BY DEF Listed
<1>4. \A t \in Threads : Pushing(t) => old_region[t] \notin Listed
  BY HeldApart
<1>5. pc[Main] = "destroy" => gc = "stopped"
  BY DEF Inv, DestroyInv
<1>6. ASSUME NEW t \in Threads, Mutator(t) PROVE StealIsCurrent'
  <2>1. CASE ThreadInit(t)
    BY <1>1, <2>1, <1>2, <1>3 DEF ThreadInit, Goto, region_allocate, TypeOK
  <2>2. CASE AllocFails(t)
    BY <1>1, <2>2, <1>3 DEF AllocFails, TypeOK
  <2>3. ASSUME NEW size \in Sizes, AllocLocal(t, size) PROVE StealIsCurrent'
    BY <1>1, <2>3, <1>3 DEF AllocLocal, make_room_for, have_room_for, alloc_size_for, TypeOK
  <2>4. ASSUME NEW size \in Sizes, AllocNewRegion(t, size) PROVE StealIsCurrent'
    BY <1>1, <2>4, <1>2, <1>3 DEF AllocNewRegion, Goto, region_allocate, TypeOK
  <2>5. CASE PushLoad(t)
    BY <1>1, <2>5, <1>2, <1>3, <1>4 DEF PushLoad, Goto, Pushing, TypeOK
  <2>6. CASE PushCas(t)
    <3>1. Listed' = Listed \cup {old_region[t]}
      BY <2>6, HeldApart, ChainPushed, <1>1 DEF PushCas, Pushing
    <3> QED
      BY <1>1, <2>6, <3>1 DEF PushCas
  <2>7. CASE PushRetry(t)
    BY <1>1, <2>7, <1>3 DEF PushRetry, Goto, TypeOK
  <2>8. CASE ThreadExit(t)
    BY <1>1, <2>8, <1>3 DEF ThreadExit, Goto, TypeOK
  <2> QED
    BY <1>6, <2>1, <2>2, <2>3, <2>4, <2>5, <2>6, <2>7, <2>8 DEF Mutator, Alloc, Push
<1>7. ASSUME CollectorStep PROVE StealIsCurrent'
  <2>1. CASE CollectStart
    BY <1>1, <2>1, <1>3 DEF CollectStart, TypeOK
  <2>2. CASE StealLoad
    <3>1. region_list # Null => region_list \in Listed
      <4>1. ListHead = region_list /\ ListIsChain
        BY <2>2 DEF Inv, DestroyInv, ListHead, StealLoad
      <4> QED
        BY <1>1, <4>1, HeadIsTop DEF Listed
    <3> QED
      BY <1>1, <1>3, <2>2, <3>1 DEF StealLoad
  <2>3. CASE StealNext
    BY <1>1, <2>3, <1>3 DEF StealNext, TypeOK
  <2>4. CASE StealCas
    BY <1>1, <2>4 DEF StealCas, HeadMoved, TypeOK
  <2>5. CASE Collect
    BY <1>1, <2>5, <1>3 DEF Collect, TypeOK
  <2>6. CASE FreeStolen
    BY <1>1, <2>6, <1>3 DEF FreeStolen, unmap, TypeOK
  <2> QED
    BY <1>7, <2>1, <2>2, <2>3, <2>4, <2>5, <2>6 DEF CollectorStep
<1>8. ASSUME DestroyStep PROVE StealIsCurrent'
  <2>1. CASE DestroyStart
    BY <1>1, <2>1, <1>3 DEF DestroyStart, Goto, TypeOK
  <2>2. CASE CollectorStops
    BY <1>1, <2>2, <1>3 DEF CollectorStops, Goto, TypeOK
  <2>3. CASE DestroyListed
    BY <1>1, <2>3, <1>3, <1>5 DEF DestroyListed, unmap, TypeOK
  <2>4. CASE DestroyLocal
    BY <1>1, <2>4, <1>3, <1>5 DEF DestroyLocal, unmap, Goto, TypeOK
  <2> QED
    BY <1>8, <2>1, <2>2, <2>3, <2>4 DEF DestroyStep
<1> QED
  BY <1>6, <1>7, <1>8 DEF Next

-----------------------------------------------------------------------------
(* The theorems.                                                           *)

\* Steps that change nothing keep the invariant.
LEMMA StutterInv == Inv /\ UNCHANGED vars => Inv'
<1> SUFFICES ASSUME Inv, UNCHANGED vars PROVE Inv'
  OBVIOUS
<1> USE DEF vars, threadVars, gcVars
<1>1. TypeOK'
  BY DEF Inv, TypeOK
<1>2. (ThreadInv /\ ContentionInv /\ AbortNeedsContention)'
  BY DEF Inv, ThreadInv, ContentionInv, AbortNeedsContention, Pushing
<1>3. (CollectorInv /\ DestroyInv)'
  BY DEF Inv, CollectorInv, DestroyInv
<1>4. ListIsChain'
  BY DEF Inv, ListIsChain, Below
<1>5. Listed' = Listed /\ Stolen' = Stolen /\ \A t \in Threads : OwnedBy(t)' = OwnedBy(t)
  BY DEF Listed, Stolen, OwnedBy
<1>6. SingleOwner'
  BY <1>5 DEF Inv, SingleOwner, Pushing
<1>7. StealIsCurrent'
  BY <1>5 DEF Inv, StealIsCurrent
<1> QED
  BY <1>1, <1>2, <1>3, <1>4, <1>6, <1>7 DEF Inv

\* The invariant holds in every reachable state.
THEOREM InvHolds == Spec => []Inv
<1>1. Inv /\ Next => Inv'
  BY TypeStep, ThreadInvStep, CollectorInvStep, DestroyInvStep, ContentionStep, ListStep,
     SingleOwnerStep, StealStep DEF Inv
<1> QED
  BY InitInv, StutterInv, <1>1, PTL DEF Spec

\* Type correctness of the heap; with it that no region is ever filled beyond
\* REGION_SIZE, whatever sizes are requested.
THEOREM TypeCorrect == Spec => []TypeOK
<1>1. Inv => TypeOK
  BY DEF Inv
<1> QED
  BY InvHolds, <1>1, PTL

\* The lock-free list of heap.c neither loses nor repeats a region, for any
\* number of pushing threads racing with the collector.
THEOREM ListSound == Spec => []ListIsChain
<1>1. Inv => ListIsChain
  BY DEF Inv
<1> QED
  BY InvHolds, <1>1, PTL

\* No region is ever used by two parties, or used after it was unmapped.
THEOREM SingleOwnership == Spec => []SingleOwner
<1>1. Inv => SingleOwner
  BY DEF Inv
<1> QED
  BY InvHolds, <1>1, PTL

\* steal_heap_region() cannot be fooled by an address that was freed and came
\* back between its loads and its compare-and-swap: with one collector thread
\* there is no ABA problem.
THEOREM StealCurrent == Spec => []StealIsCurrent
<1>1. Inv => StealIsCurrent
  BY DEF Inv
<1> QED
  BY InvHolds, <1>1, PTL

\* pup_heap_add_to_global_heap() gives up only under real contention.
THEOREM AbortByContention == Spec => []AbortNeedsContention
<1>1. Inv => AbortNeedsContention
  BY DEF Inv
<1> QED
  BY InvHolds, <1>1, PTL

\* What pup_heap_destroy() leaves mapped.
THEOREM DestroyComplete == Spec => []DestroyFreesTheRest
<1>1. ASSUME Inv, pc[Main] = "destroyed"
      PROVE  mapped = Stolen \cup {local_region[t] : t \in {u \in Threads : pc[u] = "exited"}}
  <2>1. Listed = {}
    <3>1. ListHead = Null
      BY <1>1 DEF Inv, DestroyInv, ListHead
    <3> QED
      BY <1>1, <3>1, EmptyHead DEF Inv
  <2>2. OwnedBy(Main) = {}
    BY <1>1 DEF OwnedBy
  <2>3. \A t \in Threads \ {Main} :
          OwnedBy(t) = IF pc[t] = "exited" THEN {local_region[t]} ELSE {}
    BY <1>1 DEF Inv, DestroyInv, ThreadInv, OwnedBy, Pushing
  <2>4. \A t \in Threads : pc[t] = "exited" => t # Main
    BY <1>1
  <2> QED
    BY <1>1, <2>1, <2>2, <2>3, <2>4, HeapAssumption DEF Inv, SingleOwner
<1>2. Inv => DestroyFreesTheRest
  BY <1>1 DEF DestroyFreesTheRest
<1> QED
  BY InvHolds, <1>2, PTL

\* The heap's regions change hands only as the specification RegionPool allows:
\* every step of a thread, of the collector or of pup_heap_destroy() is one of
\* its steps or changes no owner.
THEOREM PoolRefinement == Spec => ImplementsPool
<1>1. Init => Pool!Init
  <2> SUFFICES ASSUME Init PROVE owner = [r \in Regions |-> "unmapped"]
    BY DEF Pool!Init
  <2>1. Listed = {}
    BY EmptySeq DEF Init, Listed
  <2>2. Stolen = {} /\ \A t \in Threads : OwnedBy(t) = {}
    BY DEF Init, Stolen, OwnedBy
  <2> QED
    BY <2>1, <2>2 DEF owner
<1>2. ASSUME Inv, [Next]_vars PROVE [Pool!Next]_owner
  <2>1. Partition
    BY <1>2, SingleOwnerIsPartition DEF Inv
  <2>2. CASE UNCHANGED vars
    BY <2>2 DEF vars, threadVars, gcVars, owner, Listed, Stolen, OwnedBy
  <2>3. CASE Next /\ Unmoved
    <3>1. Partition'
      BY <2>1, <2>3 DEF Unmoved, Partition, Owners
    <3>2. OwnerAgrees
      BY <2>1, OwnerHolds
    <3>3. OwnerAgrees'
      BY <3>1, OwnerHolds, PTL
    <3>4. \A r \in Regions : owner'[r] = owner[r]
      BY <2>1, <2>3, <3>2, <3>3 DEF Unmoved, OwnerAgrees, Partition, Owners
    <3>5. owner = [q \in Regions |-> owner[q]] /\ owner' = [q \in Regions |-> owner'[q]]
      BY DEF owner
    <3> QED
      BY <3>4, <3>5
  <2>4. CASE Next /\ HandOver
    <3>1. PICK r \in Regions :
            \/ \E t \in Threads : Transfer(r, "unmapped", t) \/ Transfer(r, t, "listed")
            \/ Transfer(r, "listed", "collector")
            \/ Transfer(r, "collector", "unmapped")
            \/ Transfer(r, "listed", "unmapped")
            \/ Transfer(r, Main, "unmapped")
      BY <2>4 DEF HandOver
    <3>2. \A from, to : Transfer(r, from, to) => Pool!Pass(r, from, to)
      BY <2>1, TransferIsPass
    <3> QED
      BY <3>1, <3>2
      DEF Pool!Next, Pool!Take, Pool!Publish, Pool!Steal, Pool!Release, Pool!Destroy
  <2> QED
    BY <1>2, <2>2, <2>3, <2>4, StepHandsOver
<1> QED
  BY InvHolds, <1>1, <1>2, PTL DEF Spec, ImplementsPool, Pool!Spec
=============================================================================
