---------------------------- MODULE MemoryProofs ----------------------------
(***************************************************************************)
(* Proofs about the memory of system.c, for every heap size, table size    *)
(* and set of requests that HeapAssumption allows, and every number, size  *)
(* and place of pages that PagesAssumption allows: first the heap, then    *)
(* the page allocator, then both side by side.                             *)
(***************************************************************************)
EXTENDS Memory, TLAPS

----------------------------------------------------------------------------
(* The heap *)

(***************************************************************************)
(* The inductive invariant.  That every mapping ends below heap_index      *)
(* follows from MappingsSound and BlocksSound; it is what keeps the next   *)
(* entry disjoint from the earlier ones.                                   *)
(***************************************************************************)
HeapInv == HeapTypeOK /\ BlocksSound /\ MappingsSound

\* No request of the kernel makes the sum in malloc wrap.
LEMMA NoWrap ==
  ASSUME HeapInv, NEW n \in Sizes \cup MapLengths
  PROVE  /\ n \in Nat
         /\ (heap_index + n) % WORD = heap_index + n
         /\ Fits(n) <=> heap_index + n <= HEAP_SIZE
<1>1. n \in Nat /\ HEAP_SIZE + n < WORD
  BY HeapAssumption
<1>2. heap_index \in Nat /\ heap_index <= HEAP_SIZE
  BY DEF HeapInv, HeapTypeOK, BlocksSound
<1>3. heap_index + n \in Nat /\ heap_index + n < WORD
  BY <1>1, <1>2, HeapAssumption
<1>4. (heap_index + n) % WORD = heap_index + n
  BY <1>3, HeapAssumption
<1> QED
  BY <1>1, <1>4 DEF Fits

\* Taking n bytes keeps the blocks inside the heap and apart.
LEMMA TakeKeepsBlocks ==
  ASSUME HeapInv, NEW n \in Sizes \cup MapLengths, Fits(n), Take(n)
  PROVE  /\ heap_index' = heap_index + n
         /\ heap_index' \in Nat
         /\ blocks' \in Seq(Block)
         /\ BlocksSound'
         /\ \A b \in DOMAIN blocks : b \in DOMAIN blocks' /\ blocks'[b] = blocks[b]
<1>1. /\ n \in Nat /\ heap_index' = heap_index + n /\ heap_index + n <= HEAP_SIZE
  BY NoWrap DEF Take
<1>2. /\ heap_index \in Nat /\ heap_index <= HEAP_SIZE /\ blocks \in Seq(Block)
      /\ \A i \in DOMAIN blocks : blocks[i].addr + blocks[i].size <= heap_index
      /\ \A i, j \in DOMAIN blocks : i < j => blocks[i].addr + blocks[i].size <= blocks[j].addr
  BY DEF HeapInv, HeapTypeOK, BlocksSound
<1>3. \A i \in DOMAIN blocks : blocks[i].addr \in Nat /\ blocks[i].size \in Nat
  <2> SUFFICES ASSUME NEW i \in DOMAIN blocks
               PROVE  blocks[i].addr \in Nat /\ blocks[i].size \in Nat
    OBVIOUS
  <2>1. blocks[i] \in Block
    BY <1>2
  <2> QED BY <2>1 DEF Block
<1>4. CASE n = 0
  <2>1. blocks' = blocks /\ heap_index' = heap_index
    BY <1>1, <1>2, <1>4 DEF Take
  <2> QED BY <2>1, <1>1, <1>2 DEF BlocksSound
<1>5. CASE n # 0
  <2> DEFINE new == [addr |-> heap_index, size |-> n]
  <2>1. new \in Block
    BY <1>1, <1>2 DEF Block
  <2>2. blocks' = Append(blocks, new)
    BY <1>5 DEF Take
  <2>3. /\ blocks' \in Seq(Block)
        /\ DOMAIN blocks' = 1 .. Len(blocks) + 1
        /\ DOMAIN blocks = 1 .. Len(blocks)
        /\ Len(blocks) \in Nat
        /\ \A i \in DOMAIN blocks : blocks'[i] = blocks[i]
        /\ blocks'[Len(blocks) + 1] = new
    BY <2>1, <2>2, <1>2
  <2>4. \A i \in DOMAIN blocks' : i \in DOMAIN blocks \/ i = Len(blocks) + 1
    BY <2>3
  <2>5. new.addr = heap_index /\ new.size = n
    OBVIOUS
  <2>6. \A i \in DOMAIN blocks' : blocks'[i].addr + blocks'[i].size <= heap_index'
    <3> SUFFICES ASSUME NEW i \in DOMAIN blocks'
                 PROVE  blocks'[i].addr + blocks'[i].size <= heap_index'
      OBVIOUS
    <3>1. CASE i \in DOMAIN blocks
      BY <3>1, <2>3, <1>1, <1>2, <1>3
    <3>2. CASE i = Len(blocks) + 1
      BY <3>2, <2>3, <2>5, <1>1, <1>2
    <3> QED BY <3>1, <3>2, <2>4
  <2>7. \A i, j \in DOMAIN blocks' : i < j => blocks'[i].addr + blocks'[i].size <= blocks'[j].addr
    <3> SUFFICES ASSUME NEW i \in DOMAIN blocks', NEW j \in DOMAIN blocks', i < j
                 PROVE  blocks'[i].addr + blocks'[i].size <= blocks'[j].addr
      OBVIOUS
    <3>1. i \in DOMAIN blocks
      BY <2>3
    <3>2. CASE j \in DOMAIN blocks
      BY <3>1, <3>2, <2>3, <1>2
    <3>3. CASE j = Len(blocks) + 1
      BY <3>1, <3>3, <2>3, <2>5, <1>2
    <3> QED BY <3>2, <3>3, <2>4
  <2> QED BY <2>3, <2>6, <2>7, <1>1, <1>2 DEF BlocksSound
<1> QED
  BY <1>4, <1>5

\* Every mapping ends at or below heap_index, because its block does.
LEMMA MappingsBelowIndex ==
  ASSUME HeapInv
  PROVE  \A i \in DOMAIN mappings : mappings[i].addr + mappings[i].size <= heap_index
  BY DEF HeapInv, BlocksSound, MappingsSound

\* malloc keeps the invariant, whether it succeeds or not.
LEMMA MallocKeepsInv ==
  ASSUME HeapInv, NEW n \in Sizes, malloc(n)
  PROVE  HeapInv'
<1>1. CASE Fits(n) /\ Take(n) /\ result' = heap_index /\ UNCHANGED mappings
  <2>1. /\ heap_index' \in Nat /\ blocks' \in Seq(Block) /\ BlocksSound'
        /\ \A b \in DOMAIN blocks : b \in DOMAIN blocks' /\ blocks'[b] = blocks[b]
    BY <1>1, TakeKeepsBlocks
  <2>2. HeapTypeOK'
    BY <1>1, <2>1 DEF HeapInv, HeapTypeOK, next_mapping
  <2>3. MappingsSound'
    BY <1>1, <2>1 DEF HeapInv, MappingsSound
  <2> QED BY <2>1, <2>2, <2>3 DEF HeapInv
<1>2. CASE result' = NULL /\ UNCHANGED <<heap_index, mappings, blocks>>
  BY <1>2 DEF HeapInv, HeapTypeOK, BlocksSound, MappingsSound, next_mapping
<1> QED
  BY <1>1, <1>2 DEF malloc

\* mmap keeps the invariant: a new entry starts where all earlier ones end.
LEMMA MmapKeepsInv ==
  ASSUME HeapInv, NEW n \in MapLengths, mmap(n)
  PROVE  HeapInv'
<1> DEFINE new == [addr |-> heap_index, size |-> n, allocated |-> TRUE]
<1>1. CASE /\ next_mapping < MAX_MAPPINGS /\ Fits(n) /\ Take(n) /\ result' = heap_index
           /\ mappings' = Append(mappings, new)
  <2>1. /\ heap_index' \in Nat /\ blocks' \in Seq(Block) /\ BlocksSound'
        /\ \A b \in DOMAIN blocks : b \in DOMAIN blocks' /\ blocks'[b] = blocks[b]
    BY <1>1, TakeKeepsBlocks
  <2>2. n \in Nat /\ n # 0
    BY HeapAssumption
  <2>3. heap_index \in Nat /\ mappings \in Seq(Mapping) /\ blocks \in Seq(Block)
    BY DEF HeapInv, HeapTypeOK
  <2>4. new \in Mapping
    BY <2>2, <2>3 DEF Mapping
  <2>5. /\ mappings' \in Seq(Mapping)
        /\ Len(mappings') = Len(mappings) + 1
        /\ DOMAIN mappings' = 1 .. Len(mappings) + 1
        /\ DOMAIN mappings = 1 .. Len(mappings)
        /\ Len(mappings) \in Nat
        /\ \A i \in DOMAIN mappings : mappings'[i] = mappings[i]
        /\ mappings'[Len(mappings) + 1] = new
    BY <1>1, <2>3, <2>4
  <2>6. HeapTypeOK'
    BY <1>1, <2>1, <2>3, <2>5, HeapAssumption DEF HeapTypeOK, next_mapping
  <2>7. \A i \in DOMAIN mappings' : i \in DOMAIN mappings \/ i = Len(mappings) + 1
    BY <2>5
  <2>8. \E b \in DOMAIN blocks' : blocks'[b].addr = new.addr /\ blocks'[b].size = new.size
    <3>1. blocks' = Append(blocks, [addr |-> heap_index, size |-> n])
      BY <1>1, <2>2 DEF Take
    <3>2. [addr |-> heap_index, size |-> n] \in Block
      BY <2>2, <2>3 DEF Block
    <3>3. /\ Len(blocks) + 1 \in DOMAIN blocks'
          /\ blocks'[Len(blocks) + 1] = [addr |-> heap_index, size |-> n]
      BY <3>1, <3>2, <2>3
    <3> QED BY <3>3
  <2>9. \A i \in DOMAIN mappings' : \E b \in DOMAIN blocks' :
          blocks'[b].addr = mappings'[i].addr /\ blocks'[b].size = mappings'[i].size
    BY <2>1, <2>5, <2>7, <2>8 DEF HeapInv, MappingsSound
  <2>10. \A i, j \in DOMAIN mappings' : i < j =>
           mappings'[i].addr + mappings'[i].size <= mappings'[j].addr
    <3> SUFFICES ASSUME NEW i \in DOMAIN mappings', NEW j \in DOMAIN mappings', i < j
                 PROVE  mappings'[i].addr + mappings'[i].size <= mappings'[j].addr
      OBVIOUS
    <3>1. i \in DOMAIN mappings
      BY <2>5
    <3>2. CASE j \in DOMAIN mappings
      BY <3>1, <3>2, <2>5 DEF HeapInv, MappingsSound
    <3>3. CASE j = Len(mappings) + 1
      <4>1. mappings[i].addr + mappings[i].size <= heap_index
        BY <3>1, MappingsBelowIndex
      <4>2. new.addr = heap_index
        OBVIOUS
      <4> QED BY <3>1, <3>3, <4>1, <4>2, <2>5
    <3> QED BY <3>2, <3>3, <2>7
  <2> QED BY <2>1, <2>6, <2>9, <2>10 DEF HeapInv, MappingsSound
<1>2. CASE result' = MAP_FAILED /\ UNCHANGED <<heap_index, mappings, blocks>>
  BY <1>2 DEF HeapInv, HeapTypeOK, BlocksSound, MappingsSound, next_mapping
<1> QED
  BY <1>1, <1>2 DEF mmap

\* munmap changes one flag of one entry.
LEMMA MunmapStep ==
  ASSUME HeapInv, NEW addr, munmap(addr)
  PROVE  /\ UNCHANGED <<heap_index, blocks>>
         /\ mappings' \in Seq(Mapping)
         /\ Len(mappings') = Len(mappings)
         /\ DOMAIN mappings' = DOMAIN mappings
         /\ result' \in {0, NotFound}
         /\ \A i \in DOMAIN mappings :
              /\ mappings'[i].addr = mappings[i].addr
              /\ mappings'[i].size = mappings[i].size
              /\ mappings'[i].allocated => mappings[i].allocated
<1>1. mappings \in Seq(Mapping)
  BY DEF HeapInv, HeapTypeOK
<1>2. ASSUME NEW i \in Live(addr), mappings' = [mappings EXCEPT ![i].allocated = FALSE]
      PROVE  /\ mappings' \in Seq(Mapping)
             /\ Len(mappings') = Len(mappings)
             /\ DOMAIN mappings' = DOMAIN mappings
             /\ \A k \in DOMAIN mappings :
                  /\ mappings'[k].addr = mappings[k].addr
                  /\ mappings'[k].size = mappings[k].size
                  /\ mappings'[k].allocated => mappings[k].allocated
  <2>1. i \in DOMAIN mappings
    BY DEF Live
  <2>2. [mappings[i] EXCEPT !.allocated = FALSE] \in Mapping
    <3>1. mappings[i] \in Mapping
      BY <1>1, <2>1
    <3> QED BY <3>1 DEF Mapping
  <2> QED BY <1>1, <1>2, <2>1, <2>2 DEF Mapping
<1>3. CASE UNCHANGED <<heap_index, mappings, blocks>> /\ result' = NotFound
  BY <1>1, <1>3
<1> QED
  BY <1>2, <1>3 DEF munmap

(***************************************************************************)
(* However malloc, mmap and munmap are called, the state is well-typed,    *)
(* the blocks lie apart inside the heap, and every mapping has a block of  *)
(* its own (system.c:100-105, 335-370).                                    *)
(***************************************************************************)
LEMMA HeapIsSound == HeapSpec => [](HeapTypeOK /\ BlocksSound /\ MappingsSound)
<1>1. HeapInit => HeapInv
  BY HeapAssumption
     DEF HeapInit, HeapInv, HeapTypeOK, BlocksSound, MappingsSound, next_mapping, NULL
<1>2. HeapInv /\ [HeapNext]_heapVars => HeapInv'
  <2> SUFFICES ASSUME HeapInv, [HeapNext]_heapVars
               PROVE  HeapInv'
    OBVIOUS
  <2>1. ASSUME NEW n \in Sizes, malloc(n) PROVE HeapInv'
    BY <2>1, MallocKeepsInv
  <2>2. ASSUME NEW n \in MapLengths, mmap(n) PROVE HeapInv'
    BY <2>2, MmapKeepsInv
  <2>3. ASSUME NEW addr \in 0 .. HEAP_SIZE, munmap(addr) PROVE HeapInv'
    <3>1. HeapTypeOK'
      BY <2>3, MunmapStep DEF HeapInv, HeapTypeOK, next_mapping
    <3>2. BlocksSound' /\ MappingsSound'
      BY <2>3, MunmapStep DEF HeapInv, BlocksSound, MappingsSound
    <3> QED BY <3>1, <3>2 DEF HeapInv
  <2>4. CASE UNCHANGED heapVars
    BY <2>4 DEF heapVars, HeapInv, HeapTypeOK, BlocksSound, MappingsSound, next_mapping
  <2> QED
    BY <2>1, <2>2, <2>3, <2>4 DEF HeapNext
<1>3. HeapInv => HeapTypeOK /\ BlocksSound /\ MappingsSound
  BY DEF HeapInv
<1> QED
  BY <1>1, <1>2, <1>3, PTL DEF HeapSpec

(***************************************************************************)
(* A failing malloc, mmap or munmap leaves the heap and the table as they  *)
(* were: a successful call returns an address, which no failure code is    *)
(* (system.c:101, 338-346, 369).                                           *)
(***************************************************************************)
LEMMA HeapFailureIsClean == HeapSpec => FailureTakesNothing
<1>1. HeapInv /\ [HeapNext]_heapVars
        => [result' \in {NULL, MAP_FAILED, NotFound}
              => UNCHANGED <<heap_index, mappings, blocks>>]_heapVars
  <2> SUFFICES ASSUME HeapInv, HeapNext, result' \in {NULL, MAP_FAILED, NotFound}
               PROVE  UNCHANGED <<heap_index, mappings, blocks>>
    BY DEF heapVars
  <2>1. heap_index \in Nat /\ result' < 0
    BY DEF HeapInv, HeapTypeOK, NULL, MAP_FAILED, NotFound
  <2>2. result' # heap_index /\ result' # 0
    BY <2>1
  <2> QED
    BY <2>2 DEF HeapNext, malloc, mmap, munmap
<1> QED
  BY <1>1, HeapIsSound, PTL DEF HeapSpec, FailureTakesNothing, HeapInv

(***************************************************************************)
(* No call of malloc, mmap or munmap gives heap memory back or changes     *)
(* where an existing mapping lies (system.c:46-49, 100-105, 335-370).      *)
(***************************************************************************)
LEMMA HeapIsSpentOnce == HeapSpec => NothingReused
<1> DEFINE Kept == /\ heap_index <= heap_index'
                   /\ Len(mappings) <= Len(mappings')
                   /\ \A i \in DOMAIN mappings :
                        /\ mappings'[i].addr = mappings[i].addr
                        /\ mappings'[i].size = mappings[i].size
                        /\ mappings'[i].allocated => mappings[i].allocated
<1>1. HeapInv /\ [HeapNext]_heapVars => [Kept]_heapVars
  <2> SUFFICES ASSUME HeapInv, HeapNext
               PROVE  Kept
    BY DEF heapVars
  <2>1. heap_index \in Nat /\ mappings \in Seq(Mapping) /\ Len(mappings) \in Nat
    BY DEF HeapInv, HeapTypeOK
  <2>2. ASSUME NEW n \in Sizes \cup MapLengths, Fits(n), Take(n)
        PROVE  heap_index <= heap_index'
    BY <2>1, <2>2, NoWrap, TakeKeepsBlocks
  <2>3. ASSUME NEW n \in Sizes, malloc(n) PROVE Kept
    BY <2>1, <2>2, <2>3 DEF malloc
  <2>4. ASSUME NEW n \in MapLengths, mmap(n) PROVE Kept
    <3> DEFINE new == [addr |-> heap_index, size |-> n, allocated |-> TRUE]
    <3>1. CASE Fits(n) /\ Take(n) /\ mappings' = Append(mappings, new)
      <4>1. new \in Mapping
        BY <2>1, NoWrap DEF Mapping
      <4>2. /\ Len(mappings') = Len(mappings) + 1
            /\ \A i \in DOMAIN mappings : mappings'[i] = mappings[i]
        BY <2>1, <3>1, <4>1
      <4> QED BY <2>1, <2>2, <3>1, <4>2
    <3>2. CASE UNCHANGED <<heap_index, mappings, blocks>>
      BY <2>1, <3>2
    <3> QED BY <2>4, <3>1, <3>2 DEF mmap
  <2>5. ASSUME NEW addr \in 0 .. HEAP_SIZE, munmap(addr) PROVE Kept
    BY <2>1, <2>5, MunmapStep
  <2> QED
    BY <2>3, <2>4, <2>5 DEF HeapNext
<1> QED
  BY <1>1, HeapIsSound, PTL DEF HeapSpec, NothingReused, HeapInv

----------------------------------------------------------------------------
(* The page allocator *)

PagesInv == PagesTypeOK /\ PagesSound

\* An offset that is a multiple of the page size is its quotient times the size.
LEMMA DivExact ==
  ASSUME NEW n \in Nat, NEW p \in Nat \ {0}
  PROVE  /\ n % p = 0 => n = (n \div p) * p
         /\ n \div p \in Nat
  BY SMT

LEMMA DivOfMultiple ==
  ASSUME NEW i \in Nat, NEW p \in Nat \ {0}
  PROVE  (i * p) % p = 0 /\ (i * p) \div p = i
  BY SMT

LEMMA ModInRange ==
  ASSUME NEW a \in Nat, NEW b \in Nat, NEW m \in Nat, a < m, b < m
  PROVE  /\ (a - b) % m \in Nat
         /\ b <= a => (a - b) % m = a - b
         /\ a < b => (a - b) % m = a - b + m
  BY SMT

LEMMA TimesMonotone ==
  ASSUME NEW i \in Nat, NEW j \in Nat, NEW p \in Nat, i < j
  PROVE  i * p \in Nat /\ i * p <= j * p
  BY SMT

\* Giving back the address of a page clears that page's byte.
LEMMA FreeOfPage ==
  ASSUME NEW i \in PageNumbers, free_page(PageAddress(i))
  PROVE  page_bitmap' = [page_bitmap EXCEPT ![i] = 0]
<1>1. i \in Nat /\ i < MAX_PAGES
  BY PagesAssumption DEF PageNumbers
<1>2. i * PAGE_SIZE \in Nat /\ i * PAGE_SIZE <= MAX_PAGES * PAGE_SIZE
  BY <1>1, TimesMonotone, PagesAssumption
<1>3. /\ PageAddress(i) \in Nat /\ PageAddress(i) < ADDRESSES
      /\ physical_memory < ADDRESSES /\ physical_memory <= PageAddress(i)
      /\ PageAddress(i) - physical_memory = i * PAGE_SIZE
  BY <1>2, PagesAssumption DEF PageAddress
<1>4. (PageAddress(i) - physical_memory) % ADDRESSES = i * PAGE_SIZE
  BY <1>3, ModInRange, PagesAssumption
<1>5. (i * PAGE_SIZE) % PAGE_SIZE = 0 /\ (i * PAGE_SIZE) \div PAGE_SIZE = i
  BY <1>1, DivOfMultiple, PagesAssumption
<1> QED
  BY <1>1, <1>4, <1>5 DEF free_page

\* Any other pointer changes nothing, also one below the array, whose offset wraps.
LEMMA FreeOfStray ==
  ASSUME NEW ptr \in (0 .. ADDRESSES - 1) \ PageStarts, free_page(ptr)
  PROVE  page_bitmap' = page_bitmap
<1> DEFINE offset == (ptr - physical_memory) % ADDRESSES
           index == offset \div PAGE_SIZE
<1>1. ptr \in Nat /\ ptr < ADDRESSES /\ ptr \notin PageStarts
  BY PagesAssumption
<1>2. MAX_PAGES * PAGE_SIZE \in Nat /\ physical_memory < ADDRESSES
  BY PagesAssumption
<1>3. /\ offset \in Nat
      /\ physical_memory <= ptr => offset = ptr - physical_memory
      /\ ptr < physical_memory => offset = ptr - physical_memory + ADDRESSES
  BY <1>1, <1>2, ModInRange, PagesAssumption
<1> HIDE DEF offset
<1>4. index \in Nat /\ (offset % PAGE_SIZE = 0 => offset = index * PAGE_SIZE)
  BY <1>3, DivExact, PagesAssumption
<1> HIDE DEF index
<1>5. ~(offset % PAGE_SIZE = 0 /\ index < MAX_PAGES)
  <2> SUFFICES ASSUME offset % PAGE_SIZE = 0, index < MAX_PAGES
               PROVE  FALSE
    OBVIOUS
  <2>1. offset = index * PAGE_SIZE /\ offset <= MAX_PAGES * PAGE_SIZE
    BY <1>4, TimesMonotone, PagesAssumption
  <2>2. CASE physical_memory <= ptr
    <3>1. ptr = physical_memory + index * PAGE_SIZE
      BY <2>1, <2>2, <1>1, <1>3, PagesAssumption
    <3>2. index \in PageNumbers
      BY <1>4, PagesAssumption DEF PageNumbers
    <3> QED BY <3>1, <3>2, <1>1 DEF PageStarts, PageAddress
  <2>3. CASE ptr < physical_memory
    BY <2>1, <2>3, <1>1, <1>2, <1>3, PagesAssumption
  <2> QED BY <2>2, <2>3, <1>1, PagesAssumption
<1>6. page_bitmap' = IF offset % PAGE_SIZE = 0 /\ index < MAX_PAGES
                       THEN [page_bitmap EXCEPT ![index] = 0] ELSE page_bitmap
  BY DEF free_page, offset, index
<1> QED
  BY <1>5, <1>6

(***************************************************************************)
(* The bitmap and the clients agree forever: no page has two holders, no   *)
(* page is lost, no stray pointer releases one (system.c:17-35).           *)
(***************************************************************************)
LEMMA PagesAreSound == PagesSpec => [](PagesTypeOK /\ PagesSound)
<1>1. PagesInit => PagesInv
  BY DEF PagesInit, PagesInv, PagesTypeOK, PagesSound
<1>2. PagesInv /\ [PagesNext]_pagesVars => PagesInv'
  <2> SUFFICES ASSUME PagesInv, [PagesNext]_pagesVars
               PROVE  PagesInv'
    OBVIOUS
  <2> USE DEF PagesInv
  <2>1. ASSUME NEW c \in Clients, alloc_page(c)
        PROVE  PagesInv'
    <3>1. PICK i \in PageNumbers :
            /\ page_bitmap[i] = 0
            /\ page_bitmap' = [page_bitmap EXCEPT ![i] = 1]
            /\ held' = [held EXCEPT ![c] = held[c] \cup {i}]
      BY <2>1 DEF alloc_page, FirstFree
    <3>2. \A d \in Clients : i \notin held[d]
      BY <3>1 DEF PagesSound
    <3>3. PagesTypeOK'
      BY <3>1 DEF PagesTypeOK
    <3>4. PagesSound'
      BY <3>1, <3>2 DEF PagesTypeOK, PagesSound
    <3> QED BY <3>3, <3>4
  <2>2. ASSUME NEW c \in Clients, GiveBack(c)
        PROVE  PagesInv'
    <3>1. PICK i \in held[c] :
            /\ free_page(PageAddress(i))
            /\ held' = [held EXCEPT ![c] = held[c] \ {i}]
      BY <2>2 DEF GiveBack
    <3>2. i \in PageNumbers
      BY <3>1 DEF PagesTypeOK
    <3>3. page_bitmap' = [page_bitmap EXCEPT ![i] = 0]
      BY <3>1, <3>2, FreeOfPage
    <3>4. \A d \in Clients : d # c => i \notin held[d]
      BY <3>1 DEF PagesSound
    <3>5. PagesTypeOK'
      BY <3>1, <3>2, <3>3 DEF PagesTypeOK
    <3>6. PagesSound'
      BY <3>1, <3>2, <3>3, <3>4 DEF PagesTypeOK, PagesSound
    <3> QED BY <3>5, <3>6
  <2>3. CASE FreeStray
    <3>1. page_bitmap' = page_bitmap /\ held' = held
      BY <2>3, FreeOfStray DEF FreeStray
    <3> QED BY <3>1 DEF PagesTypeOK, PagesSound
  <2>4. CASE UNCHANGED pagesVars
    BY <2>4 DEF pagesVars, PagesTypeOK, PagesSound
  <2> QED
    BY <2>1, <2>2, <2>3, <2>4 DEF PagesNext
<1> QED
  BY <1>1, <1>2, PTL DEF PagesSpec, PagesInv

----------------------------------------------------------------------------
(* Both *)

(***************************************************************************)
(* What holds of an allocator alone holds of it in the composition: their  *)
(* variables are disjoint (system.c:6-15).                                 *)
(***************************************************************************)
LEMMA AllocatorsAreApart == MemorySpec => HeapSpec /\ PagesSpec
<1>1. MemoryInit => HeapInit /\ PagesInit
  BY DEF MemoryInit
<1>2. [MemoryNext]_<<heapVars, pagesVars>> => [HeapNext]_heapVars /\ [PagesNext]_pagesVars
  BY DEF MemoryNext
<1> QED BY <1>1, <1>2, PTL DEF MemorySpec, HeapSpec, PagesSpec

(***************************************************************************)
(* The blocks malloc returned lie apart inside the heap array              *)
(* (system.c:100-105).                                                     *)
(***************************************************************************)
THEOREM BlocksStaySound == MemorySpec => []BlocksSound
BY AllocatorsAreApart, HeapIsSound, PTL

(***************************************************************************)
(* Every mapping is a block of its own, released ones included             *)
(* (system.c:335-370).                                                     *)
(***************************************************************************)
THEOREM MappingsStaySound == MemorySpec => []MappingsSound
BY AllocatorsAreApart, HeapIsSound, PTL

(***************************************************************************)
(* A call that fails changes neither the heap nor the table                *)
(* (system.c:101, 338-346, 369).                                           *)
(***************************************************************************)
THEOREM FailureIsClean == MemorySpec => FailureTakesNothing
BY AllocatorsAreApart, HeapFailureIsClean, PTL

(***************************************************************************)
(* No call gives heap memory back or moves a mapping                       *)
(* (system.c:46-49, 100-105, 335-370).                                     *)
(***************************************************************************)
THEOREM MemoryIsSpentOnce == MemorySpec => NothingReused
BY AllocatorsAreApart, HeapIsSpentOnce, PTL

(***************************************************************************)
(* No page has two holders, none is lost, and no stray pointer releases    *)
(* one (system.c:17-35).                                                   *)
(***************************************************************************)
THEOREM PagesStaySound == MemorySpec => []PagesSound
BY AllocatorsAreApart, PagesAreSound, PTL
=============================================================================
