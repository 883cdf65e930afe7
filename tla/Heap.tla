-------------------------------- MODULE Heap --------------------------------
(***************************************************************************)
(* The kernel heap of system.c: malloc moves an index up a fixed array and *)
(* free does nothing, so memory is only ever handed out once; mmap takes   *)
(* its memory from malloc and records it in a table of MAX_MAPPINGS        *)
(* entries that munmap marks free and never reuses.                        *)
(*                                                                         *)
(* Addresses are offsets into the heap array.  The sum that malloc tests   *)
(* is a size_t and wraps at WORD.                                          *)
(***************************************************************************)
EXTENDS Integers, Sequences

CONSTANTS
  HEAP_SIZE, MAX_MAPPINGS,
  WORD,          \* number of values of a size_t
  Sizes,         \* sizes asked of malloc
  MapLengths     \* lengths asked of mmap

(***************************************************************************)
(* The callers of the kernel ask for a table of 128 devices, a register    *)
(* block or a string that is already in memory: never for so much that the *)
(* sum in malloc wraps, and never for a mapping of length zero.            *)
(***************************************************************************)
ASSUME HeapAssumption ==
  /\ HEAP_SIZE \in Nat
  /\ MAX_MAPPINGS \in Nat
  /\ WORD \in Nat
  /\ Sizes \subseteq Nat
  /\ MapLengths \subseteq Nat \ {0}
  /\ \A n \in Sizes \cup MapLengths : HEAP_SIZE + n < WORD

VARIABLES
  heap_index,
  mappings,      \* the used entries of the table, next_mapping of them
  result,        \* what the last call returned
  blocks         \* history: every non-empty block malloc returned, in order

heapVars == <<heap_index, mappings, result, blocks>>

NULL == -1
MAP_FAILED == -2
NotFound == -3

next_mapping == Len(mappings)

HeapInit ==
  /\ heap_index = 0
  /\ mappings = <<>>
  /\ result = NULL
  /\ blocks = <<>>

\* Variant: the bound misses the requested size.
FitsIndexOnly(size) == heap_index % WORD <= HEAP_SIZE

\* The test at the head of malloc.
Fits(size) == (heap_index + size) % WORD <= HEAP_SIZE

\* malloc's assignments when there is room.
Take(size) ==
  /\ blocks' = IF size = 0 THEN blocks
               ELSE Append(blocks, [addr |-> heap_index, size |-> size])
  /\ heap_index' = (heap_index + size) % WORD

malloc(size) ==
  \/ /\ Fits(size)
     /\ Take(size)
     /\ result' = heap_index
     /\ UNCHANGED mappings
  \/ /\ ~Fits(size)
     /\ result' = NULL
     /\ UNCHANGED <<heap_index, mappings, blocks>>

\* Variant: mmap takes its memory before it looks at the table.
mmapTakesFirst(length) ==
  \/ /\ Fits(length)
     /\ Take(length)
     /\ IF next_mapping >= MAX_MAPPINGS
          THEN result' = MAP_FAILED /\ UNCHANGED mappings
          ELSE /\ result' = heap_index
               /\ mappings' = Append(mappings, [addr |-> heap_index, size |-> length, allocated |-> TRUE])
  \/ /\ ~Fits(length)
     /\ result' = MAP_FAILED
     /\ UNCHANGED <<heap_index, mappings, blocks>>

\* Variant: the mapping is recorded at the index after the allocation.
mmapRecordsEnd(length) ==
  \/ /\ next_mapping < MAX_MAPPINGS /\ Fits(length)
     /\ Take(length)
     /\ result' = heap_index
     /\ mappings' = Append(mappings, [addr |-> heap_index', size |-> length, allocated |-> TRUE])
  \/ /\ next_mapping >= MAX_MAPPINGS \/ ~Fits(length)
     /\ result' = MAP_FAILED
     /\ UNCHANGED <<heap_index, mappings, blocks>>

\* Variant: the bound of the table off by one.
mmapOneMore(length) ==
  \/ /\ next_mapping <= MAX_MAPPINGS /\ Fits(length)
     /\ Take(length)
     /\ result' = heap_index
     /\ mappings' = Append(mappings, [addr |-> heap_index, size |-> length, allocated |-> TRUE])
  \/ /\ next_mapping > MAX_MAPPINGS \/ ~Fits(length)
     /\ result' = MAP_FAILED
     /\ UNCHANGED <<heap_index, mappings, blocks>>

mmap(length) ==
  \/ /\ next_mapping < MAX_MAPPINGS /\ Fits(length)
     /\ Take(length)
     /\ result' = heap_index
     /\ mappings' = Append(mappings, [addr |-> heap_index, size |-> length, allocated |-> TRUE])
  \/ /\ next_mapping >= MAX_MAPPINGS \/ ~Fits(length)
     /\ result' = MAP_FAILED
     /\ UNCHANGED <<heap_index, mappings, blocks>>

\* The entries munmap could release; it takes the first one.
Live(addr) == {i \in DOMAIN mappings : mappings[i].addr = addr /\ mappings[i].allocated}

\* Variant: munmap takes a released entry at the end out of the table.
munmapPops(addr) ==
  \/ \E i \in Live(addr) :
       /\ \A j \in Live(addr) : i <= j
       /\ mappings' = IF i = next_mapping THEN SubSeq(mappings, 1, i - 1)
                      ELSE [mappings EXCEPT ![i].allocated = FALSE]
       /\ result' = 0
       /\ UNCHANGED <<heap_index, blocks>>
  \/ /\ Live(addr) = {}
     /\ result' = NotFound
     /\ UNCHANGED <<heap_index, mappings, blocks>>

\* munmap calls free, which does nothing.
munmap(addr) ==
  \/ \E i \in Live(addr) :
       /\ \A j \in Live(addr) : i <= j
       /\ mappings' = [mappings EXCEPT ![i].allocated = FALSE]
       /\ result' = 0
       /\ UNCHANGED <<heap_index, blocks>>
  \/ /\ Live(addr) = {}
     /\ result' = NotFound
     /\ UNCHANGED <<heap_index, mappings, blocks>>

HeapNext ==
  \/ \E size \in Sizes : malloc(size)
  \/ \E length \in MapLengths : mmap(length)
  \/ \E addr \in 0 .. HEAP_SIZE : munmap(addr)

HeapSpec == HeapInit /\ [][HeapNext]_heapVars

Mapping == [addr : Nat, size : Nat, allocated : BOOLEAN]
Block == [addr : Nat, size : Nat]

HeapTypeOK ==
  /\ heap_index \in Nat
  /\ mappings \in Seq(Mapping)
  /\ blocks \in Seq(Block)
  /\ next_mapping <= MAX_MAPPINGS
  /\ result \in Nat \cup {NULL, MAP_FAILED, NotFound}

(***************************************************************************)
(* Every block malloc ever returned lies inside the heap array and no two  *)
(* of them overlap, however calls of malloc, mmap and munmap interleave    *)
(* (system.c:100-105).                                                     *)
(***************************************************************************)
BlocksSound ==
  /\ heap_index <= HEAP_SIZE
  /\ \A i \in DOMAIN blocks : blocks[i].addr + blocks[i].size <= heap_index
  /\ \A i, j \in DOMAIN blocks : i < j => blocks[i].addr + blocks[i].size <= blocks[j].addr

(***************************************************************************)
(* Every entry of the mapping table is a block malloc returned for it, and *)
(* no two entries cover the same byte, released entries included: a        *)
(* mapping that was unmapped is never handed out under a second entry, no  *)
(* mapping reaches into memory of another caller, and the address alone    *)
(* tells munmap which entry is meant (system.c:335-370).                   *)
(***************************************************************************)
MappingsSound ==
  /\ \A i \in DOMAIN mappings : \E b \in DOMAIN blocks :
       blocks[b].addr = mappings[i].addr /\ blocks[b].size = mappings[i].size
  /\ \A i, j \in DOMAIN mappings : i < j =>
       mappings[i].addr + mappings[i].size <= mappings[j].addr

(***************************************************************************)
(* A call that fails takes nothing: neither heap memory nor a table entry  *)
(* is lost, whichever of the two ran out (system.c:338-346).               *)
(***************************************************************************)
FailureTakesNothing ==
  [][result' \in {NULL, MAP_FAILED, NotFound} => UNCHANGED <<heap_index, mappings, blocks>>]_heapVars

(***************************************************************************)
(* Memory and table entries are spent once and for all: no call gives heap *)
(* back, and no call rewrites the place of an existing mapping, so a caller*)
(* can keep its pointer forever (system.c:46-49, 359-370).                 *)
(***************************************************************************)
NothingReused ==
  [][/\ heap_index <= heap_index'
     /\ Len(mappings) <= Len(mappings')
     /\ \A i \in DOMAIN mappings :
          /\ mappings'[i].addr = mappings[i].addr
          /\ mappings'[i].size = mappings[i].size
          /\ mappings'[i].allocated => mappings[i].allocated]_heapVars
=============================================================================
