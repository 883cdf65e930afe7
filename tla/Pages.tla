------------------------------- MODULE Pages --------------------------------
(***************************************************************************)
(* The page allocator of system.c: a byte per page says whether it is in   *)
(* use, alloc_page takes the first free one and free_page finds the page   *)
(* from its address.  Its clients give back pages they hold, and may pass  *)
(* any other pointer by mistake as long as it is not the start of a page.  *)
(***************************************************************************)
EXTENDS Integers

CONSTANTS
  MAX_PAGES, PAGE_SIZE,
  physical_memory,   \* address of the array
  ADDRESSES,              \* number of addresses
  Clients

ASSUME PagesAssumption ==
  /\ MAX_PAGES \in Nat
  /\ PAGE_SIZE \in Nat \ {0}
  /\ physical_memory \in Nat
  /\ ADDRESSES \in Nat
  /\ physical_memory + MAX_PAGES * PAGE_SIZE < ADDRESSES

VARIABLES
  page_bitmap,   \* 0 = free, 1 = used
  held           \* history: the pages each client got and did not give back

pagesVars == <<page_bitmap, held>>

PageNumbers == 0 .. MAX_PAGES - 1
PageAddress(i) == physical_memory + i * PAGE_SIZE
PageStarts == {PageAddress(i) : i \in PageNumbers}

PagesInit ==
  /\ page_bitmap = [i \in PageNumbers |-> 0]
  /\ held = [c \in Clients |-> {}]

\* The page the scan of alloc_page stops at.
FirstFree(i) == page_bitmap[i] = 0 /\ \A j \in 0 .. i - 1 : page_bitmap[j] # 0

\* Variant: the page is returned without being marked.
alloc_pageUnmarked(c) ==
  \E i \in PageNumbers :
    /\ FirstFree(i)
    /\ held' = [held EXCEPT ![c] = @ \cup {i}]
    /\ UNCHANGED page_bitmap

\* With no free page alloc_page returns NULL and changes nothing.
alloc_page(c) ==
  \E i \in PageNumbers :
    /\ FirstFree(i)
    /\ page_bitmap' = [page_bitmap EXCEPT ![i] = 1]
    /\ held' = [held EXCEPT ![c] = @ \cup {i}]

\* Variant: the alignment test dropped.
free_pageUnaligned(ptr) ==
  LET index == ((ptr - physical_memory) % ADDRESSES) \div PAGE_SIZE
  IN page_bitmap' = IF index < MAX_PAGES THEN [page_bitmap EXCEPT ![index] = 0] ELSE page_bitmap

\* The effect of free_page on the bitmap; the subtraction wraps below the array.
free_page(ptr) ==
  LET offset == (ptr - physical_memory) % ADDRESSES
      index == offset \div PAGE_SIZE
  IN page_bitmap' = IF offset % PAGE_SIZE = 0 /\ index < MAX_PAGES
                      THEN [page_bitmap EXCEPT ![index] = 0]
                      ELSE page_bitmap

GiveBack(c) ==
  \E i \in held[c] :
    /\ free_page(PageAddress(i))
    /\ held' = [held EXCEPT ![c] = @ \ {i}]

FreeStray ==
  /\ \E ptr \in (0 .. ADDRESSES - 1) \ PageStarts : free_page(ptr)
  /\ UNCHANGED held

PagesNext ==
  \/ \E c \in Clients : alloc_page(c) \/ GiveBack(c)
  \/ FreeStray

PagesSpec == PagesInit /\ [][PagesNext]_pagesVars

PagesTypeOK ==
  /\ page_bitmap \in [PageNumbers -> {0, 1}]
  /\ held \in [Clients -> SUBSET PageNumbers]

(***************************************************************************)
(* A page is never held by two clients, and the bitmap says "used" for the *)
(* pages that are held and for no others: none is handed out twice, none   *)
(* is lost, and a stray pointer given to free_page, unaligned, below or    *)
(* beyond the array, releases nobody's page (system.c:17-35).              *)
(***************************************************************************)
PagesSound ==
  /\ \A i \in PageNumbers : page_bitmap[i] = 1 <=> \E c \in Clients : i \in held[c]
  /\ \A c, d \in Clients : c # d => held[c] \cap held[d] = {}
=============================================================================
