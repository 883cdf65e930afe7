------------------------------- MODULE Memory -------------------------------
(***************************************************************************)
(* The memory of system.c: the heap and the page allocator side by side.   *)
(* They share a file and their callers, and neither looks at the other.    *)
(***************************************************************************)
EXTENDS Heap, Pages

MemoryInit == HeapInit /\ PagesInit

MemoryNext ==
  \/ HeapNext /\ UNCHANGED pagesVars
  \/ PagesNext /\ UNCHANGED heapVars

MemorySpec == MemoryInit /\ [][MemoryNext]_<<heapVars, pagesVars>>
=============================================================================
