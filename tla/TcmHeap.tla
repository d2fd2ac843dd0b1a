------------------------------ MODULE TcmHeap -------------------------------
(***************************************************************************)
(* The heap in tightly coupled memory, src/Ameba1_SDK/os/os_dep/           *)
(* tcm_heap.c: one singly linked list of free chunks in address order,     *)
(* first fit, blocks cut from the end of a chunk, neighbours merged when a *)
(* block is freed. Each call runs whole in a critical section, so a call   *)
(* is one action; the size word malloc() writes outside it lies in the     *)
(* block only the caller knows of.                                         *)
(*                                                                         *)
(* Addresses are byte offsets from the start of the heap. A caller hands   *)
(* back what it got, once (the header's note on double frees).             *)
(***************************************************************************)
EXTENDS Integers, SequencesExt

CONSTANTS
  HeapSize,  \* TCM_HEAP_SIZE
  Granule,   \* sizeof(MemChunk)
  IntSize,   \* sizeof(int), the size word before a malloc() block
  Sizes      \* sizes callers ask for

(* The heap is a whole number of granules and not empty.                   *)
ASSUME HeapAssumption ==
  /\ Granule \in Nat \ {0}
  /\ HeapSize \in Nat \ {0}
  /\ HeapSize % Granule = 0
  /\ IntSize \in Nat
  /\ Sizes \subseteq Nat

VARIABLES
  FreeList,  \* the chunks [at, size] in the order of the list
  blocks,    \* blocks in use: [at, size], size what the caller asked for
  refused    \* the last call returned NULL

vars == <<FreeList, blocks, refused>>

(* A plausible bug: a request kept as it is. *)
NotRounded(size) == IF size = 0 THEN Granule ELSE size

(* ROUND_UP2 to the granule, and one granule for nothing.                  *)
Rounded(size) ==
  LET up == ((size + Granule - 1) \div Granule) * Granule
  IN  IF up = 0 THEN Granule ELSE up

End(chunk) == chunk.at + chunk.size

Init ==
  /\ FreeList = <<[at |-> 0, size |-> HeapSize]>>
  /\ blocks = {}
  /\ refused = FALSE

-----------------------------------------------------------------------------
(* tcm_heap_allocmem().                                                    *)

Fits(size) == {i \in DOMAIN FreeList : FreeList[i].size >= Rounded(size)}

(* The chunk the walk stops at.                                            *)
FirstFit(size) ==
  CHOOSE i \in Fits(size) : \A j \in Fits(size) : i <= j

(* A plausible bug: the chunk shrinks at its front. *)
CutFront(i, length) ==
  IF FreeList[i].size = length
  THEN RemoveAt(FreeList, i)
  ELSE [FreeList EXCEPT ![i] = [at |-> @.at + length, size |-> @.size - length]]

(* The list without the block: the chunk goes when it fits exactly.        *)
Cut(i, length) ==
  IF FreeList[i].size = length
  THEN RemoveAt(FreeList, i)
  ELSE [FreeList EXCEPT ![i].size = @ - length]

Allocmem(size) ==
  /\ Fits(size) # {}
  /\ LET i == FirstFit(size)
     IN  /\ FreeList' = Cut(i, Rounded(size))
         /\ blocks' = blocks \cup
              {[at |-> End(FreeList[i]) - Rounded(size), size |-> size]}
  /\ refused' = FALSE

AllocmemFails(size) ==
  /\ Fits(size) = {}
  /\ refused' = TRUE
  /\ UNCHANGED <<FreeList, blocks>>

(* tcm_heap_malloc(): the block starts with its own size.                  *)
Malloc(size) == Allocmem(size + IntSize) \/ AllocmemFails(size + IntSize)

-----------------------------------------------------------------------------
(* tcm_heap_freemem().                                                     *)

(* A plausible bug: every block goes to the end of the list. *)
PassedAll(list, mem) == Len(list)

(* How many chunks the walk passes. A block below the head goes before it; *)
(* otherwise the walk passes the head, and then every chunk below mem.     *)
Passed(list, mem) ==
  IF list = <<>> \/ mem < list[1].at
  THEN 0
  ELSE CHOOSE k \in DOMAIN list :
         /\ \A j \in 2 .. k : list[j].at < mem
         /\ k < Len(list) => list[k + 1].at >= mem

(* A plausible bug: no merge with the next chunk. *)
MergeNever(list, k) == list

(* Chunk k takes in the one after it when they touch.                      *)
MergeNext(list, k) ==
  IF k < Len(list) /\ End(list[k]) = list[k + 1].at
  THEN RemoveAt([list EXCEPT ![k].size = @ + list[k + 1].size], k + 1)
  ELSE list

(* The list with the block put in: merged into the chunk before it, or a   *)
(* chunk of its own; either way the result may merge with the next.        *)
Insert(list, mem, length) ==
  LET k == Passed(list, mem)
      chunk == [at |-> mem, size |-> length]
  IN  IF k > 0 /\ End(list[k]) = mem
      THEN MergeNext([list EXCEPT ![k].size = @ + length], k)
      ELSE MergeNext(InsertAt(list, k + 1, chunk), k + 1)

Freemem(b) ==
  /\ FreeList' = Insert(FreeList, b.at, Rounded(b.size))
  /\ blocks' = blocks \ {b}
  /\ refused' = FALSE

-----------------------------------------------------------------------------

Next ==
  \/ \E size \in Sizes :
        Malloc(size) \/ Allocmem(size) \/ AllocmemFails(size)
  \/ \E b \in blocks : Freemem(b)

Spec == Init /\ [][Next]_vars

-----------------------------------------------------------------------------
(* Properties.                                                             *)

(* Chunks and blocks are whole granules inside the heap.                   *)
TypeOK ==
  /\ FreeList \in Seq([at : 0 .. HeapSize, size : 1 .. HeapSize])
  /\ \A i \in DOMAIN FreeList :
        /\ FreeList[i].at % Granule = 0
        /\ FreeList[i].size % Granule = 0
        /\ End(FreeList[i]) <= HeapSize
  /\ \A b \in blocks :
        /\ b.at \in 0 .. HeapSize
        /\ b.at % Granule = 0
        /\ b.size \in Nat
        /\ b.at + Rounded(b.size) <= HeapSize
  /\ refused \in BOOLEAN

InChunk(i, n) == FreeList[i].at <= n /\ n < End(FreeList[i])
InBlock(b, n) == b.at <= n /\ n < b.at + Rounded(b.size)

(* No byte is lost and none is owned twice: free chunks and blocks in use  *)
(* tile the heap. A free that walks one chunk short or too far, or a block *)
(* cut at the wrong end, breaks it (tcm_heap_freemem, tcm_heap_allocmem).  *)
Tiled ==
  \A n \in 0 .. HeapSize - 1 :
     /\ (\E i \in DOMAIN FreeList : InChunk(i, n)) # (\E b \in blocks : InBlock(b, n))
     /\ \A b, c \in blocks : InBlock(b, n) /\ InBlock(c, n) => b = c

(* The list is in address order and no two chunks touch, so that one merge *)
(* after a free is enough ("There should be only one merge opportunity",   *)
(* tcm_heap_freemem).                                                      *)
Coalesced ==
  \A i, j \in DOMAIN FreeList :
     i < j => End(FreeList[i]) < FreeList[j].at

(* The heap keeps the allocator's promise: blocks never overlap, and NULL  *)
(* means that no gap between the blocks in use is long enough, however     *)
(* they were allocated and freed (tcm_heap_allocmem returns NULL only at   *)
(* the end of its walk).                                                   *)
Alloc == INSTANCE TcmAlloc WITH
  Lengths <- {Rounded(size) : size \in Sizes \cup {s + IntSize : s \in Sizes}},
  taken <- {[from |-> b.at, upto |-> b.at + Rounded(b.size)] : b \in blocks}

Allocates == Alloc!Spec

=============================================================================
