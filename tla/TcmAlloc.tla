------------------------------ MODULE TcmAlloc ------------------------------
(***************************************************************************)
(* What the TCM heap promises its callers, whatever its free list looks    *)
(* like: a block it hands out lies in the heap and shares no byte with     *)
(* another live block, and a request is turned down only when no gap       *)
(* between the live blocks is as long as what was asked for.               *)
(***************************************************************************)
EXTENDS Integers

CONSTANTS
  HeapSize,  \* bytes of the heap
  Lengths    \* lengths a request may take, in bytes, as they are reserved

VARIABLES
  taken,     \* the live blocks: [from, upto], upto the first byte after it
  refused    \* the last request was turned down

vars == <<taken, refused>>

Init == taken = {} /\ refused = FALSE

Gap(from, upto) ==
  /\ 0 <= from
  /\ upto <= HeapSize
  /\ \A b \in taken : b.upto <= from \/ upto <= b.from

Take(n) ==
  \E from \in 0 .. HeapSize :
     /\ Gap(from, from + n)
     /\ taken' = taken \cup {[from |-> from, upto |-> from + n]}
     /\ refused' = FALSE

Refuse(n) ==
  /\ \A from \in 0 .. HeapSize : ~ Gap(from, from + n)
  /\ refused' = TRUE
  /\ UNCHANGED taken

Give == 
  \E b \in taken : 
     /\ taken' = taken \ {b} 
     /\ refused' = FALSE

Next == Give \/ \E n \in Lengths : Take(n) \/ Refuse(n)

Spec == Init /\ [][Next]_vars
=============================================================================
