------------------------------ MODULE Allocator ------------------------------
(***************************************************************************)
(* What malloc, free and realloc promise: the blocks that are handed out   *)
(* and not yet given back lie in the heap and do not overlap.  Module Heap *)
(* is shown to implement this specification.                               *)
(***************************************************************************)
EXTENDS Naturals

CONSTANTS Low, High      \* blocks lie in the addresses Low .. High - 1
VARIABLE blocks          \* records with fields ptr and size

Disjoint(a, b) == a.ptr + a.size <= b.ptr \/ b.ptr + b.size <= a.ptr

Fits(b, others) ==
  /\ b.size > 0 /\ Low <= b.ptr /\ b.ptr + b.size <= High
  /\ \A o \in others : Disjoint(b, o)

Init == blocks = {}

Allocate(b) == Fits(b, blocks) /\ blocks' = blocks \cup {b}

Free(b) == b \in blocks /\ blocks' = blocks \ {b}

\* realloc that does not move the block.
Resize(b, size) ==
  LET n == [b EXCEPT !.size = size]
  IN  b \in blocks /\ Fits(n, blocks \ {b}) /\ blocks' = (blocks \ {b}) \cup {n}

Next ==
  \/ \E b \in blocks' \ blocks : Allocate(b)
  \/ \E b \in blocks \ blocks' :
       Free(b) \/ \E n \in blocks' \ blocks : n.ptr = b.ptr /\ Resize(b, n.size)

Spec == Init /\ [][Next]_blocks
==============================================================================
