------------------------------ MODULE FramePool ------------------------------
(***************************************************************************)
(* What a physical frame allocator promises its callers, with no stack and *)
(* no counters: a frame has some number of owners, it is handed out only   *)
(* while it has none, and it has none again only when the last owner has   *)
(* let go.  Module Pmm is shown to implement this specification.           *)
(***************************************************************************)
EXTENDS Naturals

CONSTANT Frame
VARIABLE owners     \* owners[f]: how many references to frame f exist

TypeOK == owners \in [Frame -> Nat]

Init == owners \in [Frame -> {0, 1}]

\* A frame nobody owns gets its first owner: an allocation, or the
\* reservation of a region.
Acquire(f) == owners[f] = 0 /\ owners' = [owners EXCEPT ![f] = 1]

Share(f) == owners[f] > 0 /\ owners' = [owners EXCEPT ![f] = @ + 1]

Release(f) == owners[f] > 0 /\ owners' = [owners EXCEPT ![f] = @ - 1]

Next == \E f \in Frame : Acquire(f) \/ Share(f) \/ Release(f)

Spec == Init /\ [][Next]_owners
=============================================================================
