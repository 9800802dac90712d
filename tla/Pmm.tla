--------------------------------- MODULE Pmm ---------------------------------
(***************************************************************************)
(* The physical memory manager, src/src/pmm.c: a stack of free frame       *)
(* numbers (frame_stack, stack_top), a reference count per frame and a     *)
(* count of used frames.  The stack and the counts live in RAM right after *)
(* the kernel image, so pmm_init must keep the frames under them to itself.*)
(*                                                                         *)
(* Addresses are byte offsets from PHY_RAM_BASE.  The callers are modelled *)
(* by held[f], the references to f that somebody still has: a caller frees *)
(* and shares only what it holds.  pmm.c has no lock; this module is its   *)
(* sequential contract, one operation at a time.                           *)
(***************************************************************************)
EXTENDS Integers

CONSTANTS
  TotalFrames,   \* total_frames, also stack_capacity
  PageSize,      \* PAGE_SIZE (4096 in the code)
  KernelEnd,     \* offset of the linker symbol _kernel_end
  RefMax,        \* largest value of a u8 count (255 in the code)
  MaxHolders,    \* bound: references to one frame the callers ever hold
  INVALID,       \* (u32)-1, larger than any frame number
  Addr,          \* the addresses callers pass, inside and outside RAM
  Region         \* the <<base, size>> pairs passed to pmm_mark_used_region

ASSUME PmmAssumption ==
  /\ TotalFrames \in Nat \ {0}
  /\ PageSize \in Nat \ {0}
  /\ KernelEnd \in Nat
  /\ RefMax \in Nat \ {0}
  /\ MaxHolders \in 1..RefMax
  /\ INVALID \in Nat /\ INVALID > TotalFrames
  /\ Addr \subseteq Int
  /\ Region \subseteq Nat \X Nat

VARIABLES
  frame_stack,   \* array of frame numbers, valid below stack_top
  stack_top,
  used_frames,
  ref_counts,
  mark,          \* loop variable and limit of a pmm_mark_used_region in progress
  held           \* the callers' references

vars == <<frame_stack, stack_top, used_frames, ref_counts, mark, held>>
------------------------------------------------------------------------------
Frame == 0 .. TotalFrames - 1
RamSize == TotalFrames * PageSize

phys_to_index(addr) ==
  IF addr < 0 \/ addr >= RamSize THEN INVALID ELSE addr \div PageSize

index_to_phys(idx) == idx * PageSize

\* Where pmm_init puts frame_stack (4 bytes per frame), then ref_counts (1).
StackStart == ((KernelEnd + PageSize - 1) \div PageSize) * PageSize
PmmReservedEnd == StackStart + 4 * TotalFrames + TotalFrames

MutReserved(f) == index_to_phys(f) + PageSize <= PmmReservedEnd

\* Frames that pmm_init finds in use: any byte of them below the end of the
\* allocator's own tables.
Reserved(f) == index_to_phys(f) < PmmReservedEnd

\* The loop of pmm_mark_used_region from target to end; NoMark when it is over.
NoMark == [target |-> 0, end |-> 0]
Loop(target, end) ==
  IF target < end THEN [target |-> target, end |-> end] ELSE NoMark

\* pmm_init: the reserved frames are a prefix of RAM, of length n; the others
\* are pushed in ascending order.
Init ==
  /\ \E n \in 0 .. TotalFrames :
       /\ \A f \in Frame : Reserved(f) <=> f < n
       /\ stack_top = TotalFrames - n
       /\ frame_stack = [i \in Frame |-> IF i < TotalFrames - n THEN n + i ELSE 0]
       /\ used_frames = n
  /\ ref_counts = [f \in Frame |-> IF Reserved(f) THEN 1 ELSE 0]
  /\ mark = NoMark
  /\ held = [f \in Frame |-> IF Reserved(f) THEN 1 ELSE 0]
------------------------------------------------------------------------------
Idle == mark = NoMark

InStack(f) == \E i \in 0 .. stack_top - 1 : frame_stack[i] = f

\* What callers may do: the kernel image and the tables are never given back;
\* only counted references (an allocated frame, not a marked region) are shared.
MayRelease(f) == held[f] > (IF Reserved(f) THEN 1 ELSE 0)
MayShare(f) == held[f] > 0 /\ ref_counts[f] > 0 /\ held[f] < MaxHolders

pmm_inc_ref(phys) ==
  LET idx == phys_to_index(phys)
  IN  /\ Idle
      /\ idx # INVALID
      /\ MayShare(idx)
      /\ ref_counts' = [ref_counts EXCEPT ![idx] = IF @ < RefMax THEN @ + 1 ELSE @]
      /\ held' = [held EXCEPT ![idx] = @ + 1]
      /\ UNCHANGED <<frame_stack, stack_top, used_frames, mark>>

MutAllocFrame ==
  /\ Idle
  /\ stack_top > 0
  /\ LET idx == frame_stack[stack_top - 1]
     IN  /\ ref_counts' = [ref_counts EXCEPT ![idx] = 2]
         /\ held' = [held EXCEPT ![idx] = 1]
  /\ stack_top' = stack_top - 1
  /\ used_frames' = used_frames + 1
  /\ UNCHANGED <<frame_stack, mark>>

\* An empty stack returns 0 to the caller and changes nothing.
pmm_alloc_frame ==
  /\ Idle
  /\ stack_top > 0
  /\ LET idx == frame_stack[stack_top - 1]
     IN  /\ ref_counts' = [ref_counts EXCEPT ![idx] = 1]
         /\ held' = [held EXCEPT ![idx] = 1]
  /\ stack_top' = stack_top - 1
  /\ used_frames' = used_frames + 1
  /\ UNCHANGED <<frame_stack, mark>>

Push(idx) ==
  /\ frame_stack' = [frame_stack EXCEPT ![stack_top] = idx]
  /\ stack_top' = stack_top + 1
  /\ used_frames' = used_frames - 1

MutUnderflow(idx) ==
  /\ ref_counts' = [ref_counts EXCEPT ![idx] = @ - 1]
  /\ IF ref_counts[idx] = 1
     THEN Push(idx)
     ELSE UNCHANGED <<frame_stack, stack_top, used_frames>>

MutDropReference(idx) ==
  /\ ref_counts[idx] > 0
  /\ ref_counts' = [ref_counts EXCEPT ![idx] = @ - 1]
  /\ Push(idx)

\* A counted reference: only the last one returns the frame, and that push
\* is not guarded by the capacity check.
DropReference(idx) ==
  /\ ref_counts[idx] > 0
  /\ ref_counts' = [ref_counts EXCEPT ![idx] = @ - 1]
  /\ IF ref_counts[idx] = 1
     THEN Push(idx)
     ELSE UNCHANGED <<frame_stack, stack_top, used_frames>>

\* A frame whose count is 0 although it is in use: one that
\* pmm_mark_used_region took off the stack.
ReturnUncounted(idx) ==
  /\ ref_counts[idx] = 0
  /\ UNCHANGED ref_counts
  /\ IF stack_top >= TotalFrames
     THEN UNCHANGED <<frame_stack, stack_top, used_frames>>
     ELSE Push(idx)

pmm_free_frame(addr) ==
  LET idx == phys_to_index(addr)
  IN  /\ Idle
      /\ idx # INVALID /\ idx < TotalFrames
      /\ MayRelease(idx)
      /\ DropReference(idx) \/ ReturnUncounted(idx)
      /\ held' = [held EXCEPT ![idx] = @ - 1]
      /\ UNCHANGED mark

\* An address outside RAM is ignored by pmm_free_frame and pmm_inc_ref.
OutsideRam(addr) ==
  /\ Idle
  /\ phys_to_index(addr) = INVALID
  /\ UNCHANGED vars

pmm_mark_used_region(base, size) ==
  /\ Idle
  /\ phys_to_index(base) # INVALID
  /\ mark' = Loop(phys_to_index(base), phys_to_index(base + size + PageSize - 1))
  /\ UNCHANGED <<frame_stack, stack_top, used_frames, ref_counts, held>>

MutMarkTarget ==
  /\ ~Idle
  /\ mark' = Loop(mark.target + 1, mark.end)
  /\ \/ \E i \in 0 .. stack_top - 1 :
          /\ frame_stack[i] = mark.target
          /\ stack_top' = stack_top - 1
          /\ frame_stack' = [frame_stack EXCEPT ![i] = frame_stack[stack_top - 1]]
          /\ held' = [held EXCEPT ![mark.target] = 1]
     \/ ~InStack(mark.target) /\ UNCHANGED <<frame_stack, stack_top, held>>
  /\ UNCHANGED <<ref_counts, used_frames>>

\* One iteration of the loop over target: a free frame of the region is
\* overwritten by the top of the stack.  The reference count is not touched.
MarkTarget ==
  /\ ~Idle
  /\ mark' = Loop(mark.target + 1, mark.end)
  /\ \/ \E i \in 0 .. stack_top - 1 :
          /\ frame_stack[i] = mark.target
          /\ \A j \in 0 .. i - 1 : frame_stack[j] # mark.target
          /\ stack_top' = stack_top - 1
          /\ frame_stack' = [frame_stack EXCEPT ![i] = frame_stack[stack_top - 1]]
          /\ used_frames' = used_frames + 1
          /\ held' = [held EXCEPT ![mark.target] = 1]
     \/ /\ ~InStack(mark.target)
        /\ UNCHANGED <<frame_stack, stack_top, used_frames, held>>
  /\ UNCHANGED ref_counts

Next ==
  \/ pmm_alloc_frame
  \/ \E addr \in Addr : \/ pmm_free_frame(addr)
                         \/ pmm_inc_ref(addr)
                         \/ OutsideRam(addr)
  \/ \E r \in Region : pmm_mark_used_region(r[1], r[2])
  \/ MarkTarget

Spec == Init /\ [][Next]_vars
------------------------------------------------------------------------------
\* Types, and the ranges that keep array accesses inside: counts fit a u8 and
\* neither count nor stack_top wraps below 0.
TypeOK ==
  /\ frame_stack \in [Frame -> Frame]
  /\ stack_top \in 0 .. TotalFrames
  /\ used_frames \in 0 .. TotalFrames
  /\ ref_counts \in [Frame -> 0 .. RefMax]
  /\ mark \in [target : Nat, end : Nat]
  /\ held \in [Frame -> 0 .. MaxHolders]

\* Every frame is either on the stack or counted as used, whatever mix of
\* allocations, last and not-last frees and region marks came before; in
\* particular neither push in pmm_free_frame can run past stack_capacity,
\* although only the second one is guarded (pmm.c:123-138).
Conserved ==
  /\ used_frames + stack_top = TotalFrames
  /\ \A f \in Frame : held[f] > 0 => stack_top < TotalFrames

\* No frame is handed out twice: the stack holds each frame at most once,
\* and exactly the frames nobody has a reference to (pmm_alloc_frame,
\* pmm_free_frame, the swap-with-top removal of pmm_mark_used_region).
NoDoubleGrant ==
  /\ \A i, j \in 0 .. stack_top - 1 : frame_stack[i] = frame_stack[j] => i = j
  /\ \A f \in Frame : InStack(f) <=> held[f] = 0

\* The kernel image and the allocator's own tables, down to the frame that
\* holds their last byte, are never on the free stack (pmm_init).
TablesNeverFree ==
  \A i \in 0 .. stack_top - 1 :
    frame_stack[i] * PageSize >= PmmReservedEnd

\* pmm.c implements the abstract pool: a frame on the stack has no owner, any
\* other one has as many as its count says, a marked one a single owner.
Pool == INSTANCE FramePool WITH
          owners <- [f \in Frame |-> IF InStack(f) THEN 0
                                     ELSE IF ref_counts[f] = 0 THEN 1
                                     ELSE ref_counts[f]]
ImplementsPool == Pool!Spec
==============================================================================
