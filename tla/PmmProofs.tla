------------------------------ MODULE PmmProofs ------------------------------
(***************************************************************************)
(* Proofs about module Pmm for every RAM size, page size, kernel size and  *)
(* caller behaviour: the allocator never grants a frame twice, never loses *)
(* one, never overruns its stack, never frees its own tables, and          *)
(* implements FramePool.                                                   *)
(***************************************************************************)
EXTENDS Pmm, FiniteSetTheorems, TLAPS

\* A frame's count is the number of references to it, except for a frame
\* taken by pmm_mark_used_region, which has one holder and count 0.
CountsAgree ==
  \A f \in Frame : \/ ref_counts[f] = held[f]
                   \/ ref_counts[f] = 0 /\ held[f] = 1

\* The kernel keeps its reference to the frames pmm_init reserved.
KernelKeeps == \A f \in Frame : Reserved(f) => held[f] > 0

\* The inductive invariant: NoDoubleGrant alone is not inductive, because
\* whether pmm_free_frame pushes depends on the counts.
IInv ==
  /\ TypeOK
  /\ used_frames + stack_top = TotalFrames
  /\ NoDoubleGrant
  /\ CountsAgree
  /\ KernelKeeps

\* An address that is not rejected has the number of a frame.
LEMMA IndexType ==
  ASSUME NEW a \in Int
  PROVE  phys_to_index(a) \in Nat /\ (phys_to_index(a) # INVALID => phys_to_index(a) \in Frame)
<1>1. CASE a < 0 \/ a >= RamSize
  BY <1>1, PmmAssumption DEF phys_to_index
<1>2. CASE ~(a < 0 \/ a >= RamSize)
  <2> DEFINE q == a \div PageSize
  <2>1. /\ q \in Nat
        /\ q * PageSize <= a
    BY <1>2, PmmAssumption DEF RamSize
  <2>2. q < TotalFrames
    <3>1. SUFFICES ASSUME q >= TotalFrames PROVE FALSE
      BY <2>1, PmmAssumption
    <3>2. q * PageSize >= TotalFrames * PageSize
      BY <3>1, <2>1, PmmAssumption
    <3> QED
      BY <3>2, <2>1, <1>2, PmmAssumption DEF RamSize
  <2> QED
    BY <2>1, <2>2, <1>2, PmmAssumption DEF phys_to_index, Frame
<1> QED BY <1>1, <1>2

\* A full stack without repetitions holds every frame.
LEMMA FullStackHoldsAll ==
  ASSUME TypeOK, NoDoubleGrant, stack_top = TotalFrames, NEW f \in Frame
  PROVE  InStack(f)
<1>1. IsFiniteSet(Frame)
  BY FS_Interval, PmmAssumption DEF Frame
<1>2. frame_stack \in Injection(Frame, Frame)
  BY PmmAssumption DEF TypeOK, NoDoubleGrant, Frame, Injection, IsInjective
<1>3. frame_stack \in Surjection(Frame, Frame)
  BY <1>1, <1>2, FS_Injection
<1> QED
  BY <1>3, PmmAssumption DEF Surjection, InStack, Frame

\* While somebody holds a frame the stack is not full: there is room for it.
LEMMA HeldMeansRoom ==
  ASSUME TypeOK, NoDoubleGrant, NEW f \in Frame, held[f] > 0
  PROVE  stack_top < TotalFrames
<1>1. ~InStack(f)
  BY DEF NoDoubleGrant, TypeOK
<1>2. stack_top # TotalFrames
  BY <1>1, FullStackHoldsAll
<1> QED
  BY <1>2, PmmAssumption DEF TypeOK

\* pmm_init establishes the inductive invariant.
LEMMA InitIInv == Init => IInv
<1> SUFFICES ASSUME Init PROVE IInv
  OBVIOUS
<1>0. PICK n \in 0 .. TotalFrames :
       /\ \A f \in Frame : Reserved(f) <=> f < n
       /\ stack_top = TotalFrames - n
       /\ frame_stack = [i \in Frame |-> IF i < TotalFrames - n THEN n + i ELSE 0]
       /\ used_frames = n
  BY DEF Init
<1>1. TypeOK
  BY <1>0, PmmAssumption DEF Init, TypeOK, Frame, NoMark
<1>2. \A i \in 0 .. stack_top - 1 : frame_stack[i] = n + i
  BY <1>0, PmmAssumption DEF Frame
<1>3. \A f \in Frame : InStack(f) <=> ~Reserved(f)
  <2> SUFFICES ASSUME NEW f \in Frame PROVE InStack(f) <=> ~Reserved(f)
    OBVIOUS
  <2>1. /\ Reserved(f) <=> f < n
        /\ n \in Nat /\ f \in Nat /\ f < TotalFrames
        /\ stack_top = TotalFrames - n
    BY <1>0, PmmAssumption DEF Frame
  <2>2. ASSUME f < n PROVE ~InStack(f)
    BY <2>1, <2>2, <1>2, PmmAssumption DEF InStack
  <2>3. ASSUME ~(f < n) PROVE InStack(f)
    <3>1. f - n \in 0 .. stack_top - 1
      BY <2>1, <2>3, PmmAssumption
    <3>2. frame_stack[f - n] = f
      BY <3>1, <2>1, <1>2
    <3> QED BY <3>1, <3>2 DEF InStack
  <2> QED BY <2>1, <2>2, <2>3
<1>4. NoDoubleGrant
  <2>1. \A i, j \in 0 .. stack_top - 1 : frame_stack[i] = frame_stack[j] => i = j
    <3>1. n \in Int /\ stack_top \in Int
      BY <1>0, PmmAssumption
    <3> QED BY <3>1, <1>2
  <2>2. \A f \in Frame : held[f] = 0 <=> ~Reserved(f)
    BY DEF Init
  <2> QED
    BY <2>1, <2>2, <1>3 DEF NoDoubleGrant
<1>5. CountsAgree /\ KernelKeeps
  BY DEF CountsAgree, KernelKeeps, Init
<1> QED
  BY <1>0, <1>1, <1>4, <1>5, PmmAssumption DEF IInv
------------------------------------------------------------------------------
\* Injectivity of the live part of the stack, the first half of NoDoubleGrant.
NoRepeat == \A i, j \in 0 .. stack_top - 1 : frame_stack[i] = frame_stack[j] => i = j

\* Popping the top takes exactly the top frame off the stack.
LEMMA PopEffect ==
  ASSUME TypeOK, NoRepeat, stack_top > 0, stack_top' = stack_top - 1,
         UNCHANGED frame_stack
  PROVE  /\ NoRepeat'
         /\ \A f \in Frame : InStack(f)' <=> (InStack(f) /\ f # frame_stack[stack_top - 1])
<1>1. stack_top \in Nat
  BY PmmAssumption DEF TypeOK
<1>2. NoRepeat'
  BY <1>1 DEF NoRepeat
<1>3. ASSUME NEW f \in Frame
      PROVE  InStack(f)' <=> (InStack(f) /\ f # frame_stack[stack_top - 1])
  BY <1>1 DEF NoRepeat, InStack
<1> QED BY <1>2, <1>3

\* Pushing a frame that is not on the stack adds exactly that frame.
LEMMA PushEffect ==
  ASSUME TypeOK, NoRepeat, stack_top < TotalFrames, NEW idx \in Frame,
         ~InStack(idx), Push(idx)
  PROVE  /\ frame_stack' \in [Frame -> Frame]
         /\ stack_top' \in 0 .. TotalFrames
         /\ NoRepeat'
         /\ \A f \in Frame : InStack(f)' <=> (InStack(f) \/ f = idx)
<1>1. /\ stack_top \in Nat /\ stack_top \in Frame /\ TotalFrames \in Nat
      /\ \A i \in 0 .. stack_top - 1 : i \in Frame /\ i # stack_top
  BY PmmAssumption DEF TypeOK, Frame
<1>2. /\ frame_stack' \in [Frame -> Frame]
      /\ stack_top' = stack_top + 1
      /\ frame_stack'[stack_top] = idx
      /\ \A i \in 0 .. stack_top - 1 : frame_stack'[i] = frame_stack[i]
  BY <1>1 DEF Push, TypeOK
<1>3. NoRepeat'
  BY <1>1, <1>2 DEF NoRepeat, InStack
<1>4. ASSUME NEW f \in Frame PROVE InStack(f)' <=> (InStack(f) \/ f = idx)
  <2>1. ASSUME InStack(f) PROVE InStack(f)'
    BY <2>1, <1>1, <1>2 DEF InStack
  <2>2. ASSUME f = idx PROVE InStack(f)'
    <3>1. stack_top \in 0 .. stack_top' - 1
      BY <1>1, <1>2
    <3> QED BY <3>1, <2>2, <1>2 DEF InStack
  <2>3. ASSUME InStack(f)' PROVE InStack(f) \/ f = idx
    BY <2>3, <1>1, <1>2 DEF InStack
  <2> QED BY <2>1, <2>2, <2>3
<1> QED BY <1>1, <1>2, <1>3, <1>4

\* Overwriting entry k by the top takes exactly that entry's frame off the
\* stack, also when k is the top itself.
LEMMA RemoveEffect ==
  ASSUME TypeOK, NoRepeat, NEW k \in 0 .. stack_top - 1,
         stack_top' = stack_top - 1,
         frame_stack' = [frame_stack EXCEPT ![k] = frame_stack[stack_top - 1]]
  PROVE  /\ frame_stack' \in [Frame -> Frame]
         /\ NoRepeat'
         /\ \A f \in Frame : InStack(f)' <=> (InStack(f) /\ f # frame_stack[k])
<1>1. /\ stack_top \in Nat /\ stack_top > 0 /\ TotalFrames \in Nat
      /\ k \in Frame /\ stack_top - 1 \in Frame /\ k \in Nat /\ k < stack_top
      /\ \A i \in 0 .. stack_top - 1 : i \in Frame
  BY PmmAssumption DEF TypeOK, Frame
<1>2. /\ frame_stack' \in [Frame -> Frame]
      /\ frame_stack'[k] = frame_stack[stack_top - 1]
      /\ \A i \in 0 .. stack_top - 1 : i # k => frame_stack'[i] = frame_stack[i]
  BY <1>1 DEF TypeOK
<1>3. NoRepeat'
  BY <1>1, <1>2 DEF NoRepeat
<1>4. ASSUME NEW f \in Frame PROVE InStack(f)' <=> (InStack(f) /\ f # frame_stack[k])
  <2>1. ASSUME InStack(f)' PROVE InStack(f) /\ f # frame_stack[k]
    <3>1. PICK i \in 0 .. stack_top' - 1 : frame_stack'[i] = f
      BY <2>1 DEF InStack
    <3>2. CASE i = k
      BY <3>1, <3>2, <1>1, <1>2 DEF InStack, NoRepeat
    <3>3. CASE i # k
      BY <3>1, <3>3, <1>1, <1>2 DEF InStack, NoRepeat
    <3> QED BY <3>2, <3>3
  <2>2. ASSUME InStack(f), f # frame_stack[k] PROVE InStack(f)'
    <3>1. PICK i \in 0 .. stack_top - 1 : frame_stack[i] = f
      BY <2>2 DEF InStack
    <3>2. CASE i = stack_top - 1
      <4>1. k \in 0 .. stack_top' - 1
        BY <3>1, <3>2, <2>2, <1>1
      <4> QED BY <4>1, <3>1, <3>2, <1>2 DEF InStack
    <3>3. CASE i # stack_top - 1
      <4>1. i \in 0 .. stack_top' - 1 /\ i # k
        BY <3>1, <3>3, <2>2, <1>1
      <4> QED BY <4>1, <3>1, <1>2 DEF InStack
    <3> QED BY <3>2, <3>3
  <2> QED BY <2>1, <2>2
<1> QED BY <1>2, <1>3, <1>4
------------------------------------------------------------------------------
\* NoDoubleGrant in the terms of the three lemmas above.
LEMMA GrantParts ==
  /\ NoDoubleGrant <=> NoRepeat /\ \A f \in Frame : InStack(f) <=> held[f] = 0
  /\ NoDoubleGrant' <=> NoRepeat' /\ \A f \in Frame : InStack(f)' <=> held'[f] = 0
BY DEF NoDoubleGrant, NoRepeat, InStack

\* The loop record keeps its type.
LEMMA LoopType ==
  ASSUME NEW a \in Nat, NEW b \in Nat
  PROVE  Loop(a, b) \in [target : Nat, end : Nat]
BY DEF Loop, NoMark

\* Popping the stack: the frame was nobody's and has one counted holder now.
LEMMA AllocStep == IInv /\ pmm_alloc_frame => IInv'
<1> SUFFICES ASSUME IInv, pmm_alloc_frame PROVE IInv'
  OBVIOUS
<1> DEFINE idx == frame_stack[stack_top - 1]
<1>1. /\ TypeOK /\ NoRepeat /\ stack_top > 0 /\ stack_top' = stack_top - 1
      /\ used_frames' = used_frames + 1 /\ UNCHANGED <<frame_stack, mark>>
      /\ ref_counts' = [ref_counts EXCEPT ![idx] = 1]
      /\ held' = [held EXCEPT ![idx] = 1]
      /\ \A f \in Frame : InStack(f) <=> held[f] = 0
      /\ used_frames + stack_top = TotalFrames
      /\ CountsAgree /\ KernelKeeps
  BY GrantParts DEF IInv, pmm_alloc_frame
<1>2. /\ stack_top \in Nat /\ used_frames \in Nat /\ TotalFrames \in Nat
      /\ stack_top - 1 \in Frame /\ 1 \in 0 .. RefMax /\ 1 \in 0 .. MaxHolders
  BY <1>1, PmmAssumption DEF TypeOK, Frame
<1>3. idx \in Frame
  BY <1>1, <1>2 DEF TypeOK
<1>4. InStack(idx)
  BY <1>1, <1>2 DEF InStack
<1>5. /\ NoRepeat'
      /\ \A f \in Frame : InStack(f)' <=> (InStack(f) /\ f # idx)
  BY <1>1, PopEffect
<1>6. /\ ref_counts' \in [Frame -> 0 .. RefMax] /\ held' \in [Frame -> 0 .. MaxHolders]
      /\ \A f \in Frame : f = idx => held'[f] = 1 /\ ref_counts'[f] = 1
      /\ \A f \in Frame : f # idx => held'[f] = held[f] /\ ref_counts'[f] = ref_counts[f]
  BY <1>1, <1>2, <1>3 DEF TypeOK
<1>7. TypeOK'
  BY <1>1, <1>2, <1>6 DEF TypeOK
<1>8. NoDoubleGrant'
  BY <1>1, <1>5, <1>6, GrantParts
<1>9. CountsAgree' /\ KernelKeeps'
  BY <1>1, <1>6 DEF CountsAgree, KernelKeeps, Reserved, index_to_phys, PmmReservedEnd, StackStart
<1> QED
  BY <1>1, <1>2, <1>7, <1>8, <1>9 DEF IInv

\* One reference less.  The frame goes back exactly when it was the last one:
\* by CountsAgree a count of 1 or 0 means a single holder.
LEMMA FreeStep == ASSUME NEW a \in Addr PROVE IInv /\ pmm_free_frame(a) => IInv'
<1> SUFFICES ASSUME IInv, pmm_free_frame(a) PROVE IInv'
  OBVIOUS
<1> DEFINE idx == phys_to_index(a)
<1>1. /\ TypeOK /\ NoRepeat /\ UNCHANGED mark
      /\ held' = [held EXCEPT ![idx] = @ - 1]
      /\ \A f \in Frame : InStack(f) <=> held[f] = 0
      /\ used_frames + stack_top = TotalFrames
      /\ CountsAgree /\ KernelKeeps /\ MayRelease(idx)
      /\ DropReference(idx) \/ ReturnUncounted(idx)
  BY GrantParts DEF IInv, pmm_free_frame
<1>2. idx \in Frame
  BY IndexType, PmmAssumption DEF pmm_free_frame
<1>3. /\ stack_top \in Nat /\ used_frames \in Nat /\ TotalFrames \in Nat
      /\ held[idx] \in Nat /\ held[idx] > 0 /\ held[idx] <= MaxHolders
      /\ ref_counts[idx] \in Nat /\ ref_counts[idx] <= RefMax
      /\ RefMax \in Nat /\ MaxHolders \in Nat
      /\ Reserved(idx) => held[idx] > 1
      /\ stack_top <= TotalFrames
  BY <1>1, <1>2, PmmAssumption DEF TypeOK, MayRelease
<1>4. stack_top < TotalFrames /\ ~InStack(idx)
  BY <1>1, <1>2, <1>3, HeldMeansRoom, GrantParts
<1>5. /\ \/ ref_counts[idx] > 0 /\ ref_counts' = [ref_counts EXCEPT ![idx] = @ - 1]
         \/ ref_counts[idx] = 0 /\ UNCHANGED ref_counts
      /\ held[idx] = 1 => Push(idx)
      /\ held[idx] # 1 => UNCHANGED <<frame_stack, stack_top, used_frames>>
  BY <1>1, <1>2, <1>3, <1>4 DEF DropReference, ReturnUncounted, CountsAgree
<1>6. /\ held' \in [Frame -> 0 .. MaxHolders]
      /\ \A f \in Frame : f = idx => held'[f] = held[f] - 1
      /\ \A f \in Frame : f # idx => held'[f] = held[f]
  BY <1>1, <1>2, <1>3 DEF TypeOK
<1>7. /\ ref_counts' \in [Frame -> 0 .. RefMax]
      /\ \A f \in Frame : f # idx => ref_counts'[f] = ref_counts[f]
      /\ ref_counts[idx] > 0 => ref_counts'[idx] = ref_counts[idx] - 1
      /\ ref_counts[idx] = 0 => ref_counts'[idx] = 0
  BY <1>1, <1>2, <1>3, <1>5 DEF TypeOK
<1>8. CountsAgree'
  BY <1>1, <1>2, <1>3, <1>6, <1>7 DEF CountsAgree
<1>9. KernelKeeps'
  BY <1>1, <1>2, <1>3, <1>6
     DEF KernelKeeps, Reserved, index_to_phys, PmmReservedEnd, StackStart
<1>10. CASE held[idx] = 1
  <2>1. /\ frame_stack' \in [Frame -> Frame] /\ stack_top' \in 0 .. TotalFrames
        /\ NoRepeat'
        /\ \A f \in Frame : InStack(f)' <=> (InStack(f) \/ f = idx)
    BY <1>1, <1>2, <1>4, <1>5, <1>10, PushEffect
  <2>2. stack_top' = stack_top + 1 /\ used_frames' = used_frames - 1
    BY <1>5, <1>10 DEF Push
  <2>3. NoDoubleGrant'
    BY <2>1, <1>1, <1>2, <1>3, <1>6, <1>10, GrantParts
  <2>4. used_frames' \in 0 .. TotalFrames /\ used_frames' + stack_top' = TotalFrames
    BY <2>2, <1>1, <1>3, <1>4
  <2>5. TypeOK'
    BY <2>1, <2>4, <1>1, <1>6, <1>7 DEF TypeOK
  <2> QED BY <2>3, <2>4, <2>5, <1>8, <1>9 DEF IInv
<1>11. CASE held[idx] # 1
  <2>1. UNCHANGED <<frame_stack, stack_top, used_frames>>
    BY <1>5, <1>11
  <2>2. \A f \in Frame : InStack(f)' <=> InStack(f)
    BY <2>1 DEF InStack
  <2>3. NoRepeat'
    BY <2>1, <1>1 DEF NoRepeat
  <2>4. NoDoubleGrant'
    BY <2>2, <2>3, <1>1, <1>2, <1>3, <1>6, <1>11, GrantParts
  <2>5. TypeOK' /\ used_frames' + stack_top' = TotalFrames
    BY <2>1, <1>1, <1>6, <1>7 DEF TypeOK
  <2> QED BY <2>4, <2>5, <1>8, <1>9 DEF IInv
<1> QED BY <1>10, <1>11

\* One counted reference more; the count cannot saturate, because the callers
\* hold at most MaxHolders <= RefMax references to a frame.
LEMMA IncStep == ASSUME NEW a \in Addr PROVE IInv /\ pmm_inc_ref(a) => IInv'
<1> SUFFICES ASSUME IInv, pmm_inc_ref(a) PROVE IInv'
  OBVIOUS
<1> DEFINE idx == phys_to_index(a)
<1>1. /\ TypeOK /\ NoRepeat
      /\ UNCHANGED <<frame_stack, stack_top, used_frames, mark>>
      /\ ref_counts' = [ref_counts EXCEPT ![idx] = IF @ < RefMax THEN @ + 1 ELSE @]
      /\ held' = [held EXCEPT ![idx] = @ + 1]
      /\ \A f \in Frame : InStack(f) <=> held[f] = 0
      /\ used_frames + stack_top = TotalFrames
      /\ CountsAgree /\ KernelKeeps
      /\ held[idx] > 0 /\ ref_counts[idx] > 0 /\ held[idx] < MaxHolders
  BY GrantParts DEF IInv, pmm_inc_ref, MayShare
<1>2. idx \in Frame
  BY IndexType, PmmAssumption DEF pmm_inc_ref
<1>3. /\ held[idx] \in Nat /\ ref_counts[idx] = held[idx]
      /\ RefMax \in Nat /\ MaxHolders \in Nat /\ MaxHolders <= RefMax
  BY <1>1, <1>2, PmmAssumption DEF TypeOK, CountsAgree
<1>4. /\ held' \in [Frame -> 0 .. MaxHolders] /\ ref_counts' \in [Frame -> 0 .. RefMax]
      /\ \A f \in Frame : f = idx => held'[f] = held[f] + 1 /\ ref_counts'[f] = held'[f]
      /\ \A f \in Frame : f # idx => held'[f] = held[f] /\ ref_counts'[f] = ref_counts[f]
  BY <1>1, <1>2, <1>3 DEF TypeOK
<1>5. \A f \in Frame : InStack(f)' <=> InStack(f)
  BY <1>1 DEF InStack
<1>6. NoRepeat'
  BY <1>1 DEF NoRepeat
<1>7. NoDoubleGrant'
  BY <1>1, <1>2, <1>3, <1>4, <1>5, <1>6, GrantParts
<1>8. CountsAgree'
  BY <1>1, <1>4 DEF CountsAgree
<1>9. KernelKeeps'
  BY <1>1, <1>2, <1>3, <1>4
     DEF KernelKeeps, Reserved, index_to_phys, PmmReservedEnd, StackStart
<1>10. TypeOK'
  BY <1>1, <1>4 DEF TypeOK
<1> QED
  BY <1>1, <1>7, <1>8, <1>9, <1>10 DEF IInv

\* Steps that leave the stack, the counts and the callers alone.
LEMMA QuietStep ==
  ASSUME IInv, UNCHANGED <<frame_stack, stack_top, used_frames, ref_counts, held>>,
         mark' \in [target : Nat, end : Nat]
  PROVE  IInv'
<1>1. TypeOK' /\ used_frames' + stack_top' = TotalFrames
  BY DEF IInv, TypeOK
<1>2. NoDoubleGrant'
  BY DEF IInv, NoDoubleGrant, InStack
<1>3. CountsAgree' /\ KernelKeeps'
  BY DEF IInv, CountsAgree, KernelKeeps, Reserved, index_to_phys, PmmReservedEnd, StackStart
<1> QED BY <1>1, <1>2, <1>3 DEF IInv

\* Entering pmm_mark_used_region only sets the loop up.
LEMMA MarkRegionStep ==
  ASSUME NEW r \in Region PROVE IInv /\ pmm_mark_used_region(r[1], r[2]) => IInv'
<1> SUFFICES ASSUME IInv, pmm_mark_used_region(r[1], r[2]) PROVE IInv'
  OBVIOUS
<1>1. r[1] \in Int /\ r[1] + r[2] + PageSize - 1 \in Int
  BY PmmAssumption
<1>2. mark' \in [target : Nat, end : Nat]
  BY <1>1, IndexType, LoopType DEF pmm_mark_used_region
<1> QED
  BY <1>2, QuietStep DEF pmm_mark_used_region

\* One iteration of the marking loop: the frame leaves the stack and gets a
\* holder; its count stays 0.
LEMMA MarkTargetStep == IInv /\ MarkTarget => IInv'
<1> SUFFICES ASSUME IInv, MarkTarget PROVE IInv'
  OBVIOUS
<1>1. mark' \in [target : Nat, end : Nat]
  <2>1. mark.target + 1 \in Nat /\ mark.end \in Nat
    BY DEF IInv, TypeOK
  <2> QED BY <2>1, LoopType DEF MarkTarget
<1>2. CASE UNCHANGED <<frame_stack, stack_top, used_frames, held>>
  BY <1>1, <1>2, QuietStep DEF MarkTarget
<1>3. ASSUME NEW k \in 0 .. stack_top - 1,
             frame_stack[k] = mark.target,
             stack_top' = stack_top - 1,
             frame_stack' = [frame_stack EXCEPT ![k] = frame_stack[stack_top - 1]],
             used_frames' = used_frames + 1,
             held' = [held EXCEPT ![mark.target] = 1]
      PROVE  IInv'
  <2> DEFINE t == mark.target
  <2>1. /\ TypeOK /\ NoRepeat /\ UNCHANGED ref_counts
        /\ \A f \in Frame : InStack(f) <=> held[f] = 0
        /\ used_frames + stack_top = TotalFrames
        /\ CountsAgree /\ KernelKeeps
    BY GrantParts DEF IInv, MarkTarget
  <2>2. /\ stack_top \in Nat /\ used_frames \in Nat /\ TotalFrames \in Nat
        /\ stack_top > 0 /\ k \in Frame /\ 1 \in 0 .. MaxHolders
    BY <2>1, PmmAssumption DEF TypeOK, Frame
  <2>3. t \in Frame /\ InStack(t)
    BY <2>1, <2>2, <1>3 DEF TypeOK, InStack
  <2>4. held[t] = 0 /\ ref_counts[t] = 0
    BY <2>1, <2>3 DEF CountsAgree
  <2>5. /\ frame_stack' \in [Frame -> Frame] /\ NoRepeat'
        /\ \A f \in Frame : InStack(f)' <=> (InStack(f) /\ f # t)
    BY <2>1, <1>3, RemoveEffect
  <2>6. /\ held' \in [Frame -> 0 .. MaxHolders]
        /\ \A f \in Frame : f = t => held'[f] = 1
        /\ \A f \in Frame : f # t => held'[f] = held[f]
    BY <2>1, <2>2, <2>3, <1>3 DEF TypeOK
  <2>7. TypeOK' /\ used_frames' + stack_top' = TotalFrames
    BY <2>1, <2>2, <2>5, <2>6, <1>1, <1>3 DEF TypeOK
  <2>8. NoDoubleGrant'
    BY <2>1, <2>5, <2>6, GrantParts
  <2>9. CountsAgree' /\ KernelKeeps'
    BY <2>1, <2>4, <2>6
       DEF CountsAgree, KernelKeeps, Reserved, index_to_phys, PmmReservedEnd, StackStart
  <2> QED BY <2>7, <2>8, <2>9 DEF IInv
<1> QED
  BY <1>2, <1>3 DEF MarkTarget

\* Every call, and every iteration of the marking loop, preserves the invariant.
LEMMA StepIInv == IInv /\ [Next]_vars => IInv'
<1> SUFFICES ASSUME IInv, [Next]_vars PROVE IInv'
  OBVIOUS
<1>1. CASE UNCHANGED vars
  <2>1. mark' \in [target : Nat, end : Nat]
    BY <1>1 DEF IInv, TypeOK, vars
  <2> QED BY <2>1, <1>1, QuietStep DEF vars
<1>2. ASSUME NEW a \in Addr, OutsideRam(a) PROVE IInv'
  BY <1>1, <1>2 DEF OutsideRam
<1> QED
  BY <1>1, <1>2, AllocStep, FreeStep, IncStep, MarkRegionStep, MarkTargetStep DEF Next

\* The inductive invariant holds of every reachable state.
THEOREM Inductive == Spec => []IInv
BY InitIInv, StepIInv, PTL DEF Spec

\* pmm.c never leaves its types: no count wraps below 0 or above a u8, and the
\* stack index never leaves the array.
THEOREM TypeCorrect == Spec => []TypeOK
<1>1. IInv => TypeOK
  BY DEF IInv
<1> QED BY <1>1, Inductive, PTL

\* The books balance, and there is always room to push a frame someone holds,
\* so the unguarded push of pmm_free_frame cannot overrun frame_stack.
THEOREM Conservation == Spec => []Conserved
<1>1. IInv => Conserved
  BY HeldMeansRoom DEF IInv, Conserved
<1> QED BY <1>1, Inductive, PTL

\* For every RAM size and every sequence of calls, pmm_alloc_frame never hands
\* out a frame that somebody still holds.
THEOREM NoFrameGrantedTwice == Spec => []NoDoubleGrant
<1>1. IInv => NoDoubleGrant
  BY DEF IInv
<1> QED BY <1>1, Inductive, PTL

\* The free stack never contains a frame under the kernel image or under the
\* allocator's own tables.
THEOREM TablesSafe == Spec => []TablesNeverFree
<1>1. IInv => TablesNeverFree
  <2> SUFFICES ASSUME IInv, NEW i \in 0 .. stack_top - 1
               PROVE  frame_stack[i] * PageSize >= PmmReservedEnd
    BY DEF TablesNeverFree
  <2>1. frame_stack[i] \in Frame /\ held[frame_stack[i]] \in Nat
    <3>1. i \in Frame
      BY PmmAssumption DEF IInv, TypeOK, Frame
    <3>2. frame_stack[i] \in Frame
      BY <3>1 DEF IInv, TypeOK
    <3> QED BY <3>2, PmmAssumption DEF IInv, TypeOK
  <2>2. InStack(frame_stack[i])
    BY DEF InStack
  <2>3. ~Reserved(frame_stack[i])
    BY <2>1, <2>2 DEF IInv, NoDoubleGrant, KernelKeeps
  <2>4. /\ frame_stack[i] * PageSize \in Int
        /\ PmmReservedEnd \in Int
    BY <2>1, PmmAssumption DEF Frame, PmmReservedEnd, StackStart
  <2> QED BY <2>3, <2>4 DEF Reserved, index_to_phys
<1> QED BY <1>1, Inductive, PTL
------------------------------------------------------------------------------
\* The value the refinement mapping gives to FramePool's variable.
Owners == [f \in Frame |-> IF InStack(f) THEN 0
                           ELSE IF ref_counts[f] = 0 THEN 1
                           ELSE ref_counts[f]]

\* Under the inductive invariant a frame has as many owners as the callers
\* hold references, whichever way it came into use.
LEMMA OwnersAreHolders ==
  ASSUME IInv PROVE \A f \in Frame : Owners[f] = held[f]
BY DEF IInv, NoDoubleGrant, CountsAgree, TypeOK, Owners

\* The mapped variable is a function on frames.
LEMMA OwnersType == /\ Owners = [f \in Frame |-> Owners[f]]
                    /\ Owners' = [f \in Frame |-> Owners'[f]]
BY DEF Owners

\* A step that changes the holders of one frame by one, from a state and to a
\* state satisfying the invariant, is a step of the pool.
LEMMA PoolStep ==
  ASSUME IInv, IInv', NEW g \in Frame,
         \A f \in Frame : f # g => held'[f] = held[f],
         \/ held[g] = 0 /\ held'[g] = 1
         \/ held[g] > 0 /\ held'[g] = held[g] + 1
         \/ held[g] > 0 /\ held'[g] = held[g] - 1
  PROVE  Pool!Next
<1>1. \A f \in Frame : Owners[f] = held[f]
  BY OwnersAreHolders
<1>2. \A f \in Frame : Owners'[f] = held'[f]
  BY DEF IInv, NoDoubleGrant, CountsAgree, TypeOK, Owners
<1>3. \A v : Owners'[g] = v => Owners' = [Owners EXCEPT ![g] = v]
  BY <1>1, <1>2, OwnersType
<1>4. CASE held[g] = 0 /\ held'[g] = 1
  <2>1. Pool!Acquire(g)
    BY <1>1, <1>2, <1>3, <1>4 DEF Pool!Acquire, Owners
  <2> QED BY <2>1 DEF Pool!Next
<1>5. CASE held[g] > 0 /\ held'[g] = held[g] + 1
  <2>1. Pool!Share(g)
    BY <1>1, <1>2, <1>3, <1>5 DEF Pool!Share, Owners
  <2> QED BY <2>1 DEF Pool!Next
<1>6. CASE held[g] > 0 /\ held'[g] = held[g] - 1
  <2>1. Pool!Release(g)
    BY <1>1, <1>2, <1>3, <1>6 DEF Pool!Release, Owners
  <2> QED BY <2>1 DEF Pool!Next
<1> QED BY <1>4, <1>5, <1>6

\* Every operation of pmm.c is one step of the pool, or none.
LEMMA StepRefines == ASSUME IInv, IInv', [Next]_vars PROVE [Pool!Next]_Owners
<1>1. TypeOK /\ CountsAgree
  BY DEF IInv
<1>2. CASE UNCHANGED <<frame_stack, stack_top, ref_counts>>
  BY <1>2 DEF Owners, InStack
<1>3. CASE pmm_alloc_frame
  <2> DEFINE g == frame_stack[stack_top - 1]
  <2>1. /\ stack_top - 1 \in 0 .. stack_top - 1 /\ stack_top - 1 \in Frame
    BY <1>1, <1>3, PmmAssumption DEF TypeOK, Frame, pmm_alloc_frame
  <2>2. g \in Frame /\ InStack(g)
    BY <2>1, <1>1 DEF TypeOK, InStack
  <2>3. held[g] = 0 /\ held'[g] = 1 /\ \A f \in Frame : f # g => held'[f] = held[f]
    BY <2>2, <1>1, <1>3 DEF IInv, NoDoubleGrant, TypeOK, pmm_alloc_frame
  <2> QED BY <2>2, <2>3, PoolStep
<1>4. ASSUME NEW a \in Addr, pmm_free_frame(a) PROVE Pool!Next
  <2> DEFINE g == phys_to_index(a)
  <2>1. g \in Frame
    BY <1>4, IndexType, PmmAssumption DEF pmm_free_frame
  <2>2. held[g] > 0
    BY <1>4, <2>1, PmmAssumption, <1>1 DEF pmm_free_frame, MayRelease, TypeOK
  <2>3. held'[g] = held[g] - 1 /\ \A f \in Frame : f # g => held'[f] = held[f]
    BY <2>1, <1>1, <1>4 DEF TypeOK, pmm_free_frame
  <2> QED BY <2>1, <2>2, <2>3, PoolStep
<1>5. ASSUME NEW a \in Addr, pmm_inc_ref(a) PROVE Pool!Next
  <2> DEFINE g == phys_to_index(a)
  <2>1. g \in Frame
    BY <1>5, IndexType, PmmAssumption DEF pmm_inc_ref
  <2>2. /\ held[g] > 0 /\ held'[g] = held[g] + 1
        /\ \A f \in Frame : f # g => held'[f] = held[f]
    BY <2>1, <1>1, <1>5 DEF TypeOK, pmm_inc_ref, MayShare
  <2> QED BY <2>1, <2>2, PoolStep
<1>6. CASE MarkTarget
  <2>1. ASSUME NEW k \in 0 .. stack_top - 1, frame_stack[k] = mark.target,
               held' = [held EXCEPT ![mark.target] = 1]
        PROVE  Pool!Next
    <3>1. k \in Frame
      BY <1>1, PmmAssumption DEF TypeOK, Frame
    <3>2. mark.target \in Frame /\ InStack(mark.target)
      BY <3>1, <2>1, <1>1 DEF TypeOK, InStack
    <3>3. /\ held[mark.target] = 0 /\ held'[mark.target] = 1
          /\ \A f \in Frame : f # mark.target => held'[f] = held[f]
      BY <3>2, <2>1, <1>1 DEF IInv, NoDoubleGrant, TypeOK
    <3> QED BY <3>2, <3>3, PoolStep
  <2> QED BY <2>1, <1>2, <1>6 DEF MarkTarget
<1> QED
  BY <1>2, <1>3, <1>4, <1>5, <1>6 DEF Next, vars, OutsideRam, pmm_mark_used_region

\* pmm.c implements the abstract frame pool: whatever the callers do, its
\* stack, counters and marking loop behave like owner counts that only go up
\* from 0 by an allocation and down to 0 by the last release.
THEOREM PmmImplementsPool == Spec => ImplementsPool
<1>1. Init => Pool!Init
  <2> SUFFICES ASSUME Init PROVE Owners \in [Frame -> {0, 1}]
    BY DEF Pool!Init, Owners
  <2>1. \A f \in Frame : ref_counts[f] \in {0, 1}
    BY DEF Init
  <2> QED BY <2>1 DEF Owners
<1>2. IInv /\ IInv' /\ [Next]_vars => [Pool!Next]_Owners
  BY StepRefines
<1> QED
  BY <1>1, <1>2, Inductive, PTL DEF Spec, ImplementsPool, Pool!Spec, Owners
==============================================================================
