----------------------------- MODULE ThreadAttr ------------------------------
(***************************************************************************)
(* Thread attributes and what pthread_create makes of them: the record     *)
(* that the pthread_attr functions of src/src/pthread.c fill in, the       *)
(* stack a new thread gets, and the blocks this takes from the heap and    *)
(* gives back.  Sched models when the thread runs.                         *)
(*                                                                         *)
(* Sizes are scaled: MinStack for 4096, Align for 16.                      *)
(***************************************************************************)
EXTENDS Integers, Sequences, FiniteSets, SequencesExt

CONSTANTS
  MinStack, Align, DefaultStack,
  HeapTop,         \* stacks lie in 0 .. HeapTop - 1; when it is full malloc fails
  StackSizes,      \* sizes that callers ask for
  UserStacks,      \* stacks that callers bring themselves, outside the heap
  Params,          \* scheduling parameters that callers ask for
  MaxThreads       \* bound: threads at a time

ASSUME ThreadAttrAssumption ==
  /\ MinStack \in Nat /\ Align \in 1 .. MinStack
  /\ DefaultStack \in Nat /\ DefaultStack >= MinStack
  /\ HeapTop \in Nat /\ StackSizes \subseteq Nat
  /\ \A a \in UserStacks : a \in Nat /\ a >= HeapTop

NORMAL == 2
COUNT == 5
NoStack == -1      \* NULL

VARIABLES
  attr,            \* a static pthread_attr_t, zero at first
  stacks,          \* the malloc'ed stacks, [addr, size]
  tasks,           \* number of task_t blocks that are allocated
  threads          \* the tasks in use: id -> [stack_page, stack_size, sp, priority]

attrVars == <<attr, stacks, tasks, threads>>

AttrInit ==
  /\ attr = [stacksize |-> 0, stackaddr |-> NoStack, schedparam |-> 0, is_initialized |-> FALSE]
  /\ stacks = {} /\ tasks = 0 /\ threads = <<>>

\* Where malloc finds room for a stack: the first fit, as Heap has it.
Room(taken, size) ==
  {a \in 0 .. HeapTop - size : a % Align = 0 /\
     \A b \in taken : a + size <= b.addr \/ b.addr + b.size <= a}
Malloc(taken, size) == IF Room(taken, size) = {} THEN NoStack ELSE Min(Room(taken, size))
Taken(taken, addr, size) ==
  IF addr = NoStack THEN taken ELSE taken \cup {[addr |-> addr, size |-> size]}
------------------------------------------------------------------------------
pthread_attr_init ==
  /\ attr' = [stacksize |-> DefaultStack, stackaddr |-> NoStack, schedparam |-> NORMAL,
              is_initialized |-> TRUE]
  /\ UNCHANGED <<stacks, tasks, threads>>

\* The other fields keep their values.
pthread_attr_destroy ==
  /\ attr' = [attr EXCEPT !.is_initialized = FALSE]
  /\ UNCHANGED <<stacks, tasks, threads>>

MutSetStackSize(stacksize) ==
  /\ attr.is_initialized
  /\ attr' = [attr EXCEPT !.stacksize = stacksize]
  /\ UNCHANGED <<stacks, tasks, threads>>

\* Calls that return EINVAL change nothing.
pthread_attr_setstacksize(stacksize) ==
  /\ attr.is_initialized /\ stacksize >= MinStack
  /\ attr' = [attr EXCEPT !.stacksize = stacksize]
  /\ UNCHANGED <<stacks, tasks, threads>>

pthread_attr_setstack(stackaddr, stacksize) ==
  /\ attr.is_initialized /\ stacksize >= MinStack
  /\ attr' = [attr EXCEPT !.stackaddr = stackaddr, !.stacksize = stacksize]
  /\ UNCHANGED <<stacks, tasks, threads>>

pthread_attr_setschedparam(param) ==
  /\ attr.is_initialized /\ param \in 0 .. COUNT - 1
  /\ attr' = [attr EXCEPT !.schedparam = param]
  /\ UNCHANGED <<stacks, tasks, threads>>
------------------------------------------------------------------------------
\* What pthread_create takes from attr, NULL or not initialised included.
Wanted(given) ==
  IF given /\ attr.is_initialized THEN attr
  ELSE [stacksize |-> DefaultStack, stackaddr |-> NoStack, schedparam |-> NORMAL]

\* Without a stack of the caller's, one is allocated twice and the pointer to
\* the first is overwritten.  If either fails the task is freed, not the stack.
pthread_create(given) ==
  LET want == Wanted(given)
      own == want.stackaddr = NoStack
      first == IF own THEN Malloc(stacks, want.stacksize) ELSE want.stackaddr
      held == IF own THEN Taken(stacks, first, want.stacksize) ELSE stacks
      second == IF own /\ first # NoStack THEN Malloc(held, want.stacksize) ELSE first
      top == second + want.stacksize
      task == [stack_page |-> second, stack_size |-> want.stacksize,
               sp |-> top - (top % Align), priority |-> want.schedparam % 5]
  IN  /\ Len(threads) < MaxThreads
      /\ stacks' = IF own THEN Taken(held, second, want.stacksize) ELSE stacks
      /\ IF second = NoStack THEN UNCHANGED <<tasks, threads>>
         ELSE tasks' = tasks + 1 /\ threads' = Append(threads, task)
      /\ UNCHANGED attr

MutReap(k) ==
  /\ threads' = RemoveAt(threads, k)
  /\ tasks' = tasks - 1
  /\ UNCHANGED <<attr, stacks>>

\* What sched_yield frees of a thread that has exited.  free() of a stack
\* outside the heap does nothing.
Reap(k) ==
  /\ stacks' = {b \in stacks : b.addr # threads[k].stack_page}
  /\ threads' = RemoveAt(threads, k)
  /\ tasks' = tasks - 1
  /\ UNCHANGED attr

AttrNext ==
  \/ pthread_attr_init \/ pthread_attr_destroy
  \/ \E n \in StackSizes : pthread_attr_setstacksize(n)
  \/ \E n \in StackSizes, a \in UserStacks \cup {NoStack} : pthread_attr_setstack(a, n)
  \/ \E p \in Params : pthread_attr_setschedparam(p)
  \/ \E given \in BOOLEAN : pthread_create(given)
  \/ \E k \in DOMAIN threads : Reap(k)

AttrSpec == AttrInit /\ [][AttrNext]_attrVars
------------------------------------------------------------------------------
\* A thread starts on an aligned stack pointer inside its own stack with
\* nearly all of it below, and, if the stack is the kernel's, on a block of
\* that size that no other thread has and that is not free, whatever calls
\* filled in the attribute and whichever failed.
StacksSound ==
  /\ tasks = Len(threads)
  /\ \A k \in DOMAIN threads :
       LET t == threads[k] IN
       /\ t.sp % Align = 0
       /\ t.sp \in t.stack_page + MinStack - Align + 1 .. t.stack_page + t.stack_size
       /\ t.priority \in 0 .. COUNT - 1
       /\ t.stack_page \notin UserStacks =>
            /\ [addr |-> t.stack_page, size |-> t.stack_size] \in stacks
            /\ \A j \in DOMAIN threads \ {k} : threads[j].stack_page # t.stack_page

\* Stacks that no thread points to any more.
Lost == {b \in stacks : \A k \in DOMAIN threads : threads[k].stack_page # b.addr}

\* The first stack is the only leak: one for every call that allocates, none
\* when a thread with its stack goes, whatever the calls before did.
OneStackLostPerCreate ==
  [][Cardinality(Lost') - Cardinality(Lost)
       = IF Cardinality(stacks') > Cardinality(stacks) THEN 1 ELSE 0]_attrVars
==============================================================================
