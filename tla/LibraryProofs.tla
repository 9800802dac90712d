---------------------------- MODULE LibraryProofs ----------------------------
(***************************************************************************)
(* The parts without a partner, for every value of their constants: the    *)
(* one-pass search of alloc_pages_backend returns the first fit, threads   *)
(* get stacks of their own and pthread_create loses one each time, and the *)
(* clocks read what their counters say.                                    *)
(***************************************************************************)
EXTENDS PageScan, ThreadAttr, Clock, Division, FiniteSetTheorems, SequenceTheorems

ScanType ==
  /\ free \subseteq Page
  /\ num_pages \in Nat
  /\ i \in 0 .. TotalPages
  /\ free_run \in 0 .. i

\* The loop invariant: the last free_run pages seen are free, they are fewer
\* than asked for, and no run of the length asked for starts before them.
Searching ==
  /\ \A k \in i - free_run .. i - 1 : k \in free
  /\ free_run > 0 => start_idx = i - free_run
  /\ num_pages > 0 => free_run < num_pages
  /\ \A s \in free : s < i - free_run => ~IsRun(free, s, num_pages)

ScanInv == ScanType /\ (~done => Searching) /\ ScanIsFirstFit

\* The first run is the only page that FirstFit can choose.
LEMMA FirstFitIs ==
  ASSUME NEW F \in SUBSET Nat, NEW n \in Nat, NEW s \in F, IsRun(F, s, n),
         \A r \in F : r < s => ~IsRun(F, r, n)
  PROVE  FirstFit(F, n) = s
<1>1. \A r \in F : IsRun(F, r, n) => s <= r
  OBVIOUS
<1>2. \A x \in F : (IsRun(F, x, n) /\ \A r \in F : IsRun(F, r, n) => x <= r) => x = s
  BY <1>1
<1> QED BY <1>1, <1>2 DEF FirstFit

\* Before the first page nothing has been scanned and no run has begun.
LEMMA ScanInit == Init => ScanInv
<1> SUFFICES ASSUME Init PROVE ScanInv
  OBVIOUS
<1>1. ScanType
  BY PageScanAssumption DEF Init, ScanType
<1>2. ~done
  BY DEF Init
<1>3. i = 0 /\ free_run = 0 /\ num_pages \in Nat /\ free \subseteq Nat
  BY PageScanAssumption DEF Init, Page
<1>4. Searching
  BY <1>3 DEF Searching
<1> QED BY <1>1, <1>2, <1>4 DEF ScanInv, ScanIsFirstFit

\* A free page makes the run longer, and perhaps long enough.
LEMMA FreePageStep == ScanInv /\ ScanPage /\ i \in free => ScanInv'
<1> SUFFICES ASSUME ScanInv, ScanPage, i \in free PROVE ScanInv'
  OBVIOUS
<1>1. /\ ~done /\ i < TotalPages /\ i' = i + 1 /\ free_run' = free_run + 1
      /\ start_idx' = (IF free_run = 0 THEN i ELSE start_idx)
      /\ free' = free /\ num_pages' = num_pages
  BY DEF ScanPage
<1>2. /\ free \subseteq Nat /\ i \in Nat /\ free_run \in Nat /\ free_run <= i
      /\ num_pages \in Nat /\ TotalPages \in Nat /\ Searching /\ ScanType
  BY <1>1, PageScanAssumption DEF ScanInv, ScanType, Page
<1>3. ScanType'
  BY <1>1, <1>2 DEF ScanType
<1>4. start_idx' = i' - free_run'
  <2>1. CASE free_run = 0
    BY <1>1, <1>2, <2>1
  <2>2. CASE free_run > 0
    <3>1. start_idx' = i - free_run
      BY <1>1, <1>2, <2>2 DEF Searching
    <3>2. i' = i + 1 /\ free_run' = free_run + 1
      BY <1>1
    <3>3. i' - free_run' = i - free_run
      BY <1>2, <3>2
    <3> QED BY <3>1, <3>3
  <2> QED BY <1>2, <2>1, <2>2
<1>5. \A k \in i' - free_run' .. i' - 1 : k \in free
  BY <1>1, <1>2 DEF Searching
<1>6. \A s \in free : s < i' - free_run' => ~IsRun(free, s, num_pages)
  BY <1>1, <1>2 DEF Searching
<1>0. done' <=> free_run + 1 = num_pages
  BY Zenon DEF ScanPage
<1>7. CASE free_run + 1 = num_pages
  <2>1. num_pages = free_run' /\ num_pages > 0
    BY <1>1, <1>2, <1>7
  <2>2. i' - free_run' \in free
    BY <1>1, <1>2, <1>5
  <2>3. IsRun(free, i' - free_run', num_pages)
    BY <1>1, <1>2, <1>5, <2>1 DEF IsRun
  <2>4. FirstFit(free, num_pages) = i' - free_run'
    BY <1>2, <1>6, <2>2, <2>3, FirstFitIs
  <2> QED BY <1>0, <1>1, <1>3, <1>4, <1>7, <2>4 DEF ScanInv, ScanIsFirstFit
<1>8. CASE free_run + 1 # num_pages
  <2>1. num_pages > 0 => free_run' < num_pages
    BY <1>1, <1>2, <1>8 DEF Searching
  <2> QED BY <1>0, <1>1, <1>3, <1>4, <1>5, <1>6, <1>8, <2>1 DEF ScanInv, Searching, ScanIsFirstFit
<1> QED BY <1>7, <1>8

\* A run that reaches a page in use is too short wherever it starts.
LEMMA UsedPageStep == ScanInv /\ ScanPage /\ i \notin free => ScanInv'
<1> SUFFICES ASSUME ScanInv, ScanPage, i \notin free PROVE ScanInv'
  OBVIOUS
<1>1. /\ ~done /\ i < TotalPages /\ i' = i + 1 /\ free_run' = 0
      /\ ~done' /\ free' = free /\ num_pages' = num_pages
  BY DEF ScanPage
<1>2. /\ free \subseteq Nat /\ i \in Nat /\ free_run \in Nat /\ free_run <= i
      /\ num_pages \in Nat /\ TotalPages \in Nat /\ Searching /\ ScanType
  BY <1>1, PageScanAssumption DEF ScanInv, ScanType, Page
<1>3. ScanType'
  BY <1>1, <1>2 DEF ScanType
<1>4. ASSUME NEW s \in free, s < i + 1, IsRun(free, s, num_pages) PROVE FALSE
  <2>1. s \in Nat /\ s >= i - free_run /\ s < i
    BY <1>2, <1>4 DEF Searching
  <2>2. i - s \in 0 .. num_pages - 1
    BY <1>2, <1>4, <2>1 DEF Searching, IsRun
  <2>3. s + (i - s) \in free
    BY <1>4, <2>2 DEF IsRun
  <2>4. s + (i - s) = i
    BY <1>2, <2>1
  <2> QED BY <2>3, <2>4
<1> QED
  BY <1>1, <1>2, <1>3, <1>4 DEF ScanInv, Searching, ScanIsFirstFit

\* At the end of the heap every run that could still start is cut off.
LEMMA EndStep == ScanInv /\ ScanEnd => ScanInv'
<1> SUFFICES ASSUME ScanInv, ScanEnd PROVE ScanInv'
  OBVIOUS
<1>1. /\ ~done /\ i = TotalPages /\ done' /\ start_idx' = NULL
      /\ free' = free /\ num_pages' = num_pages /\ i' = i /\ free_run' = free_run
  BY DEF ScanEnd
<1>2. /\ free \subseteq Page /\ i \in Nat /\ free_run \in Nat /\ free_run <= i
      /\ num_pages \in Nat /\ TotalPages \in Nat /\ Searching /\ ScanType
  BY <1>1, PageScanAssumption DEF ScanInv, ScanType
<1>3. ASSUME NEW s \in free, IsRun(free, s, num_pages) PROVE FALSE
  <2>1. s \in Nat /\ s >= i - free_run /\ num_pages > 0
    BY <1>2, <1>3 DEF Searching, IsRun, Page
  <2>2. s + (num_pages - 1) \in free
    BY <1>2, <1>3, <2>1 DEF IsRun
  <2>3. s + (num_pages - 1) >= TotalPages
    BY <1>1, <1>2, <2>1 DEF Searching
  <2> QED BY <1>2, <2>1, <2>2, <2>3 DEF Page
<1>4. FirstFit(free, num_pages) = NULL
  BY <1>3 DEF FirstFit
<1> QED
  BY <1>1, <1>2, <1>4 DEF ScanInv, ScanType, ScanIsFirstFit

\* The search loop of alloc_pages_backend implements first fit.
THEOREM ScanCorrect == Spec => []ScanIsFirstFit
<1>1. ScanInv /\ [Next]_vars => ScanInv'
  <2>1. ScanInv /\ UNCHANGED vars => ScanInv'
    BY DEF ScanInv, ScanType, Searching, ScanIsFirstFit, vars
  <2> QED BY <2>1, FreePageStep, UsedPageStep, EndStep DEF Next
<1>2. ScanInv => ScanIsFirstFit
  BY DEF ScanInv
<1> QED BY <1>1, <1>2, ScanInit, PTL DEF Spec
------------------------------------------------------------------------------
\* What a task keeps of its stack.
Task == [stack_page : Nat, stack_size : Nat, sp : Int, priority : 0 .. COUNT - 1]

\* The stacks in the heap: of some size, inside it, at different places.
Stacks(S) ==
  /\ IsFiniteSet(S) /\ S \subseteq [addr : Nat, size : Nat \ {0}]
  /\ \A b \in S : b.addr + b.size <= HeapTop
  /\ \A b, c \in S : b.addr = c.addr => b = c

AttrSound ==
  /\ attr \in [stacksize : Nat, stackaddr : UserStacks \cup {NoStack},
               schedparam : 0 .. COUNT - 1, is_initialized : BOOLEAN]
  /\ attr.is_initialized => attr.stacksize >= MinStack

AttrInv == AttrSound /\ Stacks(stacks) /\ threads \in Seq(Task) /\ StacksSound
------------------------------------------------------------------------------
\* The assumption on the constants, and what the provers need of it.
LEMMA AttrSizes ==
  /\ MinStack \in Nat \ {0} /\ Align \in 1 .. MinStack /\ DefaultStack \in Nat /\ DefaultStack >= MinStack
  /\ HeapTop \in Nat /\ StackSizes \subseteq Nat
  /\ UserStacks \subseteq Nat /\ (\A a \in UserStacks : a >= HeapTop)
  /\ NoStack = -1 /\ NoStack \notin Nat /\ NORMAL \in 0 .. COUNT - 1 /\ COUNT = 5
BY ThreadAttrAssumption DEF NoStack, NORMAL, COUNT

\* A place a for n bytes that no stack of S has; the heap stays in order.
Fresh(S, a, n) ==
  /\ a \in Nat /\ a < HeapTop /\ a \notin UserStacks
  /\ \A b \in S : b.addr # a
  /\ Taken(S, a, n) = S \cup {[addr |-> a, size |-> n]}
  /\ [addr |-> a, size |-> n] \notin S
  /\ Stacks(Taken(S, a, n))
  /\ Cardinality(Taken(S, a, n)) = Cardinality(S) + 1

\* malloc gives such a place, or NULL.
LEMMA TakenIs ==
  ASSUME NEW S, Stacks(S), NEW n \in Nat \ {0}, Malloc(S, n) # NoStack
  PROVE  Fresh(S, Malloc(S, n), n)
<1>0. PICK a : a = Malloc(S, n)
  OBVIOUS
<1> DEFINE e == [addr |-> a, size |-> n]
<1>1. /\ Room(S, n) \in SUBSET Nat /\ Room(S, n) # {}
  BY AttrSizes DEF Room, Malloc
<1>2. a \in Room(S, n)
  BY <1>0, <1>1, LeastNatural DEF Malloc, Min
<1>3. /\ a \in Nat /\ a + n <= HeapTop
      /\ \A b \in S : a + n <= b.addr \/ b.addr + b.size <= a
  BY <1>2, AttrSizes DEF Room
<1>4. a < HeapTop /\ a \notin UserStacks
  BY <1>3, AttrSizes
<1>5. \A b \in S : b.addr # a
  <2> SUFFICES ASSUME NEW b \in S PROVE b.addr # a
    OBVIOUS
  <2>1. b.addr \in Nat /\ b.size \in Nat \ {0}
    BY DEF Stacks
  <2> QED
    BY <1>3, <2>1
<1>6. Taken(S, a, n) = S \cup {e}
  BY <1>0 DEF Taken
<1>7. e \notin S
  BY <1>5
<1>8. IsFiniteSet(S \cup {e}) /\ Cardinality(S \cup {e}) = Cardinality(S) + 1
  BY <1>7, FS_AddElement DEF Stacks
<1>9. Stacks(S \cup {e})
  BY <1>3, <1>5, <1>8 DEF Stacks
<1>10. Fresh(S, a, n)
  BY <1>3, <1>4, <1>5, <1>6, <1>7, <1>8, <1>9 DEF Fresh
<1> QED
  BY <1>0, <1>10

\* A sequence without one of its elements.
LEMMA Removed ==
  ASSUME NEW S, NEW s \in Seq(S), NEW k \in DOMAIN s, NEW t, t = RemoveAt(s, k)
  PROVE  /\ t \in Seq(S) /\ Len(t) = Len(s) - 1
         /\ DOMAIN s = 1 .. Len(s) /\ DOMAIN t = 1 .. Len(t)
         /\ \A j \in 1 .. Len(t) : t[j] = s[IF j < k THEN j ELSE j + 1]
<1> DEFINE n == Len(s)
           u == SubSeq(s, 1, k - 1)
           v == SubSeq(s, k + 1, n)
<1>1. n \in Nat /\ k \in 1 .. n /\ DOMAIN s = 1 .. n /\ \A j \in 1 .. n : s[j] \in S
  OBVIOUS
<1>2. u \in Seq(S) /\ Len(u) = k - 1 /\ \A j \in 1 .. k - 1 : u[j] = s[j]
  <2>1. k - 1 \in Int /\ \A j \in 1 .. k - 1 : s[j] \in S
    BY <1>1
  <2> HIDE DEF n
  <2>2. /\ u \in Seq(S) /\ Len(u) = IF 1 <= k - 1 THEN (k - 1) - 1 + 1 ELSE 0
        /\ \A j \in 1 .. (k - 1) - 1 + 1 : u[j] = s[1 + j - 1]
    BY <2>1, SubSeqProperties
  <2>3. \A j \in 1 .. k - 1 : 1 + j - 1 = j /\ j \in 1 .. (k - 1) - 1 + 1
    BY <1>1
  <2> QED
    BY <1>1, <2>2, <2>3
<1>3. v \in Seq(S) /\ Len(v) = n - k /\ \A j \in 1 .. n - k : v[j] = s[k + j]
  <2>1. k + 1 \in Int /\ n \in Int /\ \A j \in k + 1 .. n : s[j] \in S
    BY <1>1
  <2> HIDE DEF n
  <2>2. /\ v \in Seq(S) /\ Len(v) = IF k + 1 <= n THEN n - (k + 1) + 1 ELSE 0
        /\ \A j \in 1 .. n - (k + 1) + 1 : v[j] = s[(k + 1) + j - 1]
    BY <2>1, SubSeqProperties
  <2>3. \A j \in 1 .. n - k : (k + 1) + j - 1 = k + j /\ j \in 1 .. n - (k + 1) + 1
    BY <1>1
  <2> QED
    BY <1>1, <2>2, <2>3
<1>4. t = u \o v
  BY DEF RemoveAt
<1> HIDE DEF u, v, n
<1>5. /\ t \in Seq(S) /\ Len(t) = Len(u) + Len(v)
      /\ \A j \in 1 .. Len(u) + Len(v) : t[j] = IF j <= Len(u) THEN u[j] ELSE v[j - Len(u)]
  <2>1. /\ u \o v \in Seq(S) /\ Len(u \o v) = Len(u) + Len(v)
        /\ \A j \in 1 .. Len(u) + Len(v) :
             (u \o v)[j] = IF j <= Len(u) THEN u[j] ELSE v[j - Len(u)]
    BY <1>2, <1>3, ConcatProperties, Zenon
  <2> QED
    BY <1>4, <2>1, Zenon
<1>6. Len(t) = n - 1 /\ DOMAIN t = 1 .. Len(t)
  BY <1>1, <1>2, <1>3, <1>5
<1>7. ASSUME NEW j \in 1 .. n - 1 PROVE t[j] = s[IF j < k THEN j ELSE j + 1]
  <2>1. CASE j < k
    BY <1>1, <1>2, <1>3, <1>5, <2>1
  <2>2. CASE ~(j < k)
    <3>1. /\ ~(j <= k - 1) /\ j - (k - 1) \in 1 .. n - k /\ k + (j - (k - 1)) = j + 1
          /\ j \in 1 .. (k - 1) + (n - k)
      BY <1>1, <2>2
    <3>2. t[j] = v[j - (k - 1)]
      BY <1>2, <1>3, <1>5, <3>1
    <3>3. v[j - (k - 1)] = s[j + 1]
      BY <1>3, <3>1
    <3> QED
      BY <2>2, <3>2, <3>3
  <2> QED
    BY <2>1, <2>2
<1> QED
  BY <1>1, <1>5, <1>6, <1>7 DEF n
------------------------------------------------------------------------------
\* Before any call there is no thread and no stack.
LEMMA AttrStarts == AttrInit => AttrInv
<1> SUFFICES ASSUME AttrInit PROVE AttrInv
  OBVIOUS
<1>1. Stacks({})
  BY FS_EmptySet DEF Stacks
<1>2. threads = <<>> /\ threads \in Seq(Task) /\ Len(threads) = 0 /\ DOMAIN threads = {}
  BY DEF AttrInit
<1>3. AttrSound
  BY AttrSizes DEF AttrInit, AttrSound
<1> QED
  BY <1>1, <1>2, <1>3 DEF AttrInit, AttrInv, StacksSound

\* The calls that fill in the attribute.
SetAttr ==
  \/ pthread_attr_init \/ pthread_attr_destroy
  \/ \E n \in StackSizes : pthread_attr_setstacksize(n)
  \/ \E n \in StackSizes, a \in UserStacks \cup {NoStack} : pthread_attr_setstack(a, n)
  \/ \E p \in Params : pthread_attr_setschedparam(p)

\* They keep the stack size of an initialised attribute large enough.
LEMMA SetAttrInv ==
  ASSUME AttrInv, SetAttr
  PROVE  AttrInv' /\ UNCHANGED <<stacks, tasks, threads>>
<1>1. UNCHANGED <<stacks, tasks, threads>>
  BY DEF SetAttr, pthread_attr_init, pthread_attr_destroy, pthread_attr_setstacksize,
         pthread_attr_setstack, pthread_attr_setschedparam
<1>2. AttrSound'
  <2>1. CASE pthread_attr_init
    BY <2>1, AttrSizes DEF AttrSound, pthread_attr_init
  <2>2. CASE pthread_attr_destroy
    BY <2>2 DEF AttrInv, AttrSound, pthread_attr_destroy
  <2>3. ASSUME NEW n \in StackSizes, pthread_attr_setstacksize(n) PROVE AttrSound'
    BY <2>3, AttrSizes DEF AttrInv, AttrSound, pthread_attr_setstacksize
  <2>4. ASSUME NEW n \in StackSizes, NEW a \in UserStacks \cup {NoStack}, pthread_attr_setstack(a, n)
        PROVE  AttrSound'
    BY <2>4, AttrSizes DEF AttrInv, AttrSound, pthread_attr_setstack
  <2>5. ASSUME NEW p \in Params, pthread_attr_setschedparam(p) PROVE AttrSound'
    BY <2>5 DEF AttrInv, AttrSound, pthread_attr_setschedparam
  <2> QED
    BY <2>1, <2>2, <2>3, <2>4, <2>5 DEF SetAttr
<1> QED
  BY <1>1, <1>2 DEF AttrInv, StacksSound

\* The stack pointer of a new thread.
LEMMA StackTop ==
  ASSUME NEW a \in Nat, NEW n \in Nat, n >= MinStack, NEW sp, sp = (a + n) - ((a + n) % Align)
  PROVE  sp \in Int /\ sp % Align = 0 /\ sp \in a + MinStack - Align + 1 .. a + n
<1>1. Align \in Nat \ {0} /\ MinStack \in Nat /\ a + n \in Nat
  BY AttrSizes
<1>2. PICK t \in Nat : t = a + n
  BY <1>1
<1>3. PICK d \in Nat, r \in 0 .. Align - 1 : d = t \div Align /\ r = t % Align /\ t = Align * d + r
  BY <1>1, Divided
<1>4. sp = Align * d + 0 /\ Align * d \in Int
  BY <1>1, <1>2, <1>3
<1>5. (Align * d + 0) % Align = 0
  <2>1. 0 \in 0 .. Align - 1
    BY <1>1
  <2> QED
    BY <1>1, <2>1, Quotients
<1>6. sp = t - r
  BY <1>2, <1>3
<1> QED
  BY <1>1, <1>2, <1>4, <1>5, <1>6

\* The stacks that nobody points to.
LostOf(S, T) == {b \in S : \A k \in DOMAIN T : T[k].stack_page # b.addr}

\* What StacksSound says of thread k of T.
ThreadSound(T, S, k) ==
  /\ T[k].sp % Align = 0
  /\ T[k].sp \in T[k].stack_page + MinStack - Align + 1 .. T[k].stack_page + T[k].stack_size
  /\ T[k].priority \in 0 .. COUNT - 1
  /\ T[k].stack_page \notin UserStacks =>
       /\ [addr |-> T[k].stack_page, size |-> T[k].stack_size] \in S
       /\ \A j \in DOMAIN T \ {k} : T[j].stack_page # T[k].stack_page

\* What StacksSound says, of threads T and stacks S.
ThreadsSound(T, S) ==
  T \in Seq(Task) /\ Stacks(S) /\ \A k \in DOMAIN T : ThreadSound(T, S, k)

\* A new thread has its stack pointer inside its stack, which, if it is in the
\* heap, is one of the stacks R and not one of the old ones, S.
NewThread(x, S, R) ==
  /\ x \in Task /\ x.sp % Align = 0
  /\ x.sp \in x.stack_page + MinStack - Align + 1 .. x.stack_page + x.stack_size
  /\ x.stack_page \notin UserStacks =>
       /\ [addr |-> x.stack_page, size |-> x.stack_size] \in R
       /\ \A b \in S : b.addr # x.stack_page

\* A thread more.
LEMMA ThreadAdded ==
  ASSUME NEW T, NEW S, ThreadsSound(T, S),
         NEW x, NEW R, S \subseteq R, Stacks(R), NewThread(x, S, R)
  PROVE  /\ ThreadsSound(Append(T, x), R) /\ Len(Append(T, x)) = Len(T) + 1
         /\ LostOf(R, Append(T, x)) = {b \in LostOf(R, T) : b.addr # x.stack_page}
<1> DEFINE U == Append(T, x)
           n == Len(T)
<1>1. /\ n \in Nat /\ DOMAIN T = 1 .. n /\ \A k \in 1 .. n : T[k] \in Task
      /\ U \in Seq(Task) /\ Len(U) = n + 1 /\ DOMAIN U = 1 .. n + 1
      /\ \A k \in 1 .. n : U[k] = T[k]
      /\ U[n + 1] = x
  BY AppendProperties DEF ThreadsSound, NewThread
<1> HIDE DEF U, n
<1> USE DEF NewThread
<1>2. DOMAIN U = DOMAIN T \cup {n + 1} /\ n + 1 \notin DOMAIN T /\ \A k \in DOMAIN T : U[k] = T[k]
  BY <1>1
\* A thread on a kernel stack and the new one are on different stacks.
<1>3. ASSUME NEW k \in DOMAIN T, T[k].stack_page = x.stack_page PROVE x.stack_page \in UserStacks
  <2>1. SUFFICES ASSUME x.stack_page \notin UserStacks PROVE FALSE
    OBVIOUS
  <2>2. [addr |-> T[k].stack_page, size |-> T[k].stack_size] \in S
    BY <1>3, <2>1 DEF ThreadsSound, ThreadSound
  <2>3. [addr |-> T[k].stack_page, size |-> T[k].stack_size].addr # x.stack_page
    BY <2>1, <2>2
  <2> QED
    BY <1>3, <2>3
<1>4. ASSUME NEW k \in DOMAIN T PROVE ThreadSound(U, R, k)
  <2>1. ThreadSound(T, S, k) /\ U[k] = T[k]
    BY <1>2 DEF ThreadsSound
  <2>2. ASSUME T[k].stack_page \notin UserStacks, NEW j \in DOMAIN U \ {k}
        PROVE  U[j].stack_page # T[k].stack_page
    <3>1. CASE j = n + 1
      BY <1>1, <1>3, <2>2, <3>1
    <3>2. CASE j \in DOMAIN T
      BY <1>2, <2>1, <2>2, <3>2 DEF ThreadSound
    <3> QED
      BY <1>2, <3>1, <3>2
  <2> QED
    BY <2>1, <2>2 DEF ThreadSound
<1>5. ThreadSound(U, R, n + 1)
  <2>1. ASSUME x.stack_page \notin UserStacks, NEW j \in DOMAIN U \ {n + 1}
        PROVE  U[j].stack_page # x.stack_page
    BY <1>2, <1>3, <2>1
  <2>2. U[n + 1] = x /\ x.priority \in 0 .. COUNT - 1
    BY <1>1 DEF Task
  <2> QED
    BY <2>1, <2>2 DEF ThreadSound
<1>6. LostOf(R, U) = {b \in LostOf(R, T) : b.addr # x.stack_page}
  BY <1>1, <1>2 DEF LostOf
<1>7. \A k \in DOMAIN U : ThreadSound(U, R, k)
  BY <1>2, <1>4, <1>5
<1> QED
  BY <1>1, <1>6, <1>7 DEF U, n, ThreadsSound

\* A thread less.
LEMMA ThreadRemoved ==
  ASSUME NEW T, NEW S, ThreadsSound(T, S), NEW k \in DOMAIN T,
         NEW R, R = {b \in S : b.addr # T[k].stack_page}
  PROVE  /\ ThreadsSound(RemoveAt(T, k), R) /\ Len(RemoveAt(T, k)) = Len(T) - 1
         /\ LostOf(R, RemoveAt(T, k)) = LostOf(S, T)
         /\ Cardinality(R) <= Cardinality(S)
<1>1. PICK U : U = RemoveAt(T, k)
  OBVIOUS
<1> DEFINE Old(j) == IF j < k THEN j ELSE j + 1
<1>2. /\ U \in Seq(Task) /\ Len(U) = Len(T) - 1
      /\ DOMAIN T = 1 .. Len(T) /\ DOMAIN U = 1 .. Len(U)
      /\ \A j \in 1 .. Len(U) : U[j] = T[Old(j)]
  BY <1>1, Removed DEF ThreadsSound
<1>3. Len(T) \in Nat /\ k \in 1 .. Len(T)
  BY <1>2
<1>4. /\ \A j \in DOMAIN U : Old(j) \in DOMAIN T \ {k} /\ U[j] = T[Old(j)]
      /\ \A m, j \in DOMAIN U : Old(m) = Old(j) => m = j
      /\ \A m \in DOMAIN T \ {k} : \E j \in DOMAIN U : Old(j) = m
  <2>1. \A j \in DOMAIN U : Old(j) \in DOMAIN T \ {k} /\ U[j] = T[Old(j)]
    BY <1>2, <1>3
  <2>2. \A m, j \in DOMAIN U : Old(m) = Old(j) => m = j
    BY <1>2, <1>3
  <2>3. ASSUME NEW m \in DOMAIN T \ {k} PROVE \E j \in DOMAIN U : Old(j) = m
    <3>1. CASE m < k
      BY <1>2, <1>3, <3>1
    <3>2. CASE m > k
      <4>1. m - 1 \in DOMAIN U /\ Old(m - 1) = m
        BY <1>2, <1>3, <3>2
      <4> QED
        BY <4>1
    <3> QED
      BY <1>2, <1>3, <3>1, <3>2
  <2> QED
    BY <2>1, <2>2, <2>3
<1> HIDE DEF Old
<1>5. ASSUME NEW j \in DOMAIN U PROVE ThreadSound(U, R, j)
  <2>1. Old(j) \in DOMAIN T \ {k} /\ U[j] = T[Old(j)] /\ ThreadSound(T, S, Old(j))
    BY <1>4 DEF ThreadsSound
  <2>2. ASSUME U[j].stack_page \notin UserStacks
        PROVE  /\ [addr |-> U[j].stack_page, size |-> U[j].stack_size] \in R
               /\ \A m \in DOMAIN U \ {j} : U[m].stack_page # U[j].stack_page
    <3>1. [addr |-> U[j].stack_page, size |-> U[j].stack_size] \in S /\ T[k].stack_page # U[j].stack_page
      BY <2>1, <2>2 DEF ThreadSound
    <3>2. ASSUME NEW m \in DOMAIN U \ {j} PROVE U[m].stack_page # U[j].stack_page
      <4>1. Old(m) \in DOMAIN T \ {Old(j)} /\ U[m] = T[Old(m)]
        BY <1>4
      <4> QED
        BY <2>1, <2>2, <4>1 DEF ThreadSound
    <3> QED
      BY <3>1, <3>2
  <2> QED
    BY <2>1, <2>2 DEF ThreadSound
<1>6. LostOf(R, U) = LostOf(S, T)
  <2>1. ASSUME NEW b \in LostOf(R, U) PROVE b \in LostOf(S, T)
    <3>1. b \in S /\ b.addr # T[k].stack_page /\ \A j \in DOMAIN U : U[j].stack_page # b.addr
      BY <2>1 DEF LostOf
    <3>2. ASSUME NEW m \in DOMAIN T PROVE T[m].stack_page # b.addr
      BY <1>4, <3>1
    <3> QED
      BY <3>1, <3>2 DEF LostOf
  <2>2. ASSUME NEW b \in LostOf(S, T) PROVE b \in LostOf(R, U)
    <3>1. b \in S /\ \A m \in DOMAIN T : T[m].stack_page # b.addr
      BY <2>2 DEF LostOf
    <3>2. b \in R
      BY <3>1
    <3> QED
      BY <1>4, <3>1, <3>2 DEF LostOf
  <2> QED
    BY <2>1, <2>2
<1>7. R \subseteq S /\ Stacks(R) /\ Cardinality(R) <= Cardinality(S)
  BY FS_Subset DEF ThreadsSound, Stacks
<1> QED
  BY <1>1, <1>2, <1>5, <1>6, <1>7 DEF ThreadsSound

\* What OneStackLostPerCreate says of a step.
Leak ==
  Cardinality(Lost') - Cardinality(Lost)
    = IF Cardinality(stacks') > Cardinality(stacks) THEN 1 ELSE 0

\* The invariant's parts in the terms of the lemmas above.
LEMMA AttrParts ==
  /\ Lost = LostOf(stacks, threads)
  /\ AttrInv <=> AttrSound /\ ThreadsSound(threads, stacks) /\ tasks = Len(threads)
<1>1. Lost = LostOf(stacks, threads)
  BY DEF Lost, LostOf
<1>2. StacksSound <=>
        tasks = Len(threads) /\ \A k \in DOMAIN threads : ThreadSound(threads, stacks, k)
  BY Zenon DEF StacksSound, ThreadSound
<1> QED
  BY <1>1, <1>2 DEF AttrInv, ThreadsSound

\* The same after a step that leaves the attribute alone.
LEMMA AttrPartsNext ==
  ASSUME AttrSound, attr' = attr
  PROVE  /\ Lost' = LostOf(stacks', threads')
         /\ ThreadsSound(threads', stacks') /\ tasks' = Len(threads') => AttrInv'
<1>1. Lost' = LostOf(stacks', threads')
  BY DEF Lost, LostOf
<1>2. StacksSound' <=>
        tasks' = Len(threads') /\ \A k \in DOMAIN threads' : ThreadSound(threads', stacks', k)
  BY Zenon DEF StacksSound, ThreadSound
<1> QED
  BY <1>1, <1>2 DEF AttrInv, AttrSound, ThreadsSound

\* The lost stacks are finitely many.
LEMMA LostFinite ==
  ASSUME NEW S, Stacks(S), NEW T
  PROVE  IsFiniteSet(LostOf(S, T)) /\ Cardinality(LostOf(S, T)) \in Nat /\ Cardinality(S) \in Nat
BY FS_Subset, FS_CardinalityType DEF LostOf, Stacks

\* Stacks and lost stacks after malloc, for the threads there were.
LEMMA TakenIsLost ==
  ASSUME NEW S, NEW T, ThreadsSound(T, S), NEW n, NEW a, Fresh(S, a, n)
  PROVE  /\ LostOf(Taken(S, a, n), T) = LostOf(S, T) \cup {[addr |-> a, size |-> n]}
         /\ ThreadsSound(T, Taken(S, a, n))
<1>0. /\ Taken(S, a, n) = S \cup {[addr |-> a, size |-> n]}
      /\ a \notin UserStacks
      /\ \A b \in S : b.addr # a
  BY DEF Fresh
<1> DEFINE e == [addr |-> a, size |-> n]
<1>1. /\ Taken(S, a, n) = S \cup {e} /\ a \notin UserStacks
      /\ \A b \in S : b.addr # a
  BY <1>0
<1>2. ASSUME NEW k \in DOMAIN T PROVE T[k].stack_page # a
  <2>1. CASE T[k].stack_page \in UserStacks
    BY <1>1, <2>1
  <2>2. CASE T[k].stack_page \notin UserStacks
    <3>1. [addr |-> T[k].stack_page, size |-> T[k].stack_size] \in S
      BY <2>2 DEF ThreadsSound, ThreadSound
    <3>2. [addr |-> T[k].stack_page, size |-> T[k].stack_size].addr # a
      BY <1>1, <3>1
    <3> QED
      BY <3>2
  <2> QED
    BY <2>1, <2>2
<1>3. LostOf(S \cup {e}, T) = LostOf(S, T) \cup {e}
  BY <1>2 DEF LostOf
<1>4. \A k \in DOMAIN T : ThreadSound(T, S \cup {e}, k)
  BY DEF ThreadsSound, ThreadSound
<1> QED
  BY <1>1, <1>3, <1>4 DEF ThreadsSound, Fresh

\* pthread_create, whichever allocation fails.
LEMMA CreateInv ==
  ASSUME AttrInv, NEW given \in BOOLEAN, pthread_create(given)
  PROVE  AttrInv' /\ Leak
<1>1. PICK size, addr, prio : Wanted(given).stacksize = size /\ Wanted(given).stackaddr = addr
                              /\ Wanted(given).schedparam = prio
  OBVIOUS
<1>2. /\ size \in Nat \ {0} /\ size >= MinStack /\ addr \in UserStacks \cup {NoStack}
      /\ prio \in 0 .. COUNT - 1
  BY <1>1, AttrSizes DEF Wanted, AttrInv, AttrSound
<1>3. prio % 5 \in 0 .. COUNT - 1
  BY <1>2, AttrSizes
<1> DEFINE task(a) == [stack_page |-> a, stack_size |-> size,
                       sp |-> (a + size) - ((a + size) % Align), priority |-> prio % 5]
<1>4. ASSUME NEW a \in Nat
      PROVE  /\ task(a) \in Task /\ task(a).sp % Align = 0
             /\ task(a).sp \in task(a).stack_page + MinStack - Align + 1
                                 .. task(a).stack_page + task(a).stack_size
  <2>1. PICK top : top = (a + size) - ((a + size) % Align)
    OBVIOUS
  <2>2. top \in Int /\ top % Align = 0 /\ top \in a + MinStack - Align + 1 .. a + size
    BY <1>2, <2>1, StackTop
  <2>3. task(a).sp = top /\ task(a).stack_page = a /\ task(a).stack_size = size /\ task(a).priority = prio % 5
    BY <2>1
  <2>4. task(a) = [stack_page |-> a, stack_size |-> size, sp |-> top, priority |-> prio % 5]
    BY <2>1
  <2>5. task(a) \in Task
    BY <1>2, <1>3, <2>2, <2>4 DEF Task
  <2> QED
    BY <2>2, <2>3, <2>5
<1>5. attr' = attr
  BY DEF pthread_create
<1>6. ThreadsSound(threads, stacks) /\ tasks = Len(threads) /\ Stacks(stacks)
  BY AttrParts DEF ThreadsSound
<1>7. Lost = LostOf(stacks, threads)
  BY AttrParts
<1>8. ASSUME ThreadsSound(threads', stacks'), tasks' = Len(threads')
      PROVE  AttrInv' /\ Lost' = LostOf(stacks', threads')
  BY <1>5, <1>8, AttrPartsNext DEF AttrInv
<1>9. CASE addr # NoStack
  <2>1. addr \in Nat /\ addr \in UserStacks
    BY <1>2, <1>9, AttrSizes
  <2>2. stacks' = stacks /\ tasks' = tasks + 1 /\ threads' = Append(threads, task(addr))
    BY <1>1, <1>9 DEF pthread_create
  <2> HIDE DEF task
  <2>3. task(addr).stack_page = addr
    BY DEF task
  <2>4. /\ ThreadsSound(Append(threads, task(addr)), stacks)
        /\ Len(Append(threads, task(addr))) = Len(threads) + 1
        /\ LostOf(stacks, Append(threads, task(addr)))
             = {b \in LostOf(stacks, threads) : b.addr # task(addr).stack_page}
    <3>1. NewThread(task(addr), stacks, stacks)
      BY <1>4, <2>1, <2>3 DEF NewThread
    <3> QED
      BY <1>6, <3>1, ThreadAdded
  <2>5. \A b \in stacks : b.addr # addr
    <3>1. \A b \in stacks : b.addr \in Nat /\ b.size \in Nat \ {0} /\ b.addr + b.size <= HeapTop
      BY <1>6 DEF Stacks
    <3>2. addr >= HeapTop
      BY <2>1, AttrSizes
    <3> QED
      BY <2>1, <3>1, <3>2, AttrSizes
  <2>6. LostOf(stacks, Append(threads, task(addr))) = LostOf(stacks, threads)
    BY <2>3, <2>4, <2>5 DEF LostOf
  <2>7. AttrInv' /\ Lost' = Lost
    BY <1>6, <1>7, <1>8, <2>2, <2>4, <2>6
  <2>8. Leak
    BY <1>6, <1>7, <2>2, <2>7, LostFinite DEF Leak
  <2> QED
    BY <2>7, <2>8
<1>10. CASE addr = NoStack
  <2>1. PICK first : first = Malloc(stacks, size)
    OBVIOUS
  <2>2. CASE first = NoStack
    <3>1. stacks' = stacks /\ tasks' = tasks /\ threads' = threads
      BY <1>1, <1>10, <2>1, <2>2 DEF pthread_create, Taken
    <3>2. AttrInv' /\ Lost' = Lost
      BY <1>6, <1>7, <1>8, <3>1
    <3> QED
      BY <1>6, <1>7, <3>1, <3>2, LostFinite DEF Leak
  <2>3. CASE first # NoStack
    <3> DEFINE b == [addr |-> first, size |-> size]
    <3>1. PICK held : held = Taken(stacks, first, size)
      OBVIOUS
    <3>0. Fresh(stacks, first, size)
      BY <1>2, <1>6, <2>1, <2>3, TakenIs
    <3>2. /\ Stacks(held) /\ held = stacks \cup {b} /\ b \notin stacks
          /\ Cardinality(held) = Cardinality(stacks) + 1
      BY <3>0, <3>1 DEF Fresh
    <3>3. /\ LostOf(held, threads) = LostOf(stacks, threads) \cup {b}
          /\ ThreadsSound(threads, held)
      BY <1>2, <1>6, <3>0, <3>1, TakenIsLost
    <3>4. Cardinality(LostOf(held, threads)) = Cardinality(LostOf(stacks, threads)) + 1
      <4>1. b \notin LostOf(stacks, threads)
        BY <3>2 DEF LostOf
      <4> QED
        BY <1>6, <3>3, <4>1, LostFinite, FS_AddElement
    <3>5. PICK second : second = Malloc(held, size)
      OBVIOUS
    <3>6. CASE second = NoStack
      <4>1. stacks' = held /\ tasks' = tasks /\ threads' = threads
        BY <1>1, <1>10, <2>1, <2>3, <3>1, <3>5, <3>6 DEF pthread_create, Taken
      <4>2. AttrInv' /\ Lost' = LostOf(held, threads)
        BY <1>6, <1>8, <3>2, <3>3, <4>1
      <4>3. Cardinality(stacks) \in Nat /\ Cardinality(LostOf(stacks, threads)) \in Nat
        BY <1>6, LostFinite
      <4> QED
        BY <1>7, <3>2, <3>4, <4>1, <4>2, <4>3 DEF Leak
    <3>7. CASE second # NoStack
      <4> DEFINE c == [addr |-> second, size |-> size]
                 all == Taken(held, second, size)
      <4>1. stacks' = all /\ tasks' = tasks + 1 /\ threads' = Append(threads, task(second))
        BY <1>1, <1>10, <2>1, <2>3, <3>1, <3>5, <3>7 DEF pthread_create, Taken
      <4>2. /\ Stacks(all) /\ all = held \cup {c} /\ c \notin held /\ second \in Nat
            /\ (\A d \in held : d.addr # second) /\ second \notin UserStacks
            /\ Cardinality(all) = Cardinality(held) + 1
        <5>1. Fresh(held, second, size)
          BY <1>2, <3>2, <3>5, <3>7, TakenIs
        <5> QED
          BY <5>1 DEF Fresh
      <4>3. LostOf(all, threads) = LostOf(held, threads) \cup {c}
        <5>1. Fresh(held, second, size)
          BY <1>2, <3>2, <3>5, <3>7, TakenIs
        <5> QED
          BY <1>2, <1>6, <3>2, <3>3, <5>1, TakenIsLost
      <4> HIDE DEF task, all
      <4>4. task(second).stack_page = second /\ task(second).stack_size = size
        BY DEF task
      <4>5. /\ ThreadsSound(Append(threads, task(second)), all)
            /\ Len(Append(threads, task(second))) = Len(threads) + 1
            /\ LostOf(all, Append(threads, task(second)))
                 = {d \in LostOf(all, threads) : d.addr # task(second).stack_page}
        <5>1. held \subseteq all /\ c \in all
          BY <4>2
        <5>2. NewThread(task(second), held, all)
          BY <1>4, <4>2, <4>4, <5>1 DEF NewThread
        <5>3. ThreadsSound(threads, held) /\ Stacks(all) /\ held \subseteq all
          BY <3>3, <4>2, <5>1
        <5> QED
          BY <5>2, <5>3, ThreadAdded
      <4>6. LostOf(all, Append(threads, task(second))) = LostOf(held, threads)
        <5>1. \A d \in LostOf(held, threads) : d.addr # second
          BY <4>2 DEF LostOf
        <5>2. c.addr = second
          OBVIOUS
        <5> HIDE DEF c
        <5> QED
          BY <4>3, <4>4, <4>5, <5>1, <5>2
      <4>7. AttrInv' /\ Lost' = LostOf(held, threads)
        BY <1>6, <1>8, <4>1, <4>2, <4>5, <4>6
      <4>8. Cardinality(stacks) \in Nat /\ Cardinality(LostOf(stacks, threads)) \in Nat
        BY <1>6, LostFinite
      <4> QED
        BY <1>7, <3>2, <3>4, <4>1, <4>2, <4>7, <4>8 DEF Leak
    <3> QED
      BY <3>6, <3>7
  <2> QED
    BY <2>2, <2>3
<1> QED
  BY <1>9, <1>10

\* What sched_yield frees of a thread.
LEMMA ReapInv ==
  ASSUME AttrInv, NEW k \in DOMAIN threads, Reap(k)
  PROVE  AttrInv' /\ Leak
<1>1. /\ ThreadsSound(threads, stacks) /\ tasks = Len(threads) /\ Len(threads) \in Nat
      /\ Lost = LostOf(stacks, threads) /\ Stacks(stacks)
  BY AttrParts DEF ThreadsSound
<1>2. PICK R : R = {b \in stacks : b.addr # threads[k].stack_page}
  OBVIOUS
<1>3. stacks' = R /\ threads' = RemoveAt(threads, k) /\ tasks' = tasks - 1 /\ attr' = attr
  BY <1>2 DEF Reap
<1>4. /\ ThreadsSound(RemoveAt(threads, k), R) /\ Len(RemoveAt(threads, k)) = Len(threads) - 1
      /\ LostOf(R, RemoveAt(threads, k)) = LostOf(stacks, threads)
      /\ Cardinality(R) <= Cardinality(stacks)
  BY <1>1, <1>2, ThreadRemoved
<1>5. AttrInv' /\ Lost' = LostOf(stacks', threads')
  BY <1>1, <1>3, <1>4, AttrPartsNext DEF AttrInv
<1>6. Stacks(R)
  BY <1>4 DEF ThreadsSound
<1>8. /\ Cardinality(R) \in Nat /\ Cardinality(stacks) \in Nat
      /\ Cardinality(LostOf(stacks, threads)) \in Nat
  BY <1>1, <1>6, LostFinite
<1> QED
  BY <1>1, <1>3, <1>4, <1>5, <1>8 DEF Leak

\* Every step keeps the invariant and loses the stack it may lose.
LEMMA AttrSteps ==
  ASSUME AttrInv, [AttrNext]_attrVars
  PROVE  AttrInv' /\ (Leak \/ UNCHANGED attrVars)
<1>1. CASE SetAttr
  <2>1. AttrInv' /\ UNCHANGED <<stacks, tasks, threads>>
    BY <1>1, SetAttrInv
  <2>2. Lost' = Lost /\ stacks' = stacks
    BY <2>1 DEF Lost
  <2>3. Cardinality(Lost) \in Nat /\ Cardinality(stacks) \in Nat
    BY LostFinite, AttrParts DEF AttrInv
  <2> QED
    BY <2>1, <2>2, <2>3 DEF Leak
<1>2. CASE UNCHANGED attrVars
  BY <1>2 DEF attrVars, AttrInv, AttrSound, StacksSound
<1> QED
  BY <1>1, <1>2, CreateInv, ReapInv DEF AttrNext, SetAttr

\* The inductive invariant of attributes and stacks.
THEOREM AttrInvariant == AttrSpec => []AttrInv
<1>1. AttrInv /\ [AttrNext]_attrVars => AttrInv'
  BY AttrSteps
<1> QED
  BY <1>1, AttrStarts, PTL DEF AttrSpec

\* Every thread that pthread_create starts has a stack of its own with its stack
\* pointer inside, for all sizes of heap and stacks and any number of threads.
THEOREM StacksAreSound == AttrSpec => []StacksSound
<1>1. AttrInv => StacksSound
  BY DEF AttrInv
<1> QED
  BY <1>1, AttrInvariant, PTL

\* pthread_create loses exactly the first of the two stacks it allocates, and
\* nothing else of the code loses one.
THEOREM CreateLosesOneStack == AttrSpec => OneStackLostPerCreate
<1>1. AttrInv /\ [AttrNext]_attrVars
        => [Cardinality(Lost') - Cardinality(Lost)
              = IF Cardinality(stacks') > Cardinality(stacks) THEN 1 ELSE 0]_attrVars
  BY AttrSteps DEF Leak
<1> QED
  BY <1>1, AttrInvariant, PTL DEF AttrSpec, OneStackLostPerCreate
------------------------------------------------------------------------------
\* The seconds that the PL031 counts up to tick n, but for a constant.
Carries(n, lag) == (n + Frq - lag) \div Frq

\* Since pl031_init_time the PL031 has counted the carries of the counter.
ClockInv ==
  /\ cntpct \in Nat /\ rtc \in [dr : Nat, lag : Lags]
  /\ boot_epoch \in Nat /\ since \in Nat \cup {-1}
  /\ since >= 0 =>
       /\ since <= cntpct
       /\ rtc.dr + Carries(since, rtc.lag) = boot_epoch + Carries(cntpct, rtc.lag)

\* The assumption on the constants.
LEMMA Clocks == Frq \in Nat \ {0} /\ Nano \in Nat \ {0} /\ Lags \subseteq 0 .. Frq - 1 /\ Stamps \subseteq Nat
BY ClockAssumption

\* A carry happens when the counter reaches the PL031's phase, and the carries
\* are the seconds of the counter or one more.
LEMMA CarriesAre ==
  ASSUME NEW n \in Nat, NEW lag \in Lags
  PROVE  /\ Carries(n, lag) \in Nat
         /\ Carries(n + 1, lag) = Carries(n, lag) + (IF (n + 1) % Frq = lag THEN 1 ELSE 0)
         /\ Carries(n, lag) \in {n \div Frq, (n \div Frq) + 1}
         /\ n \div Frq \in Nat
<1>1. Frq \in Nat \ {0} /\ lag \in 0 .. Frq - 1
  BY Clocks
<1>2. PICK d \in Nat, r \in 0 .. Frq - 1 : d = n \div Frq /\ r = n % Frq /\ n = Frq * d + r
  BY <1>1, Divided
<1>3. Frq * d \in Int /\ Frq * (d + 1) = Frq * d + Frq /\ Frq * (d + 2) = Frq * d + 2 * Frq
  BY <1>1
<1>4. ASSUME NEW k \in Nat, NEW s \in 0 .. Frq - 1
      PROVE  (Frq * k + s) \div Frq = k /\ (Frq * k + s) % Frq = s
  BY <1>1, Quotients
<1>5. CASE r + 1 < lag
  <2>1. /\ n + Frq - lag = Frq * d + (r + Frq - lag)
        /\ n + 1 + Frq - lag = Frq * d + (r + 1 + Frq - lag)
        /\ n + 1 = Frq * d + (r + 1)
        /\ r + Frq - lag \in 0 .. Frq - 1 /\ r + 1 + Frq - lag \in 0 .. Frq - 1
        /\ r + 1 \in 0 .. Frq - 1 /\ r + 1 # lag
    BY <1>1, <1>2, <1>3, <1>5
  <2>2. Carries(n, lag) = d
    BY <2>1, <1>4 DEF Carries
  <2>3. Carries(n + 1, lag) = d
    BY <2>1, <1>4 DEF Carries
  <2>4. (n + 1) % Frq # lag
    BY <2>1, <1>4
  <2> QED
    BY <1>2, <2>2, <2>3, <2>4
<1>6. CASE r + 1 = lag
  <2>1. /\ n + Frq - lag = Frq * d + (Frq - 1)
        /\ n + 1 + Frq - lag = Frq * (d + 1) + 0
        /\ n + 1 = Frq * d + lag
        /\ Frq - 1 \in 0 .. Frq - 1 /\ 0 \in 0 .. Frq - 1
    BY <1>1, <1>2, <1>3, <1>6
  <2>2. Carries(n, lag) = d
    BY <2>1, <1>4 DEF Carries
  <2>3. Carries(n + 1, lag) = d + 1
    BY <2>1, <1>4 DEF Carries
  <2>4. (n + 1) % Frq = lag
    BY <1>1, <2>1, <1>4
  <2> QED
    BY <1>2, <2>2, <2>3, <2>4
<1>7. CASE r >= lag /\ r + 1 < Frq
  <2>1. /\ n + Frq - lag = Frq * (d + 1) + (r - lag)
        /\ n + 1 + Frq - lag = Frq * (d + 1) + (r + 1 - lag)
        /\ n + 1 = Frq * d + (r + 1)
        /\ r - lag \in 0 .. Frq - 1 /\ r + 1 - lag \in 0 .. Frq - 1
        /\ r + 1 \in 0 .. Frq - 1 /\ r + 1 # lag
    BY <1>1, <1>2, <1>3, <1>7
  <2>2. Carries(n, lag) = d + 1
    BY <2>1, <1>4 DEF Carries
  <2>3. Carries(n + 1, lag) = d + 1
    BY <2>1, <1>4 DEF Carries
  <2>4. (n + 1) % Frq # lag
    BY <2>1, <1>4
  <2> QED
    BY <1>2, <2>2, <2>3, <2>4
<1>8. CASE r >= lag /\ r + 1 = Frq
  <2>1. /\ n + Frq - lag = Frq * (d + 1) + (r - lag)
        /\ n + 1 = Frq * (d + 1) + 0
        /\ r - lag \in 0 .. Frq - 1 /\ 0 \in 0 .. Frq - 1
    BY <1>1, <1>2, <1>3, <1>8
  <2>2. Carries(n, lag) = d + 1
    BY <2>1, <1>4 DEF Carries
  <2>3. (n + 1) % Frq = 0
    BY <2>1, <1>4
  <2>4. CASE lag = 0
    <3>1. n + 1 + Frq - lag = Frq * (d + 2) + 0
      BY <1>1, <1>2, <1>3, <1>8, <2>4
    <3>2. Carries(n + 1, lag) = d + 2
      BY <3>1, <2>1, <1>4 DEF Carries
    <3> QED
      BY <1>2, <2>2, <2>3, <2>4, <3>2
  <2>5. CASE lag # 0
    <3>1. n + 1 + Frq - lag = Frq * (d + 1) + (Frq - lag) /\ Frq - lag \in 0 .. Frq - 1
      BY <1>1, <1>2, <1>3, <1>8, <2>5
    <3>2. Carries(n + 1, lag) = d + 1
      BY <3>1, <1>4 DEF Carries
    <3> QED
      BY <1>2, <2>2, <2>3, <2>5, <3>2
  <2> QED
    BY <2>4, <2>5
<1> QED
  BY <1>1, <1>2, <1>5, <1>6, <1>7, <1>8

\* Nothing is promised before pl031_init_time.
LEMMA ClockStarts == ClockInit => ClockInv
<1> SUFFICES ASSUME ClockInit PROVE ClockInv
  OBVIOUS
<1>1. rtc \in [dr : Nat, lag : Lags]
  BY Clocks DEF ClockInit
<1>2. since = -1 /\ ~(since >= 0)
  BY DEF ClockInit
<1> QED
  BY <1>1, <1>2 DEF ClockInit, ClockInv

\* A tick carries in both clocks or in none.
LEMMA ClockSteps == ClockInv /\ [ClockNext]_clockVars => ClockInv'
<1> SUFFICES ASSUME ClockInv, [ClockNext]_clockVars PROVE ClockInv'
  OBVIOUS
<1>1. CASE Tick
  <2>1. /\ rtc.lag \in Lags /\ rtc.dr \in Nat /\ cntpct \in Nat
        /\ cntpct' = cntpct + 1 /\ rtc'.lag = rtc.lag
        /\ rtc'.dr = rtc.dr + (IF (cntpct + 1) % Frq = rtc.lag THEN 1 ELSE 0)
        /\ rtc' \in [dr : Nat, lag : Lags]
        /\ boot_epoch' = boot_epoch /\ since' = since
    BY <1>1 DEF Tick, ClockInv
  <2>2. Carries(cntpct', rtc'.lag)
          = Carries(cntpct, rtc.lag) + (IF (cntpct + 1) % Frq = rtc.lag THEN 1 ELSE 0)
    BY <2>1, CarriesAre
  <2>3. Carries(cntpct, rtc.lag) \in Nat
    BY <2>1, CarriesAre
  <2>4. ASSUME since >= 0 PROVE since \in Nat /\ Carries(since, rtc.lag) \in Nat
    BY <2>1, <2>4, CarriesAre DEF ClockInv
  <2> HIDE DEF Carries
  <2> QED
    BY <2>1, <2>2, <2>3, <2>4 DEF ClockInv
<1>2. CASE pl031_init_time
  BY <1>2, CarriesAre DEF pl031_init_time, pl031_get_time, ClockInv
<1>3. ASSUME NEW t \in Stamps, pl031_set_time(t) PROVE ClockInv'
  BY <1>3, Clocks DEF pl031_set_time, ClockInv
<1>4. CASE UNCHANGED clockVars
  BY <1>4 DEF clockVars, ClockInv
<1> QED
  BY <1>1, <1>2, <1>3, <1>4 DEF ClockNext

\* For every frequency and phase, get_monotonic_time is exact to a nanosecond, and
\* get_realtime is ahead by the time from boot to pl031_init_time.
THEOREM ClockReadings == ClockSpec => []ClocksExact
<1>1. ASSUME ClockInv PROVE MonotonicExact
  <2>0. Frq \in Nat \ {0} /\ Nano \in Nat \ {0} /\ cntpct \in Nat
    BY <1>1, Clocks DEF ClockInv
  <2>1. PICK n \in Nat : n = cntpct
    BY <2>0
  <2>2. PICK d \in Nat, r \in 0 .. Frq - 1 : d = n \div Frq /\ r = n % Frq /\ n = Frq * d + r
    BY <2>0, Divided
  <2>3. PICK p \in Nat : p = r * Nano
    BY <2>0
  <2>4. PICK e \in Nat, s \in 0 .. Frq - 1 : e = p \div Frq /\ s = p % Frq /\ p = Frq * e + s
    BY <2>0, Divided
  <2>5. get_monotonic_time(cntpct) = [sec |-> d, nsec |-> e]
    BY <2>1, <2>2, <2>3, <2>4 DEF get_monotonic_time
  <2>6. e < Nano
    <3>1. ASSUME Nano <= e PROVE Frq * Nano <= Frq * e
      <4>1. CASE Nano = e
        BY <4>1, <2>0
      <4>2. CASE Nano < e
        <5>1. Frq * Nano + Frq <= Frq * e
          BY <4>2, <2>0, Times
        <5> QED
          BY <5>1, <2>0
      <4> QED
        BY <3>1, <4>1, <4>2, <2>0
    <3>2. Nano * r + Nano <= Nano * Frq
      BY <2>0, <2>2, Times
    <3>3. Nano * r = p /\ Nano * Frq = Frq * Nano /\ Frq * Nano \in Int /\ Frq * e \in Int
      BY <2>0, <2>3
    <3> QED
      BY <2>0, <2>4, <3>1, <3>2, <3>3
  <2>7. (d * Nano + e) * Frq = n * Nano - s
    <3>1. (d * Nano + e) * Frq = (Frq * d) * Nano + Frq * e
      BY <2>0
    <3>2. n * Nano = (Frq * d) * Nano + r * Nano
      BY <2>0, <2>2
    <3>3. (Frq * d) * Nano \in Int /\ Frq * e \in Int /\ r * Nano \in Int
      BY <2>0
    <3> QED
      BY <3>1, <3>2, <3>3, <2>3, <2>4
  <2>8. n * Nano \in Int
    BY <2>0
  <2>9. n * Nano - s \in (n * Nano) - Frq + 1 .. n * Nano
    BY <2>0, <2>8
  <2>10. (d * Nano + e) * Frq \in (cntpct * Nano) - Frq + 1 .. cntpct * Nano
    BY <2>1, <2>7, <2>9
  <2>11. e \in 0 .. Nano - 1
    BY <2>0, <2>6
  <2>12. /\ get_monotonic_time(cntpct).sec = d
         /\ get_monotonic_time(cntpct).nsec = e
    BY <2>5
  <2> QED
    BY <2>10, <2>11, <2>12, Zenon DEF MonotonicExact
<1>2. ASSUME ClockInv PROVE RealtimeLead
  <2> SUFFICES ASSUME since >= 0
               PROVE  get_realtime(cntpct).sec - rtc.dr \in (since \div Frq) - 1 .. (since \div Frq) + 1
    BY DEF RealtimeLead, pl031_get_time
  <2>1. /\ since \in Nat /\ cntpct \in Nat /\ rtc.lag \in Lags /\ rtc.dr \in Nat /\ boot_epoch \in Nat
        /\ rtc.dr + Carries(since, rtc.lag) = boot_epoch + Carries(cntpct, rtc.lag)
    BY <1>2 DEF ClockInv
  <2>2. get_realtime(cntpct).sec = boot_epoch + (cntpct \div Frq)
    BY DEF get_realtime, get_monotonic_time
  <2>3. PICK a \in Nat, b \in Nat, c \in Nat, d \in Nat :
          /\ a = cntpct \div Frq /\ b = since \div Frq
          /\ c = Carries(cntpct, rtc.lag) /\ d = Carries(since, rtc.lag)
          /\ c \in {a, a + 1} /\ d \in {b, b + 1}
    BY <2>1, CarriesAre
  <2>4. (boot_epoch + a) - rtc.dr \in b - 1 .. b + 1
    BY <2>1, <2>3
  <2>5. (boot_epoch + (cntpct \div Frq)) - rtc.dr \in (since \div Frq) - 1 .. (since \div Frq) + 1
    BY <2>3, <2>4, Zenon
  <2> QED
    BY <2>2, <2>5, Zenon
<1>3. ClockInv => ClocksExact
  BY <1>1, <1>2 DEF ClocksExact
<1> QED
  BY <1>3, ClockStarts, ClockSteps, PTL DEF ClockSpec
==============================================================================
