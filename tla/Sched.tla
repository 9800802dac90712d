-------------------------------- MODULE Sched --------------------------------
(***************************************************************************)
(* The thread scheduler of src/src/pthread.c and the context switch of     *)
(* src/src/switch.S: cooperative threads on several cores, one doubly      *)
(* linked run queue per priority with a bitmap of the non-empty ones, all  *)
(* under the spinlock sched_lock.                                          *)
(*                                                                         *)
(* A core executes the code of the thread on whose stack it runs.  A core  *)
(* that switches takes sched_lock in the thread it leaves and releases it  *)
(* in the thread it enters: YieldPick, cpu_switch_to and YieldUnlock (or   *)
(* ret_from_fork) are separate steps so that this hand-off is visible.     *)
(* A critical section that nobody can observe half-way is one step.        *)
(*                                                                         *)
(* Memory of a task is handed out once: what the scheduler does with a     *)
(* task that is freed under its feet is modelled, its reuse is not.        *)
(***************************************************************************)
EXTENDS Naturals, FiniteSets

CONSTANTS
  Core,          \* the cores (MAX_CPUS of them)
  Boot,          \* the core that runs main
  Thread,        \* the task structures pthread_create can get from malloc
  NULL,
  COUNT,         \* number of priorities (5 in the code); 0 is IDLE
  NORMAL,        \* priority of main and of threads without attributes
  SchedParam,    \* values of attr->schedparam
  Ops            \* bound: which calls threads make

ASSUME SchedAssumption ==
  /\ Boot \in Core
  /\ Core \cap Thread = {} /\ NULL \notin Core \cup Thread
  /\ IsFiniteSet(Core) /\ IsFiniteSet(Thread)
  /\ COUNT \in Nat /\ NORMAL \in 1 .. COUNT - 1
  /\ SchedParam \subseteq Nat
  /\ Ops \subseteq {"create", "yield", "exit", "join"}

IDLE == 0
Prio == 0 .. COUNT - 1

\* The task a core starts with has the core's name: Boot is main_task, another
\* core stands for its startup_task.  The two "idle" threads that sched_init
\* and sched_init_secondary create are never queued and never run: left out.
Task == Thread \cup Core
Link == Task \cup {NULL}
State == {"RUNNING", "READY", "EXITED", "BLOCKED"}

VARIABLES
  rq,            \* runqueues, runqueues_tail, active_priorities, next and prev
  state, prio,   \* task_t fields
  joinq,         \* join_wait_queue: first of a list linked through next
  ctx,           \* saved context: what the thread does when it is resumed
  mem,           \* "none" before malloc, "live", "freed"
  task,          \* cores[c].task, the macro current_task
  task_to_free,  \* cores[c].task_to_free
  stack,         \* the task on whose stack core c executes
  pc,            \* where core c is, and where it goes on after sched_yield
  sched_lock     \* the core that holds it, or NULL (the code stores 1 or 0)

vars == <<rq, state, prio, joinq, ctx, mem, task, task_to_free, stack, pc, sched_lock>>
------------------------------------------------------------------------------
\* What a thread was doing when it called sched_yield: its own code, the end
\* of pthread_exit, or the loop of pthread_join on t; a new thread has been
\* doing nothing and resumes in ret_from_fork.
Flow(kind, t) == [kind |-> kind, t |-> t]
User == Flow("user", NULL)
Exiting == Flow("exit", NULL)
Fork == Flow("fork", NULL)

At(c, label) == pc[c].at = label
Go(c, label, flow) == pc' = [pc EXCEPT ![c] = [at |-> label, flow |-> flow]]

\* The compare-and-swap succeeds when nobody holds the lock; the release is a
\* plain store, whoever does it.
pthread_spin_lock(c) == sched_lock = NULL /\ sched_lock' = c
pthread_spin_unlock == sched_lock' = NULL

MutPriority(schedparam) == schedparam

Priority(schedparam) == schedparam % COUNT

MutEnqueue(q, t, p) ==
  LET h == q.head[p] IN
  IF h = NULL
  THEN [q EXCEPT !.nxt[t] = NULL, !.prv[t] = NULL,
                 !.head[p] = t, !.tail[p] = t, !.active = @ \cup {p}]
  ELSE [q EXCEPT !.nxt[t] = h, !.prv = [@ EXCEPT ![t] = NULL, ![h] = t],
                 !.head[p] = t, !.active = @ \cup {p}]

\* Appends t to the queue of priority p.
sched_enqueue_task(q, t, p) ==
  LET last == q.tail[p] IN
  IF q.head[p] = NULL
  THEN [q EXCEPT !.nxt[t] = NULL, !.prv[t] = NULL,
                 !.head[p] = t, !.tail[p] = t, !.active = @ \cup {p}]
  ELSE [q EXCEPT !.nxt = [@ EXCEPT ![t] = NULL, ![last] = t], !.prv[t] = last,
                 !.tail[p] = t, !.active = @ \cup {p}]

MutDequeue(q, t, p) ==
  LET n == q.nxt[t]
      v == q.prv[t]
  IN  [nxt    |-> [u \in Task |-> IF u = t THEN NULL ELSE IF u = v THEN n ELSE q.nxt[u]],
       prv    |-> [u \in Task |-> IF u = t THEN NULL ELSE IF u = n THEN v ELSE q.prv[u]],
       head   |-> IF v = NULL /\ q.head[p] = t THEN [q.head EXCEPT ![p] = n] ELSE q.head,
       tail   |-> q.tail,
       active |-> IF v = NULL /\ n = NULL /\ q.head[p] = t
                  THEN q.active \ {p} ELSE q.active]

\* Unlinks t; also called for a task that is in no queue.
sched_dequeue_task(q, t, p) ==
  LET n == q.nxt[t]
      v == q.prv[t]
      head == IF v = NULL /\ q.head[p] = t THEN [q.head EXCEPT ![p] = n] ELSE q.head
      tail == IF n = NULL /\ q.tail[p] = t THEN [q.tail EXCEPT ![p] = v] ELSE q.tail
  IN  [nxt    |-> [u \in Task |-> IF u = t THEN NULL ELSE IF u = v THEN n ELSE q.nxt[u]],
       prv    |-> [u \in Task |-> IF u = t THEN NULL ELSE IF u = n THEN v ELSE q.prv[u]],
       head   |-> head,
       tail   |-> tail,
       active |-> IF head[p] = NULL THEN q.active \ {p} ELSE q.active]
------------------------------------------------------------------------------
\* sched_init has run on the boot core; the others are off.
Init ==
  /\ rq = [nxt |-> [t \in Task |-> NULL], prv |-> [t \in Task |-> NULL],
           head |-> [p \in Prio |-> NULL], tail |-> [p \in Prio |-> NULL],
           active |-> {}]
  /\ state = [t \in Task |-> "RUNNING"]
  /\ prio = [t \in Task |-> IF t = Boot THEN NORMAL ELSE IDLE]
  /\ joinq = [t \in Task |-> NULL]
  /\ ctx = [t \in Task |-> User]
  /\ mem = [t \in Task |-> IF t = Boot THEN "live" ELSE "none"]
  /\ task = [c \in Core |-> c]
  /\ task_to_free = [c \in Core |-> NULL]
  /\ stack = [c \in Core |-> c]
  /\ pc = [c \in Core |-> [at |-> IF c = Boot THEN "run" ELSE "off", flow |-> User]]
  /\ sched_lock = NULL

\* psci_cpu_on has started core c, which allocates its startup task.
sched_init_secondary(c) ==
  /\ At(c, "off")
  /\ mem' = [mem EXCEPT ![c] = "live"]
  /\ Go(c, "run", User)
  /\ UNCHANGED <<rq, state, prio, joinq, ctx, task, task_to_free, stack, sched_lock>>

\* A startup task only loops on sched_yield (core_entry).
Calls(c, op) ==
  /\ At(c, "run")
  /\ op \in Ops
  /\ task[c] \in Core \ {Boot} => op = "yield"

MutYieldEnter(c, flow) ==
  /\ Go(c, "lock", flow)
  /\ mem' = IF task_to_free[c] = NULL THEN mem
            ELSE [mem EXCEPT ![task_to_free[c]] = "freed"]
  /\ UNCHANGED <<rq, state, prio, joinq, ctx, task, task_to_free, stack, sched_lock>>

\* The start of sched_yield frees the task that exited on this core, before
\* taking the lock: right after pthread_exit that is the running task.
YieldEnter(c, flow) ==
  /\ Go(c, "lock", flow)
  /\ task_to_free' = [task_to_free EXCEPT ![c] = NULL]
  /\ mem' = IF task_to_free[c] = NULL THEN mem
            ELSE [mem EXCEPT ![task_to_free[c]] = "freed"]
  /\ UNCHANGED <<rq, state, prio, joinq, ctx, task, stack, sched_lock>>

sched_yield(c) == Calls(c, "yield") /\ YieldEnter(c, User)

ExitYield(c) == At(c, "exited") /\ YieldEnter(c, Exiting)

MutPicked(q, c) ==
  LET top == CHOOSE p \in q.active : \A r \in q.active : r <= p
  IN  IF q.active = {} \/ q.head[top] = NULL THEN task[Boot] ELSE q.head[top]

\* The first thread of the highest priority that has one.  With nothing ready
\* the core goes on with its own task, whatever that task's state is.
Picked(q, c) ==
  LET top == CHOOSE p \in q.active : \A r \in q.active : r <= p
  IN  IF q.active = {} \/ q.head[top] = NULL THEN task[c] ELSE q.head[top]

\* The critical section of sched_yield up to the switch.
YieldPick(c) ==
  LET prev == task[c]
      again == state[prev] = "RUNNING" /\ prio[prev] # IDLE
      q == IF again THEN sched_enqueue_task(rq, prev, prio[prev]) ELSE rq
      next == Picked(q, c)
  IN  /\ At(c, "lock")
      /\ pthread_spin_lock(c)
      /\ rq' = IF prio[next] # IDLE THEN sched_dequeue_task(q, next, prio[next]) ELSE q
      /\ state' = [state EXCEPT ![prev] = IF again THEN "READY" ELSE @,
                                ![next] = "RUNNING"]
      /\ task' = [task EXCEPT ![c] = next]
      /\ Go(c, IF next = prev THEN "unlock" ELSE "switch", pc[c].flow)
      /\ UNCHANGED <<prio, joinq, ctx, mem, task_to_free, stack>>

\* Saves the context of the task being left and loads the next one's.
cpu_switch_to(c) ==
  LET to == ctx[task[c]]
  IN  /\ At(c, "switch")
      /\ ctx' = [ctx EXCEPT ![stack[c]] = pc[c].flow]
      /\ stack' = [stack EXCEPT ![c] = task[c]]
      /\ Go(c, IF to.kind = "fork" THEN "fork" ELSE "unlock", to)
      /\ UNCHANGED <<rq, state, prio, joinq, mem, task, task_to_free, sched_lock>>

\* Back in sched_yield of the resumed thread: unlock and return to its caller.
YieldUnlock(c) ==
  LET flow == pc[c].flow
  IN  /\ At(c, "unlock")
      /\ pthread_spin_unlock
      /\ Go(c, CASE flow.kind = "user" -> "run"
                 [] flow.kind = "exit" -> "spin"
                 [] flow.kind = "join" -> "poll", flow)
      /\ UNCHANGED <<rq, state, prio, joinq, ctx, mem, task, task_to_free, stack>>

MutRetFromFork(c) ==
  /\ At(c, "fork")
  /\ Go(c, "run", User)
  /\ UNCHANGED <<rq, state, prio, joinq, ctx, mem, task, task_to_free, stack, sched_lock>>

\* The first code of a new thread releases the lock its creator's core took.
ret_from_fork(c) ==
  /\ At(c, "fork")
  /\ pthread_spin_unlock
  /\ Go(c, "run", User)
  /\ UNCHANGED <<rq, state, prio, joinq, ctx, mem, task, task_to_free, stack>>

\* while(1) at the end of pthread_exit.
Spin(c) == At(c, "spin") /\ UNCHANGED vars
------------------------------------------------------------------------------
\* pthread_create up to the lock.  A failed malloc returns EAGAIN and leaves
\* no trace; a thread of priority IDLE is complete here and is never queued.
pthread_create(c, t, schedparam) ==
  LET p == Priority(schedparam)
  IN  /\ Calls(c, "create")
      /\ mem[t] = "none"
      /\ mem' = [mem EXCEPT ![t] = "live"]
      /\ state' = [state EXCEPT ![t] = "READY"]
      /\ prio' = [prio EXCEPT ![t] = p]
      /\ ctx' = [ctx EXCEPT ![t] = Fork]
      /\ IF p = IDLE THEN UNCHANGED pc ELSE Go(c, "create", Flow("user", t))
      /\ UNCHANGED <<rq, joinq, task, task_to_free, stack, sched_lock>>

CreateEnqueue(c) ==
  LET t == pc[c].flow.t
  IN  /\ At(c, "create")
      /\ sched_lock = NULL
      /\ rq' = sched_enqueue_task(rq, t, prio[t])
      /\ Go(c, "run", User)
      /\ UNCHANGED <<state, prio, joinq, ctx, mem, task, task_to_free, stack, sched_lock>>

\* pthread_exit, also reached when the start routine returns.  If a thread is
\* waiting to join, the wake-up loop is entered with the lock held.
pthread_exit(c) ==
  LET me == task[c]
  IN  /\ Calls(c, "exit")
      /\ sched_lock = NULL
      /\ state' = [state EXCEPT ![me] = "EXITED"]
      /\ task_to_free' = [task_to_free EXCEPT ![c] = me]
      /\ IF joinq[me] = NULL
         THEN /\ rq' = sched_dequeue_task(rq, me, prio[me])
              /\ Go(c, "exited", User)
              /\ UNCHANGED sched_lock
         ELSE /\ sched_lock' = c
              /\ Go(c, "wake", User)
              /\ UNCHANGED rq
      /\ UNCHANGED <<prio, joinq, ctx, mem, task, stack>>

\* An iteration of while (waiting): the body never advances waiting.
WakeWaiter(c) ==
  LET waiting == joinq[task[c]]
  IN  /\ At(c, "wake")
      /\ state' = [state EXCEPT ![waiting] = "READY"]
      /\ rq' = sched_enqueue_task(rq, waiting, prio[waiting])
      /\ UNCHANGED <<prio, joinq, ctx, mem, task, task_to_free, stack, pc, sched_lock>>

\* pthread_join: returns at once if the thread has exited, otherwise links the
\* caller into the thread's wait queue and starts polling; a thread may name
\* itself, which nothing checks, and then polls for ever.
pthread_join(c, t) ==
  LET me == task[c]
  IN  /\ Calls(c, "join")
      /\ mem[t] # "none"
      /\ sched_lock = NULL
      /\ state[t] # "EXITED"
      /\ state' = [state EXCEPT ![me] = "BLOCKED"]
      /\ rq' = [rq EXCEPT !.nxt[me] = joinq[t]]
      /\ joinq' = [joinq EXCEPT ![t] = me]
      /\ Go(c, "poll", Flow("join", t))
      /\ UNCHANGED <<prio, ctx, mem, task, task_to_free, stack, sched_lock>>

\* while (t->state != TASK_EXITED) sched_yield(), the test without the lock.
JoinPoll(c) ==
  /\ At(c, "poll")
  /\ IF state[pc[c].flow.t] = "EXITED"
     THEN /\ Go(c, "run", User)
          /\ UNCHANGED <<rq, state, prio, joinq, ctx, mem, task, task_to_free, stack, sched_lock>>
     ELSE YieldEnter(c, pc[c].flow)

Acquire(c) == YieldPick(c) \/ CreateEnqueue(c)

\* Steps that a core takes without waiting for anybody.
Proceed(c) ==
  \/ sched_yield(c) \/ ExitYield(c) \/ cpu_switch_to(c) \/ YieldUnlock(c)
  \/ ret_from_fork(c) \/ JoinPoll(c) \/ WakeWaiter(c) \/ Spin(c)

Next ==
  \E c \in Core :
    \/ sched_init_secondary(c)
    \/ Acquire(c) \/ Proceed(c)
    \/ \E t \in Thread : \/ \E sp \in SchedParam : pthread_create(c, t, sp)
                         \/ pthread_join(c, t)
    \/ pthread_exit(c)

Spec == Init /\ [][Next]_vars
------------------------------------------------------------------------------
\* A thread that runs eventually yields; a core that needs nobody goes on; a
\* free lock that some core spins on is taken by one of them, not necessarily
\* the same one: the compare-and-swap of pthread_spin_lock promises no more.
Fairness ==
  /\ \A c \in Core : WF_vars(Proceed(c))
  /\ WF_vars(\E c \in Core : Acquire(c))
FairSpec == Spec /\ Fairness

\* The most a spinlock could promise: no core is passed over for ever.
StrongSpec == FairSpec /\ \A c \in Core : SF_vars(Acquire(c))
------------------------------------------------------------------------------
\* Types: in particular a priority always indexes the run queues.
TypeOK ==
  /\ rq \in [nxt : [Task -> Link], prv : [Task -> Link],
             head : [Prio -> Link], tail : [Prio -> Link], active : SUBSET Prio]
  /\ state \in [Task -> State]
  /\ prio \in [Task -> Prio]
  /\ joinq \in [Task -> Link]
  /\ ctx \in [Task -> [kind : {"user", "exit", "fork", "join"}, t : Link]]
  /\ mem \in [Task -> {"none", "live", "freed"}]
  /\ task \in [Core -> Task]
  /\ task_to_free \in [Core -> Link]
  /\ stack \in [Core -> Task]
  /\ pc \in [Core -> [at : {"off", "run", "lock", "switch", "unlock", "fork", "exited",
                            "spin", "create", "wake", "poll"},
                      flow : [kind : {"user", "exit", "fork", "join"}, t : Link]]]
  /\ sched_lock \in Core \cup {NULL}

\* Threads that are being created belong to their creator only.
Newborn(t) == \E c \in Core : At(c, "create") /\ pc[c].flow.t = t

\* The tasks that belong in the queue of priority p.
Queued(p) ==
  {t \in Task : /\ mem[t] = "live" /\ state[t] = "READY"
                /\ prio[t] = p /\ p # IDLE /\ ~Newborn(t)}

\* Whenever the pthread_exit wake-up loop is not running, each run queue is a
\* proper doubly linked list of exactly the ready threads of its priority: it
\* loses none and repeats none, next and prev agree, the ends are marked, and
\* the bitmap tells which queues are not empty.  (Numbering the threads from
\* the head is what makes the list acyclic and complete.)
RunQueuesSound ==
  (\A c \in Core : ~At(c, "wake")) =>
  \A p \in Prio :
    LET Q == Queued(p) IN
    /\ p \in rq.active <=> Q # {}
    /\ Q = {} => rq.head[p] = NULL /\ rq.tail[p] = NULL
    /\ Q # {} =>
         \E pos \in [Q -> 1 .. Cardinality(Q)] :
           /\ \A t, u \in Q : pos[t] = pos[u] => t = u
           /\ rq.head[p] \in Q /\ rq.tail[p] \in Q
           /\ pos[rq.head[p]] = 1 /\ rq.prv[rq.head[p]] = NULL
           /\ pos[rq.tail[p]] = Cardinality(Q) /\ rq.nxt[rq.tail[p]] = NULL
           /\ \A t, u \in Q : pos[u] = pos[t] + 1 => rq.nxt[t] = u /\ rq.prv[u] = t

\* No two cores ever execute on the same stack or have the same current
\* thread: sched_yield keeps the lock until cpu_switch_to has saved the
\* context of a thread that is already in a run queue again.
OneCorePerThread ==
  \A c, d \in Core : c # d => stack[c] # stack[d] /\ task[c] # task[d]

\* sched_lock is held exactly while some core is between picking a thread and
\* the unlock in the thread it switched to (or in the wake-up loop): the
\* thread that is entered, new or old, releases what the other one took.
LockHandedOver ==
  \A c \in Core : sched_lock = c <=> pc[c].at \in {"switch", "unlock", "fork", "wake"}

\* A task is freed once, by the core it exited on.
FreedOnce ==
  \A c \in Core : LET t == task_to_free[c] IN
    t # NULL => /\ mem[t] = "live"
                /\ \A d \in Core : task_to_free[d] = t => d = c

\* A ready thread runs, unless a thread of higher priority exists: FIFO order
\* within a priority, however threads are created, yield and exit on all
\* cores, and although a core that exits with nothing ready is lost.
ReadyRuns ==
  \A t \in Task :
    (t \in Queued(prio[t])) ~>
      (state[t] = "RUNNING" \/ \E u \in Task : mem[u] = "live" /\ prio[u] > prio[t])

\* The stack and the task structure of the thread that a core is executing
\* have not been freed (main runs on the boot stack, which nobody frees).
StackAllocated == \A c \in Core : stack[c] \in Thread => mem[stack[c]] # "freed"

\* Thread j is inside pthread_join(t), running or switched out.
Joining(j, t) ==
  IF \E c \in Core : stack[c] = j
  THEN \E c \in Core : stack[c] = j /\ pc[c].flow = Flow("join", t)
  ELSE ctx[j] = Flow("join", t)

\* A thread that is in pthread_join when its target exits gets out of it.
JoinReturns ==
  \A t, j \in Task :
    (state[t] = "EXITED" /\ Joining(j, t)) ~> ~Joining(j, t)
==============================================================================
