----------------------------- MODULE SchedProofs -----------------------------
(***************************************************************************)
(* The scheduler of src/src/pthread.c, for any number of cores, threads    *)
(* and priorities: the run queues never lose, repeat or mislink a thread,  *)
(* no two cores execute the same thread, sched_lock is released by the     *)
(* thread that a core switches to, and no task is freed twice.             *)
(*                                                                         *)
(* The argument turns on the wake-up loop of pthread_exit.  A core that    *)
(* enters it breaks the run queues, but it also keeps sched_lock for ever, *)
(* so no other core looks at the queues again: what the queues promise is  *)
(* kept under NoWake, and every step that takes the lock implies NoWake.   *)
(***************************************************************************)
EXTENDS Sched, FiniteSetTheorems, WellFoundedInduction, TLAPS

\* No core is in the wake-up loop of pthread_exit.  A core that is never
\* leaves it and never gives the lock back.
NoWake == \A c \in Core : ~At(c, "wake")

\* A core executes its current task, except between choosing the next one and
\* switching to it.
StackSound ==
  \A c \in Core : IF At(c, "switch") THEN stack[c] # task[c] ELSE stack[c] = task[c]

\* What a core does next fits where it is.
FlowSound ==
  /\ \A c \in Core :
       /\ pc[c].at \in {"lock", "switch", "unlock"} => pc[c].flow.kind # "fork"
       /\ At(c, "poll") => pc[c].flow.kind = "join"
       /\ At(c, "create") => pc[c].flow.t \in Thread
       /\ At(c, "wake") => joinq[task[c]] # NULL
       /\ pc[c].flow.kind = "join" =>
            pc[c].flow.t \in Thread /\ joinq[pc[c].flow.t] # NULL
  /\ \A t \in Task :
       ctx[t].kind = "join" => ctx[t].t \in Thread /\ joinq[ctx[t].t] # NULL

\* A core frees nothing but its own task, between the exit and the yield.
FreeSound ==
  \A c \in Core :
    task_to_free[c] # NULL =>
      /\ task_to_free[c] = task[c]
      /\ pc[c].at \in {"exited", "wake"}
      /\ mem[task[c]] = "live"

\* The states of the tasks that cores have and have left.
StatesSound ==
  /\ \A c \in Core :
       /\ state[task[c]] # "READY"
       /\ pc[c].at \in {"run", "create", "switch", "unlock", "fork"} =>
            state[task[c]] = "RUNNING"
       /\ At(c, "exited") \/ (At(c, "lock") /\ pc[c].flow.kind = "exit") =>
            state[task[c]] = "EXITED"
       /\ At(c, "switch") /\ pc[c].flow.kind = "exit" => state[stack[c]] = "EXITED"
  /\ \A t \in Task :
       /\ state[t] = "EXITED" => joinq[t] = NULL
       /\ ctx[t].kind = "exit" => state[t] = "EXITED" /\ \A c \in Core : task[c] # t
       /\ state[t] = "RUNNING" => rq.nxt[t] = NULL

\* A core that is off has the task it will start with.
OffSound == \A c \in Core : At(c, "off") => c # Boot /\ task[c] = c

\* Only a startup task runs with priority IDLE, and it never stops running.
IdleSound ==
  /\ \A c \in Core : prio[task[c]] = IDLE => task[c] \in Core \ {Boot}
  /\ \A t \in Core \ {Boot} : prio[t] = IDLE /\ state[t] = "RUNNING"

\* The task that a core executes is allocated unless it has exited.
MemSound ==
  \A c \in Core :
    /\ task[c] \in Thread => mem[task[c]] # "none"
    /\ stack[c] \in Thread => mem[stack[c]] # "none"
    /\ \/ pc[c].at \in {"run", "create", "poll", "exited", "switch", "fork"}
       \/ pc[c].at \in {"lock", "unlock"} /\ pc[c].flow.kind # "exit"
       => mem[task[c]] = "live"

\* A thread that is being created is complete but for the queue.
NewbornSound ==
  \A c \in Core : At(c, "create") =>
    LET t == pc[c].flow.t IN
    /\ mem[t] = "live" /\ state[t] = "READY" /\ prio[t] # IDLE
    /\ \A d \in Core : At(d, "create") /\ pc[d].flow.t = t => d = c

\* pos numbers the tasks Q of queue p from the head of the list to its tail.
Numbered(q, p, Q, pos) ==
  /\ \A t, u \in Q : pos[t] = pos[u] => t = u
  /\ \A i \in 1 .. Cardinality(Q) : \E t \in Q : pos[t] = i
  /\ q.head[p] \in Q /\ q.tail[p] \in Q
  /\ pos[q.head[p]] = 1 /\ q.prv[q.head[p]] = NULL
  /\ pos[q.tail[p]] = Cardinality(Q) /\ q.nxt[q.tail[p]] = NULL
  /\ \A t, u \in Q : pos[u] = pos[t] + 1 => q.nxt[t] = u /\ q.prv[u] = t

\* In queue p of the run queues q are exactly the tasks Q.
QueueIs(q, p, Q) ==
  /\ p \in q.active <=> Q # {}
  /\ Q = {} => q.head[p] = NULL /\ q.tail[p] = NULL
  /\ Q # {} => \E pos \in [Q -> 1 .. Cardinality(Q)] : Numbered(q, p, Q, pos)

\* The queues hold the sets S[p], and a task in no queue has no predecessor.
QueuesAre(q, S) ==
  /\ \A p \in Prio : QueueIs(q, p, S[p])
  /\ \A t \in Task : (\A p \in Prio : t \notin S[p]) => q.prv[t] = NULL

\* The tasks that are in a run queue.
InQueue(t) == mem[t] = "live" /\ state[t] = "READY" /\ prio[t] # IDLE /\ ~Newborn(t)
Sets == [p \in Prio |-> Queued(p)]

Quiet ==
  /\ StatesSound /\ OffSound /\ IdleSound /\ MemSound /\ NewbornSound
  /\ QueuesAre(rq, Sets)

SchedInv ==
  /\ TypeOK /\ LockHandedOver /\ OneCorePerThread
  /\ StackSound /\ FlowSound /\ FreeSound
  /\ NoWake => Quiet
------------------------------------------------------------------------------
RunQueues == [nxt : [Task -> Link], prv : [Task -> Link],
              head : [Prio -> Link], tail : [Prio -> Link], active : SUBSET Prio]

\* NULL is not the address of a task.
LEMMA NullIsNoTask == NULL \notin Task
BY SchedAssumption DEF Task

\* What the fields are after t has been appended to queue p.
Appended(q, t, p, r) ==
  /\ r \in RunQueues
  /\ r.head = [q.head EXCEPT ![p] = IF q.head[p] = NULL THEN t ELSE q.head[p]]
  /\ r.tail = [q.tail EXCEPT ![p] = t]
  /\ r.active = q.active \cup {p}
  /\ \A u \in Task :
       r.nxt[u] = IF u = t THEN NULL
                  ELSE IF q.head[p] # NULL /\ u = q.tail[p] THEN t ELSE q.nxt[u]
  /\ \A u \in Task :
       r.prv[u] = IF u # t THEN q.prv[u]
                  ELSE IF q.head[p] = NULL THEN NULL ELSE q.tail[p]

\* What they are after t has been unlinked.
Unlinked(q, t, p, r) ==
  /\ r \in RunQueues
  /\ r.head = [q.head EXCEPT ![p] = IF q.prv[t] = NULL /\ q.head[p] = t
                                    THEN q.nxt[t] ELSE q.head[p]]
  /\ r.tail = [q.tail EXCEPT ![p] = IF q.nxt[t] = NULL /\ q.tail[p] = t
                                    THEN q.prv[t] ELSE q.tail[p]]
  /\ r.active = IF r.head[p] = NULL THEN q.active \ {p} ELSE q.active
  /\ \A u \in Task :
       r.nxt[u] = IF u = t THEN NULL ELSE IF u = q.prv[t] THEN q.nxt[t] ELSE q.nxt[u]
  /\ \A u \in Task :
       r.prv[u] = IF u = t THEN NULL ELSE IF u = q.nxt[t] THEN q.prv[t] ELSE q.prv[u]

\* sched_enqueue_task, field by field.
LEMMA EnqueueFields ==
  ASSUME NEW q \in RunQueues, NEW t \in Task, NEW p \in Prio,
         q.head[p] # NULL => q.tail[p] \in Task \ {t}
  PROVE  Appended(q, t, p, sched_enqueue_task(q, t, p))
<1>1. t \in Link /\ NULL \in Link
  BY DEF Link
<1>2. CASE q.head[p] = NULL
  BY <1>1, <1>2 DEF sched_enqueue_task, RunQueues, Appended
<1>3. CASE q.head[p] # NULL
  BY <1>1, <1>3 DEF sched_enqueue_task, RunQueues, Link, Appended
<1> QED
  BY <1>2, <1>3

\* sched_dequeue_task, field by field.
LEMMA DequeueFields ==
  ASSUME NEW q \in RunQueues, NEW t \in Task, NEW p \in Prio
  PROVE  Unlinked(q, t, p, sched_dequeue_task(q, t, p))
<1> DEFINE n == q.nxt[t]
           v == q.prv[t]
           hd == IF v = NULL /\ q.head[p] = t THEN [q.head EXCEPT ![p] = n] ELSE q.head
           tl == IF n = NULL /\ q.tail[p] = t THEN [q.tail EXCEPT ![p] = v] ELSE q.tail
<1>1. n \in Link /\ v \in Link /\ NULL \in Link
  BY DEF Link, RunQueues
<1>2. /\ hd = [q.head EXCEPT ![p] = IF v = NULL /\ q.head[p] = t THEN n ELSE q.head[p]]
      /\ hd \in [Prio -> Link]
  BY <1>1 DEF RunQueues
<1>3. /\ tl = [q.tail EXCEPT ![p] = IF n = NULL /\ q.tail[p] = t THEN v ELSE q.tail[p]]
      /\ tl \in [Prio -> Link]
  BY <1>1 DEF RunQueues
<1>4. sched_dequeue_task(q, t, p) =
        [nxt    |-> [u \in Task |-> IF u = t THEN NULL ELSE IF u = v THEN n ELSE q.nxt[u]],
         prv    |-> [u \in Task |-> IF u = t THEN NULL ELSE IF u = n THEN v ELSE q.prv[u]],
         head   |-> hd,
         tail   |-> tl,
         active |-> IF hd[p] = NULL THEN q.active \ {p} ELSE q.active]
  BY DEF sched_dequeue_task
<1> HIDE DEF hd, tl
<1> QED
  BY <1>1, <1>2, <1>3, <1>4 DEF RunQueues, Unlinked

\* Appending t to the queue that holds Q.
LEMMA EnqueueOwn ==
  ASSUME NEW q \in RunQueues, NEW t \in Task, NEW p \in Prio,
         NEW Q, Q \subseteq Task, IsFiniteSet(Q), t \notin Q, QueueIs(q, p, Q)
  PROVE  QueueIs(sched_enqueue_task(q, t, p), p, Q \cup {t})
<1> DEFINE r == sched_enqueue_task(q, t, p)
           last == q.tail[p]
           n == Cardinality(Q)
<1>1. n \in Nat /\ Cardinality(Q \cup {t}) = n + 1 /\ (n = 0 <=> Q = {})
  BY FS_CardinalityType, FS_AddElement, FS_EmptySet
<1>2. q.head[p] # NULL => q.tail[p] \in Task \ {t}
  BY DEF QueueIs, Numbered
<1>3. q.head[p] = NULL <=> Q = {}
  BY NullIsNoTask DEF QueueIs, Numbered
<1>appended. Appended(q, t, p, r)
  BY <1>2, EnqueueFields
<1> HIDE DEF r
<1>fields. q.head \in [Prio -> Link] /\ q.tail \in [Prio -> Link]
  BY DEF RunQueues
<1>4. /\ r.head[p] = (IF Q = {} THEN t ELSE q.head[p])
      /\ r.tail[p] = t
      /\ p \in r.active
      /\ \A u \in Task :
           r.nxt[u] = IF u = t THEN NULL
                      ELSE IF Q # {} /\ u = last THEN t ELSE q.nxt[u]
      /\ \A u \in Task :
           r.prv[u] = IF u # t THEN q.prv[u]
                      ELSE IF Q = {} THEN NULL ELSE last
  BY <1>3, <1>appended, <1>fields DEF Appended
<1>5. CASE Q = {}
  <2> DEFINE npos == [u \in {t} |-> 1]
  <2>1. Q \cup {t} = {t} /\ n = 0
    BY <1>1, <1>5
  <2>2. /\ npos \in [{t} -> 1 .. 1] /\ npos[t] = 1
        /\ \A i \in 1 .. 1 : \E u \in {t} : npos[u] = i
        /\ \A u, w \in {t} : npos[u] = npos[w] + 1 => FALSE
    OBVIOUS
  <2>3. /\ r.head[p] = t /\ r.tail[p] = t /\ r.prv[t] = NULL /\ r.nxt[t] = NULL
    BY <1>4, <1>5
  <2> HIDE DEF npos
  <2>4. Cardinality({t}) = 1
    BY <1>1, <2>1
  <2>5. Numbered(r, p, {t}, npos)
    BY <2>2, <2>3, <2>4 DEF Numbered
  <2> QED
    BY <1>4, <2>1, <2>2, <2>4, <2>5 DEF QueueIs, r
<1>6. CASE Q # {}
  <2>1. PICK pos \in [Q -> 1 .. n] :
         /\ \A u, w \in Q : pos[u] = pos[w] => u = w
         /\ \A i \in 1 .. n : \E u \in Q : pos[u] = i
         /\ q.head[p] \in Q /\ last \in Q
         /\ pos[q.head[p]] = 1 /\ q.prv[q.head[p]] = NULL
         /\ pos[last] = n /\ q.nxt[last] = NULL
         /\ \A u, w \in Q : pos[w] = pos[u] + 1 => q.nxt[u] = w /\ q.prv[w] = u
    BY <1>6 DEF QueueIs, Numbered
  <2> DEFINE npos == [u \in Q \cup {t} |-> IF u = t THEN n + 1 ELSE pos[u]]
  <2>2. /\ npos \in [Q \cup {t} -> 1 .. n + 1]
        /\ npos[t] = n + 1
        /\ \A u \in Q : npos[u] = pos[u] /\ pos[u] \in 1 .. n
    BY <1>1, <2>1
  <2> HIDE DEF npos
  <2>3. \A u, w \in Q \cup {t} : npos[u] = npos[w] => u = w
    BY <1>1, <2>1, <2>2
  <2>4. \A i \in 1 .. n + 1 : \E u \in Q \cup {t} : npos[u] = i
    <3> TAKE i \in 1 .. n + 1
    <3>1. CASE i = n + 1
      BY <3>1, <2>2
    <3>2. CASE i # n + 1
      <4>1. i \in 1 .. n
        BY <3>2, <1>1
      <4> QED
        BY <4>1, <2>1, <2>2
    <3> QED
      BY <3>1, <3>2
  <2>5. ASSUME NEW u \in Q \cup {t}, NEW w \in Q \cup {t}, npos[w] = npos[u] + 1
        PROVE  r.nxt[u] = w /\ r.prv[w] = u
    <3>1. u \in Q /\ pos[u] \in 1 .. n
      BY <2>2, <2>5, <1>1
    <3>2. CASE w = t
      <4>1. pos[u] = n
        BY <3>1, <3>2, <2>5, <2>2, <1>1
      <4>2. u = last
        BY <4>1, <3>1, <2>1
      <4> QED
        BY <3>2, <4>2, <3>1, <1>4, <1>6
    <3>3. CASE w # t
      <4>1. w \in Q /\ pos[w] = pos[u] + 1 /\ pos[w] \in 1 .. n
        BY <3>1, <3>3, <2>5, <2>2, <1>1
      <4>2. u # last
        BY <4>1, <3>1, <2>1, <1>1
      <4> QED
        BY <4>1, <4>2, <3>1, <3>3, <2>1, <1>4
    <3> QED
      BY <3>2, <3>3
  <2>6. /\ r.head[p] \in Q \cup {t} /\ npos[r.head[p]] = 1 /\ r.prv[r.head[p]] = NULL
        /\ r.tail[p] \in Q \cup {t} /\ npos[r.tail[p]] = n + 1 /\ r.nxt[r.tail[p]] = NULL
    BY <1>4, <1>6, <2>1, <2>2
  <2>7. Numbered(r, p, Q \cup {t}, npos)
    BY <1>1, <2>3, <2>4, <2>5, <2>6 DEF Numbered
  <2> QED
    BY <1>1, <1>4, <2>2, <2>7 DEF QueueIs, r
<1> QED
  BY <1>5, <1>6

\* A queue does not notice changes to links of tasks that are not in it.
LEMMA QueueFrame ==
  ASSUME NEW q, NEW r, NEW p, NEW Q, QueueIs(q, p, Q),
         r.head[p] = q.head[p], r.tail[p] = q.tail[p],
         p \in r.active <=> p \in q.active,
         \A u \in Q : r.nxt[u] = q.nxt[u] /\ r.prv[u] = q.prv[u]
  PROVE  QueueIs(r, p, Q)
BY DEF QueueIs, Numbered

\* Taking the first task out of the queue that holds Q.
LEMMA DequeueOwn ==
  ASSUME NEW q \in RunQueues, NEW p \in Prio,
         NEW Q, Q \subseteq Task, IsFiniteSet(Q), Q # {}, QueueIs(q, p, Q)
  PROVE  LET h == q.head[p] IN
         /\ h \in Q
         /\ q.prv[h] = NULL
         /\ q.nxt[h] # NULL => q.nxt[h] \in Q \ {h}
         /\ QueueIs(sched_dequeue_task(q, h, p), p, Q \ {h})
<1> DEFINE h == q.head[p]
           r == sched_dequeue_task(q, h, p)
           n == Cardinality(Q)
           x == q.nxt[h]
<1>1. PICK pos \in [Q -> 1 .. n] :
       /\ \A u, w \in Q : pos[u] = pos[w] => u = w
       /\ \A i \in 1 .. n : \E u \in Q : pos[u] = i
       /\ h \in Q /\ q.tail[p] \in Q
       /\ pos[h] = 1 /\ q.prv[h] = NULL
       /\ pos[q.tail[p]] = n /\ q.nxt[q.tail[p]] = NULL
       /\ \A u, w \in Q : pos[w] = pos[u] + 1 => q.nxt[u] = w /\ q.prv[w] = u
  BY DEF QueueIs, Numbered
<1>2. n \in Nat /\ n # 0 /\ IsFiniteSet(Q \ {h}) /\ Cardinality(Q \ {h}) = n - 1
  <2>1. n \in Nat /\ (n = 0 <=> Q = {})
    BY FS_CardinalityType, FS_EmptySet
  <2>2. h \in Q
    BY <1>1
  <2> HIDE DEF h
  <2>3. IsFiniteSet(Q \ {h}) /\ Cardinality(Q \ {h}) = n - 1
    BY <2>2, FS_RemoveElement
  <2> QED
    BY <2>1, <2>3
<1>3. h \in Task /\ q.tail[p] \in Task /\ NULL \notin Task /\ p \in q.active
  BY <1>1, NullIsNoTask DEF QueueIs
<1>unlinked. Unlinked(q, h, p, r)
  BY <1>3, DequeueFields
<1> HIDE DEF r
<1>fields. q.head \in [Prio -> Link] /\ q.tail \in [Prio -> Link]
  BY DEF RunQueues
<1>4. /\ r.head[p] = x
      /\ r.tail[p] = (IF x = NULL /\ q.tail[p] = h THEN NULL ELSE q.tail[p])
      /\ p \in r.active <=> x # NULL
      /\ \A u \in Task \ {h} : r.nxt[u] = q.nxt[u]
      /\ \A u \in Task \ {h} : r.prv[u] = IF u = x THEN NULL ELSE q.prv[u]
  BY <1>1, <1>3, <1>unlinked, <1>fields DEF Unlinked
<1>5. CASE n = 1
  <2>1. q.tail[p] = h /\ x = NULL
    BY <1>1, <1>5
  <2>2. Q \ {h} = {}
    BY <1>2, <1>5, FS_EmptySet
  <2>3. QueueIs(r, p, Q \ {h})
    BY <1>4, <2>1, <2>2 DEF QueueIs
  <2> QED
    BY <1>1, <2>1, <2>3 DEF r
<1>6. CASE n # 1
  <2>1. PICK s \in Q : pos[s] = 2
    BY <1>1, <1>2, <1>6
  <2>2. x = s /\ s # h /\ q.tail[p] # h /\ x # NULL
    BY <1>1, <1>2, <1>3, <1>6, <2>1
  <2> DEFINE npos == [u \in Q \ {h} |-> pos[u] - 1]
  <2>3. /\ \A u \in Q \ {h} : pos[u] \in 2 .. n
    BY <1>1, <1>2
  <2>4. /\ npos \in [Q \ {h} -> 1 .. n - 1]
        /\ \A u \in Q \ {h} : npos[u] = pos[u] - 1
    BY <2>3, <1>2
  <2> HIDE DEF npos
  <2>5. \A u, w \in Q \ {h} : npos[u] = npos[w] => u = w
    BY <1>1, <1>2, <2>3, <2>4
  <2>6. \A i \in 1 .. n - 1 : \E u \in Q \ {h} : npos[u] = i
    <3> TAKE i \in 1 .. n - 1
    <3>1. i + 1 \in 1 .. n /\ i + 1 # 1 /\ (i + 1) - 1 = i
      BY <1>2
    <3>2. PICK u \in Q : pos[u] = i + 1
      BY <3>1, <1>1
    <3> QED
      BY <3>1, <3>2, <2>4, <1>1
  <2>7. ASSUME NEW u \in Q \ {h}, NEW w \in Q \ {h}, npos[w] = npos[u] + 1
        PROVE  r.nxt[u] = w /\ r.prv[w] = u
    <3>1. pos[w] = pos[u] + 1 /\ pos[w] # 2
      BY <2>3, <2>4, <2>7
    <3>2. w # x
      BY <3>1, <2>1, <2>2
    <3> QED
      BY <3>1, <3>2, <1>1, <1>4
  <2>8. /\ r.head[p] \in Q \ {h} /\ npos[r.head[p]] = 1 /\ r.prv[r.head[p]] = NULL
        /\ r.tail[p] \in Q \ {h} /\ npos[r.tail[p]] = n - 1 /\ r.nxt[r.tail[p]] = NULL
    BY <1>1, <1>4, <2>1, <2>2, <2>4
  <2>9. Q \ {h} # {} /\ p \in r.active
    BY <2>1, <2>2, <1>4
  <2>10. QueueIs(r, p, Q \ {h})
    <3>1. Numbered(r, p, Q \ {h}, npos)
      BY <1>2, <2>5, <2>6, <2>7, <2>8 DEF Numbered
    <3> QED
      BY <1>2, <2>4, <2>9, <3>1 DEF QueueIs
  <2> QED
    BY <1>1, <2>2, <2>10 DEF r
<1> QED
  BY <1>5, <1>6

\* A set of tasks for each queue, no task in two of them.
Partition(S) ==
  /\ S \in [Prio -> SUBSET Task]
  /\ \A p, r \in Prio : p # r => S[p] \cap S[r] = {}

\* Every queue is finite.
LEMMA TasksAreFinite == \A Q \in SUBSET Task : IsFiniteSet(Q)
BY SchedAssumption, FS_Union, FS_Subset DEF Task

\* sched_enqueue_task appends to its own queue and leaves the others alone.
LEMMA EnqueueQueues ==
  ASSUME NEW q \in RunQueues, NEW t \in Task, NEW p \in Prio, NEW S,
         Partition(S), QueuesAre(q, S), \A r \in Prio : t \notin S[r]
  PROVE  LET e == sched_enqueue_task(q, t, p) IN
         /\ e \in RunQueues
         /\ e.active # {}
         /\ QueuesAre(e, [S EXCEPT ![p] = @ \cup {t}])
         /\ e.nxt[t] = NULL
         /\ \A u \in Task : u # t /\ (\A r \in Prio : u \notin S[r]) => e.nxt[u] = q.nxt[u]
<1> DEFINE e == sched_enqueue_task(q, t, p)
           S2 == [S EXCEPT ![p] = @ \cup {t}]
<1>1. /\ \A r \in Prio : QueueIs(q, r, S[r]) /\ S[r] \subseteq Task /\ IsFiniteSet(S[r])
      /\ \A r \in Prio : t \notin S[r]
      /\ \A r \in Prio : r # p => S[r] \cap S[p] = {}
  BY TasksAreFinite DEF Partition, QueuesAre
<1>2. q.head[p] # NULL => q.tail[p] \in S[p] /\ q.tail[p] \in Task \ {t}
  BY <1>1 DEF QueueIs, Numbered
<1>3. Appended(q, t, p, e)
  BY <1>2, EnqueueFields
<1>4. QueueIs(e, p, S[p] \cup {t})
  BY <1>1, EnqueueOwn
<1> HIDE DEF e
<1>5. /\ q.head \in [Prio -> Link] /\ q.tail \in [Prio -> Link]
      /\ S2[p] = S[p] \cup {t} /\ \A r \in Prio : r # p => S2[r] = S[r]
  BY DEF RunQueues, Partition
<1>6. ASSUME NEW r \in Prio, r # p
      PROVE  QueueIs(e, r, S[r])
  <2>1. e.head[r] = q.head[r] /\ e.tail[r] = q.tail[r] /\ (r \in e.active <=> r \in q.active)
    BY <1>3, <1>5, <1>6 DEF Appended
  <2>2. \A u \in S[r] : u \in Task /\ u # t /\ u \notin S[p]
    BY <1>1, <1>6
  <2>3. \A u \in S[r] : e.nxt[u] = q.nxt[u] /\ e.prv[u] = q.prv[u]
    BY <1>2, <1>3, <2>2 DEF Appended
  <2> QED
    BY <1>1, <2>1, <2>3, QueueFrame
<1>7. ASSUME NEW u \in Task, \A r \in Prio : u \notin S2[r]
      PROVE  e.prv[u] = NULL
  <2>1. u # t /\ \A r \in Prio : u \notin S[r]
    BY <1>5, <1>7
  <2> QED
    BY <1>3, <2>1 DEF Appended, QueuesAre
<1>8. QueuesAre(e, S2)
  BY <1>4, <1>5, <1>6, <1>7 DEF QueuesAre
<1>9. ASSUME NEW u \in Task, u # t, \A r \in Prio : u \notin S[r]
      PROVE  e.nxt[u] = q.nxt[u]
  BY <1>2, <1>3, <1>9 DEF Appended
<1> QED
  BY <1>3, <1>8, <1>9 DEF Appended, e

\* sched_dequeue_task of the first task of a queue takes out just that one.
LEMMA DequeueFirst ==
  ASSUME NEW q \in RunQueues, NEW p \in Prio, NEW S,
         Partition(S), QueuesAre(q, S), S[p] # {}
  PROVE  LET h == q.head[p]
             e == sched_dequeue_task(q, h, p)
         IN  /\ h \in S[p]
             /\ e \in RunQueues
             /\ QueuesAre(e, [S EXCEPT ![p] = @ \ {h}])
             /\ e.nxt[h] = NULL
             /\ \A u \in Task : u # h => e.nxt[u] = q.nxt[u]
<1> DEFINE h == q.head[p]
           e == sched_dequeue_task(q, h, p)
           S2 == [S EXCEPT ![p] = @ \ {h}]
           x == q.nxt[h]
<1>1. /\ \A r \in Prio : QueueIs(q, r, S[r]) /\ S[r] \subseteq Task /\ IsFiniteSet(S[r])
      /\ \A r \in Prio : r # p => S[r] \cap S[p] = {}
  BY TasksAreFinite DEF Partition, QueuesAre
<1>2. /\ h \in S[p] /\ q.prv[h] = NULL /\ (x # NULL => x \in S[p] \ {h})
      /\ QueueIs(e, p, S[p] \ {h})
  BY <1>1, DequeueOwn
<1>3. h \in Task /\ Unlinked(q, h, p, e)
  BY <1>1, <1>2, DequeueFields
<1> HIDE DEF h, e
<1>4. NULL \notin Task
  BY NullIsNoTask
<1>5. /\ q.head \in [Prio -> Link] /\ q.tail \in [Prio -> Link]
      /\ S2[p] = S[p] \ {h} /\ \A r \in Prio : r # p => S2[r] = S[r]
  BY DEF RunQueues, Partition
<1>6. ASSUME NEW r \in Prio, r # p
      PROVE  QueueIs(e, r, S[r])
  <2>1. e.head[r] = q.head[r] /\ e.tail[r] = q.tail[r] /\ (r \in e.active <=> r \in q.active)
    BY <1>3, <1>5, <1>6 DEF Unlinked
  <2>2. \A u \in S[r] : u \in Task /\ u # h /\ u # x /\ u # NULL
    BY <1>1, <1>2, <1>4, <1>6
  <2>3. \A u \in S[r] : e.nxt[u] = q.nxt[u] /\ e.prv[u] = q.prv[u]
    BY <1>2, <1>3, <2>2 DEF Unlinked
  <2> QED
    BY <1>1, <2>1, <2>3, QueueFrame
<1>7. ASSUME NEW u \in Task, \A r \in Prio : u \notin S2[r]
      PROVE  e.prv[u] = NULL
  <2>1. u = h \/ \A r \in Prio : u \notin S[r]
    BY <1>5, <1>7
  <2>2. CASE u = h
    BY <1>3, <2>2 DEF Unlinked
  <2>3. CASE u # h
    <3>1. q.prv[u] = NULL
      BY <2>1, <2>3 DEF QueuesAre
    <3> QED
      BY <1>2, <1>3, <2>3, <3>1 DEF Unlinked
  <2> QED
    BY <2>2, <2>3
<1>8. QueuesAre(e, S2)
  BY <1>2, <1>5, <1>6, <1>7 DEF QueuesAre
<1>9. e \in RunQueues /\ e.nxt[h] = NULL /\ \A u \in Task : u # h => e.nxt[u] = q.nxt[u]
  BY <1>2, <1>3, <1>4 DEF Unlinked
<1> QED
  BY <1>2, <1>8, <1>9 DEF e, h

\* sched_dequeue_task of a task that is in no queue leaves them as they are,
\* provided that its next is NULL: a stale next would cut the list there.
LEMMA DequeueOther ==
  ASSUME NEW q \in RunQueues, NEW t \in Task, NEW p \in Prio, NEW S,
         Partition(S), QueuesAre(q, S), \A r \in Prio : t \notin S[r],
         q.nxt[t] = NULL \/ \A r \in Prio : S[r] = {}
  PROVE  LET e == sched_dequeue_task(q, t, p) IN
         /\ e \in RunQueues
         /\ QueuesAre(e, S)
         /\ e.nxt[t] = NULL
         /\ \A u \in Task : u # t => e.nxt[u] = q.nxt[u]
<1> DEFINE e == sched_dequeue_task(q, t, p)
<1>1. Unlinked(q, t, p, e)
  BY DequeueFields
<1> HIDE DEF e
<1>2. q.prv[t] = NULL /\ NULL \notin Task
  BY NullIsNoTask DEF QueuesAre
<1>3. /\ q.head \in [Prio -> Link] /\ q.tail \in [Prio -> Link]
      /\ \A r \in Prio : S[r] \subseteq Task /\ QueueIs(q, r, S[r])
  BY DEF RunQueues, QueuesAre, Partition
<1>4. q.head[p] # t /\ q.tail[p] # t /\ (q.head[p] = NULL => p \notin q.active)
  BY <1>2, <1>3 DEF QueueIs, Numbered
<1>5. e.head = q.head /\ e.tail = q.tail /\ e.active = q.active
  <2>1. e.head = [q.head EXCEPT ![p] = q.head[p]] /\ e.tail = [q.tail EXCEPT ![p] = q.tail[p]]
    BY <1>1, <1>4 DEF Unlinked
  <2>2. e.head = q.head /\ e.tail = q.tail
    BY <1>3, <2>1
  <2>3. q.head[p] = NULL => q.active \ {p} = q.active
    BY <1>4
  <2>4. e.active = IF q.head[p] = NULL THEN q.active \ {p} ELSE q.active
    BY <1>1, <2>2 DEF Unlinked
  <2> QED
    BY <2>2, <2>3, <2>4
<1>6. ASSUME NEW r \in Prio
      PROVE  QueueIs(e, r, S[r])
  <2>1. \A u \in S[r] : u \in Task /\ u # t /\ u # NULL /\ u # q.nxt[t]
    BY <1>2, <1>3
  <2>2. \A u \in S[r] : e.nxt[u] = q.nxt[u] /\ e.prv[u] = q.prv[u]
    BY <1>1, <1>2, <2>1 DEF Unlinked
  <2> QED
    BY <1>3, <1>5, <2>2, QueueFrame
<1>7. ASSUME NEW u \in Task, \A r \in Prio : u \notin S[r]
      PROVE  e.prv[u] = NULL
  <2>1. q.prv[u] = NULL
    BY <1>7 DEF QueuesAre
  <2> QED
    BY <1>1, <1>2, <2>1 DEF Unlinked
<1>8. QueuesAre(e, S)
  BY <1>6, <1>7 DEF QueuesAre
<1>9. e \in RunQueues /\ e.nxt[t] = NULL /\ \A u \in Task : u # t => e.nxt[u] = q.nxt[u]
  BY <1>1, <1>2 DEF Unlinked
<1> QED
  BY <1>8, <1>9 DEF e

\* A set of numbers has a smallest one.
LEMMA NatMin ==
  ASSUME NEW T, T \subseteq Nat, T # {}
  PROVE  \E x \in T : \A y \in T : x <= y
<1>1. \E x \in T : \A y \in T : ~ (<<y, x>> \in OpToRel(<, Nat))
  BY NatLessThanWellFounded, WFMin, Zenon
<1>2. PICK x \in T : \A y \in T : ~ (<<y, x>> \in OpToRel(<, Nat))
  BY <1>1
<1>3. ASSUME NEW y \in T PROVE x <= y
  <2>1. x \in Nat /\ y \in Nat
    OBVIOUS
  <2>2. ~ (y < x)
    BY <1>2, <2>1 DEF OpToRel
  <2> QED BY <2>1, <2>2
<1> QED BY <1>3

\* A non-empty bitmap has a highest bit.
LEMMA NatMax ==
  ASSUME NEW N \in Nat, NEW A, A \subseteq 0 .. N - 1, A # {}
  PROVE  \E p \in A : \A r \in A : r <= p
<1> DEFINE T == {n \in Nat : N - n - 1 \in A}
<1>1. T \subseteq Nat /\ T # {}
  <2>1. PICK a \in A : TRUE OBVIOUS
  <2>2. a \in Nat /\ a <= N - 1 /\ N - a - 1 \in Nat /\ N - (N - a - 1) - 1 = a
    OBVIOUS
  <2> QED BY <2>1, <2>2
<1>2. PICK x \in T : \A y \in T : x <= y
  BY <1>1, NatMin
<1>3. ASSUME NEW r \in A PROVE r <= N - x - 1
  <2>2. r \in Nat /\ r <= N - 1 /\ N - r - 1 \in Nat /\ N - (N - r - 1) - 1 = r
    OBVIOUS
  <2>3. x <= N - r - 1
    BY <1>2, <2>2
  <2> QED BY <2>2, <2>3
<1> QED BY <1>2, <1>3

\* The first task of the highest queue, or the core's own task.
LEMMA PickedIs ==
  ASSUME NEW q \in RunQueues, NEW S, Partition(S), QueuesAre(q, S), NEW c
  PROVE  /\ q.active = {} => Picked(q, c) = task[c] /\ \A p \in Prio : S[p] = {}
         /\ q.active # {} =>
              \E p \in Prio : S[p] # {} /\ Picked(q, c) = q.head[p]
<1>1. \A p \in Prio : QueueIs(q, p, S[p]) /\ S[p] \subseteq Task
  BY DEF QueuesAre, Partition
<1>2. CASE q.active = {}
  BY <1>1, <1>2 DEF Picked, QueueIs
<1>3. CASE q.active # {}
  <2> DEFINE top == CHOOSE p \in q.active : \A r \in q.active : r <= p
  <2>1. q.active \subseteq 0 .. COUNT - 1 /\ COUNT \in Nat
    BY SchedAssumption DEF RunQueues, Prio
  <2>2. \E p \in q.active : \A r \in q.active : r <= p
    BY <1>3, <2>1, NatMax
  <2>3. top \in q.active
    BY <2>2, Zenon
  <2> HIDE DEF top
  <2>4. top \in Prio /\ S[top] # {} /\ q.head[top] # NULL
    BY <1>1, <2>1, <2>3, NullIsNoTask DEF QueueIs, Numbered, Prio
  <2>5. Picked(q, c) = IF q.active = {} \/ q.head[top] = NULL THEN task[c] ELSE q.head[top]
    BY Zenon DEF Picked, top
  <2> QED
    BY <1>3, <2>4, <2>5
<1> QED
  BY <1>2, <1>3
------------------------------------------------------------------------------
Kind == {"user", "exit", "fork", "join"}
Label == {"off", "run", "lock", "switch", "unlock", "fork", "exited",
          "spin", "create", "wake", "poll"}
FlowSet == [kind : Kind, t : Link]

\* How a step of core c moves the cores.
LEMMA GoMoves ==
  ASSUME TypeOK, NEW c \in Core, NEW label \in Label, NEW flow \in FlowSet,
         Go(c, label, flow)
  PROVE  /\ pc' \in [Core -> [at : Label, flow : FlowSet]]
         /\ pc'[c].at = label /\ pc'[c].flow = flow
         /\ \A d \in Core : d # c => pc'[d] = pc[d]
         /\ \A d \in Core, l \in Label : At(d, l)' <=> IF d = c THEN l = label ELSE At(d, l)
BY DEF TypeOK, Go, At, FlowSet, Kind, Label

\* The flows that the code passes to Go.
LEMMA FlowTypes ==
  /\ User \in FlowSet /\ Exiting \in FlowSet /\ Fork \in FlowSet
  /\ \A t \in Link : Flow("user", t) \in FlowSet /\ Flow("join", t) \in FlowSet
  /\ User.kind = "user" /\ Exiting.kind = "exit" /\ Fork.kind = "fork"
  /\ \A t \in Link : /\ Flow("user", t).kind = "user" /\ Flow("user", t).t = t
                     /\ Flow("join", t).kind = "join" /\ Flow("join", t).t = t
BY DEF User, Exiting, Fork, Flow, FlowSet, Kind, Link

\* The sets of queued tasks, task by task, in this state and the next.
LEMMA SetsAre ==
  ASSUME TypeOK
  PROVE  /\ Partition(Sets)
         /\ \A p \in Prio, t \in Task : t \in Sets[p] <=> InQueue(t) /\ prio[t] = p
BY DEF Sets, Queued, InQueue, Partition

\* The same in the next state, when its tasks are known one by one.
LEMMA SetsBecome ==
  ASSUME NEW T \in [Prio -> SUBSET Task],
         \A p \in Prio, t \in Task : t \in T[p] <=> InQueue(t)' /\ prio'[t] = p
  PROVE  Sets' = T
<1>1. \A p \in Prio : Queued(p)' = T[p]
  BY DEF Queued, InQueue
<1>2. Sets' = [p \in Prio |-> Queued(p)']
  BY DEF Sets
<1> QED
  BY <1>1, <1>2

\* A step after which the same tasks are queued at the same priority.
LEMMA SetsKept ==
  ASSUME TypeOK, \A t \in Task : InQueue(t)' <=> InQueue(t),
         \A t \in Task : InQueue(t) => prio'[t] = prio[t],
         QueuesAre(rq, Sets), rq' = rq
  PROVE  QueuesAre(rq, Sets)'
<1>1. /\ Sets \in [Prio -> SUBSET Task]
      /\ \A p \in Prio, t \in Task : t \in Sets[p] <=> InQueue(t) /\ prio[t] = p
  BY SetsAre DEF Partition
<1>2. \A p \in Prio, t \in Task : t \in Sets[p] <=> InQueue(t)' /\ prio'[t] = p
  BY <1>1
<1>3. Sets' = Sets
  BY <1>1, <1>2, SetsBecome
<1> HIDE DEF Sets
<1> QED
  BY <1>3 DEF QueuesAre

\* After sched_init.
LEMMA InitInv == Init => SchedInv
<1> SUFFICES ASSUME Init PROVE SchedInv
  OBVIOUS
<1>1. Boot \in Core /\ NORMAL \in Prio /\ IDLE \in Prio /\ NORMAL # IDLE /\ NULL \notin Task
  BY SchedAssumption, NullIsNoTask DEF Prio, IDLE
<1>2. TypeOK
  <2>1. User \in [kind : {"user", "exit", "fork", "join"}, t : Link]
    BY DEF User, Flow, Link
  <2>2. pc \in [Core -> [at : {"off", "run", "lock", "switch", "unlock", "fork", "exited",
                            "spin", "create", "wake", "poll"},
                      flow : [kind : {"user", "exit", "fork", "join"}, t : Link]]]
    BY <2>1 DEF Init
  <2>3. ctx \in [Task -> [kind : {"user", "exit", "fork", "join"}, t : Link]]
    BY <2>1 DEF Init
  <2> QED
    BY <1>1, <2>2, <2>3 DEF Init, TypeOK, State, Link, Task
<1>3. \A c \in Core : /\ pc[c].at \in {"run", "off"} /\ task[c] = c /\ stack[c] = c
                      /\ pc[c].flow.kind = "user" /\ task_to_free[c] = NULL
                      /\ pc[c].at = "off" <=> c # Boot
  BY DEF Init, User, Flow
<1>4. \A t \in Task : /\ state[t] = "RUNNING" /\ ctx[t].kind = "user" /\ joinq[t] = NULL
                      /\ rq.nxt[t] = NULL /\ rq.prv[t] = NULL
                      /\ prio[t] = IF t = Boot THEN NORMAL ELSE IDLE
                      /\ mem[t] = IF t = Boot THEN "live" ELSE "none"
  BY DEF Init, User, Flow
<1>5. LockHandedOver
  BY <1>1, <1>3, SchedAssumption DEF LockHandedOver, Init
<1>6. OneCorePerThread /\ StackSound /\ FlowSound /\ FreeSound
  BY <1>3, <1>4 DEF OneCorePerThread, StackSound, FlowSound, FreeSound, At
<1>7. StatesSound /\ OffSound /\ IdleSound /\ MemSound /\ NewbornSound
  <2>1. Core \subseteq Task /\ Core \cap Thread = {}
    BY SchedAssumption DEF Task
  <2> QED
    BY <1>1, <1>3, <1>4, <2>1
    DEF StatesSound, OffSound, IdleSound, MemSound, NewbornSound, At
<1>8. QueuesAre(rq, Sets)
  <2>1. \A p \in Prio : Sets[p] = {}
    BY <1>4 DEF Sets, Queued
  <2>2. \A p \in Prio : rq.head[p] = NULL /\ rq.tail[p] = NULL /\ rq.active = {}
    BY DEF Init
  <2> HIDE DEF Sets
  <2> QED
    BY <1>4, <2>1, <2>2 DEF QueuesAre, QueueIs
<1> QED
  BY <1>2, <1>5, <1>6, <1>7, <1>8 DEF SchedInv, Quiet

\* Startup tasks and created threads are tasks, and different ones.
LEMMA CoresAreTasks == Core \subseteq Task /\ Thread \subseteq Task /\ Core \cap Thread = {}
BY SchedAssumption DEF Task

\* Psci has turned a core on.
LEMMA StartsInv ==
  ASSUME SchedInv, NEW c \in Core, sched_init_secondary(c)
  PROVE  SchedInv'
<1> USE DEF sched_init_secondary
<1>1. TypeOK /\ At(c, "off") /\ Go(c, "run", User)
  BY DEF SchedInv
<1>2. /\ pc' \in [Core -> [at : Label, flow : FlowSet]]
      /\ pc'[c].at = "run" /\ pc'[c].flow = User
      /\ \A d \in Core : d # c => pc'[d] = pc[d]
      /\ \A d \in Core, l \in Label : At(d, l)' <=> IF d = c THEN l = "run" ELSE At(d, l)
  BY <1>1, GoMoves, FlowTypes DEF Label
<1>3. mem' \in [Task -> {"none", "live", "freed"}] /\ mem'[c] = "live"
      /\ \A t \in Task : t # c => mem'[t] = mem[t]
  BY <1>1, CoresAreTasks DEF TypeOK
<1>4. TypeOK'
  BY <1>1, <1>2, <1>3 DEF TypeOK, Label, FlowSet, Kind
<1>5. LockHandedOver' /\ OneCorePerThread' /\ StackSound'
  BY <1>1, <1>2 DEF SchedInv, LockHandedOver, OneCorePerThread, StackSound, At, Label
<1>6. FlowSound'
  BY <1>1, <1>2, FlowTypes DEF SchedInv, FlowSound, At, Label
<1>7. FreeSound'
  BY <1>1, <1>2, <1>3 DEF SchedInv, FreeSound, At, Label, TypeOK
<1>8. ASSUME NoWake' PROVE Quiet'
  <2>1. NoWake /\ Quiet
    BY <1>1, <1>2, <1>8 DEF SchedInv, NoWake, Label, At
  <2>2. c # Boot /\ task[c] = c /\ state[c] = "RUNNING" /\ prio[c] = IDLE /\ stack[c] = c
    BY <1>1, <2>1 DEF Quiet, OffSound, IdleSound, SchedInv, StackSound, At
  <2>3. StatesSound'
    BY <1>1, <1>2, <2>1, <2>2 DEF Quiet, StatesSound, At, TypeOK
  <2>4. OffSound' /\ IdleSound'
    BY <1>1, <1>2, <2>1, <2>2 DEF Quiet, OffSound, IdleSound, At, Label
  <2>5. MemSound'
    BY <1>1, <1>2, <1>3, <2>1, <2>2 DEF Quiet, MemSound, At, TypeOK
  <2>6. NewbornSound'
    BY <1>1, <1>2, <1>3, <2>1, <2>2 DEF Quiet, NewbornSound, At, TypeOK
  <2>7. QueuesAre(rq, Sets)'
    <3>1. \A t \in Task : Newborn(t)' <=> Newborn(t)
      BY <1>1, <1>2 DEF Newborn, At
    <3>2. \A t \in Task : InQueue(t)' <=> InQueue(t)
      BY <1>3, <2>2, <3>1 DEF InQueue
    <3> QED
      BY <1>1, <2>1, <3>2, SetsKept DEF Quiet
  <2> QED
    BY <2>3, <2>4, <2>5, <2>6, <2>7 DEF Quiet
<1> QED
  BY <1>4, <1>5, <1>6, <1>7, <1>8 DEF SchedInv

\* sched_yield is entered: by a thread's own call, from pthread_exit, or from
\* the loop of pthread_join.
LEMMA EnterInv ==
  ASSUME SchedInv, NEW c \in Core, NEW flow \in FlowSet, YieldEnter(c, flow),
         pc[c].at \in {"run", "exited", "poll"}, flow.kind # "fork",
         flow.kind = "join" => flow.t \in Thread /\ joinq[flow.t] # NULL,
         At(c, "exited") <=> flow.kind = "exit"
  PROVE  SchedInv'
<1> USE DEF YieldEnter
<1>1. TypeOK /\ Go(c, "lock", flow)
  BY DEF SchedInv
<1>2. /\ pc' \in [Core -> [at : Label, flow : FlowSet]]
      /\ pc'[c].at = "lock" /\ pc'[c].flow = flow
      /\ \A d \in Core : d # c => pc'[d] = pc[d]
      /\ \A d \in Core, l \in Label : At(d, l)' <=> IF d = c THEN l = "lock" ELSE At(d, l)
  BY <1>1, GoMoves DEF Label
<1>3. task_to_free[c] # NULL => task_to_free[c] = task[c] /\ At(c, "exited")
  BY DEF SchedInv, FreeSound, At
<1>4. /\ mem' \in [Task -> {"none", "live", "freed"}]
      /\ \A t \in Task : mem'[t] = IF t = task[c] /\ task_to_free[c] # NULL
                                   THEN "freed" ELSE mem[t]
      /\ task_to_free' \in [Core -> Link] /\ task_to_free'[c] = NULL
      /\ \A d \in Core : d # c => task_to_free'[d] = task_to_free[d]
  BY <1>1, <1>3 DEF TypeOK, Link
<1>5. TypeOK'
  BY <1>1, <1>2, <1>4 DEF TypeOK, Label, FlowSet, Kind
<1>6. LockHandedOver' /\ OneCorePerThread' /\ StackSound'
  BY <1>2 DEF SchedInv, LockHandedOver, OneCorePerThread, StackSound, At, Label
<1>7. FlowSound'
  BY <1>1, <1>2 DEF SchedInv, FlowSound, At, Label, TypeOK
<1>8. FreeSound'
  BY <1>1, <1>2, <1>4 DEF SchedInv, FreeSound, OneCorePerThread, At, Label, TypeOK
<1>9. ASSUME NoWake' PROVE Quiet'
  <2>1. NoWake /\ Quiet
    BY <1>2, <1>9 DEF SchedInv, NoWake, Label, At
  <2>2. stack[c] = task[c] /\ \A d \in Core : d # c => task[d] # task[c]
    BY DEF SchedInv, StackSound, OneCorePerThread, At
  <2>3. StatesSound'
    BY <1>2, <2>1, <2>2 DEF Quiet, StatesSound, At, TypeOK
  <2>4. OffSound' /\ IdleSound'
    BY <1>2, <2>1 DEF Quiet, OffSound, IdleSound, At, Label
  <2>5. MemSound'
    <3>1. \A t \in Task : mem[t] # "none" => mem'[t] # "none"
      BY <1>4
    <3>2. task \in [Core -> Task] /\ stack \in [Core -> Task]
      BY <1>1 DEF TypeOK
    <3>3. ASSUME flow.kind # "exit" PROVE mem'[task[c]] = "live"
      BY <1>3, <1>4, <2>1, <3>2, <3>3 DEF Quiet, MemSound, At
    <3>4. \A d \in Core : d # c => mem'[task[d]] = mem[task[d]]
      BY <1>4, <2>2, <3>2
    <3> QED
      BY <1>2, <2>1, <3>1, <3>2, <3>3, <3>4 DEF Quiet, MemSound
  <2>6. NewbornSound'
    BY <1>1, <1>2, <1>4, <2>1, CoresAreTasks
    DEF Quiet, NewbornSound, StatesSound, SchedInv, FlowSound, At, TypeOK
  <2>7. QueuesAre(rq, Sets)'
    <3>1. \A t \in Task : Newborn(t)' <=> Newborn(t)
      BY <1>2 DEF Newborn, At
    <3>2. \A t \in Task : InQueue(t)' <=> InQueue(t)
      BY <1>4, <2>1, <3>1 DEF InQueue, Quiet, StatesSound
    <3> QED
      BY <1>1, <2>1, <3>2, SetsKept DEF Quiet
  <2> QED
    BY <2>3, <2>4, <2>5, <2>6, <2>7 DEF Quiet
<1> QED
  BY <1>5, <1>6, <1>7, <1>8, <1>9 DEF SchedInv

\* A thread's own call of sched_yield.
LEMMA YieldInv ==
  ASSUME SchedInv, NEW c \in Core, sched_yield(c)
  PROVE  SchedInv'
BY EnterInv, FlowTypes DEF sched_yield, Calls, At

\* The call at the end of pthread_exit, which frees the running task.
LEMMA ExitYieldInv ==
  ASSUME SchedInv, NEW c \in Core, ExitYield(c)
  PROVE  SchedInv'
BY EnterInv, FlowTypes DEF ExitYield, At

\* The loop of pthread_join: unless somebody is waking, the thread that is
\* polled has not exited, for it has a waiter.
LEMMA PollInv ==
  ASSUME SchedInv, NEW c \in Core, JoinPoll(c)
  PROVE  SchedInv'
<1>1. TypeOK /\ At(c, "poll")
  BY DEF SchedInv, JoinPoll
<1>2. /\ pc[c].flow \in FlowSet /\ pc[c].flow.kind = "join"
      /\ pc[c].flow.t \in Thread /\ joinq[pc[c].flow.t] # NULL
  BY <1>1 DEF SchedInv, FlowSound, At, TypeOK, FlowSet, Kind
<1>3. CASE state[pc[c].flow.t] = "EXITED"
  <2>1. /\ Go(c, "run", User)
        /\ UNCHANGED <<rq, state, prio, joinq, ctx, mem, task, task_to_free, stack, sched_lock>>
    BY <1>3 DEF JoinPoll
  <2>2. /\ pc' \in [Core -> [at : Label, flow : FlowSet]]
        /\ pc'[c].at = "run" /\ pc'[c].flow = User
        /\ \A d \in Core : d # c => pc'[d] = pc[d]
        /\ \A d \in Core, l \in Label : At(d, l)' <=> IF d = c THEN l = "run" ELSE At(d, l)
    BY <1>1, <2>1, GoMoves, FlowTypes DEF Label
  <2>3. TypeOK'
    BY <1>1, <2>1, <2>2 DEF TypeOK, Label, FlowSet, Kind
  <2>4. LockHandedOver' /\ OneCorePerThread' /\ StackSound'
    BY <1>1, <2>1, <2>2 DEF SchedInv, LockHandedOver, OneCorePerThread, StackSound, At, Label
  <2>5. FlowSound'
    BY <1>1, <2>1, <2>2, FlowTypes DEF SchedInv, FlowSound, At, Label
  <2>6. FreeSound'
    BY <1>1, <2>1, <2>2 DEF SchedInv, FreeSound, At, Label, TypeOK
  <2>7. ~NoWake
    BY <1>2, <1>3, CoresAreTasks DEF SchedInv, Quiet, StatesSound
  <2>8. ~NoWake'
    BY <1>1, <2>2, <2>7 DEF NoWake, Label, At
  <2> QED
    BY <2>3, <2>4, <2>5, <2>6, <2>8 DEF SchedInv
<1>4. CASE state[pc[c].flow.t] # "EXITED"
  <2>1. YieldEnter(c, pc[c].flow)
    BY <1>4 DEF JoinPoll
  <2> QED
    BY <1>1, <1>2, <2>1, EnterInv DEF At
<1> QED
  BY <1>3, <1>4

\* The lock is held by one core at most, and not by a core elsewhere.
LEMMA OnlyHolder ==
  ASSUME SchedInv, NEW c \in Core, pc[c].at \in {"switch", "unlock", "fork", "wake"}
  PROVE  /\ sched_lock = c
         /\ \A d \in Core : d # c => pc[d].at \notin {"switch", "unlock", "fork", "wake"}
BY DEF SchedInv, LockHandedOver

\* Whoever finds the lock free knows that no core is inside, or waking.
LEMMA NobodyHolds ==
  ASSUME SchedInv, sched_lock = NULL
  PROVE  /\ NoWake /\ Quiet
         /\ \A d \in Core : pc[d].at \notin {"switch", "unlock", "fork", "wake"}
         /\ \A d \in Core : stack[d] = task[d]
<1>1. \A d \in Core : d # NULL
  BY SchedAssumption
<1>2. \A d \in Core : pc[d].at \notin {"switch", "unlock", "fork", "wake"}
  BY <1>1 DEF SchedInv, LockHandedOver
<1>3. NoWake /\ \A d \in Core : stack[d] = task[d]
  BY <1>2 DEF NoWake, At, SchedInv, StackSound
<1> QED
  BY <1>2, <1>3 DEF SchedInv

\* cpu_switch_to: only the core that holds the lock is between two stacks.
LEMMA SwitchInv ==
  ASSUME SchedInv, NEW c \in Core, cpu_switch_to(c)
  PROVE  SchedInv'
<1> DEFINE to == ctx[task[c]]
           label == IF to.kind = "fork" THEN "fork" ELSE "unlock"
<1>1. TypeOK /\ At(c, "switch") /\ Go(c, label, to)
      /\ UNCHANGED <<rq, state, prio, joinq, mem, task, task_to_free, sched_lock>>
  BY DEF SchedInv, cpu_switch_to
<1>2. to \in FlowSet /\ label \in Label /\ pc[c].flow \in FlowSet
  BY <1>1 DEF TypeOK, FlowSet, Label, Kind
<1>3. /\ pc' \in [Core -> [at : Label, flow : FlowSet]]
      /\ pc'[c].at = label /\ pc'[c].flow = to
      /\ \A d \in Core : d # c => pc'[d] = pc[d]
      /\ \A d \in Core, l \in Label : At(d, l)' <=> IF d = c THEN l = label ELSE At(d, l)
  BY <1>1, <1>2, GoMoves
<1>4. /\ ctx' \in [Task -> FlowSet] /\ ctx'[stack[c]] = pc[c].flow
      /\ \A t \in Task : t # stack[c] => ctx'[t] = ctx[t]
      /\ stack' \in [Core -> Task] /\ stack'[c] = task[c]
      /\ \A d \in Core : d # c => stack'[d] = stack[d]
      /\ stack[c] \in Task /\ task[c] \in Task
  BY <1>1, <1>2 DEF TypeOK, cpu_switch_to, FlowSet, Kind
<1>5. /\ stack[c] # task[c]
      /\ \A d \in Core : d # c => /\ stack[d] = task[d] /\ stack[d] # stack[c]
                                  /\ task[d] # task[c]
                                  /\ pc[d].at \notin {"switch", "unlock", "fork", "wake"}
      /\ sched_lock = c
  BY <1>1, OnlyHolder DEF SchedInv, StackSound, OneCorePerThread, At
<1> HIDE DEF to
<1>6. TypeOK'
  BY <1>1, <1>3, <1>4 DEF TypeOK, Label, FlowSet, Kind
<1>7. LockHandedOver' /\ StackSound'
  BY <1>1, <1>3, <1>4, <1>5 DEF SchedInv, LockHandedOver, StackSound, At, Label
<1>8. OneCorePerThread'
  BY <1>1, <1>4, <1>5 DEF SchedInv, OneCorePerThread
<1>9. FlowSound'
  <2>1. to.kind = "join" => to.t \in Thread /\ joinq[to.t] # NULL
    BY <1>4 DEF SchedInv, FlowSound, to
  <2>2. \A t \in Task : ctx'[t].kind = "join" => ctx'[t].t \in Thread /\ joinq[ctx'[t].t] # NULL
    BY <1>1, <1>4 DEF SchedInv, FlowSound
  <2> QED
    BY <1>1, <1>3, <2>1, <2>2 DEF SchedInv, FlowSound, At, Label
<1>10. FreeSound'
  BY <1>1, <1>3 DEF SchedInv, FreeSound, At, Label
<1>11. ASSUME NoWake' PROVE Quiet'
  <2>1. NoWake /\ Quiet
    BY <1>1, <1>3, <1>11 DEF SchedInv, NoWake, Label, At
  <2>2. StatesSound'
    <3>1. state[task[c]] = "RUNNING" /\ (pc[c].flow.kind = "exit" => state[stack[c]] = "EXITED")
      BY <1>1, <2>1 DEF Quiet, StatesSound, At
    <3>2. \A t \in Task : ctx'[t].kind = "exit" =>
                             state[t] = "EXITED" /\ \A d \in Core : task[d] # t
      BY <1>4, <1>5, <2>1, <3>1 DEF Quiet, StatesSound
    <3>3. ASSUME NEW d \in Core
          PROVE  /\ state[task[d]] # "READY"
                 /\ pc'[d].at \in {"run", "create", "switch", "unlock", "fork"} =>
                      state[task[d]] = "RUNNING"
                 /\ pc'[d].at = "exited" \/ (pc'[d].at = "lock" /\ pc'[d].flow.kind = "exit") =>
                      state[task[d]] = "EXITED"
                 /\ pc'[d].at # "switch"
      BY <1>3, <1>5, <2>1, <3>1 DEF Quiet, StatesSound, At
    <3> QED
      BY <1>1, <2>1, <3>2, <3>3 DEF Quiet, StatesSound, At
  <2>3. OffSound' /\ IdleSound'
    BY <1>1, <1>3, <2>1 DEF Quiet, OffSound, IdleSound, At, Label
  <2>4. MemSound'
    BY <1>1, <1>3, <1>4, <2>1 DEF Quiet, MemSound, At
  <2>5. NewbornSound'
    BY <1>1, <1>3, <2>1 DEF Quiet, NewbornSound, At
  <2>6. QueuesAre(rq, Sets)'
    <3>1. \A t \in Task : Newborn(t)' <=> Newborn(t)
      BY <1>1, <1>3 DEF Newborn, At
    <3>2. \A t \in Task : InQueue(t)' <=> InQueue(t)
      BY <1>1, <3>1 DEF InQueue
    <3> QED
      BY <1>1, <2>1, <3>2, SetsKept DEF Quiet
  <2> QED
    BY <2>2, <2>3, <2>4, <2>5, <2>6 DEF Quiet
<1> QED
  BY <1>6, <1>7, <1>8, <1>9, <1>10, <1>11 DEF SchedInv

\* The lock is released in the thread that was switched to, old or new.
LEMMA ReleaseInv ==
  ASSUME SchedInv, NEW c \in Core, NEW label \in {"run", "spin", "poll"}, NEW flow \in FlowSet,
         pc[c].at \in {"unlock", "fork"}, pthread_spin_unlock, Go(c, label, flow),
         UNCHANGED <<rq, state, prio, joinq, ctx, mem, task, task_to_free, stack>>,
         flow.kind = "join" => flow = pc[c].flow,
         At(c, "unlock") /\ pc[c].flow.kind = "exit" => label = "spin",
         label = "poll" => flow.kind = "join"
  PROVE  SchedInv'
<1>1. TypeOK /\ label \in Label
  BY DEF SchedInv, Label
<1>2. /\ pc' \in [Core -> [at : Label, flow : FlowSet]]
      /\ pc'[c].at = label /\ pc'[c].flow = flow
      /\ \A d \in Core : d # c => pc'[d] = pc[d]
      /\ \A d \in Core, l \in Label : At(d, l)' <=> IF d = c THEN l = label ELSE At(d, l)
  BY <1>1, GoMoves
<1>3. \A d \in Core : /\ d # c => pc[d].at \notin {"switch", "unlock", "fork", "wake"}
                      /\ d # NULL
  BY OnlyHolder, SchedAssumption
<1>4. TypeOK'
  BY <1>1, <1>2 DEF TypeOK, Label, FlowSet, Kind, pthread_spin_unlock
<1>5. LockHandedOver'
  BY <1>2, <1>3 DEF LockHandedOver, pthread_spin_unlock
<1>6. OneCorePerThread' /\ StackSound'
  BY <1>2, <1>3 DEF SchedInv, OneCorePerThread, StackSound, At, Label
<1>7. FlowSound'
  BY <1>2 DEF SchedInv, FlowSound, At, Label
<1>8. FreeSound'
  BY <1>2 DEF SchedInv, FreeSound, At, Label
<1>9. Quiet'
  <2>1. NoWake /\ Quiet
    BY <1>3 DEF SchedInv, NoWake, Label, At
  <2>2. StatesSound'
    BY <1>2, <2>1 DEF Quiet, StatesSound, At
  <2>3. OffSound' /\ IdleSound'
    BY <1>2, <2>1 DEF Quiet, OffSound, IdleSound, At, Label
  <2>4. MemSound'
    BY <1>2, <2>1 DEF Quiet, MemSound, At
  <2>5. NewbornSound'
    BY <1>2, <2>1 DEF Quiet, NewbornSound, At
  <2>6. QueuesAre(rq, Sets)'
    <3>1. \A t \in Task : Newborn(t)' <=> Newborn(t)
      BY <1>2 DEF Newborn, At
    <3>2. \A t \in Task : InQueue(t)' <=> InQueue(t)
      BY <3>1 DEF InQueue
    <3> QED
      BY <1>1, <2>1, <3>2, SetsKept DEF Quiet
  <2> QED
    BY <2>2, <2>3, <2>4, <2>5, <2>6 DEF Quiet
<1> QED
  BY <1>4, <1>5, <1>6, <1>7, <1>8, <1>9 DEF SchedInv

\* An old thread releases the lock that its core took in another thread.
LEMMA UnlockInv ==
  ASSUME SchedInv, NEW c \in Core, YieldUnlock(c)
  PROVE  SchedInv'
<1> DEFINE flow == pc[c].flow
           label == CASE flow.kind = "user" -> "run"
                      [] flow.kind = "exit" -> "spin"
                      [] flow.kind = "join" -> "poll"
<1>1. /\ flow \in FlowSet /\ flow.kind \in {"user", "exit", "join"} /\ At(c, "unlock")
      /\ pthread_spin_unlock /\ Go(c, label, flow)
      /\ UNCHANGED <<rq, state, prio, joinq, ctx, mem, task, task_to_free, stack>>
  BY DEF SchedInv, TypeOK, FlowSound, YieldUnlock, FlowSet, Kind, At
<1>2. /\ label \in {"run", "spin", "poll"}
      /\ flow.kind = "exit" => label = "spin"
      /\ label = "poll" => flow.kind = "join"
  BY <1>1
<1> QED
  BY <1>1, <1>2, ReleaseInv DEF At

\* So does a new thread.
LEMMA ForkInv ==
  ASSUME SchedInv, NEW c \in Core, ret_from_fork(c)
  PROVE  SchedInv'
BY ReleaseInv, FlowTypes DEF ret_from_fork, At

\* sched_enqueue_task keeps the types whatever the queues look like.
LEMMA EnqueueType ==
  ASSUME NEW q \in RunQueues, NEW t \in Task, NEW p \in Prio
  PROVE  sched_enqueue_task(q, t, p) \in RunQueues
<1>1. t \in Link /\ NULL \in Link /\ q.tail[p] \in Link
  BY DEF Link, RunQueues
<1>2. CASE q.head[p] = NULL
  BY <1>1, <1>2 DEF sched_enqueue_task, RunQueues
<1>3. CASE q.head[p] # NULL
  BY <1>1, <1>3 DEF sched_enqueue_task, RunQueues
<1> QED
  BY <1>2, <1>3

\* The wake-up loop keeps the types, and the lock.
LEMMA WakeInv ==
  ASSUME SchedInv, NEW c \in Core, WakeWaiter(c)
  PROVE  SchedInv'
<1> DEFINE w == joinq[task[c]]
<1>1. /\ TypeOK /\ At(c, "wake") /\ rq \in RunQueues /\ w \in Task /\ prio[w] \in Prio
      /\ UNCHANGED <<prio, joinq, ctx, mem, task, task_to_free, stack, pc, sched_lock>>
  BY DEF SchedInv, WakeWaiter, TypeOK, RunQueues, FlowSound, Link
<1>2. rq' \in RunQueues /\ state' \in [Task -> State]
  BY <1>1, EnqueueType DEF WakeWaiter, TypeOK, State
<1>3. TypeOK'
  BY <1>1, <1>2 DEF TypeOK, RunQueues
<1>4. LockHandedOver' /\ OneCorePerThread' /\ StackSound' /\ FlowSound' /\ FreeSound'
  BY <1>1 DEF SchedInv, LockHandedOver, OneCorePerThread, StackSound, FlowSound, FreeSound, At
<1>5. ~NoWake'
  BY <1>1 DEF NoWake, At
<1> QED
  BY <1>3, <1>4, <1>5 DEF SchedInv

\* pthread_create up to the lock: nobody else knows the thread.
LEMMA CreateInv ==
  ASSUME SchedInv, NEW c \in Core, NEW t \in Thread, NEW sp \in SchedParam,
         pthread_create(c, t, sp)
  PROVE  SchedInv'
<1> DEFINE p == Priority(sp)
           label == IF p = IDLE THEN "run" ELSE "create"
<1>1. TypeOK /\ At(c, "run") /\ mem[t] = "none" /\ t \in Task
      /\ UNCHANGED <<rq, joinq, task, task_to_free, stack, sched_lock>>
  BY CoresAreTasks DEF SchedInv, pthread_create, Calls
<1>2. p \in Prio
  <2>1. sp \in Nat /\ COUNT \in Nat /\ COUNT > 0
    BY SchedAssumption
  <2> QED
    BY <2>1 DEF Priority, Prio
<1> HIDE DEF p
<1>3. /\ mem' \in [Task -> {"none", "live", "freed"}] /\ mem'[t] = "live"
      /\ state' \in [Task -> State] /\ state'[t] = "READY"
      /\ prio' \in [Task -> Prio] /\ prio'[t] = p
      /\ ctx' \in [Task -> FlowSet] /\ ctx'[t] = Fork
      /\ \A u \in Task : u # t => /\ mem'[u] = mem[u] /\ state'[u] = state[u]
                                  /\ prio'[u] = prio[u] /\ ctx'[u] = ctx[u]
  BY <1>1, <1>2, FlowTypes DEF TypeOK, pthread_create, FlowSet, Kind, State, p
<1>4. /\ pc' \in [Core -> [at : Label, flow : FlowSet]]
      /\ pc'[c].at = label
      /\ p = IDLE => pc' = pc
      /\ p # IDLE => pc'[c].flow = Flow("user", t)
      /\ \A d \in Core : d # c => pc'[d] = pc[d]
      /\ \A d \in Core, l \in Label : At(d, l)' <=> IF d = c THEN l = label ELSE At(d, l)
  <2>1. CASE p = IDLE
    <3>1. pc' = pc
      BY <2>1 DEF pthread_create, p
    <3> QED
      BY <1>1, <2>1, <3>1 DEF TypeOK, Label, FlowSet, Kind, At
  <2>2. CASE p # IDLE
    <3>1. Go(c, "create", Flow("user", t)) /\ Flow("user", t) \in FlowSet
      BY <1>1, <2>2, FlowTypes DEF pthread_create, p, Link
    <3> QED
      BY <1>1, <2>2, <3>1, GoMoves DEF Label
  <2> QED
    BY <2>1, <2>2
<1>5. pc'[c].flow.kind = "user" \/ pc'[c].flow = pc[c].flow
  BY <1>1, <1>4, FlowTypes DEF Link
<1>6. TypeOK'
  BY <1>1, <1>3, <1>4 DEF TypeOK, Label, FlowSet, Kind
<1>7. LockHandedOver' /\ OneCorePerThread' /\ StackSound'
  BY <1>1, <1>4 DEF SchedInv, LockHandedOver, OneCorePerThread, StackSound, At, Label
<1>8. FlowSound'
  <2>1. label = "create" => pc'[c].flow.t = t
    BY <1>1, <1>4, FlowTypes DEF Link
  <2>2. \A u \in Task : ctx'[u].kind = "join" => ctx[u].kind = "join" /\ ctx'[u] = ctx[u]
    BY <1>3, FlowTypes
  <2> QED
    BY <1>1, <1>4, <1>5, <2>1, <2>2 DEF SchedInv, FlowSound, At, Label
<1>9. FreeSound'
  BY <1>1, <1>3, <1>4 DEF SchedInv, FreeSound, At, Label, TypeOK
<1>10. ASSUME NoWake' PROVE Quiet'
  <2>1. NoWake /\ Quiet
    BY <1>1, <1>4, <1>10 DEF SchedInv, NoWake, Label, At
  <2>2. \A d \in Core : /\ task[d] # t /\ stack[d] # t
                        /\ task[d] \in Task /\ stack[d] \in Task
    BY <1>1, <2>1 DEF Quiet, MemSound, TypeOK
  <2>3. StatesSound'
    BY <1>1, <1>3, <1>4, <2>1, <2>2, FlowTypes DEF Quiet, StatesSound, At
  <2>4. OffSound' /\ IdleSound'
    BY <1>1, <1>3, <1>4, <2>1, <2>2, CoresAreTasks DEF Quiet, OffSound, IdleSound, At, Label
  <2>5. MemSound'
    BY <1>1, <1>3, <1>4, <2>1, <2>2 DEF Quiet, MemSound, At
  <2>6. ASSUME NEW d \in Core, At(d, "create")
        PROVE  d # c /\ pc[d].flow.t # t /\ pc[d].flow.t \in Task /\ pc'[d] = pc[d]
    BY <1>1, <1>4, <2>1, <2>6, CoresAreTasks
    DEF Quiet, NewbornSound, SchedInv, FlowSound, At
  <2>7. p # IDLE => pc'[c].flow.t = t
    BY <1>1, <1>4, FlowTypes DEF Link
  <2>8. NewbornSound'
    BY <1>1, <1>3, <1>4, <2>1, <2>6, <2>7 DEF Quiet, NewbornSound, At
  <2>9. QueuesAre(rq, Sets)'
    <3>1. \A u \in Task : u # t => (Newborn(u)' <=> Newborn(u))
      BY <1>1, <1>4, <2>6, <2>7 DEF Newborn, At
    <3>2. p # IDLE => Newborn(t)'
      BY <1>4, <2>7 DEF Newborn, At
    <3>3. \A u \in Task : InQueue(u)' <=> InQueue(u)
      BY <1>1, <1>3, <3>1, <3>2 DEF InQueue
    <3>4. \A u \in Task : InQueue(u) => prio'[u] = prio[u]
      BY <1>1, <1>3 DEF InQueue
    <3> QED
      BY <1>1, <2>1, <3>3, <3>4, SetsKept DEF Quiet
  <2> QED
    BY <2>3, <2>4, <2>5, <2>8, <2>9 DEF Quiet
<1> QED
  BY <1>6, <1>7, <1>8, <1>9, <1>10 DEF SchedInv

\* The critical section of pthread_create: the thread enters its queue.
LEMMA EnqueueInv ==
  ASSUME SchedInv, NEW c \in Core, CreateEnqueue(c)
  PROVE  SchedInv'
<1> DEFINE t == pc[c].flow.t
           p == prio[t]
<1>1. /\ TypeOK /\ At(c, "create") /\ Go(c, "run", User) /\ NoWake /\ Quiet
      /\ rq' = sched_enqueue_task(rq, t, p)
      /\ sched_lock = NULL
      /\ UNCHANGED <<state, prio, joinq, ctx, mem, task, task_to_free, stack, sched_lock>>
  BY NobodyHolds DEF SchedInv, CreateEnqueue
<1>2. /\ pc' \in [Core -> [at : Label, flow : FlowSet]]
      /\ pc'[c].at = "run" /\ pc'[c].flow = User
      /\ \A d \in Core : d # c => pc'[d] = pc[d]
      /\ \A d \in Core, l \in Label : At(d, l)' <=> IF d = c THEN l = "run" ELSE At(d, l)
  BY <1>1, GoMoves, FlowTypes DEF Label
<1>3. /\ t \in Task /\ p \in Prio /\ rq \in RunQueues
      /\ mem[t] = "live" /\ state[t] = "READY" /\ p # IDLE /\ Newborn(t)
      /\ \A d \in Core : At(d, "create") /\ pc[d].flow.t = t => d = c
  BY <1>1, CoresAreTasks
  DEF SchedInv, TypeOK, RunQueues, FlowSound, Quiet, NewbornSound, Newborn
<1>4. /\ Partition(Sets) /\ QueuesAre(rq, Sets)
      /\ \A r \in Prio, u \in Task : u \in Sets[r] <=> InQueue(u) /\ prio[u] = r
      /\ \A r \in Prio : t \notin Sets[r]
  BY <1>1, <1>3, SetsAre DEF Quiet, InQueue
<1>5. /\ rq' \in RunQueues
      /\ QueuesAre(rq', [Sets EXCEPT ![p] = @ \cup {t}])
      /\ \A u \in Task : u # t /\ (\A r \in Prio : u \notin Sets[r]) => rq'.nxt[u] = rq.nxt[u]
  BY <1>1, <1>3, <1>4, EnqueueQueues
<1> HIDE DEF t, p
<1>6. TypeOK'
  BY <1>1, <1>2, <1>5 DEF TypeOK, Label, FlowSet, Kind, RunQueues
<1>7. LockHandedOver' /\ OneCorePerThread' /\ StackSound'
  BY <1>1, <1>2 DEF SchedInv, LockHandedOver, OneCorePerThread, StackSound, At, Label
<1>8. FlowSound' /\ FreeSound'
  BY <1>1, <1>2, FlowTypes DEF SchedInv, FlowSound, FreeSound, At, Label
<1>9. StatesSound'
  <2>1. ASSUME NEW u \in Task, state[u] = "RUNNING"
        PROVE  rq'.nxt[u] = NULL
    <3>1. u # t /\ \A r \in Prio : u \notin Sets[r]
      BY <1>3, <1>4, <2>1 DEF InQueue
    <3> QED
      BY <1>1, <1>5, <2>1, <3>1 DEF Quiet, StatesSound
  <2> QED
    BY <1>1, <1>2, <2>1 DEF Quiet, StatesSound, At
<1>10. OffSound' /\ IdleSound' /\ MemSound'
  BY <1>1, <1>2 DEF Quiet, OffSound, IdleSound, MemSound, At, Label
<1>11. NewbornSound'
  BY <1>1, <1>2 DEF Quiet, NewbornSound, At
<1>12. QueuesAre(rq, Sets)'
  <2> DEFINE S2 == [Sets EXCEPT ![p] = @ \cup {t}]
  <2>1. \A u \in Task : Newborn(u)' <=> Newborn(u) /\ u # t
    BY <1>1, <1>2, <1>3 DEF Newborn, At, t
  <2>2. \A u \in Task : InQueue(u)' <=> u = t \/ InQueue(u)
    BY <1>1, <1>3, <2>1 DEF InQueue, p
  <2>3. /\ S2 \in [Prio -> SUBSET Task]
        /\ \A r \in Prio : S2[r] = IF r = p THEN Sets[p] \cup {t} ELSE Sets[r]
    BY <1>3, <1>4 DEF Partition
  <2>4. prio[t] = p /\ prio' = prio
    BY <1>1 DEF p
  <2>5. \A r \in Prio, u \in Task : u \in S2[r] <=> InQueue(u)' /\ prio'[u] = r
    BY <1>4, <2>2, <2>3, <2>4
  <2>6. Sets' = S2
    BY <2>3, <2>5, SetsBecome
  <2>7. QueuesAre(rq', S2) => QueuesAre(rq, Sets)'
    BY <2>6 DEF QueuesAre
  <2> QED
    BY <1>5, <2>7
<1> QED
  BY <1>6, <1>7, <1>8, <1>9, <1>10, <1>11, <1>12 DEF SchedInv, Quiet

\* pthread_exit: a thread that runs is in no queue and has no next, so taking
\* it out of its queue changes nothing; with a waiter, the loop is entered.
LEMMA ExitInv ==
  ASSUME SchedInv, NEW c \in Core, pthread_exit(c)
  PROVE  SchedInv'
<1> DEFINE me == task[c]
           label == IF joinq[me] = NULL THEN "exited" ELSE "wake"
<1>1. /\ TypeOK /\ At(c, "run") /\ Go(c, label, User) /\ NoWake /\ Quiet
      /\ me \notin Core \ {Boot} /\ sched_lock = NULL
      /\ UNCHANGED <<prio, joinq, ctx, mem, task, stack>>
  BY NobodyHolds DEF SchedInv, pthread_exit, Calls
<1>2. /\ pc' \in [Core -> [at : Label, flow : FlowSet]]
      /\ pc'[c].at = label /\ pc'[c].flow = User
      /\ \A d \in Core : d # c => pc'[d] = pc[d]
      /\ \A d \in Core, l \in Label : At(d, l)' <=> IF d = c THEN l = label ELSE At(d, l)
  BY <1>1, GoMoves, FlowTypes DEF Label
<1>3. /\ me \in Task /\ prio[me] \in Prio /\ rq \in RunQueues /\ stack[c] = me
      /\ state[me] = "RUNNING" /\ rq.nxt[me] = NULL /\ mem[me] = "live"
      /\ \A d \in Core : d # c => task[d] # me /\ stack[d] # me
      /\ \A d \in Core : pc[d].at \notin {"switch", "unlock", "fork", "wake"}
  BY <1>1, NobodyHolds
  DEF SchedInv, TypeOK, RunQueues, Quiet, StatesSound, MemSound, OneCorePerThread, At
<1>4. /\ state' \in [Task -> State] /\ state'[me] = "EXITED"
      /\ \A t \in Task : t # me => state'[t] = state[t]
      /\ task_to_free' \in [Core -> Link] /\ task_to_free'[c] = me
      /\ \A d \in Core : d # c => task_to_free'[d] = task_to_free[d]
  BY <1>1, <1>3 DEF TypeOK, pthread_exit, State, Link
<1>5. /\ Partition(Sets) /\ QueuesAre(rq, Sets)
      /\ \A r \in Prio, u \in Task : u \in Sets[r] <=> InQueue(u) /\ prio[u] = r
      /\ \A r \in Prio : me \notin Sets[r]
  BY <1>1, <1>3, SetsAre DEF Quiet, InQueue
<1>6. /\ rq' \in RunQueues /\ QueuesAre(rq', Sets)
      /\ \A u \in Task : rq'.nxt[u] = rq.nxt[u]
  <2>1. CASE joinq[me] = NULL
    <3>1. rq' = sched_dequeue_task(rq, me, prio[me])
      BY <2>1 DEF pthread_exit
    <3>2. /\ rq' \in RunQueues /\ QueuesAre(rq', Sets) /\ rq'.nxt[me] = NULL
          /\ \A u \in Task : u # me => rq'.nxt[u] = rq.nxt[u]
      BY <1>3, <1>5, <3>1, DequeueOther
    <3> QED
      BY <1>3, <3>2
  <2>2. CASE joinq[me] # NULL
    BY <1>3, <1>5, <2>2 DEF pthread_exit
  <2> QED
    BY <2>1, <2>2
<1>7. sched_lock' = IF joinq[me] = NULL THEN NULL ELSE c
  BY <1>1 DEF pthread_exit
<1> HIDE DEF me
<1>8. TypeOK'
  BY <1>1, <1>2, <1>4, <1>6, <1>7 DEF TypeOK, Label, FlowSet, Kind, RunQueues
<1>9. LockHandedOver'
  BY <1>1, <1>2, <1>3, <1>7, SchedAssumption DEF LockHandedOver, Label
<1>10. OneCorePerThread' /\ StackSound'
  BY <1>1, <1>2, <1>3 DEF SchedInv, OneCorePerThread, StackSound, At, Label, me
<1>11. FlowSound' /\ FreeSound'
  <2>1. FlowSound'
    BY <1>1, <1>2, FlowTypes DEF SchedInv, FlowSound, At, Label, me
  <2>2. FreeSound'
    BY <1>1, <1>2, <1>3, <1>4 DEF SchedInv, FreeSound, At, Label, me
  <2> QED
    BY <2>1, <2>2
<1>12. ASSUME NoWake' PROVE Quiet'
  <2>1. joinq[me] = NULL /\ label = "exited"
    BY <1>2, <1>12 DEF NoWake, Label, At
  <2>2. StatesSound'
    BY <1>1, <1>2, <1>3, <1>4, <1>6, <2>1 DEF Quiet, StatesSound, At, TypeOK, me
  <2>3. OffSound' /\ IdleSound'
    BY <1>1, <1>2, <1>4, CoresAreTasks DEF Quiet, OffSound, IdleSound, At, Label
  <2>4. MemSound'
    BY <1>1, <1>2, <1>3 DEF Quiet, MemSound, At, me
  <2>5. NewbornSound'
    BY <1>1, <1>2, <1>3, <1>4, CoresAreTasks
    DEF Quiet, NewbornSound, SchedInv, FlowSound, At
  <2>6. QueuesAre(rq, Sets)'
    <3>1. \A u \in Task : Newborn(u)' <=> Newborn(u)
      BY <1>1, <1>2 DEF Newborn, At
    <3>2. \A u \in Task : InQueue(u)' <=> InQueue(u)
      BY <1>1, <1>3, <1>4, <3>1 DEF InQueue
    <3>3. \A r \in Prio, u \in Task : u \in Sets[r] <=> InQueue(u)' /\ prio'[u] = r
      BY <1>1, <1>5, <3>2
    <3>4. Sets' = Sets
      BY <1>5, <3>3, SetsBecome DEF Partition
    <3>5. QueuesAre(rq', Sets) => QueuesAre(rq, Sets)'
      BY <3>4 DEF QueuesAre
    <3> QED
      BY <1>6, <3>5
  <2> QED
    BY <2>2, <2>3, <2>4, <2>5, <2>6 DEF Quiet
<1> QED
  BY <1>8, <1>9, <1>10, <1>11, <1>12 DEF SchedInv

\* pthread_join puts the caller, which is in no queue, on the thread's list.
LEMMA JoinInv ==
  ASSUME SchedInv, NEW c \in Core, NEW t \in Thread, pthread_join(c, t)
  PROVE  SchedInv'
<1> DEFINE me == task[c]
<1>1. /\ TypeOK /\ At(c, "run") /\ Go(c, "poll", Flow("join", t)) /\ NoWake /\ Quiet
      /\ me \notin Core \ {Boot} /\ sched_lock = NULL /\ state[t] # "EXITED"
      /\ t \in Task /\ t \in Link /\ Flow("join", t) \in FlowSet
      /\ UNCHANGED <<prio, ctx, mem, task, task_to_free, stack, sched_lock>>
  BY NobodyHolds, CoresAreTasks, FlowTypes DEF SchedInv, pthread_join, Calls, Link
<1>2. /\ pc' \in [Core -> [at : Label, flow : FlowSet]]
      /\ pc'[c].at = "poll" /\ pc'[c].flow = Flow("join", t)
      /\ \A d \in Core : d # c => pc'[d] = pc[d]
      /\ \A d \in Core, l \in Label : At(d, l)' <=> IF d = c THEN l = "poll" ELSE At(d, l)
  BY <1>1, GoMoves DEF Label
<1>3. /\ me \in Task /\ rq \in RunQueues /\ me # NULL
      /\ state[me] = "RUNNING" /\ mem[me] = "live"
      /\ \A d \in Core : d # c => task[d] # me /\ stack[d] # me
      /\ \A d \in Core : pc[d].at \notin {"switch", "unlock", "fork", "wake"}
  BY <1>1, NobodyHolds, NullIsNoTask
  DEF SchedInv, TypeOK, RunQueues, Quiet, StatesSound, MemSound, OneCorePerThread, At
<1>4. /\ state' \in [Task -> State] /\ state'[me] = "BLOCKED"
      /\ \A u \in Task : u # me => state'[u] = state[u]
      /\ joinq' \in [Task -> Link] /\ joinq'[t] = me
      /\ \A u \in Task : u # t => joinq'[u] = joinq[u]
  BY <1>1, <1>3 DEF TypeOK, pthread_join, State, Link
<1>5. /\ rq' \in RunQueues
      /\ rq'.prv = rq.prv /\ rq'.head = rq.head /\ rq'.tail = rq.tail
      /\ rq'.active = rq.active
      /\ \A u \in Task : u # me => rq'.nxt[u] = rq.nxt[u]
  BY <1>1, <1>3 DEF RunQueues, pthread_join, TypeOK
<1>6. /\ Partition(Sets) /\ QueuesAre(rq, Sets)
      /\ \A r \in Prio, u \in Task : u \in Sets[r] <=> InQueue(u) /\ prio[u] = r
      /\ \A r \in Prio : me \notin Sets[r]
  BY <1>1, <1>3, SetsAre DEF Quiet, InQueue
<1>7. QueuesAre(rq', Sets)
  <2>1. ASSUME NEW p \in Prio PROVE QueueIs(rq', p, Sets[p])
    <3>1. Sets[p] \subseteq Task /\ QueueIs(rq, p, Sets[p])
      BY <1>6 DEF Partition, QueuesAre
    <3>2. \A u \in Sets[p] : rq'.nxt[u] = rq.nxt[u] /\ rq'.prv[u] = rq.prv[u]
      BY <1>5, <1>6, <3>1
    <3> HIDE DEF Sets
    <3> QED
      BY <1>5, <3>1, <3>2, QueueFrame
  <2> QED
    BY <1>5, <1>6, <2>1 DEF QueuesAre
<1> HIDE DEF me
<1>8. TypeOK'
  BY <1>1, <1>2, <1>4, <1>5 DEF TypeOK, Label, FlowSet, Kind, RunQueues
<1>9. LockHandedOver' /\ OneCorePerThread' /\ StackSound'
  BY <1>1, <1>2, <1>3 DEF SchedInv, LockHandedOver, OneCorePerThread, StackSound, At, Label
<1>10. FlowSound'
  <2>1. \A u \in Task : joinq[u] # NULL => joinq'[u] # NULL
    BY <1>3, <1>4
  <2>2. \A u \in Thread : u \in Task
    BY CoresAreTasks
  <2>3. joinq'[t] # NULL /\ Flow("join", t).kind = "join" /\ Flow("join", t).t = t
    BY <1>1, <1>3, <1>4, FlowTypes
  <2> QED
    BY <1>1, <1>2, <1>3, <2>1, <2>2, <2>3 DEF SchedInv, FlowSound, At, Label
<1>11. FreeSound'
  BY <1>1, <1>2 DEF SchedInv, FreeSound, At, Label
<1>12. StatesSound'
  <2>1. \A d \in Core : d # c => state'[task[d]] = state[task[d]] /\ task[d] \in Task
                                /\ state'[stack[d]] = state[stack[d]]
    BY <1>1, <1>3, <1>4 DEF TypeOK
  <2>2. \A u \in Task : state'[u] = "EXITED" => u # me /\ u # t /\ joinq'[u] = NULL
    BY <1>1, <1>4 DEF Quiet, StatesSound
  <2>3. \A u \in Task : state'[u] = "RUNNING" => u # me /\ rq'.nxt[u] = NULL
    BY <1>1, <1>4, <1>5 DEF Quiet, StatesSound
  <2>4. \A u \in Task : ctx[u].kind = "exit" => state'[u] = "EXITED" /\ \A d \in Core : task[d] # u
    BY <1>1, <1>4 DEF Quiet, StatesSound, me
  <2> QED
    BY <1>1, <1>2, <1>3, <1>4, <2>1, <2>2, <2>3, <2>4 DEF Quiet, StatesSound, At, me
<1>13. OffSound' /\ IdleSound'
  BY <1>1, <1>2, <1>4, CoresAreTasks DEF Quiet, OffSound, IdleSound, At, Label
<1>14. MemSound'
  BY <1>1, <1>2, <1>3 DEF Quiet, MemSound, At, me
<1>15. NewbornSound'
  BY <1>1, <1>2, <1>3, <1>4, CoresAreTasks
  DEF Quiet, NewbornSound, SchedInv, FlowSound, At
<1>16. QueuesAre(rq, Sets)'
  <2>1. \A u \in Task : Newborn(u)' <=> Newborn(u)
    BY <1>1, <1>2 DEF Newborn, At
  <2>2. \A u \in Task : InQueue(u)' <=> InQueue(u)
    BY <1>1, <1>3, <1>4, <2>1 DEF InQueue
  <2>3. \A r \in Prio, u \in Task : u \in Sets[r] <=> InQueue(u)' /\ prio'[u] = r
    BY <1>1, <1>6, <2>2
  <2>4. Sets' = Sets
    BY <1>6, <2>3, SetsBecome DEF Partition
  <2>5. QueuesAre(rq', Sets) => QueuesAre(rq, Sets)'
    BY <2>4 DEF QueuesAre
  <2> QED
    BY <1>7, <2>5
<1> QED
  BY <1>8, <1>9, <1>10, <1>11, <1>12, <1>13, <1>14, <1>15, <1>16 DEF SchedInv, Quiet

\* What the critical section of sched_yield does to the queues: prev goes back
\* into them if it still runs, and the next task, which was in them unless it
\* is prev again, is taken out.
Requeued(prev) == state[prev] = "RUNNING" /\ prio[prev] # IDLE

Chosen(prev, next) ==
  /\ next \in Task
  /\ next = prev \/ InQueue(next)
  /\ rq' \in RunQueues
  /\ \E S \in [Prio -> SUBSET Task] :
       /\ QueuesAre(rq', S)
       /\ \A p \in Prio, u \in Task :
            u \in S[p] <=> /\ prio[u] = p /\ u # next
                           /\ InQueue(u) \/ (u = prev /\ Requeued(prev))
  /\ rq'.nxt[next] = NULL
  /\ \A u \in Task :
       u # next /\ ~InQueue(u) /\ ~(u = prev /\ Requeued(prev)) => rq'.nxt[u] = rq.nxt[u]

\* The critical section of sched_yield does just that.
LEMMA PickChooses ==
  ASSUME SchedInv, NEW c \in Core, YieldPick(c)
  PROVE  \E next : /\ Chosen(task[c], next)
                   /\ state' = [state EXCEPT ![task[c]] = IF Requeued(task[c]) THEN "READY" ELSE @,
                                             ![next] = "RUNNING"]
                   /\ task' = [task EXCEPT ![c] = next]
                   /\ Go(c, IF next = task[c] THEN "unlock" ELSE "switch", pc[c].flow)
<1> DEFINE prev == task[c]
           again == Requeued(prev)
           q == IF again THEN sched_enqueue_task(rq, prev, prio[prev]) ELSE rq
           next == Picked(q, c)
           S1 == IF again THEN [Sets EXCEPT ![prio[prev]] = @ \cup {prev}] ELSE Sets
<1>1. /\ state' = [state EXCEPT ![prev] = IF again THEN "READY" ELSE @, ![next] = "RUNNING"]
      /\ task' = [task EXCEPT ![c] = next]
      /\ Go(c, IF next = prev THEN "unlock" ELSE "switch", pc[c].flow)
      /\ rq' = IF prio[next] # IDLE THEN sched_dequeue_task(q, next, prio[next]) ELSE q
      /\ sched_lock = NULL
  BY Zenon DEF YieldPick, Requeued, pthread_spin_lock
<1>2. /\ TypeOK /\ Quiet /\ rq \in RunQueues
      /\ prev \in Task /\ prio[prev] \in Prio /\ state[prev] # "READY"
  BY <1>1, NobodyHolds DEF SchedInv, TypeOK, RunQueues, Quiet, StatesSound
<1>3. /\ Partition(Sets) /\ QueuesAre(rq, Sets)
      /\ \A r \in Prio, u \in Task : u \in Sets[r] <=> InQueue(u) /\ prio[u] = r
      /\ \A r \in Prio : prev \notin Sets[r]
  BY <1>2, SetsAre DEF Quiet, InQueue
<1> HIDE DEF prev, Sets
<1>4. /\ q \in RunQueues /\ QueuesAre(q, S1)
      /\ again => q.active # {} /\ q.nxt[prev] = NULL
      /\ \A u \in Task : ~InQueue(u) /\ ~(u = prev /\ again) => q.nxt[u] = rq.nxt[u]
  <2>1. CASE again
    <3>1. S1 = [Sets EXCEPT ![prio[prev]] = @ \cup {prev}]
      BY <2>1
    <3>2. q = sched_enqueue_task(rq, prev, prio[prev])
      BY <2>1
    <3> QED
      BY <1>2, <1>3, <2>1, <3>1, <3>2, EnqueueQueues
  <2>2. CASE ~again
    BY <1>2, <1>3, <2>2
  <2> QED
    BY <2>1, <2>2
<1>5. /\ Partition(S1)
      /\ \A p \in Prio, u \in Task :
           u \in S1[p] <=> prio[u] = p /\ (InQueue(u) \/ (u = prev /\ again))
  BY <1>2, <1>3 DEF Partition
<1> HIDE DEF q, S1, again
<1>6. CASE q.active = {}
  <2>1. next = prev /\ (\A p \in Prio : S1[p] = {}) /\ ~again
    BY <1>4, <1>5, <1>6, PickedIs DEF prev
  <2>2. \A p \in Prio : prev \notin S1[p]
    BY <2>1
  <2>3. CASE prio[prev] = IDLE
    <3>1. rq' = rq /\ q = rq
      BY <1>1, <2>1, <2>3 DEF q
    <3>2. rq.nxt[prev] = NULL
      BY <1>2, <2>3 DEF Quiet, IdleSound, StatesSound, prev
    <3>3. /\ S1 \in [Prio -> SUBSET Task] /\ QueuesAre(rq', S1)
          /\ \A p \in Prio, u \in Task :
               u \in S1[p] <=> /\ prio[u] = p /\ u # next
                               /\ InQueue(u) \/ (u = prev /\ Requeued(prev))
      BY <1>4, <1>5, <2>1, <3>1 DEF again, Partition
    <3>4. Chosen(prev, next)
      BY <1>2, <2>1, <3>1, <3>2, <3>3 DEF Chosen
    <3> QED
      BY <1>1, <3>4 DEF again, prev
  <2>4. CASE prio[prev] # IDLE
    <3>1. rq' = sched_dequeue_task(q, prev, prio[prev])
      BY <1>1, <2>1, <2>4
    <3>2. /\ rq' \in RunQueues /\ QueuesAre(rq', S1) /\ rq'.nxt[prev] = NULL
          /\ \A u \in Task : u # prev => rq'.nxt[u] = q.nxt[u]
      BY <1>2, <1>4, <1>5, <2>1, <2>2, <3>1, DequeueOther
    <3>3. /\ S1 \in [Prio -> SUBSET Task]
          /\ \A p \in Prio, u \in Task :
               u \in S1[p] <=> /\ prio[u] = p /\ u # next
                               /\ InQueue(u) \/ (u = prev /\ Requeued(prev))
      BY <1>5, <2>1 DEF again, Partition
    <3>4. Chosen(prev, next)
      BY <1>2, <1>4, <2>1, <3>2, <3>3 DEF Chosen, again
    <3> QED
      BY <1>1, <3>4 DEF again, prev
  <2> QED
    BY <2>3, <2>4
<1>7. CASE q.active # {}
  <2>1. PICK p \in Prio : S1[p] # {} /\ next = q.head[p]
    BY <1>4, <1>5, <1>7, PickedIs
  <2> DEFINE e == sched_dequeue_task(q, next, p)
             S2 == [S1 EXCEPT ![p] = @ \ {next}]
  <2>2. /\ next \in S1[p] /\ e \in RunQueues /\ QueuesAre(e, S2) /\ e.nxt[next] = NULL
        /\ \A u \in Task : u # next => e.nxt[u] = q.nxt[u]
    BY <1>4, <1>5, <2>1, DequeueFirst
  <2> HIDE DEF next
  <2>3. next \in Task /\ prio[next] = p /\ p # IDLE /\ (next = prev \/ InQueue(next))
    BY <1>5, <2>2 DEF Partition, InQueue, again, Requeued
  <2>4. rq' = e
    BY <1>1, <2>3
  <2>5. /\ S2 \in [Prio -> SUBSET Task]
        /\ \A r \in Prio : S2[r] = IF r = p THEN S1[p] \ {next} ELSE S1[r]
    BY <1>5 DEF Partition
  <2>6. \A r \in Prio, u \in Task :
          u \in S2[r] <=> /\ prio[u] = r /\ u # next
                          /\ InQueue(u) \/ (u = prev /\ Requeued(prev))
    BY <1>5, <2>3, <2>5 DEF again
  <2> HIDE DEF S2, e
  <2>7. Chosen(prev, next)
    BY <1>4, <2>2, <2>3, <2>4, <2>5, <2>6 DEF Chosen, again
  <2> QED
    BY <1>1, <2>7 DEF again, prev
<1> QED
  BY <1>6, <1>7

\* The critical section of sched_yield.
LEMMA PickInv ==
  ASSUME SchedInv, NEW c \in Core, YieldPick(c)
  PROVE  SchedInv'
<1> DEFINE prev == task[c]
<1>1. PICK next : /\ Chosen(prev, next)
                  /\ state' = [state EXCEPT ![prev] = IF Requeued(prev) THEN "READY" ELSE @,
                                            ![next] = "RUNNING"]
                  /\ task' = [task EXCEPT ![c] = next]
                  /\ Go(c, IF next = prev THEN "unlock" ELSE "switch", pc[c].flow)
  BY PickChooses
<1> DEFINE label == IF next = prev THEN "unlock" ELSE "switch"
<1>2. /\ TypeOK /\ At(c, "lock") /\ NoWake /\ Quiet
      /\ sched_lock = NULL /\ sched_lock' = c
      /\ \A d \in Core : pc[d].at \notin {"switch", "unlock", "fork", "wake"}
      /\ \A d \in Core : stack[d] = task[d]
      /\ UNCHANGED <<prio, joinq, ctx, mem, task_to_free, stack>>
  BY NobodyHolds DEF SchedInv, YieldPick, pthread_spin_lock
<1>3. /\ pc' \in [Core -> [at : Label, flow : FlowSet]]
      /\ pc'[c].at = label /\ pc'[c].flow = pc[c].flow
      /\ \A d \in Core : d # c => pc'[d] = pc[d]
      /\ \A d \in Core, l \in Label : At(d, l)' <=> IF d = c THEN l = label ELSE At(d, l)
  <2>1. pc[c].flow \in FlowSet /\ label \in Label
    BY <1>2 DEF TypeOK, FlowSet, Kind, Label
  <2> QED
    BY <1>1, <1>2, <2>1, GoMoves
<1>4. /\ prev \in Task /\ next \in Task
      /\ next = prev \/ (InQueue(next) /\ state[next] = "READY" /\ mem[next] = "live")
      /\ state[prev] # "READY"
      /\ \A d \in Core : d # c => task[d] # prev
      /\ \A d \in Core : d # c => task[d] # next
  BY <1>1, <1>2 DEF SchedInv, TypeOK, OneCorePerThread, Quiet, StatesSound, Chosen, InQueue
<1>5. /\ state' \in [Task -> State] /\ state'[next] = "RUNNING"
      /\ next # prev => state'[prev] = IF Requeued(prev) THEN "READY" ELSE state[prev]
      /\ \A u \in Task : u # prev /\ u # next => state'[u] = state[u]
      /\ task' \in [Core -> Task] /\ task'[c] = next
      /\ \A d \in Core : d # c => task'[d] = task[d] /\ task[d] \in Task
  BY <1>1, <1>2, <1>4 DEF TypeOK, State
<1>6. /\ state[prev] = "RUNNING" => mem[prev] = "live"
      /\ pc[c].flow.kind = "exit" => state[prev] = "EXITED"
      /\ pc[c].flow.kind # "exit" => mem[prev] = "live"
  BY <1>2 DEF Quiet, MemSound, StatesSound, At
<1>7. /\ stack[c] = prev
      /\ next \in Thread => mem[next] # "none"
      /\ prio[next] = IDLE => next \in Core \ {Boot}
  BY <1>2, <1>4 DEF Quiet, MemSound, IdleSound, InQueue
<1> HIDE DEF prev
<1>8. TypeOK'
  BY <1>1, <1>2, <1>3, <1>5 DEF TypeOK, Label, FlowSet, Kind, RunQueues, Chosen
<1>9. LockHandedOver'
  BY <1>2, <1>3 DEF LockHandedOver, Label
<1>10. OneCorePerThread'
  BY <1>2, <1>4, <1>5 DEF SchedInv, OneCorePerThread
<1>11. StackSound'
  BY <1>2, <1>3, <1>5, <1>7 DEF StackSound, At
<1>12. FlowSound'
  BY <1>2, <1>3, <1>5 DEF SchedInv, FlowSound, At, Label
<1>13. FreeSound'
  BY <1>2, <1>3, <1>5 DEF SchedInv, FreeSound, At, Label
<1>14. StatesSound'
  <2>1. \A u \in Task : state'[u] = "RUNNING" => rq'.nxt[u] = NULL
    <3> SUFFICES ASSUME NEW u \in Task, state'[u] = "RUNNING" PROVE rq'.nxt[u] = NULL
      OBVIOUS
    <3>1. CASE u = next
      BY <1>1, <3>1 DEF Chosen
    <3>2. CASE u # next
      <4>1. state[u] = "RUNNING" /\ ~InQueue(u) /\ ~(u = prev /\ Requeued(prev))
        BY <1>4, <1>5, <3>2 DEF InQueue, Requeued
      <4> QED
        BY <1>1, <1>2, <3>2, <4>1 DEF Chosen, Quiet, StatesSound
    <3> QED
      BY <3>1, <3>2
  <2>2. \A u \in Task : state'[u] = "EXITED" => joinq[u] = NULL
    BY <1>2, <1>5 DEF Quiet, StatesSound
  <2>3. \A u \in Task : ctx[u].kind = "exit" =>
          state'[u] = "EXITED" /\ \A d \in Core : task'[d] # u
    BY <1>2, <1>4, <1>5 DEF Quiet, StatesSound, prev
  <2>4. \A d \in Core :
          d # c => state'[task'[d]] = state[task[d]] /\ state'[stack[d]] = state[stack[d]]
    BY <1>2, <1>4, <1>5
  <2>5. next # prev /\ pc[c].flow.kind = "exit" => state'[stack[c]] = "EXITED"
    BY <1>5, <1>6, <1>7 DEF Requeued
  <2> QED
    BY <1>2, <1>3, <1>5, <2>1, <2>2, <2>3, <2>4, <2>5 DEF Quiet, StatesSound, At
<1>15. OffSound'
  BY <1>2, <1>3, <1>5 DEF Quiet, OffSound, At, Label
<1>16. IdleSound'
  BY <1>2, <1>4, <1>5, <1>7, CoresAreTasks DEF Quiet, IdleSound, Requeued, InQueue
<1>17. MemSound'
  BY <1>2, <1>3, <1>4, <1>5, <1>6, <1>7 DEF Quiet, MemSound
<1>18. \A u \in Task : Newborn(u) => u # prev /\ u # next
  BY <1>2, <1>4 DEF Newborn, InQueue, Quiet, NewbornSound
<1>19. NewbornSound'
  <2>1. \A d \in Core : At(d, "create") => /\ pc[d].flow.t \in Task /\ d # c
                                           /\ state'[pc[d].flow.t] = state[pc[d].flow.t]
    BY <1>2, <1>5, <1>18, CoresAreTasks DEF SchedInv, FlowSound, Newborn, At
  <2> QED
    BY <1>2, <1>3, <2>1 DEF Quiet, NewbornSound, At
<1>20. QueuesAre(rq, Sets)'
  <2>1. PICK S \in [Prio -> SUBSET Task] :
          /\ QueuesAre(rq', S)
          /\ \A p \in Prio, u \in Task :
               u \in S[p] <=> /\ prio[u] = p /\ u # next
                              /\ InQueue(u) \/ (u = prev /\ Requeued(prev))
    BY <1>1 DEF Chosen
  <2>2. \A u \in Task : Newborn(u)' <=> Newborn(u)
    BY <1>2, <1>3 DEF Newborn, At
  <2>3. \A u \in Task : InQueue(u)' <=> u # next /\ (InQueue(u) \/ (u = prev /\ Requeued(prev)))
    <3> TAKE u \in Task
    <3>1. CASE u = next
      BY <1>5, <3>1 DEF InQueue
    <3>2. CASE u # next /\ u = prev
      BY <1>2, <1>4, <1>5, <1>6, <1>18, <2>2, <3>2 DEF InQueue, Requeued
    <3>3. CASE u # next /\ u # prev
      BY <1>2, <1>5, <2>2, <3>3 DEF InQueue
    <3> QED
      BY <3>1, <3>2, <3>3
  <2>4. \A p \in Prio, u \in Task : u \in S[p] <=> InQueue(u)' /\ prio'[u] = p
    BY <1>2, <2>1, <2>3
  <2>5. Sets' = S
    BY <2>1, <2>4, SetsBecome
  <2>6. QueuesAre(rq', S) => QueuesAre(rq, Sets)'
    BY <2>5 DEF QueuesAre
  <2> QED
    BY <2>1, <2>6
<1> QED
  BY <1>8, <1>9, <1>10, <1>11, <1>12, <1>13, <1>14, <1>15, <1>16, <1>17, <1>19, <1>20
  DEF SchedInv, Quiet

\* One step per action of Next.
LEMMA NextInv ==
  ASSUME SchedInv, [Next]_vars
  PROVE  SchedInv'
<1>1. CASE UNCHANGED vars
  <2>1. /\ TypeOK' <=> TypeOK
        /\ LockHandedOver' <=> LockHandedOver
        /\ OneCorePerThread' <=> OneCorePerThread
        /\ StackSound' <=> StackSound
        /\ FlowSound' <=> FlowSound
        /\ FreeSound' <=> FreeSound
        /\ NoWake' <=> NoWake
    BY <1>1 DEF vars, TypeOK, LockHandedOver, OneCorePerThread, StackSound, FlowSound,
                FreeSound, NoWake, At
  <2>2. ASSUME Quiet PROVE Quiet'
    <3>1. StatesSound' /\ OffSound' /\ IdleSound' /\ MemSound' /\ NewbornSound'
      BY <1>1, <2>2 DEF vars, Quiet, StatesSound, OffSound, IdleSound, MemSound, NewbornSound, At
    <3>2. \A t \in Task : InQueue(t)' <=> InQueue(t)
      BY <1>1 DEF vars, InQueue, Newborn, At
    <3>3. QueuesAre(rq, Sets)'
      BY <1>1, <2>2, <3>2, SetsKept DEF vars, Quiet, SchedInv
    <3> QED
      BY <3>1, <3>3 DEF Quiet
  <2> QED
    BY <2>1, <2>2 DEF SchedInv
<1>2. ASSUME NEW c \in Core, Spin(c) PROVE SchedInv'
  BY <1>1, <1>2 DEF Spin
<1>3. ASSUME NEW c \in Core, Proceed(c) PROVE SchedInv'
  BY <1>2, <1>3, YieldInv, ExitYieldInv, SwitchInv, UnlockInv, ForkInv, PollInv, WakeInv
  DEF Proceed
<1>4. ASSUME NEW c \in Core, Acquire(c) PROVE SchedInv'
  BY <1>4, PickInv, EnqueueInv DEF Acquire
<1> QED
  BY <1>1, <1>3, <1>4, StartsInv, CreateInv, JoinInv, ExitInv DEF Next
------------------------------------------------------------------------------
\* At every moment of every execution of the scheduler.
THEOREM SchedInvariant == Spec => []SchedInv
BY InitInv, NextInv, PTL DEF Spec

\* Every variable keeps its type: in particular every priority is an index of
\* the run queues, and every link is a task or NULL.
THEOREM SchedTypes == Spec => []TypeOK
<1>1. SchedInv => TypeOK
  BY DEF SchedInv
<1> QED
  BY <1>1, SchedInvariant, PTL

\* No thread is the current thread of two cores, and no two cores execute on
\* one stack, although sched_yield makes a thread ready before its context has
\* been saved.
THEOREM ThreadsHaveOneCore == Spec => []OneCorePerThread
<1>1. SchedInv => OneCorePerThread
  BY DEF SchedInv
<1> QED
  BY <1>1, SchedInvariant, PTL

\* sched_lock is held by exactly the core that is between taking it in one
\* thread and releasing it in another.
THEOREM LockIsHandedOver == Spec => []LockHandedOver
<1>1. SchedInv => LockHandedOver
  BY DEF SchedInv
<1> QED
  BY <1>1, SchedInvariant, PTL

\* A task is freed by one core only, and once: task_to_free never names a task
\* that is free already or that another core is about to free.
THEOREM TasksFreedOnce == Spec => []FreedOnce
<1>1. SchedInv => FreedOnce
  BY DEF SchedInv, FreeSound, OneCorePerThread, FreedOnce
<1> QED
  BY <1>1, SchedInvariant, PTL

\* Unless some core is in the wake-up loop, each run queue is a doubly linked
\* list of exactly the ready threads of its priority, and the bitmap is right.
THEOREM RunQueuesAreSound == Spec => []RunQueuesSound
<1>1. ASSUME SchedInv, NoWake
      PROVE  \A p \in Prio : QueueIs(rq, p, Queued(p))
  BY <1>1 DEF SchedInv, Quiet, QueuesAre, Sets
<1>2. ASSUME NEW p \in Prio, NEW Q, QueueIs(rq, p, Q)
      PROVE  /\ p \in rq.active <=> Q # {}
             /\ Q = {} => rq.head[p] = NULL /\ rq.tail[p] = NULL
             /\ Q # {} =>
                  \E pos \in [Q -> 1 .. Cardinality(Q)] :
                    /\ \A t, u \in Q : pos[t] = pos[u] => t = u
                    /\ rq.head[p] \in Q /\ rq.tail[p] \in Q
                    /\ pos[rq.head[p]] = 1 /\ rq.prv[rq.head[p]] = NULL
                    /\ pos[rq.tail[p]] = Cardinality(Q) /\ rq.nxt[rq.tail[p]] = NULL
                    /\ \A t, u \in Q : pos[u] = pos[t] + 1 => rq.nxt[t] = u /\ rq.prv[u] = t
  BY <1>2, Zenon DEF QueueIs, Numbered
<1>3. SchedInv => RunQueuesSound
  BY <1>1, <1>2 DEF RunQueuesSound, NoWake
<1> QED
  BY <1>3, SchedInvariant, PTL
==============================================================================
