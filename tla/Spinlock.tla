------------------------------- MODULE Spinlock ------------------------------
(***************************************************************************)
(* The spinlocks of src/src/pthread.c: one word per lock, taken with a     *)
(* compare-and-swap that may fail for no reason, waited for with plain     *)
(* loads, released with a store.  The word does not say who holds it; at   *)
(* does, per agent (a core's thread code or an interrupt handler) and      *)
(* lock.  Console composes these steps with printf and scanf.              *)
(***************************************************************************)
EXTENDS Naturals

CONSTANTS Lock, Agent, Nobody

ASSUME SpinAssumption == Nobody \notin Agent

VARIABLES
  word,          \* pthread_spinlock_t: 1 when taken, else 0
  at             \* "out", "cas" or "wait" inside pthread_spin_lock, or "in"

spinVars == <<word, at>>

\* pthread_spin_init, and the zeroed static locks.
SpinInit ==
  /\ word = [l \in Lock |-> 0]
  /\ at = [a \in Agent |-> [l \in Lock |-> "out"]]

Holds(a, l) == at[a][l] = "in"
Waits(a, l) == at[a][l] \in {"cas", "wait"}
Move(a, l, label) == at' = [at EXCEPT ![a][l] = label]

pthread_spin_lock(a, l) ==
  /\ at[a][l] = "out"
  /\ Move(a, l, "cas")
  /\ UNCHANGED word

MutCompareExchange(a, l) ==
  /\ at[a][l] = "cas"
  /\ word' = [word EXCEPT ![l] = 1]
  /\ Move(a, l, "in")

\* atomic_compare_exchange_weak: 0 becomes 1.
CompareExchange(a, l) ==
  /\ at[a][l] = "cas"
  /\ word[l] = 0
  /\ word' = [word EXCEPT ![l] = 1]
  /\ Move(a, l, "in")

\* It fails when the lock is taken, and it may fail when it is not.
CompareFails(a, l) ==
  /\ at[a][l] = "cas"
  /\ Move(a, l, "wait")
  /\ UNCHANGED word

MutSpinWait(a, l) ==
  /\ at[a][l] = "wait" /\ word[l] = 0
  /\ Move(a, l, "in")
  /\ UNCHANGED word

\* The inner loop of relaxed loads; while the word is 1 it changes nothing.
SpinWait(a, l) ==
  /\ at[a][l] = "wait" /\ word[l] = 0
  /\ Move(a, l, "cas")
  /\ UNCHANGED word

\* The strong compare-and-swap; EBUSY changes nothing.
pthread_spin_trylock(a, l) ==
  /\ at[a][l] = "out" /\ word[l] = 0
  /\ word' = [word EXCEPT ![l] = 1]
  /\ Move(a, l, "in")

pthread_spin_unlock(a, l) ==
  /\ at[a][l] = "in"
  /\ word' = [word EXCEPT ![l] = 0]
  /\ Move(a, l, "out")

\* Destroying a lock only asks whether it is free: EBUSY if not.
pthread_spin_destroy(l) == IF word[l] # 0 THEN "EBUSY" ELSE "OK"

\* The steps of pthread_spin_lock once it is called.
SpinStep(a, l) == CompareExchange(a, l) \/ CompareFails(a, l) \/ SpinWait(a, l)

SpinNext ==
  \E a \in Agent, l \in Lock :
    \/ pthread_spin_lock(a, l) \/ pthread_spin_trylock(a, l)
    \/ SpinStep(a, l) \/ pthread_spin_unlock(a, l)

SpinSpec == SpinInit /\ [][SpinNext]_spinVars
------------------------------------------------------------------------------
\* At most one agent is inside a lock, and the word tells whether one is, so
\* that trylock and destroy report EBUSY exactly when the lock is held.
MutualExclusion ==
  \A l \in Lock :
    /\ \A a, b \in Agent : Holds(a, l) /\ Holds(b, l) => a = b
    /\ pthread_spin_destroy(l) = "EBUSY" <=> \E a \in Agent : Holds(a, l)

\* The agent that holds a lock, as the abstract lock has it.
Owner == [l \in Lock |-> IF \E a \in Agent : Holds(a, l)
                         THEN CHOOSE a \in Agent : Holds(a, l) ELSE Nobody]

\* A word, a compare-and-swap and a store implement Mutex: ownership passes
\* only through a release, however the agents' attempts interleave.
Locks == INSTANCE Mutex WITH owner <- Owner
ImplementsMutex == Locks!Spec
==============================================================================
