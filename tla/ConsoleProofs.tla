---------------------------- MODULE ConsoleProofs ----------------------------
(***************************************************************************)
(* For every set of agents and locks, the spinlocks of src/src/pthread.c   *)
(* exclude each other's holders and implement Mutex; this first part uses  *)
(* Spinlock and SpinAssumption only.  For every set of cores, handlers,    *)
(* formats and keys: the console uses its locks as a Mutex, a printf's     *)
(* text appears whole and a typed line goes to one reader.                 *)
(***************************************************************************)
EXTENDS Console, FiniteSetTheorems, SequenceTheorems, TLAPS

SpinTypeOK ==
  /\ word \in [Lock -> {0, 1}]
  /\ at \in [Agent -> [Lock -> {"out", "cas", "wait", "in"}]]

\* The word is set while somebody is inside, and only one agent ever is.
WordTells ==
  \A l \in Lock :
    /\ \A a, b \in Agent : Holds(a, l) /\ Holds(b, l) => a = b
    /\ word[l] = 1 <=> \E a \in Agent : Holds(a, l)

SpinInv == SpinTypeOK /\ WordTells
------------------------------------------------------------------------------
\* Who holds what, after an agent has moved.
LEMMA MoveHolds ==
  ASSUME SpinTypeOK, NEW a \in Agent, NEW l \in Lock,
         NEW label \in {"out", "cas", "wait", "in"}, Move(a, l, label)
  PROVE  /\ at' \in [Agent -> [Lock -> {"out", "cas", "wait", "in"}]]
         /\ \A b \in Agent, k \in Lock :
              Holds(b, k)' <=> IF b = a /\ k = l THEN label = "in" ELSE Holds(b, k)
BY DEF SpinTypeOK, Move, Holds

\* An attempt that fails, and the wait for the word, change nobody's lock.
LEMMA NobodyEnters ==
  ASSUME SpinInv, NEW a \in Agent, NEW l \in Lock,
         NEW label \in {"out", "cas", "wait"}, at[a][l] # "in",
         Move(a, l, label), UNCHANGED word
  PROVE  /\ SpinInv'
         /\ \A b \in Agent, k \in Lock : Holds(b, k)' <=> Holds(b, k)
<1>1. /\ at' \in [Agent -> [Lock -> {"out", "cas", "wait", "in"}]]
      /\ \A b \in Agent, k \in Lock :
           Holds(b, k)' <=> IF b = a /\ k = l THEN label = "in" ELSE Holds(b, k)
  BY MoveHolds DEF SpinInv
<1>2. ~Holds(a, l) /\ label # "in"
  BY DEF Holds
<1>3. \A b \in Agent, k \in Lock : Holds(b, k)' <=> Holds(b, k)
  BY <1>1, <1>2
<1>4. SpinTypeOK'
  BY <1>1 DEF SpinInv, SpinTypeOK
<1>5. WordTells'
  BY <1>3 DEF SpinInv, WordTells
<1> QED
  BY <1>3, <1>4, <1>5 DEF SpinInv

\* Both compare-and-swaps: from 0 to 1, and the agent is inside.
LEMMA OneEnters ==
  ASSUME SpinInv, NEW a \in Agent, NEW l \in Lock, word[l] = 0,
         word' = [word EXCEPT ![l] = 1], Move(a, l, "in")
  PROVE  /\ SpinInv'
         /\ \A b \in Agent : ~Holds(b, l)
         /\ \A b \in Agent, k \in Lock :
              Holds(b, k)' <=> (b = a /\ k = l) \/ Holds(b, k)
<1>1. /\ at' \in [Agent -> [Lock -> {"out", "cas", "wait", "in"}]]
      /\ \A b \in Agent, k \in Lock :
           Holds(b, k)' <=> IF b = a /\ k = l THEN "in" = "in" ELSE Holds(b, k)
  BY MoveHolds DEF SpinInv
<1>2. \A b \in Agent : ~Holds(b, l)
  BY DEF SpinInv, SpinTypeOK, WordTells
<1>3. \A b \in Agent, k \in Lock : Holds(b, k)' <=> (b = a /\ k = l) \/ Holds(b, k)
  BY <1>1
<1>4. SpinTypeOK' /\ \A k \in Lock : word'[k] = IF k = l THEN 1 ELSE word[k]
  BY <1>1 DEF SpinInv, SpinTypeOK
<1>5. WordTells'
  BY <1>2, <1>3, <1>4 DEF SpinInv, WordTells
<1> QED
  BY <1>2, <1>3, <1>4, <1>5 DEF SpinInv

\* The store of 0 by the agent that is inside.
LEMMA OneLeaves ==
  ASSUME SpinInv, NEW a \in Agent, NEW l \in Lock, pthread_spin_unlock(a, l)
  PROVE  /\ SpinInv'
         /\ Holds(a, l)
         /\ \A b \in Agent : ~Holds(b, l)'
         /\ \A b \in Agent, k \in Lock : k # l => (Holds(b, k)' <=> Holds(b, k))
<1>1. /\ at' \in [Agent -> [Lock -> {"out", "cas", "wait", "in"}]]
      /\ \A b \in Agent, k \in Lock :
           Holds(b, k)' <=> IF b = a /\ k = l THEN "out" = "in" ELSE Holds(b, k)
  BY MoveHolds DEF SpinInv, pthread_spin_unlock
<1>2. Holds(a, l) /\ \A b \in Agent : Holds(b, l) => b = a
  BY DEF SpinInv, WordTells, Holds, pthread_spin_unlock
<1>3. /\ \A b \in Agent : ~Holds(b, l)'
      /\ \A b \in Agent, k \in Lock : k # l => (Holds(b, k)' <=> Holds(b, k))
  BY <1>1, <1>2
<1>4. SpinTypeOK' /\ \A k \in Lock : word'[k] = IF k = l THEN 0 ELSE word[k]
  BY <1>1 DEF SpinInv, SpinTypeOK, pthread_spin_unlock
<1>5. WordTells'
  BY <1>3, <1>4 DEF SpinInv, WordTells
<1> QED
  BY <1>2, <1>3, <1>4, <1>5 DEF SpinInv
------------------------------------------------------------------------------
\* The abstract owner, for each lock.
LEMMA OwnerIs ==
  ASSUME WordTells, NEW l \in Lock
  PROVE  /\ \A a \in Agent : Holds(a, l) => Owner[l] = a
         /\ (\A a \in Agent : ~Holds(a, l)) => Owner[l] = Nobody
BY DEF Owner, WordTells

\* The same after a step.
LEMMA OwnerIsNext ==
  ASSUME WordTells', NEW l \in Lock
  PROVE  /\ \A a \in Agent : Holds(a, l)' => Owner'[l] = a
         /\ (\A a \in Agent : ~Holds(a, l)') => Owner'[l] = Nobody
BY DEF Owner, WordTells, Holds

\* Owner is a function on the locks, before and after a step.
LEMMA OwnerShape ==
  /\ Owner = [l \in Lock |-> Owner[l]]
  /\ Owner' = [l \in Lock |-> Owner'[l]]
BY DEF Owner

\* A step after which everybody holds what it held changes no owner.
LEMMA OwnerKept ==
  ASSUME SpinInv, SpinInv', NEW K \in SUBSET Lock,
         \A b \in Agent, k \in K : Holds(b, k)' <=> Holds(b, k)
  PROVE  \A k \in K : Owner'[k] = Owner[k]
<1> SUFFICES ASSUME NEW k \in K PROVE Owner'[k] = Owner[k]
  OBVIOUS
<1>1. CASE \E b \in Agent : Holds(b, k)
  <2>1. PICK b \in Agent : Holds(b, k) /\ Holds(b, k)'
    BY <1>1
  <2> QED
    BY <2>1, OwnerIs, OwnerIsNext DEF SpinInv
<1>2. CASE \A b \in Agent : ~Holds(b, k)
  BY <1>2, OwnerIs, OwnerIsNext DEF SpinInv
<1> QED
  BY <1>1, <1>2

\* The step of the abstract lock behind a compare-and-swap.
LEMMA Acquires ==
  ASSUME SpinInv, NEW a \in Agent, NEW l \in Lock, word[l] = 0,
         word' = [word EXCEPT ![l] = 1], Move(a, l, "in")
  PROVE  SpinInv' /\ Locks!Acquire(a, l)
<1>1. /\ SpinInv'
      /\ \A b \in Agent : ~Holds(b, l)
      /\ \A b \in Agent, k \in Lock : Holds(b, k)' <=> (b = a /\ k = l) \/ Holds(b, k)
  BY OneEnters
<1>2. Owner[l] = Nobody
  BY <1>1, OwnerIs DEF SpinInv
<1>3. Owner'[l] = a
  BY <1>1, OwnerIsNext DEF SpinInv
<1>4. \A k \in Lock \ {l} : Owner'[k] = Owner[k]
  BY <1>1, OwnerKept
<1>5. Owner' = [Owner EXCEPT ![l] = a]
  BY <1>3, <1>4, OwnerShape
<1> QED
  BY <1>1, <1>2, <1>5 DEF Locks!Acquire

\* The step of the abstract lock behind the store of 0.
LEMMA Releases ==
  ASSUME SpinInv, NEW a \in Agent, NEW l \in Lock, pthread_spin_unlock(a, l)
  PROVE  SpinInv' /\ Locks!Release(a, l)
<1>1. /\ SpinInv'
      /\ Holds(a, l)
      /\ \A b \in Agent : ~Holds(b, l)'
      /\ \A b \in Agent, k \in Lock : k # l => (Holds(b, k)' <=> Holds(b, k))
  BY OneLeaves
<1>2. Owner[l] = a
  BY <1>1, OwnerIs DEF SpinInv
<1>3. Owner'[l] = Nobody
  BY <1>1, OwnerIsNext DEF SpinInv
<1>4. \A k \in Lock \ {l} : Owner'[k] = Owner[k]
  BY <1>1, OwnerKept
<1>5. Owner' = [Owner EXCEPT ![l] = Nobody]
  BY <1>3, <1>4, OwnerShape
<1> QED
  BY <1>1, <1>2, <1>5 DEF Locks!Release

\* The attempts that fail and the waiting are steps the abstract lock does
\* not see.
LEMMA Stutters ==
  ASSUME SpinInv, NEW a \in Agent, NEW l \in Lock,
         NEW label \in {"out", "cas", "wait"}, at[a][l] # "in",
         Move(a, l, label), UNCHANGED word
  PROVE  SpinInv' /\ UNCHANGED Owner
<1>1. SpinInv' /\ \A b \in Agent, k \in Lock : Holds(b, k)' <=> Holds(b, k)
  BY NobodyEnters
<1>2. \A k \in Lock : Owner'[k] = Owner[k]
  BY <1>1, OwnerKept
<1> QED
  BY <1>1, <1>2, OwnerShape
------------------------------------------------------------------------------
\* All locks are free at first.
LEMMA SpinStarts == SpinInit => SpinInv /\ Locks!Init
<1> SUFFICES ASSUME SpinInit PROVE SpinInv /\ Locks!Init
  OBVIOUS
<1>1. SpinTypeOK /\ \A a \in Agent, l \in Lock : ~Holds(a, l)
  BY DEF SpinInit, SpinTypeOK, Holds
<1>2. \A l \in Lock : word[l] = 0
  BY DEF SpinInit
<1>3. WordTells
  <2>1. \A l \in Lock : ~(word[l] = 1)
    <3> TAKE l \in Lock
    <3>1. word[l] = 0
      BY <1>2
    <3>2. 0 # 1
      OBVIOUS
    <3> QED
      BY <3>1, <3>2, Zenon
  <2> QED
    BY <1>1, <2>1 DEF WordTells
<1> QED
  BY <1>1, <1>3 DEF SpinInv, Locks!Init, Owner

\* Every step keeps the invariant and is one of Mutex or none.
LEMMA SpinSteps ==
  SpinInv /\ [SpinNext]_spinVars => SpinInv' /\ [Locks!Next]_Owner
<1> SUFFICES ASSUME SpinInv, [SpinNext]_spinVars
             PROVE  SpinInv' /\ [Locks!Next]_Owner
  OBVIOUS
<1>1. ASSUME NEW a \in Agent, NEW l \in Lock, pthread_spin_lock(a, l)
      PROVE  SpinInv' /\ UNCHANGED Owner
  BY <1>1, Stutters DEF pthread_spin_lock
<1>2. ASSUME NEW a \in Agent, NEW l \in Lock, pthread_spin_trylock(a, l)
      PROVE  SpinInv' /\ Locks!Acquire(a, l)
  BY <1>2, Acquires DEF pthread_spin_trylock
<1>3. ASSUME NEW a \in Agent, NEW l \in Lock, CompareExchange(a, l)
      PROVE  SpinInv' /\ Locks!Acquire(a, l)
  BY <1>3, Acquires DEF CompareExchange
<1>4. ASSUME NEW a \in Agent, NEW l \in Lock, CompareFails(a, l)
      PROVE  SpinInv' /\ UNCHANGED Owner
  BY <1>4, Stutters DEF CompareFails
<1>5. ASSUME NEW a \in Agent, NEW l \in Lock, SpinWait(a, l)
      PROVE  SpinInv' /\ UNCHANGED Owner
  BY <1>5, Stutters DEF SpinWait
<1>6. ASSUME NEW a \in Agent, NEW l \in Lock, pthread_spin_unlock(a, l)
      PROVE  SpinInv' /\ Locks!Release(a, l)
  BY <1>6, Releases
<1>7. CASE UNCHANGED spinVars
  BY <1>7 DEF SpinInv, SpinTypeOK, WordTells, Holds, Owner, spinVars
<1> QED
  BY <1>1, <1>2, <1>3, <1>4, <1>5, <1>6, <1>7 DEF SpinNext, SpinStep, Locks!Next

\* The word and the steps inside pthread_spin_lock stay consistent.
THEOREM SpinInvariant == SpinSpec => []SpinInv
<1>1. SpinInit => SpinInv
  BY SpinStarts
<1>2. SpinInv /\ [SpinNext]_spinVars => SpinInv'
  BY SpinSteps
<1> QED
  BY <1>1, <1>2, PTL DEF SpinSpec

\* At most one agent is behind pthread_spin_lock or a successful trylock, and
\* pthread_spin_destroy reports EBUSY exactly while one is.
THEOREM SpinExcludes == SpinSpec => []MutualExclusion
<1>1. ASSUME SpinInv PROVE MutualExclusion
  <2>1. \A l \in Lock : pthread_spin_destroy(l) = "EBUSY" <=> word[l] = 1
    BY <1>1 DEF SpinInv, SpinTypeOK, pthread_spin_destroy
  <2> QED
    BY <1>1, <2>1 DEF SpinInv, WordTells, MutualExclusion
<1> QED
  BY <1>1, SpinInvariant, PTL

\* The spinlock implements Mutex: ownership changes hands only through
\* pthread_spin_unlock.
THEOREM SpinImplementsMutex == SpinSpec => ImplementsMutex
<1>1. SpinInit => Locks!Init
  BY SpinStarts
<1>2. SpinInv /\ [SpinNext]_spinVars => [Locks!Next]_Owner
  BY SpinSteps
<1> QED
  BY <1>1, <1>2, SpinInvariant, PTL DEF SpinSpec, ImplementsMutex, Locks!Spec
------------------------------------------------------------------------------
Fns == {"none", "printf", "scanf", "gets"}
Calls == [fn : Fns, fmt : Seq(STRING), p : Nat, locked : BOOLEAN, buf : Seq(Key)]

\* An agent in a call took its lock, unless it runs before all others do.
CallsSound ==
  /\ call \in [Agent -> Calls]
  /\ \A a \in Agent : ~In(a, "none") =>
       /\ call[a].locked = mmu_enabled
       /\ ~mmu_enabled => a = Boot

\* A line is typed for the agent in gets, which holds read_lock.
ReaderSound ==
  /\ \A a \in Agent : In(a, "gets") =>
       /\ mmu_enabled => Holds(a, "read")
       /\ call[a].p < Len(call[a].fmt)
  /\ (\A a \in Agent : ~In(a, "gets")) => typed = <<>>

\* The conversions that printf has passed it has passed to their end.
Passed(fmt, p) ==
  \A j \in 1 .. p - 1 : fmt[j] = "%" /\ Conversion(fmt, j) => j + Span(fmt, j) <= p

\* Nothing is put before the lock is taken, and then what the format says.
TextOf(a) ==
  In(a, "printf") =>
    /\ mmu_enabled /\ ~Holds(a, "print") => call[a].p = 1
    /\ Passed(call[a].fmt, call[a].p)
    /\ Inside(a, "printf", "print") /\ call[a].p > 1 =>
         Unechoed(uart) = Rendered(call[a].fmt, call[a].p)
TextSound == \A a \in Agent : TextOf(a)

\* The characters that are no echo can be counted off one by one, and there
\* are none while no printf is under way.
Counted(s) ==
  LET P == DOMAIN s \ Echoes(s)
  IN  \A k \in 1 .. Cardinality(P) : Ranked(P, k) # {}
Glyphs == STRING \cup Key \cup {"arg", "\n"}
Signs == [echo : BOOLEAN, c : Glyphs]
UartSound ==
  /\ uart \in Seq(Signs) /\ Counted(uart)
  /\ ~UnderWay => uart = <<>>

ConsoleInv ==
  SpinInv /\ TypeOK /\ CallsSound /\ ReaderSound /\ LineWhole /\ TextSound /\ UartSound
------------------------------------------------------------------------------
\* A sequence with one more element, as a function.
LEMMA OneMore ==
  ASSUME NEW c \in Nat, NEW f, f = [k \in 1 .. c |-> f[k]], NEW x
  PROVE  f \o <<x>> = [k \in 1 .. c + 1 |-> IF k = c + 1 THEN x ELSE f[k]]
<1> DEFINE S == {f[k] : k \in 1 .. c} \cup {x}
           g == [k \in 1 .. c + 1 |-> IF k = c + 1 THEN x ELSE f[k]]
<1>1. f \in [1 .. c -> S] /\ g \in [1 .. c + 1 -> S] /\ x \in S
  OBVIOUS
<1> HIDE DEF S
<1>2. f \in Seq(S) /\ Len(f) = c
  BY <1>1, SeqDef
<1>3. g \in Seq(S) /\ Len(g) = c + 1
  <2>1. c + 1 \in Nat
    OBVIOUS
  <2> HIDE DEF g
  <2>2. g \in Seq(S)
    BY <1>1, <2>1, SeqDef
  <2> QED
    BY <1>1, <2>1, <2>2, LenProperties
<1>4. <<x>> \in Seq(S) /\ Len(<<x>>) = 1 /\ <<x>>[1] = x
  BY <1>1
<1>5. /\ f \o <<x>> \in Seq(S)
      /\ Len(f \o <<x>>) = c + 1
      /\ \A i \in 1 .. c + 1 : (f \o <<x>>)[i] = IF i <= c THEN f[i] ELSE <<x>>[i - c]
  BY <1>2, <1>4, ConcatProperties
<1>6. \A i \in 1 .. c + 1 : g[i] = IF i <= c THEN f[i] ELSE x
  OBVIOUS
<1> HIDE DEF g
<1>7. \A i \in 1 .. c + 1 : (f \o <<x>>)[i] = g[i]
  <2> TAKE i \in 1 .. c + 1
  <2>1. CASE i <= c
    BY <2>1, <1>5, <1>6
  <2>2. CASE i = c + 1
    <3>1. i - c = 1 /\ ~(i <= c)
      BY <2>2
    <3> QED
      BY <3>1, <1>4, <1>5, <1>6
  <2> QED
    BY <2>1, <2>2
<1>8. f \o <<x>> = g
  BY <1>3, <1>5, <1>7, SeqEqual
<1> QED
  BY <1>8 DEF g

\* The text that the characters at the positions P put.
Text(fmt, P) == [k \in 1 .. Cardinality(P) |-> Put(fmt, CHOOSE i \in Ranked(P, k) : TRUE)]

\* Ranks of the positions before a new last one.
LEMMA RankGrows ==
  ASSUME NEW n \in Nat \ {0}, NEW P \in SUBSET (1 .. n - 1)
  PROVE  /\ IsFiniteSet(P) /\ Cardinality(P) \in Nat
         /\ Cardinality(P \cup {n}) = Cardinality(P) + 1
         /\ \A k \in 1 .. Cardinality(P) : Ranked(P \cup {n}, k) = Ranked(P, k)
         /\ Ranked(P \cup {n}, Cardinality(P) + 1) = {n}
<1>1. IsFiniteSet(P) /\ Cardinality(P) \in Nat
  <2>1. IsFiniteSet(1 .. n - 1)
    BY FS_Interval
  <2> QED
    BY <2>1, FS_Subset, FS_CardinalityType
<1>2. n \notin P
  OBVIOUS
<1>3. Cardinality(P \cup {n}) = Cardinality(P) + 1
  BY <1>1, <1>2, FS_AddElement
<1>0. n <= n /\ \A i \in P : i <= n /\ ~(n <= i)
  OBVIOUS
<1>4. \A i \in P : {j \in P \cup {n} : j <= i} = {j \in P : j <= i}
  BY <1>0
<1>5. {j \in P \cup {n} : j <= n} = P \cup {n}
  BY <1>0
<1>6. \A i \in P : /\ Cardinality({j \in P : j <= i}) \in Nat
                   /\ Cardinality({j \in P : j <= i}) <= Cardinality(P)
  <2> TAKE i \in P
  <2>1. {j \in P : j <= i} \in SUBSET P
    OBVIOUS
  <2> QED
    BY <1>1, <2>1, FS_Subset, FS_CardinalityType
<1>7. \A k \in 1 .. Cardinality(P) : Ranked(P \cup {n}, k) = Ranked(P, k)
  <2> TAKE k \in 1 .. Cardinality(P)
  <2>0. Cardinality({j \in P \cup {n} : j <= n}) = Cardinality(P) + 1
    BY <1>3, <1>5
  <2>1. Cardinality({j \in P \cup {n} : j <= n}) # k
    BY <1>1, <2>0
  <2>2. \A i \in P : Cardinality({j \in P \cup {n} : j <= i}) = Cardinality({j \in P : j <= i})
    BY <1>4
  <2> QED
    BY <2>1, <2>2 DEF Ranked
<1>8. Ranked(P \cup {n}, Cardinality(P) + 1) = {n}
  <2>1. Cardinality({j \in P \cup {n} : j <= n}) = Cardinality(P) + 1
    BY <1>3, <1>5
  <2>2. \A i \in P : Cardinality({j \in P \cup {n} : j <= i}) # Cardinality(P) + 1
    <3> TAKE i \in P
    <3>1. {j \in P \cup {n} : j <= i} = {j \in P : j <= i}
      BY <1>4
    <3>2. Cardinality({j \in P : j <= i}) # Cardinality(P) + 1
      BY <1>1, <1>6
    <3> QED
      BY <3>1, <3>2
  <2> QED
    BY <2>1, <2>2 DEF Ranked
<1> QED
  BY <1>1, <1>3, <1>7, <1>8

\* A new last position appends what its character puts.
LEMMA TextGrows ==
  ASSUME NEW n \in Nat \ {0}, NEW P \in SUBSET (1 .. n - 1), NEW fmt
  PROVE  Text(fmt, P \cup {n}) = Text(fmt, P) \o <<Put(fmt, n)>>
<1> DEFINE c == Cardinality(P)
           f == Text(fmt, P)
           g == Text(fmt, P \cup {n})
<1>1. /\ c \in Nat
      /\ Cardinality(P \cup {n}) = c + 1
      /\ \A k \in 1 .. c : Ranked(P \cup {n}, k) = Ranked(P, k)
      /\ Ranked(P \cup {n}, c + 1) = {n}
  BY RankGrows
<1>2. /\ f = [k \in 1 .. c |-> f[k]]
      /\ \A k \in 1 .. c : f[k] = Put(fmt, CHOOSE i \in Ranked(P, k) : TRUE)
  BY DEF Text
<1>3. /\ g = [k \in 1 .. c + 1 |-> g[k]]
      /\ \A k \in 1 .. c + 1 : g[k] = Put(fmt, CHOOSE i \in Ranked(P \cup {n}, k) : TRUE)
  <2>1. g = [k \in 1 .. Cardinality(P \cup {n}) |->
               Put(fmt, CHOOSE i \in Ranked(P \cup {n}, k) : TRUE)]
    BY DEF Text
  <2>2. g = [k \in 1 .. c + 1 |-> Put(fmt, CHOOSE i \in Ranked(P \cup {n}, k) : TRUE)]
    BY <1>1, <2>1
  <2> QED
    BY <2>2
<1>4. g[c + 1] = Put(fmt, n)
  <2>1. (CHOOSE i \in Ranked(P \cup {n}, c + 1) : TRUE) = n
    BY <1>1
  <2>2. c + 1 \in 1 .. c + 1
    BY <1>1
  <2> QED
    BY <1>3, <2>1, <2>2
<1> HIDE DEF c, f, g
<1>5. \A k \in 1 .. c : g[k] = f[k]
  <2> TAKE k \in 1 .. c
  <2>1. k \in 1 .. c + 1 /\ Ranked(P \cup {n}, k) = Ranked(P, k)
    BY <1>1
  <2> QED
    BY <2>1, <1>2, <1>3
<1>6. g = [k \in 1 .. c + 1 |-> IF k = c + 1 THEN Put(fmt, n) ELSE f[k]]
  <2>1. \A k \in 1 .. c + 1 : g[k] = IF k = c + 1 THEN Put(fmt, n) ELSE f[k]
    BY <1>1, <1>4, <1>5
  <2> QED
    BY <1>3, <2>1
<1>7. f \o <<Put(fmt, n)>> = [k \in 1 .. c + 1 |-> IF k = c + 1 THEN Put(fmt, n) ELSE f[k]]
  BY <1>1, <1>2, OneMore
<1> QED
  BY <1>6, <1>7 DEF f, g

\* An empty console.
LEMMA UnechoedEmpty == <<>> \in Seq(Signs) /\ Counted(<<>>) /\ Unechoed(<<>>) = <<>>
<1> DEFINE P == DOMAIN <<>> \ Echoes(<<>>)
<1>1. P = {}
  OBVIOUS
<1>2. Cardinality(P) = 0
  BY <1>1, FS_EmptySet
<1>3. 1 .. Cardinality(P) = {}
  BY <1>2
<1>4. Counted(<<>>)
  BY <1>3 DEF Counted
<1>5. Unechoed(<<>>) = [k \in {} |-> <<>>[CHOOSE i \in Ranked(P, k) : TRUE].c]
  BY <1>3 DEF Unechoed
<1> QED
  BY <1>4, <1>5

\* The positions that a character more on the console leaves as they are.
LEMMA UartAppend ==
  ASSUME NEW s \in Seq(Signs), NEW x \in Signs
  PROVE  LET t == Append(s, x)
             n == Len(s) + 1
             P == DOMAIN s \ Echoes(s)
             Q == DOMAIN t \ Echoes(t)
         IN  /\ t \in Seq(Signs) /\ n \in Nat \ {0} /\ P \in SUBSET (1 .. n - 1)
             /\ t[n] = x /\ \A i \in P : t[i] = s[i]
             /\ x.echo => Q = P
             /\ ~x.echo => Q = P \cup {n}
<1> DEFINE t == Append(s, x)
           n == Len(s) + 1
           P == DOMAIN s \ Echoes(s)
           Q == DOMAIN t \ Echoes(t)
<1>1. /\ t \in Seq(Signs) /\ Len(s) \in Nat /\ Len(t) = n
      /\ DOMAIN s = 1 .. Len(s) /\ DOMAIN t = 1 .. n
      /\ \A i \in 1 .. Len(s) : t[i] = s[i]
      /\ t[n] = x
  OBVIOUS
<1> HIDE DEF t
<1>2. n \in Nat \ {0} /\ n - 1 = Len(s) /\ 1 .. n = (1 .. Len(s)) \cup {n} /\ n \notin 1 .. Len(s)
  BY <1>1
<1>3. \A i \in 1 .. Len(s) : t[i].echo = s[i].echo
  BY <1>1
<1>4. P = {i \in 1 .. Len(s) : ~s[i].echo}
  BY <1>1 DEF Echoes
<1>5. Q = {i \in 1 .. n : ~t[i].echo}
  BY <1>1 DEF Echoes
<1>6. Q = P \cup {i \in {n} : ~t[i].echo}
  BY <1>2, <1>3, <1>4, <1>5, Zenon
<1> HIDE DEF n, P, Q
<1>7. (x.echo => Q = P) /\ (~x.echo => Q = P \cup {n})
  BY <1>1, <1>6
<1> QED
  BY <1>1, <1>2, <1>4, <1>7 DEF t, n, P, Q

\* The echo of a key leaves the rest of the console as it was.
LEMMA EchoApart ==
  ASSUME NEW s \in Seq(Signs), Counted(s), NEW k \in Glyphs
  PROVE  LET t == Append(s, Echoed(k))
         IN  t \in Seq(Signs) /\ Counted(t) /\ Unechoed(t) = Unechoed(s)
<1> DEFINE x == Echoed(k)
           t == Append(s, x)
           P == DOMAIN s \ Echoes(s)
           Q == DOMAIN t \ Echoes(t)
<1>1. x \in Signs /\ x.echo
  BY DEF Signs, Echoed
<1> HIDE DEF x
<1>2. t \in Seq(Signs) /\ Q = P /\ \A i \in P : t[i] = s[i]
  BY <1>1, UartAppend
<1> HIDE DEF t
<1>3. Counted(t) /\ \A j \in 1 .. Cardinality(P) : Ranked(P, j) # {}
  BY <1>2 DEF Counted
<1>4. \A j \in 1 .. Cardinality(P) : (CHOOSE i \in Ranked(P, j) : TRUE) \in P
  BY <1>3 DEF Ranked
<1>5. /\ Unechoed(t) = [j \in 1 .. Cardinality(Q) |-> t[CHOOSE i \in Ranked(Q, j) : TRUE].c]
      /\ Unechoed(s) = [j \in 1 .. Cardinality(P) |-> s[CHOOSE i \in Ranked(P, j) : TRUE].c]
  BY DEF Unechoed
<1> HIDE DEF P, Q
<1>6. \A j \in 1 .. Cardinality(P) :
        t[CHOOSE i \in Ranked(P, j) : TRUE].c = s[CHOOSE i \in Ranked(P, j) : TRUE].c
  BY <1>2, <1>4
<1>7. Unechoed(t) = Unechoed(s)
  BY <1>2, <1>5, <1>6
<1> QED
  BY <1>2, <1>3, <1>7 DEF t, x

\* A character of printf comes behind the rest.
LEMMA ShownLast ==
  ASSUME NEW s \in Seq(Signs), Counted(s), NEW y \in Glyphs
  PROVE  LET t == Append(s, Shown(y))
         IN  t \in Seq(Signs) /\ Counted(t) /\ Unechoed(t) = Unechoed(s) \o <<y>>
<1> DEFINE x == Shown(y)
           t == Append(s, x)
           n == Len(s) + 1
           P == DOMAIN s \ Echoes(s)
           Q == DOMAIN t \ Echoes(t)
           c == Cardinality(P)
           f == Unechoed(s)
           g == Unechoed(t)
<1>1. x \in Signs /\ ~x.echo /\ x.c = y
  BY DEF Signs, Shown
<1> HIDE DEF x
<1>2. /\ t \in Seq(Signs) /\ n \in Nat \ {0} /\ P \in SUBSET (1 .. n - 1)
      /\ Q = P \cup {n} /\ t[n] = x /\ \A i \in P : t[i] = s[i]
  BY <1>1, UartAppend
<1>3. /\ \A j \in 1 .. c : Ranked(P, j) # {}
      /\ f = [j \in 1 .. c |-> s[CHOOSE i \in Ranked(P, j) : TRUE].c]
      /\ g = [j \in 1 .. Cardinality(Q) |-> t[CHOOSE i \in Ranked(Q, j) : TRUE].c]
      /\ (\A j \in 1 .. Cardinality(Q) : Ranked(Q, j) # {}) => Counted(t)
  BY DEF Counted, Unechoed
<1> HIDE DEF t, n, P, Q, f, g
<1>4. /\ c \in Nat /\ Cardinality(Q) = c + 1
      /\ \A j \in 1 .. c : Ranked(Q, j) = Ranked(P, j)
      /\ Ranked(Q, c + 1) = {n}
  BY <1>2, RankGrows
<1> HIDE DEF c
<1>5. \A j \in 1 .. c + 1 : j \in 1 .. c \/ j = c + 1
  BY <1>4
<1>6. Counted(t)
  <2>1. \A j \in 1 .. c + 1 : Ranked(Q, j) # {}
    BY <1>3, <1>4, <1>5
  <2> QED
    BY <1>3, <1>4, <2>1
<1>7. g = [j \in 1 .. c + 1 |-> t[CHOOSE i \in Ranked(Q, j) : TRUE].c]
  BY <1>3, <1>4
<1>8. t[CHOOSE i \in Ranked(Q, c + 1) : TRUE].c = y
  <2>1. (CHOOSE i \in Ranked(Q, c + 1) : TRUE) = n
    BY <1>4
  <2> QED
    BY <1>1, <1>2, <2>1
<1>9. \A j \in 1 .. c : t[CHOOSE i \in Ranked(Q, j) : TRUE].c = f[j]
  <2> TAKE j \in 1 .. c
  <2>1. (CHOOSE i \in Ranked(P, j) : TRUE) \in P
    BY <1>3 DEF Ranked
  <2>2. t[CHOOSE i \in Ranked(P, j) : TRUE] = s[CHOOSE i \in Ranked(P, j) : TRUE]
    BY <1>2, <2>1
  <2>3. Ranked(Q, j) = Ranked(P, j)
    BY <1>4
  <2>4. f[j] = s[CHOOSE i \in Ranked(P, j) : TRUE].c
    BY <1>3
  <2> QED
    BY <2>2, <2>3, <2>4
<1>10. g = [j \in 1 .. c + 1 |-> IF j = c + 1 THEN y ELSE f[j]]
  <2>1. \A j \in 1 .. c + 1 : t[CHOOSE i \in Ranked(Q, j) : TRUE].c = IF j = c + 1 THEN y ELSE f[j]
    <3> TAKE j \in 1 .. c + 1
    <3>1. CASE j = c + 1
      BY <1>8, <3>1
    <3>2. CASE j # c + 1
      BY <1>5, <1>9, <3>2
    <3> QED
      BY <3>1, <3>2
  <2> QED
    BY <1>7, <2>1
<1>11. f = [j \in 1 .. c |-> f[j]]
  BY <1>3
<1>12. g = f \o <<y>>
  BY <1>4, <1>10, <1>11, OneMore
<1> QED
  BY <1>2, <1>6, <1>12 DEF t, x, f, g

\* Rendered is the text of the positions that put something.
LEMMA RenderedIs == \A fmt, n : Rendered(fmt, n) = Text(fmt, Puts(fmt, n))
BY DEF Rendered, Text

\* Before the first character there is nothing.
LEMMA NothingYet ==
  ASSUME NEW fmt
  PROVE  Rendered(fmt, 1) = <<>> /\ Passed(fmt, 1)
<1>1. Puts(fmt, 1) = {}
  BY DEF Puts
<1>2. Cardinality(Puts(fmt, 1)) = 0
  BY <1>1, FS_EmptySet
<1> QED
  BY <1>2 DEF Rendered, Passed

\* printf passes a character outside conversions, or a conversion, at once.
LEMMA Converted ==
  ASSUME NEW fmt \in Seq(STRING), NEW n \in 1 .. Len(fmt), Passed(fmt, n), Conversion(fmt, n)
  PROVE  LET m == n + Span(fmt, n)
         IN  /\ Passed(fmt, m)
             /\ Rendered(fmt, m) = Rendered(fmt, n) \o <<Put(fmt, n)>>
<1> DEFINE m == n + Span(fmt, n)
<1>1. /\ Span(fmt, n) \in 1 .. 3 /\ m \in Nat /\ m > n
      /\ fmt[n] # "%" => m = n + 1
      /\ \A j \in n + 1 .. m - 1 : fmt[j] # "%"
  BY DEF Span, Conversion
<1>2. \A j \in 1 .. n - 1 : fmt[j] = "%" /\ Conversion(fmt, j) =>
        Span(fmt, j) \in 1 .. 3 /\ j + Span(fmt, j) <= n
  BY DEF Passed, Span
<1> HIDE DEF m
<1>3. Passed(fmt, m)
  <2> SUFFICES ASSUME NEW j \in 1 .. m - 1, fmt[j] = "%", Conversion(fmt, j)
               PROVE  j + Span(fmt, j) <= m
    BY DEF Passed
  <2>1. CASE j < n
    BY <2>1, <1>1, <1>2
  <2>2. CASE j = n
    BY <2>2, <1>1 DEF m
  <2>3. CASE j > n
    BY <2>3, <1>1
  <2> QED
    BY <2>1, <2>2, <2>3
<1>4. ~Consumed(fmt, n)
  BY <1>2 DEF Consumed
<1>5. \A i \in n + 1 .. m - 1 : Consumed(fmt, i)
  <2> TAKE i \in n + 1 .. m - 1
  <2>1. fmt[n] = "%" /\ n \in 1 .. i - 1 /\ n + Span(fmt, n) > i
    BY <1>1 DEF m
  <2> QED
    BY <2>1 DEF Consumed
<1>6. Puts(fmt, m) = Puts(fmt, n) \cup {n}
  <2>1. \A i \in 1 .. m - 1 : i \in 1 .. n - 1 \/ i = n \/ i \in n + 1 .. m - 1
    BY <1>1
  <2>2. n \in 1 .. m - 1 /\ \A i \in 1 .. n - 1 : i \in 1 .. m - 1
    BY <1>1
  <2> QED
    BY <2>1, <2>2, <1>4, <1>5 DEF Puts
<1>7. Puts(fmt, n) \in SUBSET (1 .. n - 1)
  BY DEF Puts
<1>8. Rendered(fmt, m) = Text(fmt, Puts(fmt, n) \cup {n}) /\ Rendered(fmt, n) = Text(fmt, Puts(fmt, n))
  <2>1. Rendered(fmt, m) = Text(fmt, Puts(fmt, m)) /\ Rendered(fmt, n) = Text(fmt, Puts(fmt, n))
    BY RenderedIs
  <2> QED
    BY <1>6, <2>1
<1>9. Rendered(fmt, m) = Rendered(fmt, n) \o <<Put(fmt, n)>>
  <2>1. n \in Nat \ {0}
    OBVIOUS
  <2>2. Text(fmt, Puts(fmt, n) \cup {n}) = Text(fmt, Puts(fmt, n)) \o <<Put(fmt, n)>>
    BY <1>7, <2>1, TextGrows
  <2> QED
    BY <1>8, <2>2
<1> QED
  BY <1>3, <1>9 DEF m

\* A % that starts no conversion puts nothing.
LEMMA Skipped ==
  ASSUME NEW fmt \in Seq(STRING), NEW n \in 1 .. Len(fmt), Passed(fmt, n), ~Conversion(fmt, n)
  PROVE  Passed(fmt, n + 1) /\ Rendered(fmt, n + 1) = Rendered(fmt, n)
<1>1. \A j \in 1 .. n : j \in 1 .. n - 1 \/ j = n
  OBVIOUS
<1>2. Passed(fmt, n + 1)
  <2> SUFFICES ASSUME NEW j \in 1 .. n, fmt[j] = "%", Conversion(fmt, j)
               PROVE  j + Span(fmt, j) <= n + 1
    BY DEF Passed
  <2>1. j \in 1 .. n - 1
    BY <1>1
  <2> QED
    BY <2>1 DEF Passed, Span
<1>3. Puts(fmt, n + 1) = Puts(fmt, n)
  <2>1. (n + 1) - 1 = n /\ \A j \in 1 .. n - 1 : j \in 1 .. n
    OBVIOUS
  <2> QED
    BY <1>1, <2>1 DEF Puts
<1> QED
  BY <1>2, <1>3, RenderedIs
------------------------------------------------------------------------------
\* The console touches its locks only through pthread_spin_lock and unlock.
LEMMA ConsoleSpins == [Next]_vars => [SpinNext]_spinVars
<1> SUFFICES ASSUME [Next]_vars PROVE [SpinNext]_spinVars
  OBVIOUS
<1> USE ConsoleAssumption
<1>1. ASSUME NEW a \in Agent, NEW fn, NEW l \in Lock, NEW fmt, Enter(a, fn, l, fmt)
      PROVE  [SpinNext]_spinVars
  BY <1>1 DEF Enter, SpinNext
<1>2. ASSUME NEW a \in Agent, NEW l \in Lock, Leave(a, l)
      PROVE  [SpinNext]_spinVars
  BY <1>2 DEF Leave, SpinNext
<1>3. ASSUME NEW a \in Agent, TakeLock(a) \/ Retry(a) PROVE [SpinNext]_spinVars
  BY <1>3 DEF TakeLock, Retry, SpinNext, SpinStep
<1>4. ASSUME NEW a \in Agent, HeapLock(a) \/ HeapUnlock(a) PROVE [SpinNext]_spinVars
  BY <1>4 DEF HeapLock, HeapUnlock, SpinNext
<1>5. ASSUME NEW a \in Agent, printf(a) \/ scanf(a) PROVE [SpinNext]_spinVars
  BY <1>1, <1>5 DEF printf, scanf
<1>6. ASSUME NEW a \in Agent, PrintEnd(a) \/ ScanEnd(a) PROVE [SpinNext]_spinVars
  BY <1>2, <1>6 DEF PrintEnd, ScanEnd
<1>7. ASSUME NEW a \in Agent, Proceed(a) PROVE [SpinNext]_spinVars
  <2>1. CASE PrintStep(a) \/ ScanStep(a) \/ IrqReturn(a) \/ Halt(a)
    BY <2>1 DEF PrintStep, ScanStep, IrqReturn, Halt, spinVars
  <2> QED
    BY <1>5, <1>6, <1>7, <2>1 DEF Proceed
<1>8. ASSUME NEW a \in Agent, Spinning(a) \/ \E c \in Key \cup {"\n"} : GetChar(a, c)
      PROVE  [SpinNext]_spinVars
  BY <1>8 DEF Spinning, GetChar, vars, spinVars
<1>9. CASE EnableMmu \/ \E h \in Handler, t \in Thread : Interrupt(h, t)
  BY <1>9 DEF EnableMmu, Interrupt, spinVars
<1>10. CASE UNCHANGED vars
  BY <1>10 DEF vars, spinVars
<1> QED
  BY <1>3, <1>4, <1>5, <1>7, <1>8, <1>9, <1>10 DEF Next

\* The console's behaviours, seen at the locks, are the spinlocks'.
LEMMA ConsoleUsesSpinlocks == Spec => SpinSpec
<1>1. Init => SpinInit
  BY DEF Init
<1> QED
  BY <1>1, ConsoleSpins, PTL DEF Spec, SpinSpec

\* print_lock, read_lock and heap_lock change hands only through a release,
\* whatever prints, reads, interrupts or panics.
THEOREM ConsoleImplementsMutex == Spec => ImplementsMutex
BY ConsoleUsesSpinlocks, SpinImplementsMutex, PTL
------------------------------------------------------------------------------
\* One agent at a time is in a call behind a lock.
LEMMA Alone ==
  ASSUME SpinInv, CallsSound, NEW l \in Lock, NEW a \in Agent, NEW b \in Agent,
         ~In(a, "none"), call[a].locked => Holds(a, l),
         ~In(b, "none"), call[b].locked => Holds(b, l)
  PROVE  a = b
BY DEF SpinInv, WordTells, CallsSound

\* What a format's character at p says about p.
LEMMA CharIs ==
  ASSUME TypeOK, CallsSound, NEW a \in Agent, NEW k \in {0, 1, 2}
  PROVE  /\ call[a].fmt \in Seq(STRING) /\ call[a].p \in Nat \ {0}
         /\ Len(call[a].fmt) \in Nat /\ call[a].p <= Len(call[a].fmt) + 1
         /\ Char(a, k) # "\\0" => call[a].p + k <= Len(call[a].fmt)
         /\ call[a].p + k <= Len(call[a].fmt) => Char(a, k) = call[a].fmt[call[a].p + k]
         /\ call[a].p + k > Len(call[a].fmt) => Char(a, k) = "\\0"
<1>1. call[a].fmt \in Seq(STRING) /\ call[a].p \in 1 .. Len(call[a].fmt) + 1
  BY DEF TypeOK, CallsSound, Calls
<1>2. Len(call[a].fmt) \in Nat
  BY <1>1
<1> QED
  BY <1>1, <1>2 DEF Char

\* The types that a step does not touch through calls.
HandlerTypes ==
  /\ mmu_enabled \in BOOLEAN
  /\ said \in [Handler -> {"nothing", "something", "all"}]
  /\ over \in [Handler -> Thread \cup {Nobody}]

LineTypes == typed \in Seq(Key) /\ Len(typed) <= LineMax
Position(c) == c \in Calls /\ c.p \in 1 .. Len(c.fmt) + 1

\* The type invariant in parts.
LEMMA TypeParts ==
  /\ TypeOK /\ CallsSound => HandlerTypes /\ LineTypes /\ \A a \in Agent : Position(call[a])
  /\ SpinInv' /\ HandlerTypes' /\ LineTypes' /\ (\A a \in Agent : Position(call'[a])) => TypeOK'
<1>1. TypeOK /\ CallsSound => HandlerTypes /\ LineTypes /\ \A a \in Agent : Position(call[a])
  BY DEF TypeOK, CallsSound, HandlerTypes, LineTypes, Position
<1>2. ASSUME SpinInv', HandlerTypes', LineTypes', \A a \in Agent : Position(call'[a])
      PROVE  TypeOK'
  BY <1>2 DEF TypeOK, SpinInv, SpinTypeOK, HandlerTypes, LineTypes, Position, Calls, Fns
<1> QED
  BY <1>1, <1>2

\* A step that touches only locks and handlers, and takes neither print_lock
\* nor read_lock from anybody.
LEMMA CallsKept ==
  ASSUME ConsoleInv, SpinInv', HandlerTypes', UNCHANGED <<mmu_enabled, call, uart, typed>>,
         \A b \in Agent, l \in {"print", "read"} : Holds(b, l) => Holds(b, l)'
  PROVE  ConsoleInv'
<1>1. TypeOK'
  <2>1. LineTypes' /\ \A a \in Agent : Position(call'[a])
    BY TypeParts DEF ConsoleInv, LineTypes
  <2> QED
    BY <2>1, TypeParts
<1>2. CallsSound'
  BY DEF ConsoleInv, CallsSound, In
<1>3. ReaderSound' /\ LineWhole'
  BY DEF ConsoleInv, ReaderSound, LineWhole, In
<1>4. TextSound'
  <2> SUFFICES ASSUME NEW a \in Agent, In(a, "printf")
               PROVE  /\ mmu_enabled /\ ~Holds(a, "print")' => call[a].p = 1
                      /\ Passed(call[a].fmt, call[a].p)
                      /\ Inside(a, "printf", "print")' /\ call[a].p > 1 =>
                           Unechoed(uart) = Rendered(call[a].fmt, call[a].p)
    BY DEF TextSound, TextOf, In
  <2>1. /\ mmu_enabled /\ ~Holds(a, "print") => call[a].p = 1
        /\ Passed(call[a].fmt, call[a].p)
        /\ Inside(a, "printf", "print") /\ call[a].p > 1 =>
             Unechoed(uart) = Rendered(call[a].fmt, call[a].p)
    BY DEF ConsoleInv, TextSound, TextOf
  <2>2. Holds(a, "print") => Holds(a, "print")'
    OBVIOUS
  <2>3. CASE call[a].p = 1
    BY <2>1, <2>3
  <2>4. CASE call[a].p # 1
    <3>1. ~mmu_enabled \/ Holds(a, "print")
      BY <2>1, <2>4
    <3>2. call[a].locked = mmu_enabled
      BY DEF ConsoleInv, CallsSound, In
    <3>3. Inside(a, "printf", "print")
      BY <3>1, <3>2 DEF Inside
    <3> QED
      BY <2>1, <2>2, <2>4, <3>1, <3>3
  <2> QED
    BY <2>3, <2>4
<1> QED
  BY <1>1, <1>2, <1>3, <1>4 DEF ConsoleInv, UartSound, UnderWay, In

\* The steps inside pthread_spin_lock, and the heap's.
LEMMA LockSteps ==
  ASSUME ConsoleInv, SpinInv', NEW a \in Agent,
         TakeLock(a) \/ Retry(a) \/ Spinning(a) \/ HeapLock(a) \/ HeapUnlock(a)
  PROVE  ConsoleInv'
<1> USE ConsoleAssumption
<1>1. SpinTypeOK /\ HandlerTypes
  BY TypeParts DEF ConsoleInv, SpinInv
<1>2. UNCHANGED <<mmu_enabled, call, over, said, uart, typed>>
  BY DEF TakeLock, Retry, Spinning, HeapLock, HeapUnlock, vars
<1>3. \A b \in Agent, l \in {"print", "read"} : Holds(b, l) => Holds(b, l)'
  <2>1. CASE TakeLock(a)
    BY <1>1, <2>1, MoveHolds DEF TakeLock, CompareExchange
  <2>2. CASE Retry(a)
    <3>1. PICK l \in Lock : CompareFails(a, l) \/ SpinWait(a, l)
      BY <2>2 DEF Retry
    <3>2. ~Holds(a, l)
      BY <3>1 DEF CompareFails, SpinWait, Holds
    <3> QED
      BY <1>1, <3>1, <3>2, MoveHolds DEF CompareFails, SpinWait
  <2>3. CASE Spinning(a)
    BY <2>3 DEF Spinning, vars, Holds
  <2>4. CASE HeapLock(a)
    BY <1>1, <2>4, MoveHolds DEF HeapLock, pthread_spin_lock
  <2>5. CASE HeapUnlock(a)
    BY <1>1, <2>5, MoveHolds DEF HeapUnlock, pthread_spin_unlock
  <2> QED
    BY <2>1, <2>2, <2>3, <2>4, <2>5
<1>4. HandlerTypes'
  BY <1>1, <1>2 DEF HandlerTypes
<1> QED
  BY <1>2, <1>3, <1>4, CallsKept

\* A handler begins, ends or stops its core.
LEMMA HandlerSteps ==
  ASSUME ConsoleInv, SpinInv', NEW h \in Handler,
         IrqReturn(h) \/ Halt(h) \/ \E t \in Thread : Interrupt(h, t)
  PROVE  ConsoleInv'
<1>1. UNCHANGED <<word, at, mmu_enabled, call, uart, typed>>
  BY DEF IrqReturn, Halt, Interrupt
<1>2. HandlerTypes'
  <2>1. HandlerTypes
    BY TypeParts DEF ConsoleInv
  <2> QED
    BY <1>1, <2>1 DEF HandlerTypes, IrqReturn, Halt, Interrupt
<1>3. \A b \in Agent, l \in {"print", "read"} : Holds(b, l) => Holds(b, l)'
  BY <1>1 DEF Holds
<1> QED
  BY <1>1, <1>2, <1>3, CallsKept

\* mmu_enabled is set while nobody is in a call.
LEMMA EnableMmuKeeps ==
  ASSUME ConsoleInv, SpinInv', EnableMmu
  PROVE  ConsoleInv'
<1> USE ConsoleAssumption
<1>1. /\ mmu_enabled' = TRUE
      /\ UNCHANGED <<word, at, call, over, said, uart, typed>>
      /\ \A a \in Agent : In(a, "none") /\ In(a, "none")'
  BY DEF EnableMmu, Free, In, ConsoleInv, CallsSound
<1>2. TypeOK'
  <2>1. HandlerTypes' /\ LineTypes' /\ \A a \in Agent : Position(call'[a])
    BY <1>1, TypeParts DEF ConsoleInv, LineTypes, HandlerTypes
  <2> QED
    BY <2>1, TypeParts
<1>3. call' \in [Agent -> Calls]
  BY <1>1 DEF ConsoleInv, CallsSound
<1>4. \A a \in Agent : ~In(a, "gets") /\ ~In(a, "gets")' /\ ~In(a, "printf")'
  BY <1>1 DEF In
<1> QED
  BY <1>1, <1>2, <1>3, <1>4 DEF ConsoleInv, CallsSound, ReaderSound, LineWhole, TextSound, TextOf, UartSound, UnderWay, In

\* A step that changes the call of agent a changes nobody else's.
LEMMA OthersKept ==
  ASSUME ConsoleInv, NEW a \in Agent, NEW c \in Calls, SetCall(a, c)
  PROVE  /\ call'[a] = c /\ \A b \in Agent : b # a => call'[b] = call[b]
         /\ call' \in [Agent -> Calls]
         /\ \A fn : In(a, fn)' <=> c.fn = fn
         /\ \A b \in Agent, fn \in Fns : b # a => (In(b, fn)' <=> In(b, fn))
BY DEF ConsoleInv, CallsSound, SetCall, In

\* Its types, and which lock the call is behind.
LEMMA CallTypes ==
  ASSUME ConsoleInv, SpinInv', NEW a \in Agent, NEW c, Position(c), SetCall(a, c),
         HandlerTypes', LineTypes', UNCHANGED mmu_enabled,
         c.fn # "none" => c.locked = mmu_enabled /\ (~mmu_enabled => a = Boot)
  PROVE  TypeOK' /\ CallsSound'
<1>1. c \in Calls
  BY DEF Position
<1>2. /\ call'[a] = c /\ \A b \in Agent : b # a => call'[b] = call[b]
      /\ call' \in [Agent -> Calls]
  BY <1>1, OthersKept
<1>3. \A b \in Agent : Position(call'[b])
  <2>1. \A b \in Agent : Position(call[b])
    BY TypeParts DEF ConsoleInv
  <2> QED
    BY <1>2, <2>1
<1>4. TypeOK'
  BY <1>3, TypeParts
<1>5. CallsSound'
  <2> SUFFICES ASSUME NEW b \in Agent, call'[b].fn # "none"
               PROVE  call'[b].locked = mmu_enabled /\ (~mmu_enabled => b = Boot)
    BY <1>2 DEF CallsSound, In
  <2>1. CASE b = a
    BY <2>1, <1>2
  <2>2. CASE b # a
    BY <2>2, <1>2 DEF ConsoleInv, CallsSound, In
  <2> QED
    BY <2>1, <2>2
<1> QED
  BY <1>4, <1>5

\* Somebody else's text is kept, unless the step prints and it is inside.
LEMMA TextKept ==
  ASSUME ConsoleInv, NEW b \in Agent, call'[b] = call[b], UNCHANGED mmu_enabled,
         Holds(b, "print")' <=> Holds(b, "print"),
         Unechoed(uart') = Unechoed(uart) \/ ~Inside(b, "printf", "print")
  PROVE  TextOf(b)'
BY DEF ConsoleInv, TextSound, TextOf, In, Inside

\* Whether a printf is under way is up to those in printf.
LEMMA UnderWayKept ==
  ASSUME NEW a \in Agent, \A b \in Agent : b # a => call'[b] = call[b],
         In(a, "printf") => ~(call[a].p > 1), In(a, "printf")' => ~(call'[a].p > 1)
  PROVE  UnderWay' <=> UnderWay
BY DEF UnderWay, In

\* Behind print_lock, what is on the console is the text so far, from the
\* beginning on.
LEMMA TextSoFar ==
  ASSUME ConsoleInv, NEW a \in Agent, Inside(a, "printf", "print")
  PROVE  Unechoed(uart) = Rendered(call[a].fmt, call[a].p)
<1>1. In(a, "printf") /\ ~In(a, "none") /\ (call[a].locked => Holds(a, "print"))
  BY DEF Inside, In
<1>2. call[a].p \in Nat \ {0}
  BY CharIs DEF ConsoleInv
<1>3. CASE call[a].p > 1
  BY <1>1, <1>3 DEF ConsoleInv, TextSound, TextOf
<1>4. CASE call[a].p = 1
  <2>1. ASSUME NEW b \in Agent, In(b, "printf"), call[b].p > 1 PROVE FALSE
    <3>1. call[b].p # 1
      BY <2>1
    <3>2. ~In(b, "none") /\ (call[b].locked => Holds(b, "print"))
      BY <2>1, <3>1 DEF ConsoleInv, CallsSound, TextSound, TextOf, In
    <3>3. a = b
      BY <1>1, <3>2, Alone, ConsoleAssumption DEF ConsoleInv
    <3> QED
      BY <1>4, <3>1, <3>3
  <2>2. uart = <<>>
    BY <2>1 DEF ConsoleInv, UartSound, UnderWay
  <2> QED
    BY <1>4, <2>2, NothingYet, UnechoedEmpty
<1> QED
  BY <1>2, <1>3, <1>4

\* Nobody's line is touched by a step outside gets.
LEMMA LinesKept ==
  ASSUME ConsoleInv, NEW a \in Agent, UNCHANGED <<mmu_enabled, typed>>,
         \A b \in Agent : b # a => /\ call'[b] = call[b]
                                   /\ Holds(b, "read")' <=> Holds(b, "read"),
         ~In(a, "gets"), ~In(a, "gets")'
  PROVE  ReaderSound' /\ LineWhole'
BY DEF ConsoleInv, ReaderSound, LineWhole, In

\* printf and scanf begin with p on the first character.
LEMMA EnterKeeps ==
  ASSUME ConsoleInv, SpinInv', NEW a \in Agent, NEW fn \in {"printf", "scanf"},
         NEW l \in Lock, NEW fmt \in Seq(STRING), Enter(a, fn, l, fmt)
  PROVE  ConsoleInv'
<1> DEFINE c == [fn |-> fn, fmt |-> fmt, p |-> 1, locked |-> mmu_enabled, buf |-> <<>>]
<1>1. /\ SetCall(a, c) /\ In(a, "none") /\ (~mmu_enabled => a = Boot)
      /\ UNCHANGED <<mmu_enabled, over, said, uart, typed>>
      /\ pthread_spin_lock(a, l) \/ UNCHANGED spinVars
  BY DEF Enter, Free, Started
<1>2. HandlerTypes /\ LineTypes
  BY TypeParts DEF ConsoleInv
<1>3. Position(c) /\ c.fn = fn /\ c.fmt = fmt /\ c.p = 1 /\ c.locked = mmu_enabled
  <2>2. c.fn = fn /\ c.fmt = fmt /\ c.p = 1 /\ c.locked = mmu_enabled
    OBVIOUS
  <2>3. c \in Calls
    BY <1>2 DEF Calls, Fns, HandlerTypes
  <2>4. 1 \in 1 .. Len(fmt) + 1
    OBVIOUS
  <2> HIDE DEF c
  <2> QED
    BY <2>2, <2>3, <2>4 DEF Position
<1>4. HandlerTypes' /\ LineTypes'
  BY <1>1, <1>2 DEF HandlerTypes, LineTypes
<1> HIDE DEF c
<1>5. TypeOK' /\ CallsSound'
  BY <1>1, <1>3, <1>4, CallTypes
<1>6. /\ call'[a] = c /\ \A b \in Agent : b # a => call'[b] = call[b]
      /\ \A f : In(a, f)' <=> c.fn = f
  BY <1>1, <1>3, OthersKept DEF Position
<1>7. \A b \in Agent, k \in Lock : Holds(b, k)' <=> Holds(b, k)
  <2>1. CASE UNCHANGED spinVars
    BY <2>1 DEF spinVars, Holds
  <2>2. CASE pthread_spin_lock(a, l)
    <3>1. ~Holds(a, l) /\ Move(a, l, "cas") /\ SpinTypeOK
      BY <2>2 DEF pthread_spin_lock, Holds, ConsoleInv, SpinInv
    <3> QED
      BY <3>1, MoveHolds
  <2> QED
    BY <1>1, <2>1, <2>2
<1>8. ReaderSound' /\ LineWhole'
  <2>1. ~In(a, "gets") /\ ~In(a, "gets")'
    BY <1>1, <1>3, <1>6 DEF In
  <2> QED
    BY <1>1, <1>6, <1>7, <2>1, LinesKept, ConsoleAssumption
<1>9. TextSound'
  <2>1. TextOf(a)'
    BY <1>3, <1>6, NothingYet DEF TextOf
  <2>2. ASSUME NEW b \in Agent, b # a PROVE TextOf(b)'
    BY <1>1, <1>6, <1>7, <2>2, TextKept, ConsoleAssumption
  <2> QED
    BY <2>1, <2>2 DEF TextSound
<1>10. UartSound'
  <2>1. UnderWay' <=> UnderWay
    <3>1. ~In(a, "printf") /\ ~(call'[a].p > 1)
      BY <1>1, <1>3, <1>6 DEF In
    <3> QED
      BY <1>6, <3>1, UnderWayKept
  <2> QED
    BY <1>1, <2>1 DEF ConsoleInv, UartSound
<1> QED
  BY <1>5, <1>8, <1>9, <1>10 DEF ConsoleInv

\* They end on the terminator; the lock they took is given back.
LEMMA LeaveKeeps ==
  ASSUME ConsoleInv, SpinInv', NEW a \in Agent, NEW l \in Lock,
         ~In(a, "gets"), Leave(a, l),
         \/ Inside(a, "printf", "print") /\ uart' = <<>>
         \/ In(a, "scanf") /\ UNCHANGED uart
  PROVE  ConsoleInv'
<1>1. /\ SetCall(a, NoCall)
      /\ UNCHANGED <<mmu_enabled, over, typed>>
      /\ said' = IF a \in Handler THEN [said EXCEPT ![a] = "something"] ELSE said
      /\ pthread_spin_unlock(a, l) \/ UNCHANGED spinVars
  BY DEF Leave
<1>2. HandlerTypes /\ LineTypes
  BY TypeParts DEF ConsoleInv
<1>3. Position(NoCall) /\ NoCall.fn = "none"
  BY DEF Position, Calls, Fns, NoCall
<1>4. HandlerTypes' /\ LineTypes'
  BY <1>1, <1>2 DEF HandlerTypes, LineTypes
<1>5. TypeOK' /\ CallsSound'
  BY <1>1, <1>3, <1>4, CallTypes
<1>6. /\ \A b \in Agent : b # a => call'[b] = call[b]
      /\ \A f : In(a, f)' <=> NoCall.fn = f
  BY <1>1, <1>3, OthersKept DEF Position
<1>7. \A b \in Agent, k \in Lock : b # a => (Holds(b, k)' <=> Holds(b, k))
  <2>1. CASE UNCHANGED spinVars
    BY <2>1 DEF spinVars, Holds
  <2>2. CASE pthread_spin_unlock(a, l)
    BY <2>2, MoveHolds DEF pthread_spin_unlock, ConsoleInv, SpinInv
  <2> QED
    BY <1>1, <2>1, <2>2
<1>8. ReaderSound' /\ LineWhole'
  <2>1. ~In(a, "gets") /\ ~In(a, "gets")'
    BY <1>3, <1>6
  <2> QED
    BY <1>1, <1>6, <1>7, <2>1, LinesKept, ConsoleAssumption
<1>9. TextSound'
  <2>1. TextOf(a)'
    BY <1>3, <1>6 DEF TextOf
  <2>2. ASSUME NEW b \in Agent, b # a PROVE TextOf(b)'
    <3>1. UNCHANGED uart \/ ~Inside(b, "printf", "print")
      BY <2>2, Alone, ConsoleAssumption DEF ConsoleInv, Inside, In
    <3> QED
      BY <1>1, <1>6, <1>7, <2>2, <3>1, TextKept, ConsoleAssumption
  <2> QED
    BY <2>1, <2>2 DEF TextSound
<1>10. UartSound'
  <2>1. CASE uart' = <<>>
    BY <2>1, UnechoedEmpty DEF UartSound
  <2>2. CASE In(a, "scanf") /\ UNCHANGED uart
    <3>1. UnderWay' <=> UnderWay
      <4>1. ~In(a, "printf") /\ ~In(a, "printf")'
        BY <2>2, <1>3, <1>6 DEF In
      <4> QED
        BY <1>6, <4>1, UnderWayKept
    <3> QED
      BY <2>2, <3>1 DEF ConsoleInv, UartSound
  <2> QED
    BY <2>1, <2>2
<1> QED
  BY <1>5, <1>8, <1>9, <1>10 DEF ConsoleInv

\* A call whose p moves within the format.
LEMMA Advanced ==
  ASSUME ConsoleInv, NEW a \in Agent, NEW n \in {0, 1, 2, 3},
         call[a].p + n <= Len(call[a].fmt) + 1
  PROVE  LET c == [call[a] EXCEPT !.p = @ + n]
         IN  /\ Position(c) /\ c.p = call[a].p + n
             /\ c.fn = call[a].fn /\ c.fmt = call[a].fmt /\ c.locked = call[a].locked
<1>1. call[a] \in Calls /\ call[a].p \in Nat \ {0} /\ Len(call[a].fmt) \in Nat
  BY CharIs DEF ConsoleInv, CallsSound
<1> DEFINE c == [call[a] EXCEPT !.p = @ + n]
<1>2. /\ c \in Calls /\ c.p = call[a].p + n
      /\ c.fn = call[a].fn /\ c.fmt = call[a].fmt /\ c.locked = call[a].locked
  BY <1>1 DEF Calls
<1> HIDE DEF c
<1>3. Position(c)
  BY <1>1, <1>2 DEF Position
<1> QED
  BY <1>2, <1>3 DEF c

\* Agent a passes n characters and puts what they say.
Printed(a, fmt, p, n) ==
  /\ Advance(a, n)
  /\ p + n <= Len(fmt) + 1
  /\ Passed(fmt, p + n)
  /\ uart' \in Seq(Signs) /\ Counted(uart')
  /\ n = 0 => UNCHANGED uart
  /\ Unechoed(uart') = Rendered(fmt, p + n)

\* So does an iteration of printf's loop.
LEMMA PrintsText ==
  ASSUME ConsoleInv, NEW a \in Agent, PrintStep(a)
  PROVE  \E n \in {0, 1, 2, 3} : Printed(a, call[a].fmt, call[a].p, n)
<1> DEFINE fmt == call[a].fmt
           p == call[a].p
<1>1. Char(a, 0) # "\\0" /\ In(a, "printf") /\ Inside(a, "printf", "print")
  BY DEF PrintStep, Body, Inside
<1>2. /\ fmt \in Seq(STRING) /\ p \in 1 .. Len(fmt) /\ Len(fmt) \in Nat
      /\ Char(a, 0) = fmt[p]
      /\ \A k \in {1, 2} : /\ Char(a, k) # "\\0" => p + k <= Len(fmt)
                        /\ p + k <= Len(fmt) => Char(a, k) = fmt[p + k]
      /\ \A k \in {1, 2} : p + k > Len(fmt) => Char(a, k) = "\\0"
  <2>1. /\ fmt \in Seq(STRING) /\ p \in Nat \ {0} /\ Len(fmt) \in Nat
        /\ p + 0 <= Len(fmt) /\ Char(a, 0) = fmt[p + 0]
    BY <1>1, CharIs DEF ConsoleInv
  <2>2. p + 0 = p
    BY <2>1
  <2> QED
    BY <2>1, <2>2, CharIs DEF ConsoleInv
<1>3. Passed(fmt, p) /\ Unechoed(uart) = Rendered(fmt, p)
  BY <1>1, TextSoFar DEF ConsoleInv, TextSound, TextOf
<1>10. uart \in Seq(Signs) /\ Counted(uart)
  BY DEF ConsoleInv, UartSound
<1>11. \A y \in Glyphs : uart' = Append(uart, Shown(y)) =>
         /\ uart' \in Seq(Signs) /\ Counted(uart')
         /\ Unechoed(uart') = Rendered(fmt, p) \o <<y>>
  <2> SUFFICES ASSUME NEW y \in Glyphs, uart' = Append(uart, Shown(y))
               PROVE  /\ uart' \in Seq(Signs) /\ Counted(uart')
                      /\ Unechoed(uart') = Rendered(fmt, p) \o <<y>>
    OBVIOUS
  <2>1. /\ Append(uart, Shown(y)) \in Seq(Signs) /\ Counted(Append(uart, Shown(y)))
        /\ Unechoed(Append(uart, Shown(y))) = Unechoed(uart) \o <<y>>
    BY <1>10, ShownLast
  <2> QED
    BY <1>3, <2>1
<1> SUFFICES \E n \in {0, 1, 2, 3} : Printed(a, fmt, p, n)
  OBVIOUS
<1>4. Conversion(fmt, p) <=>
        (fmt[p] = "%" => \/ Char(a, 1) \in {"d", "s", "x"}
                         \/ Char(a, 1) = "l" /\ Char(a, 2) \in {"x", "d", "u"})
  <2>1. CASE p + 1 > Len(fmt)
    BY <1>2, <2>1 DEF Conversion
  <2>2. CASE p + 1 = Len(fmt)
    <3>1. Char(a, 2) = "\\0" /\ Char(a, 1) = fmt[p + 1]
      BY <1>2, <2>2
    <3> QED
      BY <1>2, <2>2, <3>1 DEF Conversion
  <2>3. CASE p + 1 < Len(fmt)
    BY <1>2, <2>3 DEF Conversion
  <2> QED
    BY <1>2, <2>1, <2>2, <2>3
<1> HIDE DEF fmt, p
<1>5. CASE fmt[p] # "%"
  <2>1. Advance(a, 1) /\ uart' = Append(uart, Shown(fmt[p]))
    BY <1>1, <1>2, <1>5 DEF PrintStep, Emit, p, fmt
  <2>2. Span(fmt, p) = 1 /\ Put(fmt, p) = fmt[p]
    BY <1>5 DEF Span, Put
  <2>3. Passed(fmt, p + 1) /\ Rendered(fmt, p + 1) = Rendered(fmt, p) \o <<fmt[p]>>
    BY <1>2, <1>3, <1>4, <1>5, <2>2, Converted
  <2>4. p + 1 <= Len(fmt) + 1 /\ p + 1 # 1
    BY <1>2
  <2>5. /\ uart' \in Seq(Signs) /\ Counted(uart')
        /\ Unechoed(uart') = Rendered(fmt, p + 1)
    <3>1. fmt[p] \in Glyphs
      BY <1>2 DEF Glyphs
    <3>2. /\ uart' \in Seq(Signs) /\ Counted(uart')
          /\ Unechoed(uart') = Rendered(fmt, p) \o <<fmt[p]>>
      BY <1>11, <2>1, <3>1
    <3> QED
      BY <2>3, <3>2
  <2> QED
    BY <1>3, <2>1, <2>4, <2>5, <2>3 DEF Printed
<1>6. CASE fmt[p] = "%" /\ Char(a, 1) = "l" /\ Char(a, 2) \in {"x", "d", "u"}
  <2>1. Advance(a, 3) /\ uart' = Append(uart, Shown("arg"))
    BY <1>1, <1>2, <1>6 DEF PrintStep, Emit, p
  <2>2. Span(fmt, p) = 3 /\ Put(fmt, p) = "arg" /\ p + 2 <= Len(fmt)
    BY <1>2, <1>6 DEF Span, Put
  <2>3. Passed(fmt, p + 3) /\ Rendered(fmt, p + 3) = Rendered(fmt, p) \o <<"arg">>
    BY <1>2, <1>3, <1>4, <1>6, <2>2, Converted
  <2>4. p + 3 <= Len(fmt) + 1 /\ p + 3 # 1
    BY <1>2, <2>2
  <2>5. /\ uart' \in Seq(Signs) /\ Counted(uart')
        /\ Unechoed(uart') = Rendered(fmt, p + 3)
    <3>1. "arg" \in Glyphs
      BY DEF Glyphs
    <3>2. /\ uart' \in Seq(Signs) /\ Counted(uart')
          /\ Unechoed(uart') = Rendered(fmt, p) \o <<"arg">>
      BY <1>11, <2>1, <3>1
    <3> QED
      BY <2>3, <3>2
  <2> QED
    BY <1>3, <2>1, <2>4, <2>5, <2>3 DEF Printed
<1>7. CASE fmt[p] = "%" /\ Char(a, 1) = "l" /\ Char(a, 2) \notin {"x", "d", "u"}
  <2>1. Advance(a, 0) /\ UNCHANGED uart
    BY <1>1, <1>2, <1>7 DEF PrintStep, Emit, p
  <2>4. p + 0 <= Len(fmt) + 1 /\ p + 0 = p
    BY <1>2
  <2>5. /\ uart' \in Seq(Signs) /\ Counted(uart')
        /\ Unechoed(uart') = Rendered(fmt, p + 0)
    BY <1>3, <1>10, <2>1, <2>4
  <2> QED
    BY <1>3, <2>1, <2>4, <2>5 DEF Printed
<1>8. CASE fmt[p] = "%" /\ Char(a, 1) \in {"d", "s", "x"}
  <2>1. Advance(a, 2) /\ uart' = Append(uart, Shown("arg"))
    BY <1>1, <1>2, <1>8 DEF PrintStep, Emit, p
  <2>2. Span(fmt, p) = 2 /\ Put(fmt, p) = "arg" /\ p + 1 <= Len(fmt)
    BY <1>2, <1>8 DEF Span, Put
  <2>3. Passed(fmt, p + 2) /\ Rendered(fmt, p + 2) = Rendered(fmt, p) \o <<"arg">>
    BY <1>2, <1>3, <1>4, <1>8, <2>2, Converted
  <2>4. p + 2 <= Len(fmt) + 1 /\ p + 2 # 1
    BY <1>2, <2>2
  <2>5. /\ uart' \in Seq(Signs) /\ Counted(uart')
        /\ Unechoed(uart') = Rendered(fmt, p + 2)
    <3>1. "arg" \in Glyphs
      BY DEF Glyphs
    <3>2. /\ uart' \in Seq(Signs) /\ Counted(uart')
          /\ Unechoed(uart') = Rendered(fmt, p) \o <<"arg">>
      BY <1>11, <2>1, <3>1
    <3> QED
      BY <2>3, <3>2
  <2> QED
    BY <1>3, <2>1, <2>4, <2>5, <2>3 DEF Printed
<1>9. CASE fmt[p] = "%" /\ Char(a, 1) \notin {"l", "d", "s", "x"}
  <2>1. Advance(a, 1) /\ UNCHANGED uart
    BY <1>1, <1>2, <1>9 DEF PrintStep, Emit, p
  <2>2. Passed(fmt, p + 1) /\ Rendered(fmt, p + 1) = Rendered(fmt, p)
    BY <1>2, <1>3, <1>4, <1>9, Skipped
  <2>4. p + 1 <= Len(fmt) + 1 /\ p + 1 # 1
    BY <1>2
  <2>5. /\ uart' \in Seq(Signs) /\ Counted(uart')
        /\ Unechoed(uart') = Rendered(fmt, p + 1)
    BY <1>3, <1>10, <2>1, <2>2
  <2> QED
    BY <1>3, <2>1, <2>4, <2>5, <2>2 DEF Printed
<1> QED
  BY <1>5, <1>6, <1>7, <1>8, <1>9

\* An iteration of printf's loop: nobody else is inside printf.
LEMMA PrintStepKeeps ==
  ASSUME ConsoleInv, SpinInv', NEW a \in Agent, PrintStep(a)
  PROVE  ConsoleInv'
<1>1. /\ In(a, "printf") /\ Inside(a, "printf", "print")
      /\ UNCHANGED <<word, at, mmu_enabled, over, said, typed>>
  BY DEF PrintStep, Body, Inside
<1>2. PICK n \in {0, 1, 2, 3} : Printed(a, call[a].fmt, call[a].p, n)
  BY PrintsText
<1> DEFINE c == [call[a] EXCEPT !.p = @ + n]
<1>3. SetCall(a, c)
  BY <1>2 DEF Printed, Advance
<1>4. /\ Position(c) /\ c.p = call[a].p + n
      /\ c.fn = call[a].fn /\ c.fmt = call[a].fmt /\ c.locked = call[a].locked
  BY <1>2, Advanced DEF Printed
<1> HIDE DEF c
<1>5. HandlerTypes' /\ LineTypes'
  BY <1>1, TypeParts DEF ConsoleInv, HandlerTypes, LineTypes
<1>6. call[a].fn = "printf" /\ call[a].locked = mmu_enabled /\ (~mmu_enabled => a = Boot)
  BY <1>1 DEF ConsoleInv, CallsSound, In
<1>7. TypeOK' /\ CallsSound'
  BY <1>1, <1>3, <1>4, <1>5, <1>6, CallTypes
<1>8. /\ call'[a] = c /\ \A b \in Agent : b # a => call'[b] = call[b]
      /\ \A f : In(a, f)' <=> c.fn = f
  BY <1>3, <1>4, OthersKept DEF Position
<1>9. \A b \in Agent, k \in Lock : Holds(b, k)' <=> Holds(b, k)
  BY <1>1 DEF Holds
<1>10. ReaderSound' /\ LineWhole'
  <2>1. ~In(a, "gets") /\ ~In(a, "gets")'
    BY <1>4, <1>6, <1>8 DEF In
  <2> QED
    BY <1>1, <1>8, <1>9, <2>1, LinesKept, ConsoleAssumption
<1>11. TextSound'
  <2>1. TextOf(a)'
    <3>1. mmu_enabled => Holds(a, "print")
      BY <1>1, <1>6 DEF Inside
    <3>2. mmu_enabled' => Holds(a, "print")'
      BY <1>1, <1>9, <3>1, ConsoleAssumption
    <3> QED
      BY <1>2, <1>4, <1>8, <3>2 DEF TextOf, Printed
  <2>2. ASSUME NEW b \in Agent, b # a PROVE TextOf(b)'
    <3>1. ~Inside(b, "printf", "print")
      BY <1>1, <2>2, Alone, ConsoleAssumption DEF ConsoleInv, Inside, In
    <3> QED
      BY <1>1, <1>8, <1>9, <2>2, <3>1, TextKept, ConsoleAssumption
  <2> QED
    BY <2>1, <2>2 DEF TextSound
<1>12. UartSound'
  <2>1. ASSUME ~UnderWay' PROVE uart' = <<>>
    <3>1. /\ ~(call'[a].p > 1)
          /\ \A b \in Agent : b # a => ~(In(b, "printf") /\ call[b].p > 1)
      BY <1>4, <1>6, <1>8, <2>1 DEF UnderWay, In
    <3>2. call[a].p \in Nat \ {0}
      BY CharIs DEF ConsoleInv
    <3>3. n = 0 /\ ~(call[a].p > 1)
      BY <1>4, <1>8, <3>1, <3>2
    <3>4. ~UnderWay
      BY <3>1, <3>3 DEF UnderWay
    <3> QED
      BY <1>2, <3>3, <3>4 DEF Printed, ConsoleInv, UartSound
  <2> QED
    BY <1>2, <2>1 DEF Printed, UartSound
<1> QED
  BY <1>7, <1>10, <1>11, <1>12 DEF ConsoleInv

\* A call with some of its fields replaced.
LEMMA Recorded ==
  ASSUME NEW c \in Calls, NEW f \in Fns
  PROVE  LET d == [c EXCEPT !.fn = f, !.buf = <<>>]
             e == [c EXCEPT !.fn = f, !.p = @ + 2, !.buf = <<>>]
         IN  /\ d \in Calls /\ d.fn = f /\ d.buf = <<>> /\ d.p = c.p
             /\ d.fmt = c.fmt /\ d.locked = c.locked
             /\ e \in Calls /\ e.fn = f /\ e.p = c.p + 2
             /\ e.fmt = c.fmt /\ e.locked = c.locked
<1> SUFFICES ASSUME NEW b \in Seq(Key)
             PROVE  LET d == [c EXCEPT !.fn = f, !.buf = b]
                        e == [c EXCEPT !.fn = f, !.p = @ + 2, !.buf = b]
                    IN  /\ d \in Calls /\ d.fn = f /\ d.buf = b /\ d.p = c.p
                        /\ d.fmt = c.fmt /\ d.locked = c.locked
                        /\ e \in Calls /\ e.fn = f /\ e.p = c.p + 2
                        /\ e.fmt = c.fmt /\ e.locked = c.locked
  BY EmptySeq
<1> DEFINE g == [c EXCEPT !.fn = f]
           d == [g EXCEPT !.buf = b]
           h == [g EXCEPT !.p = @ + 2]
           e == [h EXCEPT !.buf = b]
<1>1. /\ g \in Calls /\ g.fn = f /\ g.p = c.p /\ g.fmt = c.fmt
      /\ g.locked = c.locked /\ g.p \in Nat
  BY DEF Calls
<1> HIDE DEF g
<1>2. /\ d \in Calls /\ d.fn = f /\ d.buf = b /\ d.p = c.p
      /\ d.fmt = c.fmt /\ d.locked = c.locked
  BY <1>1 DEF Calls
<1>3. /\ h \in Calls /\ h.fn = f /\ h.p = c.p + 2
      /\ h.fmt = c.fmt /\ h.locked = c.locked
  <2> DEFINE q == g.p + 2
  <2>1. q \in Nat /\ q = c.p + 2
    BY <1>1
  <2>2. h = [g EXCEPT !.p = q]
    OBVIOUS
  <2> HIDE DEF q, h
  <2> QED
    BY <1>1, <2>1, <2>2 DEF Calls
<1> HIDE DEF h
<1>4. /\ e \in Calls /\ e.fn = f /\ e.p = c.p + 2
      /\ e.fmt = c.fmt /\ e.locked = c.locked
  BY <1>3 DEF Calls
<1> QED
  BY <1>2, <1>4 DEF g, h

\* What ScanStep and GetChar make of the call of agent a.
LEMMA ReadsOn ==
  ASSUME ConsoleInv, SpinInv', NEW a \in Agent, NEW c, Position(c), SetCall(a, c),
         call[a].fn \in {"scanf", "gets"}, c.fn \in {"scanf", "gets"},
         c.locked = call[a].locked, LineTypes',
         UNCHANGED <<word, at, mmu_enabled, over, said>>,
         Unechoed(uart') = Unechoed(uart)
  PROVE  /\ TypeOK' /\ CallsSound' /\ TextSound'
         /\ UnderWay' <=> UnderWay
         /\ call'[a] = c /\ \A b \in Agent : b # a => call'[b] = call[b]
<1>1. HandlerTypes'
  BY TypeParts DEF ConsoleInv, HandlerTypes
<1>2. call[a].locked = mmu_enabled /\ (~mmu_enabled => a = Boot)
  BY DEF ConsoleInv, CallsSound, In
<1>3. TypeOK' /\ CallsSound'
  BY <1>1, <1>2, CallTypes
<1>4. /\ call'[a] = c /\ \A b \in Agent : b # a => call'[b] = call[b]
      /\ \A f : In(a, f)' <=> c.fn = f
  BY OthersKept DEF Position
<1>5. TextSound'
  <2>1. TextOf(a)'
    BY <1>4 DEF TextOf
  <2>2. ASSUME NEW b \in Agent, b # a PROVE TextOf(b)'
    BY <1>4, <2>2, TextKept DEF Holds
  <2> QED
    BY <2>1, <2>2 DEF TextSound
<1>6. UnderWay' <=> UnderWay
  <2>1. ~In(a, "printf") /\ ~In(a, "printf")'
    BY <1>4 DEF In
  <2> QED
    BY <1>4, <2>1, UnderWayKept
<1> QED
  BY <1>3, <1>4, <1>5, <1>6

\* The reader is alone behind read_lock.
LEMMA OneReader ==
  ASSUME ConsoleInv, NEW a \in Agent, Body(a, "scanf", "read") \/ Body(a, "gets", "read")
  PROVE  /\ mmu_enabled => Holds(a, "read")
         /\ \A b \in Agent : b # a => ~In(b, "gets")
<1>1. ~In(a, "none") /\ (call[a].locked => Holds(a, "read"))
  BY DEF Body, Inside, In
<1>2. mmu_enabled => Holds(a, "read")
  BY <1>1 DEF ConsoleInv, CallsSound
<1>3. ASSUME NEW b \in Agent, b # a, In(b, "gets") PROVE FALSE
  <2>1. ~In(b, "none") /\ (call[b].locked => Holds(b, "read"))
    BY <1>3 DEF ConsoleInv, CallsSound, ReaderSound, In
  <2> QED
    BY <1>1, <1>3, <2>1, Alone, ConsoleAssumption DEF ConsoleInv
<1> QED
  BY <1>2, <1>3

\* An iteration of scanf's loop.
LEMMA ScanStepKeeps ==
  ASSUME ConsoleInv, SpinInv', NEW a \in Agent, ScanStep(a)
  PROVE  ConsoleInv'
<1>1. /\ Body(a, "scanf", "read") /\ call[a].fn = "scanf" /\ Char(a, 0) # "\\0"
      /\ UNCHANGED <<word, at, mmu_enabled, over, said, uart, typed>>
  BY DEF ScanStep, Body, Inside, In
<1>2. /\ mmu_enabled => Holds(a, "read")
      /\ \A b \in Agent : b # a => ~In(b, "gets")
  BY <1>1, OneReader
<1>3. LineTypes'
  BY <1>1, TypeParts DEF ConsoleInv, LineTypes
<1>4. /\ call[a] \in Calls /\ Len(call[a].fmt) \in Nat /\ call[a].p \in Nat \ {0}
      /\ call[a].p + 0 <= Len(call[a].fmt)
      /\ Char(a, 1) # "\\0" => call[a].p + 1 <= Len(call[a].fmt)
  BY <1>1, CharIs DEF ConsoleInv, CallsSound
<1>5. typed = <<>>
  BY <1>1, <1>2 DEF ConsoleInv, ReaderSound, In
<1>6. ASSUME NEW n \in {0, 1}, Advance(a, n) PROVE ConsoleInv'
  <2> DEFINE c == [call[a] EXCEPT !.p = @ + n]
  <2>1. SetCall(a, c)
    BY <1>6 DEF Advance
  <2>2. Position(c) /\ c.fn = call[a].fn /\ c.locked = call[a].locked
    <3>1. n \in {0, 1, 2, 3} /\ call[a].p + n <= Len(call[a].fmt) + 1
      BY <1>4
    <3> QED
      BY <3>1, Advanced
  <2> HIDE DEF c
  <2>3. /\ TypeOK' /\ CallsSound' /\ TextSound' /\ (UnderWay' <=> UnderWay)
        /\ call'[a] = c /\ \A b \in Agent : b # a => call'[b] = call[b]
    BY <1>1, <1>3, <2>1, <2>2, ReadsOn
  <2>4. ReaderSound' /\ LineWhole'
    <3>1. ~In(a, "gets") /\ ~In(a, "gets")'
      BY <1>1, <2>2, <2>3 DEF In
    <3> QED
      BY <1>1, <2>3, <3>1, LinesKept DEF Holds
  <2> QED
    BY <1>1, <2>3, <2>4 DEF ConsoleInv, UartSound
<1>7. ASSUME Char(a, 1) = "d", SetCall(a, [call[a] EXCEPT !.fn = "gets", !.buf = <<>>])
      PROVE  ConsoleInv'
  <2> DEFINE c == [call[a] EXCEPT !.fn = "gets", !.buf = <<>>]
  <2>1. SetCall(a, c) /\ call[a].p + 1 <= Len(call[a].fmt)
    BY <1>4, <1>7
  <2>2. /\ c \in Calls /\ c.fn = "gets" /\ c.buf = <<>> /\ c.p = call[a].p
        /\ c.fmt = call[a].fmt /\ c.locked = call[a].locked
    BY <1>4, Recorded DEF Fns
  <2> HIDE DEF c
  <2>3. Position(c)
    BY <1>4, <2>1, <2>2 DEF Position
  <2>4. /\ TypeOK' /\ CallsSound' /\ TextSound' /\ (UnderWay' <=> UnderWay)
        /\ call'[a] = c /\ \A b \in Agent : b # a => call'[b] = call[b]
    BY <1>1, <1>3, <2>1, <2>2, <2>3, ReadsOn
  <2>5. ReaderSound'
    <3>1. c.p < Len(c.fmt)
      BY <1>4, <2>1, <2>2
    <3> QED
      BY <1>1, <1>2, <2>2, <2>4, <3>1 DEF ReaderSound, In, Holds
  <2>6. LineWhole'
    BY <1>1, <1>2, <1>5, <2>2, <2>4 DEF LineWhole, In
  <2> QED
    BY <1>1, <2>4, <2>5, <2>6 DEF ConsoleInv, UartSound
<1> QED
  BY <1>6, <1>7 DEF ScanStep

\* A character or the newline arrives for the reader.
LEMMA GetCharKeeps ==
  ASSUME ConsoleInv, SpinInv', NEW a \in Agent, NEW k \in Key \cup {"\n"}, GetChar(a, k)
  PROVE  ConsoleInv'
<1>1. /\ Body(a, "gets", "read") /\ call[a].fn = "gets"
      /\ UNCHANGED <<word, at, mmu_enabled, over, said>>
      /\ \/ UnderWay /\ uart' = Append(uart, Echoed(k))
         \/ UNCHANGED uart
  BY DEF GetChar, Body, Inside, In
<1>6. /\ uart' \in Seq(Signs) /\ Counted(uart')
      /\ Unechoed(uart') = Unechoed(uart)
  <2>1. k \in Glyphs /\ uart \in Seq(Signs) /\ Counted(uart)
    BY DEF ConsoleInv, UartSound, Glyphs
  <2>2. CASE uart' = Append(uart, Echoed(k))
    <3>1. /\ Append(uart, Echoed(k)) \in Seq(Signs) /\ Counted(Append(uart, Echoed(k)))
          /\ Unechoed(Append(uart, Echoed(k))) = Unechoed(uart)
      BY <2>1, EchoApart
    <3> QED
      BY <2>2, <3>1
  <2>3. CASE UNCHANGED uart
    BY <2>1, <2>3
  <2> QED
    BY <1>1, <2>2, <2>3
<1>2. /\ mmu_enabled => Holds(a, "read")
      /\ \A b \in Agent : b # a => ~In(b, "gets")
  BY <1>1, OneReader
<1>3. /\ call[a] \in Calls /\ Len(call[a].fmt) \in Nat /\ call[a].p \in Nat \ {0}
      /\ call[a].p < Len(call[a].fmt) /\ call[a].buf = typed /\ LineTypes
  <2>1. In(a, "gets")
    BY <1>1 DEF In
  <2> QED
    BY <2>1, CharIs, TypeParts DEF ConsoleInv, CallsSound, ReaderSound, LineWhole
<1>4. CASE k = "\n"
  <2> DEFINE c == [call[a] EXCEPT !.fn = "scanf", !.p = @ + 2, !.buf = <<>>]
  <2>1. SetCall(a, c) /\ typed' = <<>>
    BY <1>4 DEF GetChar
  <2>2. /\ c \in Calls /\ c.fn = "scanf" /\ c.p = call[a].p + 2
        /\ c.fmt = call[a].fmt /\ c.locked = call[a].locked
    BY <1>3, Recorded DEF Fns
  <2> HIDE DEF c
  <2>3. Position(c)
    BY <1>3, <2>2 DEF Position
  <2>4. LineTypes'
    BY <2>1, ConsoleAssumption DEF LineTypes
  <2>5. /\ TypeOK' /\ CallsSound' /\ TextSound' /\ (UnderWay' <=> UnderWay)
        /\ call'[a] = c /\ \A b \in Agent : b # a => call'[b] = call[b]
    BY <1>1, <1>6, <2>1, <2>2, <2>3, <2>4, ReadsOn
  <2>6. \A b \in Agent : ~In(b, "gets")'
    BY <1>2, <2>2, <2>5 DEF In
  <2>7. UartSound'
    BY <1>1, <1>6, <2>5 DEF ConsoleInv, UartSound
  <2> QED
    BY <2>1, <2>5, <2>6, <2>7 DEF ConsoleInv, ReaderSound, LineWhole
<1>5. CASE k # "\n"
  <2> DEFINE c == [call[a] EXCEPT !.buf = Append(@, k)]
  <2>1. /\ SetCall(a, c) /\ typed' = Append(typed, k) /\ Len(typed) < LineMax /\ k \in Key
    BY <1>5 DEF GetChar
  <2>2. /\ c \in Calls /\ c.fn = "gets" /\ c.p = call[a].p
        /\ c.fmt = call[a].fmt /\ c.locked = call[a].locked /\ c.buf = Append(typed, k)
    <3>1. call[a].buf \in Seq(Key) /\ Append(call[a].buf, k) \in Seq(Key)
      BY <1>3, <2>1 DEF LineTypes
    <3> QED
      BY <1>1, <1>3, <3>1 DEF Calls, Fns
  <2> HIDE DEF c
  <2>3. Position(c)
    BY <1>3, <2>2 DEF Position
  <2>4. LineTypes'
    <3>1. typed \in Seq(Key) /\ Len(typed) \in Nat
      BY <1>3 DEF LineTypes
    <3>2. Append(typed, k) \in Seq(Key) /\ Len(Append(typed, k)) = Len(typed) + 1
      BY <2>1, <3>1
    <3> QED
      BY <2>1, <3>1, <3>2, ConsoleAssumption DEF LineTypes
  <2>5. /\ TypeOK' /\ CallsSound' /\ TextSound' /\ (UnderWay' <=> UnderWay)
        /\ call'[a] = c /\ \A b \in Agent : b # a => call'[b] = call[b]
    BY <1>1, <1>6, <2>1, <2>2, <2>3, <2>4, ReadsOn
  <2>6. ReaderSound'
    <3>1. c.p < Len(c.fmt) /\ In(a, "gets")'
      BY <1>3, <2>2, <2>5 DEF In
    <3> QED
      BY <1>1, <1>2, <2>2, <2>5, <3>1 DEF ReaderSound, In, Holds
  <2>7. LineWhole'
    BY <1>2, <2>1, <2>2, <2>5 DEF LineWhole, In
  <2>8. UartSound'
    BY <1>1, <1>6, <2>5 DEF ConsoleInv, UartSound
  <2> QED
    BY <2>5, <2>6, <2>7, <2>8 DEF ConsoleInv
<1> QED
  BY <1>4, <1>5
------------------------------------------------------------------------------
\* The initial state.
LEMMA ConsoleStarts == Init => ConsoleInv
<1> SUFFICES ASSUME Init PROVE ConsoleInv
  OBVIOUS
<1>1. NoCall \in Calls /\ NoCall.fn = "none" /\ NoCall.p \in 1 .. Len(NoCall.fmt) + 1
  BY DEF NoCall, Calls, Fns
<1>2. /\ call \in [Agent -> Calls]
      /\ \A a \in Agent : call[a] = NoCall
  BY <1>1 DEF Init
<1>3. SpinInv
  BY SpinStarts DEF Init
<1>4. TypeOK
  <2>1. mmu_enabled \in BOOLEAN /\ typed = <<>>
    BY DEF Init
  <2>2. /\ said \in [Handler -> {"nothing", "something", "all"}]
        /\ over \in [Handler -> Thread \cup {Nobody}]
    BY DEF Init
  <2>3. \A a \in Agent : /\ call[a].fn \in Fns
                         /\ call[a].p \in 1 .. Len(call[a].fmt) + 1
                         /\ call[a].buf \in Seq(Key)
    BY <1>1, <1>2 DEF Calls
  <2> QED
    BY <1>3, <2>1, <2>2, <2>3, ConsoleAssumption DEF TypeOK, SpinInv, SpinTypeOK, Fns
<1>5. \A a \in Agent : In(a, "none") /\ ~In(a, "gets") /\ ~In(a, "printf")
  BY <1>1, <1>2 DEF In
<1>6. typed = <<>>
  BY DEF Init
<1>7. UartSound
  BY UnechoedEmpty DEF Init, UartSound
<1> QED
  BY <1>2, <1>3, <1>4, <1>5, <1>6, <1>7
  DEF ConsoleInv, CallsSound, ReaderSound, LineWhole, TextSound, TextOf

\* Every step keeps the invariant.
LEMMA ConsoleSteps == ConsoleInv /\ [Next]_vars => ConsoleInv'
<1> SUFFICES ASSUME ConsoleInv, [Next]_vars PROVE ConsoleInv'
  OBVIOUS
<1>1. SpinInv'
  BY ConsoleSpins, SpinSteps DEF ConsoleInv
<1>2. ASSUME NEW a \in Agent, printf(a) PROVE ConsoleInv'
  <2>1. PICK fmt \in PrintFormats[a] : Enter(a, "printf", "print", fmt)
    BY <1>2 DEF printf
  <2>2. fmt \in Seq(STRING)
    BY ConsoleAssumption
  <2> QED
    BY <1>1, <2>1, <2>2, EnterKeeps, ConsoleAssumption
<1>3. ASSUME NEW a \in Agent, scanf(a) PROVE ConsoleInv'
  <2>1. PICK fmt \in ScanFormats : Enter(a, "scanf", "read", fmt)
    BY <1>3 DEF scanf
  <2>2. fmt \in Seq(STRING)
    BY ConsoleAssumption
  <2> QED
    BY <1>1, <2>1, <2>2, EnterKeeps, ConsoleAssumption
<1>4. ASSUME NEW a \in Agent, PrintEnd(a) \/ ScanEnd(a) PROVE ConsoleInv'
  <2>1. /\ ~In(a, "gets") /\ (Leave(a, "print") \/ Leave(a, "read"))
        /\ \/ Inside(a, "printf", "print") /\ uart' = <<>>
           \/ In(a, "scanf") /\ UNCHANGED uart
    BY <1>4 DEF PrintEnd, ScanEnd, Body, Inside, In
  <2> QED
    BY <1>1, <2>1, LeaveKeeps, ConsoleAssumption
<1>5. ASSUME NEW a \in Agent, IrqReturn(a) \/ Halt(a) PROVE ConsoleInv'
  <2>1. a \in Handler
    BY <1>5, ConsoleAssumption DEF IrqReturn, Halt
  <2> QED
    BY <1>1, <1>5, <2>1, HandlerSteps
<1>6. ASSUME NEW a \in Agent, Proceed(a) PROVE ConsoleInv'
  BY <1>1, <1>2, <1>4, <1>5, <1>6, PrintStepKeeps, ScanStepKeeps DEF Proceed
<1>7. CASE EnableMmu
  BY <1>1, <1>7, EnableMmuKeeps
<1>8. CASE \E h \in Handler, t \in Thread : Interrupt(h, t)
  BY <1>1, <1>8, HandlerSteps
<1>9. CASE UNCHANGED vars
  <2>1. UNCHANGED <<word, at, mmu_enabled, call, over, said, uart, typed>>
    BY <1>9 DEF vars
  <2>2. HandlerTypes' /\ \A b \in Agent, l \in {"print", "read"} : Holds(b, l) => Holds(b, l)'
    BY <2>1, TypeParts DEF ConsoleInv, HandlerTypes, Holds
  <2> QED
    BY <1>1, <2>1, <2>2, CallsKept
<1> QED
  BY <1>1, <1>2, <1>3, <1>6, <1>7, <1>8, <1>9, LockSteps, GetCharKeeps DEF Next

\* The inductive invariant of the console.
THEOREM ConsoleInvariant == Spec => []ConsoleInv
BY ConsoleStarts, ConsoleSteps, PTL DEF Spec

\* Types: p never leaves the format that printf or scanf reads, however its
\* conversions end.
THEOREM ConsoleTypes == Spec => []TypeOK
<1>1. ConsoleInv => TypeOK
  BY DEF ConsoleInv
<1> QED
  BY <1>1, ConsoleInvariant, PTL

\* A printf's text appears in one piece but for the keys that getchar echoes
\* meanwhile, whatever the other cores, the interrupt handler and panics print.
THEOREM PrintsWhole == Spec => []OutputWhole
<1>1. ConsoleInv => OutputWhole
  BY DEF ConsoleInv, TextSound, TextOf, OutputWhole, Inside, TypeOK
<1> QED
  BY <1>1, ConsoleInvariant, PTL

\* A typed line goes to one reader, and all of it.
THEOREM ReadsWhole == Spec => []LineWhole
<1>1. ConsoleInv => LineWhole
  BY DEF ConsoleInv
<1> QED
  BY <1>1, ConsoleInvariant, PTL
==============================================================================
