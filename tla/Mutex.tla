-------------------------------- MODULE Mutex --------------------------------
(***************************************************************************)
(* What a set of locks promises: a lock has at most one owner, is taken    *)
(* when it has none, and is given up by its owner.                         *)
(***************************************************************************)
CONSTANTS Lock, Agent, Nobody
VARIABLE owner

Init == owner = [l \in Lock |-> Nobody]
Acquire(a, l) == owner[l] = Nobody /\ owner' = [owner EXCEPT ![l] = a]
Release(a, l) == owner[l] = a /\ owner' = [owner EXCEPT ![l] = Nobody]
Next == \E a \in Agent, l \in Lock : Acquire(a, l) \/ Release(a, l)
Spec == Init /\ [][Next]_owner
==============================================================================
