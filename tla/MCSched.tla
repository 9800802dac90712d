------------------------------- MODULE MCSched -------------------------------
(***************************************************************************)
(* Two cores, as many as the kernel has, and up to three created threads   *)
(* besides main and the second core's startup task.                        *)
(***************************************************************************)
EXTENDS Sched, TLC

\* Threads are interchangeable: no definition tells one from another.
ThreadSymmetry == Permutations(Thread)
==============================================================================
