------------------------------- MODULE PageRun -------------------------------
(***************************************************************************)
(* What the page search of the heap computes: the first run of n free      *)
(* pages.  Heap uses this definition; PageScan shows that the loop of      *)
(* alloc_pages_backend computes it.                                        *)
(***************************************************************************)
EXTENDS Naturals

CONSTANTS TotalPages, NULL

Page == 0 .. TotalPages - 1

IsRun(free, start, n) ==
  /\ n > 0
  /\ \A k \in 0 .. n - 1 : start + k \in free

\* The lowest page that starts a run of n pages of the set free, NULL if none;
\* there is no run of 0 pages.
FirstFit(free, n) ==
  IF \E s \in free : IsRun(free, s, n)
  THEN CHOOSE s \in free : IsRun(free, s, n) /\ \A r \in free : IsRun(free, r, n) => s <= r
  ELSE NULL
==============================================================================
