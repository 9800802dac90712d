------------------------------- MODULE PageScan ------------------------------
(***************************************************************************)
(* The loop of alloc_pages_backend (src/src/heap.c): one pass over the     *)
(* page table with a running count of free pages.  free is the set of      *)
(* pages whose type is PAGE_TYPE_FREE; heap_lock keeps it still.           *)
(***************************************************************************)
EXTENDS PageRun

CONSTANT MaxRequest     \* bound: the largest num_pages asked for

ASSUME PageScanAssumption == TotalPages \in Nat \ {0} /\ MaxRequest \in Nat

VARIABLES free, num_pages, i, free_run, start_idx, done
vars == <<free, num_pages, i, free_run, start_idx, done>>

Init ==
  /\ free \in SUBSET Page
  /\ num_pages \in 0 .. MaxRequest
  /\ i = 0 /\ free_run = 0
  /\ start_idx = NULL
  /\ done = FALSE

MutScanPage ==
  /\ ~done /\ i < TotalPages
  /\ i' = i + 1
  /\ IF i \in free
     THEN /\ start_idx' = IF free_run = 0 THEN i ELSE start_idx
          /\ free_run' = free_run + 1
          /\ done' = (free_run + 1 = num_pages)
     ELSE UNCHANGED <<free_run, start_idx, done>>
  /\ UNCHANGED <<free, num_pages>>

\* One iteration of the loop over i, which returns when the run is long enough.
ScanPage ==
  /\ ~done /\ i < TotalPages
  /\ i' = i + 1
  /\ IF i \in free
     THEN /\ start_idx' = IF free_run = 0 THEN i ELSE start_idx
          /\ free_run' = free_run + 1
          /\ done' = (free_run + 1 = num_pages)
     ELSE free_run' = 0 /\ UNCHANGED <<start_idx, done>>
  /\ UNCHANGED <<free, num_pages>>

\* The end of the loop: nothing was found.
ScanEnd ==
  /\ ~done /\ i = TotalPages
  /\ done' = TRUE
  /\ start_idx' = NULL
  /\ UNCHANGED <<free, num_pages, i, free_run>>

Next == ScanPage \/ ScanEnd
Spec == Init /\ [][Next]_vars
------------------------------------------------------------------------------
\* The loop returns the first run of num_pages free pages, whatever pages are
\* free, and nothing for a request of 0 pages, which is what the size
\* arithmetic of malloc makes of a size near 2^64.
ScanIsFirstFit == done => start_idx = FirstFit(free, num_pages)
==============================================================================
