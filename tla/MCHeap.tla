-------------------------------- MODULE MCHeap -------------------------------
(***************************************************************************)
(* The real page and header sizes, the two largest of the eight classes    *)
(* and a heap of a few pages.  Size 0 and a size that wraps when it is     *)
(* rounded up are among the requests.                                      *)
(***************************************************************************)
EXTENDS Heap, TLC

MCSizes == <<1024, 2048>>
MCWord == 65536

\* Classes with 3 objects and with 1 object per slab, and runs of two pages.
MCRequest == {0, 1000, 2048, 4097, MCWord - 1}

\* Two elements of 1024 bytes, and an array whose size wraps to the same 2048.
MCArrays == {<<2, 1024>>, <<16896, 4>>}

ClientSymmetry == Permutations(Client)
==============================================================================
