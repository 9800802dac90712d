-------------------------------- MODULE Heap ---------------------------------
(***************************************************************************)
(* The kernel heap, src/src/heap.c: a page table at the start of the heap, *)
(* one slab cache per size class for requests up to half a page, whole     *)
(* pages for the others.  heap_lock makes malloc and free one step each;   *)
(* realloc takes the lock three times, so other threads act in between.    *)
(*                                                                         *)
(* Addresses are byte offsets from heap_start_addr, a slab is named by its *)
(* page.  The free list inside a slab, linked through the free objects, is *)
(* the sequence of their offsets, last freed first.                        *)
(***************************************************************************)
EXTENDS Integers, Sequences, FiniteSets, PageRun

CONSTANTS
  PageSize,      \* PAGE_SIZE
  HeaderSize,    \* sizeof(slab_t), 40
  InfoSize,      \* sizeof(page_info_t), 4
  Sizes,         \* slab_sizes, in increasing order
  Word,          \* number of values of a size_t
  Client,        \* threads that use the heap
  Request,       \* the sizes they ask for
  Arrays         \* what they ask of calloc: pairs of num and size

\* The count of a run of pages is a u16 and fits.
ASSUME HeapAssumption ==
  /\ TotalPages \in Nat \ {0} /\ TotalPages < 65536 /\ PageSize \in Nat \ {0}
  /\ HeaderSize \in Nat /\ InfoSize \in Nat \ {0}
  /\ Word \in Nat /\ PageSize <= Word /\ NULL \notin Nat
  /\ Sizes \in Seq(Nat) /\ Len(Sizes) > 0
  /\ \A i \in 1 .. Len(Sizes) : Sizes[i] \in 1 .. PageSize - (HeaderSize + 7)
  /\ \A i, j \in 1 .. Len(Sizes) : i < j => Sizes[i] < Sizes[j]
  /\ Request \subseteq 0 .. Word - 1
  /\ Arrays \subseteq (0 .. Word - 1) \X (0 .. Word - 1)

VARIABLES
  heap,          \* page_metadata, the slab headers and the caches
  live,          \* the blocks the clients hold, records of ptr and size
  re             \* per client, the realloc it is in

vars == <<heap, live, re>>
------------------------------------------------------------------------------
Class == 1 .. Len(Sizes)
ListName == {"partial", "full"}
MaxSlabSize == Sizes[Len(Sizes)]
HeapEnd == TotalPages * PageSize
MetaPages == (TotalPages * InfoSize + PageSize - 1) \div PageSize

virt_to_page_idx(addr) == addr \div PageSize
page_idx_to_virt(idx) == idx * PageSize
align_up(n, align) == ((n + align - 1) \div align) * align

FREE == [type |-> "FREE", count |-> 0]
FreePages(h) == {p \in Page : h.page[p].type = "FREE"}

\* A page that is not a slab has no header; stale ones are never read.
NoSlab == [next |-> NULL, prev |-> NULL, cache |-> 0, free_list |-> <<>>, in_use |-> 0]

WithSlab(h, p, s) == [h EXCEPT !.slab = [h.slab EXCEPT ![p] = s]]
WithObjects(h, p, free_list, in_use) ==
  WithSlab(h, p, [h.slab[p] EXCEPT !.free_list = free_list, !.in_use = in_use])

\* Marks n pages from start on; only the first one knows the count.
Claim(h, start, n, type) ==
  [h EXCEPT !.page = [p \in Page |->
     IF p \in start .. start + n - 1
     THEN [type |-> type, count |-> IF p = start THEN n ELSE 0]
     ELSE h.page[p]]]

MutFreePages(h, ptr) ==
  LET idx == virt_to_page_idx(ptr)
  IN  [h EXCEPT !.page = [p \in Page |->
         IF p = idx THEN FREE ELSE h.page[p]]]

free_pages_backend(h, ptr) ==
  LET idx == virt_to_page_idx(ptr)
  IN  [h EXCEPT !.page = [p \in Page |->
         IF p \in idx .. idx + h.page[idx].count - 1 THEN FREE ELSE h.page[p]]]

\* Objects follow the header; the free list starts in address order.
ObjStart == align_up(HeaderSize, 8)
MutMaxObjs(cl) == (PageSize - ObjStart) \div Sizes[cl] + 1

MaxObjs(cl) == (PageSize - ObjStart) \div Sizes[cl]
slab_init_page(cl) ==
  [next |-> NULL, prev |-> NULL, cache |-> cl, in_use |-> 0,
   free_list |-> [k \in 1 .. MaxObjs(cl) |-> ObjStart + (k - 1) * Sizes[cl]]]

\* The lists of the caches, with p as the first slab of one of them.
WithHead(lists, list, cl, p) == [lists EXCEPT ![list] = [lists[list] EXCEPT ![cl] = p]]

MutUnlink(h, list, cl, p) ==
  LET n == h.slab[p].next
      v == h.slab[p].prev
  IN  [h EXCEPT !.lists = IF v = NULL THEN WithHead(h.lists, list, cl, n) ELSE h.lists,
                !.slab = [q \in Page |-> IF q = v THEN [h.slab[q] EXCEPT !.next = n]
                                         ELSE h.slab[q]]]

\* Takes slab p out of one of the lists of cache cl, and puts it in front.
Unlink(h, list, cl, p) ==
  LET n == h.slab[p].next
      v == h.slab[p].prev
  IN  [h EXCEPT !.lists = IF v = NULL THEN WithHead(h.lists, list, cl, n) ELSE h.lists,
                !.slab = [q \in Page |-> IF q = v THEN [h.slab[q] EXCEPT !.next = n]
                                         ELSE IF q = n THEN [h.slab[q] EXCEPT !.prev = v]
                                         ELSE h.slab[q]]]
LinkFirst(h, list, cl, p) ==
  LET old == h.lists[list][cl]
  IN  [h EXCEPT !.lists = WithHead(h.lists, list, cl, p),
                !.slab = [q \in Page |-> IF q = p THEN [h.slab[q] EXCEPT !.next = old, !.prev = NULL]
                                         ELSE IF q = old THEN [h.slab[q] EXCEPT !.prev = p]
                                         ELSE h.slab[q]]]
------------------------------------------------------------------------------
\* Allocation returns the new heap and the address, NULL when there is no room.
Failed(h) == [heap |-> h, ptr |-> NULL]

\* The first partial slab of the cache, or a new one in front of the list.
\* slabs_free is never anything but NULL, so its branch is left out.
WithPartial(h, cl) ==
  LET p == FirstFit(FreePages(h), 1)
  IN  IF h.lists["partial"][cl] # NULL \/ p = NULL THEN h
      ELSE LinkFirst(WithSlab(Claim(h, p, 1, "SLAB"), p, slab_init_page(cl)), "partial", cl, p)

cache_alloc(h, cl) ==
  LET h1 == WithPartial(h, cl)
      p == h1.lists["partial"][cl]
      obj == Head(h1.slab[p].free_list)
      h2 == WithObjects(h1, p, Tail(h1.slab[p].free_list), h1.slab[p].in_use + 1)
      h3 == IF h2.slab[p].free_list = <<>>
            THEN LinkFirst(Unlink(h2, "partial", cl, p), "full", cl, p)
            ELSE h2
  IN  IF p = NULL THEN Failed(h) ELSE [heap |-> h3, ptr |-> page_idx_to_virt(p) + obj]

MutPutBack(h, p, obj) ==
  WithObjects(h, p, <<obj>> \o h.slab[p].free_list, h.slab[p].in_use - 2)

PutBack(h, p, obj) ==
  WithObjects(h, p, <<obj>> \o h.slab[p].free_list, h.slab[p].in_use - 1)

\* An emptied slab is unlinked from whichever list it is on and its page goes
\* back; a full one that is not full any more moves to the partial list.
cache_free(h, cl, ptr) ==
  LET p == virt_to_page_idx(ptr)
      was_full == h.slab[p].free_list = <<>>
      from == IF was_full THEN "full" ELSE "partial"
      h1 == PutBack(h, p, ptr % PageSize)
  IN  IF h1.slab[p].in_use = 0
      THEN WithSlab(free_pages_backend(Unlink(h1, from, cl, p), page_idx_to_virt(p)), p, NoSlab)
      ELSE IF was_full THEN LinkFirst(Unlink(h1, "full", cl, p), "partial", cl, p)
      ELSE h1

MutSizeClass(size) ==
  CHOOSE i \in Class : size <= 2 * Sizes[i] /\ \A j \in Class : size <= 2 * Sizes[j] => i <= j

SizeClass(size) ==
  CHOOSE i \in Class : size <= Sizes[i] /\ \A j \in Class : size <= Sizes[j] => i <= j

\* The rounding wraps for sizes near the top of size_t and asks for 0 pages.
PagesNeeded(size) == ((size + PageSize - 1) % Word) \div PageSize

LargeAlloc(h, size) ==
  LET n == PagesNeeded(size)
      s == FirstFit(FreePages(h), n)
  IN  IF s = NULL THEN Failed(h)
      ELSE [heap |-> Claim(h, s, n, "LARGE"), ptr |-> page_idx_to_virt(s)]

Alloc(h, size) ==
  IF size = 0 THEN Failed(h)
  ELSE IF size <= MaxSlabSize THEN cache_alloc(h, SizeClass(size))
  ELSE LargeAlloc(h, size)

\* free of a block the heap handed out; the page tells which kind it is.
Release(h, ptr) ==
  LET idx == virt_to_page_idx(ptr)
  IN  IF h.page[idx].type = "SLAB" THEN cache_free(h, h.slab[idx].cache, ptr)
      ELSE IF h.page[idx].type = "LARGE" THEN free_pages_backend(h, ptr)
      ELSE h

\* What realloc takes for the size of a block: all the room it has.
Capacity(h, ptr) ==
  LET idx == virt_to_page_idx(ptr)
  IN  IF h.page[idx].type = "SLAB" THEN Sizes[h.slab[idx].cache]
      ELSE h.page[idx].count * PageSize
------------------------------------------------------------------------------
Block(ptr, size) == [ptr |-> ptr, size |-> size]
NotInRealloc == [step |-> "none", block |-> NULL, size |-> 0]

\* heap_init: the page table's own pages are taken for good.
Init ==
  /\ heap = [page    |-> [p \in Page |-> IF p < MetaPages THEN [type |-> "LARGE", count |-> 1]
                                         ELSE FREE],
             slab    |-> [p \in Page |-> NoSlab],
             lists   |-> [list \in ListName |-> [cl \in Class |-> NULL]]]
  /\ live = {}
  /\ re = [c \in Client |-> NotInRealloc]

\* A block somebody is reallocating is not touched by others.
Settled(b) == \A c \in Client : re[c].block # b

malloc(c, size) ==
  LET r == Alloc(heap, size)
  IN  /\ re[c] = NotInRealloc
      /\ r.ptr # NULL
      /\ heap' = r.heap
      /\ live' = live \cup {Block(r.ptr, size)}
      /\ UNCHANGED re

\* The product wraps: the block can be smaller than the array.
calloc(c, num, size) == malloc(c, (num * size) % Word)

free(c, b) ==
  /\ re[c] = NotInRealloc
  /\ Settled(b)
  /\ heap' = Release(heap, b.ptr)
  /\ live' = live \ {b}
  /\ UNCHANGED re

\* The first critical section of realloc: how large is the block?  If it is
\* large enough it is returned as it is.
realloc(c, b, new_size) ==
  /\ re[c] = NotInRealloc
  /\ Settled(b)
  /\ new_size > 0
  /\ IF Capacity(heap, b.ptr) >= new_size
     THEN live' = (live \ {b}) \cup {Block(b.ptr, new_size)} /\ UNCHANGED re
     ELSE re' = [re EXCEPT ![c] = [step |-> "malloc", block |-> b, size |-> new_size]]
          /\ UNCHANGED live
  /\ UNCHANGED heap

\* realloc to size 0; realloc of NULL is malloc.
ReallocZero(c, b, new_size) == new_size = 0 /\ free(c, b)

\* The malloc of realloc; without room the old block stays as it was.
ReallocMalloc(c) ==
  LET r == Alloc(heap, re[c].size)
  IN  /\ re[c].step = "malloc"
      /\ heap' = r.heap
      /\ IF r.ptr = NULL
         THEN re' = [re EXCEPT ![c] = NotInRealloc] /\ UNCHANGED live
         ELSE /\ re' = [re EXCEPT ![c].step = "free"]
              /\ live' = live \cup {Block(r.ptr, re[c].size)}

\* memcpy and the free of the old block.
ReallocFree(c) ==
  LET b == re[c].block
  IN  /\ re[c].step = "free"
      /\ heap' = Release(heap, b.ptr)
      /\ live' = live \ {b}
      /\ re' = [re EXCEPT ![c] = NotInRealloc]

Next ==
  \E c \in Client :
    \/ \E size \in Request : malloc(c, size)
    \/ \E a \in Arrays : calloc(c, a[1], a[2])
    \/ \E b \in live : \/ free(c, b)
                     \/ \E size \in Request : realloc(c, b, size) \/ ReallocZero(c, b, size)
    \/ ReallocMalloc(c)
    \/ ReallocFree(c)

Spec == Init /\ [][Next]_vars
------------------------------------------------------------------------------
Slab(p) == heap.page[p].type = "SLAB"
BlocksIn(p) == {b \in live : virt_to_page_idx(b.ptr) = p}

\* Types: list links name pages, and in_use never wraps below 0.
TypeOK ==
  /\ heap.page \in [Page -> [type : {"FREE", "SLAB", "LARGE"}, count : 0 .. TotalPages]]
  /\ heap.lists \in [ListName -> [Class -> Page \cup {NULL}]]
  /\ \A p \in Page : /\ heap.slab[p].next \in Page \cup {NULL}
                     /\ heap.slab[p].prev \in Page \cup {NULL}
                     /\ heap.slab[p].cache \in 0 .. Len(Sizes)
                     /\ heap.slab[p].free_list \in Seq(0 .. PageSize - 1)
                     /\ heap.slab[p].in_use \in Nat
  /\ \A b \in live : b.ptr \in 0 .. HeapEnd - 1 /\ b.size \in Nat
  /\ DOMAIN re = Client

\* malloc, free and realloc implement Allocator: whatever classes, pages and
\* interleavings with other threads' realloc, the blocks handed out lie behind
\* the page table and never overlap, also when realloc grows one in place.
Blocks == INSTANCE Allocator WITH Low <- page_idx_to_virt(MetaPages),
                                  High <- HeapEnd, blocks <- live
ImplementsAllocator == Blocks!Spec

\* No block covers a slab header, so writing a block cannot damage the lists.
HeadersIntact ==
  \A b \in live, p \in Page :
    Slab(p) => \/ b.ptr + b.size <= page_idx_to_virt(p)
               \/ b.ptr >= page_idx_to_virt(p) + HeaderSize

\* A list of cache cl is a doubly linked list of exactly the slabs in S.
ListOf(list, cl, S) ==
  LET head == heap.lists[list][cl] IN
  /\ S = {} <=> head = NULL
  /\ S # {} =>
       \E pos \in [S -> 1 .. Cardinality(S)] :
         /\ \A p, q \in S : pos[p] = pos[q] => p = q
         /\ head \in S /\ pos[head] = 1 /\ heap.slab[head].prev = NULL
         /\ \A p \in S : pos[p] = Cardinality(S) => heap.slab[p].next = NULL
         /\ \A p, q \in S : pos[q] = pos[p] + 1 => heap.slab[p].next = q /\ heap.slab[q].prev = p

\* Every slab is on the list its occupancy calls for, in_use counts its
\* blocks, and its free list holds each of its other objects once: the list
\* surgery of cache_alloc and cache_free never loses or repeats one.
SlabsSound ==
  /\ \A cl \in Class :
       LET S == {p \in Page : Slab(p) /\ heap.slab[p].cache = cl} IN
       /\ ListOf("full", cl, {p \in S : heap.slab[p].in_use = MaxObjs(cl)})
       /\ ListOf("partial", cl, {p \in S : heap.slab[p].in_use < MaxObjs(cl)})
  /\ \A p \in Page : Slab(p) =>
       LET s == heap.slab[p]
           taken == {b.ptr % PageSize : b \in BlocksIn(p)}
           spare == {s.free_list[k] : k \in DOMAIN s.free_list}
       IN  /\ s.in_use = Cardinality(taken) /\ s.in_use > 0
           /\ Cardinality(spare) = Len(s.free_list)
           /\ taken \cap spare = {}
           /\ Cardinality(taken) + Cardinality(spare) = MaxObjs(s.cache)

\* Nothing leaks: a page that no block lies in is free again, also after a
\* realloc that found no room and after slabs that were full.
NoLeak ==
  \A p \in Page : p >= MetaPages =>
    (heap.page[p].type # "FREE" <=>
       \E b \in live : p \in virt_to_page_idx(b.ptr) ..
                             virt_to_page_idx(b.ptr + Capacity(heap, b.ptr) - 1))
==============================================================================
