----------------------------- MODULE HeapProofs ------------------------------
(***************************************************************************)
(* The heap of src/src/heap.c, for any number of pages, any page size and  *)
(* size classes that fit, and any number of clients: the blocks handed out *)
(* never overlap each other, a slab header or the page table, the lists of *)
(* the caches are exact, and no page leaks.                                *)
(*                                                                         *)
(* The invariant IInv describes the heap page by page from the set of the  *)
(* addresses that are handed out: a free page has none of them, a slab has *)
(* them in slots that are not in its free list, a large block has the      *)
(* first byte of its first page.  It also says which slabs each list has,  *)
(* by numbering them along the links.  That blocks are disjoint is not     *)
(* part of it: Extent and Apart derive it from the pages.                  *)
(***************************************************************************)
EXTENDS Heap, Division, FiniteSetTheorems, SequenceTheorems, TLAPS

\* The shape of the heap's state.
Link == Page \cup {NULL}
PageInfo == [type : {"FREE", "SLAB", "LARGE"}, count : 0 .. TotalPages]
SlabInfo == [next : Link, prev : Link, cache : 0 .. Len(Sizes), free_list : Seq(0 .. PageSize - 1),
             in_use : Nat]
HeapShape == [page : [Page -> PageInfo], slab : [Page -> SlabInfo],
              lists : [ListName -> [Class -> Link]]]

\* pos numbers the slabs S from the first one of the list to the last.
Numbered(head, slab, S, pos) ==
  /\ \A p, q \in S : pos[p] = pos[q] => p = q
  /\ \A k \in 1 .. Cardinality(S) : \E p \in S : pos[p] = k
  /\ head \in S /\ pos[head] = 1 /\ slab[head].prev = NULL
  /\ \A p \in S : pos[p] = Cardinality(S) => slab[p].next = NULL
  /\ \A p, q \in S : pos[q] = pos[p] + 1 => slab[p].next = q /\ slab[q].prev = p

\* The list that starts at head has exactly the slabs S.
ListIs(head, slab, S) ==
  /\ S = {} <=> head = NULL
  /\ S # {} => \E pos \in [S -> 1 .. Cardinality(S)] : Numbered(head, slab, S, pos)

\* F says which slabs are in which list.
Membership == [ListName -> [Class -> SUBSET Page]]
ListsAre(h, F) ==
  /\ F \in Membership
  /\ \A k, l \in ListName, c, d \in Class : F[k][c] \cap F[l][d] # {} => k = l /\ c = d
  /\ \A l \in ListName, c \in Class : ListIs(h.lists[l][c], h.slab, F[l][c])

\* F with the set S for one of the lists.
WithSet(F, l, c, S) == [F EXCEPT ![l] = [F[l] EXCEPT ![c] = S]]

\* g is h with other links: pages and objects are the same.
SameObjects(g, h) ==
  /\ g \in HeapShape /\ g.page = h.page
  /\ \A p \in Page : /\ g.slab[p].cache = h.slab[p].cache
                     /\ g.slab[p].free_list = h.slab[p].free_list
                     /\ g.slab[p].in_use = h.slab[p].in_use

\* The byte at offset o of page p, and which bytes of a page are in A.
Addr(p, o) == page_idx_to_virt(p) + o
Offset == 0 .. PageSize - 1
Offsets(A, p) == {o \in Offset : Addr(p, o) \in A}

\* Where the objects of a slab can be.
Slots(cl) == {ObjStart + k * Sizes[cl] : k \in 0 .. MaxObjs(cl) - 1}

\* The entries of a free list, and that none is there twice.
Entries(s) == {s[k] : k \in DOMAIN s}
Distinct(s) == \A i, j \in DOMAIN s : s[i] = s[j] => i = j

\* A slab whose objects T are taken: the free list has each of the others once.
SlabOK(s, T) ==
  /\ s.cache \in Class
  /\ Distinct(s.free_list) /\ Entries(s.free_list) \subseteq Slots(s.cache)
  /\ T \subseteq Slots(s.cache) /\ T \cap Entries(s.free_list) = {}
  /\ s.in_use = Cardinality(T) /\ Len(s.free_list) + s.in_use = MaxObjs(s.cache)

\* Page p belongs to a large block, or to the page table.
IsLarge(h, p) == h.page[p].type = "LARGE"

\* The first page of a large block knows its length; the others, with count 0,
\* lie behind it.
RunOK(h, p) ==
  IF h.page[p].count > 0
  THEN /\ p + h.page[p].count <= TotalPages
       /\ \A q \in p + 1 .. p + h.page[p].count - 1 : IsLarge(h, q) /\ h.page[q].count = 0
  ELSE \E s \in Page : /\ MetaPages <= s /\ s < p /\ p < s + h.page[s].count
                       /\ IsLarge(h, s)

\* One page of the heap when the addresses A are handed out.  Only page e may
\* be a slab without objects in use.
PageOK(h, A, e, p) ==
  /\ p < MetaPages => IsLarge(h, p) /\ Offsets(A, p) = {}
  /\ h.page[p].type = "FREE" => Offsets(A, p) = {}
  /\ h.page[p].type = "SLAB" =>
       h.page[p].count = 1 /\ SlabOK(h.slab[p], Offsets(A, p)) /\ (h.slab[p].in_use > 0 \/ p = e)
  /\ IsLarge(h, p) /\ MetaPages <= p =>
       RunOK(h, p) /\ Offsets(A, p) = IF h.page[p].count > 0 THEN {0} ELSE {}

\* The slabs that belong in a list.
Belongs(h, l, c) ==
  {p \in Page : /\ h.page[p].type = "SLAB" /\ h.slab[p].cache = c
                /\ (h.slab[p].free_list = <<>>) <=> (l = "full")}
Members(h) == [l \in ListName |-> [c \in Class |-> Belongs(h, l, c)]]

\* The heap when the addresses A are handed out.
HeapOK(h, A, e) ==
  /\ h \in HeapShape
  /\ A \subseteq 0 .. HeapEnd - 1
  /\ \A p \in Page : PageOK(h, A, e, p)
  /\ ListsAre(h, Members(h))

\* The addresses that are handed out.
Pointers == {b.ptr : b \in live}

\* Blocks have addresses of their own and fit the room they have.
LiveOK ==
  /\ \A b, c \in live : b.ptr = c.ptr => b = c
  /\ \A b \in live : b = Block(b.ptr, b.size) /\ b.size \in 1 .. Capacity(heap, b.ptr)

\* A client in realloc holds a block that is handed out, and no two the same.
ReOK(r) ==
  \/ r = NotInRealloc
  \/ r \in [step : {"malloc", "free"}, block : live, size : 1 .. Word - 1]

ReallocOK ==
  /\ re = [c \in Client |-> re[c]]
  /\ \A c \in Client : ReOK(re[c])
  /\ \A c, d \in Client :
       re[c].step # "none" /\ re[d].step # "none" /\ re[c].block = re[d].block => c = d

\* The inductive invariant.
IInv == HeapOK(heap, Pointers, NULL) /\ LiveOK /\ ReallocOK
------------------------------------------------------------------------------
\* What the proofs use of the constants.
LEMMA HeapSizes ==
  /\ TotalPages \in Nat \ {0} /\ PageSize \in Nat \ {0} /\ HeaderSize \in Nat /\ InfoSize \in Nat \ {0}
  /\ Word \in Nat /\ PageSize <= Word /\ NULL \notin Nat
  /\ Sizes \in Seq(Nat) /\ Len(Sizes) \in Nat \ {0} /\ Class = 1 .. Len(Sizes)
  /\ \A c \in Class : Sizes[c] \in Nat \ {0} /\ Sizes[c] + HeaderSize + 7 <= PageSize
  /\ \A c, d \in Class : c < d => Sizes[c] < Sizes[d]
  /\ Page = 0 .. TotalPages - 1 /\ Page \subseteq Nat /\ NULL \notin Page
  /\ ListName = {"partial", "full"}
<1>1. /\ TotalPages \in Nat \ {0} /\ PageSize \in Nat \ {0} /\ HeaderSize \in Nat /\ InfoSize \in Nat \ {0}
      /\ Word \in Nat /\ PageSize <= Word /\ NULL \notin Nat
      /\ Sizes \in Seq(Nat) /\ Len(Sizes) \in Nat \ {0} /\ Class = 1 .. Len(Sizes)
  BY HeapAssumption DEF Class
<1>2. \A c \in Class : Sizes[c] \in Nat \ {0} /\ Sizes[c] + HeaderSize + 7 <= PageSize
  BY <1>1, HeapAssumption
<1>3. \A c, d \in Class : c < d => Sizes[c] < Sizes[d]
  BY <1>1, HeapAssumption
<1>4. Page = 0 .. TotalPages - 1 /\ Page \subseteq Nat /\ NULL \notin Page
  BY <1>1 DEF Page
<1> QED
  BY <1>1, <1>2, <1>3, <1>4 DEF ListName

\* Sets of slabs are finite.
LEMMA SlabsFinite ==
  ASSUME NEW S \in SUBSET Page
  PROVE  IsFiniteSet(S) /\ Cardinality(S) \in Nat /\ (S # {} => Cardinality(S) > 0)
<1>1. IsFiniteSet(Page)
  BY HeapSizes, FS_Interval
<1>2. IsFiniteSet(S)
  BY <1>1, FS_Subset
<1> QED
  BY <1>2, FS_CardinalityType, FS_EmptySet

\* A list depends only on the links of its slabs.
LEMMA ListLocal ==
  ASSUME NEW S \in SUBSET Page, NEW head, NEW slab, NEW new, ListIs(head, slab, S),
         \A p \in S : new[p].next = slab[p].next /\ new[p].prev = slab[p].prev
  PROVE  ListIs(head, new, S)
<1>1. ASSUME NEW pos, Numbered(head, slab, S, pos) PROVE Numbered(head, new, S, pos)
  BY <1>1 DEF Numbered
<1> QED
  BY <1>1 DEF ListIs

\* LinkFirst puts p in front of the list.
LEMMA InFront ==
  ASSUME NEW S \in SUBSET Page, NEW head, NEW slab, NEW new, ListIs(head, slab, S),
         NEW p \in Page \ S,
         new[p].next = head, new[p].prev = NULL,
         \A q \in S : new[q].next = slab[q].next,
         \A q \in S : new[q].prev = IF q = head THEN p ELSE slab[q].prev
  PROVE  ListIs(p, new, S \cup {p})
<1>1. /\ IsFiniteSet(S) /\ Cardinality(S) \in Nat
      /\ Cardinality(S \cup {p}) = Cardinality(S) + 1
  BY SlabsFinite, FS_AddElement
<1>2. p # NULL /\ NULL \notin S
  BY HeapSizes
<1>3. CASE S = {}
  <2>1. head = NULL /\ Cardinality(S) = 0 /\ S \cup {p} = {p} /\ Cardinality({p}) = 1
    BY <1>1, <1>3, FS_EmptySet DEF ListIs
  <2> DEFINE pos == [q \in {p} |-> 1]
  <2>2. pos \in [{p} -> 1 .. 1] /\ pos[p] = 1
    OBVIOUS
  <2> HIDE DEF pos
  <2>3. Numbered(p, new, {p}, pos)
    BY <1>2, <2>1, <2>2 DEF Numbered
  <2> QED
    BY <1>2, <2>1, <2>2, <2>3 DEF ListIs
<1>4. CASE S # {}
  <2>1. PICK old \in [S -> 1 .. Cardinality(S)] : Numbered(head, slab, S, old)
    BY <1>4 DEF ListIs
  <2>2. PICK n \in Nat : n = Cardinality(S)
    BY <1>1
  <2>3. \A q \in S : old[q] \in 1 .. n
    BY <2>1, <2>2
  <2> DEFINE pos == [q \in S \cup {p} |-> IF q = p THEN 1 ELSE old[q] + 1]
  <2>4. /\ pos[p] = 1 /\ \A q \in S : pos[q] = old[q] + 1
        /\ pos \in [S \cup {p} -> 1 .. n + 1]
    BY <2>3
  <2> HIDE DEF pos
  <2>5. Cardinality(S \cup {p}) = n + 1
    BY <1>1, <2>2
  <2>6. \A a, b \in S \cup {p} : pos[a] = pos[b] => a = b
    BY <2>1, <2>3, <2>4 DEF Numbered
  <2>7. \A k \in 1 .. n + 1 : \E a \in S \cup {p} : pos[a] = k
    <3> SUFFICES ASSUME NEW k \in 1 .. n + 1 PROVE \E a \in S \cup {p} : pos[a] = k
      OBVIOUS
    <3>1. CASE k = 1
      BY <2>4, <3>1
    <3>2. CASE k # 1
      <4>1. k - 1 \in 1 .. n
        BY <3>2
      <4>2. PICK a \in S : old[a] = k - 1
        BY <2>1, <2>2, <4>1 DEF Numbered
      <4> QED
        BY <2>4, <4>2
    <3> QED
      BY <3>1, <3>2
  <2>8. \A a \in S \cup {p} : pos[a] = n + 1 => new[a].next = NULL
    <3>1. n > 0
      BY <1>4, <2>2, SlabsFinite
    <3>2. \A a \in S : old[a] = n => slab[a].next = NULL
      BY <2>1, <2>2 DEF Numbered
    <3> QED
      BY <2>3, <2>4, <3>1, <3>2
  <2>9. ASSUME NEW a \in S \cup {p}, NEW b \in S \cup {p}, pos[b] = pos[a] + 1
        PROVE  new[a].next = b /\ new[b].prev = a
    <3>1. CASE a = p
      <4>1. b \in S /\ old[b] = 1
        BY <2>3, <2>4, <2>9, <3>1
      <4>2. b = head
        BY <2>1, <4>1 DEF Numbered
      <4> QED
        BY <3>1, <4>1, <4>2
    <3>2. CASE a \in S
      <4>1. b \in S /\ old[b] = old[a] + 1
        BY <2>3, <2>4, <2>9, <3>2
      <4>2. slab[a].next = b /\ slab[b].prev = a
        BY <2>1, <3>2, <4>1 DEF Numbered
      <4>3. b # head
        BY <2>1, <2>3, <3>2, <4>1 DEF Numbered
      <4> QED
        BY <3>2, <4>1, <4>2, <4>3
    <3> QED
      BY <3>1, <3>2
  <2>10. Numbered(p, new, S \cup {p}, pos)
    BY <2>4, <2>5, <2>6, <2>7, <2>8, <2>9 DEF Numbered
  <2> QED
    BY <1>2, <2>4, <2>5, <2>10 DEF ListIs
<1> QED
  BY <1>3, <1>4
------------------------------------------------------------------------------
\* The neighbours of a slab in its list.
LEMMA Neighbours ==
  ASSUME NEW S \in SUBSET Page, NEW head, NEW slab, NEW pos \in [S -> 1 .. Cardinality(S)],
         Numbered(head, slab, S, pos), NEW p \in S
  PROVE  /\ IF pos[p] = 1 THEN p = head /\ slab[p].prev = NULL
            ELSE p # head /\ slab[p].prev \in S /\ pos[slab[p].prev] = pos[p] - 1
         /\ IF pos[p] = Cardinality(S) THEN slab[p].next = NULL
            ELSE slab[p].next \in S /\ pos[slab[p].next] = pos[p] + 1
<1>1. Cardinality(S) \in Nat /\ pos[p] \in 1 .. Cardinality(S)
  BY SlabsFinite
<1>2. PICK n \in Nat : n = Cardinality(S)
  BY <1>1
<1>3. ASSUME pos[p] = 1 PROVE p = head /\ slab[p].prev = NULL
  BY <1>3 DEF Numbered
<1>4. ASSUME pos[p] # 1 PROVE p # head /\ slab[p].prev \in S /\ pos[slab[p].prev] = pos[p] - 1
  <2>1. pos[p] - 1 \in 1 .. n
    BY <1>1, <1>2, <1>4
  <2>2. PICK q \in S : pos[q] = pos[p] - 1
    BY <1>2, <2>1 DEF Numbered
  <2>3. pos[p] = pos[q] + 1
    BY <1>1, <1>2, <2>2
  <2>4. slab[p].prev = q
    BY <2>3 DEF Numbered
  <2> QED
    BY <1>4, <2>2, <2>4 DEF Numbered
<1>5. ASSUME pos[p] = Cardinality(S) PROVE slab[p].next = NULL
  BY <1>5 DEF Numbered
<1>6. ASSUME pos[p] # Cardinality(S) PROVE slab[p].next \in S /\ pos[slab[p].next] = pos[p] + 1
  <2>1. pos[p] + 1 \in 1 .. n
    BY <1>1, <1>2, <1>6
  <2>2. PICK q \in S : pos[q] = pos[p] + 1
    BY <1>2, <2>1 DEF Numbered
  <2>3. slab[p].next = q
    BY <2>2 DEF Numbered
  <2> QED
    BY <2>2, <2>3
<1> QED
  BY <1>3, <1>4, <1>5, <1>6

\* Unlink takes p out of the list, wherever it is.
LEMMA TakenOut ==
  ASSUME NEW S \in SUBSET Page, NEW head, NEW slab, NEW new, ListIs(head, slab, S), NEW p \in S,
         \A q \in S \ {p} : new[q].next = IF q = slab[p].prev THEN slab[p].next ELSE slab[q].next,
         \A q \in S \ {p} : new[q].prev = IF q = slab[p].next THEN slab[p].prev ELSE slab[q].prev
  PROVE  ListIs(IF slab[p].prev = NULL THEN slab[p].next ELSE head, new, S \ {p})
<1>1. PICK n \in Nat : n = Cardinality(S)
  BY SlabsFinite
<1>2. Cardinality(S \ {p}) = n - 1 /\ IsFiniteSet(S \ {p})
  BY <1>1, SlabsFinite, FS_RemoveElement
<1>3. PICK old \in [S -> 1 .. Cardinality(S)] : Numbered(head, slab, S, old)
  BY DEF ListIs
<1>4. \A q \in S : old[q] \in 1 .. n
  BY <1>1, <1>3
<1>5. PICK m \in 1 .. n : m = old[p]
  BY <1>4
<1>6. PICK v, w : v = slab[p].prev /\ w = slab[p].next
  OBVIOUS
<1>7. NULL \notin S
  BY HeapSizes
\* The links of p.
<1>8. /\ IF m = 1 THEN p = head /\ v = NULL ELSE p # head /\ v \in S /\ old[v] = m - 1
      /\ IF m = n THEN w = NULL ELSE w \in S /\ old[w] = m + 1
  BY <1>1, <1>3, <1>5, <1>6, Neighbours
<1>9. \A a, b \in S : old[a] = old[b] => a = b
  BY <1>3 DEF Numbered
<1> DEFINE T == S \ {p}
           first == IF v = NULL THEN w ELSE head
           pos == [q \in T |-> IF old[q] > m THEN old[q] - 1 ELSE old[q]]
<1>10. \A q \in T : /\ old[q] \in 1 .. n /\ old[q] # m
                    /\ pos[q] = IF old[q] > m THEN old[q] - 1 ELSE old[q]
  BY <1>4, <1>5, <1>9
<1>11. pos \in [T -> 1 .. n - 1]
  BY <1>10
<1> HIDE DEF pos
<1>12. CASE T = {}
  <2>1. n = 1
    <3>1. Cardinality(T) = 0
      BY <1>12, FS_EmptySet
    <3> QED
      BY <1>1, <1>2, <3>1
  <2>2. first = NULL
    BY <1>5, <1>8, <2>1
  <2> QED
    BY <1>6, <1>12, <2>2 DEF ListIs
<1>13. CASE T # {}
  <2>1. n > 1
    <3>1. Cardinality(T) # 0
      BY <1>2, <1>13, FS_EmptySet
    <3> QED
      BY <1>1, <1>2, <3>1
  <2>2. \A a, b \in T : pos[a] = pos[b] => a = b
    <3> SUFFICES ASSUME NEW a \in T, NEW b \in T, pos[a] = pos[b] PROVE old[a] = old[b]
      BY <1>9
    <3> QED
      BY <1>5, <1>10
  <2>3. ASSUME NEW k \in 1 .. n - 1 PROVE \E a \in T : pos[a] = k
    <3>1. CASE k < m
      <4>1. PICK a \in S : old[a] = k
        BY <1>1, <1>3 DEF Numbered
      <4>2. a \in T
        BY <1>5, <3>1, <4>1
      <4> QED
        BY <1>10, <3>1, <4>1, <4>2
    <3>2. CASE k >= m
      <4>1. k + 1 \in 1 .. n
        OBVIOUS
      <4>2. PICK a \in S : old[a] = k + 1
        BY <1>1, <1>3, <4>1 DEF Numbered
      <4>3. a \in T
        BY <1>5, <3>2, <4>2
      <4> QED
        BY <1>10, <3>2, <4>2, <4>3
    <3> QED
      BY <3>1, <3>2
  <2>4. \A a \in T : new[a].next = (IF a = v THEN w ELSE slab[a].next)
                     /\ new[a].prev = (IF a = w THEN v ELSE slab[a].prev)
    BY <1>6
  <2>5. /\ \A a \in S : IF old[a] = n THEN slab[a].next = NULL
                        ELSE slab[a].next \in S /\ old[slab[a].next] = old[a] + 1
        /\ \A a \in S : IF old[a] = 1 THEN a = head /\ slab[a].prev = NULL
                        ELSE slab[a].prev \in S /\ old[slab[a].prev] = old[a] - 1
    BY <1>1, <1>3, Neighbours
  <2>6. head \in S /\ old[head] = 1
    BY <1>3 DEF Numbered
  <2>7. first \in T /\ pos[first] = 1 /\ new[first].prev = NULL
    <3>1. CASE m = 1
      <4>1. v = NULL /\ first = w /\ w \in S /\ old[w] = 2 /\ w \in T
        <5>1. m # n /\ m + 1 = 2
          BY <2>1, <3>1
        <5>2. v = NULL /\ w \in S /\ old[w] = 2
          BY <1>8, <3>1, <5>1
        <5>3. w # p
          <6>1. old[w] # old[p]
            BY <1>4, <1>5, <3>1, <5>2
          <6> QED
            BY <6>1, Zenon
        <5> QED
          BY <5>2, <5>3
      <4>2. pos[w] = 1
        <5>1. pos[w] = IF old[w] > m THEN old[w] - 1 ELSE old[w]
          BY <1>10, <4>1
        <5> QED
          BY <3>1, <4>1, <5>1
      <4>3. new[w].prev = v
        BY <2>4, <4>1
      <4> QED
        BY <4>1, <4>2, <4>3
    <3>2. CASE m # 1
      <4>1. v # NULL /\ first = head /\ head \in T
        BY <1>7, <1>8, <2>6, <3>2
      <4>2. pos[head] = 1
        BY <1>5, <1>10, <2>6, <3>2, <4>1
      <4>3. head # w
        <5>1. m + 1 # 1
          BY <1>5
        <5> QED
          BY <1>7, <1>8, <2>6, <5>1
      <4>4. new[head].prev = NULL
        BY <2>4, <2>5, <2>6, <4>1, <4>3
      <4> QED
        BY <4>1, <4>2, <4>4
    <3> QED
      BY <3>1, <3>2
  <2>8. ASSUME NEW a \in T, pos[a] = n - 1 PROVE new[a].next = NULL
    <3>1. CASE a = v
      <4>1. m = n
        BY <1>5, <1>7, <1>8, <1>10, <2>8, <3>1
      <4> QED
        BY <1>8, <2>4, <3>1, <4>1
    <3>2. CASE a # v
      <4>1. old[a] = n
        <5>1. CASE old[a] > m
          BY <1>10, <2>8, <5>1
        <5>2. CASE old[a] < m
          <6>1. old[a] = n - 1 /\ m = n
            BY <1>5, <1>10, <2>8, <5>2
          <6>2. v \in S /\ old[v] = n - 1
            BY <1>8, <2>1, <6>1
          <6> QED
            BY <1>9, <3>2, <6>1, <6>2
        <5> QED
          BY <1>5, <1>10, <5>1, <5>2
      <4> QED
        BY <2>4, <2>5, <3>2, <4>1
    <3> QED
      BY <3>1, <3>2
  <2>9. ASSUME NEW a \in T, NEW b \in T, pos[b] = pos[a] + 1
        PROVE  new[a].next = b /\ new[b].prev = a
    <3>1. CASE old[a] = m - 1
      <4>1. old[b] = m + 1
        BY <1>5, <1>10, <2>9, <3>1
      <4>2. m # 1 /\ m # n
        BY <1>5, <1>10, <3>1, <4>1
      <4>3. a = v /\ b = w
        BY <1>8, <1>9, <3>1, <4>1, <4>2
      <4> QED
        BY <2>4, <4>3
    <3>2. CASE old[a] # m - 1
      <4>1. old[b] = old[a] + 1
        BY <1>5, <1>10, <2>9, <3>2
      <4>2. slab[a].next = b /\ slab[b].prev = a
        BY <1>3, <4>1 DEF Numbered
      <4>3. a # v
        <5>1. CASE m = 1
          BY <1>7, <1>8, <5>1
        <5>2. CASE m # 1
          BY <1>8, <3>2, <5>2
        <5> QED
          BY <5>1, <5>2
      <4>4. b # w
        <5>1. old[b] # m + 1
          BY <1>5, <1>10, <4>1
        <5> QED
          BY <1>7, <1>8, <5>1
      <4> QED
        BY <2>4, <4>2, <4>3, <4>4
    <3> QED
      BY <3>1, <3>2
  <2>10. Numbered(first, new, T, pos)
    BY <1>2, <2>2, <2>3, <2>7, <2>8, <2>9 DEF Numbered
  <2>11. first # NULL
    BY <1>7, <2>7
  <2>12. ListIs(first, new, T)
    BY <1>2, <1>11, <1>13, <2>10, <2>11 DEF ListIs
  <2> QED
    BY <1>6, <2>12
<1> QED
  BY <1>12, <1>13
------------------------------------------------------------------------------
\* The parts of a heap.
LEMMA Parts ==
  ASSUME NEW h \in HeapShape
  PROVE  /\ h.page \in [Page -> PageInfo] /\ h.slab \in [Page -> SlabInfo]
         /\ h.lists \in [ListName -> [Class -> Link]]
         /\ \A p \in Page : h.page[p] \in PageInfo /\ h.slab[p] \in SlabInfo
         /\ \A l \in ListName, c \in Class : h.lists[l][c] \in Link
<1>1. /\ h.page \in [Page -> PageInfo] /\ h.slab \in [Page -> SlabInfo]
      /\ h.lists \in [ListName -> [Class -> Link]]
  BY DEF HeapShape
<1> QED
  BY <1>1

\* The list heads with one of them replaced.
Heads == [ListName -> [Class -> Link]]
HeadSet(new, L, l, c, x) ==
  /\ new \in Heads
  /\ \A k \in ListName, d \in Class : new[k][d] = IF k = l /\ d = c THEN x ELSE L[k][d]

\* WithHead changes one head.
LEMMA HeadIs ==
  ASSUME NEW L \in Heads, NEW l \in ListName, NEW c \in Class, NEW x \in Link
  PROVE  HeadSet(WithHead(L, l, c, x), L, l, c, x)
BY DEF WithHead, HeadSet, Heads

\* WithSet changes one set.
LEMMA SetIs ==
  ASSUME NEW F \in Membership, NEW l \in ListName, NEW c \in Class, NEW S \in SUBSET Page
  PROVE  /\ WithSet(F, l, c, S) \in Membership
         /\ \A k \in ListName, d \in Class :
              WithSet(F, l, c, S)[k][d] = IF k = l /\ d = c THEN S ELSE F[k][d]
BY DEF WithSet, Membership

\* The first slab of a list is one of its slabs, and so are the neighbours.
LEMMA LinksIn ==
  ASSUME NEW S \in SUBSET Page, NEW head, NEW slab, ListIs(head, slab, S)
  PROVE  /\ head \in S \cup {NULL}
         /\ \A p \in S : slab[p].next \in S \cup {NULL} /\ slab[p].prev \in S \cup {NULL}
<1>1. CASE S = {}
  BY <1>1 DEF ListIs
<1>2. CASE S # {}
  <2>1. PICK pos \in [S -> 1 .. Cardinality(S)] : Numbered(head, slab, S, pos)
    BY <1>2 DEF ListIs
  <2>2. head \in S
    BY <2>1 DEF Numbered
  <2>3. \A p \in S : slab[p].next \in S \cup {NULL} /\ slab[p].prev \in S \cup {NULL}
    BY <2>1, Neighbours
  <2> QED
    BY <2>2, <2>3
<1> QED
  BY <1>1, <1>2

\* LinkFirst adds a slab that is in no list and leaves the other lists alone.
LEMMA LinkFirstIs ==
  ASSUME NEW h \in HeapShape, NEW F, ListsAre(h, F), NEW l \in ListName, NEW c \in Class,
         NEW p \in Page, \A k \in ListName, d \in Class : p \notin F[k][d]
  PROVE  /\ SameObjects(LinkFirst(h, l, c, p), h)
         /\ ListsAre(LinkFirst(h, l, c, p), WithSet(F, l, c, F[l][c] \cup {p}))
         /\ LinkFirst(h, l, c, p).lists[l][c] = p
<1>1. PICK old : old = h.lists[l][c]
  OBVIOUS
<1>2. PICK g : g = LinkFirst(h, l, c, p)
  OBVIOUS
<1>3. PICK G : G = WithSet(F, l, c, F[l][c] \cup {p})
  OBVIOUS
<1>4. /\ F \in Membership /\ F[l][c] \in SUBSET Page
      /\ \A k, m \in ListName, d, e \in Class : F[k][d] \cap F[m][e] # {} => k = m /\ d = e
      /\ \A k \in ListName, d \in Class : F[k][d] \in SUBSET Page /\ ListIs(h.lists[k][d], h.slab, F[k][d])
  BY DEF ListsAre, Membership
<1>5. old \in Link /\ old \in F[l][c] \cup {NULL}
  BY <1>1, <1>4, LinksIn, Parts
<1>6. NULL \notin Page /\ p # old
  BY <1>5, HeapSizes
<1>7. /\ g.page = h.page /\ g.lists = WithHead(h.lists, l, c, p)
      /\ g.slab = [q \in Page |-> IF q = p THEN [h.slab[q] EXCEPT !.next = old, !.prev = NULL]
                                  ELSE IF q = old THEN [h.slab[q] EXCEPT !.prev = p]
                                  ELSE h.slab[q]]
      /\ g = [page |-> g.page, slab |-> g.slab, lists |-> g.lists]
  BY <1>1, <1>2 DEF LinkFirst, HeapShape
<1>8. ASSUME NEW q \in Page
      PROVE  /\ g.slab[q] \in SlabInfo
             /\ g.slab[q].cache = h.slab[q].cache
             /\ g.slab[q].free_list = h.slab[q].free_list
             /\ g.slab[q].in_use = h.slab[q].in_use
             /\ g.slab[q].next = IF q = p THEN old ELSE h.slab[q].next
             /\ g.slab[q].prev = IF q = p THEN NULL ELSE IF q = old THEN p ELSE h.slab[q].prev
  <2>1. h.slab[q] \in SlabInfo
    BY Parts
  <2>2. g.slab[q] = IF q = p THEN [h.slab[q] EXCEPT !.next = old, !.prev = NULL]
                    ELSE IF q = old THEN [h.slab[q] EXCEPT !.prev = p] ELSE h.slab[q]
    BY <1>7
  <2>3. PICK s \in SlabInfo : s = h.slab[q]
    BY <2>1
  <2>4. p \in Link /\ NULL \in Link /\ old \in Link
    BY <1>5 DEF Link
  <2> QED
    BY <1>6, <2>2, <2>3, <2>4 DEF SlabInfo
<1>9. g.slab \in [Page -> SlabInfo]
  BY <1>7, <1>8
<1>10. /\ g.lists \in [ListName -> [Class -> Link]]
       /\ \A k \in ListName, d \in Class :
            g.lists[k][d] = IF k = l /\ d = c THEN p ELSE h.lists[k][d]
  <2>1. p \in Link
    BY DEF Link
  <2>2. PICK L \in Heads : L = h.lists
    BY Parts DEF Heads
  <2>3. HeadSet(WithHead(L, l, c, p), L, l, c, p)
    BY <2>1, <2>2, HeadIs, Zenon
  <2>4. g.lists = WithHead(L, l, c, p)
    BY <1>7, <2>2, Zenon
  <2> QED
    BY <2>2, <2>3, <2>4 DEF HeadSet, Heads
<1>11. SameObjects(g, h)
  <2>1. g \in HeapShape
    BY <1>7, <1>9, <1>10, Parts DEF HeapShape
  <2> QED
    BY <1>7, <1>8, <2>1 DEF SameObjects
<1>12. /\ G \in Membership
       /\ \A k \in ListName, d \in Class : G[k][d] = IF k = l /\ d = c THEN F[l][c] \cup {p} ELSE F[k][d]
  <2>1. F[l][c] \cup {p} \in SUBSET Page
    BY <1>4
  <2> QED
    BY <1>3, <1>4, <2>1, SetIs
<1>13. \A k, m \in ListName, d, e \in Class : G[k][d] \cap G[m][e] # {} => k = m /\ d = e
  BY <1>4, <1>12
<1>14. ASSUME NEW k \in ListName, NEW d \in Class PROVE ListIs(g.lists[k][d], g.slab, G[k][d])
  <2>1. CASE k = l /\ d = c
    <3>1. ListIs(old, h.slab, F[l][c])
      BY <1>1, <1>4
    <3>2. p \in Page \ F[l][c]
      OBVIOUS
    <3>3. ListIs(p, g.slab, F[l][c] \cup {p})
      BY <1>4, <1>8, <3>1, <3>2, InFront
    <3> QED
      BY <1>10, <1>12, <2>1, <3>3
  <2>2. CASE ~(k = l /\ d = c)
    <3>1. F[k][d] \in SUBSET Page /\ ListIs(h.lists[k][d], h.slab, F[k][d])
      BY <1>4
    <3>2. old \notin F[k][d] /\ p \notin F[k][d]
      <4>1. F[k][d] \cap F[l][c] = {}
        BY <1>4, <2>2
      <4> QED
        BY <1>5, <1>6, <3>1, <4>1
    <3>3. \A q \in F[k][d] : g.slab[q].next = h.slab[q].next /\ g.slab[q].prev = h.slab[q].prev
      BY <1>8, <3>1, <3>2
    <3>4. ListIs(h.lists[k][d], g.slab, F[k][d])
      BY <3>1, <3>3, ListLocal
    <3> QED
      BY <1>10, <1>12, <2>2, <3>4
  <2> QED
    BY <2>1, <2>2
<1>15. ListsAre(g, G)
  BY <1>12, <1>13, <1>14 DEF ListsAre
<1>16. g.lists[l][c] = p
  BY <1>10
<1> QED
  BY <1>2, <1>3, <1>11, <1>15, <1>16

\* Unlink takes a slab out of its list, at the front, in the middle or at the
\* end, and leaves the other lists alone.
LEMMA UnlinkIs ==
  ASSUME NEW h \in HeapShape, NEW F, ListsAre(h, F), NEW l \in ListName, NEW c \in Class,
         NEW p \in F[l][c]
  PROVE  /\ SameObjects(Unlink(h, l, c, p), h)
         /\ ListsAre(Unlink(h, l, c, p), WithSet(F, l, c, F[l][c] \ {p}))
<1>1. PICK n, v : n = h.slab[p].next /\ v = h.slab[p].prev
  OBVIOUS
<1>2. PICK g : g = Unlink(h, l, c, p)
  OBVIOUS
<1>3. PICK G : G = WithSet(F, l, c, F[l][c] \ {p})
  OBVIOUS
<1>4. /\ F \in Membership /\ F[l][c] \in SUBSET Page
      /\ \A k, m \in ListName, d, e \in Class : F[k][d] \cap F[m][e] # {} => k = m /\ d = e
      /\ \A k \in ListName, d \in Class : F[k][d] \in SUBSET Page /\ ListIs(h.lists[k][d], h.slab, F[k][d])
  BY DEF ListsAre, Membership
<1>5. p \in Page /\ n \in Link /\ n \in F[l][c] \cup {NULL} /\ v \in Link /\ v \in F[l][c] \cup {NULL}
  <2>1. h.slab[p] \in SlabInfo
    BY <1>4, Parts
  <2> QED
    BY <1>1, <1>4, <2>1, LinksIn DEF SlabInfo
<1>6. NULL \notin Page
  BY HeapSizes
<1>7. /\ g.page = h.page /\ g.lists = (IF v = NULL THEN WithHead(h.lists, l, c, n) ELSE h.lists)
      /\ g.slab = [q \in Page |-> IF q = v THEN [h.slab[q] EXCEPT !.next = n]
                                  ELSE IF q = n THEN [h.slab[q] EXCEPT !.prev = v]
                                  ELSE h.slab[q]]
      /\ g = [page |-> g.page, slab |-> g.slab, lists |-> g.lists]
  BY <1>1, <1>2 DEF Unlink, HeapShape
\* Both neighbours are there only if they are different.
<1>16. v = n => v = NULL
  <2> SUFFICES ASSUME v = n, v # NULL PROVE FALSE
    OBVIOUS
  <2>1. PICK pos \in [F[l][c] -> 1 .. Cardinality(F[l][c])] :
          Numbered(h.lists[l][c], h.slab, F[l][c], pos)
    BY <1>4 DEF ListIs
  <2>2. PICK k \in Nat : k = Cardinality(F[l][c])
    BY <1>4, SlabsFinite
  <2>3. \A q \in F[l][c] : pos[q] \in 1 .. k
    BY <2>1, <2>2
  <2>4. /\ pos[p] # 1 => pos[v] = pos[p] - 1 /\ v \in F[l][c]
        /\ pos[p] = 1 => v = NULL
        /\ pos[p] # k => pos[n] = pos[p] + 1
        /\ pos[p] = k => n = NULL
    BY <1>1, <1>4, <2>1, <2>2, Neighbours
  <2> QED
    BY <2>3, <2>4
<1>8. ASSUME NEW q \in Page
      PROVE  /\ g.slab[q] \in SlabInfo
             /\ g.slab[q].cache = h.slab[q].cache
             /\ g.slab[q].free_list = h.slab[q].free_list
             /\ g.slab[q].in_use = h.slab[q].in_use
             /\ g.slab[q].next = IF q = v THEN n ELSE h.slab[q].next
             /\ g.slab[q].prev = IF q = n THEN v ELSE h.slab[q].prev
  <2>1. h.slab[q] \in SlabInfo
    BY Parts
  <2>2. g.slab[q] = IF q = v THEN [h.slab[q] EXCEPT !.next = n]
                    ELSE IF q = n THEN [h.slab[q] EXCEPT !.prev = v] ELSE h.slab[q]
    BY <1>7
  <2>3. PICK s \in SlabInfo : s = h.slab[q]
    BY <2>1
  <2>4. q # NULL
    BY <1>6
  <2> QED
    BY <1>5, <1>16, <2>2, <2>3, <2>4 DEF SlabInfo
<1>9. g.slab \in [Page -> SlabInfo]
  BY <1>7, <1>8
<1>10. /\ g.lists \in [ListName -> [Class -> Link]]
       /\ \A k \in ListName, d \in Class :
            g.lists[k][d] = IF k = l /\ d = c THEN (IF v = NULL THEN n ELSE h.lists[l][c])
                            ELSE h.lists[k][d]
  <2>1. PICK L \in Heads : L = h.lists
    BY Parts DEF Heads
  <2>2. HeadSet(WithHead(L, l, c, n), L, l, c, n)
    BY <1>5, <2>1, HeadIs, Zenon
  <2>3. CASE v = NULL
    <3>1. g.lists = WithHead(L, l, c, n)
      BY <1>7, <2>1, <2>3, Zenon
    <3> QED
      BY <2>1, <2>2, <2>3, <3>1 DEF HeadSet, Heads
  <2>4. CASE v # NULL
    <3>1. g.lists = L
      BY <1>7, <2>1, <2>4, Zenon
    <3> QED
      BY <2>1, <2>4, <3>1 DEF Heads
  <2> QED
    BY <2>3, <2>4
<1>11. SameObjects(g, h)
  <2>1. g \in HeapShape
    BY <1>7, <1>9, <1>10, Parts DEF HeapShape
  <2> QED
    BY <1>7, <1>8, <2>1 DEF SameObjects
<1>12. /\ G \in Membership
       /\ \A k \in ListName, d \in Class : G[k][d] = IF k = l /\ d = c THEN F[l][c] \ {p} ELSE F[k][d]
  <2>1. F[l][c] \ {p} \in SUBSET Page
    BY <1>4
  <2> QED
    BY <1>3, <1>4, <2>1, SetIs
<1>13. \A k, m \in ListName, d, e \in Class : G[k][d] \cap G[m][e] # {} => k = m /\ d = e
  BY <1>4, <1>12
<1>14. ASSUME NEW k \in ListName, NEW d \in Class PROVE ListIs(g.lists[k][d], g.slab, G[k][d])
  <2>1. CASE k = l /\ d = c
    <3>1. ListIs(h.lists[l][c], h.slab, F[l][c])
      BY <1>4
    <3>2. /\ \A q \in F[l][c] \ {p} :
               g.slab[q].next = IF q = h.slab[p].prev THEN h.slab[p].next ELSE h.slab[q].next
          /\ \A q \in F[l][c] \ {p} :
               g.slab[q].prev = IF q = h.slab[p].next THEN h.slab[p].prev ELSE h.slab[q].prev
      BY <1>1, <1>4, <1>8
    <3>3. ListIs(IF h.slab[p].prev = NULL THEN h.slab[p].next ELSE h.lists[l][c], g.slab, F[l][c] \ {p})
      BY <1>4, <3>1, <3>2, TakenOut
    <3> QED
      BY <1>1, <1>10, <1>12, <2>1, <3>3
  <2>2. CASE ~(k = l /\ d = c)
    <3>1. F[k][d] \in SUBSET Page /\ ListIs(h.lists[k][d], h.slab, F[k][d])
      BY <1>4
    <3>2. n \notin F[k][d] /\ v \notin F[k][d]
      <4>1. F[k][d] \cap F[l][c] = {}
        BY <1>4, <2>2
      <4> QED
        BY <1>5, <1>6, <3>1, <4>1
    <3>3. \A q \in F[k][d] : g.slab[q].next = h.slab[q].next /\ g.slab[q].prev = h.slab[q].prev
      BY <1>8, <3>1, <3>2
    <3>4. ListIs(h.lists[k][d], g.slab, F[k][d])
      BY <3>1, <3>3, ListLocal
    <3> QED
      BY <1>10, <1>12, <2>2, <3>4
  <2> QED
    BY <2>1, <2>2
<1>15. ListsAre(g, G)
  BY <1>12, <1>13, <1>14 DEF ListsAre
<1> QED
  BY <1>2, <1>3, <1>11, <1>15
------------------------------------------------------------------------------
\* Sets of offsets are finite.
LEMMA OffsetsFinite ==
  ASSUME NEW T \in SUBSET Offset
  PROVE  IsFiniteSet(T)
<1>1. IsFiniteSet(0 .. PageSize - 1)
  BY HeapSizes, FS_Interval
<1> QED
  BY <1>1, FS_Subset DEF Offset

\* Addresses are pairs of a page and an offset.
LEMMA AddrIs ==
  ASSUME NEW p \in Page, NEW o \in Offset
  PROVE  /\ Addr(p, o) \in 0 .. HeapEnd - 1
         /\ virt_to_page_idx(Addr(p, o)) = p /\ Addr(p, o) % PageSize = o
<1>1. PICK m \in Nat \ {0}, t \in Nat \ {0} : m = PageSize /\ t = TotalPages
  BY HeapSizes
<1>2. p \in Nat /\ p < t /\ o \in 0 .. m - 1
  BY <1>1, HeapSizes DEF Offset
<1>3. m * p + m <= m * t
  BY <1>1, <1>2, Times
<1>4. m * p \in Nat /\ m * t \in Nat /\ p * m = m * p /\ t * m = m * t
  BY <1>1, <1>2
<1>5. (m * p + o) % m = o /\ (m * p + o) \div m = p
  BY <1>1, <1>2, Quotients
<1>6. Addr(p, o) = m * p + o
  BY <1>1, <1>4 DEF Addr, page_idx_to_virt
<1>7. HeapEnd = m * t
  BY <1>1, <1>4 DEF HeapEnd
<1>8. m * p + o \in 0 .. m * t - 1
  BY <1>1, <1>2, <1>3, <1>4
<1> QED
  BY <1>1, <1>5, <1>6, <1>7, <1>8 DEF virt_to_page_idx

\* Every address of the heap is an offset in one of its pages.
LEMMA AddrOf ==
  ASSUME NEW a \in 0 .. HeapEnd - 1
  PROVE  \E p \in Page, o \in Offset : a = Addr(p, o)
<1>1. PICK m \in Nat \ {0}, t \in Nat \ {0} : m = PageSize /\ t = TotalPages
  BY HeapSizes
<1>2. HeapEnd = t * m /\ t * m = m * t /\ m * t \in Nat
  BY <1>1 DEF HeapEnd
<1>3. a \in Nat /\ a < m * t
  BY <1>2
<1>4. PICK d \in Nat, r \in 0 .. m - 1 : a = m * d + r
  BY <1>3, Divided
<1>5. d < t
  <2>1. ASSUME t < d PROVE m * t + m <= m * d
    BY <2>1, Times
  <2>2. m * d \in Nat
    OBVIOUS
  <2>3. t = d => m * t = m * d
    OBVIOUS
  <2> QED
    BY <1>1, <1>2, <1>3, <1>4, <2>1, <2>2, <2>3
<1>6. d \in Page /\ r \in Offset
  BY <1>1, <1>5, HeapSizes DEF Offset
<1>7. a = Addr(d, r)
  BY <1>1, <1>4 DEF Addr, page_idx_to_virt
<1> QED
  BY <1>6, <1>7

\* Pages do not overlap, and lie in the order of their numbers.
LEMMA PagesApart ==
  ASSUME NEW p \in Nat, NEW q \in Nat, p < q
  PROVE  /\ page_idx_to_virt(p) \in Nat /\ page_idx_to_virt(q) \in Nat
         /\ page_idx_to_virt(p) + PageSize <= page_idx_to_virt(q)
<1>1. PICK m \in Nat \ {0} : m = PageSize
  BY HeapSizes
<1>2. m * p + m <= m * q
  BY Times
<1>3. m * p \in Nat /\ p * m = m * p /\ m * q \in Nat /\ q * m = m * q
  OBVIOUS
<1> QED
  BY <1>1, <1>2, <1>3 DEF page_idx_to_virt

\* The page table takes a whole number of pages.
LEMMA MetaPagesIs == MetaPages \in Nat
<1>1. PICK m \in Nat \ {0}, x \in Nat : m = PageSize /\ x = TotalPages * InfoSize + PageSize - 1
  <2>1. PICK t \in Nat, i \in Nat, k \in Nat \ {0} : t = TotalPages /\ i = InfoSize /\ k = PageSize
    BY HeapSizes
  <2>2. PICK y \in Nat : y = t * i
    OBVIOUS
  <2>3. y + k - 1 \in Nat
    OBVIOUS
  <2> QED
    BY <2>1, <2>2, <2>3
<1>2. PICK d \in Nat, r \in 0 .. m - 1 : d = x \div m
  BY Divided
<1> QED
  BY <1>1, <1>2 DEF MetaPages

\* The first byte of a page.
LEMMA FirstByte ==
  ASSUME NEW p \in Page
  PROVE  page_idx_to_virt(p) = Addr(p, 0) /\ 0 \in Offset /\ page_idx_to_virt(p) \in Nat
<1>1. page_idx_to_virt(p) \in Nat
  BY HeapSizes DEF page_idx_to_virt
<1> QED
  BY <1>1, HeapSizes DEF Addr, Offset

\* One address more or less changes the offsets in its page only.
LEMMA OffsetsAre ==
  ASSUME NEW A, NEW p \in Page, NEW o \in Offset, NEW q \in Page
  PROVE  /\ Offsets(A \cup {Addr(p, o)}, q) = IF q = p THEN Offsets(A, q) \cup {o} ELSE Offsets(A, q)
         /\ Offsets(A \ {Addr(p, o)}, q) = IF q = p THEN Offsets(A, q) \ {o} ELSE Offsets(A, q)
         /\ Addr(p, o) \in A <=> o \in Offsets(A, p)
<1>1. \A u \in Offset : Addr(q, u) = Addr(p, o) <=> q = p /\ u = o
  BY AddrIs
<1> QED
  BY <1>1 DEF Offsets

\* B is A with the address at offset o of page p more, or less.
OneMore(B, A, p, o) ==
  \A q \in Page : Offsets(B, q) = IF q = p THEN Offsets(A, q) \cup {o} ELSE Offsets(A, q)
OneLess(B, A, p, o) ==
  \A q \in Page : Offsets(B, q) = IF q = p THEN Offsets(A, q) \ {o} ELSE Offsets(A, q)

\* An address more or less changes one page.
LEMMA OffsetsChange ==
  ASSUME NEW A, NEW p \in Page, NEW o \in Offset
  PROVE  OneMore(A \cup {Addr(p, o)}, A, p, o) /\ OneLess(A \ {Addr(p, o)}, A, p, o)
<1>1. \A q \in Page, u \in Offset : Addr(q, u) = Addr(p, o) <=> q = p /\ u = o
  BY AddrIs
<1> QED
  BY <1>1 DEF Offsets, OneMore, OneLess
------------------------------------------------------------------------------
\* Objects start behind the header.
LEMMA ObjStartIs == ObjStart \in Nat /\ HeaderSize <= ObjStart /\ ObjStart <= HeaderSize + 7
<1>1. PICK x \in Nat : x = HeaderSize + 7
  BY HeapSizes
<1>2. HeaderSize + 8 - 1 = x
  BY <1>1, HeapSizes
<1>3. PICK d \in Nat, r \in 0 .. 7 : d = x \div 8 /\ x = 8 * d + r
  BY Divided
<1>4. ObjStart = d * 8
  BY <1>2, <1>3 DEF ObjStart, align_up
<1> QED
  BY <1>1, <1>3, <1>4, HeapSizes

\* A slab has at least one object, and each of its objects ends in the page.
LEMMA MaxObjsIs ==
  ASSUME NEW c \in Class
  PROVE  /\ MaxObjs(c) \in Nat \ {0}
         /\ \A k \in 0 .. MaxObjs(c) - 1 : ObjStart + k * Sizes[c] + Sizes[c] <= PageSize
<1>1. PICK m \in Nat \ {0}, u \in Nat : m = Sizes[c] /\ u = ObjStart
  BY HeapSizes, ObjStartIs
<1>2. PICK x \in Nat : x = PageSize - u /\ m <= x
  BY <1>1, HeapSizes, ObjStartIs
<1>3. PICK d \in Nat, r \in 0 .. m - 1 : d = x \div m /\ x = m * d + r
  BY Divided
<1>4. MaxObjs(c) = d
  BY <1>1, <1>2, <1>3 DEF MaxObjs
<1>5. d # 0
  BY <1>2, <1>3
<1>6. ASSUME NEW k \in 0 .. d - 1 PROVE u + k * m + m <= PageSize
  <2>1. m * k + m <= m * d
    BY Times
  <2>2. m * k \in Nat /\ m * k = k * m /\ m * d \in Nat
    OBVIOUS
  <2> QED
    BY <1>2, <1>3, <2>1, <2>2, HeapSizes
<1> QED
  BY <1>1, <1>4, <1>5, <1>6

\* Objects lie behind the header, in the page, and apart.
LEMMA SlotsAre ==
  ASSUME NEW c \in Class
  PROVE  /\ \A o \in Slots(c) : o \in Offset /\ HeaderSize <= o /\ o + Sizes[c] <= PageSize
         /\ \A o, u \in Slots(c) : o # u => o + Sizes[c] <= u \/ u + Sizes[c] <= o
<1>1. PICK m \in Nat \ {0}, b \in Nat, n \in Nat \ {0} : m = Sizes[c] /\ b = ObjStart /\ n = MaxObjs(c)
  BY HeapSizes, ObjStartIs, MaxObjsIs
<1>2. ASSUME NEW o \in Slots(c)
      PROVE  /\ o \in Offset /\ HeaderSize <= o /\ o + Sizes[c] <= PageSize
             /\ \E k \in 0 .. n - 1 : o = b + m * k
  <2>1. PICK k \in 0 .. n - 1 : o = b + k * m
    BY <1>1 DEF Slots
  <2>2. PICK x \in Nat : x = k * m /\ x = m * k
    OBVIOUS
  <2>3. b + x + m <= PageSize
    BY <1>1, <2>2, MaxObjsIs
  <2>4. o = b + x
    BY <2>1, <2>2
  <2>5. o \in Nat /\ o + m <= PageSize /\ HeaderSize <= o
    BY <1>1, <2>3, <2>4, ObjStartIs, HeapSizes
  <2>6. o \in Offset
    <3>1. PageSize \in Nat \ {0}
      BY HeapSizes
    <3> QED
      BY <2>5, <3>1 DEF Offset
  <2> QED
    BY <1>1, <2>2, <2>4, <2>5, <2>6
<1>3. ASSUME NEW o \in Slots(c), NEW u \in Slots(c), o # u
      PROVE  o + Sizes[c] <= u \/ u + Sizes[c] <= o
  <2>1. PICK k \in 0 .. n - 1, j \in 0 .. n - 1 : o = b + m * k /\ u = b + m * j
    BY <1>2
  <2>2. ASSUME k < j PROVE m * k + m <= m * j
    BY <2>2, Times
  <2>3. ASSUME j < k PROVE m * j + m <= m * k
    BY <2>3, Times
  <2>4. m * k \in Nat /\ m * j \in Nat /\ (k = j => m * k = m * j)
    OBVIOUS
  <2> QED
    BY <1>1, <1>3, <2>1, <2>2, <2>3, <2>4
<1> QED
  BY <1>2, <1>3

\* A new slab has all its objects on the free list.
LEMMA NewSlab ==
  ASSUME NEW c \in Class
  PROVE  slab_init_page(c) \in SlabInfo /\ SlabOK(slab_init_page(c), {})
         /\ slab_init_page(c).cache = c /\ slab_init_page(c).free_list # <<>>
<1>1. PICK m \in Nat \ {0}, b \in Nat, n \in Nat \ {0} : m = Sizes[c] /\ b = ObjStart /\ n = MaxObjs(c)
  BY HeapSizes, ObjStartIs, MaxObjsIs
<1>2. PICK f : f = [k \in 1 .. n |-> b + (k - 1) * m]
  OBVIOUS
<1>3. slab_init_page(c) = [next |-> NULL, prev |-> NULL, cache |-> c, in_use |-> 0, free_list |-> f]
  BY <1>1, <1>2 DEF slab_init_page
<1>4. ASSUME NEW k \in 1 .. n PROVE f[k] \in Slots(c)
  <2>1. f[k] = b + (k - 1) * m /\ k - 1 \in 0 .. n - 1
    BY <1>2
  <2> QED
    BY <1>1, <2>1 DEF Slots
<1>5. f \in Seq(Offset) /\ Len(f) = n /\ DOMAIN f = 1 .. n
  <2>1. \A k \in 1 .. n : f[k] \in Offset
    BY <1>4, SlotsAre
  <2>2. f \in [1 .. n -> Offset]
    BY <1>2, <2>1
  <2> QED
    BY <2>2
<1>6. ASSUME NEW i \in 1 .. n, NEW j \in 1 .. n, f[i] = f[j] PROVE i = j
  <2>1. f[i] = b + m * (i - 1) /\ f[j] = b + m * (j - 1) /\ m * (i - 1) \in Int /\ m * (j - 1) \in Int
    BY <1>2
  <2>2. ASSUME i < j PROVE m * (i - 1) + m <= m * (j - 1)
    <3>1. i - 1 < j - 1 /\ i - 1 \in Int /\ j - 1 \in Int
      BY <2>2
    <3> QED
      BY <3>1, Times
  <2>3. ASSUME j < i PROVE m * (j - 1) + m <= m * (i - 1)
    <3>1. j - 1 < i - 1 /\ i - 1 \in Int /\ j - 1 \in Int
      BY <2>3
    <3> QED
      BY <3>1, Times
  <2>4. PICK x \in Int, y \in Int : x = m * (i - 1) /\ y = m * (j - 1)
    BY <2>1
  <2>5. x = y
    <3>1. b + x = b + y
      BY <1>6, <2>1, <2>4, Zenon
    <3> QED
      BY <3>1
  <2> QED
    BY <2>2, <2>3, <2>4, <2>5
<1>7. slab_init_page(c) \in SlabInfo
  <2>1. c \in 0 .. Len(Sizes) /\ NULL \in Link
    BY HeapSizes DEF Link
  <2> QED
    BY <1>3, <1>5, <2>1 DEF SlabInfo, Offset
<1>8. f # <<>>
  BY <1>5
<1>9. Distinct(f) /\ Entries(f) \subseteq Slots(c)
  BY <1>4, <1>5, <1>6 DEF Distinct, Entries
<1>10. Cardinality({}) = 0
  BY FS_EmptySet
<1>11. SlabOK(slab_init_page(c), {})
  BY <1>1, <1>3, <1>5, <1>9, <1>10 DEF SlabOK
<1> QED
  BY <1>3, <1>7, <1>8, <1>11
------------------------------------------------------------------------------
\* A run of pages that is found is free and lies in the heap.
LEMMA FirstFitIs ==
  ASSUME NEW F \in SUBSET Page, NEW n \in Nat, NEW s, s = FirstFit(F, n), s # NULL
  PROVE  s \in F /\ n > 0 /\ s + n <= TotalPages /\ \A q \in s .. s + n - 1 : q \in F
<1>1. PICK T : T = {r \in F : IsRun(F, r, n)}
  OBVIOUS
<1>2. T \in SUBSET Nat
  BY <1>1, HeapSizes
<1>3. T # {}
  BY <1>1 DEF FirstFit
<1>4. \E r \in T : \A y \in T : r <= y
  BY <1>2, <1>3, LeastNatural
<1>5. \E r \in F : IsRun(F, r, n) /\ \A y \in F : IsRun(F, y, n) => r <= y
  BY <1>1, <1>4
<1>6. s \in F /\ IsRun(F, s, n)
  BY <1>5 DEF FirstFit
<1>7. n > 0 /\ \A k \in 0 .. n - 1 : s + k \in F
  BY <1>6 DEF IsRun
<1>8. s \in Nat
  BY <1>6, HeapSizes
<1>9. ASSUME NEW q \in s .. s + n - 1 PROVE q \in F
  <2>1. q - s \in 0 .. n - 1 /\ s + (q - s) = q
    BY <1>8
  <2> QED
    BY <1>7, <2>1
<1>10. s + n - 1 \in Page
  <2>1. s + n - 1 \in s .. s + n - 1
    BY <1>7, <1>8
  <2> QED
    BY <1>9, <2>1
<1>11. s + n <= TotalPages
  <2>1. TotalPages \in Nat /\ s + n - 1 \in 0 .. TotalPages - 1
    BY <1>10, HeapSizes
  <2> QED
    BY <1>8, <2>1
<1> QED
  BY <1>6, <1>7, <1>9, <1>11

\* Page q and its objects are the same in both heaps.
SamePage(g, h, q) ==
  /\ g.page[q] = h.page[q]
  /\ g.slab[q].cache = h.slab[q].cache
  /\ g.slab[q].free_list = h.slab[q].free_list
  /\ g.slab[q].in_use = h.slab[q].in_use

\* A step that changes one page that is not part of a large block, and the
\* addresses in it, leaves the others as they should be.
LEMMA OtherPages ==
  ASSUME NEW h \in HeapShape, NEW g, NEW A, NEW B, NEW p \in Page, NEW e \in {p, NULL}, NEW f,
         ~ IsLarge(h, p),
         \A q \in Page \ {p} : SamePage(g, h, q) /\ Offsets(B, q) = Offsets(A, q) /\ PageOK(h, A, e, q)
  PROVE  \A q \in Page \ {p} : PageOK(g, B, f, q)
<1> SUFFICES ASSUME NEW q \in Page \ {p} PROVE PageOK(g, B, f, q)
  OBVIOUS
<1>1. /\ SamePage(g, h, q) /\ Offsets(B, q) = Offsets(A, q) /\ PageOK(h, A, e, q)
      /\ q # NULL /\ q \in Nat
  BY HeapSizes
<1>2. PICK c \in 0 .. TotalPages : c = h.page[q].count
  BY Parts DEF PageInfo
<1>3. ASSUME IsLarge(h, q), MetaPages <= q PROVE RunOK(g, q)
  <2>1. RunOK(h, q)
    BY <1>1, <1>3 DEF PageOK
  <2>2. CASE c > 0
    <3>1. q + c <= TotalPages /\ \A r \in q + 1 .. q + c - 1 : IsLarge(h, r) /\ h.page[r].count = 0
      BY <1>2, <2>1, <2>2 DEF RunOK
    <3>2. ASSUME NEW r \in q + 1 .. q + c - 1 PROVE g.page[r] = h.page[r]
      <4>1. r \in Page
        BY <1>1, <3>1, HeapSizes
      <4>2. r # p
        BY <3>1
      <4> QED
        BY <4>1, <4>2 DEF SamePage
    <3> QED
      BY <1>1, <1>2, <2>2, <3>1, <3>2 DEF RunOK, SamePage, IsLarge
  <2>3. CASE ~(c > 0)
    <3>1. PICK s \in Page : MetaPages <= s /\ s < q /\ q < s + h.page[s].count /\ IsLarge(h, s)
      BY <1>2, <2>1, <2>3 DEF RunOK
    <3>2. g.page[s] = h.page[s]
      BY <3>1 DEF SamePage
    <3> QED
      BY <1>1, <1>2, <2>3, <3>1, <3>2 DEF RunOK, SamePage, IsLarge
  <2> QED
    BY <2>2, <2>3
<1>4. SlabOK(h.slab[q], Offsets(A, q)) => SlabOK(g.slab[q], Offsets(B, q))
  BY <1>1 DEF SlabOK, SamePage
<1> QED
  BY <1>1, <1>3, <1>4 DEF PageOK, SamePage, IsLarge
------------------------------------------------------------------------------
\* Members as a membership.
LEMMA MembersAre ==
  ASSUME NEW h
  PROVE  /\ Members(h) \in Membership
         /\ \A l \in ListName, c \in Class : Members(h)[l][c] = Belongs(h, l, c)
<1>1. \A l, c : Belongs(h, l, c) \in SUBSET Page
  BY DEF Belongs
<1> QED
  BY <1>1 DEF Members, Membership

\* The lists depend on their heads and links only.
LEMMA ListsStay ==
  ASSUME NEW h, NEW g, NEW F, ListsAre(h, F), g.lists = h.lists,
         \A l \in ListName, c \in Class, q \in Page :
           q \in F[l][c] => g.slab[q].next = h.slab[q].next /\ g.slab[q].prev = h.slab[q].prev
  PROVE  ListsAre(g, F)
<1>1. ASSUME NEW l \in ListName, NEW c \in Class PROVE ListIs(g.lists[l][c], g.slab, F[l][c])
  <2>1. PICK S \in SUBSET Page : S = F[l][c]
    BY DEF ListsAre, Membership
  <2>2. ListIs(h.lists[l][c], h.slab, S)
    BY <2>1 DEF ListsAre
  <2>3. ListIs(h.lists[l][c], g.slab, S)
    BY <2>1, <2>2, ListLocal
  <2> QED
    BY <2>1, <2>3
<1> QED
  BY <1>1 DEF ListsAre

\* Memberships that agree describe the same lists.
LEMMA ListsSame ==
  ASSUME NEW h, NEW F, ListsAre(h, F), NEW G \in Membership,
         \A l \in ListName, c \in Class : G[l][c] = F[l][c]
  PROVE  ListsAre(h, G)
<1>1. \A k, l \in ListName, c, d \in Class : G[k][c] \cap G[l][d] # {} => k = l /\ c = d
  BY DEF ListsAre
<1>2. ASSUME NEW l \in ListName, NEW c \in Class PROVE ListIs(h.lists[l][c], h.slab, G[l][c])
  <2>1. ListIs(h.lists[l][c], h.slab, F[l][c]) /\ G[l][c] = F[l][c]
    BY DEF ListsAre
  <2> QED
    BY <2>1, Zenon
<1> QED
  BY <1>1, <1>2 DEF ListsAre
------------------------------------------------------------------------------
\* What the updates of a heap do.
LEMMA WithSlabIs ==
  ASSUME NEW h \in HeapShape, NEW p \in Page, NEW s \in SlabInfo
  PROVE  /\ WithSlab(h, p, s) \in HeapShape
         /\ WithSlab(h, p, s).page = h.page /\ WithSlab(h, p, s).lists = h.lists
         /\ \A q \in Page : WithSlab(h, p, s).slab[q] = IF q = p THEN s ELSE h.slab[q]
<1>1. PICK g : g = WithSlab(h, p, s)
  OBVIOUS
<1>2. PICK S : S = [h.slab EXCEPT ![p] = s]
  OBVIOUS
<1>3. S \in [Page -> SlabInfo] /\ \A q \in Page : S[q] = IF q = p THEN s ELSE h.slab[q]
  BY <1>2, Parts
<1>4. g = [h EXCEPT !.slab = S]
  BY <1>1, <1>2 DEF WithSlab
<1>5. g \in HeapShape /\ g.page = h.page /\ g.lists = h.lists /\ g.slab = S
  BY <1>3, <1>4 DEF HeapShape
<1> QED
  BY <1>1, <1>3, <1>5

\* g is h with other objects free in page p.
ObjectsSet(g, h, p, f, n) ==
  /\ g \in HeapShape /\ g.page = h.page /\ g.lists = h.lists
  /\ \A q \in Page : /\ g.slab[q].cache = h.slab[q].cache
                     /\ g.slab[q].next = h.slab[q].next
                     /\ g.slab[q].prev = h.slab[q].prev
  /\ \A q \in Page \ {p} : SamePage(g, h, q)
  /\ g.slab[p].free_list = f /\ g.slab[p].in_use = n

\* WithObjects changes the free objects of one page.
LEMMA WithObjectsIs ==
  ASSUME NEW h \in HeapShape, NEW p \in Page, NEW f \in Seq(Offset), NEW n \in Nat
  PROVE  ObjectsSet(WithObjects(h, p, f, n), h, p, f, n)
<1>1. PICK g : g = WithObjects(h, p, f, n)
  OBVIOUS
<1>2. PICK s : s = [h.slab[p] EXCEPT !.free_list = f, !.in_use = n]
  OBVIOUS
<1>3. /\ s \in SlabInfo /\ s.free_list = f /\ s.in_use = n /\ s.cache = h.slab[p].cache
      /\ s.next = h.slab[p].next /\ s.prev = h.slab[p].prev
  <2>1. PICK r \in SlabInfo : r = h.slab[p]
    BY Parts
  <2> QED
    BY <1>2, <2>1 DEF SlabInfo, Offset
<1>4. g = WithSlab(h, p, s)
  BY <1>1, <1>2 DEF WithObjects
<1>5. /\ g \in HeapShape /\ g.page = h.page /\ g.lists = h.lists
      /\ \A q \in Page : g.slab[q] = IF q = p THEN s ELSE h.slab[q]
  BY <1>3, <1>4, WithSlabIs
<1> QED
  BY <1>1, <1>3, <1>5 DEF ObjectsSet, SamePage

\* g is h with n pages from s on taken.
Claimed(g, h, s, n, t) ==
  /\ g \in HeapShape /\ g.slab = h.slab /\ g.lists = h.lists
  /\ \A q \in Page : g.page[q] = IF q \in s .. s + n - 1
                                THEN [type |-> t, count |-> IF q = s THEN n ELSE 0]
                                ELSE h.page[q]

\* Claim takes n pages.
LEMMA ClaimIs ==
  ASSUME NEW h \in HeapShape, NEW t \in {"SLAB", "LARGE"}, NEW s \in Page, NEW n \in Nat, s + n <= TotalPages
  PROVE  Claimed(Claim(h, s, n, t), h, s, n, t)
<1>1. PICK g : g = Claim(h, s, n, t)
  OBVIOUS
<1>2. PICK P : P = [p \in Page |-> IF p \in s .. s + n - 1
                                   THEN [type |-> t, count |-> IF p = s THEN n ELSE 0]
                                   ELSE h.page[p]]
  OBVIOUS
<1>3. P \in [Page -> PageInfo]
  <2>1. n \in 0 .. TotalPages /\ 0 \in 0 .. TotalPages
    BY HeapSizes
  <2>2. \A p \in Page : h.page[p] \in PageInfo
    BY Parts
  <2>3. \A c \in 0 .. TotalPages : [type |-> t, count |-> c] \in PageInfo
    BY DEF PageInfo
  <2>4. \A p \in Page : P[p] \in PageInfo
    BY <1>2, <2>1, <2>2, <2>3
  <2> QED
    BY <1>2, <2>4
<1>4. g = [h EXCEPT !.page = P]
  BY <1>1, <1>2 DEF Claim
<1>5. g \in HeapShape /\ g.page = P /\ g.lists = h.lists /\ g.slab = h.slab
  BY <1>3, <1>4 DEF HeapShape
<1> QED
  BY <1>1, <1>2, <1>5 DEF Claimed

\* free_pages_backend gives back as many pages as the first one knows of.
LEMMA FreedIs ==
  ASSUME NEW h \in HeapShape, NEW s \in Page, NEW a, a = page_idx_to_virt(s)
  PROVE  /\ free_pages_backend(h, a) \in HeapShape
         /\ free_pages_backend(h, a).slab = h.slab /\ free_pages_backend(h, a).lists = h.lists
         /\ \A q \in Page : free_pages_backend(h, a).page[q] =
              IF q \in s .. s + h.page[s].count - 1 THEN FREE ELSE h.page[q]
<1>1. PICK g : g = free_pages_backend(h, a)
  OBVIOUS
<1>2. PICK P : P = [p \in Page |-> IF p \in s .. s + h.page[s].count - 1 THEN FREE ELSE h.page[p]]
  OBVIOUS
<1>3. P \in [Page -> PageInfo]
  <2>1. FREE \in PageInfo
    BY HeapSizes DEF FREE, PageInfo
  <2>2. \A p \in Page : h.page[p] \in PageInfo
    BY Parts
  <2> QED
    BY <1>2, <2>1, <2>2
<1>4. virt_to_page_idx(a) = s
  BY FirstByte, AddrIs
<1>5. g = [h EXCEPT !.page = P]
  BY <1>1, <1>2, <1>4 DEF free_pages_backend
<1>6. g \in HeapShape /\ g.page = P /\ g.lists = h.lists /\ g.slab = h.slab
  BY <1>3, <1>5 DEF HeapShape
<1> QED
  BY <1>1, <1>2, <1>6
------------------------------------------------------------------------------
\* Taking the first object of the free list.
LEMMA TakeFirst ==
  ASSUME NEW s \in SlabInfo, NEW T, SlabOK(s, T), s.free_list # <<>>, NEW r,
         r.cache = s.cache, r.free_list = Tail(s.free_list), r.in_use = s.in_use + 1
  PROVE  /\ SlabOK(r, T \cup {Head(s.free_list)}) /\ r.in_use > 0
         /\ Head(s.free_list) \in Slots(s.cache) \ T /\ Tail(s.free_list) \in Seq(Offset)
<1>1. PICK f \in Seq(Offset) : f = s.free_list
  BY DEF SlabInfo, Offset
<1>2. PICK n \in Nat : n = Len(f) /\ n > 0 /\ DOMAIN f = 1 .. n
  BY <1>1
<1>3. /\ Head(f) = f[1] /\ Tail(f) \in Seq(Offset) /\ DOMAIN Tail(f) = 1 .. n - 1
      /\ Len(Tail(f)) = n - 1 /\ \A k \in 1 .. n - 1 : Tail(f)[k] = f[k + 1]
  BY <1>1, <1>2
<1>0. PICK o : o = f[1]
  OBVIOUS
<1>4. PICK t \in Seq(Offset) : t = Tail(f) /\ o = f[1]
  BY <1>0, <1>3
<1>5. DOMAIN t = 1 .. n - 1 /\ Len(t) = n - 1 /\ \A k \in 1 .. n - 1 : t[k] = f[k + 1]
  BY <1>3, <1>4
<1>6. Distinct(f) /\ Entries(f) \subseteq Slots(s.cache) /\ T \cap Entries(f) = {} /\ T \subseteq Slots(s.cache)
  BY <1>1 DEF SlabOK
<1>7. Distinct(t)
  <2> SUFFICES ASSUME NEW i \in 1 .. n - 1, NEW j \in 1 .. n - 1, t[i] = t[j] PROVE i = j
    BY <1>5 DEF Distinct
  <2>1. f[i + 1] = f[j + 1] /\ i + 1 \in 1 .. n /\ j + 1 \in 1 .. n
    BY <1>5
  <2>2. i + 1 = j + 1
    BY <1>2, <1>6, <2>1 DEF Distinct
  <2> QED
    BY <2>2
<1>8. \A k \in 1 .. n - 1 : t[k] \in Entries(f) /\ t[k] # o
  <2> SUFFICES ASSUME NEW k \in 1 .. n - 1 PROVE t[k] \in Entries(f) /\ t[k] # o
    OBVIOUS
  <2>1. k + 1 \in 1 .. n /\ 1 \in 1 .. n /\ k + 1 # 1
    OBVIOUS
  <2>2. f[k + 1] # f[1]
    BY <1>2, <1>6, <2>1 DEF Distinct
  <2> QED
    BY <1>2, <1>4, <1>5, <2>1, <2>2 DEF Entries
<1>9. o \in Entries(f) /\ o \notin T
  BY <1>2, <1>4, <1>6 DEF Entries
<1>10. Entries(t) \subseteq Slots(s.cache) /\ (T \cup {o}) \cap Entries(t) = {}
  BY <1>5, <1>6, <1>8 DEF Entries
<1>11. T \cup {o} \subseteq Slots(s.cache)
  BY <1>6, <1>9
<1>12. s.in_use \in Nat /\ s.in_use = Cardinality(T) /\ s.cache \in Class
       /\ n + s.in_use = MaxObjs(s.cache)
  BY <1>1, <1>2 DEF SlabOK, SlabInfo
<1>13. IsFiniteSet(T)
  <2>1. T \in SUBSET Offset
    BY <1>6, <1>12, SlotsAre
  <2> QED
    BY <2>1, OffsetsFinite
<1>14. Cardinality(T \cup {o}) = s.in_use + 1
  <2>1. Cardinality(T \cup {o}) = Cardinality(T) + 1
    BY <1>9, <1>13, FS_AddElement
  <2> QED
    BY <1>12, <2>1
<1>15. SlabOK(r, T \cup {o})
  <2>1. r.cache = s.cache /\ r.free_list = t /\ r.in_use = s.in_use + 1
    BY <1>1, <1>4
  <2>2. Len(t) + r.in_use = MaxObjs(s.cache)
    <3>1. PICK u \in Nat : u = s.in_use
      BY <1>12
    <3>2. (n - 1) + (u + 1) = n + u
      OBVIOUS
    <3> QED
      BY <1>5, <1>12, <2>1, <3>1, <3>2
  <2> QED
    BY <1>7, <1>10, <1>11, <1>12, <1>14, <2>1, <2>2 DEF SlabOK
<1>16. r.in_use > 0
  BY <1>12
<1> QED
  BY <1>1, <1>3, <1>4, <1>6, <1>9, <1>15, <1>16

\* Putting an object back in front of the free list.
LEMMA PutFirst ==
  ASSUME NEW s \in SlabInfo, NEW T, SlabOK(s, T), NEW o \in T, NEW r,
         r.cache = s.cache, r.free_list = <<o>> \o s.free_list, r.in_use = s.in_use - 1
  PROVE  /\ SlabOK(r, T \ {o}) /\ s.in_use - 1 \in Nat
         /\ <<o>> \o s.free_list \in Seq(Offset) /\ <<o>> \o s.free_list # <<>>
<1>1. PICK f \in Seq(Offset) : f = s.free_list
  BY DEF SlabInfo, Offset
<1>2. PICK n \in Nat : n = Len(f) /\ DOMAIN f = 1 .. n
  BY <1>1
<1>3. /\ s.cache \in Class /\ T \subseteq Slots(s.cache) /\ T \cap Entries(f) = {}
      /\ Distinct(f) /\ Entries(f) \subseteq Slots(s.cache)
      /\ s.in_use \in Nat /\ s.in_use = Cardinality(T) /\ n + s.in_use = MaxObjs(s.cache)
  BY <1>1, <1>2 DEF SlabOK, SlabInfo
<1>4. T \subseteq Offset
  BY <1>3, SlotsAre
<1>5. PICK t : t = <<o>> \o f
  OBVIOUS
<1>6. /\ t \in Seq(Offset) /\ Len(t) = n + 1 /\ DOMAIN t = 1 .. n + 1
      /\ \A k \in 1 .. n + 1 : t[k] = IF k = 1 THEN o ELSE f[k - 1]
  <2>1. o \in Offset
    BY <1>4
  <2>2. <<o>> \in Seq(Offset) /\ Len(<<o>>) = 1 /\ <<o>>[1] = o
    BY <2>1
  <2>3. t \in Seq(Offset) /\ Len(t) = n + 1
    BY <1>1, <1>2, <1>5, <2>2
  <2> QED
    BY <1>1, <1>2, <1>5, <2>2, <2>3
<1>7. o \notin Entries(f)
  BY <1>3
<1>8. \A k \in 2 .. n + 1 : k - 1 \in 1 .. n /\ t[k] = f[k - 1] /\ t[k] \in Entries(f)
  <2> SUFFICES ASSUME NEW k \in 2 .. n + 1
               PROVE  k - 1 \in 1 .. n /\ t[k] = f[k - 1] /\ t[k] \in Entries(f)
    OBVIOUS
  <2>1. k - 1 \in 1 .. n /\ t[k] = f[k - 1]
    BY <1>6
  <2> QED
    BY <1>2, <2>1 DEF Entries
<1>9. Distinct(t)
  <2> SUFFICES ASSUME NEW i \in 1 .. n + 1, NEW j \in 1 .. n + 1, t[i] = t[j] PROVE i = j
    BY <1>6 DEF Distinct
  <2>1. CASE i = 1 \/ j = 1
    BY <1>6, <1>7, <1>8, <2>1
  <2>2. CASE i # 1 /\ j # 1
    <3>1. i \in 2 .. n + 1 /\ j \in 2 .. n + 1
      BY <2>2
    <3>2. f[i - 1] = f[j - 1] /\ i - 1 \in 1 .. n /\ j - 1 \in 1 .. n
      BY <1>8, <3>1
    <3>3. i - 1 = j - 1
      BY <1>2, <1>3, <3>2 DEF Distinct
    <3> QED
      BY <3>3
  <2> QED
    BY <2>1, <2>2
<1>10. \A x \in Entries(t) : x = o \/ x \in Entries(f)
  <2> SUFFICES ASSUME NEW k \in 1 .. n + 1 PROVE t[k] = o \/ t[k] \in Entries(f)
    BY <1>6 DEF Entries
  <2>1. k = 1 \/ k \in 2 .. n + 1
    OBVIOUS
  <2> QED
    BY <1>6, <1>8, <2>1
<1>11. Entries(t) \subseteq Slots(s.cache) /\ (T \ {o}) \cap Entries(t) = {} /\ T \ {o} \subseteq Slots(s.cache)
  BY <1>3, <1>10
<1>12. IsFiniteSet(T)
  BY <1>4, OffsetsFinite
<1>13. Cardinality(T \ {o}) = s.in_use - 1 /\ s.in_use - 1 \in Nat
  <2>1. Cardinality(T \ {o}) = Cardinality(T) - 1
    BY <1>12, FS_RemoveElement
  <2>2. Cardinality(T) # 0
    BY <1>12, FS_EmptySet
  <2> QED
    BY <1>3, <2>1, <2>2
<1>14. SlabOK(r, T \ {o})
  <2>1. r.cache = s.cache /\ r.free_list = t /\ r.in_use = s.in_use - 1
    BY <1>1, <1>5
  <2>2. Len(t) + r.in_use = MaxObjs(s.cache)
    BY <1>3, <1>6, <2>1
  <2> QED
    BY <1>3, <1>9, <1>11, <1>13, <2>1, <2>2 DEF SlabOK
<1>15. t # <<>>
  BY <1>6
<1> QED
  BY <1>1, <1>5, <1>6, <1>13, <1>14, <1>15
------------------------------------------------------------------------------
\* Slabs other than p belong where they did.
LEMMA OthersBelong ==
  ASSUME NEW h, NEW g, NEW p \in Page, \A q \in Page \ {p} : SamePage(g, h, q),
         NEW l, NEW c
  PROVE  Belongs(g, l, c) \ {p} = Belongs(h, l, c) \ {p}
BY DEF Belongs, SamePage

\* E says that p has been taken out of every list.
Without(E, F, p) == \A k \in ListName, d \in Class : E[k][d] = F[k][d] \ {p}

\* A slab that is unlinked is in no list.
LEMMA Removed ==
  ASSUME NEW h \in HeapShape, NEW F, ListsAre(h, F), NEW l \in ListName, NEW c \in Class, NEW p \in F[l][c],
         NEW u, u = Unlink(h, l, c, p)
  PROVE  SameObjects(u, h) /\ \E E : ListsAre(u, E) /\ Without(E, F, p)
<1>1. /\ F \in Membership
      /\ \A k \in ListName, d \in Class : F[k][d] \in SUBSET Page
      /\ \A k \in ListName, d \in Class : p \in F[k][d] => k = l /\ d = c
  BY DEF ListsAre, Membership
<1>2. PICK E : E = WithSet(F, l, c, F[l][c] \ {p})
  OBVIOUS
<1>3. SameObjects(u, h) /\ ListsAre(u, E)
  BY <1>2, UnlinkIs
<1>4. F[l][c] \ {p} \in SUBSET Page
  BY <1>1
<1>5. \A k \in ListName, d \in Class : E[k][d] = IF k = l /\ d = c THEN F[l][c] \ {p} ELSE F[k][d]
  BY <1>1, <1>2, <1>4, SetIs
<1>6. Without(E, F, p)
  BY <1>1, <1>5 DEF Without
<1> QED
  BY <1>3, <1>6

\* G says that p has been moved to list m of cache c.
Relisted(G, F, p, m, c) ==
  \A k \in ListName, d \in Class : G[k][d] = IF k = m /\ d = c THEN F[k][d] \cup {p} ELSE F[k][d] \ {p}

\* Slab p is moved from list l of cache c to the front of list m.
LEMMA Moved ==
  ASSUME NEW h \in HeapShape, NEW F, ListsAre(h, F), NEW l \in ListName, NEW m \in ListName, l # m,
         NEW c \in Class, NEW p \in F[l][c],
         NEW g, g = LinkFirst(Unlink(h, l, c, p), m, c, p)
  PROVE  /\ SameObjects(g, h)
         /\ \E G : ListsAre(g, G) /\ Relisted(G, F, p, m, c)
<1>1. /\ F \in Membership /\ p \in Page
      /\ \A k \in ListName, d \in Class : F[k][d] \in SUBSET Page
      /\ \A k \in ListName, d \in Class : p \in F[k][d] => k = l /\ d = c
  BY DEF ListsAre, Membership
<1>2. PICK u : u = Unlink(h, l, c, p)
  OBVIOUS
<1>4. SameObjects(u, h) /\ \E E : ListsAre(u, E) /\ Without(E, F, p)
  BY <1>2, Removed
<1>5. u \in HeapShape
  BY <1>4 DEF SameObjects
<1>6. PICK E : ListsAre(u, E) /\ \A k \in ListName, d \in Class : E[k][d] = F[k][d] \ {p}
  BY <1>4 DEF Without
<1>7. PICK G : G = WithSet(E, m, c, E[m][c] \cup {p})
  OBVIOUS
<1>8. SameObjects(g, u) /\ ListsAre(g, G)
  BY <1>1, <1>2, <1>4, <1>5, <1>6, <1>7, LinkFirstIs
<1>9. ASSUME NEW k \in ListName, NEW d \in Class
      PROVE G[k][d] = IF k = m /\ d = c THEN F[k][d] \cup {p} ELSE F[k][d] \ {p}
  <2>1. E \in Membership /\ E[m][c] \cup {p} \in SUBSET Page
    BY <1>1, <1>6 DEF ListsAre
  <2>2. G[k][d] = IF k = m /\ d = c THEN E[m][c] \cup {p} ELSE E[k][d]
    BY <1>7, <2>1, SetIs
  <2> QED
    BY <1>6, <2>2
<1>10. SameObjects(g, h)
  BY <1>4, <1>8 DEF SameObjects
<1> QED
  BY <1>8, <1>9, <1>10 DEF Relisted

\* The lists are right when p has been moved to the list it belongs in now.
LEMMA ListedAgain ==
  ASSUME NEW h, NEW g, NEW p \in Page, \A q \in Page \ {p} : SamePage(g, h, q),
         NEW m \in ListName, NEW c \in Class,
         g.page[p].type = "SLAB", g.slab[p].cache = c, (g.slab[p].free_list = <<>>) <=> (m = "full"),
         NEW G, ListsAre(g, G), Relisted(G, Members(h), p, m, c)
  PROVE  ListsAre(g, Members(g)) /\ p \in Belongs(g, m, c)
<1>1. \A k \in ListName, d \in Class : p \in Belongs(g, k, d) <=> k = m /\ d = c
  BY DEF Belongs, ListName
<1>2. ASSUME NEW k \in ListName, NEW d \in Class PROVE Members(g)[k][d] = G[k][d]
  <2>1. Members(g)[k][d] = Belongs(g, k, d) /\ Members(h)[k][d] = Belongs(h, k, d)
    BY MembersAre
  <2>2. Belongs(g, k, d) \ {p} = Belongs(h, k, d) \ {p}
    BY OthersBelong
  <2>3. G[k][d] = IF k = m /\ d = c THEN Belongs(h, k, d) \cup {p} ELSE Belongs(h, k, d) \ {p}
    <3>1. G[k][d] = IF k = m /\ d = c THEN Members(h)[k][d] \cup {p} ELSE Members(h)[k][d] \ {p}
      BY Zenon DEF Relisted
    <3>2. PICK M : M = Members(h)[k][d]
      OBVIOUS
    <3> QED
      BY <2>1, <3>1, <3>2
  <2>4. Belongs(g, k, d) = IF k = m /\ d = c THEN Belongs(h, k, d) \cup {p} ELSE Belongs(h, k, d) \ {p}
    BY <1>1, <2>2
  <2> QED
    BY <2>1, <2>3, <2>4
<1>3. Members(g) \in Membership
  BY MembersAre
<1> QED
  BY <1>1, <1>2, <1>3, ListsSame

\* The heap is as it should be when page p is, the lists are, and nothing else
\* has changed.
LEMMA OnePage ==
  ASSUME NEW h, NEW A, NEW p \in Page, NEW e \in {p, NULL}, HeapOK(h, A, e), ~ IsLarge(h, p),
         NEW g \in HeapShape, NEW B \in SUBSET (0 .. HeapEnd - 1), NEW f,
         \A q \in Page \ {p} : SamePage(g, h, q) /\ Offsets(B, q) = Offsets(A, q),
         PageOK(g, B, f, p), ListsAre(g, Members(g))
  PROVE  HeapOK(g, B, f)
<1>1. h \in HeapShape /\ \A q \in Page : PageOK(h, A, e, q)
  BY DEF HeapOK
<1>2. \A q \in Page \ {p} : PageOK(g, B, f, q)
  BY <1>1, OtherPages
<1> QED
  BY <1>2 DEF HeapOK

\* The room a block has depends on its page.
LEMMA CapacityIs ==
  ASSUME NEW h, NEW p \in Page, NEW o \in Offset
  PROVE  Capacity(h, Addr(p, o)) = IF h.page[p].type = "SLAB" THEN Sizes[h.slab[p].cache]
                                   ELSE h.page[p].count * PageSize
BY AddrIs DEF Capacity

\* No block loses the room it has.
SameRoom(g, h, A) == \A a \in A : Capacity(g, a) = Capacity(h, a)

\* Blocks keep their room when their pages keep type, count and cache.
LEMMA RoomStays ==
  ASSUME NEW h, NEW g, NEW A \in SUBSET (0 .. HeapEnd - 1),
         \A q \in Page : Offsets(A, q) # {} => g.page[q] = h.page[q] /\ g.slab[q].cache = h.slab[q].cache
  PROVE  SameRoom(g, h, A)
<1> SUFFICES ASSUME NEW a \in A PROVE Capacity(g, a) = Capacity(h, a)
  BY DEF SameRoom
<1>1. PICK p \in Page, o \in Offset : a = Addr(p, o)
  BY AddrOf
<1>2. Offsets(A, p) # {}
  BY <1>1 DEF Offsets
<1>3. g.page[p] = h.page[p] /\ g.slab[p].cache = h.slab[p].cache
  BY <1>2
<1> QED
  BY <1>1, <1>3, CapacityIs
------------------------------------------------------------------------------
\* The first slab of the partial list, if there is one, has room.
LEMMA HeadHasRoom ==
  ASSUME NEW h, NEW A, NEW e, HeapOK(h, A, e), NEW c \in Class,
         NEW p, p = h.lists["partial"][c], p # NULL
  PROVE  p \in Belongs(h, "partial", c)
<1>1. "partial" \in ListName
  BY DEF ListName
<1>2. PICK S \in SUBSET Page : S = Belongs(h, "partial", c)
  BY DEF Belongs
<1>3. ListIs(h.lists["partial"][c], h.slab, Members(h)["partial"][c])
  BY <1>1 DEF HeapOK, ListsAre
<1>4. Members(h)["partial"][c] = S
  BY <1>1, <1>2, MembersAre
<1>5. ListIs(p, h.slab, S)
  BY <1>3, <1>4, Zenon
<1>6. p \in S \cup {NULL}
  BY <1>5, LinksIn
<1> QED
  BY <1>2, <1>6

\* A new slab in front of the partial list.
LEMMA NewSlabOK ==
  ASSUME NEW h, NEW A, HeapOK(h, A, NULL), NEW c \in Class, NEW p \in FreePages(h), NEW g,
         g = LinkFirst(WithSlab(Claim(h, p, 1, "SLAB"), p, slab_init_page(c)), "partial", c, p)
  PROVE  HeapOK(g, A, p) /\ g.lists["partial"][c] = p
         /\ \A q \in Page \ {p} : SamePage(g, h, q)
<1>1. /\ p \in Page /\ p \in Nat /\ p < TotalPages /\ h.page[p].type = "FREE" /\ ~ IsLarge(h, p)
      /\ "partial" \in ListName
  BY HeapSizes DEF FreePages, IsLarge, ListName
<1>2. h \in HeapShape /\ A \in SUBSET (0 .. HeapEnd - 1) /\ PageOK(h, A, NULL, p) /\ ListsAre(h, Members(h))
  BY <1>1 DEF HeapOK
<1>3. PICK u : u = Claim(h, p, 1, "SLAB")
  OBVIOUS
<1>4. /\ u \in HeapShape /\ u.slab = h.slab /\ u.lists = h.lists
      /\ \A q \in Page : u.page[q] = IF q = p THEN [type |-> "SLAB", count |-> 1] ELSE h.page[q]
  <2>1. p + 1 <= TotalPages /\ 1 \in Nat /\ p .. p + 1 - 1 = {p} /\ "SLAB" \in {"SLAB", "LARGE"}
    BY <1>1, HeapSizes
  <2>2. Claimed(u, h, p, 1, "SLAB")
    BY <1>1, <1>2, <1>3, <2>1, ClaimIs
  <2> QED
    BY <2>1, <2>2 DEF Claimed
<1>5. PICK s \in SlabInfo : s = slab_init_page(c) /\ SlabOK(s, {}) /\ s.cache = c /\ s.free_list # <<>>
  BY NewSlab
<1>6. PICK v : v = WithSlab(u, p, s)
  OBVIOUS
<1>7. /\ v \in HeapShape /\ v.page = u.page /\ v.lists = h.lists
      /\ \A q \in Page : v.slab[q] = IF q = p THEN s ELSE h.slab[q]
  BY <1>1, <1>4, <1>5, <1>6, WithSlabIs
<1>8. PICK F : F = Members(h)
  OBVIOUS
<1>9. \A l \in ListName, d \in Class : F[l][d] \in SUBSET Page /\ p \notin F[l][d]
  <2>1. \A l \in ListName, d \in Class : F[l][d] = Belongs(h, l, d)
    BY <1>8, MembersAre
  <2>2. \A l, d : Belongs(h, l, d) \in SUBSET Page /\ p \notin Belongs(h, l, d)
    BY <1>1 DEF Belongs
  <2> QED
    BY <2>1, <2>2
<1>10. ListsAre(v, F)
  <2>1. \A l \in ListName, d \in Class, q \in Page :
          q \in F[l][d] => v.slab[q].next = h.slab[q].next /\ v.slab[q].prev = h.slab[q].prev
    BY <1>7, <1>9
  <2> QED
    BY <1>2, <1>7, <1>8, <2>1, ListsStay
<1>11. PICK G : G = WithSet(F, "partial", c, F["partial"][c] \cup {p})
  OBVIOUS
<1>12. g = LinkFirst(v, "partial", c, p)
  BY <1>3, <1>5, <1>6
<1>13. SameObjects(g, v) /\ ListsAre(g, G) /\ g.lists["partial"][c] = p
  BY <1>1, <1>7, <1>9, <1>10, <1>11, <1>12, LinkFirstIs
<1>14. /\ g \in HeapShape /\ g.page = u.page /\ g.slab[p].cache = c /\ g.slab[p].free_list = s.free_list
       /\ g.slab[p].in_use = s.in_use
  BY <1>1, <1>5, <1>7, <1>13 DEF SameObjects
<1>15. \A q \in Page \ {p} : SamePage(g, h, q)
  BY <1>4, <1>7, <1>13 DEF SameObjects, SamePage
<1>16. g.page[p] = [type |-> "SLAB", count |-> 1]
  BY <1>1, <1>4, <1>14
<1>17. Relisted(G, F, p, "partial", c)
  <2>1. F \in Membership /\ F["partial"][c] \cup {p} \in SUBSET Page
    BY <1>1, <1>8, <1>9, MembersAre
  <2>2. \A k \in ListName, d \in Class :
          G[k][d] = IF k = "partial" /\ d = c THEN F["partial"][c] \cup {p} ELSE F[k][d]
    BY <1>1, <1>11, <2>1, SetIs
  <2>3. \A k \in ListName, d \in Class : F[k][d] \ {p} = F[k][d]
    BY <1>9
  <2>4. \A k \in ListName, d \in Class :
          G[k][d] = IF k = "partial" /\ d = c THEN F[k][d] \cup {p} ELSE F[k][d] \ {p}
    BY <2>2, <2>3
  <2> QED
    BY <2>4 DEF Relisted
<1>18. ListsAre(g, Members(g))
  <2>1. g.page[p].type = "SLAB" /\ ((g.slab[p].free_list = <<>>) <=> ("partial" = "full"))
    BY <1>5, <1>14, <1>16
  <2> QED
    BY <1>1, <1>8, <1>13, <1>14, <1>15, <1>17, <2>1, ListedAgain
<1>19. PageOK(g, A, p, p)
  <2>1. Offsets(A, p) = {} /\ ~ (p < MetaPages)
    BY <1>1, <1>2 DEF PageOK
  <2>2. SlabOK(g.slab[p], {})
    BY <1>5, <1>14 DEF SlabOK
  <2> QED
    BY <1>16, <2>1, <2>2 DEF PageOK, IsLarge
<1>20. HeapOK(g, A, p)
  BY <1>1, <1>2, <1>14, <1>15, <1>18, <1>19, OnePage
<1> QED
  BY <1>13, <1>15, <1>20

\* A new slab keeps the heap in order, but it has no object in use yet.
LEMMA WithPartialOK ==
  ASSUME NEW h, NEW A, HeapOK(h, A, NULL), NEW c \in Class,
         NEW g, g = WithPartial(h, c), NEW p, p = g.lists["partial"][c], p # NULL
  PROVE  HeapOK(g, A, p) /\ SameRoom(g, h, A)
<1>1. A \in SUBSET (0 .. HeapEnd - 1) /\ \A q \in Page : PageOK(h, A, NULL, q)
  BY DEF HeapOK
<1>2. CASE g = h
  <2>1. ASSUME NEW q \in Page PROVE PageOK(h, A, p, q)
    <3>1. q # NULL /\ PageOK(h, A, NULL, q)
      BY <1>1, HeapSizes
    <3> QED
      BY <3>1 DEF PageOK
  <2>2. HeapOK(h, A, p)
    BY <2>1 DEF HeapOK
  <2> QED
    BY <1>2, <2>2 DEF SameRoom
<1>3. CASE g # h
  <2>1. PICK s : s = FirstFit(FreePages(h), 1)
    OBVIOUS
  <2>2. s # NULL /\ g = LinkFirst(WithSlab(Claim(h, s, 1, "SLAB"), s, slab_init_page(c)), "partial", c, s)
    BY <1>3, <2>1 DEF WithPartial
  <2>3. s \in FreePages(h)
    <3>1. FreePages(h) \in SUBSET Page
      BY DEF FreePages
    <3> QED
      BY <2>1, <2>2, <3>1, FirstFitIs
  <2>4. HeapOK(g, A, s) /\ g.lists["partial"][c] = s /\ \A q \in Page \ {s} : SamePage(g, h, q)
    BY <2>2, <2>3, NewSlabOK
  <2>5. Offsets(A, s) = {}
    BY <1>1, <2>3 DEF FreePages, PageOK
  <2>6. SameRoom(g, h, A)
    <3>1. \A q \in Page : Offsets(A, q) # {} => g.page[q] = h.page[q] /\ g.slab[q].cache = h.slab[q].cache
      BY <2>4, <2>5 DEF SamePage
    <3> QED
      BY <1>1, <3>1, RoomStays
  <2> QED
    BY <2>4, <2>6
<1> QED
  BY <1>2, <1>3
------------------------------------------------------------------------------
\* What malloc of size bytes must return when A is handed out.
Allocated(r, h, A, size) ==
  \/ r = Failed(h)
  \/ /\ r.ptr \in (0 .. HeapEnd - 1) \ A
     /\ HeapOK(r.heap, A \cup {r.ptr}, NULL)
     /\ SameRoom(r.heap, h, A) /\ size <= Capacity(r.heap, r.ptr)

\* u is h without the first free object o of page p, and g is u with the slab
\* moved to the full list if that was the last one.
Took(h, p, u, o) ==
  /\ u = WithObjects(h, p, Tail(h.slab[p].free_list), h.slab[p].in_use + 1)
  /\ o = Head(h.slab[p].free_list)
FullMoved(u, c, p, g) ==
  g = IF u.slab[p].free_list = <<>>
      THEN LinkFirst(Unlink(u, "partial", c, p), "full", c, p) ELSE u

\* An object of page p is taken off the free list, and a slab that has become
\* full is moved to the full list.
LEMMA TakeOK ==
  ASSUME NEW h, NEW A, NEW c \in Class, NEW p, HeapOK(h, A, p), p \in Belongs(h, "partial", c),
         NEW u, NEW o, Took(h, p, u, o), NEW g, FullMoved(u, c, p, g)
  PROVE  /\ HeapOK(g, A \cup {Addr(p, o)}, NULL) /\ SameRoom(g, h, A)
         /\ Addr(p, o) \in (0 .. HeapEnd - 1) \ A
         /\ Capacity(g, Addr(p, o)) = Sizes[c]
<1>1. /\ p \in Page /\ p # NULL /\ h.page[p].type = "SLAB" /\ h.slab[p].cache = c
      /\ h.slab[p].free_list # <<>> /\ "partial" \in ListName /\ "full" \in ListName /\ ~ IsLarge(h, p)
  BY HeapSizes DEF Belongs, ListName, IsLarge
<1>2. h \in HeapShape /\ A \in SUBSET (0 .. HeapEnd - 1) /\ PageOK(h, A, p, p) /\ ListsAre(h, Members(h))
  BY <1>1 DEF HeapOK
<1>3. PICK s \in SlabInfo : s = h.slab[p]
  BY <1>1, <1>2, Parts
<1>4. SlabOK(s, Offsets(A, p)) /\ h.page[p].count = 1 /\ ~ (p < MetaPages)
  BY <1>1, <1>2, <1>3 DEF PageOK
<1>5. PICK f \in Seq(Offset), n \in Nat : f = Tail(s.free_list) /\ n = s.in_use + 1
  <2>1. s.in_use \in Nat /\ s.free_list \in Seq(Offset) /\ s.free_list # <<>>
    BY <1>1, <1>3 DEF SlabInfo, Offset
  <2>2. Tail(s.free_list) \in Seq(Offset) /\ s.in_use + 1 \in Nat
    BY <2>1
  <2> QED
    BY <2>2
<1>6. ObjectsSet(u, h, p, f, n)
  <2>1. u = WithObjects(h, p, f, n)
    BY <1>3, <1>5 DEF Took
  <2> QED
    BY <1>1, <1>2, <2>1, WithObjectsIs
<1>7. /\ SlabOK(u.slab[p], Offsets(A, p) \cup {o}) /\ u.slab[p].in_use > 0
      /\ o \in Slots(c) \ Offsets(A, p)
  <2>1. s.cache = c /\ s.free_list # <<>> /\ o = Head(s.free_list)
    BY <1>1, <1>3 DEF Took
  <2>2. PICK r : r = u.slab[p]
    OBVIOUS
  <2>3. r.cache = s.cache /\ r.free_list = Tail(s.free_list) /\ r.in_use = s.in_use + 1
    BY <1>1, <1>3, <1>5, <1>6, <2>2 DEF ObjectsSet
  <2>4. SlabOK(r, Offsets(A, p) \cup {Head(s.free_list)}) /\ r.in_use > 0
        /\ Head(s.free_list) \in Slots(s.cache) \ Offsets(A, p)
    BY <1>4, <2>1, <2>3, TakeFirst
  <2> QED
    BY <2>1, <2>2, <2>4
<1>8. o \in Offset /\ Addr(p, o) \in (0 .. HeapEnd - 1) \ A
  <2>1. o \in Offset
    BY <1>7, SlotsAre
  <2>2. Addr(p, o) \in 0 .. HeapEnd - 1
    BY <1>1, <2>1, AddrIs
  <2>3. Addr(p, o) \notin A
    BY <1>1, <1>7, <2>1, OffsetsAre
  <2> QED
    BY <2>1, <2>2, <2>3
<1>9. ListsAre(u, Members(h))
  <2>1. /\ u.lists = h.lists
        /\ \A q \in Page : u.slab[q].next = h.slab[q].next /\ u.slab[q].prev = h.slab[q].prev
    BY <1>6 DEF ObjectsSet
  <2> QED
    BY <1>2, <2>1, ListsStay
<1>10. /\ u \in HeapShape /\ u.page = h.page /\ \A q \in Page : u.slab[q].cache = h.slab[q].cache
       /\ \A q \in Page \ {p} : SamePage(u, h, q)
  BY <1>6 DEF ObjectsSet
<1>11. SameObjects(g, u) /\ ListsAre(g, Members(g))
  <2>1. CASE u.slab[p].free_list = <<>>
    <3>1. g = LinkFirst(Unlink(u, "partial", c, p), "full", c, p)
      BY <2>1 DEF FullMoved
    <3>2. p \in Members(h)["partial"][c] /\ "partial" # "full"
      BY <1>1, MembersAre
    <3>3. /\ SameObjects(g, u)
          /\ \E G : ListsAre(g, G) /\ Relisted(G, Members(h), p, "full", c)
      BY <1>1, <1>9, <1>10, <3>1, <3>2, Moved
    <3>4. PICK G : ListsAre(g, G) /\ Relisted(G, Members(h), p, "full", c)
      BY <3>3
    <3>5. \A q \in Page \ {p} : SamePage(g, h, q)
      BY <1>10, <3>3 DEF SameObjects, SamePage
    <3>6. g.page[p].type = "SLAB" /\ g.slab[p].cache = c /\ ((g.slab[p].free_list = <<>>) <=> ("full" = "full"))
      BY <1>1, <1>10, <2>1, <3>3 DEF SameObjects
    <3> QED
      BY <1>1, <3>3, <3>4, <3>5, <3>6, ListedAgain
  <2>2. CASE u.slab[p].free_list # <<>>
    <3>1. g = u /\ SameObjects(g, u)
      BY <1>10, <2>2 DEF SameObjects, FullMoved
    <3>2. ASSUME NEW k \in ListName, NEW d \in Class PROVE Members(u)[k][d] = Members(h)[k][d]
      <4>1. Belongs(u, k, d) = Belongs(h, k, d)
        BY <1>1, <1>10, <2>2 DEF Belongs, SamePage
      <4> QED
        BY <4>1, MembersAre
    <3>3. ListsAre(u, Members(u))
      BY <1>9, <3>2, ListsSame, MembersAre
    <3> QED
      BY <3>1, <3>3
  <2> QED
    BY <2>1, <2>2
<1>12. /\ g \in HeapShape /\ g.page = h.page /\ \A q \in Page : g.slab[q].cache = h.slab[q].cache
       /\ \A q \in Page \ {p} : SamePage(g, h, q)
  BY <1>10, <1>11 DEF SameObjects, SamePage
<1>13. PICK B : B = A \cup {Addr(p, o)}
  OBVIOUS
<1>14. /\ B \in SUBSET (0 .. HeapEnd - 1) /\ Offsets(B, p) = Offsets(A, p) \cup {o}
       /\ \A q \in Page \ {p} : Offsets(B, q) = Offsets(A, q)
  BY <1>1, <1>2, <1>8, <1>13, OffsetsAre
<1>15. PageOK(g, B, NULL, p)
  <2>1. SlabOK(g.slab[p], Offsets(B, p)) /\ g.slab[p].in_use > 0
    BY <1>1, <1>7, <1>11, <1>14 DEF SlabOK, SameObjects
  <2> QED
    BY <1>1, <1>4, <1>12, <2>1 DEF PageOK, IsLarge
<1>16. HeapOK(g, B, NULL)
  BY <1>1, <1>11, <1>12, <1>14, <1>15, OnePage
<1>17. SameRoom(g, h, A)
  BY <1>2, <1>12, RoomStays
<1>18. Capacity(g, Addr(p, o)) = Sizes[c]
  <2>1. g.page[p].type = "SLAB" /\ g.slab[p].cache = c
    BY <1>1, <1>12
  <2> QED
    BY <1>1, <1>8, <2>1, CapacityIs
<1> QED
  BY <1>8, <1>13, <1>16, <1>17, <1>18

\* Allocation from a cache, whether the slab is new, partial or becomes full.
LEMMA CacheAllocOK ==
  ASSUME NEW h, NEW A, HeapOK(h, A, NULL), NEW c \in Class, NEW size \in Nat, size <= Sizes[c]
  PROVE  Allocated(cache_alloc(h, c), h, A, size)
<1>1. PICK v, p : v = WithPartial(h, c) /\ p = v.lists["partial"][c]
  OBVIOUS
<1>2. PICK u, o : Took(v, p, u, o)
  BY DEF Took
<1>3. PICK g : FullMoved(u, c, p, g)
  BY DEF FullMoved
<1>5. cache_alloc(h, c) = IF p = NULL THEN Failed(h) ELSE [heap |-> g, ptr |-> Addr(p, o)]
  BY <1>1, <1>2, <1>3 DEF cache_alloc, Addr, Took, FullMoved
<1>6. CASE p = NULL
  BY <1>5, <1>6 DEF Allocated
<1>7. CASE p # NULL
  <2>1. HeapOK(v, A, p) /\ SameRoom(v, h, A)
    BY <1>1, <1>7, WithPartialOK
  <2>2. p \in Belongs(v, "partial", c)
    BY <1>1, <1>7, <2>1, HeadHasRoom
  <2>3. /\ HeapOK(g, A \cup {Addr(p, o)}, NULL) /\ SameRoom(g, v, A)
        /\ Addr(p, o) \in (0 .. HeapEnd - 1) \ A /\ Capacity(g, Addr(p, o)) = Sizes[c]
    BY <1>2, <1>3, <2>1, <2>2, TakeOK
  <2>4. SameRoom(g, h, A)
    BY <2>1, <2>3 DEF SameRoom
  <2>5. PICK r : r = cache_alloc(h, c)
    OBVIOUS
  <2>6. r.heap = g /\ r.ptr = Addr(p, o)
    BY <1>5, <1>7, <2>5
  <2>7. Allocated(r, h, A, size)
    BY <2>3, <2>4, <2>6 DEF Allocated
  <2> QED
    BY <2>5, <2>7
<1> QED
  BY <1>6, <1>7
------------------------------------------------------------------------------
\* The size class of a request has room for it.
LEMMA SizeClassIs ==
  ASSUME NEW size \in Nat, size <= MaxSlabSize
  PROVE  SizeClass(size) \in Class /\ size <= Sizes[SizeClass(size)]
<1>1. PICK T : T = {i \in Class : size <= Sizes[i]}
  OBVIOUS
<1>2. T \in SUBSET Nat
  BY <1>1, HeapSizes
<1>3. T # {}
  <2>1. Len(Sizes) \in Class
    BY HeapSizes
  <2> QED
    BY <1>1, <2>1 DEF MaxSlabSize
<1>4. \E i \in T : \A j \in T : i <= j
  BY <1>2, <1>3, LeastNatural
<1>5. \E i \in Class : size <= Sizes[i] /\ \A j \in Class : size <= Sizes[j] => i <= j
  BY <1>1, <1>4
<1> QED
  BY <1>5 DEF SizeClass

\* The pages hold the block, unless the rounding has wrapped to 0 pages.
LEMMA PagesNeededIs ==
  ASSUME NEW size \in 0 .. Word - 1
  PROVE  PagesNeeded(size) \in Nat /\ (PagesNeeded(size) > 0 => size <= PagesNeeded(size) * PageSize)
<1>1. PICK m \in Nat \ {0}, w \in Nat \ {0} : m = PageSize /\ w = Word /\ m <= w
  BY HeapSizes
<1>2. PICK x \in Nat : x = size + m - 1 /\ size + PageSize - 1 = x
  BY <1>1
<1>3. CASE x < w
  <2>1. x % w = x
    BY <1>3, SmallRemainder
  <2>2. PICK d \in Nat, r \in 0 .. m - 1 : d = x \div m /\ x = m * d + r
    BY Divided
  <2>3. PagesNeeded(size) = d
    BY <1>1, <1>2, <2>1, <2>2 DEF PagesNeeded
  <2>4. PICK y \in Nat : y = m * d /\ y = d * m
    OBVIOUS
  <2>5. size <= y
    BY <1>1, <1>2, <2>2, <2>4
  <2> QED
    BY <1>1, <2>3, <2>4, <2>5
<1>4. CASE x >= w
  <2>1. PICK z \in 0 .. w - 1 : z = x - w /\ z \in 0 .. m - 1 /\ x = w * 1 + z
    BY <1>1, <1>2, <1>4
  <2>2. (w * 1 + z) % w = z
    BY Quotients
  <2>3. (m * 0 + z) \div m = 0 /\ m * 0 + z = z
    BY <2>1, Quotients
  <2>4. PagesNeeded(size) = 0
    BY <1>1, <1>2, <2>1, <2>2, <2>3 DEF PagesNeeded
  <2> QED
    BY <2>4
<1> QED
  BY <1>3, <1>4

\* Page q is as it should be if it, its addresses and its run stay.
LEMMA PageStays ==
  ASSUME NEW h, NEW g, NEW A, NEW B, NEW q, SamePage(g, h, q), Offsets(B, q) = Offsets(A, q),
         PageOK(h, A, NULL, q), IsLarge(h, q) /\ MetaPages <= q => RunOK(g, q)
  PROVE  PageOK(g, B, NULL, q)
<1>1. SlabOK(h.slab[q], Offsets(A, q)) => SlabOK(g.slab[q], Offsets(B, q))
  BY DEF SlabOK, SamePage
<1> QED
  BY <1>1 DEF PageOK, SamePage, IsLarge

\* The lists are right if the slabs and their objects stay.
LEMMA SlabsStay ==
  ASSUME NEW h, NEW g, ListsAre(h, Members(h)), g.lists = h.lists, g.slab = h.slab,
         \A q \in Page : g.page[q].type = "SLAB" <=> h.page[q].type = "SLAB"
  PROVE  ListsAre(g, Members(g))
<1>1. ASSUME NEW k \in ListName, NEW d \in Class PROVE Members(g)[k][d] = Members(h)[k][d]
  <2>1. Belongs(g, k, d) = Belongs(h, k, d)
    BY DEF Belongs
  <2> QED
    BY <2>1, MembersAre
<1>2. ListsAre(g, Members(h))
  BY ListsStay
<1> QED
  BY <1>1, <1>2, ListsSame, MembersAre

\* Allocation of pages, also when the rounding of the size wraps to 0 pages.
LEMMA LargeAllocOK ==
  ASSUME NEW h, NEW A, HeapOK(h, A, NULL), NEW size \in 0 .. Word - 1
  PROVE  Allocated(LargeAlloc(h, size), h, A, size)
<1>1. PICK n \in Nat : n = PagesNeeded(size) /\ (n > 0 => size <= n * PageSize)
  BY PagesNeededIs
<1>2. PICK s : s = FirstFit(FreePages(h), n)
  OBVIOUS
<1>3. PICK g : g = Claim(h, s, n, "LARGE")
  OBVIOUS
<1>4. PICK r : r = LargeAlloc(h, size)
  OBVIOUS
<1>5. r = IF s = NULL THEN Failed(h) ELSE [heap |-> g, ptr |-> page_idx_to_virt(s)]
  BY <1>1, <1>2, <1>3, <1>4 DEF LargeAlloc
<1>6. CASE s = NULL
  BY <1>4, <1>5, <1>6 DEF Allocated
<1>7. CASE s # NULL
  <2>1. h \in HeapShape /\ A \in SUBSET (0 .. HeapEnd - 1) /\ ListsAre(h, Members(h))
        /\ \A q \in Page : PageOK(h, A, NULL, q)
    BY DEF HeapOK
  <2>2. FreePages(h) \in SUBSET Page
    BY DEF FreePages
  <2>3. s \in FreePages(h) /\ n > 0 /\ s + n <= TotalPages /\ \A q \in s .. s + n - 1 : q \in FreePages(h)
    BY <1>2, <1>7, <2>2, FirstFitIs
  <2>4. s \in Page /\ s \in Nat /\ Page = 0 .. TotalPages - 1 /\ TotalPages \in Nat
    BY <2>2, <2>3, HeapSizes
  <2>5. \A q \in s .. s + n - 1 : q \in Page /\ h.page[q].type = "FREE" /\ Offsets(A, q) = {} /\ ~ (q < MetaPages)
    BY <2>1, <2>3 DEF FreePages, PageOK, IsLarge
  <2>6. Claimed(g, h, s, n, "LARGE")
    BY <1>3, <2>1, <2>3, <2>4, ClaimIs
  <2>7. /\ g \in HeapShape /\ g.slab = h.slab /\ g.lists = h.lists
        /\ \A q \in s .. s + n - 1 : g.page[q].type = "LARGE" /\ g.page[q].count = IF q = s THEN n ELSE 0
        /\ \A q \in Page : q \notin s .. s + n - 1 => g.page[q] = h.page[q]
    <3>1. g \in HeapShape /\ g.slab = h.slab /\ g.lists = h.lists
      BY <2>6 DEF Claimed
    <3>2. ASSUME NEW q \in s .. s + n - 1
          PROVE  g.page[q].type = "LARGE" /\ g.page[q].count = IF q = s THEN n ELSE 0
      <4>1. g.page[q] = [type |-> "LARGE", count |-> IF q = s THEN n ELSE 0]
        BY <2>5, <2>6 DEF Claimed
      <4> QED
        BY <4>1
    <3>3. \A q \in Page : q \notin s .. s + n - 1 => g.page[q] = h.page[q]
      BY <2>6 DEF Claimed
    <3> QED
      BY <3>1, <3>2, <3>3
  <2>8. PICK a : a = Addr(s, 0)
    OBVIOUS
  <2>9. a \in (0 .. HeapEnd - 1) \ A /\ a = page_idx_to_virt(s)
    <3>1. 0 \in Offset /\ a = page_idx_to_virt(s)
      BY <2>4, <2>8, FirstByte
    <3>2. a \in 0 .. HeapEnd - 1
      BY <2>4, <2>8, <3>1, AddrIs
    <3>3. s \in s .. s + n - 1
      BY <2>3, <2>4
    <3>4. a \notin A
      <4>1. PICK z \in Offset : z = 0
        BY <3>1
      <4>2. Addr(s, z) \in A <=> z \in Offsets(A, s)
        BY <2>4, OffsetsAre
      <4> QED
        BY <2>5, <2>8, <3>3, <4>1, <4>2
    <3> QED
      BY <3>1, <3>2, <3>4
  <2>10. PICK B : B = A \cup {a}
    OBVIOUS
  <2>11. \A q \in Page : Offsets(B, q) = IF q = s THEN Offsets(A, q) \cup {0} ELSE Offsets(A, q)
    <3>1. PICK z \in Offset : z = 0
      BY <2>4, FirstByte
    <3>2. OneMore(A \cup {Addr(s, z)}, A, s, z)
      BY <2>4, OffsetsChange, Zenon
    <3>3. OneMore(B, A, s, z)
      BY <2>8, <2>10, <3>1, <3>2, Zenon
    <3> QED
      BY <3>1, <3>3 DEF OneMore
  <2>12. ASSUME NEW q \in s .. s + n - 1 PROVE PageOK(g, B, NULL, q)
    <3>1. q \in Page /\ Offsets(B, q) = (IF q = s THEN {0} ELSE {}) /\ ~ (q < MetaPages)
      BY <2>5, <2>11, <2>12
    <3>2. IsLarge(g, q) /\ g.page[q].count = IF q = s THEN n ELSE 0
      BY <2>7, <2>12 DEF IsLarge
    <3>3. CASE q = s
      <4>1. \A t \in q + 1 .. q + n - 1 : IsLarge(g, t) /\ g.page[t].count = 0
        BY <2>4, <2>7, <3>3 DEF IsLarge
      <4>2. RunOK(g, q)
        BY <2>3, <3>2, <3>3, <4>1 DEF RunOK
      <4> QED
        BY <2>3, <3>1, <3>2, <3>3, <4>2 DEF PageOK, IsLarge
    <3>4. CASE q # s
      <4>1. s \in s .. s + n - 1
        BY <2>3, <2>4
      <4>2. ~ (s < MetaPages) /\ IsLarge(g, s) /\ g.page[s].count = n
        BY <2>5, <2>7, <4>1 DEF IsLarge
      <4>3. MetaPages <= s
        BY <2>4, <4>2, MetaPagesIs
      <4>4. s < q /\ q < s + n
        BY <2>4, <2>12, <3>4
      <4>5. RunOK(g, q)
        BY <2>4, <3>2, <3>4, <4>2, <4>3, <4>4 DEF RunOK
      <4> QED
        BY <3>1, <3>2, <3>4, <4>5 DEF PageOK, IsLarge
    <3> QED
      BY <3>3, <3>4
  <2>13. ASSUME NEW q \in Page, q \notin s .. s + n - 1 PROVE PageOK(g, B, NULL, q)
    <3>1. SamePage(g, h, q) /\ Offsets(B, q) = Offsets(A, q) /\ PageOK(h, A, NULL, q) /\ q \in Nat
      <4>1. q # s
        BY <2>3, <2>4, <2>13
      <4> QED
        BY <2>1, <2>4, <2>7, <2>11, <2>13, <4>1 DEF SamePage
    <3>2. ASSUME IsLarge(h, q), MetaPages <= q PROVE RunOK(g, q)
      <4>1. RunOK(h, q)
        BY <3>1, <3>2 DEF PageOK
      <4>2. \A t \in Page : IsLarge(h, t) => g.page[t] = h.page[t]
        BY <2>5, <2>7 DEF IsLarge
      <4>3. PICK k \in Nat : k = h.page[q].count
        <5>1. h.page[q] \in PageInfo
          BY <2>1, Parts
        <5> QED
          BY <2>4, <5>1 DEF PageInfo
      <4>4. g.page[q].count = k
        BY <3>1, <4>3 DEF SamePage
      <4>5. CASE k > 0
        <5>1. q + k <= TotalPages /\ \A t \in q + 1 .. q + k - 1 : IsLarge(h, t) /\ h.page[t].count = 0
          BY <4>1, <4>3, <4>5 DEF RunOK
        <5>2. \A t \in q + 1 .. q + k - 1 : t \in Page
          BY <2>4, <3>1, <5>1
        <5>3. \A t \in q + 1 .. q + k - 1 : IsLarge(g, t) /\ g.page[t].count = 0
          BY <4>2, <5>1, <5>2 DEF IsLarge
        <5> QED
          BY <4>4, <4>5, <5>1, <5>3 DEF RunOK
      <4>6. CASE ~ (k > 0)
        <5>1. PICK t \in Page : MetaPages <= t /\ t < q /\ q < t + h.page[t].count /\ IsLarge(h, t)
          BY <4>1, <4>3, <4>6 DEF RunOK
        <5>2. g.page[t] = h.page[t]
          BY <4>2, <5>1
        <5> QED
          BY <4>4, <4>6, <5>1, <5>2 DEF RunOK, IsLarge
      <4> QED
        BY <4>5, <4>6
    <3> QED
      BY <3>1, <3>2, PageStays
  <2>14. ListsAre(g, Members(g))
    <3>1. \A q \in Page : g.page[q].type = "SLAB" <=> h.page[q].type = "SLAB"
      BY <2>5, <2>7
    <3> QED
      BY <2>1, <2>7, <3>1, SlabsStay
  <2>15. HeapOK(g, B, NULL)
    BY <2>1, <2>7, <2>9, <2>10, <2>12, <2>13, <2>14 DEF HeapOK
  <2>16. SameRoom(g, h, A)
    <3>1. \A q \in Page : Offsets(A, q) # {} => g.page[q] = h.page[q] /\ g.slab[q].cache = h.slab[q].cache
      BY <2>5, <2>7
    <3> QED
      BY <2>1, <3>1, RoomStays
  <2>17. size <= Capacity(g, a)
    <3>1. s \in s .. s + n - 1 /\ 0 \in Offset
      BY <2>3, <2>4, FirstByte
    <3>2. g.page[s].type = "LARGE" /\ g.page[s].count = n
      BY <2>7, <3>1
    <3>3. Capacity(g, Addr(s, 0)) = n * PageSize
      BY <2>4, <3>1, <3>2, CapacityIs
    <3> QED
      BY <1>1, <2>3, <2>8, <3>3
  <2>18. r.heap = g /\ r.ptr = a
    BY <1>5, <1>7, <2>9
  <2>19. Allocated(r, h, A, size)
    BY <2>9, <2>10, <2>15, <2>16, <2>17, <2>18 DEF Allocated
  <2> QED
    BY <1>4, <2>19
<1> QED
  BY <1>6, <1>7

\* Every allocation keeps the heap as it should be.
LEMMA AllocOK ==
  ASSUME NEW h, NEW A, HeapOK(h, A, NULL), NEW size \in 0 .. Word - 1
  PROVE  Allocated(Alloc(h, size), h, A, size)
<1>1. size \in Nat
  BY HeapSizes
<1>2. CASE size = 0
  BY <1>2 DEF Alloc, Allocated
<1>3. CASE size # 0 /\ size <= MaxSlabSize
  <2>1. Alloc(h, size) = cache_alloc(h, SizeClass(size))
    BY <1>3 DEF Alloc
  <2>2. PICK c \in Class : c = SizeClass(size) /\ size <= Sizes[c]
    BY <1>1, <1>3, SizeClassIs
  <2>3. Allocated(cache_alloc(h, c), h, A, size)
    BY <1>1, <2>2, CacheAllocOK
  <2> QED
    BY <2>1, <2>2, <2>3
<1>4. CASE size # 0 /\ ~ (size <= MaxSlabSize)
  <2>1. Alloc(h, size) = LargeAlloc(h, size)
    BY <1>4 DEF Alloc
  <2> QED
    BY <2>1, LargeAllocOK
<1> QED
  BY <1>2, <1>3, <1>4
------------------------------------------------------------------------------
\* u is h with the object o of page p free again.
Put(h, p, o, u) == u = PutBack(h, p, o)

\* What the rest of cache_free does with the slab.
Resettled(u, c, p, was_full, g) ==
  g = IF u.slab[p].in_use = 0
      THEN WithSlab(free_pages_backend(Unlink(u, IF was_full THEN "full" ELSE "partial", c, p),
                                       page_idx_to_virt(p)), p, NoSlab)
      ELSE IF was_full THEN LinkFirst(Unlink(u, "full", c, p), "partial", c, p)
      ELSE u

\* An emptied slab is unlinked, and its page is free.
LEMMA EmptiedOK ==
  ASSUME NEW h, NEW u \in HeapShape, NEW p \in Page, NEW c \in Class, NEW l \in ListName,
         ListsAre(u, Members(h)), p \in Members(h)[l][c],
         \A q \in Page \ {p} : SamePage(u, h, q),
         u.page[p].count = 1,
         NEW g, g = WithSlab(free_pages_backend(Unlink(u, l, c, p), page_idx_to_virt(p)), p, NoSlab)
  PROVE  /\ g \in HeapShape /\ g.page[p].type = "FREE" /\ \A q \in Page \ {p} : SamePage(g, h, q)
         /\ ListsAre(g, Members(g))
<1>1. PICK v : v = Unlink(u, l, c, p)
  OBVIOUS
<1>2. SameObjects(v, u) /\ \E E : ListsAre(v, E) /\ Without(E, Members(h), p)
  BY <1>1, Removed
<1>3. PICK E : ListsAre(v, E) /\ Without(E, Members(h), p)
  BY <1>2
<1>4. v \in HeapShape /\ v.page[p].count = 1 /\ \A q \in Page \ {p} : SamePage(v, h, q)
  BY <1>2 DEF SameObjects, SamePage
<1>5. PICK a : a = page_idx_to_virt(p)
  OBVIOUS
<1>6. PICK w : w = free_pages_backend(v, a)
  OBVIOUS
<1>7. /\ w \in HeapShape /\ w.slab = v.slab /\ w.lists = v.lists
      /\ \A q \in Page : w.page[q] = IF q = p THEN FREE ELSE v.page[q]
  <2>1. p .. p + v.page[p].count - 1 = {p}
    BY <1>4, HeapSizes
  <2> QED
    BY <1>4, <1>5, <1>6, <2>1, FreedIs
<1>8. NoSlab \in SlabInfo
  <2>1. NULL \in Link /\ 0 \in 0 .. Len(Sizes) /\ <<>> \in Seq(0 .. PageSize - 1)
    BY HeapSizes DEF Link
  <2> QED
    BY <2>1 DEF NoSlab, SlabInfo
<1>9. g = WithSlab(w, p, NoSlab)
  BY <1>1, <1>5, <1>6
<1>10. /\ g \in HeapShape /\ g.page = w.page /\ g.lists = w.lists
       /\ \A q \in Page : g.slab[q] = IF q = p THEN NoSlab ELSE w.slab[q]
  BY <1>7, <1>8, <1>9, WithSlabIs
<1>11. g.page[p].type = "FREE"
  BY <1>7, <1>10 DEF FREE
<1>12. \A q \in Page \ {p} : SamePage(g, h, q)
  BY <1>4, <1>7, <1>10 DEF SamePage
<1>13. ListsAre(g, E)
  <2>1. g.lists = v.lists
    BY <1>7, <1>10
  <2>2. \A k \in ListName, d \in Class, q \in Page :
          q \in E[k][d] => g.slab[q].next = v.slab[q].next /\ g.slab[q].prev = v.slab[q].prev
    BY <1>3, <1>7, <1>10 DEF Without
  <2> QED
    BY <1>3, <2>1, <2>2, ListsStay
<1>14. ASSUME NEW k \in ListName, NEW d \in Class PROVE Members(g)[k][d] = E[k][d]
  <2>1. Members(g)[k][d] = Belongs(g, k, d) /\ Members(h)[k][d] = Belongs(h, k, d)
    BY MembersAre
  <2>2. Belongs(g, k, d) \ {p} = Belongs(h, k, d) \ {p}
    BY <1>12, OthersBelong
  <2>3. p \notin Belongs(g, k, d)
    BY <1>11 DEF Belongs
  <2>4. E[k][d] = Members(h)[k][d] \ {p}
    BY <1>3 DEF Without
  <2>5. E[k][d] = Belongs(h, k, d) \ {p}
    BY <2>1, <2>4, Zenon
  <2> QED
    BY <2>1, <2>2, <2>3, <2>5
<1>15. ListsAre(g, Members(g))
  BY <1>13, <1>14, ListsSame, MembersAre
<1> QED
  BY <1>10, <1>11, <1>12, <1>15

\* The slab after its object o is put back.
LEMMA PutOK ==
  ASSUME NEW h, NEW A, HeapOK(h, A, NULL), NEW p \in Page, NEW o \in Offsets(A, p),
         h.page[p].type = "SLAB", NEW u, Put(h, p, o, u)
  PROVE  /\ u \in HeapShape /\ u.page = h.page /\ ListsAre(u, Members(h))
         /\ \A q \in Page \ {p} : SamePage(u, h, q)
         /\ \A q \in Page : u.slab[q].cache = h.slab[q].cache
         /\ u.slab[p].free_list # <<>> /\ u.slab[p].in_use \in Nat
         /\ SlabOK(u.slab[p], Offsets(A, p) \ {o})
<1>1. h \in HeapShape /\ PageOK(h, A, NULL, p) /\ ListsAre(h, Members(h))
  BY DEF HeapOK
<1>2. PICK s \in SlabInfo : s = h.slab[p]
  BY <1>1, Parts
<1>3. PICK T : T = Offsets(A, p)
  OBVIOUS
<1>4. SlabOK(s, T) /\ o \in T
  BY <1>1, <1>2, <1>3 DEF PageOK
<1>5. PICK f, n : f = <<o>> \o s.free_list /\ n = s.in_use - 1
  OBVIOUS
<1>6. PICK r : r = [cache |-> s.cache, free_list |-> f, in_use |-> n]
  OBVIOUS
<1>7. SlabOK(r, T \ {o}) /\ n \in Nat /\ f \in Seq(Offset) /\ f # <<>>
  <2>1. r.cache = s.cache /\ r.free_list = <<o>> \o s.free_list /\ r.in_use = s.in_use - 1
    BY <1>5, <1>6
  <2>2. /\ SlabOK(r, T \ {o}) /\ s.in_use - 1 \in Nat
        /\ <<o>> \o s.free_list \in Seq(Offset) /\ <<o>> \o s.free_list # <<>>
    BY <1>4, <2>1, PutFirst
  <2> QED
    BY <1>5, <2>2, Zenon
<1>8. u = WithObjects(h, p, f, n)
  BY <1>2, <1>5 DEF Put, PutBack
<1>9. ObjectsSet(u, h, p, f, n)
  BY <1>1, <1>7, <1>8, WithObjectsIs
<1>10. /\ u.lists = h.lists
       /\ \A q \in Page : u.slab[q].next = h.slab[q].next /\ u.slab[q].prev = h.slab[q].prev
  BY <1>9 DEF ObjectsSet
<1>11. ListsAre(u, Members(h))
  BY <1>1, <1>10, ListsStay
<1>12. /\ u \in HeapShape /\ u.page = h.page /\ \A q \in Page \ {p} : SamePage(u, h, q)
       /\ \A q \in Page : u.slab[q].cache = h.slab[q].cache
       /\ u.slab[p].free_list = f /\ u.slab[p].in_use = n
  BY <1>9 DEF ObjectsSet
<1>13. SlabOK(u.slab[p], T \ {o})
  <2>1. u.slab[p].cache = r.cache /\ u.slab[p].free_list = r.free_list /\ u.slab[p].in_use = r.in_use
    BY <1>2, <1>6, <1>12
  <2> QED
    BY <1>7, <2>1 DEF SlabOK
<1> QED
  BY <1>3, <1>7, <1>11, <1>12, <1>13
------------------------------------------------------------------------------
\* What free of the address a must do when A is handed out.
Released(g, h, A, a) == HeapOK(g, A \ {a}, NULL) /\ SameRoom(g, h, A \ {a})

\* Freeing an object, whether the slab becomes empty, stops being full or stays
\* where it is.
LEMMA ResettledOK ==
  ASSUME NEW h, NEW A, HeapOK(h, A, NULL), NEW p \in Page, NEW o \in Offsets(A, p),
         h.page[p].type = "SLAB", NEW u, Put(h, p, o, u), NEW c, c = h.slab[p].cache,
         NEW w \in BOOLEAN, w <=> h.slab[p].free_list = <<>>, NEW g, Resettled(u, c, p, w, g),
         NEW B \in SUBSET A, OneLess(B, A, p, o)
  PROVE  HeapOK(g, B, NULL) /\ SameRoom(g, h, B)
<1>1. /\ A \in SUBSET (0 .. HeapEnd - 1) /\ PageOK(h, A, NULL, p) /\ ~ IsLarge(h, p) /\ o \in Offset
      /\ "full" \in ListName /\ "partial" \in ListName
  BY DEF HeapOK, IsLarge, Offsets, ListName
<1>2. h.page[p].count = 1 /\ c \in Class /\ ~ (p < MetaPages)
  BY <1>1 DEF PageOK, SlabOK
<1>3. /\ u \in HeapShape /\ u.page = h.page /\ ListsAre(u, Members(h))
      /\ \A q \in Page \ {p} : SamePage(u, h, q)
      /\ \A q \in Page : u.slab[q].cache = h.slab[q].cache
      /\ u.slab[p].free_list # <<>> /\ u.slab[p].in_use \in Nat
      /\ SlabOK(u.slab[p], Offsets(A, p) \ {o})
  BY PutOK
<1>5. /\ B \in SUBSET (0 .. HeapEnd - 1) /\ Offsets(B, p) = Offsets(A, p) \ {o}
      /\ \A q \in Page \ {p} : Offsets(B, q) = Offsets(A, q)
  BY <1>1 DEF OneLess
<1>6. PICK l \in ListName : l = IF w THEN "full" ELSE "partial"
  BY <1>1
<1>7. p \in Members(h)[l][c]
  <2>1. p \in Belongs(h, l, c)
    BY <1>6 DEF Belongs
  <2> QED
    BY <1>2, <2>1, MembersAre
<1>8. CASE u.slab[p].in_use = 0
  <2>1. g = WithSlab(free_pages_backend(Unlink(u, l, c, p), page_idx_to_virt(p)), p, NoSlab)
    BY <1>6, <1>8 DEF Resettled
  <2>2. u.page[p].count = 1
    BY <1>2, <1>3
  <2>3. /\ g \in HeapShape /\ g.page[p].type = "FREE" /\ \A q \in Page \ {p} : SamePage(g, h, q)
        /\ ListsAre(g, Members(g))
    BY <1>2, <1>3, <1>7, <2>1, <2>2, EmptiedOK
  <2>4. Offsets(B, p) = {}
    <3>1. PICK T : T = Offsets(B, p)
      OBVIOUS
    <3>2. Cardinality(T) = 0
      BY <1>3, <1>5, <1>8, <3>1 DEF SlabOK
    <3>3. IsFiniteSet(T)
      <4>1. T \in SUBSET Offset
        BY <3>1 DEF Offsets
      <4> QED
        BY <4>1, OffsetsFinite
    <3> QED
      BY <3>1, <3>2, <3>3, FS_EmptySet
  <2>5. PageOK(g, B, NULL, p)
    BY <1>2, <2>3, <2>4 DEF PageOK, IsLarge
  <2>6. HeapOK(g, B, NULL)
    BY <1>1, <1>5, <2>3, <2>5, OnePage
  <2>7. \A q \in Page : Offsets(B, q) # {} => g.page[q] = h.page[q] /\ g.slab[q].cache = h.slab[q].cache
    BY <2>3, <2>4 DEF SamePage
  <2> QED
    BY <1>5, <2>6, <2>7, RoomStays
<1>9. CASE u.slab[p].in_use # 0
  <2>1. SameObjects(g, u) /\ ListsAre(g, Members(g))
    <3>1. CASE w
      <4>1. g = LinkFirst(Unlink(u, "full", c, p), "partial", c, p)
        BY <1>9, <3>1 DEF Resettled
      <4>2. p \in Members(h)["full"][c] /\ "full" # "partial"
        BY <1>6, <1>7, <3>1
      <4>3. SameObjects(g, u) /\ \E G : ListsAre(g, G) /\ Relisted(G, Members(h), p, "partial", c)
        BY <1>1, <1>2, <1>3, <4>1, <4>2, Moved
      <4>4. PICK G : ListsAre(g, G) /\ Relisted(G, Members(h), p, "partial", c)
        BY <4>3
      <4>5. \A q \in Page \ {p} : SamePage(g, h, q)
        BY <1>3, <4>3 DEF SameObjects, SamePage
      <4>6. g.page[p].type = "SLAB" /\ g.slab[p].cache = c
            /\ ((g.slab[p].free_list = <<>>) <=> ("partial" = "full"))
        BY <1>3, <4>3 DEF SameObjects
      <4> QED
        BY <1>1, <1>2, <4>3, <4>4, <4>5, <4>6, ListedAgain
    <3>2. CASE ~ w
      <4>1. g = u /\ SameObjects(g, u)
        BY <1>3, <1>9, <3>2 DEF Resettled, SameObjects
      <4>2. ASSUME NEW k \in ListName, NEW d \in Class PROVE Members(u)[k][d] = Members(h)[k][d]
        <5>1. Belongs(u, k, d) = Belongs(h, k, d)
          BY <1>3, <3>2 DEF Belongs, SamePage
        <5> QED
          BY <5>1, MembersAre
      <4>3. ListsAre(u, Members(u))
        BY <1>3, <4>2, ListsSame, MembersAre
      <4> QED
        BY <4>1, <4>3
    <3> QED
      BY <3>1, <3>2
  <2>2. /\ g \in HeapShape /\ g.page = h.page /\ \A q \in Page \ {p} : SamePage(g, h, q)
        /\ \A q \in Page : g.slab[q].cache = h.slab[q].cache
    BY <1>3, <2>1 DEF SameObjects, SamePage
  <2>3. SlabOK(g.slab[p], Offsets(B, p)) /\ g.slab[p].in_use > 0
    <3>1. PICK T : T = Offsets(B, p)
      OBVIOUS
    <3>2. SlabOK(u.slab[p], T)
      BY <1>3, <1>5, <3>1
    <3>3. SlabOK(g.slab[p], T)
      BY <2>1, <3>2 DEF SlabOK, SameObjects
    <3> QED
      BY <1>3, <1>9, <2>1, <3>1, <3>3 DEF SameObjects
  <2>4. PageOK(g, B, NULL, p)
    BY <1>2, <2>2, <2>3 DEF PageOK, IsLarge
  <2>5. HeapOK(g, B, NULL)
    BY <1>1, <1>5, <2>1, <2>2, <2>4, OnePage
  <2> QED
    BY <1>5, <2>2, <2>5, RoomStays
<1> QED
  BY <1>8, <1>9

\* A large block is freed.
LEMMA LargeFreeOK ==
  ASSUME NEW h, NEW A, HeapOK(h, A, NULL), NEW p \in Page, NEW o \in Offsets(A, p), IsLarge(h, p),
         NEW a, a = Addr(p, o), NEW g, g = free_pages_backend(h, a), NEW B, B = A \ {a}
  PROVE  HeapOK(g, B, NULL) /\ SameRoom(g, h, B)
<1>1. /\ h \in HeapShape /\ A \in SUBSET (0 .. HeapEnd - 1) /\ ListsAre(h, Members(h))
      /\ \A q \in Page : PageOK(h, A, NULL, q) /\ q \in Nat
      /\ Page = 0 .. TotalPages - 1 /\ TotalPages \in Nat
  BY HeapSizes DEF HeapOK
<1>2. ~ (p < MetaPages) /\ MetaPages <= p
  <2>1. ~ (p < MetaPages)
    BY <1>1 DEF PageOK
  <2> QED
    BY <1>1, <2>1, MetaPagesIs
<1>3. RunOK(h, p) /\ Offsets(A, p) = IF h.page[p].count > 0 THEN {0} ELSE {}
  BY <1>1, <1>2 DEF PageOK
<1>4. PICK n \in Nat : n = h.page[p].count
  <2>1. h.page[p] \in PageInfo
    BY <1>1, Parts
  <2> QED
    BY <1>1, <2>1 DEF PageInfo
<1>5. n > 0 /\ o = 0 /\ Offsets(A, p) = {0}
  BY <1>3, <1>4
<1>6. p + n <= TotalPages /\ \A q \in p + 1 .. p + n - 1 : IsLarge(h, q) /\ h.page[q].count = 0
  BY <1>3, <1>4, <1>5 DEF RunOK
<1>7. \A q \in p .. p + n - 1 : q \in Page /\ IsLarge(h, q) /\ ~ (q < MetaPages)
                              /\ (q # p => h.page[q].count = 0 /\ Offsets(A, q) = {})
  <2> SUFFICES ASSUME NEW q \in p .. p + n - 1
               PROVE  q \in Page /\ IsLarge(h, q) /\ ~ (q < MetaPages)
                      /\ (q # p => h.page[q].count = 0 /\ Offsets(A, q) = {})
    OBVIOUS
  <2>1. q \in Page /\ ~ (q < MetaPages) /\ MetaPages <= q
    BY <1>1, <1>2, <1>6, MetaPagesIs
  <2>2. CASE q = p
    BY <2>1, <2>2
  <2>3. CASE q # p
    <3>1. q \in p + 1 .. p + n - 1
      BY <1>1, <2>3
    <3>2. IsLarge(h, q) /\ h.page[q].count = 0
      BY <1>6, <3>1
    <3>3. Offsets(A, q) = {}
      BY <1>1, <2>1, <3>2 DEF PageOK
    <3> QED
      BY <2>1, <3>2, <3>3
  <2> QED
    BY <2>2, <2>3
<1>8. /\ g \in HeapShape /\ g.slab = h.slab /\ g.lists = h.lists
      /\ \A q \in Page : g.page[q] = IF q \in p .. p + n - 1 THEN FREE ELSE h.page[q]
  <2>1. a = page_idx_to_virt(p)
    BY <1>5, FirstByte
  <2> QED
    BY <1>1, <1>4, <2>1, FreedIs
<1>9. /\ B \in SUBSET (0 .. HeapEnd - 1) /\ Offsets(B, p) = {}
      /\ \A q \in Page \ {p} : Offsets(B, q) = Offsets(A, q)
  <2>1. o \in Offset
    BY DEF Offsets
  <2>2. OneLess(A \ {Addr(p, o)}, A, p, o)
    BY <2>1, OffsetsChange, Zenon
  <2>3. OneLess(B, A, p, o)
    BY <2>2, Zenon
  <2> QED
    BY <1>1, <1>5, <2>3 DEF OneLess
<1>10. ASSUME NEW q \in p .. p + n - 1 PROVE PageOK(g, B, NULL, q)
  <2>1. q \in Page /\ Offsets(B, q) = {} /\ ~ (q < MetaPages)
    BY <1>7, <1>9
  <2>2. g.page[q].type = "FREE"
    BY <1>8, <2>1 DEF FREE
  <2> QED
    BY <2>1, <2>2 DEF PageOK, IsLarge
<1>11. ASSUME NEW q \in Page, q \notin p .. p + n - 1 PROVE PageOK(g, B, NULL, q)
  <2>1. SamePage(g, h, q) /\ q # p /\ Offsets(B, q) = Offsets(A, q) /\ PageOK(h, A, NULL, q)
    <3>1. q # p
      BY <1>1, <1>5, <1>11
    <3> QED
      BY <1>1, <1>8, <1>9, <1>11, <3>1 DEF SamePage
  <2>2. ASSUME IsLarge(h, q), MetaPages <= q PROVE RunOK(g, q)
    <3>1. RunOK(h, q)
      BY <2>1, <2>2 DEF PageOK
    <3>2. PICK k \in Nat : k = h.page[q].count
      <4>1. h.page[q] \in PageInfo
        BY <1>1, Parts
      <4> QED
        BY <1>1, <4>1 DEF PageInfo
    <3>3. g.page[q].count = k
      BY <2>1, <3>2 DEF SamePage
    <3>4. CASE k > 0
      <4>1. q + k <= TotalPages /\ \A t \in q + 1 .. q + k - 1 : IsLarge(h, t) /\ h.page[t].count = 0
        BY <3>1, <3>2, <3>4 DEF RunOK
      <4>2. ASSUME NEW t \in q + 1 .. q + k - 1 PROVE IsLarge(g, t) /\ g.page[t].count = 0
        <5>1. t \in Page /\ IsLarge(h, t) /\ h.page[t].count = 0
          BY <1>1, <4>1
        <5>2. t \notin p .. p + n - 1
          <6> SUFFICES ASSUME t \in p .. p + n - 1 PROVE FALSE
            OBVIOUS
          <6>1. q < p
            BY <1>1, <1>11
          <6>2. p \in q + 1 .. q + k - 1
            BY <1>1, <6>1
          <6>3. h.page[p].count = 0
            BY <4>1, <6>2
          <6> QED
            BY <1>4, <1>5, <6>3
        <5> QED
          BY <1>8, <5>1, <5>2 DEF IsLarge
      <4> QED
        BY <3>3, <3>4, <4>1, <4>2 DEF RunOK
    <3>5. CASE ~ (k > 0)
      <4>1. PICK t \in Page : MetaPages <= t /\ t < q /\ q < t + h.page[t].count /\ IsLarge(h, t)
        BY <3>1, <3>2, <3>5 DEF RunOK
      <4>2. PICK m \in Nat : m = h.page[t].count
        <5>1. h.page[t] \in PageInfo
          BY <1>1, Parts
        <5> QED
          BY <1>1, <5>1 DEF PageInfo
      <4>3. t \notin p .. p + n - 1
        <5> SUFFICES ASSUME t \in p .. p + n - 1 PROVE FALSE
          OBVIOUS
        <5>1. m > 0
          BY <1>1, <4>1, <4>2
        <5>2. t = p
          BY <1>7, <4>2, <5>1
        <5>3. m = n
          BY <1>4, <4>2, <5>2
        <5> QED
          BY <1>1, <1>11, <4>1, <4>2, <5>2, <5>3
      <4>4. g.page[t] = h.page[t]
        BY <1>8, <4>3
      <4> QED
        BY <3>3, <3>5, <4>1, <4>4 DEF RunOK, IsLarge
    <3> QED
      BY <3>4, <3>5
  <2> QED
    BY <2>1, <2>2, PageStays
<1>12. ListsAre(g, Members(g))
  <2>1. \A q \in Page : g.page[q].type = "SLAB" <=> h.page[q].type = "SLAB"
    BY <1>7, <1>8 DEF FREE, IsLarge
  <2> QED
    BY <1>1, <1>8, <2>1, SlabsStay
<1>13. HeapOK(g, B, NULL)
  BY <1>8, <1>9, <1>10, <1>11, <1>12 DEF HeapOK
<1>14. SameRoom(g, h, B)
  <2>1. \A q \in Page : Offsets(B, q) # {} => g.page[q] = h.page[q] /\ g.slab[q].cache = h.slab[q].cache
    BY <1>7, <1>8, <1>9
  <2> QED
    BY <1>9, <2>1, RoomStays
<1> QED
  BY <1>13, <1>14

\* Every free of a block that is handed out keeps the heap as it should be.
LEMMA ReleaseOK ==
  ASSUME NEW h, NEW A, HeapOK(h, A, NULL), NEW a \in A
  PROVE  Released(Release(h, a), h, A, a)
<1>1. h \in HeapShape /\ A \in SUBSET (0 .. HeapEnd - 1) /\ \A q \in Page : PageOK(h, A, NULL, q)
  BY DEF HeapOK
<1>2. PICK p \in Page, o \in Offset : a = Addr(p, o)
  BY <1>1, AddrOf
<1>3. o \in Offsets(A, p) /\ virt_to_page_idx(a) = p /\ a % PageSize = o
  BY <1>2, AddrIs DEF Offsets
<1>4. PICK g : g = Release(h, a)
  OBVIOUS
<1>5. PICK B : B = A \ {a}
  OBVIOUS
<1>6. h.page[p].type \in {"FREE", "SLAB", "LARGE"} /\ h.page[p].type # "FREE"
  <2>1. h.page[p] \in PageInfo
    BY <1>1, Parts
  <2>2. h.page[p].type # "FREE"
    BY <1>1, <1>3 DEF PageOK
  <2> QED
    BY <2>1, <2>2 DEF PageInfo
<1>7. CASE h.page[p].type = "SLAB"
  <2>1. PICK c : c = h.slab[p].cache
    OBVIOUS
  <2>2. g = cache_free(h, c, a)
    BY <1>3, <1>4, <1>7, <2>1 DEF Release
  <2>3. PICK w \in BOOLEAN : w <=> h.slab[p].free_list = <<>>
    OBVIOUS
  <2>4. PICK u : Put(h, p, o, u)
    BY DEF Put
  <2>5. Resettled(u, c, p, w, g)
    BY <1>3, <2>2, <2>3, <2>4 DEF Resettled, cache_free, Put
  <2>6. B \in SUBSET A /\ OneLess(B, A, p, o)
    <3>1. OneLess(A \ {Addr(p, o)}, A, p, o)
      BY OffsetsChange, Zenon
    <3>2. OneLess(B, A, p, o)
      BY <1>2, <1>5, <3>1, Zenon
    <3> QED
      BY <1>5, <3>2
  <2>7. HeapOK(g, B, NULL) /\ SameRoom(g, h, B)
    BY <1>3, <1>7, <2>1, <2>3, <2>4, <2>5, <2>6, ResettledOK
  <2> QED
    BY <1>4, <1>5, <2>7 DEF Released
<1>8. CASE h.page[p].type = "LARGE"
  <2>1. g = free_pages_backend(h, a) /\ IsLarge(h, p)
    BY <1>3, <1>4, <1>8 DEF Release, IsLarge
  <2>2. HeapOK(g, B, NULL) /\ SameRoom(g, h, B)
    BY <1>2, <1>3, <1>5, <2>1, LargeFreeOK
  <2> QED
    BY <1>4, <1>5, <2>2 DEF Released
<1> QED
  BY <1>6, <1>7, <1>8
------------------------------------------------------------------------------
\* The room of the block at a is in the n pages from p on, which no other
\* block is in unless p is a slab.
Extent(h, A, a, p, n) ==
  /\ p \in Page /\ n \in Nat \ {0} /\ MetaPages <= p /\ p + n <= TotalPages
  /\ a \in Nat /\ Capacity(h, a) \in Nat \ {0}
  /\ virt_to_page_idx(a) = p /\ virt_to_page_idx(a + Capacity(h, a) - 1) = p + n - 1
  /\ page_idx_to_virt(p) <= a /\ a + Capacity(h, a) <= page_idx_to_virt(p + n)
  /\ h.page[p].type = "SLAB" => n = 1 /\ page_idx_to_virt(p) + HeaderSize <= a
  /\ h.page[p].type # "SLAB" =>
       /\ h.page[p].count = n /\ a = page_idx_to_virt(p)
       /\ \A q \in p .. p + n - 1 : IsLarge(h, q) /\ (q # p => Offsets(A, q) = {})

\* Every block has an extent.
LEMMA ExtentIs ==
  ASSUME NEW h, NEW A, HeapOK(h, A, NULL), NEW p \in Page, NEW o \in Offsets(A, p)
  PROVE  \E n \in Nat : Extent(h, A, Addr(p, o), p, n)
<1>1. /\ h \in HeapShape /\ \A q \in Page : PageOK(h, A, NULL, q) /\ q \in Nat
      /\ Page = 0 .. TotalPages - 1 /\ TotalPages \in Nat /\ PageSize \in Nat \ {0}
      /\ HeaderSize \in Nat
  BY HeapSizes DEF HeapOK
<1>2. o \in Offset /\ o \in 0 .. PageSize - 1
  BY DEF Offsets, Offset
<1>3. h.page[p].type # "FREE" /\ h.page[p].type \in {"FREE", "SLAB", "LARGE"} /\ ~ (p < MetaPages)
  <2>1. h.page[p] \in PageInfo
    BY <1>1, Parts
  <2>2. h.page[p].type # "FREE" /\ ~ (p < MetaPages)
    BY <1>1 DEF PageOK
  <2> QED
    BY <2>1, <2>2 DEF PageInfo
<1>4. MetaPages <= p
  BY <1>1, <1>3, MetaPagesIs
<1>5. PICK v \in Nat : v = page_idx_to_virt(p)
  BY FirstByte
<1>6. PICK a : a = Addr(p, o)
  OBVIOUS
<1>7. a = v + o /\ a \in Nat /\ virt_to_page_idx(a) = p
  BY <1>2, <1>5, <1>6, AddrIs DEF Addr
<1>8. CASE h.page[p].type = "SLAB"
  <2>1. PICK c \in Class : c = h.slab[p].cache /\ o \in Slots(c)
    BY <1>1, <1>8 DEF PageOK, SlabOK
  <2>2. PICK k \in Nat \ {0} : k = Sizes[c]
    BY HeapSizes
  <2>3. HeaderSize <= o /\ o + k <= PageSize
    BY <2>1, <2>2, SlotsAre
  <2>4. Capacity(h, a) = k
    BY <1>2, <1>6, <1>8, <2>1, <2>2, CapacityIs
  <2>5. PICK z \in Offset : z = o + k - 1 /\ a + k - 1 = v + z
    <3>1. o + k - 1 \in Offset
      BY <1>1, <1>2, <2>3 DEF Offset
    <3>2. a + k - 1 = v + (o + k - 1)
      BY <1>2, <1>7
    <3> QED
      BY <3>1, <3>2
  <2>6. virt_to_page_idx(a + k - 1) = p
    <3>1. v + z = Addr(p, z)
      BY <1>5 DEF Addr
    <3> QED
      BY <2>5, <3>1, AddrIs
  <2>7. page_idx_to_virt(p + 1) \in Nat /\ v + PageSize <= page_idx_to_virt(p + 1)
    BY <1>1, <1>5, PagesApart
  <2>8. a + k <= page_idx_to_virt(p + 1)
    BY <1>1, <1>2, <1>7, <2>3, <2>7
  <2>9. p + 1 <= TotalPages /\ p + 1 - 1 = p
    BY <1>1
  <2>10. v + HeaderSize <= a /\ v <= a
    BY <1>1, <1>2, <1>7, <2>3
  <2>11. Extent(h, A, a, p, 1)
    BY <1>4, <1>5, <1>7, <1>8, <2>4, <2>6, <2>8, <2>9, <2>10 DEF Extent
  <2> QED
    BY <1>6, <2>11
<1>9. CASE h.page[p].type = "LARGE"
  <2>1. RunOK(h, p) /\ Offsets(A, p) = IF h.page[p].count > 0 THEN {0} ELSE {}
    BY <1>1, <1>4, <1>9 DEF PageOK, IsLarge
  <2>2. PICK n \in Nat : n = h.page[p].count
    <3>1. h.page[p] \in PageInfo
      BY <1>1, Parts
    <3> QED
      BY <1>1, <3>1 DEF PageInfo
  <2>3. n > 0 /\ o = 0
    BY <2>1, <2>2
  <2>4. p + n <= TotalPages /\ \A q \in p + 1 .. p + n - 1 : IsLarge(h, q) /\ h.page[q].count = 0
    BY <2>1, <2>2, <2>3 DEF RunOK
  <2>5. ASSUME NEW q \in p .. p + n - 1 PROVE IsLarge(h, q) /\ (q # p => Offsets(A, q) = {})
    <3>1. q \in Page /\ MetaPages <= q
      BY <1>1, <1>4, <2>4, MetaPagesIs
    <3>2. CASE q = p
      BY <1>9, <3>2 DEF IsLarge
    <3>3. CASE q # p
      <4>1. q \in p + 1 .. p + n - 1
        BY <1>1, <3>3
      <4>2. IsLarge(h, q) /\ h.page[q].count = 0
        BY <2>4, <4>1
      <4> QED
        BY <1>1, <3>1, <4>2 DEF PageOK
    <3> QED
      BY <3>2, <3>3
  <2>6. PICK m \in Nat \ {0} : m = PageSize
    BY <1>1
  <2>7. v = m * p /\ page_idx_to_virt(p + n) = m * (p + n)
    BY <1>1, <1>5, <2>6 DEF page_idx_to_virt
  <2>8. PICK k \in Nat : k = m * n /\ k = n * m
    OBVIOUS
  <2>9. m * (p + n) = m * p + m * n
    BY <1>1
  <2>10. a = v /\ page_idx_to_virt(p + n) = a + k
    BY <1>1, <1>2, <1>7, <2>3, <2>7, <2>8, <2>9
  <2>11. Capacity(h, a) = k
    BY <1>2, <1>6, <1>9, <2>2, <2>6, <2>8, CapacityIs
  <2>12. PICK j \in Nat : j = n - 1 /\ n = j + 1
    BY <2>3
  <2>13. PICK i \in Nat : i = m * j
    OBVIOUS
  <2>14. k = i + m
    <3>1. m * (j + 1) = m * j + m
      OBVIOUS
    <3> QED
      BY <2>8, <2>12, <2>13, <3>1
  <2>15. p + j \in Page /\ page_idx_to_virt(p + j) = v + i
    <3>1. p + j \in Page
      BY <1>1, <2>4, <2>12
    <3>2. m * (p + j) = m * p + m * j
      BY <1>1
    <3>3. page_idx_to_virt(p + j) = m * (p + j)
      BY <1>1, <2>6 DEF page_idx_to_virt
    <3> QED
      BY <2>7, <2>13, <3>1, <3>2, <3>3
  <2>16. virt_to_page_idx(a + k - 1) = p + j
    <3>1. m - 1 \in Offset /\ a + k - 1 = (v + i) + (m - 1)
      BY <2>6, <2>10, <2>14 DEF Offset
    <3>2. a + k - 1 = Addr(p + j, m - 1)
      BY <2>15, <3>1 DEF Addr
    <3> QED
      BY <2>15, <3>1, <3>2, AddrIs
  <2>17. p + j = p + n - 1 /\ k \in Nat \ {0} /\ n \in Nat \ {0}
    BY <1>1, <2>12, <2>14
  <2>18. v <= a /\ a + k <= page_idx_to_virt(p + n)
    BY <2>10
  <2>19. Extent(h, A, a, p, n)
    BY <1>4, <1>5, <1>7, <1>9, <2>2, <2>4, <2>5, <2>10, <2>11, <2>16, <2>17, <2>18 DEF Extent
  <2> QED
    BY <1>6, <2>19
<1> QED
  BY <1>3, <1>8, <1>9

\* A later page is not one of the pages of the block.
LEMMA Beyond ==
  ASSUME NEW h, NEW A, NEW a, NEW p, NEW n, Extent(h, A, a, p, n), NEW q \in Page, p < q,
         Offsets(A, q) # {} \/ ~ IsLarge(h, q)
  PROVE  a + Capacity(h, a) <= page_idx_to_virt(q)
<1>1. p \in Nat /\ n \in Nat \ {0} /\ q \in Nat
  BY HeapSizes DEF Extent
<1>2. p + n <= q
  <2>1. CASE h.page[p].type = "SLAB"
    <3>1. n = 1
      BY <2>1 DEF Extent
    <3> QED
      BY <1>1, <3>1
  <2>2. CASE h.page[p].type # "SLAB"
    <3>1. q \notin p .. p + n - 1
      BY <1>1, <2>2 DEF Extent
    <3> QED
      BY <1>1, <3>1
  <2> QED
    BY <2>1, <2>2
<1>3. PICK x \in Nat, y \in Nat : x = page_idx_to_virt(p + n) /\ y = page_idx_to_virt(q)
  BY <1>1, HeapSizes DEF page_idx_to_virt
<1>4. x <= y
  <2>1. CASE p + n = q
    BY <1>3, <2>1
  <2>2. CASE p + n < q
    <3>1. x + PageSize <= y
      BY <1>1, <1>3, <2>2, PagesApart
    <3>2. PageSize \in Nat
      BY HeapSizes
    <3> QED
      BY <3>1, <3>2
  <2> QED
    BY <1>1, <1>2, <2>1, <2>2
<1>5. PICK z \in Nat : z = a + Capacity(h, a) /\ z <= x
  BY <1>3 DEF Extent
<1> QED
  BY <1>3, <1>4, <1>5

\* Blocks do not overlap, not even in the room they do not use.
LEMMA Apart ==
  ASSUME NEW h, NEW A, HeapOK(h, A, NULL), NEW a \in A, NEW b \in A, a # b
  PROVE  a + Capacity(h, a) <= b \/ b + Capacity(h, b) <= a
<1>1. A \in SUBSET (0 .. HeapEnd - 1) /\ \A q \in Page : PageOK(h, A, NULL, q)
  BY DEF HeapOK
<1>2. PICK p \in Page, o \in Offset : a = Addr(p, o)
  BY <1>1, AddrOf
<1>3. PICK q \in Page, u \in Offset : b = Addr(q, u)
  BY <1>1, AddrOf
<1>4. o \in Offsets(A, p) /\ u \in Offsets(A, q)
  BY <1>2, <1>3 DEF Offsets
<1>5. PICK n \in Nat : Extent(h, A, a, p, n)
  BY <1>2, <1>4, ExtentIs
<1>6. PICK m \in Nat : Extent(h, A, b, q, m)
  BY <1>3, <1>4, ExtentIs
<1>7. p \in Nat /\ q \in Nat
  BY HeapSizes
<1>8. PICK i \in Nat, j \in Nat, x \in Nat, y \in Nat :
        i = Capacity(h, a) /\ j = Capacity(h, b) /\ x = page_idx_to_virt(p) /\ y = page_idx_to_virt(q)
  BY <1>5, <1>6, FirstByte DEF Extent
<1>9. a \in Nat /\ b \in Nat /\ x <= a /\ y <= b
  BY <1>5, <1>6, <1>8 DEF Extent
<1>10. CASE p < q
  <2>1. a + i <= y
    BY <1>4, <1>5, <1>8, <1>10, Beyond
  <2> QED
    BY <1>8, <1>9, <2>1
<1>11. CASE q < p
  <2>1. b + j <= x
    BY <1>4, <1>6, <1>8, <1>11, Beyond
  <2> QED
    BY <1>8, <1>9, <2>1
<1>12. CASE p = q
  <2>1. h.page[p].type = "SLAB"
    BY <1>5, <1>6, <1>12 DEF Extent
  <2>2. PICK c \in Class : c = h.slab[p].cache /\ Offsets(A, p) \subseteq Slots(c)
    BY <1>1, <2>1 DEF PageOK, SlabOK
  <2>3. PICK k \in Nat : k = Sizes[c]
    BY HeapSizes
  <2>4. i = k /\ j = k
    BY <1>2, <1>3, <1>8, <1>12, <2>1, <2>2, <2>3, CapacityIs
  <2>5. o # u
    BY <1>2, <1>3, <1>12
  <2>6. o + k <= u \/ u + k <= o
    BY <1>4, <1>12, <2>2, <2>3, <2>5, SlotsAre
  <2>7. a = x + o /\ b = x + u /\ o \in Nat /\ u \in Nat
    BY <1>2, <1>3, <1>8, <1>12, HeapSizes DEF Addr, Offset
  <2> QED
    BY <1>8, <2>4, <2>6, <2>7
<1> QED
  BY <1>7, <1>10, <1>11, <1>12
------------------------------------------------------------------------------
\* heap_init establishes the invariant.
LEMMA InitOK == Init => IInv
<1> SUFFICES ASSUME Init PROVE IInv
  OBVIOUS
<1>1. Pointers = {} /\ LiveOK /\ live = {}
  BY DEF Init, Pointers, LiveOK
<1>2. ReallocOK
  BY DEF Init, ReallocOK, ReOK, NotInRealloc
<1>3. \A p \in Page : heap.page[p] = IF p < MetaPages THEN [type |-> "LARGE", count |-> 1] ELSE FREE
  BY DEF Init
<1>4. heap \in HeapShape
  <2>1. NoSlab \in SlabInfo
    <3>1. NULL \in Link /\ 0 \in 0 .. Len(Sizes) /\ <<>> \in Seq(0 .. PageSize - 1)
      BY HeapSizes DEF Link
    <3> QED
      BY <3>1 DEF NoSlab, SlabInfo
  <2>2. FREE \in PageInfo /\ [type |-> "LARGE", count |-> 1] \in PageInfo
    BY HeapSizes DEF FREE, PageInfo
  <2>3. heap.page \in [Page -> PageInfo]
    BY <2>2 DEF Init
  <2>4. heap.slab \in [Page -> SlabInfo]
    BY <2>1 DEF Init
  <2>5. heap.lists \in [ListName -> [Class -> Link]]
    BY DEF Init, Link
  <2>6. heap = [page |-> heap.page, slab |-> heap.slab, lists |-> heap.lists]
    BY DEF Init
  <2> QED
    BY <2>3, <2>4, <2>5, <2>6 DEF HeapShape
<1>5. ASSUME NEW p \in Page PROVE PageOK(heap, {}, NULL, p)
  <2>1. Offsets({}, p) = {}
    BY DEF Offsets
  <2>2. CASE p < MetaPages
    <3>1. IsLarge(heap, p)
      BY <1>3, <2>2 DEF IsLarge
    <3>2. p \in Nat
      BY HeapSizes
    <3>3. ~ (MetaPages <= p)
      BY <2>2, <3>2, MetaPagesIs
    <3> QED
      BY <2>1, <2>2, <3>1, <3>3 DEF PageOK, IsLarge
  <2>3. CASE ~ (p < MetaPages)
    <3>1. heap.page[p].type = "FREE"
      BY <1>3, <2>3 DEF FREE
    <3> QED
      BY <2>1, <2>3, <3>1 DEF PageOK, IsLarge
  <2> QED
    BY <2>2, <2>3
<1>6. ASSUME NEW l \in ListName, NEW c \in Class PROVE Members(heap)[l][c] = {} /\ heap.lists[l][c] = NULL
  <2>1. \A p \in Page : heap.page[p].type # "SLAB"
    BY <1>3 DEF FREE
  <2>2. Belongs(heap, l, c) = {}
    BY <2>1 DEF Belongs
  <2>3. heap.lists[l][c] = NULL
    BY DEF Init
  <2> QED
    BY <2>2, <2>3, MembersAre
<1>7. ListsAre(heap, Members(heap))
  <2>1. \A l \in ListName, c \in Class : ListIs(heap.lists[l][c], heap.slab, Members(heap)[l][c])
    BY <1>6 DEF ListIs
  <2> QED
    BY <1>6, <2>1, MembersAre DEF ListsAre
<1>8. HeapOK(heap, {}, NULL)
  BY <1>4, <1>5, <1>7 DEF HeapOK
<1> QED
  BY <1>1, <1>2, <1>8 DEF IInv

\* A block is added.
LEMMA AddedOK ==
  ASSUME HeapOK(heap, Pointers, NULL), LiveOK, NEW size \in 0 .. Word - 1, NEW r, r = Alloc(heap, size),
         r.ptr # NULL, heap' = r.heap, live' = live \cup {Block(r.ptr, size)}
  PROVE  HeapOK(heap', Pointers', NULL) /\ LiveOK'
<1>1. Allocated(r, heap, Pointers, size)
  BY AllocOK
<1>2. r # Failed(heap) /\ size # 0
  BY DEF Failed, Alloc
<1>3. /\ r.ptr \in (0 .. HeapEnd - 1) \ Pointers
      /\ HeapOK(heap', Pointers \cup {r.ptr}, NULL)
      /\ SameRoom(heap', heap, Pointers) /\ size <= Capacity(heap', r.ptr)
  BY <1>1, <1>2 DEF Allocated
<1>4. PICK b : b = Block(r.ptr, size)
  OBVIOUS
<1>5. b.ptr = r.ptr /\ b.size = size /\ b = Block(b.ptr, b.size) /\ live' = live \cup {b}
  BY <1>4 DEF Block
<1>6. Pointers' = Pointers \cup {r.ptr}
  BY <1>5 DEF Pointers
<1>7. \A x, y \in live' : x.ptr = y.ptr => x = y
  <2>1. \A x \in live : x.ptr \in Pointers
    BY DEF Pointers
  <2> QED
    BY <1>3, <1>5, <2>1 DEF LiveOK
<1>8. ASSUME NEW x \in live' PROVE x = Block(x.ptr, x.size) /\ x.size \in 1 .. Capacity(heap', x.ptr)
  <2>1. CASE x = b
    <3>1. PICK p \in Page, o \in Offset : b.ptr = Addr(p, o)
      BY <1>3, <1>5, AddrOf
    <3>2. o \in Offsets(Pointers', p)
      BY <1>5, <1>6, <3>1 DEF Offsets
    <3>3. PICK n \in Nat : Extent(heap', Pointers', b.ptr, p, n)
      BY <1>3, <1>6, <3>1, <3>2, ExtentIs
    <3>4. Capacity(heap', b.ptr) \in Nat
      BY <3>3 DEF Extent
    <3> QED
      BY <1>2, <1>3, <1>5, <2>1, <3>4, HeapSizes
  <2>2. CASE x \in live
    <3>1. x.ptr \in Pointers
      BY <2>2 DEF Pointers
    <3>2. Capacity(heap', x.ptr) = Capacity(heap, x.ptr)
      BY <1>3, <3>1 DEF SameRoom
    <3> QED
      BY <2>2, <3>2 DEF LiveOK
  <2> QED
    BY <1>5, <2>1, <2>2
<1>9. HeapOK(heap', Pointers', NULL)
  BY <1>3, <1>6
<1> QED
  BY <1>7, <1>8, <1>9 DEF LiveOK

\* A block is freed.
LEMMA DroppedOK ==
  ASSUME HeapOK(heap, Pointers, NULL), LiveOK, NEW b \in live,
         heap' = Release(heap, b.ptr), live' = live \ {b}
  PROVE  HeapOK(heap', Pointers', NULL) /\ LiveOK'
<1>1. b.ptr \in Pointers
  BY DEF Pointers
<1>2. Released(heap', heap, Pointers, b.ptr)
  BY <1>1, ReleaseOK
<1>3. Pointers' = Pointers \ {b.ptr}
  BY DEF Pointers, LiveOK
<1>4. HeapOK(heap', Pointers', NULL) /\ SameRoom(heap', heap, Pointers')
  BY <1>2, <1>3 DEF Released
<1>5. ASSUME NEW x \in live' PROVE x \in live /\ Capacity(heap', x.ptr) = Capacity(heap, x.ptr)
  <2>1. x.ptr \in Pointers' /\ x \in live
    BY DEF Pointers
  <2> QED
    BY <1>4, <2>1 DEF SameRoom
<1>6. \A x \in live' : x = Block(x.ptr, x.size) /\ x.size \in 1 .. Capacity(heap', x.ptr)
  BY <1>5 DEF LiveOK
<1>7. \A x, y \in live' : x.ptr = y.ptr => x = y
  BY <1>5 DEF LiveOK
<1> QED
  BY <1>4, <1>6, <1>7 DEF LiveOK

\* A block is resized where it is.
LEMMA ResizedOK ==
  ASSUME HeapOK(heap, Pointers, NULL), LiveOK, NEW b \in live, NEW size \in 1 .. Word - 1,
         size <= Capacity(heap, b.ptr), heap' = heap, live' = (live \ {b}) \cup {Block(b.ptr, size)}
  PROVE  HeapOK(heap', Pointers', NULL) /\ LiveOK'
<1>1. PICK n : n = Block(b.ptr, size)
  OBVIOUS
<1>2. n.ptr = b.ptr /\ n.size = size /\ n = Block(n.ptr, n.size) /\ live' = (live \ {b}) \cup {n}
  BY <1>1 DEF Block
<1>3. Pointers' = Pointers
  BY <1>2 DEF Pointers, LiveOK
<1>4. \A x, y \in live' : x.ptr = y.ptr => x = y
  BY <1>2 DEF LiveOK
<1>5. n.size \in 1 .. Capacity(heap, n.ptr)
  <2>1. b.size \in 1 .. Capacity(heap, b.ptr)
    BY DEF LiveOK
  <2>2. PICK p \in Page, o \in Offset : b.ptr = Addr(p, o)
    BY AddrOf DEF HeapOK, Pointers
  <2>3. o \in Offsets(Pointers, p)
    BY <2>2 DEF Offsets, Pointers
  <2>4. PICK m \in Nat : Extent(heap, Pointers, b.ptr, p, m)
    BY <2>2, <2>3, ExtentIs
  <2>5. Capacity(heap, b.ptr) \in Nat
    BY <2>4 DEF Extent
  <2> QED
    BY <1>2, <2>5, HeapSizes
<1>6. \A x \in live' : x = Block(x.ptr, x.size) /\ x.size \in 1 .. Capacity(heap', x.ptr)
  BY <1>2, <1>5 DEF LiveOK
<1>7. HeapOK(heap', Pointers', NULL)
  BY <1>3
<1> QED
  BY <1>4, <1>6, <1>7 DEF LiveOK
------------------------------------------------------------------------------
\* Reallocations stay sound when the blocks they hold stay handed out.
LEMMA ReallocsStay ==
  ASSUME ReallocOK, re' = re, \A c \in Client : re[c].step # "none" => re[c].block \in live'
  PROVE  ReallocOK'
<1>1. ASSUME NEW c \in Client PROVE ReOK(re[c])'
  <2>1. ReOK(re[c])
    BY DEF ReallocOK
  <2>2. CASE re[c] = NotInRealloc
    BY <2>2 DEF ReOK
  <2>3. CASE re[c] # NotInRealloc
    <3>1. re[c] \in [step : {"malloc", "free"}, block : live, size : 1 .. Word - 1]
      BY <2>1, <2>3 DEF ReOK
    <3>2. re[c].block \in live'
      BY <3>1
    <3> QED
      BY <3>1, <3>2 DEF ReOK
  <2> QED
    BY <2>2, <2>3
<1> QED
  BY <1>1 DEF ReallocOK

\* A client in realloc.
LEMMA InRealloc ==
  ASSUME ReallocOK, NEW c \in Client, re[c].step # "none"
  PROVE  re[c] \in [step : {"malloc", "free"}, block : live, size : 1 .. Word - 1]
BY DEF ReallocOK, ReOK, NotInRealloc

\* Client c enters or leaves realloc, or goes on.
LEMMA ReallocMoves ==
  ASSUME ReallocOK, NEW c \in Client, NEW r,
         r = NotInRealloc \/ r \in [step : {"malloc", "free"}, block : live', size : 1 .. Word - 1],
         re' = [re EXCEPT ![c] = r],
         \A d \in Client \ {c} : re[d].step # "none" => re[d].block \in live',
         \A d \in Client \ {c} : r.step # "none" /\ re[d].step # "none" => re[d].block # r.block
  PROVE  ReallocOK'
<1>1. re = [d \in Client |-> re[d]] /\ \A d \in Client : ReOK(re[d])
  BY DEF ReallocOK
<1>2. re' = [d \in Client |-> re'[d]] /\ re'[c] = r /\ \A d \in Client \ {c} : re'[d] = re[d]
  <2>1. PICK f : f = [d \in Client |-> re[d]]
    OBVIOUS
  <2>2. re' = [f EXCEPT ![c] = r]
    BY <1>1, <2>1, Zenon
  <2> QED
    BY <2>1, <2>2
<1>3. ASSUME NEW d \in Client PROVE ReOK(re[d])'
  <2>1. CASE d = c
    BY <1>2, <2>1 DEF ReOK
  <2>2. CASE d # c
    <3>1. re'[d] = re[d]
      BY <1>2, <2>2
    <3>2. CASE re[d] = NotInRealloc
      BY <3>1, <3>2 DEF ReOK
    <3>3. CASE re[d] # NotInRealloc
      <4>1. re[d] \in [step : {"malloc", "free"}, block : live, size : 1 .. Word - 1]
        BY <1>1, <3>3 DEF ReOK
      <4>2. re[d].block \in live'
        BY <2>2, <4>1
      <4> QED
        BY <3>1, <4>1, <4>2 DEF ReOK
    <3> QED
      BY <3>2, <3>3
  <2> QED
    BY <2>1, <2>2
<1>4. \A d, e \in Client :
        re'[d].step # "none" /\ re'[e].step # "none" /\ re'[d].block = re'[e].block => d = e
  <2> SUFFICES ASSUME NEW d \in Client, NEW e \in Client, re'[d].step # "none", re'[e].step # "none",
                      re'[d].block = re'[e].block
               PROVE  d = e
    OBVIOUS
  <2>1. CASE d = c /\ e # c
    BY <1>2, <2>1
  <2>2. CASE d # c /\ e = c
    BY <1>2, <2>2
  <2>3. CASE d # c /\ e # c
    BY <1>2, <2>3 DEF ReallocOK
  <2> QED
    BY <2>1, <2>2, <2>3
<1> QED
  BY <1>2, <1>3, <1>4 DEF ReallocOK

\* malloc and calloc keep the invariant.
LEMMA MallocStep ==
  ASSUME IInv, NEW c \in Client, NEW size \in 0 .. Word - 1, malloc(c, size)
  PROVE  IInv'
<1>1. PICK r : r = Alloc(heap, size)
  OBVIOUS
<1>2. r.ptr # NULL /\ heap' = r.heap /\ live' = live \cup {Block(r.ptr, size)} /\ re' = re
  BY <1>1 DEF malloc
<1>3. HeapOK(heap', Pointers', NULL) /\ LiveOK'
  BY <1>1, <1>2, AddedOK DEF IInv
<1>4. ReallocOK'
  <2>1. ASSUME NEW d \in Client, re[d].step # "none" PROVE re[d].block \in live'
    <3>1. re[d].block \in live
      BY <2>1, InRealloc DEF IInv
    <3> QED
      BY <1>2, <3>1
  <2> QED
    BY <1>2, <2>1, ReallocsStay DEF IInv
<1> QED
  BY <1>3, <1>4 DEF IInv

\* free keeps the invariant.
LEMMA FreeStep ==
  ASSUME IInv, NEW c \in Client, NEW b \in live, free(c, b)
  PROVE  IInv'
<1>1. HeapOK(heap', Pointers', NULL) /\ LiveOK'
  BY DroppedOK DEF free, IInv
<1>2. ReallocOK'
  <2>1. ASSUME NEW d \in Client, re[d].step # "none" PROVE re[d].block \in live'
    <3>1. re[d].block \in live
      BY <2>1, InRealloc DEF IInv
    <3> QED
      BY <3>1 DEF free, Settled
  <2> QED
    BY <2>1, ReallocsStay DEF IInv, free
<1> QED
  BY <1>1, <1>2 DEF IInv

\* The first critical section of realloc keeps the invariant.
LEMMA ReallocStep ==
  ASSUME IInv, NEW c \in Client, NEW b \in live, NEW size \in 0 .. Word - 1, realloc(c, b, size)
  PROVE  IInv'
<1>1. size \in 1 .. Word - 1 /\ heap' = heap /\ re[c] = NotInRealloc /\ Settled(b)
  BY HeapSizes DEF realloc
<1>2. CASE Capacity(heap, b.ptr) >= size
  <2>1. live' = (live \ {b}) \cup {Block(b.ptr, size)} /\ re' = re
    BY <1>2 DEF realloc
  <2>2. PICK p \in Page, o \in Offset : b.ptr = Addr(p, o)
    BY AddrOf DEF IInv, HeapOK, Pointers
  <2>3. o \in Offsets(Pointers, p)
    BY <2>2 DEF Offsets, Pointers
  <2>4. PICK m \in Nat : Extent(heap, Pointers, b.ptr, p, m)
    BY <2>2, <2>3, ExtentIs DEF IInv
  <2>5. size <= Capacity(heap, b.ptr)
    BY <1>1, <1>2, <2>4 DEF Extent
  <2>6. HeapOK(heap', Pointers', NULL) /\ LiveOK'
    BY <1>1, <2>1, <2>5, ResizedOK DEF IInv
  <2>7. ReallocOK'
    <3>1. ASSUME NEW d \in Client, re[d].step # "none" PROVE re[d].block \in live'
      <4>1. re[d].block \in live
        BY <3>1, InRealloc DEF IInv
      <4> QED
        BY <1>1, <2>1, <4>1 DEF Settled
    <3> QED
      BY <2>1, <3>1, ReallocsStay DEF IInv
  <2> QED
    BY <2>6, <2>7 DEF IInv
<1>3. CASE ~ (Capacity(heap, b.ptr) >= size)
  <2>1. PICK r : r = [step |-> "malloc", block |-> b, size |-> size]
    OBVIOUS
  <2>2. re' = [re EXCEPT ![c] = r] /\ live' = live
    BY <1>3, <2>1 DEF realloc
  <2>3. HeapOK(heap', Pointers', NULL) /\ LiveOK'
    BY <1>1, <2>2 DEF IInv, Pointers, LiveOK
  <2>4. r \in [step : {"malloc", "free"}, block : live', size : 1 .. Word - 1]
    BY <1>1, <2>1, <2>2
  <2>5. \A d \in Client \ {c} : re[d].step # "none" => re[d].block \in live'
    <3>1. ASSUME NEW d \in Client, re[d].step # "none" PROVE re[d].block \in live'
      <4>1. re[d].block \in live
        BY <3>1, InRealloc DEF IInv
      <4> QED
        BY <2>2, <4>1
    <3> QED
      BY <3>1
  <2>6. \A d \in Client \ {c} : r.step # "none" /\ re[d].step # "none" => re[d].block # r.block
    BY <1>1, <2>1 DEF Settled
  <2>7. ReallocOK'
    BY <2>2, <2>4, <2>5, <2>6, ReallocMoves DEF IInv
  <2> QED
    BY <2>3, <2>7 DEF IInv
<1> QED
  BY <1>2, <1>3

\* The second critical section of realloc keeps the invariant, with and without
\* room for the new block.
LEMMA ReallocMallocStep ==
  ASSUME IInv, NEW c \in Client, ReallocMalloc(c)
  PROVE  IInv'
<1>1. re[c] \in [step : {"malloc", "free"}, block : live, size : 1 .. Word - 1] /\ ReallocOK
  BY InRealloc DEF IInv, ReallocMalloc
<1>2. PICK b \in live, size \in 1 .. Word - 1 : b = re[c].block /\ size = re[c].size
  BY <1>1
<1>3. re[c] = [step |-> "malloc", block |-> b, size |-> size]
  BY <1>1, <1>2 DEF ReallocMalloc
<1>4. PICK r : r = Alloc(heap, size)
  OBVIOUS
<1>5. heap' = r.heap
  BY <1>2, <1>4 DEF ReallocMalloc
<1>6. ASSUME live \subseteq live'
      PROVE  \A d \in Client \ {c} : re[d].step # "none" => re[d].block \in live'
  <2>1. ASSUME NEW d \in Client, re[d].step # "none" PROVE re[d].block \in live'
    <3>1. re[d].block \in live
      BY <2>1, InRealloc DEF IInv
    <3> QED
      BY <1>6, <3>1
  <2> QED
    BY <2>1
<1>7. size \in 0 .. Word - 1
  BY HeapSizes
<1>8. CASE r.ptr = NULL
  <2>1. re' = [re EXCEPT ![c] = NotInRealloc] /\ live' = live
    BY <1>2, <1>4, <1>8 DEF ReallocMalloc
  <2>2. heap' = heap
    <3>1. Allocated(r, heap, Pointers, size)
      BY <1>4, <1>7, AllocOK DEF IInv
    <3>2. r = Failed(heap)
      BY <1>8, <3>1, HeapSizes DEF Allocated
    <3> QED
      BY <1>5, <3>2 DEF Failed
  <2>3. HeapOK(heap', Pointers', NULL) /\ LiveOK'
    BY <2>1, <2>2 DEF IInv, Pointers, LiveOK
  <2>4. \A d \in Client \ {c} : re[d].step # "none" => re[d].block \in live'
    BY <1>6, <2>1
  <2>5. NotInRealloc.step = "none"
    BY DEF NotInRealloc
  <2>6. ReallocOK'
    BY <1>1, <2>1, <2>4, <2>5, ReallocMoves
  <2> QED
    BY <2>3, <2>6 DEF IInv
<1>9. CASE r.ptr # NULL
  <2>1. re' = [re EXCEPT ![c].step = "free"] /\ live' = live \cup {Block(r.ptr, size)}
    BY <1>2, <1>4, <1>9 DEF ReallocMalloc
  <2>2. HeapOK(heap', Pointers', NULL) /\ LiveOK'
    BY <1>4, <1>5, <1>7, <1>9, <2>1, AddedOK DEF IInv
  <2>3. PICK n : n = [step |-> "free", block |-> b, size |-> size]
    OBVIOUS
  <2>4. re' = [re EXCEPT ![c] = n]
    <3>1. [re[c] EXCEPT !.step = "free"] = n
      BY <1>3, <2>3
    <3>2. re' = [re EXCEPT ![c] = [re[c] EXCEPT !.step = "free"]]
      BY <2>1
    <3> QED
      BY <3>1, <3>2, Zenon
  <2>5. n \in [step : {"malloc", "free"}, block : live', size : 1 .. Word - 1]
    BY <2>1, <2>3
  <2>6. \A d \in Client \ {c} : re[d].step # "none" => re[d].block \in live'
    BY <1>6, <2>1
  <2>7. \A d \in Client \ {c} : n.step # "none" /\ re[d].step # "none" => re[d].block # n.block
    BY <1>3, <2>3 DEF IInv, ReallocOK
  <2>8. ReallocOK'
    BY <1>1, <2>4, <2>5, <2>6, <2>7, ReallocMoves
  <2> QED
    BY <2>2, <2>8 DEF IInv
<1> QED
  BY <1>8, <1>9

\* The third critical section of realloc keeps the invariant.
LEMMA ReallocFreeStep ==
  ASSUME IInv, NEW c \in Client, ReallocFree(c)
  PROVE  IInv'
<1>1. re[c] \in [step : {"malloc", "free"}, block : live, size : 1 .. Word - 1] /\ ReallocOK
  BY InRealloc DEF IInv, ReallocFree
<1>2. PICK b \in live : b = re[c].block
  BY <1>1
<1>3. heap' = Release(heap, b.ptr) /\ live' = live \ {b} /\ re' = [re EXCEPT ![c] = NotInRealloc]
  BY <1>2 DEF ReallocFree
<1>4. HeapOK(heap', Pointers', NULL) /\ LiveOK'
  BY <1>3, DroppedOK DEF IInv
<1>5. ASSUME NEW d \in Client \ {c}, re[d].step # "none" PROVE re[d].block \in live'
  <2>1. re[d].block \in live
    BY <1>5, InRealloc DEF IInv
  <2>2. re[d].block # b
    BY <1>1, <1>2, <1>5 DEF ReallocOK
  <2> QED
    BY <1>3, <2>1, <2>2
<1>6. NotInRealloc.step = "none"
  BY DEF NotInRealloc
<1>7. ReallocOK'
  BY <1>1, <1>3, <1>5, <1>6, ReallocMoves
<1> QED
  BY <1>4, <1>7 DEF IInv

\* Every step keeps the invariant.
LEMMA StepOK == IInv /\ [Next]_vars => IInv'
<1> SUFFICES ASSUME IInv, [Next]_vars PROVE IInv'
  OBVIOUS
<1>1. Request \subseteq 0 .. Word - 1 /\ \A a \in Arrays : (a[1] * a[2]) % Word \in 0 .. Word - 1
  <2>1. Request \subseteq 0 .. Word - 1 /\ Word \in Nat \ {0}
    BY HeapAssumption
  <2>2. ASSUME NEW a \in Arrays PROVE (a[1] * a[2]) % Word \in 0 .. Word - 1
    <3>1. a[1] \in Nat /\ a[2] \in Nat
      BY HeapAssumption
    <3>2. PICK x \in Nat : x = a[1] * a[2]
      BY <3>1
    <3>3. x % Word \in 0 .. Word - 1
      BY <2>1
    <3> QED
      BY <3>2, <3>3
  <2> QED
    BY <2>1, <2>2
<1>2. CASE UNCHANGED vars
  <2>1. heap' = heap /\ live' = live /\ re' = re
    BY <1>2 DEF vars
  <2> QED
    BY <2>1 DEF IInv, HeapOK, LiveOK, ReallocOK, ReOK, Pointers
<1>3. ASSUME NEW c \in Client, NEW size \in Request, malloc(c, size) PROVE IInv'
  BY <1>1, <1>3, MallocStep
<1>4. ASSUME NEW c \in Client, NEW a \in Arrays, calloc(c, a[1], a[2]) PROVE IInv'
  BY <1>1, <1>4, MallocStep DEF calloc
<1>5. ASSUME NEW c \in Client, NEW b \in live, free(c, b) PROVE IInv'
  BY <1>5, FreeStep
<1>6. ASSUME NEW c \in Client, NEW b \in live, NEW size \in Request, realloc(c, b, size) PROVE IInv'
  BY <1>1, <1>6, ReallocStep
<1>7. ASSUME NEW c \in Client, NEW b \in live, NEW size \in Request, ReallocZero(c, b, size) PROVE IInv'
  BY <1>7, FreeStep DEF ReallocZero
<1>8. ASSUME NEW c \in Client, ReallocMalloc(c) PROVE IInv'
  BY <1>8, ReallocMallocStep
<1>9. ASSUME NEW c \in Client, ReallocFree(c) PROVE IInv'
  BY <1>9, ReallocFreeStep
<1> QED
  BY <1>2, <1>3, <1>4, <1>5, <1>6, <1>7, <1>8, <1>9 DEF Next
------------------------------------------------------------------------------
\* The invariant holds in every reachable state.
LEMMA Invariance == Spec => []IInv
<1>1. Init => IInv
  BY InitOK
<1>2. IInv /\ [Next]_vars => IInv'
  BY StepOK
<1> QED
  BY <1>1, <1>2, PTL DEF Spec

\* Where a block that is handed out lies.
LEMMA BlockIs ==
  ASSUME IInv, NEW b \in live
  PROVE  /\ \E p \in Page, o \in Offset, n \in Nat :
              b.ptr = Addr(p, o) /\ o \in Offsets(Pointers, p) /\ Extent(heap, Pointers, b.ptr, p, n)
         /\ b.ptr \in 0 .. HeapEnd - 1 /\ b.size \in Nat \ {0} /\ b.size <= Capacity(heap, b.ptr)
         /\ Capacity(heap, b.ptr) \in Nat
<1>1. HeapOK(heap, Pointers, NULL) /\ b.ptr \in Pointers
  BY DEF IInv, Pointers
<1>2. b.ptr \in 0 .. HeapEnd - 1
  BY <1>1 DEF HeapOK
<1>3. PICK p \in Page, o \in Offset : b.ptr = Addr(p, o)
  BY <1>2, AddrOf
<1>4. o \in Offsets(Pointers, p)
  BY <1>1, <1>3 DEF Offsets
<1>5. PICK n \in Nat : Extent(heap, Pointers, b.ptr, p, n)
  BY <1>1, <1>3, <1>4, ExtentIs
<1>6. Capacity(heap, b.ptr) \in Nat /\ b.size \in 1 .. Capacity(heap, b.ptr)
  BY <1>5 DEF Extent, IInv, LiveOK
<1> QED
  BY <1>2, <1>3, <1>4, <1>5, <1>6

\* The links of malloc and free name pages, in_use never wraps below 0, and
\* blocks lie in the heap, for every heap size, set of classes and clients.
THEOREM HeapTypes == Spec => []TypeOK
<1>1. IInv => TypeOK
  <2> SUFFICES ASSUME IInv PROVE TypeOK
    OBVIOUS
  <2>1. heap \in HeapShape
    BY DEF IInv, HeapOK
  <2>2. heap.page \in [Page -> [type : {"FREE", "SLAB", "LARGE"}, count : 0 .. TotalPages]]
    BY <2>1, Parts DEF PageInfo
  <2>3. heap.lists \in [ListName -> [Class -> Page \cup {NULL}]]
    BY <2>1, Parts DEF Link
  <2>4. ASSUME NEW p \in Page
        PROVE  /\ heap.slab[p].next \in Page \cup {NULL}
               /\ heap.slab[p].prev \in Page \cup {NULL}
               /\ heap.slab[p].cache \in 0 .. Len(Sizes)
               /\ heap.slab[p].free_list \in Seq(0 .. PageSize - 1)
               /\ heap.slab[p].in_use \in Nat
    <3>1. heap.slab[p] \in SlabInfo
      BY <2>1, Parts
    <3> QED
      BY <3>1 DEF SlabInfo, Link
  <2>5. \A b \in live : b.ptr \in 0 .. HeapEnd - 1 /\ b.size \in Nat
    BY BlockIs
  <2>6. DOMAIN re = Client
    BY DEF IInv, ReallocOK
  <2> QED
    BY <2>2, <2>3, <2>4, <2>5, <2>6 DEF TypeOK
<1> QED
  BY <1>1, Invariance, PTL

\* No block that malloc or realloc hands out covers the header of a slab.
THEOREM NoBlockCoversAHeader == Spec => []HeadersIntact
<1>1. IInv => HeadersIntact
  <2> SUFFICES ASSUME IInv, NEW b \in live, NEW q \in Page, Slab(q)
               PROVE  \/ b.ptr + b.size <= page_idx_to_virt(q)
                      \/ b.ptr >= page_idx_to_virt(q) + HeaderSize
    BY DEF HeadersIntact
  <2>1. PICK p \in Page, n \in Nat : Extent(heap, Pointers, b.ptr, p, n)
    BY BlockIs
  <2>2. b.ptr \in Nat /\ b.size \in Nat /\ b.size <= Capacity(heap, b.ptr) /\ Capacity(heap, b.ptr) \in Nat
    BY <2>1, BlockIs DEF Extent
  <2>3. PICK x \in Nat, y \in Nat, hs \in Nat, ps \in Nat :
          x = page_idx_to_virt(p) /\ y = page_idx_to_virt(q) /\ hs = HeaderSize /\ ps = PageSize /\ hs <= ps
    <3>1. 1 \in Class
      BY HeapSizes
    <3>2. HeaderSize \in Nat /\ PageSize \in Nat /\ HeaderSize <= PageSize
      BY <3>1, HeapSizes
    <3> QED
      BY <3>2, FirstByte
  <2>4. x <= b.ptr
    BY <2>1, <2>3 DEF Extent
  <2>5. p \in Nat /\ q \in Nat
    BY HeapSizes
  <2>6. CASE q < p
    <3>1. y + ps <= x
      BY <2>3, <2>5, <2>6, PagesApart
    <3> QED
      BY <2>2, <2>3, <2>4, <3>1
  <2>7. CASE q = p
    <3>1. x + hs <= b.ptr
      BY <2>1, <2>3, <2>7 DEF Extent, Slab
    <3> QED
      BY <2>2, <2>3, <2>7, <3>1
  <2>8. CASE p < q
    <3>1. ~ IsLarge(heap, q)
      BY DEF Slab, IsLarge
    <3>2. b.ptr + Capacity(heap, b.ptr) <= y
      BY <2>1, <2>3, <2>8, <3>1, Beyond
    <3> QED
      BY <2>2, <2>3, <3>2
  <2> QED
    BY <2>5, <2>6, <2>7, <2>8
<1> QED
  BY <1>1, Invariance, PTL

\* A page behind the page table is taken exactly if a block lies in it: free and
\* a realloc that fails leak none.
THEOREM EveryPageIsAccounted == Spec => []NoLeak
<1>1. IInv => NoLeak
  <2> SUFFICES ASSUME IInv, NEW p \in Page, p >= MetaPages
               PROVE  heap.page[p].type # "FREE" <=>
                        \E b \in live : p \in virt_to_page_idx(b.ptr) ..
                                              virt_to_page_idx(b.ptr + Capacity(heap, b.ptr) - 1)
    BY DEF NoLeak
  <2>1. HeapOK(heap, Pointers, NULL) /\ heap \in HeapShape /\ \A q \in Page : PageOK(heap, Pointers, NULL, q)
    BY DEF IInv, HeapOK
  <2>2. p \in Nat /\ MetaPages <= p
    BY HeapSizes, MetaPagesIs
  \* A block of page s reaches page p if its extent does.
  <2>3. ASSUME NEW s \in Page, NEW o \in Offsets(Pointers, s), NEW n \in Nat,
               Extent(heap, Pointers, Addr(s, o), s, n), s <= p, p < s + n
        PROVE  \E b \in live : p \in virt_to_page_idx(b.ptr) ..
                                     virt_to_page_idx(b.ptr + Capacity(heap, b.ptr) - 1)
    <3>1. PICK b \in live : b.ptr = Addr(s, o)
      BY DEF Offsets, Pointers
    <3>2. /\ virt_to_page_idx(b.ptr) = s
          /\ virt_to_page_idx(b.ptr + Capacity(heap, b.ptr) - 1) = s + n - 1
      BY <2>3, <3>1 DEF Extent
    <3>3. s \in Nat
      BY HeapSizes
    <3> QED
      BY <2>2, <2>3, <3>2, <3>3
  <2>4. ASSUME NEW s \in Page, NEW o \in Offsets(Pointers, s)
        PROVE  \E n \in Nat : Extent(heap, Pointers, Addr(s, o), s, n)
    BY <2>1, ExtentIs
  <2>5. ASSUME heap.page[p].type = "SLAB"
        PROVE  \E o : o \in Offsets(Pointers, p)
    <3>1. PICK T : T = Offsets(Pointers, p)
      OBVIOUS
    <3>2. heap.slab[p].in_use = Cardinality(T) /\ heap.slab[p].in_use > 0
      <4>1. p # NULL
        BY HeapSizes
      <4> QED
        BY <2>1, <2>5, <3>1, <4>1 DEF PageOK, SlabOK
    <3>3. T # {}
      BY <3>2, FS_EmptySet
    <3> QED
      BY <3>1, <3>3
  <2>6. ASSUME heap.page[p].type # "FREE"
        PROVE  \E b \in live : p \in virt_to_page_idx(b.ptr) ..
                                     virt_to_page_idx(b.ptr + Capacity(heap, b.ptr) - 1)
    <3>1. heap.page[p].type = "SLAB" \/ IsLarge(heap, p)
      <4>1. heap.page[p] \in PageInfo
        BY <2>1, Parts
      <4> QED
        BY <2>6, <4>1 DEF PageInfo, IsLarge
    <3>2. CASE Offsets(Pointers, p) # {}
      <4>1. PICK o \in Offsets(Pointers, p) : TRUE
        BY <3>2
      <4>2. PICK n \in Nat : Extent(heap, Pointers, Addr(p, o), p, n)
        BY <2>4
      <4>3. p <= p /\ p < p + n
        BY <2>2, <4>2 DEF Extent
      <4> QED
        BY <2>3, <4>2, <4>3
    <3>3. CASE Offsets(Pointers, p) = {}
      <4>1. IsLarge(heap, p)
        BY <2>5, <3>1, <3>3
      <4>2. RunOK(heap, p) /\ ~ (heap.page[p].count > 0)
        BY <2>1, <2>2, <3>3, <4>1 DEF PageOK
      <4>3. PICK s \in Page : MetaPages <= s /\ s < p /\ p < s + heap.page[s].count /\ IsLarge(heap, s)
        BY <4>2 DEF RunOK
      <4>4. PICK k \in Nat : k = heap.page[s].count
        <5>1. heap.page[s] \in PageInfo
          BY <2>1, Parts
        <5> QED
          BY <5>1, HeapSizes DEF PageInfo
      <4>5. s \in Nat /\ k > 0
        BY <2>2, <4>3, <4>4, HeapSizes
      <4>6. Offsets(Pointers, s) = {0}
        BY <2>1, <4>3, <4>4, <4>5 DEF PageOK
      <4>7. PICK o \in Offsets(Pointers, s) : TRUE
        BY <4>6
      <4>8. PICK n \in Nat : Extent(heap, Pointers, Addr(s, o), s, n)
        BY <2>4
      <4>9. n = k
        BY <4>3, <4>4, <4>8 DEF Extent, IsLarge
      <4>10. s <= p /\ p < s + n
        BY <2>2, <4>3, <4>4, <4>5, <4>9
      <4> QED
        BY <2>3, <4>8, <4>10
    <3> QED
      BY <3>2, <3>3
  <2>7. ASSUME NEW b \in live, p \in virt_to_page_idx(b.ptr) ..
                                     virt_to_page_idx(b.ptr + Capacity(heap, b.ptr) - 1)
        PROVE  heap.page[p].type # "FREE"
    <3>1. PICK s \in Page, o \in Offset, n \in Nat :
            o \in Offsets(Pointers, s) /\ Extent(heap, Pointers, b.ptr, s, n)
      BY BlockIs
    <3>2. p \in s .. s + n - 1 /\ s \in Nat
      BY <2>7, <3>1, HeapSizes DEF Extent
    <3>3. CASE heap.page[s].type = "SLAB"
      <4>1. n = 1
        BY <3>1, <3>3 DEF Extent
      <4>2. p = s
        BY <3>2, <4>1
      <4> QED
        BY <3>3, <4>2
    <3>4. CASE heap.page[s].type # "SLAB"
      BY <3>1, <3>2, <3>4 DEF Extent, IsLarge
    <3> QED
      BY <3>3, <3>4
  <2> QED
    BY <2>6, <2>7
<1> QED
  BY <1>1, Invariance, PTL
------------------------------------------------------------------------------
\* A sequence without repetitions has as many entries as it is long.
LEMMA EntriesCounted ==
  ASSUME NEW S, NEW f \in Seq(S), Distinct(f)
  PROVE  Cardinality(Entries(f)) = Len(f)
<1>1. PICK n \in Nat : n = Len(f) /\ DOMAIN f = 1 .. n
  OBVIOUS
<1>2. IsFiniteSet(1 .. n) /\ Cardinality(1 .. n) = n
  BY FS_Interval
<1>3. f \in Bijection(1 .. n, Entries(f))
  <2>1. f \in [1 .. n -> Entries(f)]
    BY <1>1 DEF Entries
  <2>2. \A i, j \in 1 .. n : f[i] = f[j] => i = j
    BY <1>1 DEF Distinct
  <2>3. \A t \in Entries(f) : \E i \in 1 .. n : f[i] = t
    BY <1>1 DEF Entries
  <2> QED
    BY <1>1, <2>1, <2>2, <2>3 DEF Bijection, Injection, Surjection, IsInjective
<1>4. ExistsBijection(1 .. n, Entries(f))
  BY <1>3 DEF ExistsBijection
<1> QED
  BY <1>1, <1>2, <1>4, FS_Bijection

\* A numbered list is the list that the property speaks of.
LEMMA ListIsListOf ==
  ASSUME NEW l \in ListName, NEW c \in Class, NEW S \in SUBSET Page,
         ListIs(heap.lists[l][c], heap.slab, S)
  PROVE  ListOf(l, c, S)
<1>1. PICK head : head = heap.lists[l][c]
  OBVIOUS
<1>2. ListIs(head, heap.slab, S)
  BY <1>1
<1>3. S = {} <=> head = NULL
  BY <1>2 DEF ListIs
<1>4. ASSUME S # {}
      PROVE  \E pos \in [S -> 1 .. Cardinality(S)] :
               /\ \A p, q \in S : pos[p] = pos[q] => p = q
               /\ head \in S /\ pos[head] = 1 /\ heap.slab[head].prev = NULL
               /\ \A p \in S : pos[p] = Cardinality(S) => heap.slab[p].next = NULL
               /\ \A p, q \in S : pos[q] = pos[p] + 1 => heap.slab[p].next = q /\ heap.slab[q].prev = p
  <2>1. PICK pos \in [S -> 1 .. Cardinality(S)] : Numbered(head, heap.slab, S, pos)
    BY <1>2, <1>4 DEF ListIs
  <2> QED
    BY <2>1 DEF Numbered
<1> QED
  BY <1>1, <1>3, <1>4 DEF ListOf

\* The lists that cache_alloc and cache_free relink hold exactly the full and the
\* partial slabs of their cache, and every object of a slab is either in a block
\* or once in the free list.
THEOREM SlabsAreSound == Spec => []SlabsSound
<1>1. IInv => SlabsSound
  <2> SUFFICES ASSUME IInv PROVE SlabsSound
    OBVIOUS
  <2>1. /\ HeapOK(heap, Pointers, NULL) /\ heap \in HeapShape /\ ListsAre(heap, Members(heap))
        /\ \A p \in Page : PageOK(heap, Pointers, NULL, p) /\ p # NULL
        /\ "full" \in ListName /\ "partial" \in ListName
    BY HeapSizes DEF IInv, HeapOK, ListName
  <2>2. ASSUME NEW p \in Page, Slab(p)
        PROVE  SlabOK(heap.slab[p], Offsets(Pointers, p)) /\ heap.slab[p].in_use > 0
               /\ heap.slab[p].free_list \in Seq(Offset) /\ heap.slab[p].in_use \in Nat
    <3>1. heap.slab[p] \in SlabInfo
      BY <2>1, Parts
    <3> QED
      BY <2>1, <2>2, <3>1 DEF PageOK, Slab, SlabInfo, Offset
  <2>3. ASSUME NEW p \in Page, Slab(p)
        PROVE  /\ heap.slab[p].free_list = <<>> => heap.slab[p].in_use = MaxObjs(heap.slab[p].cache)
               /\ heap.slab[p].free_list # <<>> => heap.slab[p].in_use < MaxObjs(heap.slab[p].cache)
    <3>1. PICK f \in Seq(Offset), u \in Nat : f = heap.slab[p].free_list /\ u = heap.slab[p].in_use
      BY <2>2, <2>3
    <3>2. Len(f) + u = MaxObjs(heap.slab[p].cache) /\ Len(f) \in Nat /\ (f = <<>> <=> Len(f) = 0)
      BY <2>2, <2>3, <3>1 DEF SlabOK
    <3> QED
      BY <3>1, <3>2
  <2>4. ASSUME NEW cl \in Class
        PROVE  LET S == {p \in Page : Slab(p) /\ heap.slab[p].cache = cl} IN
               /\ ListOf("full", cl, {p \in S : heap.slab[p].in_use = MaxObjs(cl)})
               /\ ListOf("partial", cl, {p \in S : heap.slab[p].in_use < MaxObjs(cl)})
    <3> DEFINE S == {p \in Page : Slab(p) /\ heap.slab[p].cache = cl}
    <3>1. MaxObjs(cl) \in Nat
      BY MaxObjsIs
    <3>2. Belongs(heap, "full", cl) = {p \in S : heap.slab[p].in_use = MaxObjs(cl)}
      <4>1. ASSUME NEW p \in Page, Slab(p), heap.slab[p].cache = cl
            PROVE  heap.slab[p].free_list = <<>> <=> heap.slab[p].in_use = MaxObjs(cl)
        BY <2>2, <2>3, <3>1, <4>1
      <4> QED
        BY <4>1 DEF Belongs, Slab
    <3>3. Belongs(heap, "partial", cl) = {p \in S : heap.slab[p].in_use < MaxObjs(cl)}
      <4>1. ASSUME NEW p \in Page, Slab(p), heap.slab[p].cache = cl
            PROVE  heap.slab[p].free_list # <<>> <=> heap.slab[p].in_use < MaxObjs(cl)
        BY <2>2, <2>3, <3>1, <4>1
      <4> QED
        BY <4>1 DEF Belongs, Slab
    <3>4. ASSUME NEW l \in ListName PROVE ListOf(l, cl, Belongs(heap, l, cl))
      <4>1. ListIs(heap.lists[l][cl], heap.slab, Members(heap)[l][cl])
        BY <2>1 DEF ListsAre
      <4>2. Members(heap)[l][cl] = Belongs(heap, l, cl)
        BY MembersAre
      <4>3. PICK T \in SUBSET Page : T = Belongs(heap, l, cl)
        BY DEF Belongs
      <4>4. ListIs(heap.lists[l][cl], heap.slab, T)
        BY <4>1, <4>2, <4>3, Zenon
      <4>5. ListOf(l, cl, T)
        BY <4>4, ListIsListOf
      <4> QED
        BY <4>3, <4>5, Zenon
    <3>5. ListOf("full", cl, Belongs(heap, "full", cl)) /\ ListOf("partial", cl, Belongs(heap, "partial", cl))
      BY <2>1, <3>4
    <3> QED
      BY <3>2, <3>3, <3>5, Zenon
  <2>5. ASSUME NEW p \in Page, Slab(p)
        PROVE  LET s == heap.slab[p]
                   taken == {b.ptr % PageSize : b \in BlocksIn(p)}
                   spare == {s.free_list[k] : k \in DOMAIN s.free_list}
               IN  /\ s.in_use = Cardinality(taken) /\ s.in_use > 0
                   /\ Cardinality(spare) = Len(s.free_list)
                   /\ taken \cap spare = {}
                   /\ Cardinality(taken) + Cardinality(spare) = MaxObjs(s.cache)
    <3>1. PICK s : s = heap.slab[p]
      OBVIOUS
    <3>2. PICK T : T = Offsets(Pointers, p)
      OBVIOUS
    <3>3. SlabOK(s, T) /\ s.in_use > 0 /\ s.free_list \in Seq(Offset) /\ s.in_use \in Nat
      BY <2>2, <2>5, <3>1, <3>2
    <3>4. {b.ptr % PageSize : b \in BlocksIn(p)} = T
      <4>1. ASSUME NEW b \in BlocksIn(p) PROVE b.ptr % PageSize \in T
        <5>1. b \in live /\ virt_to_page_idx(b.ptr) = p
          BY DEF BlocksIn
        <5>2. PICK q \in Page, o \in Offset : b.ptr = Addr(q, o) /\ o \in Offsets(Pointers, q)
          BY <5>1, BlockIs
        <5>3. virt_to_page_idx(b.ptr) = q /\ b.ptr % PageSize = o
          BY <5>2, AddrIs
        <5> QED
          BY <3>2, <5>1, <5>2, <5>3
      <4>2. ASSUME NEW o \in T PROVE \E b \in BlocksIn(p) : o = b.ptr % PageSize
        <5>1. o \in Offset /\ Addr(p, o) \in Pointers
          BY <3>2 DEF Offsets
        <5>2. PICK b \in live : b.ptr = Addr(p, o)
          BY <5>1 DEF Pointers
        <5>3. virt_to_page_idx(b.ptr) = p /\ b.ptr % PageSize = o
          BY <5>1, <5>2, AddrIs
        <5> QED
          BY <5>2, <5>3 DEF BlocksIn
      <4> QED
        BY <4>1, <4>2
    <3>5. Cardinality(Entries(s.free_list)) = Len(s.free_list)
      BY <3>3, EntriesCounted DEF SlabOK
    <3>6. /\ s.in_use = Cardinality(T) /\ T \cap Entries(s.free_list) = {}
          /\ Cardinality(T) + Cardinality(Entries(s.free_list)) = MaxObjs(s.cache)
      <4>1. s.in_use = Cardinality(T) /\ T \cap Entries(s.free_list) = {}
            /\ Len(s.free_list) + s.in_use = MaxObjs(s.cache)
        BY <3>3 DEF SlabOK
      <4>2. PICK x \in Nat, y \in Nat : x = Len(s.free_list) /\ y = s.in_use
        BY <3>3
      <4> QED
        BY <3>5, <4>1, <4>2
    <3> QED
      BY <3>1, <3>3, <3>4, <3>5, <3>6 DEF Entries
  <2> QED
    BY <2>4, <2>5 DEF SlabsSound
<1> QED
  BY <1>1, Invariance, PTL

\* Every block fits beside the others, in the heap.
LEMMA BlocksFit ==
  ASSUME IInv, NEW b \in live
  PROVE  Blocks!Fits(b, live \ {b})
<1>1. HeapOK(heap, Pointers, NULL) /\ \A x \in live : x.ptr \in Pointers
  BY DEF IInv, Pointers
<1>2. PICK p \in Page, n \in Nat : Extent(heap, Pointers, b.ptr, p, n)
  BY BlockIs
<1>3. \A x \in live : /\ x.ptr \in Nat /\ x.size \in Nat \ {0} /\ Capacity(heap, x.ptr) \in Nat
                      /\ x.size <= Capacity(heap, x.ptr)
  <2>1. ASSUME NEW x \in live PROVE x.ptr \in Nat
    <3>1. x.ptr \in 0 .. HeapEnd - 1
      BY BlockIs
    <3> QED
      BY <3>1
  <2> QED
    BY <2>1, BlockIs
<1>4. p \in Nat /\ n \in Nat \ {0} /\ MetaPages \in Nat /\ MetaPages <= p /\ p + n <= TotalPages
      /\ TotalPages \in Nat
  BY <1>2, HeapSizes, MetaPagesIs DEF Extent
<1>5. ASSUME NEW i \in Nat, NEW j \in Nat, i <= j
      PROVE  page_idx_to_virt(i) \in Nat /\ page_idx_to_virt(j) \in Nat /\ page_idx_to_virt(i) <= page_idx_to_virt(j)
  <2>1. PageSize \in Nat
    BY HeapSizes
  <2>2. CASE i = j
    BY <2>1, <2>2 DEF page_idx_to_virt
  <2>3. CASE i < j
    BY <2>1, <2>3, PagesApart
  <2> QED
    BY <1>5, <2>2, <2>3
<1>6. page_idx_to_virt(MetaPages) <= b.ptr
  <2>1. PICK x \in Nat, y \in Nat : x = page_idx_to_virt(MetaPages) /\ y = page_idx_to_virt(p) /\ x <= y
    BY <1>4, <1>5
  <2>2. y <= b.ptr
    BY <1>2, <2>1 DEF Extent
  <2> QED
    BY <1>3, <2>1, <2>2
<1>7. b.ptr + b.size <= HeapEnd
  <2>1. PICK x \in Nat, y \in Nat : x = page_idx_to_virt(p + n) /\ y = page_idx_to_virt(TotalPages) /\ x <= y
    BY <1>4, <1>5
  <2>2. y = HeapEnd
    BY <2>1 DEF HeapEnd, page_idx_to_virt
  <2>3. b.ptr + Capacity(heap, b.ptr) <= x
    BY <1>2, <2>1 DEF Extent
  <2> QED
    BY <1>3, <2>1, <2>2, <2>3
<1>8. ASSUME NEW x \in live \ {b} PROVE Blocks!Disjoint(b, x)
  <2>1. x.ptr # b.ptr
    BY DEF IInv, LiveOK
  <2>2. b.ptr + Capacity(heap, b.ptr) <= x.ptr \/ x.ptr + Capacity(heap, x.ptr) <= b.ptr
    BY <1>1, <2>1, Apart
  <2> QED
    BY <1>3, <2>2 DEF Blocks!Disjoint
<1> QED
  BY <1>3, <1>6, <1>7, <1>8 DEF Blocks!Fits

\* What the refinement needs of the blocks.
Unique == \A b, c \in live : b.ptr = c.ptr => b = c
AllFit == \A b \in live : Blocks!Fits(b, live \ {b})

\* All blocks fit beside each other, and their addresses tell them apart.
LEMMA AllBlocksFit == IInv => AllFit /\ Unique
  BY BlocksFit DEF AllFit, Unique, IInv, LiveOK

\* Adding a block that fits is Allocate of the allocator, or no step.
LEMMA AddIsAllocate ==
  ASSUME AllFit', NEW b, live' = live \cup {b}
  PROVE  [Blocks!Next]_live
<1>1. CASE b \in live
  BY <1>1
<1>2. CASE b \notin live
  <2>1. b \in live' /\ live' \ {b} = live /\ b \in live' \ live
    BY <1>2
  <2>2. Blocks!Fits(b, live' \ {b})
    BY <2>1 DEF AllFit, Blocks!Fits, Blocks!Disjoint
  <2>3. Blocks!Fits(b, live)
    BY <2>1, <2>2
  <2> QED
    BY <2>1, <2>3 DEF Blocks!Next, Blocks!Allocate
<1> QED
  BY <1>1, <1>2

\* Taking a block from the clients is Free of the allocator.
LEMMA DropIsFree ==
  ASSUME NEW b \in live, live' = live \ {b}
  PROVE  [Blocks!Next]_live
<1>1. b \in live \ live'
  OBVIOUS
<1> QED
  BY <1>1 DEF Blocks!Next, Blocks!Free

\* Another size for a block that stays is Resize of the allocator, or no step.
LEMMA ResizeIsResize ==
  ASSUME AllFit', Unique, NEW b \in live, b = Block(b.ptr, b.size), NEW size,
         live' = (live \ {b}) \cup {Block(b.ptr, size)}
  PROVE  [Blocks!Next]_live
<1>1. PICK n : n = Block(b.ptr, size)
  OBVIOUS
<1>2. n.ptr = b.ptr /\ n.size = size /\ n = [b EXCEPT !.size = size] /\ live' = (live \ {b}) \cup {n}
  BY <1>1 DEF Block
<1>3. CASE n = b
  BY <1>2, <1>3
<1>4. CASE n # b
  <2>1. n \notin live
    BY <1>2, <1>4 DEF Unique
  <2>2. b \in live \ live' /\ n \in live' \ live /\ live' \ {n} = live \ {b} /\ n \in live'
    BY <1>2, <1>4, <2>1
  <2>3. Blocks!Fits(n, live' \ {n})
    BY <2>2 DEF AllFit, Blocks!Fits, Blocks!Disjoint
  <2>4. Blocks!Fits(n, live \ {b})
    BY <2>2, <2>3
  <2>5. Blocks!Resize(b, n.size)
    BY <1>2, <2>4 DEF Blocks!Resize
  <2> QED
    BY <1>2, <2>2, <2>5 DEF Blocks!Next
<1> QED
  BY <1>3, <1>4

\* Every step of malloc, calloc, free and the three parts of realloc is a step of
\* Allocator: blocks lie behind the page table and never overlap, whatever other
\* clients do between the parts of a realloc.
THEOREM HeapImplementsAllocator == Spec => ImplementsAllocator
<1>1. Init => Blocks!Init
  BY DEF Init, Blocks!Init
<1>2. IInv /\ AllFit' /\ [Next]_vars => [Blocks!Next]_live
  <2> SUFFICES ASSUME IInv, AllFit', [Next]_vars PROVE [Blocks!Next]_live
    OBVIOUS
  <2>1. CASE UNCHANGED vars
    BY <2>1 DEF vars
  <2>2. ASSUME NEW c \in Client, NEW size, malloc(c, size) PROVE [Blocks!Next]_live
    BY <2>2, AddIsAllocate DEF malloc
  <2>3. ASSUME NEW c \in Client, NEW b \in live, free(c, b) PROVE [Blocks!Next]_live
    BY <2>3, DropIsFree DEF free
  <2>4. ASSUME NEW c \in Client, NEW b \in live, NEW size, realloc(c, b, size)
        PROVE  [Blocks!Next]_live
    <3>1. CASE live' = live
      BY <3>1
    <3>2. CASE live' = (live \ {b}) \cup {Block(b.ptr, size)}
      <4>1. Unique /\ b = Block(b.ptr, b.size)
        BY DEF IInv, LiveOK, Unique
      <4> QED
        BY <3>2, <4>1, ResizeIsResize
    <3> QED
      BY <2>4, <3>1, <3>2 DEF realloc
  <2>5. ASSUME NEW c \in Client, ReallocMalloc(c) PROVE [Blocks!Next]_live
    <3>1. CASE live' = live
      BY <3>1
    <3>2. ASSUME NEW b, live' = live \cup {b} PROVE [Blocks!Next]_live
      BY <3>2, AddIsAllocate
    <3> QED
      BY <2>5, <3>1, <3>2 DEF ReallocMalloc
  <2>6. ASSUME NEW c \in Client, ReallocFree(c) PROVE [Blocks!Next]_live
    <3>1. re[c].block \in live /\ live' = live \ {re[c].block}
      <4>1. ReOK(re[c]) /\ re[c].step = "free"
        BY <2>6 DEF IInv, ReallocOK, ReallocFree
      <4>2. re[c].block \in live
        BY <4>1 DEF ReOK, NotInRealloc
      <4> QED
        BY <2>6, <4>2 DEF ReallocFree
    <3> QED
      BY <3>1, DropIsFree
  <2> QED
    BY <2>1, <2>2, <2>3, <2>4, <2>5, <2>6 DEF Next, calloc, ReallocZero
<1>3. IInv => AllFit
  BY AllBlocksFit
<1> QED
  BY <1>1, <1>2, <1>3, Invariance, PTL DEF Spec, Blocks!Spec, ImplementsAllocator
==============================================================================
