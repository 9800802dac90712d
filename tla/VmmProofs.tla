------------------------------ MODULE VmmProofs ------------------------------
(***************************************************************************)
(* The page tables of src/src/vmm.c, for tables and pages of any size and  *)
(* any layout of the regions that respects LayoutAssumption: the kernel's  *)
(* map is the identity with the right attributes, a region that was mapped *)
(* translates to where it was asked to, and only tables are written.       *)
(*                                                                         *)
(* The tables are a tree of three levels.  The invariant IInv says that    *)
(* every table is reached in one way (OneWay): writing an entry then moves *)
(* the page or the block of that entry and no other, and linking a new,    *)
(* empty table moves nothing.  A block is never replaced by a table since  *)
(* no region has single pages where another one has a block                *)
(* (NoPageInBlock).  Progress is told by regions: those done are mapped,   *)
(* the one being mapped is mapped up to the loop's position, and nothing   *)
(* else is mapped at all.                                                  *)
(***************************************************************************)
EXTENDS VmmLayout, Division, FiniteSetTheorems, SequenceTheorems, TLAPS

\* Entries: one that leads to a table has no attributes, the others have some.
Entry == [bit1 : BOOLEAN, out : Pages \cup {NULL}, attr : SUBSET {"NORMAL", "PXN", "RO"}]
Ptr(f) == [bit1 |-> TRUE, out |-> f, attr |-> {}]
Leaf(e, b) == e.bit1 = b /\ e.attr # {}

\* Memory, and that nothing but tables was written.
MemOK(m) ==
  /\ m \in [cell : [Pages -> [Idx -> Entry]], used : SUBSET Pages, tables : SUBSET Pages]
  /\ m.tables \subseteq m.used
  /\ \A f \in Pages \ m.tables : m.cell[f] = NoEntries

\* The entries of the three levels, from the root rt.
Level1(m, rt) == \A i \in Idx : m.cell[rt][i] = NoEntry \/ \E f \in m.tables : m.cell[rt][i] = Ptr(f)
Level2(m, f) ==
  \A j \in Idx : \/ m.cell[f][j] = NoEntry \/ Leaf(m.cell[f][j], FALSE)
                 \/ \E g \in m.tables : m.cell[f][j] = Ptr(g)
Level3(m, g) == \A l \in Idx : m.cell[g][l] = NoEntry \/ Leaf(m.cell[g][l], TRUE)

\* Entries lead to tables, no two to the same and none to the root.
OneWay(m, rt) ==
  /\ \A f \in m.tables, i \in Idx, h \in Pages : m.cell[f][i] = Ptr(h) => h \in m.tables /\ h # rt
  /\ \A f, g, h \in m.tables, i, j \in Idx :
       m.cell[f][i] = Ptr(h) /\ m.cell[g][j] = Ptr(h) => f = g /\ i = j

TreeOK(m, rt) ==
  /\ MemOK(m) /\ rt \in m.tables
  /\ Level1(m, rt)
  /\ \A i \in Idx, f \in m.tables : m.cell[rt][i] = Ptr(f) => Level2(m, f)
  /\ \A i, j \in Idx, f, g \in m.tables :
       m.cell[rt][i] = Ptr(f) /\ m.cell[f][j] = Ptr(g) => Level3(m, g)
  /\ OneWay(m, rt)

\* What the walk from rt makes of page v, and whether it ends at a block.
Walk(c, rt, v) ==
  LET e1 == c[rt][L1(v)]
      e2 == c[e1.out][L2(v)]
      e3 == c[e2.out][L3(v)]
  IN  IF e1 = NoEntry \/ e2 = NoEntry THEN NULL
      ELSE IF ~e2.bit1 THEN <<e2.out + L3(v), e2.attr>>
      ELSE IF e3 = NoEntry THEN NULL
      ELSE <<e3.out, e3.attr>>
InBlock(c, rt, v) ==
  /\ c[rt][L1(v)] # NoEntry
  /\ c[c[rt][L1(v)].out][L2(v)] # NoEntry
  /\ ~c[c[rt][L1(v)].out][L2(v)].bit1

\* The region r is mapped up to its page k: the loop has not stepped into a
\* block that it maps as one.
At(r, k) ==
  /\ k \in Nat /\ PageSize * k < r.size + PageSize
  /\ AsBlock(r, (PageOf(r.virt) + k) \div E) => (PageOf(r.virt) + k) % E = 0

\* The regions that can be mapped.  Below, B stands for BootRegions and S for
\* Mappable, c for the entries in memory, td, n and p for todo, mapped and pc.
Mappable == Wanted(ram) \cup {HeapRegion} \cup Later

\* What is a block once d regions are mapped: at first only what the kernel has.
BlocksOf(B, S, d, b) == IF d = 0 THEN AsBlock(B[1], b) ELSE \E r \in S : AsBlock(r, b)

\* Page v is among the first d regions or the first n bytes of the next one.
Reached(B, v, d, n) ==
  \/ \E i \in 1 .. d : In(v, B[i])
  \/ d < Len(B) /\ In(v, [B[d + 1] EXCEPT !.size = n])

\* The pages reached are mapped to themselves and no others are, later
\* regions aside.
Progress(B, c, rt, d, n) ==
  \A v \in Pages :
    \/ \E r \in Later : In(v, r)
    \/ IF Reached(B, v, d, n)
       THEN \A i \in 1 .. Len(B) : In(v, B[i]) => Walk(c, rt, v) = <<v, Attr(B[i].flags)>>
       ELSE Walk(c, rt, v) = NULL

\* Boot has d regions behind it and the others still to do, or is over.
Booting(B, td, d) ==
  /\ d \in 0 .. Len(B) - 1
  /\ td \in Seq([virt : Nat, phys : Nat, size : Nat, flags : SUBSET Flag])
  /\ Len(td) = Len(B) - d
  /\ \A i \in 1 .. Len(td) : td[i] = B[d + i]
Booted(B, td, p, d) ==
  /\ d = Len(B)
  /\ IF p = "ready" THEN td = <<>> ELSE \E r \in Later : td = <<r>>

Phase(B, S, c, rt, td, n, p, d) ==
  /\ (p = "map" /\ Booting(B, td, d)) \/ Booted(B, td, p, d)
  /\ Progress(B, c, rt, d, IF d < Len(B) THEN n ELSE 0)
  /\ \A v \in Pages : InBlock(c, rt, v) => BlocksOf(B, S, d, v \div E)

\* The first n bytes of r are mapped as asked.
Maps(r, n, c, rt) ==
  \A v \in Pages : In(v, [r EXCEPT !.size = n]) =>
    Walk(c, rt, v) = <<PageOf(r.phys) + v - PageOf(r.virt), Attr(r.flags)>>

Running(B, S, c, rt, td, n, p) ==
  /\ p \in {"map", "ready"}
  /\ \E d \in 0 .. Len(B) : Phase(B, S, c, rt, td, n, p, d)
  /\ IF p = "ready" THEN n = 0
     ELSE /\ \E k \in Nat : n = PageSize * k /\ At(Head(td), k)
          /\ Maps(Head(td), n, c, rt)

SizesOK == ram \in RamSizes /\ kernel \in KernelSizes
Started ==
  /\ pc = "boot" /\ root = NULL /\ mapped = 0 /\ MemOK(mm) /\ mm.tables = {}
  /\ mm.used = {f \in Pages : RamBase <= f * PageSize /\ f * PageSize < ReservedEnd(kernel)}

\* The inductive invariant.
IInv ==
  /\ SizesOK
  /\ \/ Started
     \/ /\ TreeOK(mm, root)
        /\ pc = "hung" \/ Running(BootRegions, Mappable, mm.cell, root, todo, mapped, pc)
------------------------------------------------------------------------------
\* What the proofs use of the constants.
LEMMA VmmSizes ==
  /\ E \in Nat \ {0} /\ PageSize \in Nat \ {0} /\ RamBase \in Nat /\ PmmTables \in Nat
  /\ NULL \notin Nat /\ NULL \notin Pages /\ Pages \subseteq Nat /\ Idx = 0 .. E - 1
  /\ E * E \in Nat \ {0} /\ BlockSize \in Nat \ {0}
<1>1. /\ E \in Nat \ {0} /\ PageSize \in Nat \ {0} /\ RamBase \in Nat /\ PmmTables \in Nat
      /\ NULL \notin Nat
  BY VmmAssumption, LayoutAssumption
<1>2. NULL \notin Pages /\ Pages \subseteq Nat
  BY <1>1 DEF Pages
<1>3. E * E \in Nat \ {0} /\ E * PageSize \in Nat \ {0}
  BY <1>1
<1> QED
  BY <1>1, <1>2, <1>3 DEF Idx, BlockSize

\* The three indices of a page.
LEMMA IndexOf ==
  ASSUME NEW v \in Pages
  PROVE  \E q, s, r \in Idx : /\ L1(v) = q /\ L2(v) = s /\ L3(v) = r
                              /\ v \div E = E * q + s /\ v = E * (E * q + s) + r
<1>1. PICK m \in Nat \ {0} : m = E /\ Idx = 0 .. m - 1 /\ m * m \in Nat \ {0}
  BY VmmSizes
<1>2. v \in Nat /\ v < m * m * m
  BY <1>1, VmmSizes DEF Pages
<1>3. PICK d \in Nat, r \in 0 .. m - 1 : d = v \div m /\ r = v % m /\ v = m * d + r
  BY <1>2, Divided
<1>4. PICK q \in Nat, s \in 0 .. m - 1 : q = d \div m /\ s = d % m /\ d = m * q + s
  BY Divided
<1>5. PICK n \in Nat \ {0} : n = m * m
  BY <1>1
<1>6. m * s + r \in 0 .. n - 1
  <2>1. s < m /\ m * s + m <= m * m /\ m * s \in Nat
    <3>1. s < m
      OBVIOUS
    <3> QED
      BY <3>1, Times
  <2> QED
    BY <1>5, <2>1
<1>7. v = n * q + (m * s + r)
  <2>1. m * (m * q + s) = (m * m) * q + m * s
    OBVIOUS
  <2>2. m * s \in Nat /\ (m * m) * q \in Nat
    OBVIOUS
  <2> QED
    BY <1>3, <1>4, <1>5, <2>1, <2>2
<1>8. PICK y \in 0 .. n - 1 : y = m * s + r
  BY <1>6
<1>9. v \div n = q
  BY <1>7, <1>8, Quotients
<1>10. q \in 0 .. m - 1
  <2>1. ASSUME m <= q PROVE FALSE
    <3>1. n * m <= n * q
      <4>1. CASE m = q
        BY <4>1
      <4>2. CASE m < q
        <5>1. n * m + n <= n * q
          BY <4>2, Times
        <5>2. n * m \in Nat /\ n * q \in Nat
          OBVIOUS
        <5> QED
          BY <5>1, <5>2
      <4> QED
        BY <2>1, <4>1, <4>2
    <3>2. n * m = m * m * m /\ n * m \in Nat /\ n * q \in Nat
      BY <1>5
    <3> QED
      BY <1>2, <1>7, <1>8, <3>1, <3>2
  <2> QED
    BY <2>1
<1>11. L1(v) = q
  <2>1. L1(v) = q % m
    BY <1>1, <1>5, <1>9 DEF L1
  <2> QED
    BY <1>10, <2>1, SmallRemainder
<1>12. L2(v) = s
  BY <1>1, <1>3, <1>4 DEF L2
<1>13. L3(v) = r
  BY <1>1, <1>3 DEF L3
<1> QED
  BY <1>1, <1>3, <1>4, <1>10, <1>11, <1>12, <1>13

\* The indices are indices.
LEMMA IndexType ==
  ASSUME NEW v \in Pages
  PROVE  L1(v) \in Idx /\ L2(v) \in Idx /\ L3(v) \in Idx
BY IndexOf

\* Pages with the same first two indices are in one block, and the third one
\* tells them apart.
LEMMA SameIndices ==
  ASSUME NEW v \in Pages, NEW w \in Pages
  PROVE  /\ L1(v) = L1(w) /\ L2(v) = L2(w) <=> v \div E = w \div E
         /\ L1(v) = L1(w) /\ L2(v) = L2(w) /\ L3(v) = L3(w) <=> v = w
<1>1. PICK q \in Idx, s \in Idx, r \in Idx :
        L1(v) = q /\ L2(v) = s /\ L3(v) = r /\ v \div E = E * q + s /\ v = E * (E * q + s) + r
  BY IndexOf
<1>2. PICK x \in Idx, y \in Idx, z \in Idx :
        L1(w) = x /\ L2(w) = y /\ L3(w) = z /\ w \div E = E * x + y /\ w = E * (E * x + y) + z
  BY IndexOf
<1>3. PICK m \in Nat \ {0} : m = E /\ Idx = 0 .. m - 1
  BY VmmSizes
<1>4. ASSUME v \div E = w \div E PROVE q = x /\ s = y
  <2>1. q \in Nat /\ x \in Nat /\ s \in 0 .. m - 1 /\ y \in 0 .. m - 1
    BY <1>3
  <2>2. (m * q + s) % m = s /\ (m * q + s) \div m = q
    BY <2>1, Quotients
  <2>3. (m * x + y) % m = y /\ (m * x + y) \div m = x
    BY <2>1, Quotients
  <2> QED
    BY <1>1, <1>2, <1>3, <1>4, <2>2, <2>3
<1> QED
  BY <1>1, <1>2, <1>4
------------------------------------------------------------------------------
\* n is m with entry e at index i of table t, and with one more table or not.
Written(n, m, t, i, e, T) ==
  /\ MemOK(n) /\ n.tables = T
  /\ \A f \in Pages, j \in Idx : n.cell[f][j] = IF f = t /\ j = i THEN e ELSE m.cell[f][j]

\* The parts of a memory.
LEMMA MemParts ==
  ASSUME NEW m, MemOK(m)
  PROVE  /\ m.cell \in [Pages -> [Idx -> Entry]] /\ m.used \in SUBSET Pages
         /\ m.tables \in SUBSET Pages /\ m.tables \subseteq m.used
         /\ m = [cell |-> m.cell, used |-> m.used, tables |-> m.tables]
         /\ \A f \in Pages : m.cell[f] \in [Idx -> Entry]
         /\ \A f \in Pages, i \in Idx : m.cell[f][i] \in Entry
         /\ \A f \in Pages \ m.tables, i \in Idx : m.cell[f][i] = NoEntry
<1>1. /\ m.cell \in [Pages -> [Idx -> Entry]] /\ m.used \in SUBSET Pages
      /\ m.tables \in SUBSET Pages /\ m.tables \subseteq m.used
      /\ m = [cell |-> m.cell, used |-> m.used, tables |-> m.tables]
  BY DEF MemOK
<1>2. \A f \in Pages \ m.tables, i \in Idx : m.cell[f][i] = NoEntry
  BY DEF MemOK, NoEntries
<1> QED
  BY <1>1, <1>2

\* Entries of the two kinds.
LEMMA EntryTypes ==
  /\ NoEntry \in Entry
  /\ \A f \in Pages : Ptr(f) \in Entry /\ Ptr(f) # NoEntry /\ Ptr(f).bit1 /\ Ptr(f).out = f
                      /\ ~Leaf(Ptr(f), TRUE) /\ ~Leaf(Ptr(f), FALSE)
  /\ ~Leaf(NoEntry, TRUE) /\ ~Leaf(NoEntry, FALSE)
  /\ \A f, g \in Pages : Ptr(f) = Ptr(g) => f = g
BY DEF Entry, NoEntry, Ptr, Leaf

\* Writing an entry to a table.
LEMMA StoreIs ==
  ASSUME NEW m, MemOK(m), NEW t \in m.tables, NEW i \in Idx, NEW e \in Entry
  PROVE  Written(Store(m, t, i, e), m, t, i, e, m.tables)
<1>1. PICK c \in [Pages -> [Idx -> Entry]] : c = m.cell
  BY MemParts
<1>2. t \in Pages /\ m.tables \in SUBSET Pages /\ m.used \in SUBSET Pages /\ m.tables \subseteq m.used
  BY MemParts
<1>3. PICK row \in [Idx -> Entry] : row = [c[t] EXCEPT ![i] = e]
  BY <1>2
<1>4. PICK d \in [Pages -> [Idx -> Entry]] : d = [c EXCEPT ![t] = row]
  OBVIOUS
<1>5. Store(m, t, i, e) = [cell |-> d, used |-> m.used, tables |-> m.tables]
  <2>1. PICK u, T : u = m.used /\ T = m.tables
    OBVIOUS
  <2>2. m = [cell |-> c, used |-> u, tables |-> T]
    BY <1>1, <2>1, MemParts
  <2>3. Store(m, t, i, e) = [m EXCEPT !.cell = d]
    BY <1>1, <1>3, <1>4 DEF Store
  <2>4. [m EXCEPT !.cell = d] = [cell |-> d, used |-> u, tables |-> T]
    BY <2>2
  <2> QED
    BY <2>1, <2>3, <2>4
<1>6. \A f \in Pages, j \in Idx : d[f][j] = IF f = t /\ j = i THEN e ELSE c[f][j]
  BY <1>2, <1>3, <1>4
<1>7. \A f \in Pages \ m.tables : d[f] = NoEntries
  BY <1>1, <1>2, <1>4 DEF MemOK
<1>8. MemOK([cell |-> d, used |-> m.used, tables |-> m.tables])
  BY <1>2, <1>7 DEF MemOK
<1> QED
  BY <1>1, <1>5, <1>6, <1>8 DEF Written

\* A frame becomes a table: it held no entry before.
LEMMA NewTableIs ==
  ASSUME NEW m, MemOK(m), NEW f \in Pages \ m.used
  PROVE  /\ MemOK(NewTable(m, f)) /\ NewTable(m, f).cell = m.cell
         /\ NewTable(m, f).tables = m.tables \cup {f}
<1>1. PICK c \in [Pages -> [Idx -> Entry]] : c = m.cell
  BY MemParts
<1>2. m.tables \in SUBSET Pages /\ m.used \in SUBSET Pages /\ m.tables \subseteq m.used
  BY MemParts
<1>3. c[f] = NoEntries
  BY <1>1, <1>2 DEF MemOK
<1>4. [c EXCEPT ![f] = NoEntries] = c
  BY <1>3
<1>5. NewTable(m, f) = [cell |-> c, used |-> m.used \cup {f}, tables |-> m.tables \cup {f}]
  BY <1>1, <1>4 DEF NewTable
<1>6. \A g \in Pages \ (m.tables \cup {f}) : c[g] = NoEntries
  BY <1>1 DEF MemOK
<1>7. MemOK([cell |-> c, used |-> m.used \cup {f}, tables |-> m.tables \cup {f}])
  BY <1>2, <1>6 DEF MemOK
<1> QED
  BY <1>1, <1>5, <1>7

\* Linking a new table.
LEMMA LinkIs ==
  ASSUME NEW m, MemOK(m), NEW t \in m.tables, NEW i \in Idx, NEW f \in Pages \ m.used
  PROVE  Written(Store(NewTable(m, f), t, i, Ptr(f)), m, t, i, Ptr(f), m.tables \cup {f})
<1>1. PICK n : n = NewTable(m, f)
  OBVIOUS
<1>2. MemOK(n) /\ n.cell = m.cell /\ n.tables = m.tables \cup {f} /\ t \in n.tables
  BY <1>1, NewTableIs
<1>3. Ptr(f) \in Entry
  BY EntryTypes
<1>4. Written(Store(n, t, i, Ptr(f)), n, t, i, Ptr(f), n.tables)
  BY <1>2, <1>3, StoreIs
<1>5. Written(Store(n, t, i, Ptr(f)), m, t, i, Ptr(f), m.tables \cup {f})
  BY <1>2, <1>4 DEF Written
<1> QED
  BY <1>1, <1>5
------------------------------------------------------------------------------
\* Nothing is mapped differently.
SameView(n, m, rt) ==
  \A v \in Pages : /\ Walk(n.cell, rt, v) = Walk(m.cell, rt, v)
                   /\ InBlock(n.cell, rt, v) <=> InBlock(m.cell, rt, v)

\* The tables on the way to a page.
LEMMA TreeParts ==
  ASSUME NEW m, NEW rt, TreeOK(m, rt)
  PROVE  /\ MemOK(m) /\ rt \in m.tables /\ m.tables \in SUBSET Pages /\ rt \in Pages
         /\ \A i \in Idx : m.cell[rt][i] = NoEntry \/ \E f \in m.tables : m.cell[rt][i] = Ptr(f)
         /\ \A i \in Idx, f \in m.tables : m.cell[rt][i] = Ptr(f) => f # rt /\ Level2(m, f)
         /\ \A i, j \in Idx, f, g \in m.tables :
              m.cell[rt][i] = Ptr(f) /\ m.cell[f][j] = Ptr(g) => g # rt /\ g # f /\ Level3(m, g)
<1>1. MemOK(m) /\ rt \in m.tables /\ m.tables \in SUBSET Pages /\ rt \in Pages
  BY MemParts DEF TreeOK
<1>2. ASSUME NEW i \in Idx, NEW f \in m.tables, m.cell[rt][i] = Ptr(f) PROVE f # rt /\ Level2(m, f)
  BY <1>1, <1>2 DEF TreeOK, OneWay
<1>3. ASSUME NEW i \in Idx, NEW j \in Idx, NEW f \in m.tables, NEW g \in m.tables,
             m.cell[rt][i] = Ptr(f), m.cell[f][j] = Ptr(g)
      PROVE  g # rt /\ g # f /\ Level3(m, g)
  <2>1. g # rt /\ Level3(m, g) /\ f # rt
    BY <1>1, <1>3 DEF TreeOK, OneWay
  <2>2. ASSUME g = f PROVE f = rt
    BY <1>1, <1>3, <2>2 DEF TreeOK, OneWay
  <2> QED
    BY <2>1, <2>2
<1> QED
  BY <1>1, <1>2, <1>3 DEF TreeOK, Level1

\* A table that is as it was is of the same level.
LEMMA SameTable ==
  ASSUME NEW m, NEW n, NEW g, \A k \in Idx : n.cell[g][k] = m.cell[g][k], m.tables \subseteq n.tables
  PROVE  (Level2(m, g) => Level2(n, g)) /\ (Level3(m, g) => Level3(n, g))
<1>1. ASSUME Level2(m, g) PROVE Level2(n, g)
  <2> SUFFICES ASSUME NEW k \in Idx
               PROVE  \/ n.cell[g][k] = NoEntry \/ Leaf(n.cell[g][k], FALSE)
                      \/ \E h \in n.tables : n.cell[g][k] = Ptr(h)
    BY DEF Level2
  <2>1. PICK e : e = m.cell[g][k] /\ e = n.cell[g][k]
    OBVIOUS
  <2>2. e = NoEntry \/ Leaf(e, FALSE) \/ \E h \in m.tables : e = Ptr(h)
    BY <1>1, <2>1 DEF Level2
  <2> QED
    BY <2>1, <2>2
<1>2. ASSUME Level3(m, g) PROVE Level3(n, g)
  BY <1>2 DEF Level3
<1> QED
  BY <1>1, <1>2

\* Linking a new table keeps every table with one way to it.
LEMMA LinkedOneWay ==
  ASSUME NEW m, NEW rt, MemOK(m), rt \in m.tables, OneWay(m, rt), NEW t \in m.tables, NEW i \in Idx,
         NEW f \in Pages \ m.used, NEW n, Written(n, m, t, i, Ptr(f), m.tables \cup {f})
  PROVE  OneWay(n, rt)
<1>1. /\ m.tables \in SUBSET Pages /\ f \notin m.tables
      /\ MemOK(n) /\ n.tables = m.tables \cup {f} /\ f # rt /\ f # t
      /\ \A j \in Idx : m.cell[f][j] = NoEntry
  BY MemParts DEF Written
<1>2. /\ \A g \in Pages, j \in Idx : ~(g = t /\ j = i) => n.cell[g][j] = m.cell[g][j]
      /\ n.cell[t][i] = Ptr(f)
      /\ \A j \in Idx : n.cell[f][j] = NoEntry
  BY <1>1 DEF Written
<1>3. \A g \in m.tables, j \in Idx : m.cell[g][j] # Ptr(f)
  BY <1>1 DEF OneWay
<1>4. ASSUME NEW g \in n.tables, NEW j \in Idx, NEW h \in Pages, n.cell[g][j] = Ptr(h)
      PROVE  /\ h \in n.tables /\ h # rt
             /\ (h = f /\ g = t /\ j = i) \/ (h # f /\ g \in m.tables /\ m.cell[g][j] = Ptr(h))
  <2>1. CASE g = f
    BY <1>2, <1>4, <2>1, EntryTypes
  <2>2. CASE g = t /\ j = i
    BY <1>1, <1>2, <1>4, <2>2, EntryTypes
  <2>3. CASE g # f /\ ~(g = t /\ j = i)
    <3>1. g \in m.tables /\ m.cell[g][j] = Ptr(h)
      BY <1>1, <1>2, <1>4, <2>3
    <3> QED
      BY <1>1, <1>3, <3>1 DEF OneWay
  <2> QED
    BY <2>1, <2>2, <2>3
<1>5. n.tables \in SUBSET Pages
  BY <1>1
<1>6. ASSUME NEW g \in n.tables, NEW h \in n.tables, NEW k \in n.tables, NEW j \in Idx, NEW l \in Idx,
             n.cell[g][j] = Ptr(k), n.cell[h][l] = Ptr(k)
      PROVE  g = h /\ j = l
  <2>1. k \in Pages
    BY <1>5
  <2>2. CASE k = f
    BY <1>4, <1>6, <2>1, <2>2
  <2>3. CASE k # f
    <3>1. /\ g \in m.tables /\ m.cell[g][j] = Ptr(k)
          /\ h \in m.tables /\ m.cell[h][l] = Ptr(k) /\ k \in m.tables
      BY <1>1, <1>4, <1>6, <2>1, <2>3
    <3> QED
      BY <3>1 DEF OneWay
  <2> QED
    BY <2>2, <2>3
<1> QED
  BY <1>4, <1>6 DEF OneWay

\* A new table in an empty entry of the root.
LEMMA LinkedFromRoot ==
  ASSUME NEW m, NEW rt, TreeOK(m, rt), NEW i \in Idx, m.cell[rt][i] = NoEntry,
         NEW f \in Pages \ m.used, NEW n, Written(n, m, rt, i, Ptr(f), m.tables \cup {f})
  PROVE  TreeOK(n, rt) /\ SameView(n, m, rt)
<1>1. /\ MemOK(m) /\ rt \in m.tables /\ m.tables \in SUBSET Pages /\ rt \in Pages /\ f \notin m.tables
      /\ MemOK(n) /\ n.tables = m.tables \cup {f} /\ f # rt
      /\ \A j \in Idx : m.cell[f][j] = NoEntry
  BY TreeParts, MemParts DEF Written
<1>2. /\ \A g \in Pages \ {rt}, j \in Idx : n.cell[g][j] = m.cell[g][j]
      /\ \A j \in Idx \ {i} : n.cell[rt][j] = m.cell[rt][j]
      /\ n.cell[rt][i] = Ptr(f)
      /\ \A j \in Idx : n.cell[f][j] = NoEntry
  BY <1>1 DEF Written
<1>3. \A g \in m.tables, j \in Idx : m.cell[g][j] # Ptr(f)
  BY <1>1 DEF TreeOK, OneWay
<1>4. Level1(n, rt)
  BY <1>1, <1>2, TreeParts DEF Level1
<1>5. ASSUME NEW j \in Idx, NEW g \in n.tables, n.cell[rt][j] = Ptr(g) PROVE Level2(n, g)
  <2>1. CASE j = i
    <3>1. g = f
      BY <1>1, <1>2, <1>5, <2>1, EntryTypes
    <3> QED
      BY <1>2, <3>1 DEF Level2
  <2>2. CASE j # i
    <3>0. m.cell[rt][j] = Ptr(g) /\ rt \in m.tables
      BY <1>1, <1>2, <1>5, <2>2
    <3>1. m.cell[rt][j] = Ptr(g) /\ g \in m.tables
      <4>1. m.cell[rt][j] # Ptr(f)
        BY <1>3, <3>0
      <4>2. g # f
        BY <3>0, <4>1
      <4> QED
        BY <1>1, <3>0, <4>2
    <3>2. g # rt /\ Level2(m, g)
      BY <3>1, TreeParts
    <3>3. \A k \in Idx : n.cell[g][k] = m.cell[g][k]
      BY <1>1, <1>2, <3>1, <3>2
    <3> QED
      BY <1>1, <3>2, <3>3, SameTable
  <2> QED
    BY <2>1, <2>2
<1>6. ASSUME NEW j \in Idx, NEW k \in Idx, NEW g \in n.tables, NEW h \in n.tables,
             n.cell[rt][j] = Ptr(g), n.cell[g][k] = Ptr(h)
      PROVE  Level3(n, h)
  <2>0. h \in Pages /\ Ptr(h) # NoEntry
    BY <1>1, EntryTypes
  <2>1. g # f
    BY <1>2, <1>6, <2>0
  <2>2. j # i
    BY <1>1, <1>2, <1>6, <2>1, EntryTypes
  <2>3. m.cell[rt][j] = Ptr(g) /\ g \in m.tables
    BY <1>1, <1>2, <1>6, <2>1, <2>2
  <2>4. g # rt /\ g \in Pages
    BY <1>1, <2>3, TreeParts
  <2>5. m.cell[g][k] = Ptr(h) /\ h \in m.tables
    BY <1>1, <1>2, <1>3, <1>6, <2>3, <2>4
  <2>6. h # rt /\ Level3(m, h) /\ h \in Pages
    BY <1>1, <2>3, <2>5, TreeParts
  <2> QED
    BY <1>2, <2>6 DEF Level3
<1>7. OneWay(n, rt)
  BY <1>1, LinkedOneWay DEF TreeOK
<1>8. TreeOK(n, rt)
  BY <1>1, <1>4, <1>5, <1>6, <1>7 DEF TreeOK
<1>9. SameView(n, m, rt)
  <2> SUFFICES ASSUME NEW v \in Pages
               PROVE  /\ Walk(n.cell, rt, v) = Walk(m.cell, rt, v)
                      /\ InBlock(n.cell, rt, v) <=> InBlock(m.cell, rt, v)
    BY DEF SameView
  <2>1. PICK a \in Idx, b \in Idx, d \in Idx : a = L1(v) /\ b = L2(v) /\ d = L3(v)
    BY IndexType
  <2>2. CASE a = i
    <3>1. n.cell[rt][a] = Ptr(f) /\ n.cell[f][b] = NoEntry /\ Ptr(f).out = f /\ m.cell[rt][a] = NoEntry
      BY <1>2, <2>2, EntryTypes
    <3> QED
      BY <2>1, <3>1 DEF Walk, InBlock
  <2>3. CASE m.cell[rt][a] = NoEntry /\ a # i
    <3>1. n.cell[rt][a] = NoEntry
      BY <1>2, <2>3
    <3> QED
      BY <2>1, <2>3, <3>1 DEF Walk, InBlock
  <2>4. CASE m.cell[rt][a] # NoEntry
    <3>1. PICK g \in m.tables : m.cell[rt][a] = Ptr(g)
      BY <2>4, TreeParts
    <3>2. n.cell[rt][a] = Ptr(g) /\ Ptr(g).out = g /\ g # rt /\ Level2(m, g) /\ g \in Pages
      <4>1. a # i
        BY <2>4
      <4>2. n.cell[rt][a] = Ptr(g)
        BY <1>2, <3>1, <4>1
      <4>3. g # rt /\ Level2(m, g)
        BY <3>1, TreeParts
      <4>4. g \in Pages
        BY <1>1
      <4>5. Ptr(g).out = g
        BY <4>4, EntryTypes
      <4> QED
        BY <4>2, <4>3, <4>4, <4>5
    <3>3. PICK e : e = m.cell[g][b] /\ e = n.cell[g][b]
      BY <1>2, <3>2
    <3>4. CASE e = NoEntry \/ Leaf(e, FALSE)
      BY <2>1, <3>1, <3>2, <3>3, <3>4 DEF Walk, InBlock, Leaf
    <3>5. ASSUME NEW h \in m.tables, e = Ptr(h)
          PROVE  /\ Walk(n.cell, rt, v) = Walk(m.cell, rt, v)
                 /\ InBlock(n.cell, rt, v) <=> InBlock(m.cell, rt, v)
      <4>1. h # rt /\ h \in Pages /\ e # NoEntry /\ e.bit1 /\ e.out = h
        <5>1. h # rt
          <6>1. m.cell[g][b] = Ptr(h)
            BY <3>3, <3>5
          <6> QED
            BY <3>1, <6>1, TreeParts
        <5>2. h \in Pages
          BY <1>1
        <5>3. Ptr(h) # NoEntry /\ Ptr(h).bit1 /\ Ptr(h).out = h
          BY <5>2, EntryTypes
        <5> QED
          BY <3>5, <5>1, <5>2, <5>3, Zenon
      <4>2. n.cell[h][d] = m.cell[h][d]
        BY <1>2, <4>1
      <4> QED
        BY <2>1, <3>1, <3>2, <3>3, <4>1, <4>2 DEF Walk, InBlock
    <3> QED
      BY <3>2, <3>3, <3>4, <3>5 DEF Level2
  <2> QED
    BY <2>2, <2>3, <2>4
<1> QED
  BY <1>8, <1>9
------------------------------------------------------------------------------
\* The pages of one block, by the two indices of its entry.
Below(v, i, j) == L1(v) = i /\ L2(v) = j

\* A walk that goes by the same entries ends at the same place.
LEMMA SameWalk ==
  ASSUME NEW c, NEW d, NEW rt, NEW v, NEW e1, NEW e2, NEW k,
         c[rt][L1(v)] = e1, d[rt][L1(v)] = e1,
         e1 # NoEntry => /\ e1.out = k /\ c[k][L2(v)] = e2 /\ d[k][L2(v)] = e2
                         /\ e2 # NoEntry /\ e2.bit1 => c[e2.out][L3(v)] = d[e2.out][L3(v)]
  PROVE  Walk(d, rt, v) = Walk(c, rt, v) /\ (InBlock(d, rt, v) <=> InBlock(c, rt, v))
<1>1. CASE e1 = NoEntry
  BY <1>1 DEF Walk, InBlock
<1>2. CASE e1 # NoEntry /\ e2 = NoEntry
  BY <1>2 DEF Walk, InBlock
<1>3. CASE e1 # NoEntry /\ e2 # NoEntry /\ ~e2.bit1
  BY <1>3 DEF Walk, InBlock
<1>4. CASE e1 # NoEntry /\ e2 # NoEntry /\ e2.bit1
  BY <1>4 DEF Walk, InBlock
<1> QED
  BY <1>1, <1>2, <1>3, <1>4

\* A write to the entry of a table below the root is seen only below that entry.
LEMMA SeenBelow ==
  ASSUME NEW m, NEW rt, TreeOK(m, rt), NEW i \in Idx, NEW k \in m.tables, m.cell[rt][i] = Ptr(k),
         NEW j \in Idx, NEW e, NEW n, NEW T, Written(n, m, k, j, e, T),
         NEW v \in Pages, ~Below(v, i, j)
  PROVE  Walk(n.cell, rt, v) = Walk(m.cell, rt, v) /\ (InBlock(n.cell, rt, v) <=> InBlock(m.cell, rt, v))
<1>1. PICK a \in Idx, b \in Idx, d \in Idx : a = L1(v) /\ b = L2(v) /\ d = L3(v)
  BY IndexType
<1>2. rt \in Pages /\ k \in Pages /\ m.tables \in SUBSET Pages /\ k # rt /\ rt \in m.tables
  BY TreeParts
<1>3. \A f \in Pages, l \in Idx : ~(f = k /\ l = j) => n.cell[f][l] = m.cell[f][l]
  BY DEF Written
<1>4. n.cell[rt][a] = m.cell[rt][a]
  BY <1>2, <1>3
<1>5. CASE m.cell[rt][a] = NoEntry
  BY <1>1, <1>4, <1>5, SameWalk
<1>6. CASE m.cell[rt][a] # NoEntry
  <2>1. PICK g \in m.tables : m.cell[rt][a] = Ptr(g)
    BY <1>6, TreeParts
  <2>2. g \in Pages /\ g # rt /\ Level2(m, g)
    BY <1>2, <2>1, TreeParts
  <2>3. Ptr(g).out = g
    BY <2>2, EntryTypes
  <2>4. ~(g = k /\ b = j)
    <3>1. ASSUME g = k PROVE a = i
      BY <1>2, <2>1, <3>1 DEF TreeOK, OneWay
    <3> QED
      BY <1>1, <3>1 DEF Below
  <2>5. PICK x : x = m.cell[g][b] /\ x = n.cell[g][b]
    BY <1>3, <2>2, <2>4
  <2>6. ASSUME x # NoEntry, x.bit1 PROVE n.cell[x.out][d] = m.cell[x.out][d]
    <3>1. PICK h \in m.tables : x = Ptr(h)
      BY <2>2, <2>5, <2>6 DEF Level2, Leaf
    <3>2. h \in Pages
      BY <1>2
    <3>3. x.out = h
      BY <3>1, <3>2, EntryTypes
    <3>4. h # k
      <4>1. ASSUME h = k PROVE g = rt
        <5>1. m.cell[g][b] = Ptr(k)
          BY <2>5, <3>1, <4>1
        <5> QED
          BY <1>2, <5>1 DEF TreeOK, OneWay
      <4> QED
        BY <2>2, <4>1
    <3> QED
      BY <1>3, <3>2, <3>3, <3>4
  <2> QED
    <3>1. PICK y : y = m.cell[rt][a] /\ y.out = g
      BY <2>1, <2>3
    <3>2. n.cell[rt][a] = y
      BY <1>4, <3>1
    <3>3. PICK c, s : c = m.cell /\ s = n.cell
      OBVIOUS
    <3>4. /\ c[rt][L1(v)] = y /\ s[rt][L1(v)] = y
          /\ y # NoEntry => /\ y.out = g /\ c[g][L2(v)] = x /\ s[g][L2(v)] = x
                            /\ x # NoEntry /\ x.bit1 => c[x.out][L3(v)] = s[x.out][L3(v)]
      BY <1>1, <2>5, <2>6, <3>1, <3>2, <3>3
    <3>5. Walk(s, rt, v) = Walk(c, rt, v) /\ (InBlock(s, rt, v) <=> InBlock(c, rt, v))
      BY <3>4, SameWalk
    <3> QED
      BY <3>3, <3>5
<1> QED
  BY <1>5, <1>6

\* A new table in an empty entry of a table below the root.
LEMMA LinkedFromTable ==
  ASSUME NEW m, NEW rt, TreeOK(m, rt), NEW i \in Idx, NEW k \in m.tables, m.cell[rt][i] = Ptr(k),
         NEW j \in Idx, m.cell[k][j] = NoEntry,
         NEW f \in Pages \ m.used, NEW n, Written(n, m, k, j, Ptr(f), m.tables \cup {f})
  PROVE  TreeOK(n, rt) /\ SameView(n, m, rt)
<1>1. /\ MemOK(m) /\ rt \in m.tables /\ m.tables \in SUBSET Pages /\ rt \in Pages /\ f \notin m.tables
      /\ MemOK(n) /\ n.tables = m.tables \cup {f} /\ f # rt /\ f # k /\ k # rt /\ k \in Pages
      /\ m.tables \subseteq n.tables
      /\ \A l \in Idx : m.cell[f][l] = NoEntry
  BY TreeParts, MemParts DEF Written
<1>2. /\ \A g \in Pages, l \in Idx : ~(g = k /\ l = j) => n.cell[g][l] = m.cell[g][l]
      /\ n.cell[k][j] = Ptr(f)
      /\ \A l \in Idx : n.cell[f][l] = NoEntry
      /\ \A l \in Idx : n.cell[rt][l] = m.cell[rt][l]
  BY <1>1 DEF Written
<1>3. \A g \in m.tables, l \in Idx : m.cell[g][l] # Ptr(f)
  BY <1>1 DEF TreeOK, OneWay
<1>4. Level1(n, rt)
  BY <1>1, <1>2, TreeParts DEF Level1
<1>5. ASSUME NEW l \in Idx, NEW g \in n.tables, n.cell[rt][l] = Ptr(g)
      PROVE  m.cell[rt][l] = Ptr(g) /\ g \in m.tables /\ g \in Pages /\ g # rt /\ Level2(n, g)
  <2>1. m.cell[rt][l] = Ptr(g)
    BY <1>2, <1>5
  <2>2. g # f
    BY <1>1, <1>3, <2>1
  <2>3. g \in m.tables /\ g \in Pages
    BY <1>1, <2>2
  <2>4. g # rt /\ Level2(m, g)
    BY <2>1, <2>3, TreeParts
  <2>5. CASE g = k
    <3> SUFFICES ASSUME NEW z \in Idx
                 PROVE  \/ n.cell[g][z] = NoEntry \/ Leaf(n.cell[g][z], FALSE)
                        \/ \E h \in n.tables : n.cell[g][z] = Ptr(h)
      BY <2>1, <2>3, <2>4 DEF Level2
    <3>1. CASE z = j
      BY <1>1, <1>2, <2>5, <3>1
    <3>2. CASE z # j
      <4>1. PICK e : e = m.cell[g][z] /\ e = n.cell[g][z]
        BY <1>2, <2>3, <3>2
      <4>2. e = NoEntry \/ Leaf(e, FALSE) \/ \E h \in m.tables : e = Ptr(h)
        BY <2>4, <4>1 DEF Level2
      <4> QED
        BY <1>1, <4>1, <4>2
    <3> QED
      BY <3>1, <3>2
  <2>6. CASE g # k
    <3>1. \A z \in Idx : n.cell[g][z] = m.cell[g][z]
      BY <1>2, <2>3, <2>6
    <3>2. Level2(n, g)
      BY <1>1, <2>4, <3>1, SameTable
    <3> QED
      BY <2>1, <2>3, <2>4, <3>2
  <2> QED
    BY <2>5, <2>6
<1>6. ASSUME NEW l \in Idx, NEW z \in Idx, NEW g \in n.tables, NEW h \in n.tables,
             n.cell[rt][l] = Ptr(g), n.cell[g][z] = Ptr(h)
      PROVE  Level3(n, h)
  <2>1. m.cell[rt][l] = Ptr(g) /\ g \in m.tables /\ g \in Pages /\ g # rt
    BY <1>5, <1>6
  <2>2. CASE g = k /\ z = j
    <3>1. h \in Pages /\ Ptr(h) = Ptr(f)
      BY <1>1, <1>2, <1>6, <2>2
    <3>2. h = f
      BY <3>1, EntryTypes
    <3> QED
      BY <1>2, <3>2 DEF Level3
  <2>3. CASE ~(g = k /\ z = j)
    <3>1. m.cell[g][z] = Ptr(h)
      BY <1>2, <1>6, <2>1, <2>3
    <3>2. h # f
      BY <1>3, <2>1, <3>1
    <3>3. h \in m.tables /\ h \in Pages
      BY <1>1, <3>2
    <3>4. h # rt /\ Level3(m, h)
      BY <2>1, <3>1, <3>3, TreeParts
    <3>5. h # k
      <4>1. ASSUME h = k PROVE g = rt
        <5>1. m.cell[g][z] = Ptr(k)
          BY <3>1, <4>1
        <5> QED
          BY <1>1, <2>1, <5>1 DEF TreeOK, OneWay
      <4> QED
        BY <2>1, <4>1
    <3>6. \A x \in Idx : n.cell[h][x] = m.cell[h][x]
      BY <1>2, <3>3, <3>5
    <3> QED
      BY <1>1, <3>4, <3>6, SameTable
  <2> QED
    BY <2>2, <2>3
<1>7. OneWay(n, rt)
  BY <1>1, LinkedOneWay DEF TreeOK
<1>8. TreeOK(n, rt)
  BY <1>1, <1>4, <1>5, <1>6, <1>7 DEF TreeOK
<1>9. SameView(n, m, rt)
  <2> SUFFICES ASSUME NEW v \in Pages
               PROVE  /\ Walk(n.cell, rt, v) = Walk(m.cell, rt, v)
                      /\ InBlock(n.cell, rt, v) <=> InBlock(m.cell, rt, v)
    BY DEF SameView
  <2>1. CASE ~Below(v, i, j)
    BY <2>1, SeenBelow
  <2>2. CASE Below(v, i, j)
    <3>1. PICK d \in Idx : d = L3(v)
      BY IndexType
    <3>2. L1(v) = i /\ L2(v) = j
      BY <2>2 DEF Below
    <3>3. Ptr(k).out = k /\ Ptr(f).out = f /\ Ptr(f).bit1 /\ Ptr(k) # NoEntry /\ Ptr(f) # NoEntry
      BY <1>1, EntryTypes
    <3>4. n.cell[rt][i] = Ptr(k) /\ n.cell[k][j] = Ptr(f) /\ n.cell[f][d] = NoEntry
      BY <1>2
    <3>5. Walk(n.cell, rt, v) = NULL /\ ~InBlock(n.cell, rt, v)
      BY <3>1, <3>2, <3>3, <3>4 DEF Walk, InBlock
    <3>6. Walk(m.cell, rt, v) = NULL /\ ~InBlock(m.cell, rt, v)
      BY <3>2, <3>3 DEF Walk, InBlock
    <3> QED
      BY <3>5, <3>6
  <2> QED
    BY <2>1, <2>2
<1> QED
  BY <1>8, <1>9
------------------------------------------------------------------------------
\* The tables on the way to a page, and what a new page entry changes.
Way2(m, rt, i, k) == TreeOK(m, rt) /\ i \in Idx /\ k \in m.tables /\ m.cell[rt][i] = Ptr(k)
Way3(m, rt, i, k, j, t) ==
  Way2(m, rt, i, k) /\ j \in Idx /\ t \in m.tables /\ m.cell[k][j] = Ptr(t)
PageEntry(e) == e \in Entry /\ Leaf(e, TRUE)
PageSeen(n, m, rt, i, j, o, e) ==
  \A v \in Pages :
    /\ InBlock(n.cell, rt, v) <=> InBlock(m.cell, rt, v)
    /\ IF Below(v, i, j) /\ L3(v) = o
       THEN Walk(n.cell, rt, v) = <<e.out, e.attr>>
       ELSE Walk(n.cell, rt, v) = Walk(m.cell, rt, v)

\* An entry for a block or a page leads to no table.
LEMMA LeafOneWay ==
  ASSUME NEW m, NEW rt, MemOK(m), OneWay(m, rt), NEW t \in m.tables, NEW i \in Idx,
         NEW e, e.attr # {}, NEW n, Written(n, m, t, i, e, m.tables)
  PROVE  /\ OneWay(n, rt)
         /\ \A f \in m.tables, j \in Idx : \A h : n.cell[f][j] = Ptr(h) => m.cell[f][j] = Ptr(h)
<1>1. m.tables \in SUBSET Pages /\ n.tables = m.tables
  BY MemParts DEF Written
<1>2. \A f \in m.tables, j \in Idx : \A h : n.cell[f][j] = Ptr(h) => m.cell[f][j] = Ptr(h)
  <2> SUFFICES ASSUME NEW f \in m.tables, NEW j \in Idx, NEW h, n.cell[f][j] = Ptr(h)
               PROVE  m.cell[f][j] = Ptr(h)
    OBVIOUS
  <2>1. Ptr(h).attr = {}
    BY DEF Ptr
  <2>2. n.cell[f][j] # e
    BY <2>1
  <2> QED
    BY <1>1, <2>2 DEF Written
<1>3. \A f \in n.tables, j \in Idx, h \in Pages : n.cell[f][j] = Ptr(h) => h \in n.tables /\ h # rt
  BY <1>1, <1>2 DEF OneWay
<1>4. \A f, g, h \in n.tables, j, l \in Idx :
       n.cell[f][j] = Ptr(h) /\ n.cell[g][l] = Ptr(h) => f = g /\ j = l
  BY <1>1, <1>2 DEF OneWay
<1> QED
  BY <1>2, <1>3, <1>4 DEF OneWay

\* A block entry in a table below the root.
LEMMA BlockWritten ==
  ASSUME NEW m, NEW rt, TreeOK(m, rt), NEW i \in Idx, NEW k \in m.tables, m.cell[rt][i] = Ptr(k),
         NEW j \in Idx, NEW e \in Entry, Leaf(e, FALSE), NEW n, Written(n, m, k, j, e, m.tables)
  PROVE  /\ TreeOK(n, rt)
         /\ \A v \in Pages :
              IF Below(v, i, j)
              THEN Walk(n.cell, rt, v) = <<e.out + L3(v), e.attr>> /\ InBlock(n.cell, rt, v)
              ELSE /\ Walk(n.cell, rt, v) = Walk(m.cell, rt, v)
                   /\ InBlock(n.cell, rt, v) <=> InBlock(m.cell, rt, v)
<1>1. /\ MemOK(m) /\ rt \in m.tables /\ m.tables \in SUBSET Pages /\ rt \in Pages
      /\ MemOK(n) /\ n.tables = m.tables /\ k # rt /\ k \in Pages
  BY TreeParts, MemParts DEF Written
<1>2. /\ \A g \in Pages, l \in Idx : ~(g = k /\ l = j) => n.cell[g][l] = m.cell[g][l]
      /\ n.cell[k][j] = e
      /\ \A l \in Idx : n.cell[rt][l] = m.cell[rt][l]
  BY <1>1 DEF Written
<1>3. /\ OneWay(n, rt)
      /\ \A f \in m.tables, l \in Idx : \A h : n.cell[f][l] = Ptr(h) => m.cell[f][l] = Ptr(h)
  <2>1. e.attr # {}
    BY DEF Leaf
  <2> QED
    BY <1>1, <2>1, LeafOneWay DEF TreeOK
<1>4. Level1(n, rt)
  BY <1>1, <1>2, TreeParts DEF Level1
<1>5. ASSUME NEW l \in Idx, NEW g \in n.tables, n.cell[rt][l] = Ptr(g)
      PROVE  m.cell[rt][l] = Ptr(g) /\ g \in m.tables /\ g \in Pages /\ g # rt /\ Level2(n, g)
  <2>1. m.cell[rt][l] = Ptr(g)
    BY <1>2, <1>5
  <2>3. g \in m.tables /\ g \in Pages
    BY <1>1
  <2>4. g # rt /\ Level2(m, g)
    BY <2>1, <2>3, TreeParts
  <2>5. ASSUME NEW z \in Idx
        PROVE  \/ n.cell[g][z] = NoEntry \/ Leaf(n.cell[g][z], FALSE)
               \/ \E h \in n.tables : n.cell[g][z] = Ptr(h)
    <3>1. CASE g = k /\ z = j
      BY <1>2, <3>1
    <3>2. CASE ~(g = k /\ z = j)
      <4>1. PICK x : x = m.cell[g][z] /\ x = n.cell[g][z]
        BY <1>2, <2>3, <3>2
      <4>2. x = NoEntry \/ Leaf(x, FALSE) \/ \E h \in m.tables : x = Ptr(h)
        BY <2>4, <4>1 DEF Level2
      <4> QED
        BY <1>1, <4>1, <4>2
    <3> QED
      BY <3>1, <3>2
  <2> QED
    BY <2>1, <2>3, <2>4, <2>5 DEF Level2
<1>6. ASSUME NEW l \in Idx, NEW z \in Idx, NEW g \in n.tables, NEW h \in n.tables,
             n.cell[rt][l] = Ptr(g), n.cell[g][z] = Ptr(h)
      PROVE  Level3(n, h)
  <2>1. m.cell[rt][l] = Ptr(g) /\ g \in m.tables /\ g \in Pages /\ g # rt
    BY <1>5, <1>6
  <2>2. m.cell[g][z] = Ptr(h)
    BY <1>3, <1>6, <2>1
  <2>3. h \in m.tables /\ h \in Pages
    BY <1>1
  <2>4. h # rt /\ Level3(m, h)
    BY <2>1, <2>2, <2>3, TreeParts
  <2>5. h # k
    <3>1. ASSUME h = k PROVE g = rt
      <4>1. m.cell[g][z] = Ptr(k)
        BY <2>2, <3>1
      <4> QED
        BY <1>1, <2>1, <4>1 DEF TreeOK, OneWay
    <3> QED
      BY <2>1, <3>1
  <2>6. \A x \in Idx : n.cell[h][x] = m.cell[h][x]
    BY <1>2, <2>3, <2>5
  <2> QED
    BY <1>1, <2>4, <2>6, SameTable
<1>7. TreeOK(n, rt)
  BY <1>1, <1>3, <1>4, <1>5, <1>6 DEF TreeOK
<1>8. ASSUME NEW v \in Pages, Below(v, i, j)
      PROVE  Walk(n.cell, rt, v) = <<e.out + L3(v), e.attr>> /\ InBlock(n.cell, rt, v)
  <2>1. L1(v) = i /\ L2(v) = j
    BY <1>8 DEF Below
  <2>2. Ptr(k).out = k /\ Ptr(k) # NoEntry
    BY <1>1, EntryTypes
  <2>3. e # NoEntry /\ ~e.bit1
    BY EntryTypes DEF Leaf
  <2>4. n.cell[rt][i] = Ptr(k) /\ n.cell[k][j] = e
    BY <1>2
  <2> QED
    BY <2>1, <2>2, <2>3, <2>4 DEF Walk, InBlock
<1>9. ASSUME NEW v \in Pages, ~Below(v, i, j)
      PROVE  /\ Walk(n.cell, rt, v) = Walk(m.cell, rt, v)
             /\ InBlock(n.cell, rt, v) <=> InBlock(m.cell, rt, v)
  BY <1>9, SeenBelow
<1> QED
  BY <1>7, <1>8, <1>9

\* A page entry in a table of the last level.
LEMMA PageWritten ==
  ASSUME NEW m, NEW rt, NEW i, NEW k, NEW j, NEW t, Way3(m, rt, i, k, j, t), NEW o \in Idx,
         NEW e, PageEntry(e), NEW n, Written(n, m, t, o, e, m.tables)
  PROVE  TreeOK(n, rt) /\ PageSeen(n, m, rt, i, j, o, e)
<1>0. /\ TreeOK(m, rt) /\ i \in Idx /\ k \in m.tables /\ m.cell[rt][i] = Ptr(k)
      /\ j \in Idx /\ t \in m.tables /\ m.cell[k][j] = Ptr(t)
      /\ e \in Entry /\ Leaf(e, TRUE)
  BY DEF Way2, Way3, PageEntry
<1>1. /\ MemOK(m) /\ rt \in m.tables /\ m.tables \in SUBSET Pages /\ rt \in Pages
      /\ MemOK(n) /\ n.tables = m.tables /\ k # rt /\ k \in Pages /\ t # rt /\ t # k /\ t \in Pages
  BY <1>0, TreeParts, MemParts DEF Written
<1>2. /\ \A g \in Pages, l \in Idx : ~(g = t /\ l = o) => n.cell[g][l] = m.cell[g][l]
      /\ n.cell[t][o] = e
      /\ \A l \in Idx : n.cell[rt][l] = m.cell[rt][l]
  BY <1>0, <1>1 DEF Written
<1>3. /\ OneWay(n, rt)
      /\ \A f \in m.tables, l \in Idx : \A h : n.cell[f][l] = Ptr(h) => m.cell[f][l] = Ptr(h)
  <2>1. e.attr # {}
    BY <1>0 DEF Leaf
  <2> QED
    BY <1>0, <1>1, <2>1, LeafOneWay DEF TreeOK
<1>4. Level1(n, rt)
  BY <1>0, <1>1, <1>2, TreeParts DEF Level1
<1>5. ASSUME NEW l \in Idx, NEW g \in m.tables, m.cell[rt][l] = Ptr(g)
      PROVE  g \in Pages /\ g # rt /\ g # t /\ Level2(m, g) /\ \A z \in Idx : n.cell[g][z] = m.cell[g][z]
  <2>1. g \in Pages
    BY <1>1
  <2>2. g # rt /\ Level2(m, g)
    BY <1>0, <1>5, TreeParts
  <2>3. g # t
    <3>1. ASSUME g = t PROVE k = rt
      <4>1. m.cell[rt][l] = Ptr(t)
        BY <1>5, <3>1
      <4> QED
        BY <1>0, <1>1, <4>1 DEF TreeOK, OneWay
    <3> QED
      BY <1>1, <3>1
  <2> QED
    BY <1>0, <1>2, <2>1, <2>2, <2>3
<1>6. ASSUME NEW l \in Idx, NEW g \in n.tables, n.cell[rt][l] = Ptr(g) PROVE Level2(n, g)
  <2>1. g \in m.tables /\ m.cell[rt][l] = Ptr(g)
    BY <1>0, <1>1, <1>2, <1>6
  <2>2. Level2(m, g) /\ \A z \in Idx : n.cell[g][z] = m.cell[g][z]
    BY <1>5, <2>1
  <2> QED
    BY <1>1, <2>2, SameTable
<1>7. ASSUME NEW l \in Idx, NEW z \in Idx, NEW g \in n.tables, NEW h \in n.tables,
             n.cell[rt][l] = Ptr(g), n.cell[g][z] = Ptr(h)
      PROVE  Level3(n, h)
  <2>1. g \in m.tables /\ m.cell[rt][l] = Ptr(g) /\ h \in m.tables /\ h \in Pages
    BY <1>0, <1>1, <1>2, <1>7
  <2>2. m.cell[g][z] = Ptr(h)
    BY <1>3, <1>7, <2>1
  <2>3. Level3(m, h)
    BY <1>0, <2>1, <2>2, TreeParts
  <2>4. ASSUME NEW x \in Idx PROVE n.cell[h][x] = NoEntry \/ Leaf(n.cell[h][x], TRUE)
    <3>1. CASE h = t /\ x = o
      BY <1>0, <1>2, <3>1
    <3>2. CASE ~(h = t /\ x = o)
      <4>1. n.cell[h][x] = m.cell[h][x]
        BY <1>0, <1>2, <2>1, <3>2
      <4> QED
        BY <2>3, <4>1 DEF Level3
    <3> QED
      BY <3>1, <3>2
  <2> QED
    BY <2>4 DEF Level3
<1>8. TreeOK(n, rt)
  BY <1>0, <1>1, <1>3, <1>4, <1>6, <1>7 DEF TreeOK
<1>9. ASSUME NEW v \in Pages, Below(v, i, j) /\ L3(v) = o
      PROVE  /\ InBlock(n.cell, rt, v) <=> InBlock(m.cell, rt, v)
             /\ Walk(n.cell, rt, v) = <<e.out, e.attr>>
  <2>1. L1(v) = i /\ L2(v) = j /\ L3(v) = o
    BY <1>9 DEF Below
  <2>2. Ptr(k).out = k /\ Ptr(k) # NoEntry /\ Ptr(t).out = t /\ Ptr(t) # NoEntry /\ Ptr(t).bit1
    BY <1>0, <1>1, EntryTypes
  <2>3. e # NoEntry
    BY <1>0, EntryTypes DEF Leaf
  <2>4. n.cell[rt][i] = Ptr(k) /\ n.cell[k][j] = Ptr(t) /\ n.cell[t][o] = e
    BY <1>0, <1>1, <1>2
  <2>5. Walk(n.cell, rt, v) = <<e.out, e.attr>> /\ ~InBlock(n.cell, rt, v)
    BY <2>1, <2>2, <2>3, <2>4 DEF Walk, InBlock
  <2>6. ~InBlock(m.cell, rt, v)
    BY <1>0, <2>1, <2>2 DEF InBlock
  <2> QED
    BY <2>5, <2>6
<1>10. ASSUME NEW v \in Pages, ~(Below(v, i, j) /\ L3(v) = o)
       PROVE  /\ InBlock(n.cell, rt, v) <=> InBlock(m.cell, rt, v)
              /\ Walk(n.cell, rt, v) = Walk(m.cell, rt, v)
  <2>1. PICK a \in Idx, b \in Idx, d \in Idx : a = L1(v) /\ b = L2(v) /\ d = L3(v)
    BY <1>0, IndexType
  <2>2. n.cell[rt][a] = m.cell[rt][a]
    BY <1>0, <1>2
  <2>3. CASE m.cell[rt][a] = NoEntry
    BY <2>1, <2>2, <2>3, SameWalk
  <2>4. CASE m.cell[rt][a] # NoEntry
    <3>1. PICK g \in m.tables : m.cell[rt][a] = Ptr(g)
      BY <1>0, <2>4, TreeParts
    <3>2. g \in Pages /\ g # rt /\ g # t /\ Level2(m, g)
      BY <1>5, <3>1
    <3>3. PICK x : x = m.cell[g][b] /\ x = n.cell[g][b]
      BY <1>0, <1>2, <3>2
    <3>4. Ptr(g).out = g
      BY <1>0, <3>2, EntryTypes
    <3>5. ASSUME x # NoEntry, x.bit1 PROVE n.cell[x.out][d] = m.cell[x.out][d]
      <4>1. PICK h \in m.tables : x = Ptr(h)
        BY <1>0, <3>2, <3>3, <3>5 DEF Level2, Leaf
      <4>2. h \in Pages
        BY <1>1
      <4>3. x.out = h
        BY <1>0, <4>1, <4>2, EntryTypes
      <4>4. ~(h = t /\ d = o)
        <5>1. ASSUME h = t PROVE a = i /\ b = j
          <6>1. m.cell[g][b] = Ptr(t)
            BY <3>3, <4>1, <5>1
          <6>2. g = k /\ b = j
            BY <1>0, <6>1 DEF TreeOK, OneWay
          <6>3. m.cell[rt][a] = Ptr(k)
            BY <3>1, <6>2
          <6>4. a = i
            BY <1>0, <1>1, <6>3 DEF TreeOK, OneWay
          <6> QED
            BY <6>2, <6>4
        <5> QED
          BY <1>10, <2>1, <5>1 DEF Below
      <4> QED
        BY <1>0, <1>2, <4>2, <4>3, <4>4
    <3>6. PICK y : y = m.cell[rt][a] /\ y.out = g
      BY <3>1, <3>4
    <3>7. PICK c, s : c = m.cell /\ s = n.cell
      OBVIOUS
    <3>8. /\ c[rt][L1(v)] = y /\ s[rt][L1(v)] = y
          /\ y # NoEntry => /\ y.out = g /\ c[g][L2(v)] = x /\ s[g][L2(v)] = x
                            /\ x # NoEntry /\ x.bit1 => c[x.out][L3(v)] = s[x.out][L3(v)]
      BY <2>1, <2>2, <3>3, <3>5, <3>6, <3>7
    <3>9. Walk(s, rt, v) = Walk(c, rt, v) /\ (InBlock(s, rt, v) <=> InBlock(c, rt, v))
      BY <3>8, SameWalk
    <3> QED
      BY <3>7, <3>9
  <2> QED
    BY <2>3, <2>4
<1> QED
  BY <1>8, <1>9, <1>10 DEF PageSeen
------------------------------------------------------------------------------
\* A set of naturals with a bound that is not empty has a greatest one.
LEMMA GreatestNatural ==
  ASSUME NEW T \in SUBSET Nat, T # {}, NEW b \in Nat, \A x \in T : x <= b
  PROVE  \E x \in T : \A y \in T : y <= x
<1>1. PICK U : U = {b - x : x \in T}
  OBVIOUS
<1>2. U \in SUBSET Nat /\ U # {}
  <2>1. ASSUME NEW x \in T PROVE b - x \in Nat
    <3>1. x \in Nat /\ x <= b
      OBVIOUS
    <3> QED
      BY <3>1
  <2>2. PICK x : x \in T
    OBVIOUS
  <2>3. b - x \in U
    BY <1>1, <2>2
  <2> QED
    BY <1>1, <2>1, <2>3
<1>3. PICK u \in U : \A y \in U : u <= y
  BY <1>2, LeastNatural
<1>4. PICK x \in T : u = b - x
  BY <1>1
<1>5. \A y \in T : b - y \in U
  BY <1>1
<1> QED
  <2>1. ASSUME NEW y \in T PROVE y <= x
    <3>1. u <= b - y
      BY <1>3, <1>5
    <3> QED
      BY <1>4, <3>1
  <2> QED
    BY <2>1

\* RAM is whole pages of the address space.
LEMMA RamPages ==
  ASSUME SizesOK
  PROVE  \E x, y \in Nat : /\ RamBase = PageSize * x /\ ram = PageSize * y /\ ram \in Nat
                           /\ PageOf(RamBase) = x /\ PageOf(RamBase + ram) = x + y
                           /\ RamFrames = x .. x + y - 1 /\ x + y <= E * E * E
                           /\ RamFrames \subseteq Pages
<1>1. PICK m \in Nat \ {0} : m = PageSize
  BY VmmSizes
<1>2. ram \in Nat /\ ram % m = 0 /\ RamBase + ram <= AddressSpace /\ RamBase % m = 0
  BY <1>1, VmmAssumption, LayoutAssumption DEF SizesOK
<1>3. PICK x \in Nat, r \in 0 .. m - 1 : x = RamBase \div m /\ r = RamBase % m /\ RamBase = m * x + r
  BY VmmSizes, Divided
<1>4. PICK y \in Nat, s \in 0 .. m - 1 : y = ram \div m /\ s = ram % m /\ ram = m * y + s
  BY <1>2, Divided
<1>5. RamBase = m * x /\ ram = m * y
  BY <1>2, <1>3, <1>4
<1>6. PICK z \in Nat : z = x + y
  OBVIOUS
<1>7. RamBase + ram = m * z + 0
  BY <1>5, <1>6
<1>8. (m * z + 0) \div m = z
  BY Quotients
<1>9. PICK q \in Nat : q = E * E * E
  BY VmmSizes
<1>10. z <= q
  <2>1. m * z <= m * q
    <3>1. AddressSpace = q * m
      BY <1>1, <1>9 DEF AddressSpace
    <3> QED
      BY <1>2, <1>7, <3>1
  <2>2. ASSUME q < z PROVE m * q + m <= m * z
    BY <2>2, Times
  <2>3. m * q \in Nat /\ m * z \in Nat
    OBVIOUS
  <2> QED
    BY <2>1, <2>2, <2>3
<1>11. PageOf(RamBase) = x /\ PageOf(RamBase + ram) = z
  BY <1>1, <1>3, <1>7, <1>8 DEF PageOf
<1>12. RamFrames = x .. z - 1
  BY <1>11 DEF RamFrames
<1>13. RamFrames \subseteq Pages
  BY <1>9, <1>10, <1>12 DEF Pages
<1>14. /\ RamBase = PageSize * x /\ ram = PageSize * y /\ ram \in Nat
       /\ PageOf(RamBase) = x /\ PageOf(RamBase + ram) = x + y
       /\ RamFrames = x .. x + y - 1 /\ x + y <= E * E * E
  <2>1. RamBase = PageSize * x /\ ram = PageSize * y /\ ram \in Nat
    BY <1>1, <1>2, <1>5
  <2>2. PageOf(RamBase) = x /\ PageOf(RamBase + ram) = x + y /\ RamFrames = x .. x + y - 1
    BY <1>6, <1>11, <1>12
  <2>3. x + y <= E * E * E
    BY <1>6, <1>9, <1>10
  <2> QED
    BY <2>1, <2>2, <2>3, Zenon
<1> QED
  BY <1>13, <1>14, Zenon

\* pmm_alloc_frame gives a frame of RAM that is not in use, if there is one.
LEMMA TopIsFree ==
  ASSUME SizesOK, NEW m
  PROVE  /\ FreeFrames(m) # {} => TopFrame(m) \in Pages \ m.used
         /\ FreeFrames(m) = {} => TopFrame(m) = NULL
<1>1. ASSUME FreeFrames(m) # {} PROVE TopFrame(m) \in Pages \ m.used
  <2>1. PICK x \in Nat, y \in Nat : RamFrames = x .. x + y - 1 /\ RamFrames \subseteq Pages
    BY RamPages
  <2>2. PICK T : T = FreeFrames(m)
    OBVIOUS
  <2>3. T \in SUBSET Nat /\ \A f \in T : f <= x + y
    BY <2>1, <2>2 DEF FreeFrames
  <2>4. PICK b \in Nat : b = x + y
    OBVIOUS
  <2>5. \E f \in T : \A g \in T : g <= f
    BY <1>1, <2>2, <2>3, <2>4, GreatestNatural
  <2>6. TopFrame(m) = CHOOSE f \in T : \A g \in T : g <= f
    BY <1>1, <2>2 DEF TopFrame
  <2>7. TopFrame(m) \in T
    BY <2>5, <2>6
  <2> QED
    BY <2>1, <2>2, <2>7 DEF FreeFrames
<1> QED
  BY <1>1 DEF TopFrame

\* A step of the walk: the table that it comes to, in a tree that maps the same.
Led(a, m, rt) == TreeOK(a.mm, rt) /\ SameView(a.mm, m, rt) /\ a.next \in a.mm.tables

\* The outcome of that step from table k, to the entry j of it.
NextSeen(a, m, rt, i, k, j) ==
  \/ a.next = NULL /\ a.mm = m
  \/ a.next # NULL /\ Led(a, m, rt) /\ Way3(a.mm, rt, i, k, j, a.next)

\* get_next_table when a frame has to be allocated.
LEMMA NextIsNew ==
  ASSUME NEW m, NEW t, NEW i, m.cell[t][i] = NoEntry, NEW f, f = TopFrame(m), f # NULL
  PROVE  get_next_table(m, t, i) = [mm |-> Store(NewTable(m, f), t, i, Ptr(f)), next |-> f]
BY DEF get_next_table, Ptr

\* get_next_table from the root.
LEMMA NextOfRoot ==
  ASSUME SizesOK, NEW m, NEW rt, TreeOK(m, rt), NEW i \in Idx, NEW a, a = get_next_table(m, rt, i)
  PROVE  \/ a.next = NULL /\ a.mm = m
         \/ a.next # NULL /\ Led(a, m, rt) /\ a.mm.cell[rt][i] = Ptr(a.next)
<1>1. MemOK(m) /\ rt \in m.tables /\ m.tables \in SUBSET Pages
  BY TreeParts
<1>2. CASE m.cell[rt][i] # NoEntry
  <2>1. PICK f \in m.tables : m.cell[rt][i] = Ptr(f)
    BY <1>2, TreeParts
  <2>2. f \in Pages /\ f # NULL
    BY <1>1, VmmSizes
  <2>3. Ptr(f).out = f
    BY <2>2, EntryTypes
  <2>4. a = [mm |-> m, next |-> m.cell[rt][i].out]
    BY <1>2 DEF get_next_table
  <2>5. a.mm = m /\ a.next = f
    BY <2>1, <2>3, <2>4
  <2> QED
    BY <2>1, <2>2, <2>5 DEF Led, SameView
<1>3. CASE m.cell[rt][i] = NoEntry /\ FreeFrames(m) = {}
  <2>1. TopFrame(m) = NULL
    BY <1>3, TopIsFree
  <2>2. a = [mm |-> m, next |-> NULL]
    BY <1>3, <2>1 DEF get_next_table
  <2> QED
    BY <2>2
<1>4. CASE m.cell[rt][i] = NoEntry /\ FreeFrames(m) # {}
  <2>1. PICK f \in Pages \ m.used : f = TopFrame(m)
    BY <1>4, TopIsFree
  <2>2. f # NULL
    BY VmmSizes
  <2>3. PICK n : n = Store(NewTable(m, f), rt, i, Ptr(f))
    OBVIOUS
  <2>4. a = [mm |-> n, next |-> f]
    BY <1>4, <2>1, <2>2, <2>3, NextIsNew
  <2>5. Written(n, m, rt, i, Ptr(f), m.tables \cup {f})
    BY <1>1, <2>3, LinkIs
  <2>6. TreeOK(n, rt) /\ SameView(n, m, rt)
    BY <1>4, <2>5, LinkedFromRoot
  <2>7. f \in n.tables /\ n.cell[rt][i] = Ptr(f)
    BY <1>1, <2>5 DEF Written
  <2> QED
    BY <2>2, <2>4, <2>6, <2>7 DEF Led
<1> QED
  BY <1>2, <1>3, <1>4

\* get_next_table from a table below the root, when the entry is not a block.
LEMMA NextOfTable ==
  ASSUME SizesOK, NEW m, NEW rt, NEW i, NEW k, Way2(m, rt, i, k), NEW j \in Idx,
         ~Leaf(m.cell[k][j], FALSE)
  PROVE  NextSeen(get_next_table(m, k, j), m, rt, i, k, j)
<1>0. TreeOK(m, rt) /\ i \in Idx /\ k \in m.tables /\ m.cell[rt][i] = Ptr(k)
  BY DEF Way2
<1>a. PICK a : a = get_next_table(m, k, j)
  OBVIOUS
<1>b. ASSUME a.next # NULL, Led(a, m, rt), k \in a.mm.tables, a.mm.cell[rt][i] = Ptr(k),
             a.mm.cell[k][j] = Ptr(a.next)
      PROVE  NextSeen(a, m, rt, i, k, j)
  BY <1>0, <1>b DEF NextSeen, Led, Way2, Way3
<1>1. /\ MemOK(m) /\ rt \in m.tables /\ m.tables \in SUBSET Pages /\ k # rt /\ Level2(m, k)
      /\ rt \in Pages
  BY <1>0, TreeParts
<1>2. CASE m.cell[k][j] # NoEntry
  <2>1. PICK f \in m.tables : m.cell[k][j] = Ptr(f)
    BY <1>1, <1>2 DEF Level2
  <2>2. f \in Pages /\ f # NULL
    BY <1>1, VmmSizes
  <2>3. Ptr(f).out = f
    BY <2>2, EntryTypes
  <2>4. a = [mm |-> m, next |-> m.cell[k][j].out]
    BY <1>2, <1>a DEF get_next_table
  <2>5. a.mm = m /\ a.next = f
    BY <2>1, <2>3, <2>4
  <2> QED
    BY <1>0, <1>a, <1>b, <2>1, <2>2, <2>5 DEF Led, SameView
<1>3. CASE m.cell[k][j] = NoEntry /\ FreeFrames(m) = {}
  <2>1. TopFrame(m) = NULL
    BY <1>3, TopIsFree
  <2>2. a = [mm |-> m, next |-> NULL]
    BY <1>3, <1>a, <2>1 DEF get_next_table
  <2> QED
    BY <1>a, <2>2 DEF NextSeen
<1>4. CASE m.cell[k][j] = NoEntry /\ FreeFrames(m) # {}
  <2>1. PICK f \in Pages \ m.used : f = TopFrame(m)
    BY <1>4, TopIsFree
  <2>2. f # NULL
    BY VmmSizes
  <2>3. PICK n : n = Store(NewTable(m, f), k, j, Ptr(f))
    OBVIOUS
  <2>4. a = [mm |-> n, next |-> f]
    BY <1>4, <1>a, <2>1, <2>2, <2>3, NextIsNew
  <2>5. Written(n, m, k, j, Ptr(f), m.tables \cup {f})
    BY <1>0, <1>1, <2>3, LinkIs
  <2>6. TreeOK(n, rt) /\ SameView(n, m, rt)
    BY <1>0, <1>4, <2>5, LinkedFromTable
  <2>7. f \in n.tables /\ k \in n.tables /\ n.cell[k][j] = Ptr(f) /\ n.cell[rt][i] = Ptr(k)
    BY <1>0, <1>1, <2>5 DEF Written
  <2> QED
    BY <1>a, <1>b, <2>2, <2>4, <2>6, <2>7 DEF Led
<1> QED
  BY <1>2, <1>3, <1>4
------------------------------------------------------------------------------
\* A map of a page or a block has attributes: it is normal memory or never executed.
LEMMA Attributes ==
  ASSUME NEW fl
  PROVE  Attr(fl) \in SUBSET {"NORMAL", "PXN", "RO"} /\ Attr(fl) # {}
BY DEF Attr

\* The outcome of mapping page v to frame p, or the block of v to the frames from p on.
PageIs(n, m, rt, v, p, fl) ==
  \A w \in Pages :
    /\ InBlock(n.cell, rt, w) <=> InBlock(m.cell, rt, w)
    /\ IF w = v THEN Walk(n.cell, rt, w) = <<p, Attr(fl)>>
       ELSE Walk(n.cell, rt, w) = Walk(m.cell, rt, w)
BlockIs(n, m, rt, v, p, fl) ==
  \A w \in Pages :
    IF w \div E = v \div E
    THEN Walk(n.cell, rt, w) = <<p + L3(w), Attr(fl)>> /\ InBlock(n.cell, rt, w)
    ELSE /\ Walk(n.cell, rt, w) = Walk(m.cell, rt, w)
         /\ InBlock(n.cell, rt, w) <=> InBlock(m.cell, rt, w)

\* vmm_map_page of a page that is not part of a block.
LEMMA PageMapped ==
  ASSUME SizesOK, NEW m, TreeOK(m, root), NEW v \in Pages, NEW p \in Pages, NEW fl,
         ~InBlock(m.cell, root, v), NEW res, res = vmm_map_page(m, v, p, fl)
  PROVE  TreeOK(res.mm, root) /\ (res.ok => PageIs(res.mm, m, root, v, p, fl))
<1>1. PICK i \in Idx, j \in Idx, o \in Idx : i = L1(v) /\ j = L2(v) /\ o = L3(v)
  BY IndexType
<1>2. PICK a : a = get_next_table(m, root, i)
  OBVIOUS
<1>3. PICK b : b = get_next_table(a.mm, a.next, j)
  OBVIOUS
<1>4. PICK rt : rt = root
  OBVIOUS
<1>5. PICK e : e = [bit1 |-> TRUE, out |-> p, attr |-> Attr(fl)]
  OBVIOUS
<1>6. res = IF a.next = NULL THEN [mm |-> a.mm, ok |-> FALSE]
            ELSE IF b.next = NULL THEN [mm |-> b.mm, ok |-> FALSE]
            ELSE [mm |-> Store(b.mm, b.next, o, e), ok |-> TRUE]
  BY <1>1, <1>2, <1>3, <1>5 DEF vmm_map_page
<1>7. CASE a.next = NULL
  <2>1. a.mm = m
    BY <1>2, <1>7, NextOfRoot DEF Led
  <2>2. res = [mm |-> m, ok |-> FALSE]
    BY <1>6, <1>7, <2>1
  <2> QED
    BY <2>2
<1>8. CASE a.next # NULL
  <2>1. PICK m1, k : m1 = a.mm /\ k = a.next
    OBVIOUS
  <2>2. TreeOK(m1, rt) /\ SameView(m1, m, rt) /\ k \in m1.tables /\ m1.cell[rt][i] = Ptr(k)
    BY <1>2, <1>4, <1>8, <2>1, NextOfRoot DEF Led
  <2>3. ~Leaf(m1.cell[k][j], FALSE)
    <3>1. ~InBlock(m1.cell, rt, v)
      BY <1>4, <2>2 DEF SameView
    <3>2. k \in Pages
      BY <2>2, TreeParts
    <3>3. Ptr(k).out = k /\ Ptr(k) # NoEntry
      BY <3>2, EntryTypes
    <3>4. m1.cell[k][j] = NoEntry \/ m1.cell[k][j].bit1
      BY <1>1, <2>2, <3>1, <3>3 DEF InBlock
    <3> QED
      BY <3>4, EntryTypes DEF Leaf
  <2>4. NextSeen(b, m1, rt, i, k, j)
    <3>1. b = get_next_table(m1, k, j)
      BY <1>3, <2>1
    <3>2. Way2(m1, rt, i, k)
      BY <2>2 DEF Way2
    <3>3. NextSeen(get_next_table(m1, k, j), m1, rt, i, k, j)
      BY <2>3, <3>2, NextOfTable
    <3> QED
      BY <3>1, <3>3
  <2>5. CASE b.next = NULL
    <3>1. b.mm = m1
      BY <2>4, <2>5 DEF NextSeen
    <3>2. res = [mm |-> m1, ok |-> FALSE]
      BY <1>6, <1>8, <2>5, <3>1
    <3> QED
      BY <1>4, <2>2, <3>2
  <2>6. CASE b.next # NULL
    <3>1. PICK m2, t : m2 = b.mm /\ t = b.next
      OBVIOUS
    <3>2. TreeOK(m2, rt) /\ SameView(m2, m1, rt) /\ t \in m2.tables /\ Way3(m2, rt, i, k, j, t)
      BY <2>4, <2>6, <3>1 DEF NextSeen, Led
    <3>3. PICK n : n = Store(m2, t, o, e)
      OBVIOUS
    <3>4. res = [mm |-> n, ok |-> TRUE]
      BY <1>6, <1>8, <2>6, <3>1, <3>3
    <3>5. e \in Entry /\ Leaf(e, TRUE) /\ e.out = p /\ e.attr = Attr(fl)
      BY <1>5, Attributes DEF Entry, Leaf
    <3>6. MemOK(m2)
      BY <3>2, TreeParts
    <3>7. Written(n, m2, t, o, e, m2.tables)
      BY <3>2, <3>3, <3>5, <3>6, StoreIs
    <3>8. TreeOK(n, rt) /\ PageSeen(n, m2, rt, i, j, o, e)
      <4>1. PageEntry(e)
        BY <3>5 DEF PageEntry
      <4> QED
        BY <3>2, <3>7, <4>1, PageWritten
    <3>9. ASSUME NEW w \in Pages
          PROVE  /\ InBlock(n.cell, rt, w) <=> InBlock(m.cell, rt, w)
                 /\ IF w = v THEN Walk(n.cell, rt, w) = <<p, Attr(fl)>>
                    ELSE Walk(n.cell, rt, w) = Walk(m.cell, rt, w)
      <4>1. Below(w, i, j) /\ L3(w) = o <=> w = v
        BY <1>1, SameIndices DEF Below
      <4>2. /\ InBlock(m2.cell, rt, w) <=> InBlock(m.cell, rt, w)
            /\ Walk(m2.cell, rt, w) = Walk(m.cell, rt, w)
        BY <2>2, <3>2 DEF SameView
      <4> QED
        BY <3>5, <3>8, <4>1, <4>2 DEF PageSeen
    <3> QED
      BY <1>4, <3>4, <3>8, <3>9 DEF PageIs
  <2> QED
    BY <2>5, <2>6
<1> QED
  BY <1>7, <1>8

\* vmm_map_block.
LEMMA BlockMapped ==
  ASSUME SizesOK, NEW m, TreeOK(m, root), NEW v \in Pages, NEW p \in Pages, NEW fl,
         NEW res, res = vmm_map_block(m, v, p, fl)
  PROVE  TreeOK(res.mm, root) /\ (res.ok => BlockIs(res.mm, m, root, v, p, fl))
<1>1. PICK i \in Idx, j \in Idx : i = L1(v) /\ j = L2(v)
  BY IndexType
<1>2. PICK a : a = get_next_table(m, root, i)
  OBVIOUS
<1>4. PICK rt : rt = root
  OBVIOUS
<1>5. PICK e : e = [bit1 |-> FALSE, out |-> p, attr |-> Attr(fl)]
  OBVIOUS
<1>6. res = IF a.next = NULL THEN [mm |-> a.mm, ok |-> FALSE]
            ELSE [mm |-> Store(a.mm, a.next, j, e), ok |-> TRUE]
  BY <1>1, <1>2, <1>5 DEF vmm_map_block
<1>7. CASE a.next = NULL
  <2>1. a.mm = m
    BY <1>2, <1>7, NextOfRoot DEF Led
  <2>2. res = [mm |-> m, ok |-> FALSE]
    BY <1>6, <1>7, <2>1
  <2> QED
    BY <2>2
<1>8. CASE a.next # NULL
  <2>1. PICK m1, k : m1 = a.mm /\ k = a.next
    OBVIOUS
  <2>2. TreeOK(m1, rt) /\ SameView(m1, m, rt) /\ k \in m1.tables /\ m1.cell[rt][i] = Ptr(k)
    BY <1>2, <1>4, <1>8, <2>1, NextOfRoot DEF Led
  <2>3. PICK n : n = Store(m1, k, j, e)
    OBVIOUS
  <2>4. res = [mm |-> n, ok |-> TRUE]
    BY <1>6, <1>8, <2>1, <2>3
  <2>5. e \in Entry /\ Leaf(e, FALSE) /\ e.out = p /\ e.attr = Attr(fl)
    BY <1>5, Attributes DEF Entry, Leaf
  <2>6. MemOK(m1)
    BY <2>2, TreeParts
  <2>7. Written(n, m1, k, j, e, m1.tables)
    BY <2>2, <2>3, <2>5, <2>6, StoreIs
  <2>8. /\ TreeOK(n, rt)
        /\ \A w \in Pages :
             IF Below(w, i, j)
             THEN Walk(n.cell, rt, w) = <<e.out + L3(w), e.attr>> /\ InBlock(n.cell, rt, w)
             ELSE /\ Walk(n.cell, rt, w) = Walk(m1.cell, rt, w)
                  /\ InBlock(n.cell, rt, w) <=> InBlock(m1.cell, rt, w)
    BY <2>2, <2>5, <2>7, BlockWritten
  <2>9. ASSUME NEW w \in Pages
        PROVE  IF w \div E = v \div E
               THEN Walk(n.cell, rt, w) = <<p + L3(w), Attr(fl)>> /\ InBlock(n.cell, rt, w)
               ELSE /\ Walk(n.cell, rt, w) = Walk(m.cell, rt, w)
                    /\ InBlock(n.cell, rt, w) <=> InBlock(m.cell, rt, w)
    <3>1. Below(w, i, j) <=> w \div E = v \div E
      BY <1>1, SameIndices DEF Below
    <3>2. /\ InBlock(m1.cell, rt, w) <=> InBlock(m.cell, rt, w)
          /\ Walk(m1.cell, rt, w) = Walk(m.cell, rt, w)
      BY <2>2 DEF SameView
    <3> QED
      BY <2>5, <2>8, <3>1, <3>2
  <2> QED
    BY <1>4, <2>4, <2>8, <2>9 DEF BlockIs
<1> QED
  BY <1>7, <1>8
------------------------------------------------------------------------------
\* Comparing multiples.
LEMMA Multiples ==
  ASSUME NEW s \in Nat \ {0}, NEW a \in Int, NEW b \in Int
  PROVE  (s * a <= s * b <=> a <= b) /\ (s * a < s * b <=> a < b) /\ (s * a = s * b <=> a = b)
<1>1. ASSUME a < b PROVE s * a + s <= s * b
  BY <1>1, Times
<1>2. ASSUME b < a PROVE s * b + s <= s * a
  BY <1>2, Times
<1>3. s * a \in Int /\ s * b \in Int
  OBVIOUS
<1>4. CASE a < b
  BY <1>1, <1>3, <1>4
<1>5. CASE b < a
  BY <1>2, <1>3, <1>5
<1>6. CASE a = b
  BY <1>3, <1>6
<1> QED
  BY <1>4, <1>5, <1>6

\* A multiple of s is one of e * s exactly when the factor is one of e.
LEMMA ScaledRemainder ==
  ASSUME NEW s \in Nat \ {0}, NEW e \in Nat \ {0}, NEW x \in Nat
  PROVE  (s * x) % (e * s) = 0 <=> x % e = 0
<1>1. PICK d \in Nat, r \in 0 .. e - 1 : d = x \div e /\ r = x % e /\ x = e * d + r
  BY Divided
<1>2. PICK n \in Nat \ {0} : n = e * s
  OBVIOUS
<1>3. s * r \in 0 .. n - 1 /\ (s * r = 0 <=> r = 0)
  <2>1. r < e
    OBVIOUS
  <2>2. s * r < s * e
    BY <2>1, Multiples
  <2>3. s * r = s * 0 <=> r = 0
    BY Multiples
  <2>4. s * r \in Nat /\ s * 0 = 0 /\ s * e = n
    BY <1>2
  <2> QED
    BY <2>2, <2>3, <2>4
<1>4. s * x = n * d + s * r
  <2>1. s * (e * d + r) = (e * s) * d + s * r
    OBVIOUS
  <2> QED
    BY <1>1, <1>2, <2>1
<1>5. PICK z \in 0 .. n - 1 : z = s * r
  BY <1>3
<1>6. (n * d + z) % n = z
  BY Quotients
<1> QED
  BY <1>1, <1>2, <1>3, <1>4, <1>5, <1>6

\* The region r in pages: from page x to frame y, f whole pages and c in all.
InPages(r, x, y, f, c) ==
  /\ r.virt = PageSize * x /\ r.phys = PageSize * y /\ PageOf(r.virt) = x /\ PageOf(r.phys) = y
  /\ f <= c /\ x + c <= E * E * E /\ y + c <= E * E * E
  /\ \A k \in Nat : PageSize * k < r.size <=> k < c
  /\ \A k \in Nat : PageSize * k <= r.size <=> k <= f
  /\ \A k \in Nat : PageSize * k < r.size + PageSize <=> k <= c

\* Every region that fits is one.
LEMMA RegionPages ==
  ASSUME NEW r, Fits(r)
  PROVE  \E x, y, f, c \in Nat : InPages(r, x, y, f, c)
<1>1. PICK s \in Nat \ {0} : s = PageSize
  BY VmmSizes
<1>2. PICK a \in Nat, b \in Nat, z \in Nat : a = r.virt /\ b = r.phys /\ z = r.size
  BY DEF Fits
<1>3. a % s = 0 /\ b % s = 0 /\ a + z <= AddressSpace /\ b + z <= AddressSpace
  BY <1>1, <1>2 DEF Fits
<1>4. PICK x \in Nat, i \in 0 .. s - 1 : x = a \div s /\ i = a % s /\ a = s * x + i
  BY Divided
<1>5. PICK y \in Nat, j \in 0 .. s - 1 : y = b \div s /\ j = b % s /\ b = s * y + j
  BY Divided
<1>6. PICK f \in Nat, o \in 0 .. s - 1 : f = z \div s /\ o = z % s /\ z = s * f + o
  BY Divided
<1>7. PICK c \in Nat : c = IF o = 0 THEN f ELSE f + 1
  OBVIOUS
<1>8. PICK q \in Nat : q = E * E * E /\ AddressSpace = q * s
  BY <1>1, VmmSizes DEF AddressSpace
<1>9. a = s * x /\ b = s * y
  BY <1>3, <1>4, <1>5
<1>10. ASSUME NEW k \in Nat
       PROVE  /\ s * k < z <=> k < c
              /\ s * k <= z <=> k <= f
              /\ s * k < z + s <=> k <= c
  <2>1. ASSUME k < f PROVE s * k + s <= s * f
    BY <2>1, Times
  <2>2. ASSUME f < k PROVE s * f + s <= s * k
    BY <2>2, Times
  <2>3. ASSUME f + 1 < k PROVE s * (f + 1) + s <= s * k
    BY <2>3, Times
  <2>4. s * (f + 1) = s * f + s /\ s * k \in Nat /\ s * f \in Nat
    OBVIOUS
  <2>5. CASE k < f
    BY <1>6, <1>7, <2>1, <2>4, <2>5
  <2>6. CASE k = f
    BY <1>6, <1>7, <2>4, <2>6
  <2>7. CASE k = f + 1
    BY <1>6, <1>7, <2>4, <2>7
  <2>8. CASE f + 1 < k
    BY <1>6, <1>7, <2>3, <2>4, <2>8
  <2> QED
    BY <2>5, <2>6, <2>7, <2>8
<1>11. f <= c
  BY <1>7
<1>12. ASSUME NEW u \in Nat, s * u + z <= q * s PROVE u + c <= q
  <2>1. ASSUME q < u + c PROVE FALSE
    <3>1. CASE c = 0
      <4>1. u > q
        BY <2>1, <3>1
      <4>2. s * q + s <= s * u
        BY <4>1, Times
      <4>3. s * q = q * s /\ s * u \in Nat /\ q * s \in Nat
        OBVIOUS
      <4> QED
        BY <1>12, <4>2, <4>3
    <3>2. CASE c # 0
      <4>1. PICK k \in Nat : c = k + 1
        BY <3>2
      <4>2. s * k < z
        BY <1>10, <4>1
      <4>3. q <= u + k
        BY <2>1, <4>1
      <4>4. s * q <= s * (u + k)
        BY <4>3, Multiples
      <4>5. s * (u + k) = s * u + s * k /\ s * q = q * s /\ s * u \in Nat /\ s * k \in Nat /\ q * s \in Nat
        OBVIOUS
      <4> QED
        BY <1>12, <4>2, <4>4, <4>5
    <3> QED
      BY <3>1, <3>2
  <2> QED
    BY <2>1
<1>13. x + c <= q
  BY <1>3, <1>8, <1>9, <1>12
<1>14. y + c <= q
  BY <1>3, <1>8, <1>9, <1>12
<1>15. PageOf(r.virt) = x /\ PageOf(r.phys) = y
  BY <1>1, <1>2, <1>4, <1>5 DEF PageOf
<1>16. r.virt = PageSize * x /\ r.phys = PageSize * y
  BY <1>1, <1>2, <1>9
<1>17. InPages(r, x, y, f, c)
  <2>1. \A k \in Nat : PageSize * k < r.size <=> k < c
    BY <1>1, <1>2, <1>10
  <2>2. \A k \in Nat : PageSize * k <= r.size <=> k <= f
    BY <1>1, <1>2, <1>10
  <2>3. \A k \in Nat : PageSize * k < r.size + PageSize <=> k <= c
    BY <1>1, <1>2, <1>10
  <2>4. x + c <= E * E * E /\ y + c <= E * E * E
    BY <1>8, <1>13, <1>14
  <2> QED
    BY <1>11, <1>15, <1>16, <2>1, <2>2, <2>3, <2>4, Zenon DEF InPages
<1> QED
  BY <1>17
------------------------------------------------------------------------------
\* The page of an address some pages into a region.
LEMMA PageAt ==
  ASSUME NEW r, NEW x \in Nat, NEW y \in Nat, NEW f \in Nat, NEW c \in Nat, InPages(r, x, y, f, c),
         NEW k \in Nat
  PROVE  PageOf(r.virt + PageSize * k) = x + k /\ PageOf(r.phys + PageSize * k) = y + k
<1>1. PICK s \in Nat \ {0} : s = PageSize
  BY VmmSizes
<1>2. r.virt = s * x /\ r.phys = s * y
  BY <1>1 DEF InPages
<1>3. PICK a \in Nat, b \in Nat : a = x + k /\ b = y + k
  OBVIOUS
<1>4. (s * a + 0) \div s = a /\ (s * b + 0) \div s = b
  BY Quotients
<1>5. s * x + s * k = s * a + 0 /\ s * y + s * k = s * b + 0
  BY <1>3
<1> QED
  BY <1>1, <1>2, <1>3, <1>4, <1>5 DEF PageOf

\* The pages of a region, and of its first k pages.
LEMMA InAt ==
  ASSUME NEW r, Fits(r), NEW x \in Nat, NEW y \in Nat, NEW f \in Nat, NEW c \in Nat,
         InPages(r, x, y, f, c), NEW v \in Nat
  PROVE  /\ In(v, r) <=> x <= v /\ v < x + c
         /\ \A k \in Nat : In(v, [r EXCEPT !.size = PageSize * k]) <=> x <= v /\ v < x + k
<1>1. PICK s \in Nat \ {0} : s = PageSize
  BY VmmSizes
<1>0. r \in [virt : Nat, phys : Nat, size : Nat, flags : SUBSET Flag]
  BY DEF Fits
<1>a. PICK z \in Nat, a \in Nat : z = r.size /\ a = r.virt
  BY <1>0
<1>b. PICK p, fl : p = r.phys /\ fl = r.flags
  OBVIOUS
<1>2. r = [virt |-> a, phys |-> p, size |-> z, flags |-> fl]
  BY <1>0, <1>a, <1>b
<1>3. a = s * x /\ r.virt = a /\ r.size = z
  BY <1>1, <1>2 DEF InPages
<1>4. v * s = s * v /\ (s * x <= s * v <=> x <= v)
  BY Multiples
<1>5. In(v, r) <=> s * x <= s * v /\ s * v < s * x + z
  BY <1>1, <1>3, <1>4 DEF In
<1>6. ASSUME x <= v PROVE s * v < s * x + z <=> v < x + c
  <2>1. PICK k \in Nat : v = x + k
    BY <1>6
  <2>2. s * v = s * x + s * k /\ s * x \in Nat /\ s * k \in Nat
    BY <2>1
  <2>3. s * k < z <=> k < c
    BY <1>1, <1>3 DEF InPages
  <2> QED
    BY <2>1, <2>2, <2>3
<1>7. In(v, r) <=> x <= v /\ v < x + c
  BY <1>4, <1>5, <1>6
<1>8. ASSUME NEW k \in Nat PROVE In(v, [r EXCEPT !.size = PageSize * k]) <=> x <= v /\ v < x + k
  <2>1. PICK u \in Nat : u = s * k
    OBVIOUS
  <2>2. PICK q : q = [virt |-> a, phys |-> p, size |-> u, flags |-> fl]
    OBVIOUS
  <2>3. [r EXCEPT !.size = PageSize * k] = q
    BY <1>1, <1>2, <2>1, <2>2
  <2>4. q.virt = s * x /\ q.size = s * k
    BY <1>3, <2>1, <2>2
  <2>5. In(v, q) <=> s * x <= s * v /\ s * v < s * x + s * k
    BY <1>1, <1>4, <2>4 DEF In
  <2>6. s * x + s * k = s * (x + k)
    OBVIOUS
  <2>7. s * v < s * (x + k) <=> v < x + k
    BY Multiples
  <2> QED
    BY <1>4, <2>3, <2>5, <2>6, <2>7
<1> QED
  BY <1>7, <1>8

\* The blocks of a region, in pages.
LEMMA BlockAt ==
  ASSUME NEW r, NEW x \in Nat, NEW y \in Nat, NEW f \in Nat, NEW c \in Nat, InPages(r, x, y, f, c),
         r.size \in Nat, NEW b \in Nat
  PROVE  AsBlock(r, b) <=> x <= E * b /\ E * b + E <= x + f /\ (y + (E * b - x)) % E = 0
<1>1. PICK s \in Nat \ {0}, e \in Nat \ {0} : s = PageSize /\ e = E /\ BlockSize = e * s
  BY VmmSizes DEF BlockSize
<1>2. r.virt = s * x /\ r.phys = s * y
  BY <1>1 DEF InPages
<1>3. PICK d \in Nat : d = e * b
  OBVIOUS
<1>4. b * (e * s) = s * d /\ (b + 1) * (e * s) = s * (d + e)
  <2>1. b * (e * s) = s * (e * b) /\ (b + 1) * (e * s) = s * (e * b + e)
    OBVIOUS
  <2> QED
    BY <1>3, <2>1
<1>5. s * x <= s * d <=> x <= d
  BY Multiples
<1>6. AsBlock(r, b) <=> /\ s * x <= s * d /\ s * (d + e) <= s * x + r.size
                        /\ (s * y + (s * d - s * x)) % (e * s) = 0
  BY <1>1, <1>2, <1>4 DEF AsBlock
<1>7. ASSUME x <= d
      PROVE  /\ s * (d + e) <= s * x + r.size <=> d + e <= x + f
             /\ (s * y + (s * d - s * x)) % (e * s) = 0 <=> (y + (d - x)) % e = 0
  <2>1. PICK k \in Nat : k = d - x
    BY <1>7
  <2>2. PICK h \in Nat, l \in Nat : h = k + e /\ l = y + k
    OBVIOUS
  <2>3. s * (d + e) = s * x + s * h /\ s * x \in Nat /\ s * h \in Nat
    BY <2>1, <2>2
  <2>4. s * h <= r.size <=> h <= f
    BY <1>1 DEF InPages
  <2>5. s * y + (s * d - s * x) = s * l
    BY <2>1, <2>2
  <2>6. (s * l) % (e * s) = 0 <=> l % e = 0
    BY ScaledRemainder
  <2> QED
    BY <2>1, <2>2, <2>3, <2>4, <2>5, <2>6
<1>8. AsBlock(r, b) <=> x <= d /\ d + e <= x + f /\ (y + (d - x)) % e = 0
  BY <1>5, <1>6, <1>7
<1> QED
  BY <1>1, <1>3, <1>8

\* When the loop takes a block, in pages.
LEMMA TakesAt ==
  ASSUME NEW r, NEW x \in Nat, NEW y \in Nat, NEW f \in Nat, NEW c \in Nat, InPages(r, x, y, f, c),
         r.size \in Nat, NEW k \in Nat
  PROVE  TakesBlock(r, PageSize * k) <=> (x + k) % E = 0 /\ (y + k) % E = 0 /\ k + E <= f
<1>1. PICK s \in Nat \ {0}, e \in Nat \ {0} : s = PageSize /\ e = E /\ BlockSize = e * s
  BY VmmSizes DEF BlockSize
<1>2. r.virt = s * x /\ r.phys = s * y
  BY <1>1 DEF InPages
<1>3. PICK a \in Nat, b \in Nat, h \in Nat : a = x + k /\ b = y + k /\ h = k + e
  OBVIOUS
<1>4. s * x + s * k = s * a /\ s * y + s * k = s * b /\ s * h = s * k + e * s
  BY <1>3
<1>5. ((s * a) % (e * s) = 0 <=> a % e = 0) /\ ((s * b) % (e * s) = 0 <=> b % e = 0)
  BY ScaledRemainder
<1>6. s * h <= r.size <=> h <= f
  BY <1>1 DEF InPages
<1>7. r.size - s * k >= e * s <=> s * h <= r.size
  <2>1. s * k \in Nat /\ e * s \in Nat
    OBVIOUS
  <2> QED
    BY <1>4, <2>1
<1>8. TakesBlock(r, s * k) <=> /\ (s * a) % (e * s) = 0 /\ (s * b) % (e * s) = 0
                               /\ r.size - s * k >= e * s
  BY <1>1, <1>2, <1>4 DEF TakesBlock
<1>9. TakesBlock(r, s * k) <=> a % e = 0 /\ b % e = 0 /\ h <= f
  BY <1>5, <1>6, <1>7, <1>8
<1> QED
  BY <1>1, <1>3, <1>9
------------------------------------------------------------------------------
\* The multiple after e * b.
LEMMA NextMultiple ==
  ASSUME NEW e \in Nat \ {0}, NEW b \in Nat
  PROVE  (e * (b + 1) + 0) % e = 0
<1>1. PICK g \in Nat : g = b + 1
  OBVIOUS
<1>2. 0 \in 0 .. e - 1
  OBVIOUS
<1>3. (e * g + 0) % e = 0
  BY <1>2, Quotients
<1> QED
  BY <1>1, <1>3

\* The loop takes a block.
LEMMA LoopBlock ==
  ASSUME NEW r, Fits(r), NEW x \in Nat, NEW y \in Nat, NEW f \in Nat, NEW c \in Nat,
         InPages(r, x, y, f, c), NEW k \in Nat, TakesBlock(r, PageSize * k)
  PROVE  /\ AsBlock(r, (x + k) \div E) /\ At(r, k + E)
         /\ \A w \in Nat : w \div E = (x + k) \div E <=> x + k <= w /\ w < x + (k + E)
         /\ \A w \in Nat : w \div E = (x + k) \div E => (y + k) + L3(w) = y + (w - x)
<1>1. PICK e \in Nat \ {0} : e = E
  BY VmmSizes
<1>2. r.size \in Nat /\ PageOf(r.virt) = x
  BY DEF Fits, InPages
<1>3. (x + k) % e = 0 /\ (y + k) % e = 0 /\ k + e <= f
  BY <1>1, <1>2, TakesAt
<1>4. PICK a \in Nat : a = x + k
  OBVIOUS
<1>5. PICK b \in Nat, o \in 0 .. e - 1 : b = a \div e /\ o = a % e /\ a = e * b + o
  BY Divided
<1>6. x + k = e * b /\ b = (x + k) \div E
  BY <1>1, <1>3, <1>4, <1>5
<1>7. AsBlock(r, b)
  <2>1. PICK d \in Nat : d = e * b
    OBVIOUS
  <2>2. x <= d /\ d + e <= x + f /\ y + (d - x) = y + k
    BY <1>3, <1>6, <2>1
  <2>3. x <= E * b /\ E * b + E <= x + f /\ (y + (E * b - x)) % E = 0
    BY <1>1, <1>3, <2>1, <2>2
  <2> QED
    BY <1>2, <2>3, BlockAt
<1>8. At(r, k + E)
  <2>1. PICK h \in Nat : h = k + e
    OBVIOUS
  <2>2. h <= c
    BY <1>3, <2>1 DEF InPages
  <2>3. PageSize * h < r.size + PageSize
    BY <2>2 DEF InPages
  <2>4. (x + h) % e = 0
    <3>1. x + h = e * (b + 1) + 0
      <4>1. e * (b + 1) = e * b + e /\ e * b \in Nat
        OBVIOUS
      <4> QED
        BY <1>6, <2>1, <4>1
    <3>2. (e * (b + 1) + 0) % e = 0
      BY NextMultiple
    <3> QED
      BY <3>1, <3>2, Zenon
  <2> QED
    BY <1>1, <1>2, <2>1, <2>3, <2>4 DEF At
<1>9. ASSUME NEW w \in Nat
      PROVE  /\ w \div e = b <=> a <= w /\ w < a + e
             /\ w \div e = b => \E i \in Nat : i = w % e /\ w = a + i
  <2>1. PICK d \in Nat, i \in 0 .. e - 1 : d = w \div e /\ i = w % e /\ w = e * d + i
    BY Divided
  <2>2. a = e * b /\ e * b \in Nat /\ e * d \in Nat
    BY <1>4, <1>6
  <2>3. ASSUME d < b PROVE e * d + e <= e * b
    BY <2>3, Times
  <2>4. ASSUME b < d PROVE e * b + e <= e * d
    BY <2>4, Times
  <2>0. PICK g \in Nat, j \in Nat : g = e * d /\ j = e * b
    BY <2>2
  <2>a. w = g + i /\ a = j
    BY <2>0, <2>1, <2>2
  <2>b. (d < b => g + e <= j) /\ (b < d => j + e <= g) /\ (d = b => g = j)
    BY <2>0, <2>3, <2>4
  <2>5. (d = b <=> a <= w /\ w < a + e) /\ (d = b => w = a + i)
    BY <2>a, <2>b
  <2>6. i \in Nat
    OBVIOUS
  <2> QED
    BY <2>1, <2>5, <2>6, Zenon
<1>10. \A w \in Nat : w \div E = (x + k) \div E <=> x + k <= w /\ w < x + (k + E)
  <2> TAKE w \in Nat
  <2>1. w \div e = b <=> a <= w /\ w < a + e
    BY <1>9
  <2>2. a + e = x + (k + e)
    BY <1>4
  <2> QED
    BY <1>1, <1>4, <1>6, <2>1, <2>2
<1>11. \A w \in Nat : w \div E = (x + k) \div E => (y + k) + L3(w) = y + (w - x)
  <2> SUFFICES ASSUME NEW w \in Nat, w \div E = (x + k) \div E
               PROVE  (y + k) + L3(w) = y + (w - x)
    OBVIOUS
  <2>2. PICK i \in Nat : i = w % e /\ w = a + i
    BY <1>1, <1>6, <1>9
  <2>3. L3(w) = i
    BY <1>1, <2>2 DEF L3
  <2> QED
    BY <1>4, <2>2, <2>3
<1> QED
  BY <1>6, <1>7, <1>8, <1>10, <1>11

\* The loop takes a page: the page lies in no block of the region.
LEMMA LoopPage ==
  ASSUME NEW r, Fits(r), NEW x \in Nat, NEW y \in Nat, NEW f \in Nat, NEW c \in Nat,
         InPages(r, x, y, f, c), NEW k \in Nat, k < c, At(r, k), ~TakesBlock(r, PageSize * k)
  PROVE  ~AsBlock(r, (x + k) \div E) /\ At(r, k + 1)
<1>1. PICK e \in Nat \ {0} : e = E
  BY VmmSizes
<1>2. r.size \in Nat /\ PageOf(r.virt) = x
  BY DEF Fits, InPages
<1>4. PICK a \in Nat : a = x + k
  OBVIOUS
<1>5. PICK b \in Nat, o \in 0 .. e - 1 : b = a \div e /\ o = a % e /\ a = e * b + o
  BY Divided
<1>6. ~AsBlock(r, b)
  <2>1. SUFFICES ASSUME AsBlock(r, b) PROVE FALSE
    OBVIOUS
  <2>2. a % e = 0
    BY <1>1, <1>2, <1>4, <1>5, <2>1 DEF At
  <2>3. PICK d \in Nat : d = e * b
    OBVIOUS
  <2>4. a = d
    BY <1>5, <2>2, <2>3
  <2>5. d + e <= x + f /\ (y + (d - x)) % e = 0
    BY <1>1, <1>2, <2>1, <2>3, BlockAt
  <2>6. y + (d - x) = y + k /\ k + e <= f
    BY <1>1, <1>4, <2>4, <2>5 DEF InPages
  <2>7. (x + k) % E = 0 /\ (y + k) % E = 0 /\ k + E <= f
    BY <1>1, <1>4, <2>2, <2>5, <2>6
  <2> QED
    BY <1>2, <2>7, TakesAt
<1>7. At(r, k + 1)
  <2>1. PageSize * (k + 1) < r.size + PageSize
    <3>1. k + 1 \in Nat /\ k + 1 <= c
      OBVIOUS
    <3> QED
      BY <3>1 DEF InPages
  <2>2. ASSUME (a + 1) % e # 0 PROVE (a + 1) \div e = b
    <3>1. CASE o + 1 = e
      <4>1. a + 1 = e * (b + 1) + 0
        <5>1. e * (b + 1) = e * b + e /\ e * b \in Nat
          OBVIOUS
        <5>2. PICK d \in Nat : d = e * b
          OBVIOUS
        <5>3. a + 1 = d + e
          BY <1>5, <3>1, <5>2
        <5> QED
          BY <5>1, <5>2, <5>3
      <4>2. (e * (b + 1) + 0) % e = 0
        BY NextMultiple
      <4> QED
        BY <2>2, <4>1, <4>2, Zenon
    <3>2. CASE o + 1 < e
      <4>1. PICK i \in 0 .. e - 1 : i = o + 1
        BY <3>2
      <4>2. a + 1 = e * b + i
        <5>1. e * b \in Nat
          OBVIOUS
        <5> QED
          BY <1>5, <4>1, <5>1
      <4>3. (e * b + i) \div e = b
        BY Quotients
      <4> QED
        BY <4>2, <4>3
    <3> QED
      BY <3>1, <3>2
  <2>3. x + (k + 1) = a + 1
    BY <1>4
  <2>4. AsBlock(r, (a + 1) \div e) => (a + 1) % e = 0
    BY <1>6, <2>2
  <2> QED
    BY <1>1, <1>2, <2>1, <2>3, <2>4 DEF At
<1> QED
  BY <1>1, <1>4, <1>5, <1>6, <1>7

\* One iteration of vmm_map_region with n bytes behind it.
Mapping(r, n) ==
  IF TakesBlock(r, n) THEN vmm_map_block(mm, PageOf(r.virt + n), PageOf(r.phys + n), r.flags)
  ELSE vmm_map_page(mm, PageOf(r.virt + n), PageOf(r.phys + n), r.flags)

\* It maps the pages from k to h of the region from x to y, and nothing else.
Stepped(n, m, rt, r, x, y, k, h) ==
  \A w \in Pages :
    /\ IF x + k <= w /\ w < x + h THEN Walk(n.cell, rt, w) = <<y + (w - x), Attr(r.flags)>>
       ELSE Walk(n.cell, rt, w) = Walk(m.cell, rt, w)
    /\ InBlock(n.cell, rt, w) => InBlock(m.cell, rt, w) \/ AsBlock(r, w \div E)

\* Its outcome, unless the region has a page in a block.
LEMMA RegionStep ==
  ASSUME SizesOK, TreeOK(mm, root), NEW r, Fits(r),
         NEW x \in Nat, NEW y \in Nat, NEW f \in Nat, NEW c \in Nat,
         InPages(r, x, y, f, c), NEW k \in Nat, k < c, At(r, k),
         \A v \in Pages : InBlock(mm.cell, root, v) /\ In(v, r) => AsBlock(r, v \div E),
         NEW res, res = Mapping(r, PageSize * k)
  PROVE  /\ TreeOK(res.mm, root)
         /\ \E h \in Nat : /\ k < h /\ At(r, h)
                           /\ PageSize * k + (IF TakesBlock(r, PageSize * k) THEN BlockSize ELSE PageSize)
                                = PageSize * h
                           /\ res.ok => Stepped(res.mm, mm, root, r, x, y, k, h)
<1>1. PICK v \in Nat, p \in Nat : v = x + k /\ p = y + k
  OBVIOUS
<1>2. v \in Pages /\ p \in Pages
  <2>1. PICK q \in Nat : q = E * E * E
    BY VmmSizes
  <2>2. x + c <= q /\ y + c <= q
    BY <2>1 DEF InPages
  <2> QED
    BY <1>1, <2>1, <2>2 DEF Pages
<1>3. PageOf(r.virt + PageSize * k) = v /\ PageOf(r.phys + PageSize * k) = p
  BY <1>1, PageAt
<1>4. Pages \subseteq Nat
  BY VmmSizes
<1>5. CASE TakesBlock(r, PageSize * k)
  <2>1. /\ AsBlock(r, v \div E) /\ At(r, k + E)
        /\ \A w \in Nat : w \div E = v \div E <=> x + k <= w /\ w < x + (k + E)
        /\ \A w \in Nat : w \div E = v \div E => p + L3(w) = y + (w - x)
    BY <1>1, <1>5, LoopBlock
  <2>2. res = vmm_map_block(mm, v, p, r.flags)
    BY <1>3, <1>5 DEF Mapping
  <2>3. TreeOK(res.mm, root) /\ (res.ok => BlockIs(res.mm, mm, root, v, p, r.flags))
    BY <1>2, <2>2, BlockMapped
  <2>4. PICK h \in Nat : h = k + E
    BY VmmSizes
  <2>5. PageSize * k + BlockSize = PageSize * h
    <3>1. PICK s \in Nat \ {0}, e \in Nat \ {0} : s = PageSize /\ e = E /\ BlockSize = e * s
      BY VmmSizes DEF BlockSize
    <3>2. s * k + e * s = s * (k + e)
      OBVIOUS
    <3> QED
      BY <2>4, <3>1, <3>2
  <2>6. k < h
    BY <2>4, VmmSizes
  <2>7. ASSUME res.ok PROVE Stepped(res.mm, mm, root, r, x, y, k, h)
    <3> SUFFICES ASSUME NEW w \in Pages
                 PROVE  /\ IF x + k <= w /\ w < x + h
                           THEN Walk(res.mm.cell, root, w) = <<y + (w - x), Attr(r.flags)>>
                           ELSE Walk(res.mm.cell, root, w) = Walk(mm.cell, root, w)
                        /\ InBlock(res.mm.cell, root, w) =>
                             InBlock(mm.cell, root, w) \/ AsBlock(r, w \div E)
      BY DEF Stepped
    <3>1. w \div E = v \div E <=> x + k <= w /\ w < x + h
      BY <1>4, <2>1, <2>4
    <3>2. w \div E = v \div E => p + L3(w) = y + (w - x)
      BY <1>4, <2>1
    <3>3. BlockIs(res.mm, mm, root, v, p, r.flags)
      BY <2>3, <2>7
    <3>4. CASE w \div E = v \div E
      <4>1. Walk(res.mm.cell, root, w) = <<p + L3(w), Attr(r.flags)>>
        BY <3>3, <3>4 DEF BlockIs
      <4>2. p + L3(w) = y + (w - x)
        BY <3>2, <3>4
      <4>3. Walk(res.mm.cell, root, w) = <<y + (w - x), Attr(r.flags)>>
        BY <4>1, <4>2, Zenon
      <4>4. AsBlock(r, w \div E)
        BY <2>1, <3>4
      <4> QED
        BY <3>1, <3>4, <4>3, <4>4
    <3>5. CASE w \div E # v \div E
      <4>1. /\ Walk(res.mm.cell, root, w) = Walk(mm.cell, root, w)
            /\ InBlock(res.mm.cell, root, w) <=> InBlock(mm.cell, root, w)
        BY <3>3, <3>5 DEF BlockIs
      <4> QED
        BY <3>1, <3>5, <4>1
    <3> QED
      BY <3>4, <3>5
  <2> QED
    BY <1>5, <2>1, <2>3, <2>4, <2>5, <2>6, <2>7
<1>6. CASE ~TakesBlock(r, PageSize * k)
  <2>1. ~AsBlock(r, v \div E) /\ At(r, k + 1)
    BY <1>1, <1>6, LoopPage
  <2>2. res = vmm_map_page(mm, v, p, r.flags)
    BY <1>3, <1>6 DEF Mapping
  <2>3. In(v, r)
    <3>1. x <= v /\ v < x + c
      BY <1>1
    <3> QED
      BY <3>1, InAt
  <2>4. ~InBlock(mm.cell, root, v)
    BY <1>2, <2>1, <2>3
  <2>5. TreeOK(res.mm, root) /\ (res.ok => PageIs(res.mm, mm, root, v, p, r.flags))
    BY <1>2, <2>2, <2>4, PageMapped
  <2>6. PICK h \in Nat : h = k + 1
    OBVIOUS
  <2>7. PageSize * k + PageSize = PageSize * h
    BY <2>6, VmmSizes
  <2>8. ASSUME res.ok PROVE Stepped(res.mm, mm, root, r, x, y, k, h)
    <3> SUFFICES ASSUME NEW w \in Pages
                 PROVE  /\ IF x + k <= w /\ w < x + h
                           THEN Walk(res.mm.cell, root, w) = <<y + (w - x), Attr(r.flags)>>
                           ELSE Walk(res.mm.cell, root, w) = Walk(mm.cell, root, w)
                        /\ InBlock(res.mm.cell, root, w) =>
                             InBlock(mm.cell, root, w) \/ AsBlock(r, w \div E)
      BY DEF Stepped
    <3>1. w = v <=> x + k <= w /\ w < x + h
      BY <1>1, <1>4, <2>6
    <3>2. w = v => p = y + (w - x)
      BY <1>1
    <3>3. PageIs(res.mm, mm, root, v, p, r.flags)
      BY <2>5, <2>8
    <3>4. InBlock(res.mm.cell, root, w) <=> InBlock(mm.cell, root, w)
      BY <3>3 DEF PageIs
    <3>5. CASE w = v
      <4>1. Walk(res.mm.cell, root, w) = <<p, Attr(r.flags)>>
        BY <3>3, <3>5 DEF PageIs
      <4>2. p = y + (w - x)
        BY <3>2, <3>5
      <4>3. Walk(res.mm.cell, root, w) = <<y + (w - x), Attr(r.flags)>>
        BY <4>1, <4>2, Zenon
      <4> QED
        BY <3>1, <3>4, <3>5, <4>3
    <3>6. CASE w # v
      <4>1. Walk(res.mm.cell, root, w) = Walk(mm.cell, root, w)
        BY <3>3, <3>6 DEF PageIs
      <4> QED
        BY <3>1, <3>4, <3>6, <4>1
    <3> QED
      BY <3>5, <3>6
  <2>9. k < h
    BY <2>6
  <2> QED
    BY <1>6, <2>1, <2>5, <2>6, <2>7, <2>8, <2>9
<1> QED
  BY <1>5, <1>6
------------------------------------------------------------------------------
\* What the proofs use of the layout.
Laid(B, S) ==
  /\ B \in Seq([virt : Nat, phys : Nat, size : Nat, flags : SUBSET Flag]) /\ Len(B) \in Nat /\ Len(B) >= 3
  /\ \A i \in 1 .. Len(B) : Fits(B[i]) /\ B[i].phys = B[i].virt
  /\ \A i \in 2 .. Len(B) : B[i] \in S
  /\ \A r \in Later : r \in S
  /\ \A r \in S : Fits(r)
  /\ NoPageInBlock(S)
  /\ \A b \in Nat : AsBlock(B[1], b) => AsBlock(B[2], b)
  /\ \A v \in Pages, i \in 1 .. Len(B), j \in 1 .. Len(B) :
       In(v, B[i]) /\ In(v, B[j]) => B[i].flags = B[j].flags

\* The regions of init_vmm, one by one.
LEMMA BootParts ==
  /\ BootRegions[1] = Region(RamBase, kernel, {"WRITABLE"})
  /\ BootRegions[2] = Region(RamBase, ram, {"WRITABLE"})
  /\ BootRegions[3] = HeapRegion
  /\ Len(Devices) \in Nat /\ Len(BootRegions) = 3 + Len(Devices)
  /\ \A i \in 4 .. Len(BootRegions) :
       i - 3 \in DOMAIN Devices /\ BootRegions[i] = Devices[i - 3]
  /\ \A k \in DOMAIN Devices : k + 3 \in 1 .. Len(BootRegions) /\ BootRegions[k + 3] = Devices[k]
  /\ BootRegions \in Seq([virt : Nat, phys : Nat, size : Nat, flags : SUBSET Flag]
                          \cup {BootRegions[1], BootRegions[2], BootRegions[3]})
<1>1. PICK T : T = [virt : Nat, phys : Nat, size : Nat, flags : SUBSET Flag]
  OBVIOUS
<1>2. PICK D \in Seq(T) : D = Devices
  BY <1>1, LayoutAssumption
<1>3. PICK a, b, c : a = Region(RamBase, kernel, {"WRITABLE"}) /\ b = Region(RamBase, ram, {"WRITABLE"})
                     /\ c = HeapRegion
  OBVIOUS
<1>4. BootRegions = <<a, b, c>> \o D
  BY <1>2, <1>3 DEF BootRegions
<1>5. PICK U : U = T \cup {a, b, c}
  OBVIOUS
<1>6. <<a, b, c>> \in Seq(U) /\ Len(<<a, b, c>>) = 3 /\ D \in Seq(U)
  BY <1>2, <1>5
<1>a. PICK A \in Seq(U) : A = <<a, b, c>>
  BY <1>6
<1>b. /\ A \o D \in Seq(U) /\ Len(A \o D) = Len(A) + Len(D)
      /\ \A i \in 1 .. Len(A) + Len(D) : (A \o D)[i] = IF i <= Len(A) THEN A[i] ELSE D[i - Len(A)]
  BY <1>6, ConcatProperties
<1>7. PICK W \in Seq(U) : W = A \o D
  BY <1>b
<1>8. /\ Len(W) = 3 + Len(D) /\ Len(D) \in Nat /\ DOMAIN D = 1 .. Len(D)
      /\ \A i \in 1 .. 3 + Len(D) : W[i] = IF i <= 3 THEN <<a, b, c>>[i] ELSE D[i - 3]
  BY <1>2, <1>6, <1>7, <1>a, <1>b
<1>9. W[1] = a /\ W[2] = b /\ W[3] = c
  BY <1>8
<1>10. \A i \in 4 .. Len(W) : i - 3 \in DOMAIN D /\ W[i] = D[i - 3]
  BY <1>8
<1>11. \A k \in DOMAIN D : k + 3 \in 1 .. Len(W) /\ W[k + 3] = D[k]
  BY <1>8
<1>12. BootRegions = W
  BY <1>4, <1>7, <1>a
<1> QED
  BY <1>1, <1>2, <1>3, <1>5, <1>8, <1>9, <1>10, <1>11, <1>12

\* The tables of pmm_init lie behind the kernel.
LEMMA Reserved ==
  ASSUME NEW k \in Nat
  PROVE  ReservedEnd(k) \in Nat /\ RamBase + k <= ReservedEnd(k)
<1>1. PICK s \in Nat \ {0}, x \in Nat, w \in Nat :
        s = PageSize /\ x = RamBase + k /\ w = (x + s) - 1
  <2>1. PageSize \in Nat \ {0} /\ RamBase + k \in Nat /\ (RamBase + k + PageSize) - 1 \in Nat
    BY VmmSizes
  <2> QED
    BY <2>1
<1>2. PICK d \in Nat, e \in 0 .. s - 1 : d = w \div s /\ w = s * d + e
  <2>1. \E d \in Nat, e \in 0 .. s - 1 : d = w \div s /\ e = w % s /\ w = s * d + e
    BY Divided
  <2> QED
    BY <2>1, Zenon
<1>3. PICK y \in Nat : y = s * d
  OBVIOUS
<1>4. x <= y
  BY <1>1, <1>2, <1>3
<1>5. PageUp(RamBase + k) = y
  <2>1. d * s = y
    BY <1>3
  <2> QED
    BY <1>1, <1>2, <2>1 DEF PageUp, PageOf
<1> QED
  BY <1>1, <1>4, <1>5, VmmSizes DEF ReservedEnd

\* The layout of the regions, for every RAM and kernel size.
LEMMA LayoutParts ==
  ASSUME SizesOK
  PROVE  /\ ram \in Nat /\ kernel \in Nat /\ kernel <= ram
         /\ ReservedEnd(kernel) \in Nat /\ ReservedEnd(kernel) + PageSize <= RamBase + ram
         /\ RamBase + ram <= AddressSpace /\ RamBase % PageSize = 0
         /\ NoPageInBlock(Mappable) /\ IdentityRegions(ram)
         /\ Fits(HeapRegion) /\ (\A k \in DOMAIN Devices : Fits(Devices[k])) /\ (\A r \in Later : Fits(r))
<1>1. ram \in RamSizes /\ kernel \in KernelSizes
  BY DEF SizesOK
<1>2. ram \in Nat /\ kernel \in Nat
  BY <1>1, VmmAssumption
<1>3. /\ ReservedEnd(kernel) + PageSize <= RamBase + ram
      /\ RamBase + ram <= AddressSpace /\ RamBase % PageSize = 0
      /\ NoPageInBlock(Wanted(ram) \cup {HeapRegion} \cup Later) /\ IdentityRegions(ram)
  BY <1>1, LayoutAssumption
<1>4. \A r \in {HeapRegion} \cup {Devices[k] : k \in DOMAIN Devices} \cup Later : Fits(r)
  BY LayoutAssumption
<1>5. Fits(HeapRegion) /\ (\A k \in DOMAIN Devices : Fits(Devices[k])) /\ (\A r \in Later : Fits(r))
  BY <1>4
<1>6. ReservedEnd(kernel) \in Nat /\ kernel <= ram
  BY <1>2, <1>3, Reserved, VmmSizes
<1> QED
  BY <1>2, <1>3, <1>5, <1>6 DEF Mappable

\* The regions of RAM and of the kernel in it.
LEMMA RamRegion ==
  ASSUME SizesOK, NEW z \in Nat, z <= ram, NEW r, r = Region(RamBase, z, {"WRITABLE"})
  PROVE  /\ r \in [virt : Nat, phys : Nat, size : Nat, flags : SUBSET Flag]
         /\ r.virt = RamBase /\ r.phys = RamBase /\ r.size = z /\ r.flags = {"WRITABLE"}
         /\ Fits(r)
<1>1. r = [virt |-> RamBase, phys |-> RamBase, size |-> z, flags |-> {"WRITABLE"}]
  BY DEF Region
<1>2. r \in [virt : Nat, phys : Nat, size : Nat, flags : SUBSET Flag]
  BY <1>1, VmmSizes DEF Flag
<1>3. r.virt = RamBase /\ r.phys = RamBase /\ r.size = z /\ r.flags = {"WRITABLE"}
  BY <1>1
<1>4. PICK q : q = AddressSpace
  OBVIOUS
<1>5. q \in Nat
  BY <1>4, VmmSizes DEF AddressSpace
<1>6. RamBase + z <= q
  BY <1>4, <1>5, LayoutParts, VmmSizes
<1>7. RamBase % PageSize = 0
  BY LayoutParts
<1> QED
  BY <1>2, <1>3, <1>4, <1>6, <1>7 DEF Fits

\* Every page of a region of init_vmm is one of RAM or a device, with its flags.
LEMMA InWanted ==
  ASSUME SizesOK, NEW v \in Pages, NEW i \in 1 .. Len(BootRegions), In(v, BootRegions[i])
  PROVE  \E s \in Wanted(ram) : In(v, s) /\ s.flags = BootRegions[i].flags
<1>1. PICK R : R = Region(RamBase, ram, {"WRITABLE"})
  OBVIOUS
<1>2. PICK K : K = Region(RamBase, kernel, {"WRITABLE"})
  OBVIOUS
<1>3. ram \in Nat /\ kernel \in Nat /\ kernel <= ram
  BY LayoutParts, VmmSizes
<1>4. /\ R.virt = RamBase /\ R.size = ram /\ R.flags = {"WRITABLE"}
      /\ K.virt = RamBase /\ K.size = kernel /\ K.flags = {"WRITABLE"}
  <2>1. R.virt = RamBase /\ R.size = ram /\ R.flags = {"WRITABLE"}
    BY <1>1, <1>3, RamRegion
  <2>2. K.virt = RamBase /\ K.size = kernel /\ K.flags = {"WRITABLE"}
    BY <1>2, <1>3, RamRegion
  <2> QED
    BY <2>1, <2>2
<1>5. R \in Wanted(ram)
  BY <1>1 DEF Wanted
<1>6. PICK a \in Nat : a = v * PageSize
  BY VmmSizes
<1>7. CASE i = 1
  <2>1. In(v, K)
    BY <1>2, <1>7, BootParts
  <2>2. In(v, R)
    BY <1>3, <1>4, <1>6, <2>1, VmmSizes DEF In
  <2> QED
    BY <1>2, <1>4, <1>5, <1>7, <2>2, BootParts
<1>8. CASE i = 2
  BY <1>1, <1>5, <1>8, BootParts
<1>9. CASE i = 3
  <2>1. In(v, HeapRegion)
    BY <1>9, BootParts
  <2>2. /\ HeapRegion = Region(HeapRegion.virt, HeapRegion.size, {"WRITABLE"})
        /\ RamBase <= HeapRegion.virt /\ HeapRegion.virt + HeapRegion.size <= RamBase + ram
    BY LayoutParts DEF IdentityRegions
  <2>3. PICK x \in Nat, z \in Nat : x = HeapRegion.virt /\ z = HeapRegion.size
    BY LayoutParts DEF Fits
  <2>4. HeapRegion.flags = {"WRITABLE"}
    <3>1. Region(x, z, {"WRITABLE"}).flags = {"WRITABLE"}
      BY DEF Region
    <3> QED
      BY <2>2, <2>3, <3>1
  <2>5. x <= a /\ a < x + z
    BY <1>6, <2>1, <2>3 DEF In
  <2>6. RamBase <= a /\ a < RamBase + ram
    BY <1>3, <2>2, <2>3, <2>5, VmmSizes
  <2>7. In(v, R)
    BY <1>4, <1>6, <2>6 DEF In
  <2> QED
    BY <1>4, <1>5, <1>9, <2>4, <2>7, BootParts
<1>10. CASE i \in 4 .. Len(BootRegions)
  <2>1. i - 3 \in DOMAIN Devices /\ BootRegions[i] = Devices[i - 3]
    BY <1>10, BootParts
  <2>2. BootRegions[i] \in Wanted(ram)
    BY <2>1 DEF Wanted
  <2> QED
    BY <2>2
<1> QED
  <2>1. Len(BootRegions) \in Nat
    BY BootParts
  <2> QED
    BY <1>7, <1>8, <1>9, <1>10, <2>1

\* And every page of RAM or a device is in a region of init_vmm.
LEMMA WantedIn ==
  ASSUME NEW v, NEW s \in Wanted(ram), In(v, s)
  PROVE  \E i \in 1 .. Len(BootRegions) : BootRegions[i] = s /\ In(v, BootRegions[i])
<1>1. CASE s = Region(RamBase, ram, {"WRITABLE"})
  <2>1. BootRegions[2] = s /\ 2 \in 1 .. Len(BootRegions)
    BY <1>1, BootParts
  <2> QED
    BY <2>1
<1>2. ASSUME NEW k \in DOMAIN Devices, s = Devices[k]
      PROVE  \E i \in 1 .. Len(BootRegions) : BootRegions[i] = s /\ In(v, BootRegions[i])
  <2>1. k + 3 \in 1 .. Len(BootRegions) /\ BootRegions[k + 3] = s
    BY <1>2, BootParts
  <2> QED
    BY <2>1
<1> QED
  BY <1>1, <1>2 DEF Wanted

\* What the other proofs use of the layout holds.
LEMMA LayoutHolds ==
  ASSUME SizesOK
  PROVE  Laid(BootRegions, Mappable)
<1>1. PICK R : R = Region(RamBase, ram, {"WRITABLE"})
  OBVIOUS
<1>2. PICK K : K = Region(RamBase, kernel, {"WRITABLE"})
  OBVIOUS
<1>3. ram \in Nat /\ kernel \in Nat /\ kernel <= ram
  BY LayoutParts, VmmSizes
<1>4. PICK T : T = [virt : Nat, phys : Nat, size : Nat, flags : SUBSET Flag]
  OBVIOUS
<1>5. /\ R \in T /\ R.virt = RamBase /\ R.phys = RamBase /\ R.size = ram /\ Fits(R)
      /\ K \in T /\ K.virt = RamBase /\ K.phys = RamBase /\ K.size = kernel /\ Fits(K)
  <2>1. R \in T /\ R.virt = RamBase /\ R.phys = RamBase /\ R.size = ram /\ Fits(R)
    BY <1>1, <1>3, <1>4, RamRegion
  <2>2. K \in T /\ K.virt = RamBase /\ K.phys = RamBase /\ K.size = kernel /\ Fits(K)
    BY <1>2, <1>3, <1>4, RamRegion
  <2> QED
    BY <2>1, <2>2
<1>6. HeapRegion \in T /\ Fits(HeapRegion)
  BY <1>4, LayoutParts DEF Fits
<1>7. PICK B : B = BootRegions
  OBVIOUS
<1>8. B[1] = K /\ B[2] = R /\ B[3] = HeapRegion /\ Len(B) \in Nat /\ Len(B) >= 3
  BY <1>1, <1>2, <1>7, BootParts
<1>9. \A i \in 4 .. Len(B) : i - 3 \in DOMAIN Devices /\ B[i] = Devices[i - 3]
  BY <1>7, BootParts
<1>10. B \in Seq(T)
  <2>1. B \in Seq(T \cup {B[1], B[2], B[3]})
    BY <1>4, <1>7, BootParts
  <2>2. T \cup {B[1], B[2], B[3]} = T
    BY <1>5, <1>6, <1>8
  <2> QED
    BY <2>1, <2>2, Zenon
<1>11. ASSUME NEW i \in 1 .. Len(B) PROVE Fits(B[i]) /\ B[i].phys = B[i].virt
  <2>1. CASE i = 1 \/ i = 2
    BY <1>5, <1>8, <2>1
  <2>2. CASE i = 3
    <3>1. HeapRegion = Region(HeapRegion.virt, HeapRegion.size, {"WRITABLE"})
      BY LayoutParts DEF IdentityRegions
    <3>2. PICK x, z : x = HeapRegion.virt /\ z = HeapRegion.size
      OBVIOUS
    <3>3. Region(x, z, {"WRITABLE"}).phys = x
      BY DEF Region
    <3>4. HeapRegion.phys = HeapRegion.virt
      BY <3>1, <3>2, <3>3
    <3> QED
      BY <1>6, <1>8, <2>2, <3>4
  <2>3. CASE i \in 4 .. Len(B)
    BY <1>9, <2>3, LayoutParts DEF IdentityRegions
  <2> QED
    BY <1>8, <2>1, <2>2, <2>3
<1>12. ASSUME NEW i \in 2 .. Len(B) PROVE B[i] \in Mappable
  <2>1. CASE i = 2
    BY <1>1, <1>8, <2>1 DEF Mappable, Wanted
  <2>2. CASE i = 3
    BY <1>8, <2>2 DEF Mappable
  <2>3. CASE i \in 4 .. Len(B)
    BY <1>9, <2>3 DEF Mappable, Wanted
  <2> QED
    BY <1>8, <2>1, <2>2, <2>3
<1>13. ASSUME NEW r \in Mappable PROVE Fits(r)
  <2>1. CASE r = R
    BY <1>5, <2>1
  <2>2. CASE r # R
    <3>1. r \in {HeapRegion} \cup {Devices[k] : k \in DOMAIN Devices} \cup Later
      BY <1>1, <2>2 DEF Mappable, Wanted
    <3> QED
      BY <3>1, LayoutAssumption
  <2> QED
    BY <2>1, <2>2
<1>14. ASSUME NEW b \in Nat, AsBlock(B[1], b) PROVE AsBlock(B[2], b)
  <2>1. PICK y \in Nat : y = (b + 1) * BlockSize
    BY VmmSizes
  <2>2. y <= RamBase + kernel
    BY <1>5, <1>8, <1>14, <2>1 DEF AsBlock
  <2>3. y <= RamBase + ram
    BY <1>3, <2>2, VmmSizes
  <2> QED
    BY <1>5, <1>8, <1>14, <2>1, <2>3 DEF AsBlock
<1>15. ASSUME NEW v \in Pages, NEW i \in 1 .. Len(B), NEW j \in 1 .. Len(B), In(v, B[i]), In(v, B[j])
       PROVE  B[i].flags = B[j].flags
  <2>1. PICK s \in Wanted(ram) : In(v, s) /\ s.flags = B[i].flags
    BY <1>7, <1>15, InWanted
  <2>2. PICK t \in Wanted(ram) : In(v, t) /\ t.flags = B[j].flags
    BY <1>7, <1>15, InWanted
  <2>3. s.flags = t.flags
    BY <2>1, <2>2, LayoutParts DEF IdentityRegions
  <2> QED
    BY <2>1, <2>2, <2>3
<1>16. (\A r \in Later : r \in Mappable) /\ NoPageInBlock(Mappable)
  BY LayoutParts DEF Mappable
<1> QED
  BY <1>4, <1>7, <1>8, <1>10, <1>11, <1>12, <1>13, <1>14, <1>15, <1>16 DEF Laid
------------------------------------------------------------------------------
\* A region that is being mapped, by its number of regions behind it.
Current(B, S, d, r) == d \in Nat /\ ((d = 0 /\ r = B[1]) \/ (d # 0 /\ r \in S))

\* A page of the region that is in a block is in a block of the region.
LEMMA BlocksAreOwn ==
  ASSUME NEW B, NEW S, Laid(B, S), NEW d, NEW r, Current(B, S, d, r),
         NEW v \in Pages, BlocksOf(B, S, d, v \div E), In(v, r)
  PROVE  AsBlock(r, v \div E)
<1>1. CASE d = 0
  BY <1>1 DEF Current, BlocksOf
<1>2. CASE d # 0
  <2>1. PICK s \in S : AsBlock(s, v \div E)
    BY <1>2 DEF BlocksOf
  <2>2. r \in S
    BY <1>2 DEF Current
  <2> QED
    BY <2>1, <2>2 DEF Laid, NoPageInBlock
<1> QED
  BY <1>1, <1>2

\* After the step the blocks are still those of the regions so far.
LEMMA StepBlocks ==
  ASSUME NEW B, NEW S, NEW d, NEW r, Current(B, S, d, r), NEW n, NEW m, NEW rt,
         NEW x, NEW y, NEW k, NEW h, Stepped(n, m, rt, r, x, y, k, h),
         \A v \in Pages : InBlock(m.cell, rt, v) => BlocksOf(B, S, d, v \div E)
  PROVE  \A v \in Pages : InBlock(n.cell, rt, v) => BlocksOf(B, S, d, v \div E)
<1> SUFFICES ASSUME NEW v \in Pages, InBlock(n.cell, rt, v) PROVE BlocksOf(B, S, d, v \div E)
  OBVIOUS
<1>1. InBlock(m.cell, rt, v) \/ AsBlock(r, v \div E)
  BY DEF Stepped
<1>2. AsBlock(r, v \div E) => BlocksOf(B, S, d, v \div E)
  BY DEF Current, BlocksOf
<1> QED
  BY <1>1, <1>2

\* After the step that much more of the region is mapped as asked.
LEMMA StepMaps ==
  ASSUME NEW r, Fits(r), NEW x \in Nat, NEW y \in Nat, NEW f \in Nat, NEW c \in Nat,
         InPages(r, x, y, f, c), NEW n, NEW m, NEW rt, NEW k \in Nat, NEW h \in Nat,
         Stepped(n, m, rt, r, x, y, k, h), Maps(r, PageSize * k, m.cell, rt)
  PROVE  Maps(r, PageSize * h, n.cell, rt)
<1> SUFFICES ASSUME NEW v \in Pages, In(v, [r EXCEPT !.size = PageSize * h])
             PROVE  Walk(n.cell, rt, v) = <<PageOf(r.phys) + v - PageOf(r.virt), Attr(r.flags)>>
  BY DEF Maps
<1>1. v \in Nat
  BY VmmSizes
<1>2. x <= v /\ v < x + h
  BY <1>1, InAt
<1>3. PageOf(r.virt) = x /\ PageOf(r.phys) = y
  BY DEF InPages
<1>4. CASE x + k <= v
  BY <1>2, <1>3, <1>4 DEF Stepped
<1>5. CASE v < x + k
  <2>1. In(v, [r EXCEPT !.size = PageSize * k])
    BY <1>1, <1>2, <1>5, InAt
  <2>2. Walk(m.cell, rt, v) = <<PageOf(r.phys) + v - PageOf(r.virt), Attr(r.flags)>>
    BY <2>1 DEF Maps
  <2>3. ~(x + k <= v)
    BY <1>1, <1>5
  <2>4. Walk(n.cell, rt, v) = Walk(m.cell, rt, v)
    BY <2>3 DEF Stepped
  <2> QED
    BY <2>2, <2>4
<1> QED
  BY <1>1, <1>4, <1>5

\* Nothing of a region is mapped at first.
LEMMA NothingIn ==
  ASSUME NEW r, Fits(r)
  PROVE  /\ \A v \in Pages : ~In(v, [r EXCEPT !.size = 0])
         /\ \A c, rt : Maps(r, 0, c, rt)
<1>1. PICK x \in Nat, y \in Nat, f \in Nat, c \in Nat : InPages(r, x, y, f, c)
  BY RegionPages
<1>2. PageSize * 0 = 0
  BY VmmSizes
<1>3. ASSUME NEW v \in Pages PROVE ~In(v, [r EXCEPT !.size = 0])
  <2>1. v \in Nat
    BY VmmSizes
  <2>2. In(v, [r EXCEPT !.size = PageSize * 0]) <=> x <= v /\ v < x + 0
    BY <1>1, <2>1, InAt
  <2> QED
    BY <1>2, <2>1, <2>2
<1> QED
  BY <1>3 DEF Maps

\* And the loop can start.
LEMMA AtStart ==
  ASSUME NEW r, Fits(r)
  PROVE  At(r, 0)
<1>1. PICK x \in Nat, y \in Nat, f \in Nat, c \in Nat : InPages(r, x, y, f, c)
  BY RegionPages
<1>2. PICK e \in Nat \ {0} : e = E
  BY VmmSizes
<1>3. PICK b \in Nat, o \in 0 .. e - 1 : b = x \div e /\ o = x % e /\ x = e * b + o
  BY Divided
<1>4. ASSUME AsBlock(r, b) PROVE o = 0
  <2>1. r.size \in Nat
    BY DEF Fits
  <2>2. x <= E * b
    BY <1>1, <1>4, <2>1, BlockAt
  <2>3. PICK d \in Nat : d = e * b
    OBVIOUS
  <2> QED
    BY <1>2, <1>3, <2>2, <2>3
<1>5. PageSize * 0 < r.size + PageSize
  BY VmmSizes DEF Fits
<1>6. PageOf(r.virt) + 0 = x
  BY <1>1 DEF InPages
<1> QED
  BY <1>2, <1>3, <1>4, <1>5, <1>6 DEF At

\* Progress within a region of init_vmm.
LEMMA StepProgress ==
  ASSUME NEW B, NEW S, Laid(B, S), NEW d \in 0 .. Len(B) - 1, NEW r, r = B[d + 1],
         NEW x \in Nat, NEW y \in Nat, NEW f \in Nat, NEW c \in Nat,
         InPages(r, x, y, f, c), NEW n, NEW m, NEW rt, NEW k \in Nat, NEW h \in Nat, k < h, At(r, h),
         Stepped(n, m, rt, r, x, y, k, h), Progress(B, m.cell, rt, d, PageSize * k)
  PROVE  Progress(B, n.cell, rt, d, PageSize * h)
<1>0. PICK l \in Nat : l = Len(B)
  BY DEF Laid
<1>1. d \in Nat /\ d + 1 \in 1 .. Len(B) /\ d < Len(B)
  BY <1>0
<1>2. Fits(r) /\ y = x
  <2>1. Fits(r) /\ r.phys = r.virt
    BY <1>1 DEF Laid
  <2>2. PageOf(r.virt) = x /\ PageOf(r.phys) = y
    BY DEF InPages
  <2> QED
    BY <2>1, <2>2
<1>3. h <= c
  BY DEF At, InPages
<1> SUFFICES ASSUME NEW v \in Pages, ~ \E q \in Later : In(v, q)
             PROVE  IF Reached(B, v, d, PageSize * h)
                    THEN \A i \in 1 .. Len(B) :
                           In(v, B[i]) => Walk(n.cell, rt, v) = <<v, Attr(B[i].flags)>>
                    ELSE Walk(n.cell, rt, v) = NULL
  BY DEF Progress
<1>4. v \in Nat
  BY VmmSizes
<1>5. /\ In(v, r) <=> x <= v /\ v < x + c
      /\ In(v, [r EXCEPT !.size = PageSize * k]) <=> x <= v /\ v < x + k
      /\ In(v, [r EXCEPT !.size = PageSize * h]) <=> x <= v /\ v < x + h
  BY <1>2, <1>4, InAt
<1>6. CASE x + k <= v /\ v < x + h
  <2>1. Walk(n.cell, rt, v) = <<x + (v - x), Attr(r.flags)>>
    BY <1>2, <1>6 DEF Stepped
  <2>2. x + (v - x) = v
    BY <1>4
  <2>3. Walk(n.cell, rt, v) = <<v, Attr(r.flags)>>
    BY <2>1, <2>2
  <2>4. In(v, r) /\ In(v, [r EXCEPT !.size = PageSize * h])
    BY <1>3, <1>4, <1>5, <1>6
  <2>5. Reached(B, v, d, PageSize * h)
    BY <1>1, <2>4 DEF Reached
  <2>6. ASSUME NEW i \in 1 .. Len(B), In(v, B[i]) PROVE B[i].flags = r.flags
    BY <1>1, <2>4, <2>6 DEF Laid
  <2> QED
    BY <2>3, <2>5, <2>6
<1>7. CASE ~(x + k <= v /\ v < x + h)
  <2>1. Walk(n.cell, rt, v) = Walk(m.cell, rt, v)
    BY <1>7 DEF Stepped
  <2>2. In(v, [r EXCEPT !.size = PageSize * h]) <=> In(v, [r EXCEPT !.size = PageSize * k])
    BY <1>4, <1>5, <1>7
  <2>3. Reached(B, v, d, PageSize * h) <=> Reached(B, v, d, PageSize * k)
    BY <2>2 DEF Reached
  <2>4. IF Reached(B, v, d, PageSize * k)
        THEN \A i \in 1 .. Len(B) : In(v, B[i]) => Walk(m.cell, rt, v) = <<v, Attr(B[i].flags)>>
        ELSE Walk(m.cell, rt, v) = NULL
    BY DEF Progress
  <2> QED
    BY <2>1, <2>3, <2>4
<1> QED
  BY <1>6, <1>7

\* A later region changes only its own pages.
LEMMA LaterProgress ==
  ASSUME NEW B, NEW S, Laid(B, S), NEW r \in Later,
         NEW x \in Nat, NEW y \in Nat, NEW f \in Nat, NEW c \in Nat,
         InPages(r, x, y, f, c), NEW n, NEW m, NEW rt, NEW k \in Nat, NEW h \in Nat, At(r, h),
         Stepped(n, m, rt, r, x, y, k, h), NEW d, NEW z, Progress(B, m.cell, rt, d, z)
  PROVE  Progress(B, n.cell, rt, d, z)
<1>1. Fits(r)
  BY DEF Laid
<1>2. h <= c
  BY DEF At, InPages
<1> SUFFICES ASSUME NEW v \in Pages, ~ \E q \in Later : In(v, q)
             PROVE  IF Reached(B, v, d, z)
                    THEN \A i \in 1 .. Len(B) :
                           In(v, B[i]) => Walk(n.cell, rt, v) = <<v, Attr(B[i].flags)>>
                    ELSE Walk(n.cell, rt, v) = NULL
  BY DEF Progress
<1>3. v \in Nat
  BY VmmSizes
<1>4. ~(x <= v /\ v < x + c)
  BY <1>1, <1>3, InAt
<1>5. ~(x + k <= v /\ v < x + h)
  BY <1>2, <1>3, <1>4
<1>6. Walk(n.cell, rt, v) = Walk(m.cell, rt, v)
  BY <1>5 DEF Stepped
<1>7. IF Reached(B, v, d, z)
      THEN \A i \in 1 .. Len(B) : In(v, B[i]) => Walk(m.cell, rt, v) = <<v, Attr(B[i].flags)>>
      ELSE Walk(m.cell, rt, v) = NULL
  BY DEF Progress
<1> QED
  BY <1>6, <1>7

\* From the end of a region of init_vmm to the start of the next.
LEMMA NextProgress ==
  ASSUME NEW B, NEW S, Laid(B, S), NEW d \in 0 .. Len(B) - 1, NEW r, r = B[d + 1],
         NEW ce, NEW rt, NEW k \in Nat, At(r, k), PageSize * k >= r.size,
         Progress(B, ce, rt, d, PageSize * k)
  PROVE  Progress(B, ce, rt, d + 1, 0)
<1>1. d \in Nat /\ d + 1 \in 1 .. Len(B) /\ d < Len(B) /\ Len(B) \in Nat
  BY DEF Laid
<1>2. Fits(r)
  BY <1>1 DEF Laid
<1>3. PICK x \in Nat, y \in Nat, f \in Nat, c \in Nat : InPages(r, x, y, f, c)
  BY <1>2, RegionPages
<1>4. k = c
  <2>1. k <= c
    BY <1>3 DEF At, InPages
  <2>2. PICK a \in Nat, z \in Nat : a = PageSize * k /\ z = r.size
    <3>1. r.size \in Nat
      BY <1>2 DEF Fits
    <3>2. PageSize * k \in Nat
      BY ONLY VmmSizes, k \in Nat, SMTT(20)
    <3> QED
      BY <3>1, <3>2
  <2>3. a < z <=> k < c
    BY <1>3, <2>2 DEF InPages
  <2> QED
    BY <2>1, <2>2, <2>3
<1> SUFFICES ASSUME NEW v \in Pages, ~ \E q \in Later : In(v, q)
             PROVE  IF Reached(B, v, d + 1, 0)
                    THEN \A i \in 1 .. Len(B) :
                           In(v, B[i]) => Walk(ce, rt, v) = <<v, Attr(B[i].flags)>>
                    ELSE Walk(ce, rt, v) = NULL
  BY DEF Progress
<1>5. v \in Nat
  BY VmmSizes
<1>6. In(v, r) <=> In(v, [r EXCEPT !.size = PageSize * k])
  BY <1>2, <1>3, <1>4, <1>5, InAt
<1>7. ~(d + 1 < Len(B) /\ In(v, [B[d + 1 + 1] EXCEPT !.size = 0]))
  <2>1. ASSUME d + 1 < Len(B) PROVE ~In(v, [B[d + 1 + 1] EXCEPT !.size = 0])
    <3>1. d + 1 + 1 \in 1 .. Len(B)
      BY <1>1, <2>1
    <3>2. Fits(B[d + 1 + 1])
      BY <3>1 DEF Laid
    <3> QED
      BY <3>2, NothingIn
  <2> QED
    BY <2>1
<1>8. Reached(B, v, d + 1, 0) <=> Reached(B, v, d, PageSize * k)
  <2>1. Reached(B, v, d + 1, 0) <=> \E i \in 1 .. d + 1 : In(v, B[i])
    BY <1>7 DEF Reached
  <2>2. (\E i \in 1 .. d + 1 : In(v, B[i])) <=> (\E i \in 1 .. d : In(v, B[i])) \/ In(v, B[d + 1])
    <3>1. \A i : i \in 1 .. d + 1 <=> i \in 1 .. d \/ i = d + 1
      BY <1>1
    <3> QED
      BY <3>1
  <2> QED
    BY <1>1, <1>6, <2>1, <2>2 DEF Reached
<1>9. IF Reached(B, v, d, PageSize * k)
      THEN \A i \in 1 .. Len(B) : In(v, B[i]) => Walk(ce, rt, v) = <<v, Attr(B[i].flags)>>
      ELSE Walk(ce, rt, v) = NULL
  BY DEF Progress
<1> QED
  BY <1>8, <1>9
------------------------------------------------------------------------------
\* The region in progress is one of init_vmm or a later one.
LEMMA HeadIs ==
  ASSUME NEW B, NEW S, Laid(B, S), NEW td, NEW p, NEW d \in 0 .. Len(B), p = "map",
         Booting(B, td, d) \/ Booted(B, td, p, d)
  PROVE  /\ td # <<>> /\ Current(B, S, d, Head(td)) /\ Fits(Head(td))
         /\ d < Len(B) => Booting(B, td, d) /\ Head(td) = B[d + 1]
         /\ ~(d < Len(B)) => d = Len(B) /\ \E r \in Later : td = <<r>> /\ Head(td) = r
<1>0. PICK l \in Nat : l = Len(B) /\ l >= 3
  BY DEF Laid
<1>1. d \in Nat
  BY <1>0
<1>2. CASE d < l
  <2>1. Booting(B, td, d)
    BY <1>0, <1>2 DEF Booted
  <2>2. PICK T : T = [virt : Nat, phys : Nat, size : Nat, flags : SUBSET Flag]
    OBVIOUS
  <2>3. td \in Seq(T) /\ Len(td) = l - d /\ \A i \in 1 .. Len(td) : td[i] = B[d + i]
    BY <1>0, <2>1, <2>2 DEF Booting
  <2>4. td # <<>> /\ Head(td) = td[1] /\ 1 \in 1 .. Len(td)
    BY <1>0, <1>1, <1>2, <2>3
  <2>5. Head(td) = B[d + 1]
    BY <2>3, <2>4
  <2>6. d + 1 \in 1 .. l
    BY <1>0, <1>1, <1>2
  <2>7. Fits(Head(td))
    BY <1>0, <2>5, <2>6 DEF Laid
  <2>8. Current(B, S, d, Head(td))
    <3>1. CASE d = 0
      BY <1>1, <2>5, <3>1 DEF Current
    <3>2. CASE d # 0
      <4>1. d + 1 \in 2 .. l
        BY <1>1, <2>6, <3>2
      <4>2. B[d + 1] \in S
        BY <1>0, <4>1 DEF Laid
      <4> QED
        BY <1>1, <2>5, <3>2, <4>2 DEF Current
    <3> QED
      BY <3>1, <3>2
  <2> QED
    BY <1>0, <1>2, <2>1, <2>4, <2>5, <2>7, <2>8
<1>3. CASE ~(d < l)
  <2>1. Booted(B, td, p, d)
    BY <1>0, <1>1, <1>3 DEF Booting
  <2>2. PICK r \in Later : td = <<r>>
    BY <2>1 DEF Booted
  <2>3. td # <<>> /\ Head(td) = r
    BY <2>2
  <2>4. d = l /\ d # 0
    BY <1>0, <2>1 DEF Booted
  <2>5. r \in S /\ Fits(r)
    BY DEF Laid
  <2> QED
    BY <1>0, <1>1, <1>3, <2>2, <2>3, <2>4, <2>5 DEF Current
<1> QED
  BY <1>0, <1>2, <1>3

\* The blocks so far are blocks of the regions so far.
LEMMA MoreBlocks ==
  ASSUME NEW B, NEW S, Laid(B, S), NEW d \in Nat, NEW v \in Pages, BlocksOf(B, S, d, v \div E)
  PROVE  BlocksOf(B, S, d + 1, v \div E)
<1>1. PICK b \in Nat : b = v \div E
  <2>1. v \in Nat /\ E \in Nat \ {0}
    BY VmmSizes
  <2> QED
    BY <2>1, Divided
<1>2. CASE d = 0
  <2>1. AsBlock(B[2], b)
    BY <1>1, <1>2 DEF Laid, BlocksOf
  <2>2. B[2] \in S
    <3>1. 2 \in 2 .. Len(B)
      BY DEF Laid
    <3> QED
      BY <3>1 DEF Laid
  <2> QED
    BY <1>1, <1>2, <2>1, <2>2 DEF BlocksOf
<1>3. CASE d # 0
  BY <1>3 DEF BlocksOf
<1> QED
  BY <1>2, <1>3

\* A new region to map, none of it yet.
LEMMA FreshRegion ==
  ASSUME NEW r, Fits(r), NEW c, NEW rt
  PROVE  (\E k \in Nat : 0 = PageSize * k /\ At(r, k)) /\ Maps(r, 0, c, rt)
<1>1. At(r, 0)
  BY AtStart
<1>2. 0 = PageSize * 0
  BY VmmSizes
<1> QED
  BY <1>1, <1>2, NothingIn

\* A caller's region.
LEMMA RunLater ==
  ASSUME NEW B, NEW S, Laid(B, S), NEW c, NEW rt, NEW td, NEW n, Running(B, S, c, rt, td, n, "ready"),
         NEW r \in Later
  PROVE  Running(B, S, c, rt, <<r>>, n, "map")
<1>1. PICK d \in 0 .. Len(B) : Phase(B, S, c, rt, td, n, "ready", d)
  BY DEF Running
<1>2. n = 0
  BY DEF Running
<1>3. d = Len(B) /\ Len(B) \in Nat
  BY <1>1 DEF Phase, Booted, Laid
<1>4. Progress(B, c, rt, d, 0)
  BY <1>1, <1>3 DEF Phase
<1>5. \A v \in Pages : InBlock(c, rt, v) => BlocksOf(B, S, d, v \div E)
  BY <1>1 DEF Phase
<1>6. Booted(B, <<r>>, "map", d)
  BY <1>3 DEF Booted
<1>7. Phase(B, S, c, rt, <<r>>, n, "map", d)
  BY <1>3, <1>4, <1>5, <1>6 DEF Phase
<1>8. Fits(r) /\ Head(<<r>>) = r
  BY DEF Laid
<1>9. (\E k \in Nat : n = PageSize * k /\ At(r, k)) /\ Maps(r, n, c, rt)
  BY <1>2, <1>8, FreshRegion
<1> QED
  BY <1>1, <1>7, <1>8, <1>9 DEF Running

\* The next region, or the end of boot.
LEMMA RunNext ==
  ASSUME NEW B, NEW S, Laid(B, S), NEW c, NEW rt, NEW td, NEW n, Running(B, S, c, rt, td, n, "map"),
         n >= Head(td).size, NEW p, p = IF Tail(td) = <<>> THEN "ready" ELSE "map"
  PROVE  Running(B, S, c, rt, Tail(td), 0, p)
<1>0. PICK l \in Nat : l = Len(B) /\ l >= 3
  BY DEF Laid
<1>1. PICK d \in 0 .. Len(B) : Phase(B, S, c, rt, td, n, "map", d)
  BY DEF Running
<1>2. PICK k \in Nat : n = PageSize * k /\ At(Head(td), k)
  BY DEF Running
<1>3. /\ Booting(B, td, d) \/ Booted(B, td, "map", d)
      /\ Progress(B, c, rt, d, IF d < Len(B) THEN n ELSE 0)
      /\ \A v \in Pages : InBlock(c, rt, v) => BlocksOf(B, S, d, v \div E)
  BY <1>1 DEF Phase
<1>4. d \in Nat
  BY <1>0
<1>5. CASE d < l
  <2>1. Booting(B, td, d) /\ Head(td) = B[d + 1] /\ td # <<>>
    BY <1>0, <1>3, <1>5, HeadIs
  <2>2. Progress(B, c, rt, d, PageSize * k)
    BY <1>0, <1>2, <1>3, <1>5
  <2>3. Progress(B, c, rt, d + 1, 0)
    <3>1. PICK r : r = Head(td)
      OBVIOUS
    <3>2. r = B[d + 1] /\ At(r, k) /\ PageSize * k >= r.size /\ d \in 0 .. Len(B) - 1
      BY <1>0, <1>2, <1>4, <1>5, <2>1, <3>1
    <3> QED
      BY <2>2, <3>2, NextProgress
  <2>4. \A v \in Pages : InBlock(c, rt, v) => BlocksOf(B, S, d + 1, v \div E)
    BY <1>3, <1>4, MoreBlocks
  <2>5. PICK T : T = [virt : Nat, phys : Nat, size : Nat, flags : SUBSET Flag]
    OBVIOUS
  <2>6. td \in Seq(T) /\ Len(td) = l - d /\ \A i \in 1 .. Len(td) : td[i] = B[d + i]
    BY <1>0, <2>1, <2>5 DEF Booting
  <2>7. PICK tl : tl = Tail(td)
    OBVIOUS
  <2>8. tl \in Seq(T) /\ Len(tl) = Len(td) - 1 /\ \A i \in 1 .. Len(tl) : tl[i] = td[i + 1]
    BY <2>1, <2>6, <2>7, HeadTailProperties
  <2>9. PICK e \in Nat : e = d + 1 /\ e <= l
    BY <1>0, <1>4, <1>5
  <2>10. Len(tl) = l - e /\ \A i \in 1 .. Len(tl) : tl[i] = B[e + i]
    <3>1. Len(tl) = l - e
      BY <1>0, <1>4, <2>6, <2>8, <2>9
    <3>2. ASSUME NEW i \in 1 .. Len(tl) PROVE tl[i] = B[e + i]
      <4>1. i \in Nat /\ i + 1 \in 1 .. Len(td)
        BY <1>4, <2>6, <2>8
      <4>2. tl[i] = td[i + 1] /\ td[i + 1] = B[d + (i + 1)]
        BY <2>6, <2>8, <4>1
      <4>3. d + (i + 1) = e + i
        BY <1>4, <2>9, <4>1
      <4> QED
        BY <4>2, <4>3
    <3> QED
      BY <3>1, <3>2
  <2>11. CASE tl = <<>>
    <3>1. e = l
      BY <2>9, <2>10, <2>11
    <3>2. p = "ready"
      BY <2>7, <2>11
    <3>3. Booted(B, tl, p, e)
      BY <1>0, <2>11, <3>1, <3>2 DEF Booted
    <3>4. Phase(B, S, c, rt, tl, 0, p, e)
      BY <2>3, <2>4, <2>9, <3>3 DEF Phase
    <3> QED
      BY <1>0, <2>7, <2>9, <3>2, <3>4 DEF Running
  <2>12. CASE tl # <<>>
    <3>1. p = "map"
      BY <2>7, <2>12
    <3>2. Len(tl) # 0 /\ Len(tl) \in Nat
      BY <2>8, <2>12, EmptySeq
    <3>3. e \in 0 .. l - 1
      BY <2>9, <2>10, <3>2
    <3>4. Booting(B, tl, e)
      BY <1>0, <2>5, <2>8, <2>10, <3>3 DEF Booting
    <3>5. Progress(B, c, rt, e, IF e < Len(B) THEN 0 ELSE 0)
      BY <2>3, <2>9
    <3>6. Phase(B, S, c, rt, tl, 0, p, e)
      BY <2>4, <2>9, <3>1, <3>4, <3>5 DEF Phase
    <3>7. e \in 0 .. Len(B)
      BY <1>0, <2>9
    <3>8. Fits(Head(tl))
      BY <3>1, <3>4, <3>7, HeadIs
    <3>9. (\E j \in Nat : 0 = PageSize * j /\ At(Head(tl), j)) /\ Maps(Head(tl), 0, c, rt)
      BY <3>8, FreshRegion
    <3> QED
      BY <2>7, <3>1, <3>6, <3>7, <3>9 DEF Running
  <2> QED
    BY <2>11, <2>12
<1>6. CASE ~(d < l)
  <2>1. PICK r \in Later : td = <<r>> /\ d = l
    BY <1>0, <1>3, <1>6, HeadIs
  <2>2. Tail(td) = <<>>
    BY <2>1
  <2>3. p = "ready"
    BY <2>2
  <2>4. Booted(B, Tail(td), p, d)
    BY <1>0, <2>1, <2>2, <2>3 DEF Booted
  <2>5. Progress(B, c, rt, d, 0)
    BY <1>0, <1>3, <1>6
  <2>6. Phase(B, S, c, rt, Tail(td), 0, p, d)
    BY <1>3, <2>4, <2>5 DEF Phase
  <2> QED
    BY <2>3, <2>6 DEF Running
<1> QED
  BY <1>5, <1>6
------------------------------------------------------------------------------
\* One iteration of vmm_map_region.
LEMMA RunStep ==
  ASSUME SizesOK, TreeOK(mm, root), NEW B, NEW S, Laid(B, S), NEW td, NEW n,
         Running(B, S, mm.cell, root, td, n, "map"), NEW r, r = Head(td), n < r.size,
         NEW res, res = Mapping(r, n), NEW z, z = n + IF TakesBlock(r, n) THEN BlockSize ELSE PageSize
  PROVE  /\ TreeOK(res.mm, root)
         /\ res.ok => Running(B, S, res.mm.cell, root, td, z, "map")
<1>0. PICK l \in Nat : l = Len(B) /\ l >= 3
  BY DEF Laid
<1>1. PICK d \in 0 .. Len(B) : Phase(B, S, mm.cell, root, td, n, "map", d)
  BY DEF Running
<1>2. PICK k \in Nat : n = PageSize * k /\ At(r, k)
  BY DEF Running
<1>3. /\ Booting(B, td, d) \/ Booted(B, td, "map", d)
      /\ Progress(B, mm.cell, root, d, IF d < Len(B) THEN n ELSE 0)
      /\ \A v \in Pages : InBlock(mm.cell, root, v) => BlocksOf(B, S, d, v \div E)
  BY <1>1 DEF Phase
<1>4. Current(B, S, d, r) /\ Fits(r)
  BY <1>3, HeadIs
<1>5. PICK x \in Nat, y \in Nat, f \in Nat, c \in Nat : InPages(r, x, y, f, c)
  BY <1>4, RegionPages
<1>6. k < c
  BY <1>2, <1>5 DEF InPages
<1>7. \A v \in Pages : InBlock(mm.cell, root, v) /\ In(v, r) => AsBlock(r, v \div E)
  BY <1>3, <1>4, BlocksAreOwn
<1>8. /\ TreeOK(res.mm, root)
      /\ \E h \in Nat : /\ k < h /\ At(r, h)
                        /\ PageSize * k + (IF TakesBlock(r, PageSize * k) THEN BlockSize ELSE PageSize)
                             = PageSize * h
                        /\ res.ok => Stepped(res.mm, mm, root, r, x, y, k, h)
  <2>1. res = Mapping(r, PageSize * k)
    BY <1>2
  <2> QED
    BY <1>2, <1>4, <1>5, <1>6, <1>7, <2>1, RegionStep
<1>9. PICK h \in Nat : k < h /\ At(r, h) /\ z = PageSize * h
                       /\ (res.ok => Stepped(res.mm, mm, root, r, x, y, k, h))
  BY <1>2, <1>8
<1>10. ASSUME res.ok PROVE Running(B, S, res.mm.cell, root, td, z, "map")
  <2>1. Stepped(res.mm, mm, root, r, x, y, k, h)
    BY <1>9, <1>10
  <2>2. PICK n2, m2, rt : n2 = res.mm /\ m2 = mm /\ rt = root
    OBVIOUS
  <2>3. Stepped(n2, m2, rt, r, x, y, k, h)
    BY <2>1, <2>2
  <2>4. Maps(r, z, n2.cell, rt)
    <3>1. Maps(r, PageSize * k, m2.cell, rt)
      BY <1>2, <2>2 DEF Running
    <3>2. Maps(r, PageSize * h, n2.cell, rt)
      BY <1>4, <1>5, <2>3, <3>1, StepMaps
    <3> QED
      BY <1>9, <3>2
  <2>5. \A v \in Pages : InBlock(n2.cell, rt, v) => BlocksOf(B, S, d, v \div E)
    <3>1. \A v \in Pages : InBlock(m2.cell, rt, v) => BlocksOf(B, S, d, v \div E)
      BY <1>3, <2>2
    <3> QED
      BY <1>4, <2>3, <3>1, StepBlocks
  <2>6. Progress(B, n2.cell, rt, d, IF d < Len(B) THEN z ELSE 0)
    <3>1. CASE d < l
      <4>1. r = B[d + 1]
        BY <1>0, <1>3, <3>1, HeadIs
      <4>2. Progress(B, m2.cell, rt, d, PageSize * k)
        BY <1>0, <1>2, <1>3, <2>2, <3>1
      <4>3. d \in 0 .. Len(B) - 1
        BY <1>0, <3>1
      <4>4. Progress(B, n2.cell, rt, d, PageSize * h)
        BY <1>5, <1>9, <2>3, <4>1, <4>2, <4>3, StepProgress
      <4> QED
        BY <1>0, <1>9, <3>1, <4>4
    <3>2. CASE ~(d < l)
      <4>1. r \in Later
        BY <1>0, <1>3, <3>2, HeadIs
      <4>2. Progress(B, m2.cell, rt, d, 0)
        BY <1>0, <1>3, <2>2, <3>2
      <4>3. Progress(B, n2.cell, rt, d, 0)
        BY <1>5, <1>9, <2>3, <4>1, <4>2, LaterProgress
      <4> QED
        BY <1>0, <3>2, <4>3
    <3> QED
      BY <3>1, <3>2
  <2>7. Phase(B, S, n2.cell, rt, td, z, "map", d)
    BY <1>3, <2>5, <2>6 DEF Phase
  <2> QED
    BY <1>9, <2>2, <2>4, <2>7 DEF Running
<1> QED
  BY <1>8, <1>10

\* Memory without an entry maps nothing.
LEMMA EmptyTree ==
  ASSUME NEW m, MemOK(m), NEW rt \in m.tables, \A f \in Pages, i \in Idx : m.cell[f][i] = NoEntry
  PROVE  TreeOK(m, rt) /\ \A v \in Pages : Walk(m.cell, rt, v) = NULL /\ ~InBlock(m.cell, rt, v)
<1>1. m.tables \in SUBSET Pages /\ rt \in Pages
  BY MemParts
<1>2. \A f \in m.tables, i \in Idx, h \in Pages : m.cell[f][i] # Ptr(h)
  BY <1>1, EntryTypes
<1>3. OneWay(m, rt)
  BY <1>1, <1>2 DEF OneWay
<1>4. Level1(m, rt)
  BY <1>1 DEF Level1
<1>5. TreeOK(m, rt)
  BY <1>1, <1>2, <1>3, <1>4 DEF TreeOK
<1>6. ASSUME NEW v \in Pages PROVE Walk(m.cell, rt, v) = NULL /\ ~InBlock(m.cell, rt, v)
  <2>1. m.cell[rt][L1(v)] = NoEntry
    BY <1>1, IndexType
  <2> QED
    BY <2>1 DEF Walk, InBlock
<1> QED
  BY <1>5, <1>6

\* After init_vmm has its root table.
LEMMA RunBegin ==
  ASSUME NEW B, NEW S, Laid(B, S), NEW c, NEW rt,
         \A v \in Pages : Walk(c, rt, v) = NULL /\ ~InBlock(c, rt, v)
  PROVE  Running(B, S, c, rt, B, 0, "map")
<1>0. PICK l \in Nat : l = Len(B) /\ l >= 3
  BY DEF Laid
<1>1. Booting(B, B, 0)
  BY <1>0 DEF Booting, Laid
<1>2. 0 \in 0 .. Len(B) /\ 0 < Len(B) /\ 1 \in 1 .. Len(B)
  BY <1>0
<1>3. Fits(B[1])
  BY <1>2 DEF Laid
<1>4. ASSUME NEW v \in Pages PROVE ~Reached(B, v, 0, 0)
  <2>1. ~In(v, [B[0 + 1] EXCEPT !.size = 0])
    BY <1>3, NothingIn
  <2> QED
    BY <2>1 DEF Reached
<1>5. Progress(B, c, rt, 0, 0)
  BY <1>4 DEF Progress
<1>6. Phase(B, S, c, rt, B, 0, "map", 0)
  BY <1>1, <1>2, <1>5 DEF Phase
<1>7. Fits(Head(B))
  BY <1>1, <1>2, HeadIs
<1>8. (\E k \in Nat : 0 = PageSize * k /\ At(Head(B), k)) /\ Maps(Head(B), 0, c, rt)
  BY <1>7, FreshRegion
<1> QED
  BY <1>2, <1>6, <1>8 DEF Running

\* There is a frame for the root table: the kernel leaves one.
LEMMA RootFrame ==
  ASSUME SizesOK, Started
  PROVE  TopFrame(mm) \in Pages \ mm.used
<1>1. PICK x \in Nat, y \in Nat : /\ RamBase = PageSize * x /\ ram = PageSize * y
                                  /\ RamFrames = x .. x + y - 1 /\ RamFrames \subseteq Pages
  BY RamPages
<1>2. PICK s \in Nat \ {0} : s = PageSize
  BY VmmSizes
<1>3. ram \in Nat /\ kernel \in Nat /\ RamBase \in Nat
  BY LayoutParts, VmmSizes
<1>4. PICK t \in Nat : t = ReservedEnd(kernel) /\ RamBase <= t /\ t + s <= RamBase + ram
  <2>1. /\ ReservedEnd(kernel) \in Nat /\ ReservedEnd(kernel) + s <= RamBase + ram
        /\ RamBase + kernel <= ReservedEnd(kernel)
    BY <1>2, <1>3, LayoutParts, Reserved
  <2> QED
    BY <1>3, <2>1
<1>5. y # 0
  <2>1. ASSUME y = 0 PROVE ram = 0
    BY <1>1, <1>2, <2>1
  <2>2. ram # 0
    BY <1>3, <1>4
  <2> QED
    BY <2>1, <2>2
<1>6. PICK g \in Nat : x + y = g + 1 /\ g >= x
  <2>1. x + y \in Nat \ {0}
    BY <1>5
  <2>2. (x + y) - 1 \in Nat /\ x + y = ((x + y) - 1) + 1 /\ (x + y) - 1 >= x
    BY <1>5, <2>1
  <2> QED
    BY <2>2
<1>7. g \in RamFrames
  <2>1. g \in x .. x + y - 1
    BY <1>6
  <2> QED
    BY <1>1, <2>1
<1>8. g \notin mm.used
  <2>1. s * x + s * y = s * g + s
    <3>1. s * (x + y) = s * x + s * y /\ s * (g + 1) = s * g + s
      OBVIOUS
    <3> QED
      BY <1>6, <3>1
  <2>2. PICK a \in Nat : a = s * g
    OBVIOUS
  <2>3. RamBase + ram = a + s
    BY <1>1, <1>2, <2>1, <2>2
  <2>4. a >= t
    BY <1>3, <1>4, <2>3
  <2>5. g * PageSize = a
    BY <1>2, <2>2
  <2>6. ~(g * PageSize < ReservedEnd(kernel))
    BY <1>4, <2>4, <2>5
  <2> QED
    BY <2>6 DEF Started
<1>9. FreeFrames(mm) # {}
  BY <1>7, <1>8 DEF FreeFrames
<1> QED
  BY <1>9, TopIsFree
------------------------------------------------------------------------------
\* The sizes are constant, and with them the regions.
LEMMA SameSizes ==
  ASSUME SizesOK, UNCHANGED <<ram, kernel>>
  PROVE  SizesOK' /\ BootRegions' = BootRegions /\ Mappable' = Mappable
BY DEF SizesOK, BootRegions, Mappable, Wanted

\* The start of boot: nothing is written, and the kernel's frames are in use.
LEMMA InitHolds ==
  ASSUME Init
  PROVE  IInv
<1>1. SizesOK
  BY DEF Init, SizesOK
<1>2. PICK c, u : /\ c = [f \in Pages |-> NoEntries]
                  /\ u = {f \in Pages : /\ RamBase <= f * PageSize
                                        /\ f * PageSize < ReservedEnd(kernel)}
  OBVIOUS
<1>3. mm = [cell |-> c, used |-> u, tables |-> {}]
  BY <1>2 DEF Init
<1>4. NoEntries \in [Idx -> Entry]
  BY EntryTypes DEF NoEntries
<1>5. c \in [Pages -> [Idx -> Entry]] /\ u \in SUBSET Pages /\ \A f \in Pages : c[f] = NoEntries
  BY <1>2, <1>4
<1>6. MemOK([cell |-> c, used |-> u, tables |-> {}])
  BY <1>5 DEF MemOK
<1>7. Started
  BY <1>2, <1>3, <1>6 DEF Started, Init
<1> QED
  BY <1>1, <1>7 DEF IInv

\* init_vmm.
LEMMA InitVmmKeeps ==
  ASSUME IInv, init_vmm
  PROVE  IInv'
<1>1. SizesOK /\ Started
  BY DEF IInv, init_vmm, Running
<1>2. PICK f \in Pages \ mm.used : f = TopFrame(mm)
  BY <1>1, RootFrame
<1>3. PICK m : m = NewTable(mm, f)
  OBVIOUS
<1>4. MemOK(m) /\ f \in m.tables /\ m.cell = mm.cell
  BY <1>1, <1>2, <1>3, NewTableIs DEF Started
<1>5. \A g \in Pages, i \in Idx : m.cell[g][i] = NoEntry
  <2>1. MemOK(mm) /\ mm.tables = {}
    BY <1>1 DEF Started
  <2> QED
    BY <1>4, <2>1, MemParts
<1>6. TreeOK(m, f) /\ \A v \in Pages : Walk(m.cell, f, v) = NULL /\ ~InBlock(m.cell, f, v)
  BY <1>4, <1>5, EmptyTree
<1>7. PICK B, S : B = BootRegions /\ S = Mappable
  OBVIOUS
<1>8. Laid(B, S)
  BY <1>1, <1>7, LayoutHolds
<1>9. Running(B, S, m.cell, f, B, 0, "map")
  BY <1>6, <1>8, RunBegin
<1>10. SizesOK' /\ BootRegions' = B /\ Mappable' = S
  BY <1>1, <1>7, SameSizes DEF init_vmm
<1>11. mm' = m /\ root' = f /\ todo' = B /\ mapped' = 0 /\ pc' = "map"
  BY <1>1, <1>2, <1>3, <1>7 DEF init_vmm, Started
<1>12. TreeOK(mm', root') /\ Running(BootRegions', Mappable', mm'.cell, root', todo', mapped', pc')
  BY <1>6, <1>9, <1>10, <1>11
<1> QED
  BY <1>10, <1>12 DEF IInv

\* The states in which a region can be mapped.
LEMMA RunningNow ==
  ASSUME IInv, pc \in {"map", "ready"}
  PROVE  /\ SizesOK /\ TreeOK(mm, root) /\ Laid(BootRegions, Mappable)
         /\ Running(BootRegions, Mappable, mm.cell, root, todo, mapped, pc)
<1>1. SizesOK /\ TreeOK(mm, root) /\ Running(BootRegions, Mappable, mm.cell, root, todo, mapped, pc)
  BY DEF IInv, Started
<1> QED
  BY <1>1, LayoutHolds

\* vmm_map_region.
LEMMA MapRegionKeeps ==
  ASSUME IInv, vmm_map_region
  PROVE  IInv'
<1>1. PICK r, n : r = Head(todo) /\ n = mapped
  OBVIOUS
<1>2. PICK res : res = Mapping(r, n)
  OBVIOUS
<1>3. PICK z : z = n + IF TakesBlock(r, n) THEN BlockSize ELSE PageSize
  OBVIOUS
<1>4. /\ pc = "map" /\ n < r.size /\ mm' = res.mm /\ pc' = IF res.ok THEN "map" ELSE "hung"
      /\ mapped' = z /\ UNCHANGED <<ram, kernel, root, todo>>
  BY <1>1, <1>2, <1>3 DEF vmm_map_region, Mapping
<1>5. PICK B, S, td : B = BootRegions /\ S = Mappable /\ td = todo
  OBVIOUS
<1>6. SizesOK /\ TreeOK(mm, root) /\ Laid(B, S) /\ Running(B, S, mm.cell, root, td, n, "map")
  BY <1>1, <1>4, <1>5, RunningNow
<1>7. TreeOK(res.mm, root) /\ (res.ok => Running(B, S, res.mm.cell, root, td, z, "map"))
  BY <1>1, <1>2, <1>3, <1>4, <1>5, <1>6, RunStep
<1>8. SizesOK' /\ BootRegions' = B /\ Mappable' = S
  BY <1>4, <1>5, <1>6, SameSizes
<1>9. TreeOK(mm', root')
  BY <1>4, <1>7
<1>10. pc' = "hung" \/ Running(BootRegions', Mappable', mm'.cell, root', todo', mapped', pc')
  BY <1>4, <1>5, <1>7, <1>8
<1> QED
  BY <1>8, <1>9, <1>10 DEF IInv

\* NextRegion.
LEMMA NextRegionKeeps ==
  ASSUME IInv, NextRegion
  PROVE  IInv'
<1>1. /\ pc = "map" /\ mapped >= Head(todo).size /\ todo' = Tail(todo) /\ mapped' = 0
      /\ pc' = IF Tail(todo) = <<>> THEN "ready" ELSE "map"
      /\ UNCHANGED <<ram, kernel, mm, root>>
  BY DEF NextRegion
<1>2. PICK B, S, td, n, c, rt :
        B = BootRegions /\ S = Mappable /\ td = todo /\ n = mapped /\ c = mm.cell /\ rt = root
  OBVIOUS
<1>3. PICK p : p = IF Tail(td) = <<>> THEN "ready" ELSE "map"
  OBVIOUS
<1>4. SizesOK /\ TreeOK(mm, root) /\ Laid(B, S) /\ Running(B, S, c, rt, td, n, "map")
  BY <1>1, <1>2, RunningNow
<1>5. n >= Head(td).size
  BY <1>1, <1>2
<1>6. Running(B, S, c, rt, Tail(td), 0, p)
  BY <1>3, <1>4, <1>5, RunNext
<1>7. SizesOK' /\ BootRegions' = B /\ Mappable' = S
  BY <1>1, <1>2, <1>4, SameSizes
<1>8. TreeOK(mm', root') /\ mm'.cell = c /\ root' = rt
  BY <1>1, <1>2, <1>4
<1>9. Running(BootRegions', Mappable', mm'.cell, root', todo', mapped', pc')
  BY <1>1, <1>2, <1>3, <1>6, <1>7, <1>8
<1> QED
  BY <1>7, <1>8, <1>9 DEF IInv

\* MapLater.
LEMMA MapLaterKeeps ==
  ASSUME IInv, NEW r \in Later, MapLater(r)
  PROVE  IInv'
<1>1. pc = "ready" /\ todo' = <<r>> /\ pc' = "map" /\ UNCHANGED <<ram, kernel, mm, root, mapped>>
  BY DEF MapLater
<1>2. PICK B, S, td, n, c, rt :
        B = BootRegions /\ S = Mappable /\ td = todo /\ n = mapped /\ c = mm.cell /\ rt = root
  OBVIOUS
<1>3. SizesOK /\ TreeOK(mm, root) /\ Laid(B, S) /\ Running(B, S, c, rt, td, n, "ready")
  BY <1>1, <1>2, RunningNow
<1>4. Running(B, S, c, rt, <<r>>, n, "map")
  BY <1>3, RunLater
<1>5. SizesOK' /\ BootRegions' = B /\ Mappable' = S
  BY <1>1, <1>2, <1>3, SameSizes
<1>6. TreeOK(mm', root') /\ mm'.cell = c /\ root' = rt /\ mapped' = n
  BY <1>1, <1>2, <1>3
<1>7. Running(BootRegions', Mappable', mm'.cell, root', todo', mapped', pc')
  BY <1>1, <1>4, <1>5, <1>6
<1> QED
  BY <1>5, <1>6, <1>7 DEF IInv

\* A step that changes nothing.
LEMMA StutterKeeps ==
  ASSUME IInv, UNCHANGED vars
  PROVE  IInv'
<1>1. UNCHANGED <<ram, kernel>> /\ mm' = mm /\ root' = root /\ todo' = todo /\ mapped' = mapped /\ pc' = pc
  BY DEF vars
<1>2. SizesOK
  BY DEF IInv
<1>3. SizesOK' /\ BootRegions' = BootRegions /\ Mappable' = Mappable
  BY <1>1, <1>2, SameSizes
<1>4. CASE Started
  <2>1. Started'
    BY <1>1, <1>4 DEF Started
  <2> QED
    BY <1>3, <2>1 DEF IInv
<1>5. CASE ~Started
  <2>1. /\ TreeOK(mm, root)
        /\ pc = "hung" \/ Running(BootRegions, Mappable, mm.cell, root, todo, mapped, pc)
    BY <1>5 DEF IInv
  <2>2. /\ TreeOK(mm', root')
        /\ pc' = "hung" \/ Running(BootRegions', Mappable', mm'.cell, root', todo', mapped', pc')
    BY <1>1, <1>3, <2>1
  <2> QED
    BY <1>3, <2>2 DEF IInv
<1> QED
  BY <1>4, <1>5

\* The invariant is inductive.
THEOREM Invariance == Spec => []IInv
<1>1. Init => IInv
  BY InitHolds
<1>2. IInv /\ [Next]_vars => IInv'
  BY InitVmmKeeps, MapRegionKeeps, NextRegionKeeps, MapLaterKeeps, StutterKeeps DEF Next
<1> QED
  BY <1>1, <1>2, PTL DEF Spec
------------------------------------------------------------------------------
\* The walk is the translation of the MMU.
LEMMA TranslateIsWalk ==
  ASSUME NEW v
  PROVE  Translate(v) = Walk(mm.cell, root, v)
BY DEF Translate, Walk

\* The parts of the invariant that hold in every state.
LEMMA AlwaysTrue ==
  ASSUME IInv
  PROVE  /\ MemOK(mm) /\ root \in Pages \cup {NULL} /\ pc \in {"boot", "map", "ready", "hung"}
         /\ root # NULL => TreeOK(mm, root)
<1>1. CASE Started
  BY <1>1 DEF Started
<1>2. CASE ~Started
  <2>1. /\ TreeOK(mm, root)
        /\ pc = "hung" \/ Running(BootRegions, Mappable, mm.cell, root, todo, mapped, pc)
    BY <1>2 DEF IInv
  <2>2. MemOK(mm) /\ root \in Pages
    BY <2>1, TreeParts
  <2>3. pc \in {"map", "ready", "hung"}
    BY <2>1 DEF Running
  <2> QED
    BY <2>1, <2>2, <2>3
<1> QED
  BY <1>1, <1>2

\* Entries of every table lead into memory and tables lie in frames taken from
\* pmm.c, whatever the sizes of RAM, the kernel and the regions.
THEOREM VmmTypes == Spec => []TypeOK
<1>1. IInv => TypeOK
  <2> SUFFICES ASSUME IInv PROVE TypeOK
    OBVIOUS
  <2>1. mm.cell \in [Pages -> [Idx -> Entry]] /\ mm.used \subseteq Pages /\ mm.tables \subseteq mm.used
    BY AlwaysTrue, MemParts
  <2> QED
    BY <2>1, AlwaysTrue DEF TypeOK, Entry
<1> QED
  BY <1>1, Invariance, PTL

\* Nothing but tables is ever written, and no two entries lead to one table.
THEOREM OnlyTablesAreWritten == Spec => []TablesOnly
<1>1. IInv => TablesOnly
  <2> SUFFICES ASSUME IInv PROVE TablesOnly
    OBVIOUS
  <2>1. MemOK(mm) /\ (root # NULL => TreeOK(mm, root))
    BY AlwaysTrue
  <2>2. \A f \in Pages \ mm.tables : mm.cell[f] = NoEntries
    BY <2>1 DEF MemOK
  <2>3. ASSUME root # NULL, NEW i \in Idx, NEW j \in Idx, NEW k \in mm.tables, NEW l \in mm.tables,
               mm.cell[k][i].bit1, mm.cell[l][j].bit1,
               mm.cell[k][i].out \in mm.tables, mm.cell[k][i].out = mm.cell[l][j].out,
               mm.cell[k][i].attr = {}, mm.cell[l][j].attr = {}
        PROVE  <<i, k>> = <<j, l>>
    <3>1. k \in Pages /\ l \in Pages
      BY <2>1, MemParts
    <3>2. PICK a \in Entry, b \in Entry : a = mm.cell[k][i] /\ b = mm.cell[l][j]
      BY <2>1, <3>1, MemParts
    <3>3. PICK h \in mm.tables : h = a.out
      BY <2>3, <3>2
    <3>4. a = Ptr(h) /\ b = Ptr(h)
      <4>1. a.bit1 = TRUE /\ a.out = h /\ a.attr = {} /\ b.bit1 = TRUE /\ b.out = h /\ b.attr = {}
        BY <2>3, <3>2, <3>3 DEF Entry
      <4> QED
        BY <4>1 DEF Entry, Ptr
    <3>5. k = l /\ i = j
      <4>1. OneWay(mm, root)
        BY <2>1, <2>3 DEF TreeOK
      <4>2. mm.cell[k][i] = Ptr(h) /\ mm.cell[l][j] = Ptr(h)
        BY <3>2, <3>4
      <4> QED
        BY <4>1, <4>2 DEF OneWay
    <3> QED
      BY <3>5
  <2> QED
    BY <2>2, <2>3 DEF TablesOnly
<1> QED
  BY <1>1, Invariance, PTL

\* At every iteration of vmm_map_region, what is mapped of the region so far
\* translates to the frames that were asked for.
THEOREM RegionsAreMapped == Spec => []MapsTheRegion
<1>1. IInv => MapsTheRegion
  <2> SUFFICES ASSUME IInv, pc = "map",
                      NEW v \in Pages, In(v, [Head(todo) EXCEPT !.size = mapped])
               PROVE  Translate(v) = <<PageOf(Head(todo).phys) + v - PageOf(Head(todo).virt),
                                       Attr(Head(todo).flags)>>
    BY DEF MapsTheRegion
  <2>1. Running(BootRegions, Mappable, mm.cell, root, todo, mapped, pc)
    BY RunningNow
  <2>2. Maps(Head(todo), mapped, mm.cell, root)
    BY <2>1 DEF Running
  <2> QED
    BY <2>2, TranslateIsWalk DEF Maps
<1> QED
  BY <1>1, Invariance, PTL

\* From the end of init_vmm on, exactly RAM and the devices are mapped, each
\* page to itself and with the attributes of its region, except where a caller
\* has asked for something else.
THEOREM MapIsIdentity == Spec => []IdentityMap
<1>1. IInv => IdentityMap
  <2> SUFFICES ASSUME IInv, pc = "ready", NEW v \in Pages, ~ \E r \in Later : In(v, r)
               PROVE  Translate(v) = IF \E r \in Wanted(ram) : In(v, r)
                                     THEN <<v, Attr((CHOOSE r \in Wanted(ram) : In(v, r)).flags)>>
                                     ELSE NULL
    BY DEF IdentityMap
  <2>1. PICK B : B = BootRegions
    OBVIOUS
  <2>2. /\ SizesOK /\ Laid(B, Mappable)
        /\ Running(B, Mappable, mm.cell, root, todo, mapped, "ready")
    BY <2>1, RunningNow
  <2>3. PICK d \in 0 .. Len(B) : Phase(B, Mappable, mm.cell, root, todo, mapped, "ready", d)
    BY <2>2 DEF Running
  <2>4. PICK l \in Nat : l = Len(B) /\ d = l
    BY <2>2, <2>3 DEF Phase, Booted, Laid
  <2>5. Progress(B, mm.cell, root, l, 0)
    BY <2>3, <2>4 DEF Phase
  <2>6. Reached(B, v, l, 0) <=> \E i \in 1 .. l : In(v, B[i])
    BY <2>4 DEF Reached
  <2>7. IF \E i \in 1 .. l : In(v, B[i])
        THEN \A i \in 1 .. l : In(v, B[i]) => Translate(v) = <<v, Attr(B[i].flags)>>
        ELSE Translate(v) = NULL
    BY <2>4, <2>5, <2>6, TranslateIsWalk DEF Progress
  <2>8. CASE \E r \in Wanted(ram) : In(v, r)
    <3>1. PICK r : r = CHOOSE s \in Wanted(ram) : In(v, s)
      OBVIOUS
    <3>2. r \in Wanted(ram) /\ In(v, r)
      BY <2>8, <3>1
    <3>3. PICK i \in 1 .. l : B[i] = r /\ In(v, B[i])
      BY <2>1, <2>4, <3>2, WantedIn
    <3>4. Translate(v) = <<v, Attr(r.flags)>>
      BY <2>7, <3>3
    <3> QED
      BY <2>8, <3>1, <3>4
  <2>9. CASE ~ \E r \in Wanted(ram) : In(v, r)
    <3>1. ~ \E i \in 1 .. l : In(v, B[i])
      BY <2>1, <2>2, <2>4, <2>9, InWanted
    <3> QED
      BY <2>7, <2>9, <3>1
  <2> QED
    BY <2>8, <2>9
<1> QED
  BY <1>1, Invariance, PTL
==============================================================================
