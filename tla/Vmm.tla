--------------------------------- MODULE Vmm ---------------------------------
(***************************************************************************)
(* The page tables, src/src/vmm.c, from the boot call of init_vmm on:      *)
(* three levels of tables in frames of the physical memory manager, 4 KB   *)
(* pages at the last level and blocks one level up.                        *)
(*                                                                         *)
(* An address is a number of units, PageSize of them to a page; a table    *)
(* has E entries (512 in the code) and a block is E pages.  RAM starts at  *)
(* RamBase.  Everything here runs on the boot core alone.                  *)
(***************************************************************************)
EXTENDS Naturals, Sequences, FiniteSets

CONSTANTS
  E,             \* entries per table
  PageSize,
  RamBase,       \* PHY_RAM_BASE
  RamSizes,      \* the RAM sizes considered, whole blocks
  KernelSizes,   \* the values of _kernel_end - RamBase considered
  PmmTables,     \* size of the frame stack and the counts, after the kernel
  HeapRegion,    \* the heap's region, mapped and given to heap_init by address
  Devices,       \* sequence of device regions that init_vmm maps
  Later,         \* regions that callers map after init_vmm
  NULL

ASSUME VmmAssumption ==
  /\ E \in Nat \ {0} /\ PageSize \in Nat \ {0} /\ RamBase \in Nat
  /\ RamSizes \subseteq Nat /\ KernelSizes \subseteq Nat /\ PmmTables \in Nat

VARIABLES
  ram,           \* phy_ram_size
  kernel,        \* size of the kernel image
  mm,            \* memory: entries of the frames, frames in use, frames of tables
  root,          \* root_phys, NULL before init_vmm
  todo,          \* the regions still to be mapped, the first one in progress
  mapped,        \* how much of the first one is mapped
  pc             \* "boot", "map", "ready", or "hung" after a failed allocation

vars == <<ram, kernel, mm, root, todo, mapped, pc>>
------------------------------------------------------------------------------
BlockSize == E * PageSize
PageOf(addr) == addr \div PageSize
Pages == 0 .. E * E * E - 1
Idx == 0 .. E - 1
RamFrames == PageOf(RamBase) .. PageOf(RamBase + ram) - 1

Region(addr, size, flags) == [virt |-> addr, phys |-> addr, size |-> size, flags |-> flags]

\* A table entry: bit 1 (set in PT_TABLE and PT_PAGE, clear in PT_BLOCK), the
\* output frame and the attributes; NoEntry is an entry without PT_VALID.
NoEntry == [bit1 |-> FALSE, out |-> NULL, attr |-> {}]
Attr(flags) ==
  (IF "DEVICE" \in flags THEN {"PXN"} ELSE {"NORMAL"})
    \cup (IF "WRITABLE" \in flags THEN {} ELSE {"RO"})
    \cup (IF "NO_EXEC" \in flags THEN {"PXN"} ELSE {})

\* The frame on top of pmm.c's stack: nothing is freed during boot, so it is
\* the highest free one.  NULL when there is none.
FreeFrames(m) == RamFrames \ m.used
TopFrame(m) ==
  IF FreeFrames(m) = {} THEN NULL
  ELSE CHOOSE f \in FreeFrames(m) : \A g \in FreeFrames(m) : g <= f

NoEntries == [i \in Idx |-> NoEntry]
MutNewTable(m, f) ==
  [cell |-> [m.cell EXCEPT ![f] = NoEntries], used |-> m.used, tables |-> m.tables \cup {f}]

NewTable(m, f) ==
  [cell   |-> [m.cell EXCEPT ![f] = NoEntries],
   used   |-> m.used \cup {f},
   tables |-> m.tables \cup {f}]

\* An entry is written to a table, or to whatever the pointer leads to.
Store(m, table, idx, entry) ==
  [m EXCEPT !.cell = [m.cell EXCEPT ![table] = [m.cell[table] EXCEPT ![idx] = entry]]]

MutNextTable(m, table, idx) ==
  LET old == m.cell[table][idx]
      f == TopFrame(m)
  IN  IF old # NoEntry THEN [mm |-> m, next |-> old.out]
      ELSE IF f = NULL THEN [mm |-> m, next |-> NULL]
      ELSE [mm |-> NewTable(m, f), next |-> f]

\* The table that entry idx leads to, made if there is none.  A valid entry is
\* followed without looking at bit 1.
get_next_table(m, table, idx) ==
  LET old == m.cell[table][idx]
      f == TopFrame(m)
  IN  IF old # NoEntry THEN [mm |-> m, next |-> old.out]
      ELSE IF f = NULL THEN [mm |-> m, next |-> NULL]
      ELSE [mm |-> Store(NewTable(m, f), table, idx, [bit1 |-> TRUE, out |-> f, attr |-> {}]),
            next |-> f]

L1(v) == (v \div (E * E)) % E
L2(v) == (v \div E) % E
L3(v) == v % E

\* Memory after the mapping of page v, and whether it succeeded.
vmm_map_page(m, v, p, flags) ==
  LET a == get_next_table(m, root, L1(v))
      b == get_next_table(a.mm, a.next, L2(v))
  IN  IF a.next = NULL THEN [mm |-> a.mm, ok |-> FALSE]
      ELSE IF b.next = NULL THEN [mm |-> b.mm, ok |-> FALSE]
      ELSE [mm |-> Store(b.mm, b.next, L3(v), [bit1 |-> TRUE, out |-> p, attr |-> Attr(flags)]),
            ok |-> TRUE]

vmm_map_block(m, v, p, flags) ==
  LET a == get_next_table(m, root, L1(v))
  IN  IF a.next = NULL THEN [mm |-> a.mm, ok |-> FALSE]
      ELSE [mm |-> Store(a.mm, a.next, L2(v), [bit1 |-> FALSE, out |-> p, attr |-> Attr(flags)]),
            ok |-> TRUE]

MutTakesBlock(r, done) == (r.virt + done) % BlockSize = 0 /\ (r.phys + done) % BlockSize = 0

TakesBlock(r, done) ==
  /\ (r.virt + done) % BlockSize = 0
  /\ (r.phys + done) % BlockSize = 0
  /\ r.size - done >= BlockSize
------------------------------------------------------------------------------
\* pmm_init puts its tables on the first page behind the kernel image, and
\* has reserved the frames of both.
PageUp(addr) == PageOf(addr + PageSize - 1) * PageSize
ReservedEnd(k) == PageUp(RamBase + k) + PmmTables

Init ==
  /\ ram \in RamSizes /\ kernel \in KernelSizes
  /\ mm = [cell   |-> [f \in Pages |-> NoEntries],
           used   |-> {f \in Pages : /\ RamBase <= f * PageSize
                                    /\ f * PageSize < ReservedEnd(kernel)},
           tables |-> {}]
  /\ root = NULL
  /\ todo = <<>> /\ mapped = 0
  /\ pc = "boot"

MutInitVmm ==
  /\ pc = "boot"
  /\ root' = TopFrame(mm)
  /\ mm' = NewTable(mm, TopFrame(mm))
  /\ todo' = <<Region(RamBase, ram, {"WRITABLE"}), Region(RamBase, kernel, {"WRITABLE"}),
               HeapRegion>> \o Devices
  /\ pc' = "map"
  /\ UNCHANGED <<ram, kernel, mapped>>

\* What init_vmm maps, in this order.
BootRegions ==
  <<Region(RamBase, kernel, {"WRITABLE"}), Region(RamBase, ram, {"WRITABLE"}), HeapRegion>>
    \o Devices

\* init_vmm up to the mappings; root_phys is not checked.
init_vmm ==
  /\ pc = "boot"
  /\ root' = TopFrame(mm)
  /\ mm' = NewTable(mm, TopFrame(mm))
  /\ todo' = BootRegions
  /\ pc' = "map"
  /\ UNCHANGED <<ram, kernel, mapped>>

\* One iteration of vmm_map_region.  The error message of a failed allocation
\* never ends: printf does not get past its %llx.
vmm_map_region ==
  LET r == Head(todo)
      v == PageOf(r.virt + mapped)
      p == PageOf(r.phys + mapped)
      block == TakesBlock(r, mapped)
      res == IF block THEN vmm_map_block(mm, v, p, r.flags) ELSE vmm_map_page(mm, v, p, r.flags)
  IN  /\ pc = "map"
      /\ todo # <<>> /\ mapped < r.size
      /\ mm' = res.mm
      /\ pc' = IF res.ok THEN "map" ELSE "hung"
      /\ mapped' = mapped + IF block THEN BlockSize ELSE PageSize
      /\ UNCHANGED <<ram, kernel, root, todo>>

NextRegion ==
  /\ pc = "map"
  /\ todo # <<>> /\ mapped >= Head(todo).size
  /\ todo' = Tail(todo)
  /\ mapped' = 0
  /\ pc' = IF Tail(todo) = <<>> THEN "ready" ELSE "map"
  /\ UNCHANGED <<ram, kernel, mm, root>>

\* A caller maps one more region once paging is on.
MapLater(r) ==
  /\ pc = "ready"
  /\ todo' = <<r>>
  /\ pc' = "map"
  /\ UNCHANGED <<ram, kernel, mm, root, mapped>>

Next == init_vmm \/ vmm_map_region \/ NextRegion \/ \E r \in Later : MapLater(r)

Spec == Init /\ [][Next]_vars
------------------------------------------------------------------------------
\* What the MMU makes of virtual page v: the frame and the attributes.
Translate(v) ==
  LET e1 == mm.cell[root][L1(v)]
      e2 == mm.cell[e1.out][L2(v)]
      e3 == mm.cell[e2.out][L3(v)]
  IN  IF e1 = NoEntry \/ e2 = NoEntry THEN NULL
      ELSE IF ~e2.bit1 THEN <<e2.out + L3(v), e2.attr>>
      ELSE IF e3 = NoEntry THEN NULL
      ELSE <<e3.out, e3.attr>>

\* Types: entries lead into memory, and tables lie in frames taken from pmm.c.
TypeOK ==
  /\ mm.cell \in [Pages -> [Idx -> [bit1 : BOOLEAN, out : Pages \cup {NULL},
                                    attr : SUBSET {"NORMAL", "PXN", "RO"}]]]
  /\ mm.used \subseteq Pages /\ mm.tables \subseteq mm.used
  /\ root \in Pages \cup {NULL}
  /\ pc \in {"boot", "map", "ready", "hung"}

In(v, r) == r.virt <= v * PageSize /\ v * PageSize < r.virt + r.size

\* What is mapped after boot: RAM of size m, with the kernel and the heap in it,
\* and the devices.
Wanted(m) == {Region(RamBase, m, {"WRITABLE"})} \cup {Devices[k] : k \in DOMAIN Devices}

\* From the end of init_vmm on, every page of RAM and of the devices is mapped
\* to itself with the attributes of its region, and no other page is mapped
\* unless a caller asked for it, for every size of the kernel and of RAM: block
\* and page mappings that replace each other, and those made later, leave no
\* hole, no leftover and nothing past the end.
IdentityMap ==
  pc = "ready" =>
    \A v \in Pages :
      \/ \E r \in Later : In(v, r)
      \/ Translate(v) = IF \E r \in Wanted(ram) : In(v, r)
                        THEN <<v, Attr((CHOOSE r \in Wanted(ram) : In(v, r)).flags)>>
                        ELSE NULL

\* Only frames that were allocated as tables are ever written, and no table
\* is reached from two entries: get_next_table is never led astray by a block.
\* (An entry with no attributes is one that leads to a table.)
TablesOnly ==
  /\ \A f \in Pages \ mm.tables : mm.cell[f] = NoEntries
  /\ root # NULL =>
       \A i, j \in Idx, k, l \in mm.tables :
         /\ mm.cell[k][i].bit1 /\ mm.cell[l][j].bit1
         /\ mm.cell[k][i].out \in mm.tables /\ mm.cell[k][i].out = mm.cell[l][j].out
         /\ mm.cell[k][i].attr = {} /\ mm.cell[l][j].attr = {}
         => <<i, k>> = <<j, l>>

\* The region just mapped translates to the frames that were asked for.
MapsTheRegion ==
  pc = "map" /\ todo # <<>> =>
    \A v \in Pages : In(v, [Head(todo) EXCEPT !.size = mapped]) =>
      Translate(v) = <<PageOf(Head(todo).phys) + v - PageOf(Head(todo).virt),
                       Attr(Head(todo).flags)>>
==============================================================================
