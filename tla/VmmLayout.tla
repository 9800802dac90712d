------------------------------ MODULE VmmLayout ------------------------------
(***************************************************************************)
(* What src/src/vmm.c relies on without checking it: how the regions that  *)
(* it maps lie in the address space.                                       *)
(***************************************************************************)
EXTENDS Vmm

Flag == {"WRITABLE", "DEVICE", "NO_EXEC"}
AddressSpace == E * E * E * PageSize

\* A region of whole pages from its start on, inside the address space.
Fits(r) ==
  /\ r \in [virt : Nat, phys : Nat, size : Nat, flags : SUBSET Flag]
  /\ r.virt % PageSize = 0 /\ r.phys % PageSize = 0
  /\ r.virt + r.size <= AddressSpace /\ r.phys + r.size <= AddressSpace

\* vmm_map_region maps the whole of block b with one entry.
AsBlock(r, b) ==
  /\ r.virt <= b * BlockSize /\ (b + 1) * BlockSize <= r.virt + r.size
  /\ (r.phys + (b * BlockSize - r.virt)) % BlockSize = 0

\* No region has single pages where another one has a block.
NoPageInBlock(S) ==
  \A r, s \in S, v \in Pages : In(v, s) /\ AsBlock(r, v \div E) => AsBlock(s, v \div E)

\* The heap lies in RAM.  RAM and the devices are mapped to themselves, and
\* where two of them meet they have the same attributes.
IdentityRegions(m) ==
  /\ HeapRegion = Region(HeapRegion.virt, HeapRegion.size, {"WRITABLE"})
  /\ RamBase <= HeapRegion.virt /\ HeapRegion.virt + HeapRegion.size <= RamBase + m
  /\ \A k \in DOMAIN Devices : Devices[k].phys = Devices[k].virt
  /\ \A r, s \in Wanted(m), v \in Pages : In(v, r) /\ In(v, s) => r.flags = s.flags

ASSUME LayoutAssumption ==
  /\ NULL \notin Nat /\ RamBase % PageSize = 0
  /\ Devices \in Seq([virt : Nat, phys : Nat, size : Nat, flags : SUBSET Flag])
  /\ \A r \in {HeapRegion} \cup {Devices[k] : k \in DOMAIN Devices} \cup Later : Fits(r)
  /\ \A m \in RamSizes :
       /\ m % PageSize = 0 /\ RamBase + m <= AddressSpace
       /\ \A k \in KernelSizes : ReservedEnd(k) + PageSize <= RamBase + m
       /\ NoPageInBlock(Wanted(m) \cup {HeapRegion} \cup Later)
       /\ IdentityRegions(m)
==============================================================================
