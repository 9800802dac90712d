-------------------------------- MODULE MCVmm --------------------------------
(***************************************************************************)
(* Tables of 4 entries and pages of 2 units: blocks of 8, an address space *)
(* of 128.  The layout is the kernel's in small: devices in the first      *)
(* quarter, each half a block; RAM from 32 on with the kernel at its start *)
(* and the heap one block further.                                         *)
(***************************************************************************)
EXTENDS Vmm

MCRamSizes == {24, 32, 40, 64}
MCKernelSizes == 1 .. 17
MCHeap == Region(48, 8, {"WRITABLE"})
Device(addr) == Region(addr, 4, {"WRITABLE", "DEVICE"})
MCDevices == <<Device(8), Device(16), Device(0)>>

\* A whole block and a page outside what init_vmm maps; the latter grows a
\* table that exists.
MCLater == {[virt |-> 96, phys |-> 40, size |-> 8, flags |-> {}],
            [virt |-> 12, phys |-> 40, size |-> 2, flags |-> {"NO_EXEC"}]}

\* A read-only page in the middle of RAM.
MCInBlock == {[virt |-> 50, phys |-> 50, size |-> 2, flags |-> {}]}
==============================================================================
