------------------------------ MODULE MCConsole ------------------------------
(***************************************************************************)
(* The formats are shortened ones of the kernel: "0x%lx" of the panic      *)
(* messages, "0x%04x" of the network handler, "%d: %s", and the "%llx" of  *)
(* the page table messages.                                                *)
(***************************************************************************)
EXTENDS Console

Hex == <<"c", "%", "l", "x">>
Padded == <<"%", "0", "x">>
Status == <<"%", "%", "d", "c", "%", "s", "%">>
LongLong == <<"%", "l", "l", "x">>

MCPrintFormats ==
  [a \in Agent |-> CASE a = "irq" -> {Padded}
                     [] a = "trap" -> {Hex}
                     [] a = Boot -> {Status}
                     [] a \in Thread \ {Boot} -> {Hex, LongLong}]
MCGoodFormats == [a \in Agent |-> {Hex}]
MCScanFormats == {<<"c", "%", "d">>, <<"%", "x">>}
==============================================================================
