-------------------------------- MODULE MCPmm --------------------------------
(***************************************************************************)
(* A RAM of 8 frames of 16 bytes.  The kernel ends in the second frame and *)
(* the allocator's tables (40 bytes from offset 32) end in the middle of   *)
(* the fifth, so 3 frames are free at boot and the last reserved one is    *)
(* only partly used.                                                       *)
(***************************************************************************)
EXTENDS Pmm

\* A reserved frame, every free one (not always its first byte), and an
\* address on each side of RAM.
MCAddr == {79, 80, 111, 112} \cup {-16, 128}

\* An aligned frame, an unaligned region that straddles two frames, one that
\* starts in reserved frames, one that ends with RAM (its end index is
\* INVALID), an empty one and one outside RAM.
MCRegion == {<<96, 16>>, <<88, 16>>, <<64, 24>>, <<112, 16>>, <<96, 0>>, <<128, 16>>}
==============================================================================
