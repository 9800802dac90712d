-------------------------------- MODULE MCNet --------------------------------
(***************************************************************************)
(* Queues of two descriptors with indices modulo 4, so they wrap; rings of *)
(* two, one and two frames, two receive buffers and three frames to spare. *)
(***************************************************************************)
EXTENDS Net
==============================================================================
