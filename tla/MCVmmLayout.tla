----------------------------- MODULE MCVmmLayout -----------------------------
(***************************************************************************)
(* The instance of MCVmm whose later regions respect the layout.           *)
(***************************************************************************)
EXTENDS MCVmm, VmmLayout
==============================================================================
