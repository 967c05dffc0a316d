------------------------- MODULE MC_HostPermissions -------------------------
(***************************************************************************)
(* XSSHostPermissions on a small instance for TLC.                         *)
(***************************************************************************)
EXTENDS XSSHostPermissions
=============================================================================
