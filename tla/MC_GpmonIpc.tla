----------------------------- MODULE MC_GpmonIpc -----------------------------
(***************************************************************************)
(* Instances of the gpmongui monitor model for TLC.  Clock identities are  *)
(* model values; the daemon has NDomains domains and one or two ports.     *)
(***************************************************************************)
EXTENDS GpmonIpc

CONSTANTS c1, c2

MCClocks == {c1, c2}
=============================================================================
