----------------------------- MODULE MCCopyPlain -----------------------------
(***************************************************************************)
(* The instance of MCCopyService in which everybody behaves plainly: its   *)
(* constants meet the premises of the theorems of CopyServicePlainProofs.  *)
(***************************************************************************)
EXTENDS MCCopyService

ASSUME PlainAssumption == PlainCase
==============================================================================
