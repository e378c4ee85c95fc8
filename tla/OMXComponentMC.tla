---------------------------- MODULE OMXComponentMC ----------------------------
(***************************************************************************)
(* Instances of OMXComponent for TLC.                                      *)
(***************************************************************************)
EXTENDS OMXComponent

TwoAndOne == (In :> 2) @@ (Out :> 1)
OneEach   == (In :> 1) @@ (Out :> 1)
=============================================================================
