----------------------------- MODULE MCMinerCore -----------------------------
(***************************************************************************)
(* Instances of MinerCore, with the device beside it, for TLC.               *)
(***************************************************************************)
EXTENDS MinerCoreDevice
=============================================================================
