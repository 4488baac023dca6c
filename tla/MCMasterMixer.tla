---------------------------- MODULE MCMasterMixer ----------------------------
(* Model checking of MasterMixer: two players compete for the slots.       *)
EXTENDS MasterMixer
=============================================================================
