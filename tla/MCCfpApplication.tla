-------------------------- MODULE MCCfpApplication --------------------------
(* Instances of CfpApplication for TLC.                                     *)
EXTENDS CfpApplication, TLC
=============================================================================
