-------------------------- MODULE MCProductionAuth --------------------------
(***************************************************************************)
(* Instances of ProductionAuth for TLC.                                    *)
(***************************************************************************)
EXTENDS ProductionAuth, TLC
=============================================================================
