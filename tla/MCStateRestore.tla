--------------------------- MODULE MCStateRestore ---------------------------
(***************************************************************************)
(* Two processes at a time, one restore after the other, and a process that*)
(* may be lost at each step of a restore and again at each step of the     *)
(* recovery.                                                               *)
(***************************************************************************)
EXTENDS StateRestore
=============================================================================
