-------------------------- MODULE MCConnectorExport --------------------------
(***************************************************************************)
(* Instances of ConnectorExport for TLC.                                   *)
(***************************************************************************)
EXTENDS ConnectorExport, TLC

CONSTANTS c1, c2, c3, p1, p2

\* all requests in one server process, as the deployment runs it
OneProcess == [c \in Caller |-> p1]

\* requests of one process are interchangeable
CallerSymmetry == Permutations(Caller)
=============================================================================
