-------------------------- MODULE MCConnectorImport --------------------------
(***************************************************************************)
(* Instances of ConnectorImport for TLC.                                   *)
(***************************************************************************)
EXTENDS ConnectorImport

CONSTANTS c1, c2, p1, a, b, d

\* all requests in one server process, as the deployment runs it
OneProcess == [c \in Caller |-> p1]
=============================================================================
