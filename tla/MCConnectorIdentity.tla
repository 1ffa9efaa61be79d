------------------------- MODULE MCConnectorIdentity -------------------------
(***************************************************************************)
(* Instances of ConnectorIdentity for TLC.                                 *)
(***************************************************************************)
EXTENDS ConnectorIdentity

CONSTANTS k1, k2, r1, r2, e1, e2, n1, n2

\* runs, records, addresses and names are interchangeable
Symmetry == Permutations(Run) \union Permutations(Contact) \union Permutations(Email)
            \union Permutations(Name)
=============================================================================
