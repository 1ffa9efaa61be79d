--------------------------- MODULE MCSpeakerPortal ---------------------------
(***************************************************************************)
(* Two people, one roundtable and three manifests: in the first both are   *)
(* participants, the second makes the other person the moderator, and the  *)
(* compiler finds the third infeasible.                                    *)
(***************************************************************************)
EXTENDS SpeakerPortal, TLC

CONSTANTS p1, p2, u1, first, second, broken, moderator

MCOutput == [i \in {first, second, broken} |->
  IF i = broken THEN [feasible |-> FALSE, seat |-> (p1 :> NoUnit @@ p2 :> u1)]
  ELSE [feasible |-> TRUE, seat |-> (p1 :> u1 @@ p2 :> u1)]]

MCRoleIn == [i \in {first, second, broken} |->
  (p1 :> SpeakerRole @@ p2 :> IF i = second THEN moderator ELSE SpeakerRole)]

MCUnitStart == [u \in {u1} |-> 0]
MCUnitEnd   == [u \in {u1} |-> 1]
=============================================================================
