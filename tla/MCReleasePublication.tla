------------------------ MODULE MCReleasePublication ------------------------
(***************************************************************************)
(* Two people share a panel; a second plan leaves the first of them on it  *)
(* and gives the other a talk.  The talk is also what a submission of the  *)
(* first brings, so that a bad placement needs this person twice at once,  *)
(* and under the first plan it is a session without a seat.                *)
(***************************************************************************)
EXTENDS ReleasePublication, TLC

CONSTANTS p1, p2, panel, talk

MCUnitOrder == <<panel, talk>>
MCSeat == <<p1 :> panel @@ p2 :> panel, p1 :> NoUnit @@ p2 :> talk>>
MCWindow == panel :> <<0, 2>> @@ talk :> <<1, 2>>
MCCfpUnits == {talk}
MCCfpSpeakers == talk :> {p1}
MCEventWindow == <<0, 2>>
=============================================================================
