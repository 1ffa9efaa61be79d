---------------------------- MODULE SpeakerPortal ----------------------------
(***************************************************************************)
(* Links to the speaker portal, over the plans and answers they depend on. *)
(* issueSpeakerPortalToken binds a link to the accepted seat of a person   *)
(* under the plan in force and puts the person on the event's roster;      *)
(* resolveSpeakerPortalToken and revalidateSpeakerPortalToken read that    *)
(* authority again at every use.  The roster has two other writers: the    *)
(* organizer who adds a speaker by hand, and the acceptance of a proposal. *)
(* Nothing in the program changes the status of a roster row, removes one, *)
(* or revokes a link.                                                      *)
(*                                                                         *)
(* The authority of the issuing organizer (ProductionAuth) and the budget  *)
(* of lookups, which only answers "unavailable" sooner, are left out.      *)
(***************************************************************************)
EXTENDS PlanCommitment

CONSTANTS Roles,     \* role_key: speaker or moderator
          SpeakerRole,
          RoleIn,    \* Inputs -> the role the compiler gives each person
          LinkTtl,   \* SPEAKER_PORTAL_TOKEN_TTL_MS
          MaxLinks   \* bound on issued links

ASSUME RoleAssumption == SpeakerRole \in Roles /\ RoleIn \in [Inputs -> [People -> Roles]]
ASSUME LinkAssumption == LinkTtl \in Nat \ {0} /\ MaxLinks \in Nat

VARIABLES roster, \* event_speakers: participation of each person in each role
          links   \* speaker_portal_tokens with the authority each was issued on

portalVars == <<roster, links>>

Participation == {"none", "listed", "confirmed"} \* listed: INVITED or PENDING
Listed(p)     == {r \in Roles : roster[<<p, r>>] # "none"}
Confirmed(p)  == {r \in Roles : roster[<<p, r>>] = "confirmed"}

RoleUnder(v, p) == RoleIn[plans[v]][p]

PortalInit == /\ Init
              /\ roster = [x \in People \X Roles |-> "none"]
              /\ links = <<>>

\* the accepted seat of the plan in force, whatever the roster says
AcceptedSeat(p) == /\ pointer # 0 /\ pointer \in ReadsApproved
                   /\ Offered(pointer, p)
                   /\ answers[<<pointer, p>>] = "accepted"

\* mutant: the role a person is confirmed in is not compared with the seat
RosterAgrees_AnyRole(p) == Listed(p) = {} \/ Confirmed(p) # {}

\* a person nobody has listed may be put on the roster by the first link;
\* anybody else must be confirmed in the role of the seat, and in no other
RosterAgrees(p) == Listed(p) = {} \/ Confirmed(p) = {RoleUnder(pointer, p)}

AcceptedAuthority(p) == AcceptedSeat(p) /\ RosterAgrees(p)

IssueLink(p) ==
  /\ Len(links) < MaxLinks
  /\ AcceptedAuthority(p)
  /\ roster' = [roster EXCEPT ![<<p, RoleUnder(pointer, p)>>] = "confirmed"]
  /\ links' = Append(links, [person |-> p, plan |-> pointer, expires |-> now + LinkTtl])
  /\ UNCHANGED vars

\* createManualSpeaker lists a person as PENDING, the acceptance of a proposal
\* as INVITED
ListSpeaker(p) == /\ roster[<<p, SpeakerRole>>] = "none"
                  /\ roster' = [roster EXCEPT ![<<p, SpeakerRole>>] = "listed"]
                  /\ UNCHANGED links
                  /\ UNCHANGED vars

\* mutant: the link is not compared with the plan it was issued under
SameAuthority_AnyPlan(i) == AcceptedAuthority(links[i].person)
SameAuthority(i) == /\ AcceptedAuthority(links[i].person)
                    /\ links[i].plan = pointer

Opens(i) == SameAuthority(i) /\ now < links[i].expires

PortalNext == \/ Next /\ UNCHANGED portalVars
              \/ \E p \in People : IssueLink(p) \/ ListSpeaker(p)

PortalSpec == PortalInit /\ [][PortalNext]_<<vars, portalVars>>

(***************************************************************************)
(* Properties                                                              *)
(***************************************************************************)
LinkRow == [person : People, plan : Versions, expires : Nat]

\* The roster has one row per person and role, and a link the plan and the
\* person it was issued for.
PortalTypeOK == /\ roster \in [People \X Roles -> Participation]
                /\ links \in Seq(LinkRow)

\* Whoever holds a link accepted the seat it was issued for and is confirmed in
\* the role of that seat and in no other, so nobody ever gets links in two roles.
LinksAgreeWithRoster ==
  \A i \in 1..Len(links) : LET p == links[i].person  v == links[i].plan IN
    /\ v \in 1..pointer /\ Offered(v, p) /\ answers[<<v, p>>] = "accepted"
    /\ Confirmed(p) = {RoleUnder(v, p)}

\* A link that does not open, because it has expired or because its plan was
\* replaced, never opens again, whatever its holder accepts afterwards and
\* whoever lists him; only a clock that is set back revives one.
DeadLinksStayDead ==
  [][\A i \in 1..Len(links) : ~Opens(i) /\ Opens(i)' => now' < now]_<<vars, portalVars>>
=============================================================================
