------------------------- MODULE ReleasePublication -------------------------
(***************************************************************************)
(* What the public may read of an event.  Speakers submit the text of      *)
(* their session and organizers approve it; sealing a release binds the    *)
(* approved plan, the accepted offers, the approved schedule and the       *)
(* approved texts into an immutable document that supersedes the one       *)
(* before it.  Every read of a release validates it again: as the public   *)
(* page does, against what is true now, or as a personal link and the next *)
(* sealing do, against the evidence of its own time.                       *)
(*                                                                         *)
(* Added to ScheduleDraft, whose actions go on under it.  The title and the*)
(* description of a session are one document; headshots, slides, names,    *)
(* e-mail addresses and the roles of organizers are left out.              *)
(***************************************************************************)
EXTENDS ScheduleDraft

CONSTANTS Texts, NoText,
          MaxVersions,  \* bound on the submissions of a person in one plan
          MaxReleases   \* bound on publication_releases

ASSUME TextAssumption == NoText \notin Texts
ASSUME ReleaseBoundAssumption == MaxVersions \in Nat /\ MaxReleases \in Nat

VARIABLES answered,  \* the accepted offers of the plans before this one
          content,   \* per person, the document of the seat in the current plan
          releases   \* publication_releases; the last is events.current_release_id

publicationVars == <<answered, content, releases>>
allVars == <<plan, accepted, cfp, rooms, firstRoom, rows, draft, named, approvals,
             answered, content, releases>>

Unwritten == [version |-> 0, text |-> NoText, state |-> "NOT_SUBMITTED"]
Unwritten_All == [p \in People |-> Unwritten]

InitAll == Init /\ answered = <<>> /\ content = Unwritten_All /\ releases = <<>>

(***************************************************************************)
(* The schedule and its authorities                                        *)
(***************************************************************************)
\* the tasks, and with them the documents, belong to the assignments of a plan
PlanReplaced == /\ ReplacePlan
                /\ answered' = IF plan = 0 THEN answered ELSE Append(answered, accepted)
                /\ content' = Unwritten_All
                /\ UNCHANGED releases

(***************************************************************************)
(* The texts: a speaker needs an accepted seat of the current plan         *)
(***************************************************************************)
SubmitVersion(p, t) ==
  /\ p \in accepted
  /\ content[p].version < MaxVersions
  /\ content' = [content EXCEPT
       ![p] = [version |-> @.version + 1, text |-> t, state |-> "IN_REVIEW"]]
  /\ UNCHANGED vars /\ UNCHANGED <<answered, releases>>

\* a finding that blocks, or the request of a revision: also of what was approved
RequestRevision(p) ==
  /\ p \in accepted
  /\ content[p].state \in {"IN_REVIEW", "APPROVED"}
  /\ content' = [content EXCEPT ![p].state = "CHANGES_REQUESTED"]
  /\ UNCHANGED vars /\ UNCHANGED <<answered, releases>>

ApproveVersion(p) ==
  /\ p \in accepted
  /\ content[p].state = "IN_REVIEW"
  /\ content' = [content EXCEPT ![p].state = "APPROVED"]
  /\ UNCHANGED vars /\ UNCHANGED <<answered, releases>>

(***************************************************************************)
(* Reading a release                                                       *)
(***************************************************************************)
AcceptedOf(n) == IF n = plan THEN accepted ELSE answered[n]

\* mutant: the release before the last one is asked for the offers of today
CommitmentsStand_Exactly(r) == r.accepted = AcceptedOf(r.plan)
\* validateSealedReleaseLineage without live commitments: its own offers
CommitmentsStand(r) == r.accepted \subseteq AcceptedOf(r.plan)

Lineage(i) == releases[i].number = i /\ releases[i].supersedes = i - 1

\* validatePublicReleaseForRead, HISTORICAL: the offers, the draft and the
\* approval it was sealed from are still on record
Historical(i) == LET r == releases[i] IN
  /\ Lineage(i)
  /\ CommitmentsStand(r)
  /\ r.schedule \in approvals
  /\ r.schedule.plan = r.plan /\ r.schedule.accepted = r.accepted

\* mutant: a release stays public while its own speakers stay
LiveCommitments_Own(r) == r.plan = plan /\ r.accepted \subseteq accepted
LiveCommitments(r) == r.plan = plan /\ r.accepted = accepted

\* CURRENT
Public(i) == /\ i = Len(releases)
             /\ Historical(i)
             /\ LiveCommitments(releases[i])

(***************************************************************************)
(* Sealing one                                                             *)
(***************************************************************************)
Seated(u) == {p \in accepted : Seat[plan][p] = u}

\* contentGateForSchedule: co-speakers have to have approved the same version,
\* and a session that only a submission brings has no text to publish
TextsApproved ==
  /\ \A p \in accepted : content[p].state = "APPROVED"
  /\ \A u \in Sessions :
       /\ Seated(u) # {}
       /\ \A p, q \in Seated(u) : content[p] = content[q]

AtOfferedTime(u) == Taken(Current.place, u) = Window[u]

\* buildSealedScheduleProjection
ScheduleReady ==
  /\ Readable /\ SameContext(draft)
  /\ \E a \in approvals : IsCurrent(a)
  /\ \A u \in Sessions : Current.place[u] # Nowhere
  /\ Durable(Current.place) /\ ~HasConflict(Current.place)
  /\ TextsApproved
  /\ \A u \in Sessions : AtOfferedTime(u)

Candidate == [plan |-> plan, accepted |-> accepted, schedule |-> Current,
              texts |-> [p \in accepted |-> content[p]]]

Latest == releases[Len(releases)]

\* mutant: releases are compared by what their page shows
Repeats_Shown == /\ releases # <<>>
                 /\ Latest.schedule.place = Candidate.schedule.place
                 /\ {Latest.texts[p] : p \in Latest.accepted} = {content[p] : p \in accepted}
\* releaseMaterialFingerprint: everything but the lineage
Repeats == releases # <<>> /\ \A f \in DOMAIN Candidate : Latest[f] = Candidate[f]

\* sealRelease.  What repeats the current release is answered with that release,
\* if it is public, and refused if it is not
SealRelease ==
  /\ Len(releases) < MaxReleases
  /\ ScheduleReady
  /\ releases # <<>> => Historical(Len(releases))
  /\ ~Repeats
  /\ releases' = Append(releases,
       [plan |-> plan, accepted |-> accepted, schedule |-> Current,
        texts |-> Candidate.texts,
        number |-> Len(releases) + 1, supersedes |-> Len(releases)])
  /\ UNCHANGED vars /\ UNCHANGED <<answered, content>>

NextAll == \/ PlanReplaced
           \/ \E p \in People : AcceptOffer(p) /\ UNCHANGED publicationVars
           \/ \E u \in CfpUnits : AcceptSubmission(u) /\ UNCHANGED publicationVars
           \/ \E u \in Sessions : \E slot \in Slots, room \in Current.rooms :
                MoveSession(u, slot, room) /\ UNCHANGED publicationVars
           \/ \E u \in Sessions : ClearSession(u) /\ UNCHANGED publicationVars
           \/ \E S \in SUBSET Rooms \ {{}} : ConfigureRooms(S) /\ UNCHANGED publicationVars
           \/ AutoPlace /\ UNCHANGED publicationVars
           \/ ApproveSchedule /\ UNCHANGED publicationVars
           \/ \E p \in People, t \in Texts : SubmitVersion(p, t)
           \/ \E p \in People : RequestRevision(p) \/ ApproveVersion(p)
           \/ SealRelease

SpecAll == InitAll /\ [][NextAll]_allVars

(***************************************************************************)
(* Properties                                                              *)
(***************************************************************************)
SessionsOf(r) == r.schedule.cfp \cup {Seat[r.plan][p] : p \in r.accepted}
SpeakersOf(r, u) == {p \in r.accepted : Seat[r.plan][p] = u}
                    \cup (IF u \in r.schedule.cfp THEN CfpSpeakers[u] ELSE {})
HeldAt(r, u) == Interval([from |-> r.schedule.place[u].slot[1]], u)

\* What the public reads is what was agreed: exactly the people who have
\* accepted a seat of the plan in force, each at the time of the offer, with a
\* text that their co-speakers share; nobody and no room is needed twice at
\* once.  It holds although people accept, plans are replaced, schedules move
\* and texts are rejected after the release was sealed.
PublicIsAgreed ==
  \A i \in 1..Len(releases) : Public(i) =>
    LET r == releases[i] IN
    /\ r.plan = plan /\ r.accepted = accepted
    /\ \A p \in accepted : HeldAt(r, Seat[plan][p]) = Window[Seat[plan][p]]
    /\ \A p, q \in accepted : Seat[plan][p] = Seat[plan][q] => r.texts[p] = r.texts[q]
    /\ \A u, w \in SessionsOf(r) :
         u # w /\ Meets(HeldAt(r, u), HeldAt(r, w)) =>
           /\ r.schedule.place[u].room # r.schedule.place[w].room
           /\ SpeakersOf(r, u) \cap SpeakersOf(r, w) = {}

\* Sealing never comes to a dead end.  Once everything is approved, the release
\* in force can be superseded, however far plan and offers have moved from it
\* (RELEASE_SUPERSESSION_EVIDENCE_INVALID), and if there is nothing new to seal
\* it is public (RELEASE_REPLAY_EVIDENCE_INVALID).
SealingSettles ==
  ScheduleReady /\ releases # <<>> =>
    /\ Historical(Len(releases))
    /\ Repeats => Public(Len(releases))
=============================================================================
