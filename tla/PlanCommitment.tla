--------------------------- MODULE PlanCommitment ---------------------------
(***************************************************************************)
(* From a compiled plan to an attendance record: the four truth layers of  *)
(* one event.  compilePlan writes immutable candidate versions, approvePlan*)
(* decides on one and moves the event's plan pointer, deliverOffers and    *)
(* respondToOfferCommand turn its seats into commitments, and the          *)
(* operations desk records who attended and corrects what it recorded.     *)
(*                                                                         *)
(* Every command is one BEGIN IMMEDIATE transaction, so one action.  What a*)
(* person at a stale page sends is an arbitrary argument of the action; a  *)
(* command that throws, or answers with what is already stored, changes no *)
(* table and is not an action.  The compiler is a constant: what it makes  *)
(* of each input it can be given.  Offer terms and commitment audits are   *)
(* functions of the immutable rows they are checked against, so they never *)
(* disagree with them and are left out; the event's lifecycle is changed by*)
(* nothing in the program, only by whoever administers its database.       *)
(***************************************************************************)
EXTENDS Integers, Sequences, FiniteSets

CONSTANTS People, Units,
          NoUnit,      \* the person has no seat in the plan
          Inputs,      \* manifests the compiler can be given
          Output,      \* Inputs -> what the compiler makes of the manifest
          MaxVersions, \* bound on plan versions
          EventStart, EventEnd,
          UnitStart, UnitEnd, \* Units -> instants
          MaxTime      \* bound on the clock

ASSUME NoUnitAssumption == NoUnit \notin Units
ASSUME OutputAssumption ==
  Output \in [Inputs -> [feasible : BOOLEAN, seat : [People -> Units \cup {NoUnit}]]]
ASSUME BoundAssumption == MaxVersions \in Nat /\ MaxTime \in Nat
ASSUME WindowAssumption == /\ EventStart \in Nat /\ EventEnd \in Nat
                           /\ UnitStart \in [Units -> Nat]
                           /\ UnitEnd \in [Units -> Nat]

VARIABLES input,      \* the manifest compilePlan would read now
          plans,      \* plan_versions: plans[v] is the manifest version v was compiled from
          compiledAt, \* created_at of the 'candidate' row in plan_states, for candidates
          approved,   \* versions with an approval row and an 'approved' state row
          outdated,   \* those whose 'approved' row is older than their 'candidate' row
          pointer,    \* events.current_plan_version_id, 0 for null
          delivered,  \* versions whose offers are in commitment_offers
          answers,    \* commitment_responses, per version and person
          live,       \* events.lifecycle = 'live'
          now,        \* the wall clock, which may be set back
          attendance, \* observations of type 'attendance', per person and unit
          correction  \* observation_corrections: when the person was marked absent

planVars    == <<input, plans, compiledAt, approved, outdated, pointer>>
answerVars  == <<delivered, answers>>
deskVars    == <<attendance, correction>>
vars == <<input, plans, compiledAt, approved, outdated, pointer, delivered, answers,
          live, now, attendance, correction>>

Versions == 1..MaxVersions
Times    == 0..MaxTime
Seats    == People \X Units
Answers  == {"none", "accepted", "declined"}
Nothing  == -1   \* no row
NoRow    == [observed |-> Nothing, recorded |-> Nothing]

\* planning.ts computes a version's assignments once, from its input
Compiled(v) == Output[plans[v]]
Assigned(v, p) == Compiled(v).seat[p] # NoUnit
Offered(v, p) == v \in delivered /\ Assigned(v, p)
Exists(v) == v \in 1..Len(plans)

(***************************************************************************)
(* Planning                                                                *)
(***************************************************************************)
Init == /\ input \in Inputs
        /\ plans = <<>>
        /\ compiledAt = [v \in Versions |-> Nothing]
        /\ approved = {}
        /\ outdated = {}
        /\ pointer = 0
        /\ delivered = {}
        /\ answers = [s \in Versions \X People |-> "none"]
        /\ live = FALSE
        /\ now \in Times
        /\ attendance = [s \in Seats |-> NoRow]
        /\ correction = [s \in Seats |-> Nothing]

\* freezing a snapshot, adding a program unit, importing or editing a person
ChangeInput == /\ input' \in Inputs \ {input}
               /\ UNCHANGED <<plans, compiledAt, approved, outdated, pointer, live, now>>
               /\ UNCHANGED answerVars /\ UNCHANGED deskVars

\* one version per manifest: compiling it again answers with that version
CompilePlan == /\ \A v \in 1..Len(plans) : plans[v] # input
               /\ Len(plans) < MaxVersions
               /\ plans' = Append(plans, input)
               /\ compiledAt' = [compiledAt EXCEPT ![Len(plans) + 1] = now]
               /\ UNCHANGED <<input, approved, outdated, pointer, live, now>>
               /\ UNCHANGED answerVars /\ UNCHANGED deskVars

Candidates == {v \in 1..Len(plans) : v \notin approved}

\* planState reads the state row with the latest created_at, so an approval
\* dated before the compilation it decides on is never read again
ReadsApproved == approved \ outdated

\* assertCurrentPlanPointerTruth, for the pointer the caller expects
PointerTruth == IF ReadsApproved = {} THEN pointer = 0
                ELSE pointer \in ReadsApproved /\ \A v \in ReadsApproved : v <= pointer

\* mutant: any candidate may be approved
OnlyCandidate_Any(v) == v \in Candidates
OnlyCandidate(v) == Candidates = {v}

ApprovePlan(v, expected) ==
  /\ PointerTruth
  /\ pointer = expected
  /\ Exists(v)
  /\ Compiled(v).feasible
  /\ OnlyCandidate(v)
  /\ approved' = approved \cup {v}
  /\ outdated' = IF now < compiledAt[v] THEN outdated \cup {v} ELSE outdated
  /\ pointer' = v
  /\ compiledAt' = [compiledAt EXCEPT ![v] = Nothing]
  /\ UNCHANGED <<input, plans, live, now>>
  /\ UNCHANGED answerVars /\ UNCHANGED deskVars

(***************************************************************************)
(* Commitments                                                             *)
(***************************************************************************)
DeliverOffers == /\ pointer # 0
                 /\ pointer \in ReadsApproved
                 /\ pointer \notin delivered
                 /\ delivered' = delivered \cup {pointer}
                 /\ UNCHANGED <<answers, live, now>>
                 /\ UNCHANGED planVars /\ UNCHANGED deskVars

\* mutant: an offer stays open when another plan replaces its plan
OfferIsCurrent_Ignored(v) == v \in ReadsApproved
OfferIsCurrent(v) == v = pointer /\ v \in ReadsApproved

Unanswered(v, p) == answers[<<v, p>>] = "none"

RespondToOffer(v, p, r) ==
  /\ Offered(v, p)
  /\ Unanswered(v, p)
  /\ OfferIsCurrent(v)
  /\ answers' = [answers EXCEPT ![<<v, p>>] = r]
  /\ UNCHANGED <<delivered, live, now>>
  /\ UNCHANGED planVars /\ UNCHANGED deskVars

(***************************************************************************)
(* Operations desk                                                         *)
(***************************************************************************)
SetLifecycle == /\ live' = ~live
                /\ UNCHANGED now
                /\ UNCHANGED planVars /\ UNCHANGED answerVars /\ UNCHANGED deskVars

SetClock == /\ now' \in Times \ {now}
            /\ UNCHANGED live
            /\ UNCHANGED planVars /\ UNCHANGED answerVars /\ UNCHANGED deskVars

\* mutant: a seat in the current plan is enough
AcceptedAssignment_AnyAnswer(p, u) ==
  /\ pointer # 0 /\ PointerTruth
  /\ Compiled(pointer).seat[p] = u
  /\ Offered(pointer, p)
AcceptedAssignment(p, u) ==
  /\ pointer # 0 /\ PointerTruth
  /\ Compiled(pointer).seat[p] = u
  /\ Offered(pointer, p)
  /\ answers[<<pointer, p>>] = "accepted"

WindowIsOpen(u, observed) ==
  /\ live
  /\ EventStart < EventEnd /\ UnitStart[u] < UnitEnd[u]
  /\ EventStart <= UnitStart[u] /\ UnitEnd[u] <= EventEnd
  /\ EventStart <= now /\ now < EventEnd
  /\ EventStart <= observed /\ observed < EventEnd
  /\ UnitStart[u] <= observed /\ observed < UnitEnd[u]
  /\ observed <= now

\* the idempotency key is the seat: corrected or not, its row stays
NoRecord(s) == attendance[s] = NoRow

RecordAttendance(p, u, observed) ==
  /\ NoRecord(<<p, u>>)
  /\ AcceptedAssignment(p, u)
  /\ WindowIsOpen(u, observed)
  /\ attendance' = [attendance EXCEPT ![<<p, u>>] =
                      [observed |-> observed, recorded |-> now]]
  /\ UNCHANGED <<correction, live, now>>
  /\ UNCHANGED planVars /\ UNCHANGED answerVars

LatestOf(T) == CHOOSE t \in T : \A other \in T : other <= t

\* after what it corrects, whatever the clock says ...
CorrectionTime(s) ==
  LatestOf({now, attendance[s].observed + 1, attendance[s].recorded})

\* ... but the audit row's trigger wants the clock to have reached that time,
\* so a correction waits until a clock that was set back has caught up
CorrectAttendance(s) == /\ attendance[s] # NoRow
                        /\ correction[s] = Nothing
                        /\ CorrectionTime(s) <= now
                        /\ correction' = [correction EXCEPT ![s] = CorrectionTime(s)]
                        /\ UNCHANGED <<attendance, live, now>>
                        /\ UNCHANGED planVars /\ UNCHANGED answerVars

Next == \/ ChangeInput
        \/ CompilePlan
        \/ \E v \in Versions, expected \in 0..MaxVersions : ApprovePlan(v, expected)
        \/ DeliverOffers
        \/ \E v \in Versions, p \in People, r \in {"accepted", "declined"} :
             RespondToOffer(v, p, r)
        \/ SetLifecycle
        \/ SetClock
        \/ \E p \in People, u \in Units, t \in Times : RecordAttendance(p, u, t)
        \/ \E s \in Seats : CorrectAttendance(s)

Spec == Init /\ [][Next]_vars

(***************************************************************************)
(* Properties                                                              *)
(***************************************************************************)
AttendanceRow == [observed : Times, recorded : Times]

\* Every table has its shape, and an answer has the delivered offer it refers to.
TypeOK == /\ input \in Inputs
          /\ plans \in Seq(Inputs)
          /\ Len(plans) <= MaxVersions
          /\ compiledAt \in [Versions -> Nothing..MaxTime]
          /\ outdated \subseteq approved
          /\ approved \subseteq 1..Len(plans)
          /\ pointer \in 0..Len(plans)
          /\ delivered \subseteq 1..Len(plans)
          /\ answers \in [Versions \X People -> Answers]
          /\ \A v \in Versions, p \in People : answers[<<v, p>>] # "none" => v \in delivered
          /\ live \in BOOLEAN
          /\ now \in Times
          /\ attendance \in [Seats -> AttendanceRow \cup {NoRow}]
          /\ correction \in [Seats -> Nothing..MaxTime]

\* The pointer is the newest approved version and no version below it was
\* passed over: approving never leaves an older candidate behind that could be
\* approved later and turn the event back (assertCurrentPlanPointerTruth would
\* then refuse every approval and every attendance record).
PointerIsNewestApproval == approved = 1..pointer

\* Whoever is on record as attending had accepted exactly that seat, under a
\* plan that was approved and whose offers were delivered, however often the
\* plan was replaced before and after.
AttendanceIsBacked ==
  \A p \in People, u \in Units :
    attendance[<<p, u>>] # NoRow =>
      \E v \in 1..pointer : /\ v \in approved /\ v \in delivered
                            /\ Output[plans[v]].seat[p] = u
                            /\ answers[<<v, p>>] = "accepted"

\* Nothing rejects or supersedes a candidate: two of them, or one the compiler
\* found infeasible, end planning for the event, and so does a current plan that
\* does not read as approved.  The pointer never moves again (approvePlan answers
\* PLAN_CANDIDATE_AMBIGUOUS, PLAN_INFEASIBLE or EVENT_CURRENT_PLAN_POINTER_INVALID).
DeadEnd == \/ \E v \in Candidates : ~Compiled(v).feasible
           \/ \E v, w \in Candidates : v # w
           \/ pointer \in outdated
DeadEndIsForEver == [][DeadEnd => DeadEnd' /\ pointer' = pointer]_vars

\* Once a newer plan is approved, nobody can enter into or leave a commitment
\* of the older one: a stale page changes no answer and adds no offer.
ReplacedPlansAreClosed ==
  [][\A v \in 1..pointer :
       v # pointer' => /\ \A p \in People : answers'[<<v, p>>] = answers[<<v, p>>]
                       /\ (v \in delivered') = (v \in delivered)]_vars

\* Evidence is only added: versions, approvals, offers, answers, attendance
\* records and corrections stay as they were first written.
EvidenceIsAppendOnly ==
  [][/\ \A v \in 1..Len(plans) : v <= Len(plans') /\ plans'[v] = plans[v]
     /\ approved \subseteq approved' /\ delivered \subseteq delivered'
     /\ \A s \in Versions \X People : answers[s] # "none" => answers'[s] = answers[s]
     /\ \A s \in Seats : attendance[s] # NoRow => attendance'[s] = attendance[s]
     /\ \A s \in Seats : correction[s] # Nothing => correction'[s] = correction[s]]_vars
=============================================================================
