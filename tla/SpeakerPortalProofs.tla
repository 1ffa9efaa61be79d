------------------------- MODULE SpeakerPortalProofs -------------------------
(***************************************************************************)
(* Proofs about PlanCommitment, for every set of people, units and         *)
(* manifests, every compiler and every bound, and about the portal's links *)
(* on top of it.  The portal writes none of the tables of the plan and the *)
(* plan's commands write none of the portal's, so every fact about a plan  *)
(* step is one of the first part.  The last part is about ArtifactUpload,  *)
(* which shares nothing with them.                                         *)
(***************************************************************************)
EXTENDS SpeakerPortal, ArtifactUpload, FiniteSetTheorems, TLAPS

(***************************************************************************)
(* Each command touches one layer: two frame facts the proofs start from.  *)
(***************************************************************************)
PlanStep   == ChangeInput \/ CompilePlan
Approval   == \E v \in Versions, expected \in 0..MaxVersions : ApprovePlan(v, expected)
Response   == \E v \in Versions, p \in People, r \in {"accepted", "declined"} :
                RespondToOffer(v, p, r)
Recording  == \E p \in People, u \in Units, t \in Times : RecordAttendance(p, u, t)
Correcting == \E s \in Seats : CorrectAttendance(s)

LEMMA StepCases ==
  ASSUME [Next]_vars
  PROVE  \/ PlanStep \/ Approval \/ DeliverOffers \/ Response
         \/ SetLifecycle \/ SetClock \/ Recording \/ Correcting
         \/ UNCHANGED vars
BY DEF Next, PlanStep, Approval, Response, Recording, Correcting

\* steps that leave the planning tables alone
Beyond == \/ DeliverOffers \/ Response \/ SetLifecycle \/ SetClock
          \/ Recording \/ Correcting \/ UNCHANGED vars

LEMMA BeyondPlanning ==
  ASSUME Beyond
  PROVE  UNCHANGED planVars
BY DEF Beyond, DeliverOffers, Response, RespondToOffer, SetLifecycle, SetClock,
       Recording, RecordAttendance, Correcting, CorrectAttendance, planVars, vars

LEMMA LatestIsOneOfThem ==
  ASSUME NEW a \in Int, NEW b \in Int, NEW c \in Int
  PROVE  LatestOf({a, b, c}) \in {a, b, c}
<1>1. \E t \in {a, b, c} : \A other \in {a, b, c} : other <= t
  <2>1. CASE a <= b /\ c <= b  BY <2>1
  <2>2. CASE a <= c /\ b <= c  BY <2>2
  <2>3. CASE b <= a /\ c <= a  BY <2>3
  <2>4. QED  BY <2>1, <2>2, <2>3
<1>2. QED  BY <1>1 DEF LatestOf

(***************************************************************************)
(* Type correctness                                                        *)
(***************************************************************************)
LEMMA InitType == Init => TypeOK
<1> SUFFICES ASSUME Init PROVE TypeOK
  OBVIOUS
<1>1. plans \in Seq(Inputs) /\ Len(plans) = 0  BY DEF Init
<1>2. /\ answers \in [Versions \X People -> Answers]
      /\ \A v \in Versions, p \in People : answers[<<v, p>>] = "none"
  BY DEF Init, Answers
<1>3. /\ attendance \in [Seats -> AttendanceRow \cup {NoRow}]
      /\ correction \in [Seats -> Nothing..MaxTime]
  BY BoundAssumption DEF Init, Nothing
<1>4. /\ Len(plans) <= MaxVersions /\ approved \subseteq 1..Len(plans)
      /\ pointer \in 0..Len(plans) /\ delivered \subseteq 1..Len(plans)
  BY <1>1, BoundAssumption DEF Init
<1>5. input \in Inputs /\ live \in BOOLEAN /\ now \in Times  BY DEF Init
<1>6. \A v \in Versions, p \in People : answers[<<v, p>>] # "none" => v \in delivered
  BY <1>2
<1>7. compiledAt \in [Versions -> Nothing..MaxTime] /\ outdated \subseteq approved
  BY BoundAssumption DEF Init, Nothing
<1>8. QED  BY <1>1, <1>2, <1>3, <1>4, <1>5, <1>6, <1>7 DEF TypeOK

LEMMA NextType == TypeOK /\ [Next]_vars => TypeOK'
<1> SUFFICES ASSUME TypeOK, [Next]_vars PROVE TypeOK'
  OBVIOUS
<1>1. CASE ChangeInput
  BY <1>1 DEF TypeOK, ChangeInput, answerVars, deskVars
<1>2. CASE CompilePlan
  <2>1. /\ plans' \in Seq(Inputs) /\ Len(plans') = Len(plans) + 1
        /\ Len(plans') <= MaxVersions
    BY <1>2, BoundAssumption DEF TypeOK, CompilePlan
  <2>2. /\ approved' \subseteq 1..Len(plans') /\ pointer' \in 0..Len(plans')
        /\ delivered' \subseteq 1..Len(plans')
    BY <1>2, <2>1 DEF TypeOK, CompilePlan, answerVars
  <2>3. compiledAt' \in [Versions -> Nothing..MaxTime]
    <3>1. now \in Nothing..MaxTime  BY BoundAssumption DEF TypeOK, Times, Nothing
    <3>2. QED  BY <1>2, <3>1 DEF TypeOK, CompilePlan
  <2>4. outdated' \subseteq approved'  BY <1>2 DEF TypeOK, CompilePlan
  <2>5. UNCHANGED <<input, answers, delivered, live, now, attendance, correction>>
    BY <1>2 DEF CompilePlan, answerVars, deskVars
  <2>6. QED  BY <2>1, <2>2, <2>3, <2>4, <2>5 DEF TypeOK
<1>3. CASE Approval
  <2> PICK v \in Versions, e \in 0..MaxVersions : ApprovePlan(v, e)
    BY <1>3 DEF Approval
  <2>1. v \in 1..Len(plans)  BY DEF ApprovePlan, Exists
  <2>2. UNCHANGED <<input, plans, delivered, answers, live, now, attendance, correction>>
    BY DEF ApprovePlan, answerVars, deskVars
  <2>3. approved' \subseteq 1..Len(plans)  BY <2>1 DEF TypeOK, ApprovePlan
  <2>4. pointer' \in 0..Len(plans)
    <3>1. Len(plans) \in Nat  BY DEF TypeOK
    <3>2. QED  BY <2>1, <3>1 DEF ApprovePlan
  <2>5. outdated' \subseteq approved'  BY DEF TypeOK, ApprovePlan
  <2>6. compiledAt' \in [Versions -> Nothing..MaxTime]
    <3>1. Nothing \in Nothing..MaxTime  BY BoundAssumption DEF Nothing
    <3>2. QED  BY <3>1 DEF TypeOK, ApprovePlan
  <2>7. QED  BY <2>2, <2>3, <2>4, <2>5, <2>6 DEF TypeOK
<1>4. CASE DeliverOffers
  <2>1. delivered' \subseteq 1..Len(plans)
    BY <1>4 DEF TypeOK, DeliverOffers, ReadsApproved
  <2>2. QED  BY <1>4, <2>1 DEF TypeOK, DeliverOffers, planVars, deskVars
<1>5. CASE Response
  <2> PICK v \in Versions, p \in People, r \in {"accepted", "declined"} :
             RespondToOffer(v, p, r)
    BY <1>5 DEF Response
  <2>1. answers' \in [Versions \X People -> Answers]
    BY DEF TypeOK, RespondToOffer, Answers
  <2>2. \A w \in Versions, q \in People : answers'[<<w, q>>] # "none" => w \in delivered
    BY DEF TypeOK, RespondToOffer, Offered
  <2>3. QED  BY <2>1, <2>2 DEF TypeOK, RespondToOffer, planVars, deskVars
<1>6. CASE SetLifecycle
  BY <1>6 DEF TypeOK, SetLifecycle, planVars, answerVars, deskVars
<1>7. CASE SetClock
  BY <1>7 DEF TypeOK, SetClock, planVars, answerVars, deskVars
<1>8. CASE Recording
  <2> PICK p \in People, u \in Units, t \in Times : RecordAttendance(p, u, t)
    BY <1>8 DEF Recording
  <2>1. attendance' \in [Seats -> AttendanceRow \cup {NoRow}]
    BY DEF TypeOK, RecordAttendance, AttendanceRow
  <2>2. QED  BY <2>1 DEF TypeOK, RecordAttendance, planVars, answerVars
<1>9. CASE Correcting
  <2> PICK s \in Seats : CorrectAttendance(s)  BY <1>9 DEF Correcting
  <2>1. /\ attendance[s] \in AttendanceRow /\ now \in Times
    BY DEF TypeOK, CorrectAttendance
  <2>2. CorrectionTime(s) \in {now, attendance[s].observed + 1, attendance[s].recorded}
    <3>1. /\ now \in Int /\ attendance[s].observed + 1 \in Int
          /\ attendance[s].recorded \in Int
      BY <2>1, BoundAssumption DEF AttendanceRow, Times
    <3>2. QED  BY <3>1, LatestIsOneOfThem DEF CorrectionTime
  <2>3. CorrectionTime(s) \in Nothing..MaxTime
    BY <2>1, <2>2, BoundAssumption DEF AttendanceRow, Times, CorrectAttendance, Nothing
  <2>4. correction' \in [Seats -> Nothing..MaxTime]
    BY <2>3 DEF TypeOK, CorrectAttendance
  <2>5. QED  BY <2>4 DEF TypeOK, CorrectAttendance, planVars, answerVars
<1>10. CASE UNCHANGED vars
  BY <1>10 DEF TypeOK, vars
<1>11. QED
  BY <1>1, <1>2, <1>3, <1>4, <1>5, <1>6, <1>7, <1>8, <1>9, <1>10, StepCases DEF PlanStep

\* Every reachable state has the shape of its tables, and every answer refers
\* to a delivered offer (foreign key of commitment_responses).
THEOREM TypeCorrect == Spec => []TypeOK
BY InitType, NextType, PTL DEF Spec

(***************************************************************************)
(* The plan pointer.  approved = 1..pointer is inductive by itself: with   *)
(* it the only candidate can only be the version after the pointer.        *)
(***************************************************************************)
LEMMA NextPointer ==
  TypeOK /\ PointerIsNewestApproval /\ [Next]_vars => PointerIsNewestApproval'
<1> SUFFICES ASSUME TypeOK, PointerIsNewestApproval, [Next]_vars
             PROVE  PointerIsNewestApproval'
  OBVIOUS
<1>1. CASE PlanStep
  BY <1>1 DEF PlanStep, ChangeInput, CompilePlan, PointerIsNewestApproval
<1>2. CASE Approval
  <2> PICK v \in Versions, e \in 0..MaxVersions : ApprovePlan(v, e)
    BY <1>2 DEF Approval
  <2> DEFINE n == Len(plans)
  <2>1. n \in Nat /\ pointer \in 0..n  BY DEF TypeOK
  <2>2. \A w \in 1..n : w \notin 1..pointer <=> w = v
    BY DEF ApprovePlan, OnlyCandidate, Candidates, PointerIsNewestApproval
  <2>3. v \in 1..n  BY DEF ApprovePlan, Exists
  <2>4. v = pointer + 1
    <3>1. pointer < n  BY <2>1, <2>2, <2>3
    <3>2. pointer + 1 \in 1..n /\ pointer + 1 \notin 1..pointer  BY <2>1, <3>1
    <3>3. QED  BY <2>2, <3>2
  <2>5. approved' = 1..pointer \cup {pointer + 1} /\ pointer' = pointer + 1
    BY <2>4 DEF ApprovePlan, PointerIsNewestApproval
  <2>6. 1..pointer \cup {pointer + 1} = 1..(pointer + 1)  BY <2>1
  <2>7. QED  BY <2>5, <2>6 DEF PointerIsNewestApproval
<1>3. CASE Beyond
  BY <1>3, BeyondPlanning DEF planVars, PointerIsNewestApproval
<1>4. QED  BY <1>1, <1>2, <1>3, StepCases DEF Beyond

\* The pointer is the newest approval and no older version was passed over.
THEOREM PointerAlwaysNewest == Spec => []PointerIsNewestApproval
<1>1. Init => PointerIsNewestApproval
  BY DEF Init, PointerIsNewestApproval
<1>2. QED  BY <1>1, NextPointer, TypeCorrect, PTL DEF Spec

(***************************************************************************)
(* Evidence is only added                                                  *)
(***************************************************************************)
PlansGrow   == \A v \in 1..Len(plans) : v <= Len(plans') /\ plans'[v] = plans[v]
AnswersStay == \A s \in Versions \X People : answers[s] # "none" => answers'[s] = answers[s]
RecordsStay == /\ \A s \in Seats : attendance[s] # NoRow => attendance'[s] = attendance[s]
               /\ \A s \in Seats : correction[s] # Nothing => correction'[s] = correction[s]

LEMMA PlansOnlyGrow == TypeOK /\ [Next]_vars => PlansGrow
<1> SUFFICES ASSUME TypeOK, [Next]_vars, NEW v \in 1..Len(plans)
             PROVE  v <= Len(plans') /\ plans'[v] = plans[v]
  BY DEF PlansGrow
<1>1. v \in Int /\ v <= Len(plans) /\ plans \in Seq(Inputs) /\ input \in Inputs
  BY DEF TypeOK
<1>2. CASE CompilePlan
  BY <1>1, <1>2 DEF CompilePlan
<1>3. CASE plans' = plans
  BY <1>1, <1>3
<1>4. CompilePlan \/ plans' = plans
  <2>1. CASE PlanStep  BY <2>1 DEF PlanStep, ChangeInput
  <2>2. CASE Approval  BY <2>2 DEF Approval, ApprovePlan
  <2>3. CASE Beyond  BY <2>3, BeyondPlanning DEF planVars
  <2>4. QED  BY <2>1, <2>2, <2>3, StepCases DEF Beyond
<1>5. QED  BY <1>2, <1>3, <1>4

LEMMA ApprovalsAndOffersStay ==
  [Next]_vars => approved \subseteq approved' /\ delivered \subseteq delivered'
<1> SUFFICES ASSUME [Next]_vars
             PROVE  approved \subseteq approved' /\ delivered \subseteq delivered'
  OBVIOUS
<1>1. CASE PlanStep  BY <1>1 DEF PlanStep, ChangeInput, CompilePlan, answerVars
<1>2. CASE Approval  BY <1>2 DEF Approval, ApprovePlan, answerVars
<1>3. CASE DeliverOffers  BY <1>3 DEF DeliverOffers, planVars
<1>4. CASE Response  BY <1>4 DEF Response, RespondToOffer, planVars
<1>5. CASE SetLifecycle \/ SetClock
  BY <1>5 DEF SetLifecycle, SetClock, planVars, answerVars
<1>6. CASE Recording  BY <1>6 DEF Recording, RecordAttendance, planVars, answerVars
<1>7. CASE Correcting  BY <1>7 DEF Correcting, CorrectAttendance, planVars, answerVars
<1>8. CASE UNCHANGED vars  BY <1>8 DEF vars
<1>9. QED
  BY <1>1, <1>2, <1>3, <1>4, <1>5, <1>6, <1>7, <1>8, StepCases

LEMMA OnlyResponsesAnswer ==
  ASSUME [Next]_vars
  PROVE  Response \/ UNCHANGED answers
<1>1. CASE PlanStep  BY <1>1 DEF PlanStep, ChangeInput, CompilePlan, answerVars
<1>2. CASE Approval  BY <1>2 DEF Approval, ApprovePlan, answerVars
<1>3. CASE DeliverOffers  BY <1>3 DEF DeliverOffers
<1>4. CASE SetLifecycle \/ SetClock  BY <1>4 DEF SetLifecycle, SetClock, answerVars
<1>5. CASE Recording \/ Correcting
  BY <1>5 DEF Recording, RecordAttendance, Correcting, CorrectAttendance, answerVars
<1>6. CASE UNCHANGED vars  BY <1>6 DEF vars
<1>7. QED  BY <1>1, <1>2, <1>3, <1>4, <1>5, <1>6, StepCases

LEMMA AnswersAreFinal == TypeOK /\ [Next]_vars => AnswersStay
<1> SUFFICES ASSUME TypeOK, [Next]_vars, NEW s \in Versions \X People, answers[s] # "none"
             PROVE  answers'[s] = answers[s]
  BY DEF AnswersStay
<1>1. CASE Response
  <2> PICK v \in Versions, p \in People, r \in {"accepted", "declined"} :
             RespondToOffer(v, p, r)
    BY <1>1 DEF Response
  <2>1. s # <<v, p>>  BY DEF RespondToOffer, Unanswered
  <2>2. QED  BY <2>1 DEF RespondToOffer, TypeOK
<1>2. CASE UNCHANGED answers  BY <1>2
<1>3. QED  BY <1>1, <1>2, OnlyResponsesAnswer

LEMMA OnlyTheDeskRecords ==
  ASSUME [Next]_vars
  PROVE  Recording \/ Correcting \/ UNCHANGED deskVars
<1>1. CASE PlanStep  BY <1>1 DEF PlanStep, ChangeInput, CompilePlan
<1>2. CASE Approval  BY <1>2 DEF Approval, ApprovePlan
<1>3. CASE DeliverOffers \/ Response
  BY <1>3 DEF DeliverOffers, Response, RespondToOffer
<1>4. CASE SetLifecycle \/ SetClock  BY <1>4 DEF SetLifecycle, SetClock
<1>5. CASE UNCHANGED vars  BY <1>5 DEF vars, deskVars
<1>6. QED  BY <1>1, <1>2, <1>3, <1>4, <1>5, StepCases

LEMMA RecordsAreFinal == TypeOK /\ [Next]_vars => RecordsStay
<1> SUFFICES ASSUME TypeOK, [Next]_vars PROVE RecordsStay
  OBVIOUS
<1>1. CASE Recording
  <2> PICK p \in People, u \in Units, t \in Times : RecordAttendance(p, u, t)
    BY <1>1 DEF Recording
  <2>1. ASSUME NEW s \in Seats, attendance[s] # NoRow
        PROVE  attendance'[s] = attendance[s]
    <3>1. s # <<p, u>>  BY <2>1 DEF RecordAttendance, NoRecord
    <3>2. QED  BY <3>1 DEF RecordAttendance, TypeOK
  <2>2. QED  BY <2>1 DEF RecordsStay, RecordAttendance
<1>2. CASE Correcting
  <2> PICK t \in Seats : CorrectAttendance(t)  BY <1>2 DEF Correcting
  <2>1. ASSUME NEW s \in Seats, correction[s] # Nothing
        PROVE  correction'[s] = correction[s]
    <3>1. s # t  BY <2>1 DEF CorrectAttendance
    <3>2. QED  BY <3>1 DEF CorrectAttendance, TypeOK
  <2>2. QED  BY <2>1 DEF RecordsStay, CorrectAttendance
<1>3. CASE UNCHANGED deskVars  BY <1>3 DEF deskVars, RecordsStay
<1>4. QED  BY <1>1, <1>2, <1>3, OnlyTheDeskRecords

\* Versions, approvals, offers, answers, records and corrections are kept as
\* they were first written, whatever stale page a command comes from.
THEOREM EvidenceOnlyAdded == Spec => EvidenceIsAppendOnly
<1>1. TypeOK /\ [Next]_vars =>
        [/\ \A v \in 1..Len(plans) : v <= Len(plans') /\ plans'[v] = plans[v]
         /\ approved \subseteq approved' /\ delivered \subseteq delivered'
         /\ \A s \in Versions \X People : answers[s] # "none" => answers'[s] = answers[s]
         /\ \A s \in Seats : attendance[s] # NoRow => attendance'[s] = attendance[s]
         /\ \A s \in Seats : correction[s] # Nothing => correction'[s] = correction[s]]_vars
  BY PlansOnlyGrow, ApprovalsAndOffersStay, AnswersAreFinal, RecordsAreFinal
  DEF PlansGrow, AnswersStay, RecordsStay
<1>2. QED  BY <1>1, TypeCorrect, PTL DEF Spec, EvidenceIsAppendOnly

(***************************************************************************)
(* Attendance is backed by an acceptance                                   *)
(***************************************************************************)
BackedBy(v, p, u) == /\ v \in approved /\ v \in delivered
                     /\ Output[plans[v]].seat[p] = u
                     /\ answers[<<v, p>>] = "accepted"

LEMMA BackingStays ==
  ASSUME TypeOK, PointerIsNewestApproval, [Next]_vars,
         NEW v \in 1..pointer, NEW p \in People, NEW u \in Units, BackedBy(v, p, u)
  PROVE  v \in 1..pointer' /\ BackedBy(v, p, u)'
<1>1. v \in approved' /\ v \in delivered'
  BY ApprovalsAndOffersStay DEF BackedBy
<1>2. v \in 1..pointer'
  BY <1>1, NextPointer DEF PointerIsNewestApproval
<1>3. v \in 1..Len(plans) /\ v \in Versions
  BY BoundAssumption DEF TypeOK, Versions
<1>4. plans'[v] = plans[v]  BY <1>3, PlansOnlyGrow DEF PlansGrow
<1>5. answers'[<<v, p>>] = "accepted"
  BY <1>3, AnswersAreFinal DEF AnswersStay, BackedBy
<1>6. QED  BY <1>1, <1>2, <1>4, <1>5 DEF BackedBy

LEMMA NextBacked ==
  TypeOK /\ PointerIsNewestApproval /\ AttendanceIsBacked /\ [Next]_vars
    => AttendanceIsBacked'
<1> SUFFICES ASSUME TypeOK, PointerIsNewestApproval, AttendanceIsBacked, [Next]_vars,
                    NEW p \in People, NEW u \in Units, attendance'[<<p, u>>] # NoRow
             PROVE  \E v \in 1..pointer' : BackedBy(v, p, u)'
  BY DEF AttendanceIsBacked, BackedBy
<1>1. CASE attendance[<<p, u>>] # NoRow
  <2>1. PICK v \in 1..pointer : BackedBy(v, p, u)
    BY <1>1 DEF AttendanceIsBacked, BackedBy
  <2>2. QED  BY <2>1, BackingStays
<1>2. CASE attendance[<<p, u>>] = NoRow
  <2>1. Recording
    <3>1. \/ Recording \/ attendance' = attendance
      BY OnlyTheDeskRecords DEF Correcting, CorrectAttendance, deskVars
    <3>2. QED  BY <1>2, <3>1
  <2>2. PICK q \in People, w \in Units, t \in Times : RecordAttendance(q, w, t)
    BY <2>1 DEF Recording
  <2>3. q = p /\ w = u
    BY <1>2, <2>2 DEF RecordAttendance, TypeOK, Seats
  <2>4. pointer \in 1..pointer /\ BackedBy(pointer, p, u)
    <3>1. AcceptedAssignment(p, u)  BY <2>2, <2>3 DEF RecordAttendance
    <3>2. pointer \in 1..pointer  BY <3>1 DEF AcceptedAssignment, TypeOK
    <3>3. pointer \in approved  BY <3>2 DEF PointerIsNewestApproval
    <3>4. QED
      BY <3>1, <3>2, <3>3 DEF AcceptedAssignment, BackedBy, Offered, Compiled
  <2>5. QED  BY <2>4, BackingStays
<1>3. QED  BY <1>1, <1>2

\* Nobody is on record as attending who had not accepted that very seat under
\* an approved, delivered plan.
THEOREM AttendanceAlwaysBacked == Spec => []AttendanceIsBacked
<1>1. Init => AttendanceIsBacked
  BY DEF Init, AttendanceIsBacked, Seats
<1>2. QED
  BY <1>1, NextBacked, TypeCorrect, PointerAlwaysNewest, PTL DEF Spec

\* An answer is only ever entered while its plan is the current one.
THEOREM ReplacedPlansStayClosed == Spec => ReplacedPlansAreClosed
<1>1. TypeOK /\ PointerIsNewestApproval /\ [Next]_vars =>
        [\A v \in 1..pointer :
           v # pointer' => /\ \A p \in People : answers'[<<v, p>>] = answers[<<v, p>>]
                           /\ (v \in delivered') = (v \in delivered)]_vars
  <2> SUFFICES ASSUME TypeOK, PointerIsNewestApproval, [Next]_vars,
                      NEW v \in 1..pointer, v # pointer'
               PROVE  /\ \A p \in People : answers'[<<v, p>>] = answers[<<v, p>>]
                      /\ (v \in delivered') = (v \in delivered)
    OBVIOUS
  <2>1. \A p \in People : answers'[<<v, p>>] = answers[<<v, p>>]
    <3>1. CASE Response
      <4> PICK w \in Versions, q \in People, r \in {"accepted", "declined"} :
                 RespondToOffer(w, q, r)
        BY <3>1 DEF Response
      <4>1. w # v  BY DEF RespondToOffer, OfferIsCurrent, planVars
      <4>2. QED  BY <4>1 DEF RespondToOffer, TypeOK
    <3>2. QED  BY <3>1, OnlyResponsesAnswer
  <2>2. (v \in delivered') = (v \in delivered)
    <3>1. CASE PlanStep  BY <3>1 DEF PlanStep, ChangeInput, CompilePlan, answerVars
    <3>2. CASE Approval  BY <3>2 DEF Approval, ApprovePlan, answerVars
    <3>3. CASE DeliverOffers  BY <3>3 DEF DeliverOffers, planVars
    <3>4. CASE Response \/ SetLifecycle \/ SetClock
      BY <3>4 DEF Response, RespondToOffer, SetLifecycle, SetClock, answerVars
    <3>5. CASE Recording \/ Correcting
      BY <3>5 DEF Recording, RecordAttendance, Correcting, CorrectAttendance, answerVars
    <3>6. CASE UNCHANGED vars  BY <3>6 DEF vars
    <3>7. QED  BY <3>1, <3>2, <3>3, <3>4, <3>5, <3>6, StepCases
  <2>3. QED  BY <2>1, <2>2
<1>2. QED
  BY <1>1, TypeCorrect, PointerAlwaysNewest, PTL DEF Spec, ReplacedPlansAreClosed

(***************************************************************************)
(* Dead ends                                                               *)
(***************************************************************************)
LEMMA NoApprovalInADeadEnd ==
  ASSUME TypeOK, DeadEnd, Approval
  PROVE  FALSE
<1> PICK v \in Versions, e \in 0..MaxVersions : ApprovePlan(v, e)
  BY DEF Approval
<1>1. /\ PointerTruth /\ Candidates = {v} /\ Compiled(v).feasible
  BY DEF ApprovePlan, OnlyCandidate
<1>2. pointer \notin outdated
  <2>1. CASE ReadsApproved = {}
    <3>1. pointer = 0  BY <1>1, <2>1 DEF PointerTruth
    <3>2. QED  BY <3>1 DEF TypeOK
  <2>2. CASE ReadsApproved # {}
    BY <1>1, <2>2 DEF PointerTruth, ReadsApproved
  <2>3. QED  BY <2>1, <2>2
<1>3. QED  BY <1>1, <1>2 DEF DeadEnd

LEMMA CompilingKeepsDeadEnds ==
  ASSUME TypeOK, DeadEnd, PlanStep
  PROVE  DeadEnd' /\ pointer' = pointer
<1>1. UNCHANGED <<approved, outdated, pointer>>
  BY DEF PlanStep, ChangeInput, CompilePlan
<1>2. PlansGrow
  <2>1. [Next]_vars  BY DEF Next, PlanStep
  <2>2. QED  BY <2>1, PlansOnlyGrow
<1>3. \A v \in Candidates : v \in Candidates' /\ Compiled(v)' = Compiled(v)
  <2> SUFFICES ASSUME NEW v \in Candidates
               PROVE  v \in Candidates' /\ Compiled(v)' = Compiled(v)
    OBVIOUS
  <2>1. v \in 1..Len(plans) /\ v \notin approved  BY DEF Candidates
  <2>2. v <= Len(plans') /\ plans'[v] = plans[v]  BY <1>2, <2>1 DEF PlansGrow
  <2>3. Len(plans') \in Nat
    <3>1. plans \in Seq(Inputs) /\ input \in Inputs  BY DEF TypeOK
    <3>2. plans' \in Seq(Inputs)
      BY <3>1 DEF PlanStep, ChangeInput, CompilePlan
    <3>3. QED  BY <3>2
  <2>4. v \in 1..Len(plans')  BY <2>1, <2>2, <2>3
  <2>5. QED  BY <1>1, <2>1, <2>2, <2>4 DEF Candidates, Compiled
<1>4. QED  BY <1>1, <1>3 DEF DeadEnd

\* Two unapproved candidates, an infeasible one, or a current plan whose
\* approval is older than its compilation: the plan pointer never moves again.
THEOREM DeadEndsStay == Spec => DeadEndIsForEver
<1>1. TypeOK /\ [Next]_vars => [DeadEnd => DeadEnd' /\ pointer' = pointer]_vars
  <2> SUFFICES ASSUME TypeOK, [Next]_vars, DeadEnd
               PROVE  DeadEnd' /\ pointer' = pointer
    OBVIOUS
  <2>1. CASE PlanStep  BY <2>1, CompilingKeepsDeadEnds
  <2>2. CASE Approval  BY <2>2, NoApprovalInADeadEnd
  <2>3. CASE Beyond
    BY <2>3, BeyondPlanning DEF planVars, DeadEnd, Candidates, Compiled
  <2>4. QED  BY <2>1, <2>2, <2>3, StepCases DEF Beyond
<1>2. QED  BY <1>1, TypeCorrect, PTL DEF Spec, DeadEndIsForEver

(***************************************************************************)
(* The portal: its steps, and that it keeps the plan's specification       *)
(***************************************************************************)
PortalStep == [PortalNext]_<<vars, portalVars>>

\* a command of the plan, or nothing at all
PlanOnly == [Next]_vars /\ UNCHANGED portalVars
Issuing  == \E p \in People : IssueLink(p)
Listing  == \E p \in People : ListSpeaker(p)

LEMMA PortalCases == PortalStep => PlanOnly \/ Issuing \/ Listing
BY DEF PortalStep, PortalNext, PlanOnly, Issuing, Listing, portalVars

LEMMA PortalLeavesThePlan == PortalStep => [Next]_vars
BY DEF PortalStep, PortalNext, IssueLink, ListSpeaker

\* Links and listings disturb nothing the plan promises: the theorems above,
\* which are about Spec, hold of the composition (issueSpeakerPortalToken and
\* createManualSpeaker write no table of the plan).
THEOREM PortalKeepsThePlan == PortalSpec => Spec
<1>1. PortalInit => Init  BY DEF PortalInit
<1>2. PortalStep => [Next]_vars  BY PortalLeavesThePlan
<1>3. QED  BY <1>1, <1>2, PTL DEF PortalSpec, PortalStep, Spec

(***************************************************************************)
(* Type correctness                                                        *)
(***************************************************************************)
LEMMA PortalInitType == PortalInit => PortalTypeOK
<1> SUFFICES ASSUME PortalInit PROVE PortalTypeOK
  OBVIOUS
<1>1. roster \in [People \X Roles -> Participation]
  BY DEF PortalInit, Participation
<1>2. links \in Seq(LinkRow)
  BY DEF PortalInit
<1>3. QED  BY <1>1, <1>2 DEF PortalTypeOK

\* what the step of issuing a link writes
LEMMA NewLink ==
  ASSUME TypeOK, NEW p \in People, IssueLink(p)
  PROVE  /\ [person |-> p, plan |-> pointer, expires |-> now + LinkTtl] \in LinkRow
         /\ pointer \in 1..Len(plans)
         /\ RoleUnder(pointer, p) \in Roles
<1>1. pointer # 0  BY DEF IssueLink, AcceptedAuthority, AcceptedSeat
<1>2. /\ pointer \in 1..Len(plans) /\ Len(plans) <= MaxVersions
      /\ plans \in Seq(Inputs) /\ now \in Nat
  BY <1>1, BoundAssumption DEF TypeOK, Times
<1>3. pointer \in Versions /\ now + LinkTtl \in Nat /\ plans[pointer] \in Inputs
  BY <1>2, BoundAssumption, LinkAssumption DEF Versions
<1>4. RoleUnder(pointer, p) \in Roles
  <2>1. RoleIn[plans[pointer]] \in [People -> Roles]
    BY <1>3, RoleAssumption
  <2>2. QED  BY <2>1 DEF RoleUnder
<1>5. QED  BY <1>2, <1>3, <1>4 DEF LinkRow

LEMMA PortalNextType == TypeOK /\ PortalTypeOK /\ PortalStep => PortalTypeOK'
<1> SUFFICES ASSUME TypeOK, PortalTypeOK, PortalStep PROVE PortalTypeOK'
  OBVIOUS
<1>1. CASE PlanOnly  BY <1>1 DEF PlanOnly, portalVars, PortalTypeOK
<1>2. CASE Issuing
  <2> PICK p \in People : IssueLink(p)  BY <1>2 DEF Issuing
  <2> DEFINE row == [person |-> p, plan |-> pointer, expires |-> now + LinkTtl]
  <2>1. row \in LinkRow  BY <1>1, NewLink
  <2>2. links' = Append(links, row)  BY DEF IssueLink
  <2> HIDE DEF row
  <2>3. links' \in Seq(LinkRow)  BY <2>1, <2>2 DEF PortalTypeOK
  <2>4. roster' \in [People \X Roles -> Participation]
    BY DEF IssueLink, PortalTypeOK, Participation
  <2>5. QED  BY <2>3, <2>4 DEF PortalTypeOK
<1>3. CASE Listing
  BY <1>3 DEF Listing, ListSpeaker, PortalTypeOK, Participation
<1>4. QED  BY <1>1, <1>2, <1>3, PortalCases

(***************************************************************************)
(* The inductive invariant                                                 *)
(***************************************************************************)
PortalInv == /\ TypeOK
             /\ PointerIsNewestApproval
             /\ PortalTypeOK
             /\ LinksAgreeWithRoster

LEMMA PointerNeverFalls ==
  ASSUME TypeOK, PointerIsNewestApproval, [Next]_vars
  PROVE  pointer <= pointer'
<1>1. PointerIsNewestApproval' /\ TypeOK'  BY NextPointer, NextType
<1>2. 1..pointer \subseteq 1..pointer'
  BY <1>1, ApprovalsAndOffersStay DEF PointerIsNewestApproval
<1>3. pointer \in Nat /\ pointer' \in Nat  BY <1>1 DEF TypeOK
<1>4. CASE pointer = 0  BY <1>3, <1>4
<1>5. CASE pointer # 0
  <2>1. pointer \in 1..pointer  BY <1>3, <1>5
  <2>2. QED  BY <2>1, <1>2, <1>3
<1>6. QED  BY <1>4, <1>5

\* the seat a link was issued for is still offered and accepted afterwards
LEMMA SeatsStay ==
  ASSUME TypeOK, PointerIsNewestApproval, [Next]_vars,
         NEW p \in People, NEW v \in 1..pointer,
         Offered(v, p), answers[<<v, p>>] = "accepted"
  PROVE  /\ v \in 1..pointer' /\ Offered(v, p)' /\ answers'[<<v, p>>] = "accepted"
         /\ plans'[v] = plans[v]
<1>1. /\ v \in Nat /\ 1 <= v /\ v <= pointer
      /\ pointer \in Nat /\ pointer <= Len(plans) /\ Len(plans) \in Nat
      /\ Len(plans) <= MaxVersions
  BY DEF TypeOK
<1>2. v \in Versions /\ v \in 1..Len(plans)  BY <1>1, BoundAssumption DEF Versions
<1>3. plans'[v] = plans[v]  BY <1>2, PlansOnlyGrow DEF PlansGrow
<1>4. v \in delivered'  BY ApprovalsAndOffersStay DEF Offered
<1>5. Offered(v, p)'  BY <1>3, <1>4 DEF Offered, Assigned, Compiled
<1>6. answers'[<<v, p>>] = "accepted"  BY <1>2, AnswersAreFinal DEF AnswersStay
<1>7. v \in 1..pointer'
  <2>1. pointer' \in Nat  BY NextType DEF TypeOK
  <2>2. QED  BY <1>1, <2>1, PointerNeverFalls
<1>8. QED  BY <1>3, <1>5, <1>6, <1>7

\* what LinksAgreeWithRoster says of one link
Backed(p, v) == /\ v \in 1..pointer /\ Offered(v, p)
                /\ answers[<<v, p>>] = "accepted"
                /\ Confirmed(p) = {RoleUnder(v, p)}

LEMMA BackedLinks ==
  LinksAgreeWithRoster <=> \A i \in 1..Len(links) : Backed(links[i].person, links[i].plan)
BY DEF LinksAgreeWithRoster, Backed

LEMMA BackedLinksAfter ==
  (\A i \in 1..Len(links') : Backed(links[i].person, links[i].plan)') => LinksAgreeWithRoster'
BY DEF LinksAgreeWithRoster, Backed

\* a step that confirms the person in nothing else keeps the link backed
LEMMA BackedStays ==
  ASSUME TypeOK, PointerIsNewestApproval, [Next]_vars,
         NEW p \in People, NEW v, Backed(p, v), Confirmed(p)' = Confirmed(p)
  PROVE  Backed(p, v)'
<1>1. v \in 1..pointer /\ Offered(v, p) /\ answers[<<v, p>>] = "accepted"
  BY DEF Backed
<1>2. /\ v \in 1..pointer' /\ Offered(v, p)' /\ answers'[<<v, p>>] = "accepted"
      /\ plans'[v] = plans[v]
  BY <1>1, SeatsStay
<1>3. RoleUnder(v, p)' = RoleUnder(v, p)  BY <1>2 DEF RoleUnder
<1>4. QED  BY <1>2, <1>3 DEF Backed

LEMMA IssuingConfirms ==
  ASSUME TypeOK, PortalTypeOK, NEW q \in People, IssueLink(q)
  PROVE  /\ Confirmed(q)' = {RoleUnder(pointer, q)}
         /\ Listed(q) # {} => Confirmed(q)' = Confirmed(q)
         /\ \A p \in People : p # q => Confirmed(p)' = Confirmed(p)
<1> DEFINE role == RoleUnder(pointer, q)
<1>1. role \in Roles  BY NewLink
<1>2. RosterAgrees(q)  BY DEF IssueLink, AcceptedAuthority
<1>3. roster' = [roster EXCEPT ![<<q, role>>] = "confirmed"]  BY DEF IssueLink
<1>4. Listed(q) = {} \/ Confirmed(q) = {role}  BY <1>2 DEF RosterAgrees
<1> HIDE DEF role
<1>5. \A p \in People, r \in Roles :
        roster'[<<p, r>>] = IF p = q /\ r = role THEN "confirmed" ELSE roster[<<p, r>>]
  BY <1>1, <1>3 DEF PortalTypeOK
<1>6. Confirmed(q)' = {role}
  <2>1. \A r \in Roles : r # role => roster[<<q, r>>] # "confirmed"
    BY <1>4 DEF Listed, Confirmed
  <2>2. QED  BY <1>1, <1>5, <2>1 DEF Confirmed
<1>7. Listed(q) # {} => Confirmed(q)' = Confirmed(q)  BY <1>4, <1>6
<1>8. ASSUME NEW p \in People, p # q PROVE Confirmed(p)' = Confirmed(p)
  BY <1>5, <1>8 DEF Confirmed
<1>9. QED  BY <1>6, <1>7, <1>8 DEF role

LEMMA NextLinks == PortalInv /\ PortalStep => LinksAgreeWithRoster'
<1> SUFFICES ASSUME PortalInv, PortalStep PROVE LinksAgreeWithRoster'
  OBVIOUS
<1>1. /\ TypeOK /\ PortalTypeOK /\ PointerIsNewestApproval /\ [Next]_vars
      /\ links \in Seq(LinkRow)
  BY PortalLeavesThePlan DEF PortalInv, PortalTypeOK
<1>2. ASSUME NEW i \in 1..Len(links)
      PROVE  links[i].person \in People /\ Backed(links[i].person, links[i].plan)
  <2>1. links[i] \in LinkRow  BY <1>1
  <2>2. QED  BY <2>1, BackedLinks DEF LinkRow, PortalInv
<1>3. ASSUME UNCHANGED links, \A p \in People : Confirmed(p)' = Confirmed(p)
      PROVE  LinksAgreeWithRoster'
  <2>1. ASSUME NEW i \in 1..Len(links)
        PROVE  Backed(links[i].person, links[i].plan)'
    <3>1. ASSUME NEW p \in People, NEW v, p = links[i].person, v = links[i].plan
          PROVE  Backed(p, v)'
      <4>1. Backed(p, v)  BY <1>2, <3>1
      <4>2. QED  BY <4>1, <1>1, <1>3, BackedStays
    <3>2. QED  BY <3>1, <1>2, <1>3 DEF Backed
  <2>2. QED  BY <2>1, <1>3, BackedLinksAfter
<1>4. CASE PlanOnly  BY <1>3, <1>4 DEF PlanOnly, portalVars, Confirmed
<1>5. CASE Listing
  <2>1. UNCHANGED links  BY <1>5 DEF Listing, ListSpeaker
  <2>2. \A p \in People, r \in Roles :
          (roster'[<<p, r>>] = "confirmed") <=> (roster[<<p, r>>] = "confirmed")
    BY <1>1, <1>5, RoleAssumption DEF Listing, ListSpeaker, PortalTypeOK
  <2>3. \A p \in People : Confirmed(p)' = Confirmed(p)  BY <2>2 DEF Confirmed
  <2>4. QED  BY <2>1, <2>3, <1>3
<1>6. CASE Issuing
  <2> PICK q \in People : IssueLink(q)  BY <1>6 DEF Issuing
  <2> DEFINE row == [person |-> q, plan |-> pointer, expires |-> now + LinkTtl]
  <2>1. row.person = q /\ row.plan = pointer /\ row \in LinkRow  BY <1>1, NewLink
  <2>2. links' = Append(links, row)  BY DEF IssueLink
  <2> HIDE DEF row
  <2>3. /\ \A i \in 1..Len(links) : links'[i] = links[i]
        /\ links'[Len(links) + 1] = row
        /\ Len(links') = Len(links) + 1 /\ Len(links) \in Nat
    BY <2>1, <2>2, <1>1
  <2>4. Confirmed(q)' = {RoleUnder(pointer, q)}
    BY <1>1, IssuingConfirms
  <2>5. ASSUME NEW p \in People, NEW v, Backed(p, v)
        PROVE  Confirmed(p)' = Confirmed(p)
    <3>1. CASE p = q
      <4>1. Listed(q) # {}
        BY <2>5, <3>1 DEF Backed, Confirmed, Listed
      <4>2. QED  BY <4>1, <3>1, <1>1, IssuingConfirms
    <3>2. CASE p # q  BY <3>2, <1>1, IssuingConfirms
    <3>3. QED  BY <3>1, <3>2
  <2>6. ASSUME NEW p \in People, NEW v, NEW i \in 1..Len(links),
               p = links[i].person, v = links[i].plan
        PROVE  Backed(p, v)'
    <3>1. Backed(p, v)  BY <1>2, <2>6
    <3>2. QED  BY <3>1, <2>5, <1>1, BackedStays
  <2>7. ASSUME NEW v, v = pointer PROVE Backed(q, v)'
    <3>1. v \in 1..pointer
      BY <1>1, <2>7 DEF IssueLink, AcceptedAuthority, AcceptedSeat, TypeOK
    <3>2. Offered(v, q) /\ answers[<<v, q>>] = "accepted"
      BY <2>7 DEF IssueLink, AcceptedAuthority, AcceptedSeat
    <3>3. /\ v \in 1..pointer' /\ Offered(v, q)' /\ answers'[<<v, q>>] = "accepted"
          /\ plans'[v] = plans[v]
      BY <3>1, <3>2, <1>1, SeatsStay
    <3>4. RoleUnder(v, q)' = RoleUnder(pointer, q)  BY <3>3, <2>7 DEF RoleUnder
    <3>5. QED  BY <3>3, <3>4, <2>4 DEF Backed
  <2>8. ASSUME NEW i \in 1..Len(links')
        PROVE  Backed(links[i].person, links[i].plan)'
    <3>1. CASE i \in 1..Len(links)
      BY <3>1, <2>3, <2>6, <1>2 DEF Backed
    <3>2. CASE i = Len(links) + 1
      BY <3>2, <2>1, <2>3, <2>7 DEF Backed
    <3>3. QED  BY <3>1, <3>2, <2>3
  <2>9. QED  BY <2>8, BackedLinksAfter
<1>7. QED  BY <1>4, <1>5, <1>6, PortalCases DEF PortalInv

LEMMA InvHolds == PortalSpec => []PortalInv
<1>1. PortalInit => PortalInv
  BY InitType, PortalInitType
     DEF PortalInit, Init, PortalInv, PointerIsNewestApproval, LinksAgreeWithRoster
<1>2. PortalInv /\ PortalStep => PortalInv'
  BY PortalLeavesThePlan, NextType, NextPointer, PortalNextType, NextLinks DEF PortalInv
<1>3. QED  BY <1>1, <1>2, PTL DEF PortalSpec, PortalStep

\* Every table keeps its shape, whatever plans, links and listings are made
\* (schema.ts: plan_versions to observations, speaker_portal_tokens).
THEOREM PortalTypeCorrect == PortalSpec => [](TypeOK /\ PortalTypeOK)
BY InvHolds, PTL DEF PortalInv

\* Whoever holds a link is confirmed in the role of the seat he accepted for it
\* and in no other (readCurrentAcceptedCanonicalAssignment).
THEOREM LinksAlwaysAgree == PortalSpec => []LinksAgreeWithRoster
BY InvHolds, PTL DEF PortalInv

(***************************************************************************)
(* Dead links.  A link that comes back to life would have to be issued for *)
(* the plan that is in force afterwards; the pointer only moves up and was *)
(* never below the link's plan, so it did not move, and everything else    *)
(* the link depends on was already so.                                     *)
(***************************************************************************)
LEMMA OutdatedStay == [Next]_vars => outdated \subseteq outdated'
<1> SUFFICES ASSUME [Next]_vars PROVE outdated \subseteq outdated'
  OBVIOUS
<1>1. CASE PlanStep  BY <1>1 DEF PlanStep, ChangeInput, CompilePlan
<1>2. CASE Approval  BY <1>2 DEF Approval, ApprovePlan
<1>3. CASE Beyond  BY <1>3, BeyondPlanning DEF planVars
<1>4. QED  BY <1>1, <1>2, <1>3, StepCases DEF Beyond

LEMMA LinksStay ==
  PortalTypeOK /\ PortalStep => \A i \in 1..Len(links) : links'[i] = links[i]
<1> SUFFICES ASSUME PortalTypeOK, PortalStep, NEW i \in 1..Len(links)
             PROVE  links'[i] = links[i]
  OBVIOUS
<1>1. CASE PlanOnly  BY <1>1 DEF PlanOnly, portalVars
<1>2. CASE Issuing
  <2> PICK q \in People : IssueLink(q)  BY <1>2 DEF Issuing
  <2> DEFINE row == [person |-> q, plan |-> pointer, expires |-> now + LinkTtl]
  <2>1. links' = Append(links, row)  BY DEF IssueLink
  <2> HIDE DEF row
  <2>2. QED  BY <2>1 DEF PortalTypeOK
<1>3. CASE Listing  BY <1>3 DEF Listing, ListSpeaker
<1>4. QED  BY <1>1, <1>2, <1>3, PortalCases

LEMMA NoLinkRevives ==
  ASSUME PortalInv, PortalStep, NEW i \in 1..Len(links), ~Opens(i), Opens(i)'
  PROVE  now' < now
<1> SUFFICES ASSUME ~(now' < now) PROVE FALSE
  OBVIOUS
<1>1. /\ TypeOK /\ TypeOK' /\ PointerIsNewestApproval /\ PointerIsNewestApproval'
      /\ [Next]_vars /\ links \in Seq(LinkRow)
  BY PortalLeavesThePlan, NextType, NextPointer DEF PortalInv, PortalTypeOK
<1>2. links'[i] = links[i] /\ links[i] \in LinkRow
  BY <1>1, LinksStay DEF PortalInv
<1>3. /\ links[i].expires \in Nat /\ now \in Nat /\ now' \in Nat
      /\ pointer \in Nat /\ pointer' \in Nat
  BY <1>1, <1>2, BoundAssumption DEF TypeOK, Times, LinkRow
<1>4. now < links[i].expires  BY <1>2, <1>3 DEF Opens
<1>5. Backed(links[i].person, links[i].plan)  BY BackedLinks DEF PortalInv
<1>6. links[i].plan = pointer' /\ pointer' = pointer
  <2>1. links[i].plan = pointer'  BY <1>2 DEF Opens, SameAuthority
  <2>2. links[i].plan \in 1..pointer  BY <1>5 DEF Backed
  <2>3. pointer <= pointer'  BY <1>1, PointerNeverFalls
  <2>4. QED  BY <2>1, <2>2, <2>3, <1>3
<1>7. pointer \in 1..pointer  BY <1>5, <1>6 DEF Backed
<1>8. pointer \in ReadsApproved
  <2>1. pointer' \notin outdated'
    BY DEF Opens, SameAuthority, AcceptedAuthority, AcceptedSeat, ReadsApproved
  <2>2. QED  BY <2>1, <1>1, <1>6, <1>7, OutdatedStay
             DEF ReadsApproved, PointerIsNewestApproval
<1>9. AcceptedSeat(links[i].person)
  BY <1>3, <1>5, <1>6, <1>7, <1>8 DEF AcceptedSeat, Backed
<1>10. RosterAgrees(links[i].person)  BY <1>5, <1>6 DEF RosterAgrees, Backed
<1>11. QED  BY <1>4, <1>6, <1>9, <1>10 DEF Opens, SameAuthority, AcceptedAuthority

\* A link that has expired or whose plan was replaced never opens again unless
\* the clock is set back (revalidateSpeakerPortalToken).
THEOREM DeadLinksAlwaysStayDead == PortalSpec => DeadLinksStayDead
<1>1. PortalInv /\ PortalStep
        => \A i \in 1..Len(links) : ~Opens(i) /\ Opens(i)' => now' < now
  BY NoLinkRevives
<1>2. QED  BY <1>1, InvHolds, PTL DEF PortalSpec, PortalStep, DeadLinksStayDead

-----------------------------------------------------------------------------
(***************************************************************************)
(* The uploads of speaker artifacts: the inductive invariant               *)
(***************************************************************************)
Begun(u)   == u \in Upload /\ intent[u].status # "NONE"
GivenUp(u) == intent[u].status \in {"ABORTED", "DELETED"}
Recovery   == {"recovering", "found", "missing", "dropping"}
Creation   == {"prepared", "writing", "staged"}

UploadShape ==
  /\ intent = [u \in Upload |-> intent[u]]
  /\ \A u \in Upload :
       /\ intent[u].status \in {"NONE", "PREPARED", "COMMITTED", "ABORTED", "DELETED"}
       /\ intent[u].scope \in Scope /\ intent[u].version \in Nat
  /\ records \subseteq Upload
  /\ file = [u \in Upload |-> file[u]]
  /\ call = [p \in Process |-> call[p]]
  /\ authority \subseteq Scope

\* what a call has in hand
Holds(r) ==
  /\ r.at \in Recovery => \A u \in r.todo : Begun(u)
  /\ r.at \notin {"idle", "recovering"} => Begun(r.upload)
  /\ r.at \in {"found", "staged"} => file[r.upload] = "whole" \/ GivenUp(r.upload)
  /\ r.at = "prepared" => file[r.upload] = "absent"
  /\ r.at = "writing" =>
       \/ file[r.upload] = "partial"
       \/ file[r.upload] = "absent" /\ GivenUp(r.upload)

InHand == \A p \in Process : \A r \in {call[p]} : Holds(r)

\* an upload is written by the call that reserved it
OneWriter ==
  \A p, q \in Process :
    call[p].at \in Creation /\ call[q].at \in Creation /\ call[p].upload = call[q].upload
      => p = q

\* what nobody has reserved has no file
NotBegun == \A u \in Upload : intent[u].status = "NONE" => file[u] = "absent"

\* the rows of a scope are numbered without a gap
Numbered ==
  \A s \in Scope : \A u \in Rows(s) : intent[u].version \in 1..Cardinality(Rows(s))

\* a call that is going to reserve an upload finds one
Used     == {u \in Upload : intent[u].status # "NONE"}
Planners == {p \in Process : call[p].goal = "create" /\ call[p].at \in Recovery}
Budget   == Cardinality(Used) + Cardinality(Planners) <= MaxUpload

UploadInv ==
  /\ UploadShape /\ InHand /\ OneWriter /\ NotBegun /\ Numbered /\ Budget
  /\ CommittedIsServable

(***************************************************************************)
(* The tables                                                              *)
(***************************************************************************)
LEMMA FiniteUploads ==
  /\ \A S : S \subseteq Upload => IsFiniteSet(S) /\ Cardinality(S) \in Nat
  /\ \A S : S \subseteq Process => IsFiniteSet(S) /\ Cardinality(S) \in Nat
<1>1. IsFiniteSet(Upload)
  BY ArtifactAssumption, FS_Interval DEF Upload
<1>2. QED  BY <1>1, ArtifactAssumption, FS_Subset, FS_CardinalityType

\* what may happen to the intents in one step
IntentsMove ==
  /\ intent' = [u \in Upload |-> intent'[u]]
  /\ \A u \in Upload :
       /\ intent'[u].status \in {"NONE", "PREPARED", "COMMITTED", "ABORTED", "DELETED"}
       /\ intent'[u].scope \in Scope /\ intent'[u].version \in Nat
       /\ intent[u].status # "NONE" =>
            /\ intent'[u].status # "NONE"
            /\ intent'[u].scope = intent[u].scope /\ intent'[u].version = intent[u].version
            /\ intent'[u].supersedes = intent[u].supersedes
       /\ GivenUp(u) => intent'[u].status \in {"ABORTED", "DELETED"}

LEMMA NothingMoves == ASSUME UploadShape, UNCHANGED intent PROVE IntentsMove
BY DEF UploadShape, IntentsMove, GivenUp

\* the rows stay where the records do
LEMMA RowsStay ==
  ASSUME UploadShape, Numbered, CommittedIsServable, UNCHANGED records, IntentsMove,
         \A u \in Upload : file[u] = "whole" /\ u \in records => file'[u] = "whole",
         \A u \in Upload : intent'[u].status = "COMMITTED" <=> intent[u].status = "COMMITTED"
  PROVE  Numbered' /\ CommittedIsServable'
<1>1. ASSUME NEW u \in records
      PROVE  /\ u \in Upload
             /\ intent'[u].scope = intent[u].scope /\ intent'[u].version = intent[u].version
             /\ intent'[u].supersedes = intent[u].supersedes
  BY DEF UploadShape, CommittedIsServable, IntentsMove
<1>2. \A s \in Scope : Rows(s)' = Rows(s)
  BY <1>1 DEF Rows
<1>3. Numbered'
  BY <1>1, <1>2 DEF Numbered, Rows
<1>4. \A u \in Upload : u \in records' <=> intent'[u].status = "COMMITTED"
  BY DEF CommittedIsServable
<1>5. \A u \in records' : file'[u] = "whole"
  BY <1>1 DEF CommittedIsServable
<1>6. ASSUME NEW s \in Scope, NEW n \in 1..Cardinality(Rows(s))
      PROVE  \E u \in Rows(s) :
               /\ intent'[u].version = n
               /\ IF n = 1 THEN intent'[u].supersedes = NoUpload
                  ELSE /\ intent'[u].supersedes \in Rows(s)
                       /\ intent'[intent'[u].supersedes].version = n - 1
  <2>1. PICK u \in Rows(s) :
               /\ intent[u].version = n
               /\ IF n = 1 THEN intent[u].supersedes = NoUpload
                  ELSE /\ intent[u].supersedes \in Rows(s)
                       /\ intent[intent[u].supersedes].version = n - 1
    BY <1>6 DEF CommittedIsServable
  <2>2. u \in records /\ Rows(s) \subseteq records
    BY <2>1 DEF Rows
  <2>3. QED  BY <1>1, <2>1, <2>2
<1>7. QED  BY <1>2, <1>3, <1>4, <1>5, <1>6 DEF CommittedIsServable

\* a recordable upload is the next row of its scope
LEMMA RowAdded ==
  ASSUME UploadShape, Numbered, CommittedIsServable, NEW u \in Upload, u \notin records,
         NEW s \in Scope, s = intent[u].scope, Recordable(u), file[u] = "whole", FinalizeIntent(u), UNCHANGED file
  PROVE  IntentsMove /\ Numbered' /\ CommittedIsServable'
<1> DEFINE n == Cardinality(Rows(s))
<1>1. /\ intent[u].status = "PREPARED" /\ intent[u].version \in Nat
      /\ \A w \in Rows(s) : intent[w].version # intent[u].version
      /\ \/ intent[u].version = 1 /\ intent[u].supersedes = NoUpload
         \/ /\ intent[u].supersedes \in Rows(s)
            /\ intent[intent[u].supersedes].version = intent[u].version - 1
  BY DEF Recordable, CommittedIsServable, UploadShape
<1>2. /\ records' = records \union {u} /\ intent' = [intent EXCEPT ![u] = WithStatus(u, "COMMITTED")]
  BY <1>1 DEF FinalizeIntent
<1>3. /\ \A w \in Upload : w # u => intent'[w] = intent[w]
      /\ intent'[u] = WithStatus(u, "COMMITTED")
      /\ intent' = [w \in Upload |-> intent'[w]]
  BY <1>2 DEF UploadShape
<1>4. /\ intent'[u].status = "COMMITTED" /\ intent'[u].scope = s
      /\ intent'[u].version = intent[u].version /\ intent'[u].supersedes = intent[u].supersedes
  BY <1>3 DEF WithStatus, Intent
<1>5. IntentsMove
  BY <1>1, <1>3, <1>4 DEF IntentsMove, UploadShape, GivenUp
<1>6. /\ Rows(s)' = Rows(s) \union {u} /\ u \notin Rows(s) /\ Rows(s) \subseteq Upload
      /\ \A t \in Scope : t # s => Rows(t)' = Rows(t)
  BY <1>2, <1>3, <1>4 DEF Rows, UploadShape
<1>7. n \in Nat /\ Cardinality(Rows(s)') = n + 1
  <2>1. IsFiniteSet(Rows(s)) /\ n \in Nat
    BY <1>6, FiniteUploads
  <2>2. Cardinality(Rows(s) \union {u}) = n + 1
    BY <1>6, <2>1, FS_AddElement
  <2>3. QED  BY <1>6, <2>1, <2>2
<1>8. intent[u].version = n + 1
  <2>1. \A k \in 1..n : \E w \in Rows(s) : intent[w].version = k
    BY <1>1 DEF CommittedIsServable
  <2>2. intent[u].version \notin 1..n
    BY <1>1, <2>1
  <2>3. CASE intent[u].version = 1
    BY <1>7, <2>2, <2>3
  <2>4. CASE /\ intent[u].supersedes \in Rows(s)
             /\ intent[intent[u].supersedes].version = intent[u].version - 1
    <3>1. intent[u].version - 1 \in 1..n
      BY <1>1, <2>4 DEF Numbered
    <3>2. QED  BY <1>1, <1>7, <2>2, <3>1
  <2>5. QED  BY <1>1, <2>3, <2>4
<1>9. \A t \in Scope : \A w \in Rows(t) : intent'[w] = intent[w]
  BY <1>3 DEF Rows, UploadShape
<1>10. Numbered'
  <2>1. ASSUME NEW t \in Scope, NEW w \in Rows(t)'
        PROVE  intent'[w].version \in 1..Cardinality(Rows(t)')
    <3>1. CASE t # s
      BY <1>6, <1>9, <3>1 DEF Numbered
    <3>2. CASE t = s /\ w = u
      BY <1>4, <1>7, <1>8, <3>2
    <3>3. CASE t = s /\ w # u
      <4>1. intent[w].version \in 1..n
        BY <1>6, <3>3 DEF Numbered
      <4>2. intent'[w] = intent[w]
        BY <1>6, <1>9, <3>3
      <4>3. QED  BY <1>7, <3>3, <4>1, <4>2
    <3>4. QED  BY <3>1, <3>2, <3>3
  <2>2. QED  BY <2>1 DEF Numbered
<1>11. \A w \in Upload : w \in records' <=> intent'[w].status = "COMMITTED"
  BY <1>2, <1>3, <1>4 DEF CommittedIsServable
<1>12. \A w \in records' : file'[w] = "whole"
  BY <1>2 DEF CommittedIsServable
<1>13. ASSUME NEW t \in Scope, NEW k \in 1..Cardinality(Rows(t)')
       PROVE  \E w \in Rows(t)' :
                /\ intent'[w].version = k
                /\ IF k = 1 THEN intent'[w].supersedes = NoUpload
                   ELSE /\ intent'[w].supersedes \in Rows(t)'
                        /\ intent'[intent'[w].supersedes].version = k - 1
  <2>1. ASSUME k \in 1..Cardinality(Rows(t))
        PROVE  \E w \in Rows(t) :
                 /\ intent'[w].version = k
                 /\ IF k = 1 THEN intent'[w].supersedes = NoUpload
                    ELSE /\ intent'[w].supersedes \in Rows(t)
                         /\ intent'[intent'[w].supersedes].version = k - 1
    <3>1. PICK w \in Rows(t) :
                 /\ intent[w].version = k
                 /\ IF k = 1 THEN intent[w].supersedes = NoUpload
                    ELSE /\ intent[w].supersedes \in Rows(t)
                         /\ intent[intent[w].supersedes].version = k - 1
      BY <2>1 DEF CommittedIsServable
    <3>2. QED  BY <1>9, <3>1
  <2>2. CASE k \in 1..Cardinality(Rows(t))
    <3>1. Rows(t) \subseteq Rows(t)'
      BY <1>6
    <3>2. QED  BY <2>1, <2>2, <3>1
  <2>3. CASE k \notin 1..Cardinality(Rows(t))
    <3>1. t = s /\ k = n + 1
      <4>1. t = s
        BY <1>6, <2>3
      <4>2. k \in 1..(n + 1) /\ k \notin 1..n
        BY <1>7, <2>3, <4>1
      <4>3. QED  BY <1>7, <4>1, <4>2
    <3>2. u \in Rows(t)' /\ intent'[u].version = k
      BY <1>4, <1>6, <1>8, <3>1
    <3>3. CASE intent[u].version = 1 /\ intent[u].supersedes = NoUpload
      <4>1. k = 1 /\ intent'[u].supersedes = NoUpload
        BY <1>4, <1>7, <1>8, <3>1, <3>3
      <4>2. QED  BY <3>2, <4>1
    <3>4. CASE /\ intent[u].supersedes \in Rows(s)
               /\ intent[intent[u].supersedes].version = intent[u].version - 1
      <4>1. intent[u].version - 1 \in 1..n
        BY <1>1, <3>4 DEF Numbered
      <4>2. /\ intent'[u].supersedes \in Rows(t)' /\ k # 1
            /\ intent'[intent'[u].supersedes].version = k - 1
        BY <1>1, <1>4, <1>6, <1>7, <1>8, <1>9, <3>1, <3>4, <4>1
      <4>3. QED  BY <3>2, <4>2
    <3>5. QED  BY <1>1, <3>3, <3>4
  <2>4. QED  BY <2>2, <2>3
<1>14. QED  BY <1>5, <1>10, <1>11, <1>12, <1>13 DEF CommittedIsServable

(***************************************************************************)
(* The calls                                                               *)
(***************************************************************************)
\* files change under the call that writes them, or go with a given up upload
FilesMove(p) ==
  /\ file' = [u \in Upload |-> file'[u]]
  /\ \A u \in Upload :
       \/ file'[u] = file[u]
       \/ file'[u] = "absent" /\ intent'[u].status \in {"ABORTED", "DELETED"}
       \/ u = call[p].upload /\ call[p].at \in {"prepared", "writing"}

LEMMA NoFileMoves == ASSUME UploadShape, UNCHANGED file, NEW p PROVE FilesMove(p)
BY DEF UploadShape, FilesMove

\* one call goes on; what the others have in hand stays true
LEMMA HandsKeep ==
  ASSUME UploadShape, InHand, OneWriter, NEW p \in Process, NEW r,
         call' = [call EXCEPT ![p] = r], IntentsMove, FilesMove(p), Holds(r)',
         r.at \in Creation =>
           \/ call[p].at \in Creation /\ r.upload = call[p].upload
           \/ \A q \in Process : call[q].at \in Creation => call[q].upload # r.upload
  PROVE  /\ call' = [q \in Process |-> call'[q]]
         /\ InHand' /\ OneWriter'
<1>1. /\ call'[p] = r /\ \A q \in Process : q # p => call'[q] = call[q]
      /\ call' = [q \in Process |-> call'[q]]
  BY DEF UploadShape
<1>2. ASSUME NEW q \in Process, q # p, NEW x, x = call[q], NEW u \in Upload
      PROVE  /\ x.at \in {"found", "staged", "prepared", "writing"} /\ x.upload = u =>
                  \/ file'[u] = file[u]
                  \/ file'[u] = "absent" /\ intent'[u].status \in {"ABORTED", "DELETED"}
                  \/ GivenUp(u) /\ x.at = "found"
  <2>1. CASE u = call[p].upload /\ call[p].at \in {"prepared", "writing"}
    <3>1. file[u] \in {"absent", "partial"}
      BY <2>1 DEF InHand, Holds
    <3>2. x.at = "found" /\ x.upload = u => GivenUp(u)
      BY <1>2, <3>1 DEF InHand, Holds
    <3>3. x.at \in {"staged", "prepared", "writing"} => x.upload # u
      BY <1>2, <2>1 DEF OneWriter, Creation
    <3>4. QED  BY <3>2, <3>3
  <2>2. QED  BY <2>1 DEF FilesMove
<1>3. ASSUME NEW q \in Process, q # p, NEW x, x = call[q]
      PROVE  Holds(x)'
  <2>1. Holds(x)
    BY <1>3 DEF InHand
  <2>2. \A u \in Upload : /\ Begun(u) => Begun(u)'
                          /\ GivenUp(u) => GivenUp(u)'
    BY DEF IntentsMove, Begun, GivenUp
  <2>3. x.at \in Recovery => \A u \in x.todo : Begun(u)'
    BY <2>1, <2>2 DEF Holds, Begun
  <2>4. x.at \notin {"idle", "recovering"} => Begun(x.upload)' /\ x.upload \in Upload
    BY <2>1, <2>2 DEF Holds, Begun
  <2>5. x.at \in {"found", "staged"} => file'[x.upload] = "whole" \/ GivenUp(x.upload)'
    BY <1>2, <1>3, <2>1, <2>2, <2>4 DEF Holds, GivenUp
  <2>6. x.at = "prepared" => file'[x.upload] = "absent"
    BY <1>2, <1>3, <2>1, <2>4 DEF Holds
  <2>7. x.at = "writing" => \/ file'[x.upload] = "partial"
                            \/ file'[x.upload] = "absent" /\ GivenUp(x.upload)'
    BY <1>2, <1>3, <2>1, <2>2, <2>4 DEF Holds, GivenUp
  <2>8. QED  BY <2>3, <2>4, <2>5, <2>6, <2>7 DEF Holds
<1>4. InHand'
  BY <1>1, <1>3 DEF InHand
<1>5. OneWriter'
  BY <1>1 DEF OneWriter
<1>6. QED  BY <1>1, <1>4, <1>5

LEMMA BudgetKeeps ==
  ASSUME UploadShape, Budget, Used' = Used, Planners' \subseteq Planners
  PROVE  Budget'
<1>1. IsFiniteSet(Planners)
  BY FiniteUploads DEF Planners
<1>2. /\ Cardinality(Planners') <= Cardinality(Planners)
  BY <1>1, FS_Subset
<1>3. /\ Cardinality(Planners) \in Nat /\ Cardinality(Planners') \in Nat
      /\ Cardinality(Used) \in Nat
  BY FiniteUploads DEF Planners, Used
<1> DEFINE x == Cardinality(Planners)
           y == Cardinality(Planners')
           z == Cardinality(Used)
<1>4. /\ x \in Nat /\ y \in Nat /\ z \in Nat /\ y <= x /\ z + x <= MaxUpload
      /\ Cardinality(Used') = z
  BY <1>2, <1>3 DEF Budget
<1> HIDE DEF x, y, z
<1>5. z + y <= MaxUpload
  BY <1>4, ArtifactAssumption
<1>6. QED  BY <1>4, <1>5 DEF Budget, y

\* a step of a call that reserves nothing
LEMMA CallGoesOn ==
  ASSUME UploadInv, NEW p \in Process, NEW r, call' = [call EXCEPT ![p] = r],
         IntentsMove, FilesMove(p), Holds(r)', records' \subseteq Upload, authority' \subseteq Scope,
         Numbered', CommittedIsServable',
         r.goal = "create" /\ r.at \in Recovery =>
           call[p].goal = "create" /\ call[p].at \in Recovery,
         r.at \in Creation => call[p].at \in Creation /\ r.upload = call[p].upload,
         \A u \in Upload : intent'[u].status = "NONE" <=> intent[u].status = "NONE"
  PROVE  UploadInv'
<1> USE DEF UploadInv
<1>1. call' = [q \in Process |-> call'[q]] /\ InHand' /\ OneWriter'
  BY HandsKeep
<1>2. UploadShape'
  BY <1>1 DEF UploadShape, IntentsMove, FilesMove
<1>3. call'[p] = r /\ \A q \in Process : q # p => call'[q] = call[q]
  BY DEF UploadShape
<1>4. Used' = Used
  BY DEF Used
<1>5. Planners' \subseteq Planners
  BY <1>3 DEF Planners
<1>6. Budget'
  BY <1>4, <1>5, BudgetKeeps
<1>7. NotBegun'
  <2>1. ASSUME NEW u \in Upload, intent[u].status = "NONE" PROVE file'[u] = file[u]
    <3>1. intent'[u].status = "NONE"
      BY <2>1
    <3>2. ~(u = call[p].upload /\ call[p].at \in {"prepared", "writing"})
      BY <2>1 DEF InHand, Holds, Begun
    <3>3. QED  BY <3>1, <3>2 DEF FilesMove
  <2>2. QED  BY <2>1 DEF NotBegun
<1>8. QED  BY <1>1, <1>2, <1>6, <1>7

\* such a step of a call that leaves tables and files alone
LEMMA CallLooks ==
  ASSUME UploadInv, NEW p \in Process, NEW r, call' = [call EXCEPT ![p] = r],
         UNCHANGED <<intent, records, file>>, authority' \subseteq Scope, Holds(r),
         r.goal = "create" /\ r.at \in Recovery =>
           call[p].goal = "create" /\ call[p].at \in Recovery,
         r.at \in Creation => call[p].at \in Creation /\ r.upload = call[p].upload
  PROVE  UploadInv'
<1>1. UploadShape /\ Numbered /\ CommittedIsServable
  BY DEF UploadInv
<1>2. IntentsMove /\ FilesMove(p)
  BY <1>1, NothingMoves, NoFileMoves
<1>3. Numbered' /\ CommittedIsServable' /\ records' \subseteq Upload
  BY <1>1, <1>2, RowsStay DEF UploadShape
<1>4. Holds(r)'
  BY DEF Holds, Begun, GivenUp
<1>5. \A u \in Upload : intent'[u].status = "NONE" <=> intent[u].status = "NONE"
  OBVIOUS
<1>6. QED  BY <1>2, <1>3, <1>4, <1>5, CallGoesOn

LEMMA CallReturns ==
  ASSUME UploadInv, NEW p \in Process, Return(p), UNCHANGED <<intent, records, file>>,
         authority' \subseteq Scope
  PROVE  UploadInv'
<1>1. Idle.at = "idle" /\ call' = [call EXCEPT ![p] = Idle]
  BY DEF Idle, Call, Return
<1>2. Holds(Idle)
  BY <1>1 DEF Holds, Recovery
<1>3. QED  BY <1>1, <1>2, CallLooks DEF Recovery, Creation

\* aborting an upload that is still prepared
LEMMA Aborts ==
  ASSUME UploadShape, Numbered, CommittedIsServable, NEW u \in Upload, AbortIntent(u),
         UNCHANGED <<records, file>>
  PROVE  /\ IntentsMove /\ Numbered' /\ CommittedIsServable'
         /\ \A w \in Upload : intent'[w].status = "NONE" <=> intent[w].status = "NONE"
<1> DEFINE a == IF intent[u].status = "PREPARED" THEN WithStatus(u, "ABORTED") ELSE intent[u]
<1>1. intent' = [intent EXCEPT ![u] = a]
  BY DEF AbortIntent
<1>2. /\ a.scope = intent[u].scope /\ a.version = intent[u].version
      /\ a.supersedes = intent[u].supersedes
      /\ a.status = IF intent[u].status = "PREPARED" THEN "ABORTED" ELSE intent[u].status
  BY DEF WithStatus, Intent
<1> HIDE DEF a
<1>3. /\ intent'[u] = a /\ \A w \in Upload : w # u => intent'[w] = intent[w]
      /\ intent' = [w \in Upload |-> intent'[w]]
  BY <1>1 DEF UploadShape
<1>4. IntentsMove
  BY <1>2, <1>3 DEF UploadShape, IntentsMove, GivenUp
<1>5. \A w \in Upload : /\ intent'[w].status = "NONE" <=> intent[w].status = "NONE"
                        /\ intent'[w].status = "COMMITTED" <=> intent[w].status = "COMMITTED"
  BY <1>2, <1>3
<1>6. QED  BY <1>4, <1>5, RowsStay

\* recording an upload, for the first time or again
LEMMA Records ==
  ASSUME UploadShape, Numbered, CommittedIsServable, NEW u \in Upload, Recordable(u),
         u \in records \/ file[u] = "whole" \/ GivenUp(u), FinalizeIntent(u), UNCHANGED file
  PROVE  /\ IntentsMove /\ Numbered' /\ CommittedIsServable' /\ records' \subseteq Upload
         /\ \A w \in Upload : intent'[w].status = "NONE" <=> intent[w].status = "NONE"
<1>0. records' \subseteq Upload
  BY DEF FinalizeIntent, UploadShape
<1>1. CASE u \in records
  <2>1. records' = records /\ intent[u].status = "COMMITTED"
    BY <1>1 DEF FinalizeIntent, CommittedIsServable
  <2>2. intent' = intent
    BY <2>1 DEF FinalizeIntent, UploadShape
  <2>3. QED  BY <1>0, <2>1, <2>2, NothingMoves, RowsStay
<1>2. CASE u \notin records
  <2>1. file[u] = "whole" /\ intent[u].status = "PREPARED" /\ intent[u].scope \in Scope
    BY <1>2 DEF Recordable, GivenUp, CommittedIsServable, UploadShape
  <2>2. IntentsMove /\ Numbered' /\ CommittedIsServable'
    BY <1>2, <2>1, RowAdded
  <2>3. \A w \in Upload : w # u => intent'[w] = intent[w]
    BY <2>1 DEF FinalizeIntent, UploadShape
  <2>4. intent'[u].status # "NONE"
    BY <2>1, <2>2 DEF IntentsMove
  <2>5. QED  BY <1>0, <2>1, <2>2, <2>3, <2>4
<1>3. QED  BY <1>1, <1>2

\* discarding the bytes of an upload that was given up
LEMMA Discards ==
  ASSUME UploadInv, NEW p \in Process, NEW q \in Process, NEW u \in Upload,
         \/ MayDiscard(u) /\ Discard(p, u)
         \/ UNCHANGED file,
         UNCHANGED tables
  PROVE  /\ IntentsMove /\ FilesMove(q) /\ Numbered' /\ CommittedIsServable'
         /\ \A w \in Upload : Begun(w) => Begun(w)'
<1>1. UploadShape /\ Numbered /\ CommittedIsServable /\ IntentsMove
  BY NothingMoves DEF UploadInv, tables
<1>2. FilesMove(q) /\ \A w \in Upload : w \in records => file'[w] = file[w]
  <2>1. CASE UNCHANGED file
    BY <1>1, <2>1, NoFileMoves
  <2>2. CASE MayDiscard(u) /\ Discard(p, u)
    <3>1. file' = [file EXCEPT ![u] = "absent"] /\ u \notin records
          /\ intent'[u].status = "ABORTED"
      BY <2>2 DEF MayDiscard, Discard, tables
    <3>2. /\ file'[u] = "absent" /\ \A w \in Upload : w # u => file'[w] = file[w]
          /\ file' = [w \in Upload |-> file'[w]]
      BY <1>1, <3>1 DEF UploadShape
    <3>3. QED  BY <3>1, <3>2 DEF FilesMove
  <2>3. QED  BY <2>1, <2>2
<1>3. Numbered' /\ CommittedIsServable'
  BY <1>1, <1>2, RowsStay DEF tables
<1>4. QED  BY <1>1, <1>2, <1>3 DEF Begun, tables

\* a call opens within the budget
LEMMA UploadOpens == ASSUME UploadInv, NEW p \in Process, Open(p) PROVE UploadInv'
<1>1. PICK goal \in {"create", "view"}, s \in Scope :
        /\ goal = "create" =>
             Cardinality(Used) + Cardinality({q \in Process : call[q].goal = "create"}) < MaxUpload
        /\ call' = [call EXCEPT ![p] = Call("recovering", goal, s, Prepared, NoUpload, FALSE)]
  BY DEF Open, Used
<1>2. /\ call[p].at = "idle" /\ UNCHANGED <<intent, records, file, authority>>
      /\ authority \subseteq Scope
  BY DEF Open, tables, world, UploadInv, UploadShape
<1>0. PICK r : r = Call("recovering", goal, s, Prepared, NoUpload, FALSE)
  OBVIOUS
<1>3. r.at = "recovering" /\ r.goal = goal /\ r.todo = Prepared
  BY <1>0 DEF Call
<1>4. Holds(r)
  BY <1>3 DEF Holds, Begun, Prepared
<1>5. CASE goal = "view"
  BY <1>0, <1>1, <1>2, <1>3, <1>4, <1>5, CallLooks DEF Creation
<1>6. CASE goal = "create"
  <2>1. UploadShape /\ Numbered /\ CommittedIsServable /\ InHand /\ OneWriter /\ NotBegun /\ Budget
    BY DEF UploadInv
  <2>2. IntentsMove /\ FilesMove(p) /\ Holds(r)'
    BY <1>2, <1>4, <2>1, NothingMoves, NoFileMoves DEF Holds, Begun, GivenUp
  <2>3. call' = [q \in Process |-> call'[q]] /\ InHand' /\ OneWriter'
    BY <1>0, <1>1, <1>3, <2>1, <2>2, HandsKeep DEF Creation
  <2>4. Numbered' /\ CommittedIsServable'
    BY <1>2, <2>1, <2>2, RowsStay
  <2>5. UploadShape' /\ NotBegun'
    BY <1>2, <2>1, <2>3 DEF UploadShape, NotBegun
  <2>6. Planners' \subseteq Planners \union {p} /\ Planners \subseteq {q \in Process : call[q].goal = "create"}
    BY <1>1, <2>1 DEF Planners, UploadShape
  <2> DEFINE x == Cardinality(Used)
             y == Cardinality(Planners)
             z == Cardinality({q \in Process : call[q].goal = "create"})
             w == Cardinality(Planners')
  <2>7. x \in Nat /\ y \in Nat /\ z \in Nat /\ w \in Nat
    BY FiniteUploads DEF Used, Planners
  <2>8. y <= z
    BY <2>6, FiniteUploads, FS_Subset
  <2>9. w <= y + 1
    <3>1. IsFiniteSet(Planners) /\ Planners \subseteq Process
      BY FiniteUploads DEF Planners
    <3>2. /\ IsFiniteSet(Planners \union {p})
          /\ Cardinality(Planners \union {p}) = IF p \in Planners THEN y ELSE y + 1
      BY <3>1, FS_AddElement
    <3>3. w <= Cardinality(Planners \union {p})
      BY <2>6, <3>2, FS_Subset
    <3> HIDE DEF y, w
    <3>4. QED  BY <2>7, <3>2, <3>3
  <2>10. x + z < MaxUpload /\ Used' = Used
    BY <1>1, <1>2, <1>6 DEF Used
  <2> HIDE DEF x, y, z, w
  <2>11. x + w <= MaxUpload
    BY <2>7, <2>8, <2>9, <2>10, ArtifactAssumption
  <2>12. Budget'
    BY <2>10, <2>11 DEF Budget, x, w
  <2>13. QED  BY <2>1, <2>3, <2>4, <2>5, <2>12 DEF UploadInv
<1>7. QED  BY <1>5, <1>6

\* a call reserves an upload that nobody has in hand
LEMMA Prepares == ASSUME UploadInv, NEW p \in Process, Prepare(p) PROVE UploadInv'
<1>1. /\ call[p].at = "recovering" /\ call[p].goal = "create"
      /\ records' = records /\ file' = file /\ authority' = authority
      /\ authority \subseteq Scope
      /\ \/ \E s \in {call[p].scope} :
              /\ s \in authority /\ SameVersion(s, "PREPARED") = {}
              /\ intent' = [u \in Upload |->
                   IF u \in SameVersion(s, "ABORTED") THEN WithStatus(u, "DELETED")
                   ELSE IF u = NextUpload
                        THEN Intent("PREPARED", s, Cardinality(Rows(s)) + 1, Last(s))
                        ELSE intent[u]]
              /\ call' = [call EXCEPT ![p] = Call("prepared", "create", s, {}, NextUpload, FALSE)]
         \/ Return(p) /\ intent' = intent
  BY DEF Prepare, tables, world, UploadInv, UploadShape
<1>2. CASE Return(p) /\ intent' = intent
  BY <1>1, <1>2, CallReturns
<1>3. ASSUME NEW s \in {call[p].scope}, s \in Scope,
             intent' = [u \in Upload |->
                   IF u \in SameVersion(s, "ABORTED") THEN WithStatus(u, "DELETED")
                   ELSE IF u = NextUpload
                        THEN Intent("PREPARED", s, Cardinality(Rows(s)) + 1, Last(s))
                        ELSE intent[u]],
             call' = [call EXCEPT ![p] = Call("prepared", "create", s, {}, NextUpload, FALSE)]
      PROVE  UploadInv'
  <2>1. UploadShape /\ Numbered /\ CommittedIsServable /\ InHand /\ OneWriter /\ NotBegun /\ Budget
    BY DEF UploadInv
  <2> DEFINE x == Cardinality(Used)
             y == Cardinality(Planners)
  <2>0. PICK new : new = NextUpload
    OBVIOUS
  <2>20. PICK r : r = Call("prepared", "create", s, {}, new, FALSE)
    OBVIOUS
  <2>2. /\ x \in Nat /\ y \in Nat /\ IsFiniteSet(Used) /\ IsFiniteSet(Planners)
        /\ p \in Planners /\ Cardinality(Planners \ {p}) = y - 1
    <3>1. IsFiniteSet(Used) /\ IsFiniteSet(Planners) /\ x \in Nat /\ y \in Nat
      BY FiniteUploads DEF Used, Planners
    <3>2. p \in Planners
      BY <1>1 DEF Planners, Recovery
    <3>3. QED  BY <3>1, <3>2, FS_RemoveElement
  <2>3. y >= 1
    <3>1. Cardinality(Planners \ {p}) \in Nat
      BY FiniteUploads DEF Planners
    <3> HIDE DEF y
    <3>2. QED  BY <2>2, <3>1
  <2>4. new \in Upload /\ intent[new].status = "NONE"
    <3>1. x < MaxUpload
      <4> HIDE DEF x, y
      <4>1. x + y <= MaxUpload
        BY <2>1 DEF Budget, x, y
      <4>2. QED  BY <2>2, <2>3, <4>1, ArtifactAssumption
    <3>2. Cardinality(Upload) = MaxUpload
      BY ArtifactAssumption, FS_Interval DEF Upload
    <3>3. Used # Upload
      BY <3>1, <3>2, ArtifactAssumption
    <3>4. \E u \in Upload : intent[u].status = "NONE"
      BY <3>3 DEF Used
    <3>5. QED  BY <2>0, <3>4 DEF NextUpload
  <2>5. Cardinality(Rows(s)) \in Nat
    BY <2>1, FiniteUploads DEF Rows, UploadShape
  <2>6. r.at = "prepared" /\ r.goal = "create" /\ r.upload = new
    BY <2>20 DEF Call
  <2>7. /\ \A u \in Upload : u # new /\ u \notin SameVersion(s, "ABORTED") => intent'[u] = intent[u]
        /\ \A u \in SameVersion(s, "ABORTED") :
             /\ intent[u].status = "ABORTED" /\ intent'[u] = WithStatus(u, "DELETED")
        /\ intent'[new] = Intent("PREPARED", s, Cardinality(Rows(s)) + 1, Last(s))
        /\ intent' = [u \in Upload |-> intent'[u]]
    BY <1>3, <2>0, <2>4 DEF SameVersion
  <2>8. /\ intent'[new].status = "PREPARED" /\ intent'[new].scope = s
        /\ intent'[new].version = Cardinality(Rows(s)) + 1
    BY <2>7 DEF Intent
  <2>9. \A u \in SameVersion(s, "ABORTED") :
          /\ u \in Upload /\ intent'[u].status = "DELETED"
          /\ intent'[u].scope = intent[u].scope /\ intent'[u].version = intent[u].version
          /\ intent'[u].supersedes = intent[u].supersedes
    BY <2>7 DEF WithStatus, Intent, SameVersion
  <2>10. IntentsMove
    <3>1. ASSUME NEW u \in Upload
          PROVE  /\ intent'[u].status \in {"NONE", "PREPARED", "COMMITTED", "ABORTED", "DELETED"}
                 /\ intent'[u].scope \in Scope /\ intent'[u].version \in Nat
                 /\ intent[u].status # "NONE" =>
                      /\ intent'[u].status # "NONE"
                      /\ intent'[u].scope = intent[u].scope
                      /\ intent'[u].version = intent[u].version
                      /\ intent'[u].supersedes = intent[u].supersedes
                 /\ GivenUp(u) => intent'[u].status \in {"ABORTED", "DELETED"}
      <4>1. CASE u = new
        BY <1>3, <2>4, <2>5, <2>8, <4>1 DEF GivenUp
      <4>2. CASE u \in SameVersion(s, "ABORTED")
        BY <2>1, <2>7, <2>9, <4>2 DEF GivenUp, UploadShape
      <4>3. CASE u # new /\ u \notin SameVersion(s, "ABORTED")
        BY <2>1, <2>7, <4>3 DEF GivenUp, UploadShape
      <4>4. QED  BY <4>1, <4>2, <4>3
    <3>2. QED  BY <2>7, <3>1 DEF IntentsMove
  <2>11. \A u \in Upload :
           /\ intent'[u].status = "COMMITTED" <=> intent[u].status = "COMMITTED"
           /\ intent'[u].status = "NONE" <=> intent[u].status = "NONE" /\ u # new
    BY <2>4, <2>7, <2>8, <2>9
  <2>12. Numbered' /\ CommittedIsServable'
    BY <1>1, <2>1, <2>10, <2>11, RowsStay
  <2>13. FilesMove(p) /\ file[new] = "absent"
    BY <1>1, <2>1, <2>4, NoFileMoves DEF NotBegun
  <2>14. Holds(r)'
    BY <1>1, <2>4, <2>6, <2>8, <2>13 DEF Holds, Begun, Recovery
  <2>15. \A q \in Process : call[q].at \in Creation => call[q].upload # new
    BY <2>1, <2>4 DEF InHand, Holds, Begun, Creation
  <2>16. call' = [q \in Process |-> call'[q]] /\ InHand' /\ OneWriter'
    BY <1>3, <2>1, <2>6, <2>10, <2>13, <2>14, <2>15, <2>0, <2>20, HandsKeep
  <2>17. UploadShape' /\ NotBegun'
    BY <1>1, <2>1, <2>10, <2>11, <2>16 DEF UploadShape, NotBegun, IntentsMove
  <2>18. Budget'
    <3>1. Used' = Used \union {new} /\ new \notin Used
      BY <2>4, <2>11 DEF Used
    <3>2. call'[p] = r /\ \A q \in Process : q # p => call'[q] = call[q]
      BY <1>3, <2>0, <2>20, <2>1 DEF UploadShape
    <3>3. Planners' \subseteq Planners \ {p}
      BY <2>6, <3>2 DEF Planners, Recovery
    <3> DEFINE w == Cardinality(Planners')
               v == Cardinality(Used')
    <3>4. w <= y - 1 /\ w \in Nat
      <4>1. IsFiniteSet(Planners \ {p})
        BY FiniteUploads DEF Planners
      <4>2. Cardinality(Planners') <= Cardinality(Planners \ {p}) /\ Cardinality(Planners') \in Nat
        BY <3>3, <4>1, FS_Subset, FS_CardinalityType
      <4>3. QED  BY <2>2, <4>2
    <3>5. v = x + 1
      BY <2>2, <3>1, FS_AddElement
    <3> HIDE DEF x, y, w, v
    <3>6. x + y <= MaxUpload
      BY <2>1 DEF Budget, x, y
    <3>7. v + w <= MaxUpload
      BY <2>2, <3>4, <3>5, <3>6, ArtifactAssumption
    <3>8. QED  BY <3>7 DEF Budget, v, w
  <2>19. QED  BY <2>12, <2>16, <2>17, <2>18 DEF UploadInv
<1>4. QED  BY <1>1, <1>2, <1>3

LEMMA UploadsInit == UploadInit => UploadInv
<1> SUFFICES ASSUME UploadInit PROVE UploadInv
  OBVIOUS
<1>1. SomeScope \in Scope
  BY ArtifactAssumption DEF SomeScope
<1>2. NoIntent.status = "NONE" /\ NoIntent.scope \in Scope /\ NoIntent.version = 0
  BY <1>1 DEF NoIntent, Intent
<1>3. Idle.at = "idle"
  BY DEF Idle, Call
<1>4. UploadShape
  BY <1>2 DEF UploadInit, UploadShape
<1>5. InHand /\ OneWriter /\ NotBegun
  BY <1>3 DEF UploadInit, InHand, Holds, Recovery, OneWriter, Creation, NotBegun
<1>6. \A s \in Scope : Rows(s) = {}
  BY DEF UploadInit, Rows
<1>7. Numbered /\ CommittedIsServable
  <2>1. \A s \in Scope : Cardinality(Rows(s)) = 0
    BY <1>6, FS_EmptySet
  <2>2. \A u \in Upload : intent[u].status = "NONE"
    BY <1>2 DEF UploadInit
  <2>3. QED  BY <1>6, <2>1, <2>2 DEF UploadInit, Numbered, CommittedIsServable
<1>8. Budget
  <2>1. Used = {} /\ Planners = {}
    BY <1>2, <1>3 DEF UploadInit, Used, Planners, Recovery
  <2>2. QED  BY <2>1, FS_EmptySet, ArtifactAssumption DEF Budget
<1>9. QED  BY <1>4, <1>5, <1>7, <1>8 DEF UploadInv

\* what writing the file does to a call and to its bytes
Staging(p, c, r, bytes) ==
  /\ call' = [call EXCEPT ![p] = r] /\ file' = [file EXCEPT ![c.upload] = bytes]
  /\ r.upload = c.upload
  /\ \/ c.at = "prepared" /\ r.at = "writing" /\ bytes = "partial"
     \/ /\ c.at = "writing" /\ r.at = "staged"
        /\ bytes = IF file[c.upload] = "absent" THEN "absent" ELSE "whole"
     \/ c.at = "writing" /\ r.at = "failing" /\ bytes = "absent"

LEMMA StepKeeps == ASSUME UploadInv, NEW p \in Process, Step(p) PROVE UploadInv'
<1> USE DEF tables, world
<1>1. /\ UploadShape /\ Numbered /\ CommittedIsServable /\ Holds(call[p])
      /\ authority \subseteq Scope
  BY DEF UploadInv, InHand, UploadShape
<1>2. PICK c : c = call[p]
  OBVIOUS
<1>3. Holds(c)
  BY <1>1, <1>2
<1>4. CASE Inspect(p)
  <2>1. PICK u \in c.todo :
          call' = [call EXCEPT ![p] =
            Call(IF Hydratable(index[p][intent[u].scope], u) /\ Readable(u) THEN "found" ELSE "missing",
                 c.goal, c.scope, c.todo, u, TRUE)]
    BY <1>2, <1>4 DEF Inspect
  <2>2. /\ c.at = "recovering" /\ UNCHANGED <<intent, records, file, authority>>
    BY <1>2, <1>4 DEF Inspect
  <2>3. PICK r : r = Call(IF Hydratable(index[p][intent[u].scope], u) /\ Readable(u)
                          THEN "found" ELSE "missing", c.goal, c.scope, c.todo, u, TRUE)
    OBVIOUS
  <2>4. /\ r.at \in {"found", "missing"} /\ r.goal = c.goal /\ r.todo = c.todo /\ r.upload = u
        /\ r.at = "found" => file[u] = "whole"
    BY <2>3 DEF Call, Readable
  <2>5. Holds(r)
    BY <1>3, <2>2, <2>4 DEF Holds, Recovery
  <2>6. QED  BY <1>1, <1>2, <2>1, <2>2, <2>3, <2>4, <2>5, CallLooks DEF Recovery, Creation
<1>5. CASE RecoverFound(p)
  <2>1. CASE Return(p) /\ UNCHANGED tables
    BY <1>1, <1>5, <2>1, CallReturns DEF RecoverFound
  <2>2. CASE ~(Return(p) /\ UNCHANGED tables)
    <3>1. /\ c.at = "found" /\ Recordable(c.upload) /\ FinalizeIntent(c.upload)
          /\ call' = [call EXCEPT ![p] =
               Call("recovering", c.goal, c.scope, c.todo \ {c.upload}, NoUpload, FALSE)]
          /\ UNCHANGED <<file, authority>>
      BY <1>2, <1>5, <2>2 DEF RecoverFound
    <3>2. PICK r : r = Call("recovering", c.goal, c.scope, c.todo \ {c.upload}, NoUpload, FALSE)
      OBVIOUS
    <3>3. r.at = "recovering" /\ r.goal = c.goal /\ r.todo = c.todo \ {c.upload}
      BY <3>2 DEF Call
    <3>4. /\ c.upload \in Upload /\ (file[c.upload] = "whole" \/ GivenUp(c.upload))
          /\ \A u \in c.todo : Begun(u)
      BY <1>3, <3>1 DEF Holds, Begun, Recovery
    <3>5. /\ IntentsMove /\ Numbered' /\ CommittedIsServable' /\ records' \subseteq Upload
          /\ \A w \in Upload : intent'[w].status = "NONE" <=> intent[w].status = "NONE"
      BY <1>1, <3>1, <3>4, Records
    <3>6. Holds(r)'
      BY <3>3, <3>4, <3>5 DEF Holds, Begun
    <3>7. FilesMove(p)
      BY <1>1, <3>1, NoFileMoves
    <3>8. QED  BY <1>1, <1>2, <3>1, <3>2, <3>3, <3>5, <3>6, <3>7, CallGoesOn DEF Recovery, Creation
  <2>3. QED  BY <2>1, <2>2
<1>6. CASE RecoverMissing(p) \/ AbortFailed(p)
  <2>1. PICK at \in {"dropping", "undoing"} :
          /\ c.at \in {"missing", "failing"} /\ (at = "dropping" => c.at = "missing")
          /\ AbortIntent(c.upload) /\ Goto(p, at) /\ UNCHANGED <<records, file, authority>>
    BY <1>2, <1>6 DEF RecoverMissing, AbortFailed
  <2>2. PICK r : r = Call(at, c.goal, c.scope, c.todo, c.upload, c.staged)
    OBVIOUS
  <2>3. r.at = at /\ r.goal = c.goal /\ r.todo = c.todo /\ r.upload = c.upload
    BY <2>2 DEF Call
  <2>4. call' = [call EXCEPT ![p] = r]
    BY <1>2, <2>1, <2>2 DEF Goto
  <2>5. c.upload \in Upload /\ Begun(c.upload) /\ (c.at = "missing" => \A u \in c.todo : Begun(u))
    BY <1>3, <2>1 DEF Holds, Begun, Recovery
  <2>6. /\ IntentsMove /\ Numbered' /\ CommittedIsServable'
        /\ \A w \in Upload : intent'[w].status = "NONE" <=> intent[w].status = "NONE"
    BY <1>1, <2>1, <2>5, Aborts
  <2>7. Holds(r)'
    BY <2>1, <2>3, <2>5, <2>6 DEF Holds, Begun, Recovery
  <2>8. FilesMove(p) /\ records' \subseteq Upload /\ authority' \subseteq Scope
    BY <1>1, <2>1, NoFileMoves DEF UploadShape
  <2>9. QED  BY <1>2, <2>1, <2>3, <2>4, <2>6, <2>7, <2>8, CallGoesOn DEF Recovery, Creation
<1>7. CASE RecoverDrop(p) \/ Undo(p)
  <2>1. /\ c.at \in {"dropping", "undoing"} /\ UNCHANGED <<intent, records, authority>>
        /\ \/ MayDiscard(c.upload) /\ Discard(p, c.upload)
           \/ UNCHANGED file
        /\ \/ /\ c.at = "dropping"
              /\ call' = [call EXCEPT ![p] =
                   Call("recovering", c.goal, c.scope, c.todo \ {c.upload}, NoUpload, FALSE)]
           \/ call' = [call EXCEPT ![p] = Idle]
    BY <1>2, <1>7 DEF RecoverDrop, Undo, Return
  <2>2. PICK r : /\ call' = [call EXCEPT ![p] = r]
                 /\ \/ /\ c.at = "dropping"
                       /\ r = Call("recovering", c.goal, c.scope, c.todo \ {c.upload}, NoUpload, FALSE)
                    \/ r = Idle
    BY <2>1
  <2>3. \/ r.at = "recovering" /\ r.goal = c.goal /\ r.todo = c.todo \ {c.upload} /\ c.at = "dropping"
        \/ r.at = "idle"
    BY <2>2 DEF Call, Idle
  <2>4. c.upload \in Upload /\ (c.at = "dropping" => \A u \in c.todo : Begun(u))
    BY <1>3, <2>1 DEF Holds, Begun, Recovery
  <2>5. /\ IntentsMove /\ FilesMove(p) /\ Numbered' /\ CommittedIsServable'
        /\ \A w \in Upload : Begun(w) => Begun(w)'
    BY <2>1, <2>4, Discards
  <2>6. Holds(r)'
    BY <2>3, <2>4, <2>5 DEF Holds, Begun, Recovery
  <2>7. /\ records' \subseteq Upload /\ authority' \subseteq Scope
        /\ \A u \in Upload : intent'[u].status = "NONE" <=> intent[u].status = "NONE"
    BY <1>1, <2>1 DEF UploadShape
  <2>8. QED  BY <1>2, <2>2, <2>3, <2>5, <2>6, <2>7, CallGoesOn DEF Recovery, Creation
<1>8. CASE View(p)
  BY <1>1, <1>8, CallReturns DEF View
<1>9. CASE Prepare(p)
  BY <1>9, Prepares
<1>10. CASE StageOpens(p) \/ StageEnds(p)
  <2>1. PICK r, bytes : Staging(p, c, r, bytes)
    <3>1. CASE StageOpens(p)
      <4> DEFINE r == Call("writing", c.goal, c.scope, c.todo, c.upload, c.staged)
      <4>1. r.at = "writing" /\ r.upload = c.upload
        BY DEF Call
      <4>2. /\ c.at = "prepared" /\ call' = [call EXCEPT ![p] = r]
            /\ file' = [file EXCEPT ![c.upload] = "partial"]
        BY <1>2, <3>1 DEF StageOpens, Goto
      <4> HIDE DEF r
      <4>3. Staging(p, c, r, "partial")
        BY <4>1, <4>2 DEF Staging
      <4>4. QED  BY <4>3
    <3>2. CASE StageEnds(p)
      <4> DEFINE done == Call("staged", "create", c.scope, {}, c.upload, TRUE)
                 lost == Call("failing", c.goal, c.scope, c.todo, c.upload, c.staged)
                 bytes == IF file[c.upload] = "absent" THEN "absent" ELSE "whole"
      <4>1. /\ done.at = "staged" /\ done.upload = c.upload
            /\ lost.at = "failing" /\ lost.upload = c.upload
        BY DEF Call
      <4>2. /\ c.at = "writing"
            /\ \/ call' = [call EXCEPT ![p] = done] /\ file' = [file EXCEPT ![c.upload] = bytes]
               \/ call' = [call EXCEPT ![p] = lost] /\ file' = [file EXCEPT ![c.upload] = "absent"]
        BY <1>2, <3>2 DEF StageEnds, Goto
      <4> HIDE DEF done, lost
      <4>3. Staging(p, c, done, bytes) \/ Staging(p, c, lost, "absent")
        BY <4>1, <4>2 DEF Staging
      <4>4. QED  BY <4>3
    <3>3. QED  BY <1>10, <3>1, <3>2
  <2> USE DEF Staging
  <2>2. UNCHANGED <<intent, records, authority>>
    BY <1>10 DEF StageOpens, StageEnds
  <2>3. c.upload \in Upload /\ Begun(c.upload) /\ file[c.upload] # "whole"
    BY <1>3, <2>1 DEF Holds, Begun
  <2>4. /\ file'[c.upload] = bytes /\ \A u \in Upload : u # c.upload => file'[u] = file[u]
        /\ file' = [u \in Upload |-> file'[u]]
    BY <1>1, <2>1, <2>3 DEF UploadShape
  <2>5. FilesMove(p)
    BY <1>2, <2>1, <2>4 DEF FilesMove
  <2>6. IntentsMove
    BY <1>1, <2>2, NothingMoves
  <2>7. Numbered' /\ CommittedIsServable'
    BY <1>1, <2>2, <2>3, <2>4, <2>6, RowsStay
  <2>8. Holds(r)'
    <3>1. Begun(r.upload)'
      BY <2>1, <2>2, <2>3 DEF Begun
    <3>2. r.at = "staged" => file'[r.upload] = "whole" \/ GivenUp(r.upload)'
      BY <1>3, <2>1, <2>2, <2>4 DEF Holds, GivenUp
    <3>3. r.at = "writing" => file'[r.upload] = "partial"
      BY <2>1, <2>4
    <3>4. QED  BY <2>1, <3>1, <3>2, <3>3 DEF Holds, Recovery
  <2>9. /\ records' \subseteq Upload /\ authority' \subseteq Scope
        /\ \A u \in Upload : intent'[u].status = "NONE" <=> intent[u].status = "NONE"
    BY <1>1, <2>2 DEF UploadShape
  <2>10. QED  BY <1>2, <2>1, <2>5, <2>6, <2>7, <2>8, <2>9, CallGoesOn DEF Recovery, Creation
<1>11. CASE Finalize(p)
  <2>1. CASE Goto(p, "failing") /\ UNCHANGED tables
    <3>1. PICK r : r = Call("failing", c.goal, c.scope, c.todo, c.upload, c.staged)
      OBVIOUS
    <3>2. r.at = "failing" /\ r.upload = c.upload /\ call' = [call EXCEPT ![p] = r]
      BY <1>2, <2>1, <3>1 DEF Goto, Call
    <3>3. c.at = "staged" /\ UNCHANGED <<intent, records, file, authority>>
      BY <1>2, <1>11, <2>1 DEF Finalize
    <3>4. Holds(r)
      BY <1>3, <3>2, <3>3 DEF Holds, Recovery
    <3>5. QED  BY <1>1, <3>2, <3>3, <3>4, CallLooks DEF Recovery, Creation
  <2>2. CASE ~(Goto(p, "failing") /\ UNCHANGED tables)
    <3>1. /\ c.at = "staged" /\ Recordable(c.upload) /\ FinalizeIntent(c.upload)
          /\ Return(p) /\ UNCHANGED <<file, authority>>
      BY <1>2, <1>11, <2>2 DEF Finalize
    <3>2. c.upload \in Upload /\ (file[c.upload] = "whole" \/ GivenUp(c.upload))
      BY <1>3, <3>1 DEF Holds, Begun
    <3>3. /\ IntentsMove /\ Numbered' /\ CommittedIsServable' /\ records' \subseteq Upload
          /\ \A w \in Upload : intent'[w].status = "NONE" <=> intent[w].status = "NONE"
      BY <1>1, <3>1, <3>2, Records
    <3>4. PICK r : r = Idle
      OBVIOUS
    <3>5. r.at = "idle" /\ call' = [call EXCEPT ![p] = r]
      BY <3>1, <3>4 DEF Return, Idle, Call
    <3>6. Holds(r)'
      BY <3>5 DEF Holds, Recovery
    <3>7. FilesMove(p)
      BY <1>1, <3>1, NoFileMoves
    <3>8. QED  BY <1>1, <3>1, <3>3, <3>5, <3>6, <3>7, CallGoesOn DEF Recovery, Creation
  <2>3. QED  BY <2>1, <2>2
<1>12. QED  BY <1>4, <1>5, <1>6, <1>7, <1>8, <1>9, <1>10, <1>11 DEF Step

LEMMA UploadsNext == UploadInv /\ [UploadNext]_uploadVars => UploadInv'
<1> SUFFICES ASSUME UploadInv, [UploadNext]_uploadVars PROVE UploadInv'
  OBVIOUS
<1>1. ASSUME UNCHANGED <<intent, records, file, call>>, authority' \subseteq Scope
      PROVE  UploadInv'
  <2>1. UploadShape' /\ InHand' /\ OneWriter' /\ NotBegun' /\ Budget'
    BY <1>1 DEF UploadInv, UploadShape, InHand, Holds, Begun, GivenUp, OneWriter, NotBegun,
                Budget, Used, Planners
  <2>2. Numbered' /\ CommittedIsServable'
    <3>1. UploadShape /\ Numbered /\ CommittedIsServable
      BY DEF UploadInv
    <3>2. IntentsMove
      BY <1>1, <3>1, NothingMoves
    <3>3. QED  BY <1>1, <3>1, <3>2, RowsStay
  <2>3. QED  BY <2>1, <2>2 DEF UploadInv
<1>2. authority \subseteq Scope
  BY DEF UploadInv, UploadShape
<1>3. ASSUME NEW p \in Process, Crash(p) PROVE UploadInv'
  BY <1>2, <1>3, CallReturns DEF Crash, tables
<1>4. ASSUME NEW s \in Scope, LoseAuthority(s) \/ RegainAuthority(s) PROVE UploadInv'
  BY <1>1, <1>2, <1>4 DEF LoseAuthority, RegainAuthority, tables
<1>5. CASE UNCHANGED uploadVars
  BY <1>1, <1>2, <1>5 DEF uploadVars
<1>6. QED  BY <1>3, <1>4, <1>5, UploadOpens, StepKeeps DEF UploadNext

\* Record and intent always agree, the rows of a scope follow each other from
\* version 1, and the bytes of every committed record stay in the directory,
\* whichever processes recover, abort and discard its upload meanwhile
\* (recoverSpeakerArtifactUploads, finalizeIntentInTransaction,
\* cleanupArtifactFailure).
THEOREM CommittedIsAlwaysServable == UploadSpec => []CommittedIsServable
<1>1. UploadInv => CommittedIsServable
  BY DEF UploadInv
<1>2. QED  BY <1>1, UploadsInit, UploadsNext, PTL DEF UploadSpec
=============================================================================
