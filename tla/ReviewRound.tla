----------------------------- MODULE ReviewRound -----------------------------
(* One review round of a call for papers (services/cfp-review): the organizer *)
(* authors rubrics, distributes the submissions among the reviewers, replaces *)
(* a reviewer and opens and closes the round (organizer-console.ts), each     *)
(* assignment gets one sealed packet (organizer-sealing.ts), and the          *)
(* reviewers declare conflicts, save and submit from pages that may be old    *)
(* (reviewer.ts), while the applicants amend what is being reviewed.          *)
(*                                                                            *)
(* Every command is one immediate transaction.  A command that finds its      *)
(* receipt answers from it and changes nothing.  Sequence numbers of states   *)
(* are left out: an assignment enters each state once, so that comparing the  *)
(* states compares the numbers.  RECUSED and WAIVE have no writer.  The two   *)
(* exported sealing commands, which only the evaluator data calls, are left   *)
(* out: distributions and replacements compose the steps they consist of.     *)
EXTENDS Naturals, FiniteSets, Sequences

CONSTANTS
    Submissions, Reviewers,
    Legacy,           \* assignments made before packets were sealed with them
    Decisions,        \* what an organizer may decide to disclose
    Nothing,          \* no page, no predecessor, no packet
    MaxRevision,      \* bound: revisions of a submission
    MaxRubrics,       \* bound: rubric versions
    MaxAssignments,   \* bound: assignments of the round
    Requests,         \* what distributions may ask for
    MaxReviews,       \* bound: saved reviews of the round
    MaxDispositions   \* bound: declared and cleared conflicts of the round

Keys == Submissions \X (1..MaxRevision) \X Reviewers

ASSUME ReviewConstants ==
    /\ Legacy \subseteq Submissions \X {1} \X Reviewers
    /\ MaxRevision \in Nat \ {0}
    /\ Requests \subseteq [reviewers : SUBSET Reviewers, perSubmission : Nat, perReviewer : Nat, perPool : Nat]
    /\ IsFiniteSet(Reviewers)
    /\ Nothing \notin Keys
    /\ Nothing \notin [decisions : Decisions, conflict : Nat]

VARIABLES
    round,      \* the last row of review_round_states
    current,    \* submissions.current_revision_id; 0 while it is a draft
    rubrics,    \* how many rows rubric_versions holds
    semantics,  \* the rubric versions with a row of review_rubric_semantics
    state,      \* per assignment the last row of review_assignment_states
    rubricOf,   \* review_assignments.rubric_version_id
    supersedes, \* review_assignments.supersedes_assignment_id
    packet,     \* review_blind_artifacts: the decisions and the conflict then
    conflicts,  \* how many rows review_conflict_dispositions holds
    reviews,    \* review_revisions: each with the number its page had shown
    page        \* per reviewer, what the page showed when it was loaded

organizing == <<rubrics, semantics, rubricOf, supersedes, packet>>
reviewVars == <<round, current, state, conflicts, reviews, page, organizing>>

SubmissionOf(k) == k[1]
RevisionOf(k) == k[2]
ReviewerOf(k) == k[3]

Assigned == {k \in Keys : state[k] # "NONE"}
Active == {"ASSIGNED", "IN_PROGRESS"}

(* Dispositions alternate, DECLARE first.                                    *)
Declared(k) == conflicts[k] % 2 = 1

IsCurrent(k) == RevisionOf(k) = current[SubmissionOf(k)]

Assignment(k) ==
    [key |-> k, state |-> state[k], number |-> Len(reviews[k]), conflict |-> conflicts[k]]

Pages == {Nothing} \cup
    [key : Keys, state : Active,
     number : Nat, conflict : Nat]

Packets == {Nothing} \cup [decisions : Decisions, conflict : Nat]

ReviewTypeOK ==
    /\ round \in {"DRAFT", "OPEN", "ENDED"}
    /\ current \in [Submissions -> 0..MaxRevision]
    /\ rubrics \in Nat \ {0}
    /\ semantics \subseteq 1..rubrics
    /\ state \in [Keys -> {"NONE", "ASSIGNED", "IN_PROGRESS", "SUBMITTED", "REVOKED"}]
    /\ rubricOf \in [Keys -> Nat]
    /\ supersedes \in [Keys -> Keys \cup {Nothing}]
    /\ packet \in [Keys -> Packets]
    /\ conflicts \in [Keys -> Nat]
    /\ reviews \in [Keys -> Seq(Nat)]
    /\ page \in [Reviewers -> Pages]

(* A round with a first rubric and perhaps assignments that have no packet.  *)
ReviewInit ==
    /\ round = "DRAFT"
    /\ current \in {c \in [Submissions -> 0..1] : \A k \in Legacy : c[SubmissionOf(k)] = 1}
    /\ rubrics = 1
    /\ semantics = {}
    /\ state = [k \in Keys |-> IF k \in Legacy THEN "ASSIGNED" ELSE "NONE"]
    /\ rubricOf = [k \in Keys |-> IF k \in Legacy THEN 1 ELSE 0]
    /\ supersedes = [k \in Keys |-> Nothing]
    /\ packet = [k \in Keys |-> Nothing]
    /\ conflicts = [k \in Keys |-> 0]
    /\ reviews = [k \in Keys |-> <<>>]
    /\ page = [r \in Reviewers |-> Nothing]
-----------------------------------------------------------------------------
(* The applicants.                                                           *)

AmendSubmission(s) ==
    /\ current[s] < MaxRevision
    /\ current' = [current EXCEPT ![s] = @ + 1]
    /\ UNCHANGED <<round, state, conflicts, reviews, page, organizing>>
-----------------------------------------------------------------------------
(* The organizer.                                                            *)

(* ENDED is CLOSED and CANCELLED: no code tells them apart afterwards.        *)
SetRoundState(next) ==
    /\ \/ round = "DRAFT" /\ next \in {"OPEN", "ENDED"}
       \/ round = "OPEN" /\ next = "ENDED"
    /\ round' = next
    /\ UNCHANGED <<current, state, conflicts, reviews, page, organizing>>

Planning == round \in {"DRAFT", "OPEN"}

CreateRubric ==
    /\ Planning
    /\ rubrics < MaxRubrics
    /\ rubrics' = rubrics + 1
    /\ UNCHANGED <<round, current, state, conflicts, reviews, page,
                   semantics, rubricOf, supersedes, packet>>

Reusable(k) ==
    /\ IsCurrent(k)
    /\ state[k] \in {"ASSIGNED", "IN_PROGRESS", "SUBMITTED"}
    /\ ~Declared(k)

Retired_OfRevision(s, r) ==
    LET k == <<s, current[s], r>>
    IN  current[s] > 0 /\ (state[k] = "REVOKED" \/ Declared(k))

(* A reviewer is retired from a submission, whichever revision it was about. *)
Retired(s, r) ==
    \E k \in Assigned :
        /\ SubmissionOf(k) = s /\ ReviewerOf(k) = r
        /\ state[k] = "REVOKED" \/ Declared(k)

HasSuccessor(k) == \E j \in Keys : supersedes[j] = k

(* What a packet may be sealed on: open work without a standing conflict.    *)
CanSeal(k, sealedRubrics) ==
    state[k] \in Active /\ ~HasSuccessor(k) /\ ~Declared(k) /\ rubricOf[k] \in sealedRubrics

Packet(k, decided) == [decisions |-> decided[SubmissionOf(k)], conflict |-> conflicts[k]]

(* A packet that exists is kept, and must be of the same decisions.          *)
SameDecisions(k, decided) == packet[k].decisions = decided[SubmissionOf(k)]

(* The newest rubric gets its semantics with the first distribution.         *)
SealedSemantics == semantics \cup {rubrics}

Eligible(s) == current[s] > 0

(* The assignments a plan may hold: those that exist come first, others only *)
(* within the limits.  The order among equals is left open: the strategies   *)
(* differ in nothing else.                                                   *)
IsPlan(plan, subs, request) ==
    LET rs == request.reviewers
        keyOf(s, r) == <<s, current[s], r>>
        free(s) == {r \in rs : ~Retired(s, r)}
        of(s) == {k \in plan : SubmissionOf(k) = s}
        existing == {k \in Keys : ReviewerOf(k) \in rs /\ Reusable(k)}
        load(r) == Cardinality({k \in existing \cup plan : ReviewerOf(k) = r})
        full == Cardinality(existing \cup plan) >= request.perPool
    IN  /\ \A k \in plan : IsCurrent(k) /\ SubmissionOf(k) \in subs /\ ReviewerOf(k) \in free(SubmissionOf(k))
        /\ \A k \in plan \ existing : load(ReviewerOf(k)) <= request.perReviewer
        /\ plan \ existing # {} => Cardinality(existing \cup plan) <= request.perPool
        /\ \A s \in subs :
               LET kept == {r \in free(s) : keyOf(s, r) \in existing}
                   rest == {r \in free(s) : keyOf(s, r) \notin plan}
               IN  /\ Cardinality(of(s)) <= request.perSubmission
                   /\ of(s) \ existing # {} => \A r \in kept : keyOf(s, r) \in plan
                   /\ Cardinality(of(s)) < request.perSubmission =>
                        \A r \in rest : keyOf(s, r) \notin existing /\ (load(r) >= request.perReviewer \/ full)

(* distributeOrganizerReviewAssignments: the whole plan or nothing; a packet *)
(* is sealed for every assignment of the plan that has none.                  *)
(* A plan without assignments leaves a note and nothing else.                *)
Distribute(subs, request, decided) ==
    /\ Planning
    /\ \A s \in subs : Eligible(s)
    /\ \E plan \in SUBSET {k \in Keys : IsCurrent(k) /\ SubmissionOf(k) \in subs /\ ReviewerOf(k) \in request.reviewers} :
        LET new == {k \in plan : state[k] = "NONE"}
            unsealed == {k \in plan : packet[k] = Nothing}
        IN  /\ plan # {}
            /\ Cardinality(Assigned \cup new) <= MaxAssignments
            /\ \A k \in plan \ unsealed : SameDecisions(k, decided)
            /\ \A k \in unsealed \ new : CanSeal(k, SealedSemantics)
            /\ IsPlan(plan, subs, request)
            /\ semantics' = SealedSemantics
            /\ state' = [k \in Keys |-> IF k \in new THEN "ASSIGNED" ELSE state[k]]
            /\ rubricOf' = [k \in Keys |-> IF k \in new THEN rubrics ELSE rubricOf[k]]
            /\ packet' = [k \in Keys |-> IF k \in unsealed THEN Packet(k, decided) ELSE packet[k]]
            /\ UNCHANGED <<round, current, rubrics, supersedes, conflicts, reviews, page>>

Predecessor_Always(k) == k

(* What the successor of an assignment is linked to: nothing when the        *)
(* submission has been amended since.                                        *)
Predecessor(k) == IF IsCurrent(k) THEN k ELSE Nothing

Recuse(k) ==
    /\ Planning
    /\ state[k] \in Active
    /\ state' = [state EXCEPT ![k] = "REVOKED"]
    /\ UNCHANGED <<round, current, conflicts, reviews, page, organizing>>

Replace(k, r, decided) ==
    LET s == SubmissionOf(k)
        new == <<s, current[s], r>>
    IN  /\ Planning
        /\ state[k] \in Active
        /\ r # ReviewerOf(k)
        /\ ~Retired(s, r)
        /\ state[new] = "NONE"
        /\ Cardinality(Assigned) < MaxAssignments
        /\ rubricOf[k] \in semantics
        /\ state' = [state EXCEPT ![k] = "REVOKED", ![new] = "ASSIGNED"]
        /\ rubricOf' = [rubricOf EXCEPT ![new] = rubricOf[k]]
        /\ supersedes' = [supersedes EXCEPT ![new] = Predecessor(k)]
        /\ packet' = [packet EXCEPT ![new] = [decisions |-> decided, conflict |-> 0]]
        /\ UNCHANGED <<round, current, rubrics, semantics, conflicts, reviews, page>>
-----------------------------------------------------------------------------
(* The reviewers: what reviewer.ts requires of the stored rows before        *)
(* anything else.                                                            *)

Direct(A) == {supersedes[a] : a \in A} \ {Nothing}

(* The n-th: the predecessors that n more steps from the nearest one reach.  *)
Chain(k) ==
    LET up[n \in 0..Cardinality(Reviewers)] ==
            IF n = 0 THEN Direct({k}) ELSE up[n - 1] \cup Direct(up[n - 1])
    IN  up

Ancestors(k) == Chain(k)[Cardinality(Reviewers)]

ValidPredecessors(k) ==
    \A a \in Ancestors(k) :
        /\ SubmissionOf(a) = SubmissionOf(k) /\ RevisionOf(a) = RevisionOf(k)
        /\ state[a] = "REVOKED"
        /\ Cardinality({j \in Keys : supersedes[j] = a}) = 1

RoundIsOpen == round = "OPEN"

Operational(k) ==
    /\ RoundIsOpen
    /\ state[k] # "NONE"
    /\ IsCurrent(k)
    /\ ~HasSuccessor(k)
    /\ ValidPredecessors(k)

(* assertArtifactConflictSnapshot: sealed before any conflict or on a        *)
(* cleared one.                                                              *)
SnapshotHolds(k) == packet[k].conflict <= conflicts[k] /\ packet[k].conflict % 2 = 0

TrustedPacket(k) ==
    /\ rubricOf[k] \in semantics
    /\ packet[k] # Nothing
    /\ SnapshotHolds(k)

(* readOwnReviewAssignment and the queue that offers it; what has been handed *)
(* in can be looked at and nothing else.                                     *)
Open(k) ==
    /\ state[k] \in Active
    /\ Operational(k)
    /\ page' = [page EXCEPT ![ReviewerOf(k)] = Assignment(k)]
    /\ UNCHANGED <<round, current, state, conflicts, reviews, organizing>>

RequireMutable_AnyConflict(k) == state[k] \in Active

UpToDate_LastWins(k, p) == TRUE

RequireMutable(k) == state[k] \in Active /\ ~Declared(k)

(* Sequence numbers of states: see the head of the module.                   *)
ExpectedState(k, p) == state[k] = p.state

ExpectedReview(k, p) == Len(reviews[k]) = p.number

(* What a command that writes the review names: both from its page.          *)
UpToDate(k, p) == ExpectedState(k, p) /\ ExpectedReview(k, p)

Conflict(r, declare) ==
    LET p == page[r]
        k == p.key
    IN  /\ p # Nothing
        /\ Operational(k)
        /\ state[k] \in Active
        /\ ExpectedState(k, p)
        /\ conflicts[k] = p.conflict
        /\ Declared(k) = ~declare
        /\ Cardinality(UNION {{j} \X (1..conflicts[j]) : j \in Keys}) < MaxDispositions
        /\ conflicts' = [conflicts EXCEPT ![k] = @ + 1]
        /\ UNCHANGED <<round, current, state, reviews, page, organizing>>

SaveReview(r) ==
    LET p == page[r]
        k == p.key
    IN  /\ p # Nothing
        /\ Operational(k)
        /\ RequireMutable(k)
        /\ TrustedPacket(k)
        /\ UpToDate(k, p)
        /\ Cardinality(UNION {{j} \X DOMAIN reviews[j] : j \in Keys}) < MaxReviews
        /\ state' = [state EXCEPT ![k] = "IN_PROGRESS"]
        /\ reviews' = [reviews EXCEPT ![k] = Append(@, p.number)]
        /\ UNCHANGED <<round, current, conflicts, page, organizing>>

SubmitReview(r) ==
    LET p == page[r]
        k == p.key
    IN  /\ p # Nothing
        /\ Operational(k)
        /\ RequireMutable(k)
        /\ TrustedPacket(k)
        /\ UpToDate(k, p)
        /\ reviews[k] # <<>>
        /\ state' = [state EXCEPT ![k] = "SUBMITTED"]
        /\ UNCHANGED <<round, current, conflicts, reviews, page, organizing>>
-----------------------------------------------------------------------------
ReviewNext ==
    \/ \E s \in Submissions : AmendSubmission(s)
    \/ \E next \in {"OPEN", "ENDED"} : SetRoundState(next)
    \/ CreateRubric
    \/ \E subs \in SUBSET Submissions \ {{}}, request \in Requests, decided \in [Submissions -> Decisions] :
            Distribute(subs, request, decided)
    \/ \E k \in Keys : Recuse(k)
    \/ \E k \in Keys, r \in Reviewers, decided \in Decisions : Replace(k, r, decided)
    \/ \E k \in Keys : Open(k)
    \/ \E r \in Reviewers, declare \in BOOLEAN : Conflict(r, declare)
    \/ \E r \in Reviewers : SaveReview(r)
    \/ \E r \in Reviewers : SubmitReview(r)

ReviewSpec == ReviewInit /\ [][ReviewNext]_reviewVars
-----------------------------------------------------------------------------
(* Properties                                                                *)

(* While a reviewer's conflict of interest stands, the review does not grow,  *)
(* is not handed in and no packet is sealed for it: the assignment can only   *)
(* be revoked (requireMutableAssignment, authoritativeConflict).              *)
ConflictStopsWork ==
    [][\A k \in Keys : conflicts[k] % 2 = 1 =>
          /\ reviews'[k] = reviews[k]
          /\ packet'[k] = packet[k]
          /\ state'[k] \in {state[k], "REVOKED"}]_reviewVars

(* A reviewer revoked from a submission, or in conflict with it, is not      *)
(* assigned to it again and gets no packet of it by a distribution or a      *)
(* replacement of any later revision (retiredReviewerSubmissionPair).        *)
(* sealBlindReviewArtifact, which asks about one revision only, is outside.  *)
RetiredStaysRetired ==
    [][\A k \in Keys :
          (state[k] = "NONE" /\ state'[k] # "NONE") \/ (packet[k] = Nothing /\ packet'[k] # Nothing) =>
              \A v \in 1..MaxRevision :
                  LET j == <<SubmissionOf(k), v, ReviewerOf(k)>>
                  IN  state[j] # "REVOKED" /\ conflicts[j] % 2 = 0]_reviewVars

(* What the organizer's commands leave behind passes every check of the      *)
(* reviewer's: an assignment that is not revoked has no successor, a chain   *)
(* of revoked predecessors of its own revision, and a packet whose rubric    *)
(* is sealed and whose conflict snapshot the later dispositions bear out.    *)
AssignedWorkIsReadable ==
    \A k \in Assigned : state[k] # "REVOKED" =>
        /\ \A j \in Keys : supersedes[j] # k
        /\ \A a \in Ancestors(k) :
               /\ a[1] = k[1] /\ a[2] = k[2]
               /\ state[a] = "REVOKED"
               /\ \A i, j \in Keys : supersedes[i] = a /\ supersedes[j] = a => i = j
        /\ packet[k] = Nothing => k \in Legacy /\ state[k] = "ASSIGNED"
        /\ packet[k] # Nothing =>
               /\ rubricOf[k] \in semantics
               /\ packet[k].conflict <= conflicts[k] /\ packet[k].conflict % 2 = 0

(* Each revision of a review was written from a page that showed the one     *)
(* before it, whichever tab it came from: no saved review is overwritten     *)
(* unseen (saveOwnReview's expectedReviewRevisionNumber).                    *)
ReviewsBuildOnTheirPage ==
    \A k \in Keys : \A i \in 1..Len(reviews[k]) : reviews[k][i] = i - 1

=============================================================================
