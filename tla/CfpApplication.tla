--------------------------- MODULE CfpApplication ---------------------------
(***************************************************************************)
(* One call for papers: the organizers move it through its states, change  *)
(* its closing time, form and consent policy and grant extensions;         *)
(* applicants prove their address, open sessions, and create, save, submit *)
(* and amend one submission each; organizers decide.  Every command is one *)
(* transaction and one action.  A caller names what it has read before     *)
(* (a revision, a link), which may be as old as the caller likes; a refused *)
(* command changes nothing and is no step.                                 *)
(*                                                                         *)
(* A form version is the set of its consent fields and a policy is the set *)
(* of fields it asks for.  Fingerprints and updated_at of the call are     *)
(* fresh with each change, so a command that passes its compare-and-set    *)
(* has seen the current call.  opens_at is fixed, and the call is public:   *)
(* one for invited people admits nobody.                                   *)
(***************************************************************************)
EXTENDS Integers, Sequences, FiniteSets

CONSTANTS Applicants,     \* addresses
          ConsentFields, None, Received,
          Outcomes,       \* of a decision: accepted, rejected
          OpensAt, ClosingTimes,          \* closes_at is one of these
          VerificationTtl, SessionTtl,
          MaxTime, MaxIssues, MaxForms, MaxRevisions, MaxMoves  \* bounds

Time == 0..MaxTime
ExtensionEnds == 1..(MaxTime + 1)
ASSUME TimeAssumption == /\ OpensAt \in Nat /\ ClosingTimes \subseteq Nat
                         /\ \A t \in ClosingTimes : OpensAt <= t
                         /\ VerificationTtl \in Nat \ {0} /\ SessionTtl \in Nat \ {0}
ASSUME BoundAssumption == {MaxTime, MaxIssues, MaxForms, MaxRevisions, MaxMoves} \subseteq Nat

\* the rows of submissions, sessions and decision events
SubmissionRow == [state : {"DRAFT", "SUBMITTED"}, form : Nat, current : Nat,
                  createdAt : Nat, updatedAt : Nat]
SessionRow == [at : Nat, revokedAt : Nat \union {None}]
DecisionRow == [revision : Nat, outcome : Outcomes]
ASSUME NoneAssumption == /\ None \notin Nat /\ None \notin SubmissionRow
                         /\ None \notin SessionRow /\ None \notin DecisionRow

VARIABLES now,
          call,        \* the row of calls, with the number of its changes
          forms,       \* the sealed versions of the call's form
          people,      \* addresses with a person
          extensions,  \* call_extensions: the ends granted to each person
          issued,      \* cfp_email_verifications: when each link was issued
          sessions,    \* consumptions and sessions, per link
          submission, revisions,
          decision,    \* the decision event of a submission
          outbox       \* the messages queued for an applicant

access == <<people, extensions, issued, sessions>>
papers == <<submission, revisions, decision, outbox>>
vars == <<now, call, forms, access, papers>>

Issues == 1..MaxIssues

Init == /\ now = 0
        /\ \E policy, fields \in SUBSET ConsentFields, closes \in ClosingTimes :
              /\ policy \subseteq fields
              /\ forms = <<fields>>
              /\ call = [state |-> "DRAFT", closesAt |-> closes,
                         form |-> 1, policy |-> policy, moves |-> 0]
        /\ people = {}
        /\ extensions = [a \in Applicants |-> {}]
        /\ issued = [a \in Applicants |-> <<>>]
        /\ sessions = [a \in Applicants |-> [i \in Issues |-> None]]
        /\ submission = [a \in Applicants |-> None]
        /\ revisions = [a \in Applicants |-> <<>>]
        /\ decision = [a \in Applicants |-> None]
        /\ outbox = [a \in Applicants |-> <<>>]

Tick == /\ now < MaxTime
        /\ now' = now + 1
        /\ UNCHANGED <<call, forms, access, papers>>

-----------------------------------------------------------------------------
(* The organizers' side of the call.                                       *)

AllowedTransitions ==
  [DRAFT     |-> {"SCHEDULED", "CANCELLED"},
   SCHEDULED |-> {"OPEN", "CANCELLED"},
   OPEN      |-> {"PAUSED", "CLOSED", "CANCELLED"},
   PAUSED    |-> {"OPEN", "CLOSED", "CANCELLED"},
   CLOSED    |-> {"ARCHIVED"},
   ARCHIVED  |-> {},
   CANCELLED |-> {"ARCHIVED"}]
CallStates == DOMAIN AllowedTransitions

TransitionCall(expected, next) ==
  /\ call.state = expected
  /\ next \in AllowedTransitions[expected]
  /\ call.moves < MaxMoves
  /\ call' = [state |-> next, closesAt |-> call.closesAt, form |-> call.form,
              policy |-> call.policy, moves |-> call.moves + 1]
  /\ UNCHANGED <<now, forms, access, papers>>

\* stateTransitionAllowed, with and without publishing
SaveAllowed(from, to) ==
  \/ from = to
  \/ to \in AllowedTransitions[from]
  \/ to = "OPEN" /\ from \in {"DRAFT", "SCHEDULED", "PAUSED"}

\* forms pinned by a draft
DraftPins == {submission[a].form : a \in {b \in Applicants :
                submission[b] # None /\ submission[b].state = "DRAFT"}}

\* mutant: only the call's own form is asked
PolicyFits_CallOnly(policy, form) == policy \subseteq form
\* updateCallPolicy: the policy has to fit the form and every draft
PolicyFits(policy, form) == /\ policy \subseteq form
                            /\ \A v \in DraftPins : policy \subseteq forms[v]

\* sealFormVersion: a changed form is a new version
Sealed(fields) == IF fields = forms[call.form] THEN forms ELSE Append(forms, fields)
CurrentForm(fields) == IF fields = forms[call.form] THEN call.form ELSE Len(forms) + 1

\* saveCfpOrganizerCall: form, policy, state and closing time in one command
SaveCall(next, closes, fields, policy) ==
  /\ call.state \notin {"CLOSED", "ARCHIVED", "CANCELLED"}
  /\ SaveAllowed(call.state, next)
  /\ call.policy \subseteq fields  \* the stored policy is read with the new form
  /\ PolicyFits(policy, fields)
  /\ call.moves < MaxMoves /\ Len(Sealed(fields)) <= MaxForms
  /\ forms' = Sealed(fields)
  /\ call' = [state |-> next, closesAt |-> closes, form |-> CurrentForm(fields),
              policy |-> policy, moves |-> call.moves + 1]
  /\ UNCHANGED <<now, access, papers>>

\* validateExtensionRow, for every extension of a person
ExtensionsAreValid(a) == \A until \in extensions[a] : call.closesAt < until

GrantExtension(a, until) ==
  /\ a \in people
  /\ until > now /\ until > call.closesAt
  /\ call.state \notin {"CANCELLED", "ARCHIVED"}
  /\ ExtensionsAreValid(a)
  /\ \A other \in extensions[a] : other < until
  /\ extensions' = [extensions EXCEPT ![a] = @ \union {until}]
  /\ UNCHANGED <<now, call, forms, people, issued, sessions, papers>>

-----------------------------------------------------------------------------
(* Links and sessions of the applicants.                                   *)

\* resolvePersonByNormalizedEmail
Known(a) == a \in people

\* late access is for people whose extension is active
LateLeave(a) == /\ Known(a)
                /\ ExtensionsAreValid(a)
                /\ \E until \in extensions[a] : now < until

\* evaluateCallAccess
CallAccess(a) == /\ call.state \in {"OPEN", "CLOSED"}
                 /\ now >= OpensAt
                 /\ \/ call.state = "OPEN" /\ now < call.closesAt
                    \/ LateLeave(a)

IssueVerification(a) ==
  /\ CallAccess(a)
  /\ Len(issued[a]) < MaxIssues
  /\ issued' = [issued EXCEPT ![a] = Append(@, now)]
  /\ UNCHANGED <<now, call, forms, people, extensions, sessions, papers>>

\* mutant: any link that has not expired will do
Consumable_AnyLink(a, i) == i \in DOMAIN issued[a] /\ now < issued[a][i] + VerificationTtl
\* only the newest link of an address
Consumable(a, i) == /\ i = Len(issued[a]) /\ i > 0
                    /\ now < issued[a][i] + VerificationTtl

\* loadApplicantSessionIdentity: a session comes with the consumption of its link
Opened(a, i) == sessions[a][i] # None

\* creates the person where the address is new; a consumed link is replayed
ConsumeVerification(a, i) ==
  /\ Consumable(a, i)
  /\ ~Opened(a, i)
  /\ CallAccess(a)
  /\ people' = people \union {a}
  /\ sessions' = [sessions EXCEPT ![a] =
       [sessions[a] EXCEPT ![i] = [at |-> now, revokedAt |-> None]]]
  /\ UNCHANGED <<now, call, forms, extensions, issued, papers>>

RevokeSession(a, i) ==
  /\ Opened(a, i)
  /\ sessions[a][i].revokedAt = None
  /\ sessions' = [sessions EXCEPT ![a] =
       [sessions[a] EXCEPT ![i] = [at |-> sessions[a][i].at, revokedAt |-> now]]]
  /\ UNCHANGED <<now, call, forms, people, extensions, issued, papers>>

\* resolveApplicantSession
Live(a, i) == /\ Opened(a, i)
              /\ sessions[a][i].revokedAt = None
              /\ now < sessions[a][i].at + SessionTtl

\* authorize: each command resolves its session and asks for access again
Authorized(a, i) == Live(a, i) /\ CallAccess(a)

-----------------------------------------------------------------------------
(* Submissions.                                                            *)

\* createSubmissionDraft; a second one finds the first
CreateDraft(a, i) ==
  /\ Authorized(a, i)
  /\ submission[a] = None
  /\ submission' = [submission EXCEPT ![a] =
       [state |-> "DRAFT", form |-> call.form, current |-> 0,
        createdAt |-> now, updatedAt |-> now]]
  /\ UNCHANGED <<now, call, forms, access, revisions, decision, outbox>>

Owns(a) == submission[a] # None  \* requireOwnedSubmission

\* receiptFromEvaluation: the receipt needs an answer to all the policy asks
HasReceipt(answered) == call.policy \subseteq answered

\* saveRevisionInternal: what a draft and an amendment have in common
NewRevision(a, i, expected, answered) ==
  /\ submission[a].current = expected
  /\ Len(revisions[a]) < MaxRevisions
  /\ call.policy \subseteq forms[submission[a].form]
  /\ revisions' = [revisions EXCEPT ![a] = Append(@,
       [at |-> now, session |-> i, after |-> expected,
        consent |-> HasReceipt(answered)])]

\* the row of the submission then
Revised(a, state, updatedAt) ==
  submission' = [submission EXCEPT ![a] =
    [state |-> state, form |-> submission[a].form, current |-> Len(revisions[a]) + 1,
     createdAt |-> submission[a].createdAt, updatedAt |-> updatedAt]]

SaveDraft(a, i, expected, answered) ==
  /\ Authorized(a, i)
  /\ Owns(a)
  /\ submission[a].state = "DRAFT"
  /\ NewRevision(a, i, expected, answered)
  /\ Revised(a, "DRAFT", now)
  /\ UNCHANGED <<now, call, forms, access, decision, outbox>>

\* mutant: a submitted one is submitted again
Submittable_Again(a) == Owns(a)
\* commitSubmittedState
Submittable(a) == Owns(a) /\ submission[a].state = "DRAFT"

\* a row of outbox_messages, in the command's own transaction
Tell(a, message) == outbox' = [outbox EXCEPT ![a] = Append(@, message)]

\* saves a last revision, which needs its consent receipt, and confirms it
Submit(a, i, expected, answered) ==
  /\ Authorized(a, i)
  /\ Submittable(a)
  /\ NewRevision(a, i, expected, answered)
  /\ HasReceipt(answered)
  /\ Revised(a, "SUBMITTED", now)
  /\ Tell(a, Received)
  /\ UNCHANGED <<now, call, forms, access, decision>>

\* currentDecisionEvent, hasSubmissionDecision
Undecided(a) == decision[a] = None

\* mutant: whoever may still write may amend
Amendable_Late(a) == Undecided(a)
\* mutant: a decision does not end it
Amendable_Decided(a) == call.state = "OPEN" /\ now >= OpensAt /\ now < call.closesAt
\* isOpenCallAt: an extension does not help, and a decision ends it
Amendable(a) == /\ call.state = "OPEN" /\ now >= OpensAt /\ now < call.closesAt
                /\ Undecided(a)

\* leaves updated_at alone, which says when it was submitted
Amend(a, i, expected, answered) ==
  /\ Authorized(a, i)
  /\ Owns(a)
  /\ submission[a].state = "SUBMITTED"
  /\ Amendable(a)
  /\ NewRevision(a, i, expected, answered)
  /\ Revised(a, "SUBMITTED", submission[a].updatedAt)
  /\ UNCHANGED <<now, call, forms, access, decision, outbox>>

\* decideCfpSubmission: of the current revision, once; the session that an
\* acceptance creates belongs to ScheduleDraft
Decide(a, expected, outcome) ==
  /\ Owns(a)
  /\ submission[a].state = "SUBMITTED"
  /\ submission[a].current = expected
  /\ Undecided(a)
  /\ decision' = [decision EXCEPT ![a] = [revision |-> expected, outcome |-> outcome]]
  /\ Tell(a, outcome)
  /\ UNCHANGED <<now, call, forms, access, submission, revisions>>

OrganizerStep ==
  \/ \E expected, next \in CallStates : TransitionCall(expected, next)
  \/ \E next \in CallStates, closes \in ClosingTimes,
        fields, policy \in SUBSET ConsentFields : SaveCall(next, closes, fields, policy)
  \/ \E a \in Applicants, until \in ExtensionEnds : GrantExtension(a, until)
  \/ \E a \in Applicants, i \in Issues : RevokeSession(a, i)
  \/ \E a \in Applicants, expected \in 1..MaxRevisions, outcome \in Outcomes :
        Decide(a, expected, outcome)

\* expected is the revision of the page the applicant has open
ApplicantStep(a) ==
  \/ IssueVerification(a)
  \/ \E i \in Issues :
       \/ ConsumeVerification(a, i)
       \/ CreateDraft(a, i)
       \/ \E expected \in 0..MaxRevisions, answered \in SUBSET ConsentFields :
            \/ SaveDraft(a, i, expected, answered)
            \/ Submit(a, i, expected, answered)
            \/ Amend(a, i, expected, answered)

Next == Tick \/ OrganizerStep \/ \E a \in Applicants : ApplicantStep(a)

Spec == Init /\ [][Next]_vars

-----------------------------------------------------------------------------
(* What is checked.                                                        *)

Revision == [at : Nat, session : Issues, after : Nat, consent : BOOLEAN]

\* Types of the tables of a call.
TypeOK ==
  /\ now \in Nat /\ people \subseteq Applicants
  /\ forms \in Seq(SUBSET ConsentFields)
  /\ call \in [state : CallStates, closesAt : ClosingTimes,
               form : Nat, policy : SUBSET ConsentFields, moves : Nat]
  /\ extensions \in [Applicants -> SUBSET ExtensionEnds]
  /\ issued \in [Applicants -> Seq(Nat)]
  /\ sessions \in [Applicants -> [Issues -> {None} \union SessionRow]]
  /\ submission \in [Applicants -> {None} \union SubmissionRow]
  /\ revisions \in [Applicants -> Seq(Revision)]
  /\ decision \in [Applicants -> {None} \union DecisionRow]
  /\ outbox \in [Applicants -> Seq({Received} \union Outcomes)]

\* Every revision was written by someone who had seen the one before it, in a
\* session that was alive, which a link had opened before a newer link of that
\* address was issued: no stale page, revoked session or superseded link ever
\* writes (consumeEmailVerification, assertApplicantAccess, saveRevisionInternal).
ChainOfEvidence ==
  \A a \in Applicants, n \in 1..MaxRevisions : n <= Len(revisions[a]) =>
    LET r == revisions[a][n]
        s == sessions[a][r.session]
    IN /\ r.after = n - 1
       /\ n > 1 => revisions[a][n - 1].at <= r.at
       /\ s # None
       /\ s.at <= r.at /\ r.at < s.at + SessionTtl
       /\ s.revokedAt # None => r.at <= s.revokedAt
       /\ \A later \in (r.session + 1)..Len(issued[a]) : s.at <= issued[a][later]

\* When the call is paused, closed or past its closing time, drafts are written
\* only by people with an active extension, and what has been submitted is not
\* written at all (evaluateCallAccess, isOpenCallAt).
DeadlineHolds ==
  [][\A a \in Applicants : <<submission[a], revisions[a]>>' # <<submission[a], revisions[a]>> =>
       \/ call.state = "OPEN" /\ now < call.closesAt
       \/ /\ call.state \in {"OPEN", "CLOSED"}
          /\ submission[a] = None \/ submission[a].state = "DRAFT"
          /\ \E until \in extensions[a] : now < until]_vars

\* A decision is about the revision that stays the current one for ever, so an
\* applicant cannot swap what was accepted (decideCfpSubmission against
\* amendSubmittedSubmission).
DecidedRevisionStands ==
  \A a \in Applicants : decision[a] # None =>
    /\ submission[a] # None
    /\ submission[a].state = "SUBMITTED"
    /\ submission[a].current = decision[a].revision
    /\ Len(revisions[a]) = decision[a].revision

\* Whatever the organizers change, the call's policy fits its form and the form
\* every draft is pinned to, so no draft is ever stuck (updateCallPolicy).
DraftsFitThePolicy ==
  /\ call.policy \subseteq forms[call.form]
  /\ \A a \in Applicants : submission[a] # None /\ submission[a].state = "DRAFT" =>
       call.policy \subseteq forms[submission[a].form]

\* An applicant is told of the receipt once and of the decision once, in this
\* order, and of nothing that is not so (queueSubmissionConfirmation,
\* decideCfpSubmission).
ApplicantIsToldOnce ==
  \A a \in Applicants :
    outbox[a] = (IF submission[a] # None /\ submission[a].state = "SUBMITTED"
                 THEN <<Received>> ELSE <<>>)
                \o (IF decision[a] # None THEN <<decision[a].outcome>> ELSE <<>>)

\* storedRevisionFacts
RevisionFits(a, n) == /\ submission[a].createdAt <= revisions[a][n].at
                      /\ revisions[a][n].at <= submission[a].updatedAt

\* requireStoredRevisionChain
ChainFits(a) == /\ submission[a].current = Len(revisions[a])
                /\ submission[a].state = "SUBMITTED" =>
                     /\ revisions[a] # <<>>
                     /\ revisions[a][Len(revisions[a])].consent

\* readDurableCreateResult: what the second createSubmissionDraft of an
\* applicant asks of the stored rows
Replayable(a) == ChainFits(a) /\ \A n \in DOMAIN revisions[a] : RevisionFits(a, n)

\* An applicant who has lost the first answer, or the cookie, finds the
\* submission by creating it again: cfp-submissions.test.ts:1043, "durably
\* replays the exact original before and after lifecycle changes".
CreateFindsTheSubmission ==
  \A a \in Applicants : submission[a] # None => Replayable(a)
=============================================================================
