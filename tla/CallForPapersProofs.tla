------------------------ MODULE CallForPapersProofs ------------------------
(***************************************************************************)
(* Theorems about the call for papers.  First CfpApplication, for any      *)
(* applicants, consent fields, closing times, lifetimes and bounds; then   *)
(* ReviewRound, for any submissions, reviewers, assignments older than the *)
(* seals, requests and bounds.  The two share no state.                    *)
(***************************************************************************)
EXTENDS CfpApplication, ReviewRound, FiniteSetTheorems, WellFoundedInduction, TLAPS

(***************************************************************************)
(* The inductive invariant                                                 *)
(***************************************************************************)
\* Every form version that is referred to is on record.
Pinned == /\ call.form \in DOMAIN forms
          /\ \A a \in Applicants : submission[a] # None => submission[a].form \in DOMAIN forms

\* The current revision is the last one; what has been decided was submitted.
Current == \A a \in Applicants :
  /\ submission[a] # None => submission[a].current = Len(revisions[a])
  /\ decision[a] # None => /\ submission[a] # None /\ submission[a].state = "SUBMITTED"
                           /\ decision[a].revision = submission[a].current
  /\ submission[a] = None => revisions[a] = <<>>

\* Nothing on record is from the future, and a session is as old as its link:
\* it was opened before every later link of the address was issued.
Dated == \A a \in Applicants :
  /\ \A k \in DOMAIN issued[a] : issued[a][k] <= now
  /\ \A n \in DOMAIN revisions[a] : revisions[a][n].at <= now
  /\ \A i \in Issues : sessions[a][i] # None =>
       /\ i <= Len(issued[a])
       /\ sessions[a][i].at <= now
       /\ sessions[a][i].revokedAt # None => sessions[a][i].revokedAt <= now
       /\ \A later \in (i + 1)..Len(issued[a]) : sessions[a][i].at <= issued[a][later]

\* What a stored revision says of the one before it and of its session.
Written(a, n) ==
  LET r == revisions[a][n] IN
  /\ r.after = n - 1
  /\ n > 1 => revisions[a][n - 1].at <= r.at
  /\ sessions[a][r.session] # None
  /\ sessions[a][r.session].at <= r.at /\ r.at < sessions[a][r.session].at + SessionTtl
  /\ sessions[a][r.session].revokedAt # None => r.at <= sessions[a][r.session].revokedAt
Evidence == \A a \in Applicants : \A n \in DOMAIN revisions[a] : Written(a, n)

IInv == TypeOK /\ Pinned /\ Current /\ Dated /\ Evidence

LEMMA RowsAreSome ==
  /\ \A x \in SubmissionRow : x # None
  /\ \A x \in SessionRow : x # None
  /\ \A x \in DecisionRow : x # None
  BY NoneAssumption

LEMMA InitInvariant == Init => IInv
  <1> SUFFICES ASSUME Init PROVE IInv
    OBVIOUS
  <1>1. TypeOK
    <2>1. PICK policy \in SUBSET ConsentFields, fields \in SUBSET ConsentFields, closes \in ClosingTimes :
            /\ forms = <<fields>>
            /\ call = [state |-> "DRAFT", closesAt |-> closes, form |-> 1, policy |-> policy, moves |-> 0]
      BY DEF Init
    <2>2. "DRAFT" \in CallStates
      BY DEF CallStates, AllowedTransitions
    <2>3. call \in [state : CallStates, closesAt : ClosingTimes,
                    form : Nat, policy : SUBSET ConsentFields, moves : Nat]
      BY <2>1, <2>2
    <2>4. forms \in Seq(SUBSET ConsentFields)
      BY <2>1
    <2> QED
      BY <2>3, <2>4 DEF Init, TypeOK
  <1>2. Pinned
    BY DEF Init, Pinned
  <1>3. Current
    BY DEF Init, Current
  <1>4. Dated
    BY DEF Init, Dated
  <1>5. Evidence
    BY DEF Init, Evidence
  <1> QED
    BY <1>1, <1>2, <1>3, <1>4, <1>5 DEF IInv

(***************************************************************************)
(* What the commands on a submission write                                 *)
(***************************************************************************)
LEMMA RevisionWritten ==
  ASSUME IInv, NEW a \in Applicants, NEW i \in Issues, NEW expected, NEW answered,
         Authorized(a, i), NewRevision(a, i, expected, answered), submission[a] # None
  PROVE  /\ revisions' \in [Applicants -> Seq(Revision)]
         /\ revisions'[a] = Append(revisions[a],
              [at |-> now, session |-> i, after |-> Len(revisions[a]), consent |-> HasReceipt(answered)])
         /\ \A b \in Applicants \ {a} : revisions'[b] = revisions[b]
  <1> DEFINE r == [at |-> now, session |-> i, after |-> expected, consent |-> HasReceipt(answered)]
  <1>1. revisions' = [revisions EXCEPT ![a] = Append(@, r)] /\ expected = submission[a].current
    BY DEF NewRevision
  <1>2. expected = Len(revisions[a]) /\ revisions[a] \in Seq(Revision) /\ now \in Nat
    BY <1>1 DEF IInv, Current, TypeOK
  <1>3. HasReceipt(answered) \in BOOLEAN
    BY Zenon DEF HasReceipt
  <1>4. r \in Revision
    BY <1>2, <1>3 DEF Revision
  <1> HIDE DEF r
  <1>5. /\ revisions' \in [Applicants -> Seq(Revision)]
        /\ revisions'[a] = Append(revisions[a], r)
        /\ \A b \in Applicants \ {a} : revisions'[b] = revisions[b]
    BY <1>1, <1>4 DEF IInv, TypeOK
  <1> QED
    BY <1>2, <1>5 DEF r

LEMMA RowWritten ==
  ASSUME IInv, NEW a \in Applicants, submission[a] # None,
         NEW status \in {"DRAFT", "SUBMITTED"}, NEW updatedAt \in Nat, Revised(a, status, updatedAt)
  PROVE  /\ submission' \in [Applicants -> {None} \union SubmissionRow]
         /\ submission'[a] # None /\ submission'[a].state = status
         /\ submission'[a].form = submission[a].form /\ submission'[a].current = Len(revisions[a]) + 1
         /\ \A b \in Applicants \ {a} : submission'[b] = submission[b]
  <1> DEFINE x == [state |-> status, form |-> submission[a].form, current |-> Len(revisions[a]) + 1,
                   createdAt |-> submission[a].createdAt, updatedAt |-> updatedAt]
  <1>1. submission' = [submission EXCEPT ![a] = x]
    BY DEF Revised
  <1>2. submission[a] \in SubmissionRow /\ Len(revisions[a]) \in Nat
    BY DEF IInv, TypeOK
  <1>3. x \in SubmissionRow
    BY <1>2 DEF SubmissionRow
  <1>4. x # None
    BY <1>3, NoneAssumption
  <1>5. x.state = status /\ x.form = submission[a].form /\ x.current = Len(revisions[a]) + 1
    OBVIOUS
  <1> HIDE DEF x
  <1> QED
    BY <1>1, <1>3, <1>4, <1>5 DEF IInv, TypeOK

LEMMA Told ==
  ASSUME TypeOK, NEW a \in Applicants, NEW m \in {Received} \union Outcomes,
         outbox' = [outbox EXCEPT ![a] = Append(@, m)]
  PROVE  outbox' \in [Applicants -> Seq({Received} \union Outcomes)]
  <1>1. Append(outbox[a], m) \in Seq({Received} \union Outcomes)
    BY DEF TypeOK
  <1> QED
    BY <1>1 DEF TypeOK

\* The three commands that write a revision, as one.
LEMMA Writes ==
  ASSUME IInv, NEW a \in Applicants, NEW i \in Issues, NEW expected, NEW answered,
         SaveDraft(a, i, expected, answered) \/ Submit(a, i, expected, answered)
           \/ Amend(a, i, expected, answered)
  PROVE  /\ Authorized(a, i) /\ submission[a] # None /\ NewRevision(a, i, expected, answered)
         /\ \E status \in {"DRAFT", "SUBMITTED"}, updatedAt \in Nat : Revised(a, status, updatedAt)
         /\ submission[a].state = "SUBMITTED" => /\ Undecided(a)
                                                 /\ \E updatedAt \in Nat : Revised(a, "SUBMITTED", updatedAt)
         /\ UNCHANGED <<now, call, forms, people, extensions, issued, sessions, decision>>
         /\ outbox' = outbox \/ outbox' = [outbox EXCEPT ![a] = Append(@, Received)]
  <1> USE DEF access, Owns
  <1>0. now \in Nat
    BY DEF IInv, TypeOK
  <1>1. CASE SaveDraft(a, i, expected, answered)
    BY <1>0, <1>1 DEF SaveDraft
  <1>2. CASE Submit(a, i, expected, answered)
    BY <1>0, <1>2 DEF Submit, Submittable, Tell
  <1>3. CASE Amend(a, i, expected, answered)
    <2>1. submission[a] # None /\ submission[a].state = "SUBMITTED"
      BY <1>3 DEF Amend
    <2>2. submission[a].updatedAt \in Nat
      BY <2>1 DEF IInv, TypeOK, SubmissionRow
    <2> QED
      BY <1>3, <2>2 DEF Amend, Amendable
  <1> QED
    BY <1>1, <1>2, <1>3

LEMMA WritesKeep ==
  ASSUME IInv, NEW a \in Applicants, NEW i \in Issues, NEW expected, NEW answered,
         SaveDraft(a, i, expected, answered) \/ Submit(a, i, expected, answered)
           \/ Amend(a, i, expected, answered)
  PROVE  IInv'
  <1>1. /\ Authorized(a, i) /\ submission[a] # None /\ NewRevision(a, i, expected, answered)
        /\ \E status \in {"DRAFT", "SUBMITTED"}, updatedAt \in Nat : Revised(a, status, updatedAt)
        /\ submission[a].state = "SUBMITTED" => /\ Undecided(a)
                                                /\ \E updatedAt \in Nat : Revised(a, "SUBMITTED", updatedAt)
        /\ UNCHANGED <<now, call, forms, people, extensions, issued, sessions, decision>>
        /\ outbox' = outbox \/ outbox' = [outbox EXCEPT ![a] = Append(@, Received)]
    BY Writes
  <1>2. PICK status \in {"DRAFT", "SUBMITTED"}, updatedAt \in Nat : Revised(a, status, updatedAt)
    BY <1>1
  <1>3. /\ submission' \in [Applicants -> {None} \union SubmissionRow]
        /\ submission'[a] # None
        /\ submission'[a].form = submission[a].form /\ submission'[a].current = Len(revisions[a]) + 1
        /\ \A b \in Applicants \ {a} : submission'[b] = submission[b]
    BY <1>1, <1>2, RowWritten
  <1> DEFINE r == [at |-> now, session |-> i, after |-> Len(revisions[a]), consent |-> HasReceipt(answered)]
  <1>4. /\ revisions' \in [Applicants -> Seq(Revision)]
        /\ revisions'[a] = Append(revisions[a], r)
        /\ \A b \in Applicants \ {a} : revisions'[b] = revisions[b]
    BY <1>1, RevisionWritten
  <1>5. /\ r.at = now /\ r.session = i /\ r.after = Len(revisions[a])
        /\ now \in Nat /\ revisions[a] \in Seq(Revision) /\ Len(revisions[a]) \in Nat
    BY DEF IInv, TypeOK
  <1> HIDE DEF r
  <1>6. TypeOK'
    <2>1. outbox' \in [Applicants -> Seq({Received} \union Outcomes)]
      BY <1>1, Told DEF IInv, TypeOK
    <2> QED
      BY <1>1, <1>3, <1>4, <2>1 DEF IInv, TypeOK
  <1>7. Pinned'
    BY <1>1, <1>3 DEF IInv, Pinned
  <1>8. Len(revisions'[a]) = Len(revisions[a]) + 1
    BY <1>4, <1>5
  <1>9. decision[a] = None
    <2>1. CASE submission[a].state = "SUBMITTED"
      BY <1>1, <2>1 DEF Undecided
    <2>2. CASE submission[a].state # "SUBMITTED"
      BY <2>2 DEF IInv, Current
    <2> QED
      BY <2>1, <2>2
  <1>10. Current'
    BY <1>1, <1>3, <1>4, <1>8, <1>9 DEF IInv, Current
  <1>11. Dated'
    <2>1. \A n \in DOMAIN revisions'[a] : revisions'[a][n].at <= now
      BY <1>4, <1>5 DEF IInv, Dated
    <2> QED
      BY <2>1, <1>1, <1>4 DEF IInv, Dated
  <1>12. /\ sessions[a][i] # None /\ sessions[a][i].revokedAt = None
         /\ now < sessions[a][i].at + SessionTtl /\ sessions[a][i].at <= now
    BY <1>1 DEF Authorized, Live, Opened, IInv, Dated
  <1>13. Evidence'
    <2> SUFFICES ASSUME NEW b \in Applicants, NEW n \in DOMAIN revisions'[b]
                 PROVE  Written(b, n)'
      BY DEF Evidence
    <2>1. CASE b # a
      BY <2>1, <1>1, <1>4 DEF IInv, Evidence, Written
    <2>2. CASE b = a /\ n \in DOMAIN revisions[a]
      <3>1. revisions'[a][n] = revisions[a][n] /\ (n > 1 => revisions'[a][n - 1] = revisions[a][n - 1])
        BY <2>2, <1>4, <1>5
      <3>2. Written(a, n)
        BY <2>2 DEF IInv, Evidence
      <3> QED
        BY <2>2, <3>1, <3>2, <1>1 DEF Written
    <2>3. CASE b = a /\ n \notin DOMAIN revisions[a]
      <3>1. n = Len(revisions[a]) + 1 /\ revisions'[a][n] = r
        BY <2>3, <1>4, <1>5
      <3>2. n > 1 => revisions'[a][n - 1].at <= now
        <4>1. n > 1 => n - 1 \in DOMAIN revisions[a] /\ revisions'[a][n - 1] = revisions[a][n - 1]
          BY <3>1, <1>4, <1>5
        <4> QED
          BY <4>1 DEF IInv, Dated
      <3> QED
        BY <2>3, <3>1, <3>2, <1>1, <1>5, <1>12, NoneAssumption DEF Written
    <2> QED
      BY <2>1, <2>2, <2>3
  <1> QED
    BY <1>6, <1>7, <1>10, <1>11, <1>13 DEF IInv

(***************************************************************************)
(* The other commands                                                      *)
(***************************************************************************)
LEMMA StoredRevision ==
  ASSUME TypeOK, NEW a \in Applicants, NEW n \in DOMAIN revisions[a]
  PROVE  revisions[a][n].at \in Nat /\ revisions[a][n].session \in Issues
  <1>1. revisions[a] \in Seq(Revision)
    BY DEF TypeOK
  <1>2. revisions[a][n] \in Revision
    BY <1>1
  <1> QED
    BY <1>2 DEF Revision

\* A step that writes no submission, revision, session, link or decision.
LEMMA PapersUntouched ==
  ASSUME IInv, TypeOK', Pinned', now' \in Nat, now <= now',
         UNCHANGED <<issued, sessions, submission, revisions, decision>>
  PROVE  IInv'
  <1>1. Current'
    BY DEF IInv, Current
  <1>2. Dated'
    <2> SUFFICES ASSUME NEW a \in Applicants
                 PROVE  /\ \A k \in DOMAIN issued[a] : issued[a][k] <= now'
                        /\ \A n \in DOMAIN revisions[a] : revisions[a][n].at <= now'
                        /\ \A i \in Issues : sessions[a][i] # None =>
                             /\ i <= Len(issued[a])
                             /\ sessions[a][i].at <= now'
                             /\ sessions[a][i].revokedAt # None => sessions[a][i].revokedAt <= now'
                             /\ \A later \in (i + 1)..Len(issued[a]) : sessions[a][i].at <= issued[a][later]
      BY DEF Dated
    <2>1. now \in Nat /\ issued[a] \in Seq(Nat) /\ revisions[a] \in Seq(Revision)
      BY DEF IInv, TypeOK
    <2>2. \A k \in DOMAIN issued[a] : issued[a][k] \in Nat /\ issued[a][k] <= now
      BY <2>1 DEF IInv, Dated
    <2>3. \A n \in DOMAIN revisions[a] : revisions[a][n].at \in Nat /\ revisions[a][n].at <= now
      <3>1. \A n \in DOMAIN revisions[a] : revisions[a][n].at \in Nat
        BY <2>1, StoredRevision DEF IInv
      <3> QED
        BY <3>1 DEF IInv, Dated
    <2>4. \A i \in Issues : sessions[a][i] # None =>
            /\ sessions[a][i].at \in Nat /\ sessions[a][i].at <= now
            /\ sessions[a][i].revokedAt # None => sessions[a][i].revokedAt \in Nat /\ sessions[a][i].revokedAt <= now
      BY DEF IInv, Dated, TypeOK, SessionRow
    <2> QED
      BY <2>1, <2>2, <2>3, <2>4 DEF IInv, Dated
  <1>3. Evidence'
    BY DEF IInv, Evidence, Written
  <1> QED
    BY <1>1, <1>2, <1>3 DEF IInv

LEMMA TickKeeps == ASSUME IInv, Tick PROVE IInv'
  <1>1. now' \in Nat /\ now <= now'
    BY DEF Tick, IInv, TypeOK
  <1>2. TypeOK' /\ Pinned'
    BY <1>1 DEF Tick, access, papers, IInv, TypeOK, Pinned
  <1> QED
    BY <1>1, <1>2, PapersUntouched DEF Tick, access, papers

LEMMA CallKeeps ==
  ASSUME IInv,
         \/ \E expected, next \in CallStates : TransitionCall(expected, next)
         \/ \E next \in CallStates, closes \in ClosingTimes,
               fields, policy \in SUBSET ConsentFields : SaveCall(next, closes, fields, policy)
  PROVE  IInv'
  <1> USE DEF access, papers
  <1>0. /\ now \in Nat /\ forms \in Seq(SUBSET ConsentFields) /\ call.form \in 1..Len(forms)
        /\ call.moves \in Nat
    BY DEF IInv, TypeOK, Pinned
  <1>1. ASSUME NEW expected \in CallStates, NEW next \in CallStates, TransitionCall(expected, next)
        PROVE  IInv'
    <2>1. /\ call' = [state |-> next, closesAt |-> call.closesAt, form |-> call.form,
                      policy |-> call.policy, moves |-> call.moves + 1]
          /\ UNCHANGED <<now, forms, access, papers>>
      BY <1>1 DEF TransitionCall
    <2>2. TypeOK'
      BY <2>1 DEF IInv, TypeOK
    <2>3. Pinned'
      BY <2>1 DEF IInv, Pinned
    <2> QED
      BY <1>0, <2>1, <2>2, <2>3, PapersUntouched
  <1>2. ASSUME NEW next \in CallStates, NEW closes \in ClosingTimes,
               NEW fields \in SUBSET ConsentFields, NEW policy \in SUBSET ConsentFields,
               SaveCall(next, closes, fields, policy)
        PROVE  IInv'
    <2>1. /\ forms' = Sealed(fields)
          /\ call' = [state |-> next, closesAt |-> closes, form |-> CurrentForm(fields),
                      policy |-> policy, moves |-> call.moves + 1]
          /\ UNCHANGED <<now, access, papers>>
      BY <1>2 DEF SaveCall
    <2>2. /\ forms' \in Seq(SUBSET ConsentFields) /\ CurrentForm(fields) \in DOMAIN forms'
          /\ DOMAIN forms \subseteq DOMAIN forms' /\ CurrentForm(fields) \in Nat
      BY <1>0, <2>1 DEF Sealed, CurrentForm
    <2>3. TypeOK'
      BY <1>0, <2>1, <2>2 DEF IInv, TypeOK
    <2>4. Pinned'
      BY <2>1, <2>2 DEF IInv, Pinned
    <2> QED
      BY <1>0, <2>1, <2>3, <2>4, PapersUntouched
  <1> QED
    BY <1>1, <1>2

LEMMA GrantKeeps ==
  ASSUME IInv, NEW a \in Applicants, NEW until \in ExtensionEnds, GrantExtension(a, until)
  PROVE  IInv'
  <1>1. TypeOK' /\ Pinned' /\ now \in Nat
    BY DEF GrantExtension, papers, IInv, TypeOK, Pinned
  <1> QED
    BY <1>1, PapersUntouched DEF GrantExtension, papers

LEMMA IssueKeeps == ASSUME IInv, NEW a \in Applicants, IssueVerification(a) PROVE IInv'
  <1> USE DEF papers
  <1>1. /\ issued' = [issued EXCEPT ![a] = Append(issued[a], now)]
        /\ UNCHANGED <<now, call, forms, people, extensions, sessions, papers>>
    BY DEF IssueVerification
  <1>2. now \in Nat /\ issued[a] \in Seq(Nat) /\ issued'[a] = Append(issued[a], now)
        /\ \A b \in Applicants \ {a} : issued'[b] = issued[b]
    BY <1>1 DEF IInv, TypeOK
  <1>3. TypeOK'
    BY <1>1, <1>2 DEF IInv, TypeOK
  <1>4. Pinned' /\ Current' /\ Evidence'
    BY <1>1 DEF IInv, Pinned, Current, Evidence, Written
  <1>5. Dated'
    <2> SUFFICES ASSUME NEW b \in Applicants
                 PROVE  /\ \A k \in DOMAIN issued'[b] : issued'[b][k] <= now
                        /\ \A n \in DOMAIN revisions[b] : revisions[b][n].at <= now
                        /\ \A i \in Issues : sessions[b][i] # None =>
                             /\ i <= Len(issued'[b])
                             /\ sessions[b][i].at <= now
                             /\ sessions[b][i].revokedAt # None => sessions[b][i].revokedAt <= now
                             /\ \A later \in (i + 1)..Len(issued'[b]) : sessions[b][i].at <= issued'[b][later]
      BY <1>1 DEF Dated
    <2>1. CASE b # a
      BY <2>1, <1>2 DEF IInv, Dated
    <2>2. CASE b = a
      <3>1. \A k \in DOMAIN issued'[a] : issued'[a][k] <= now
        BY <1>2 DEF IInv, Dated
      <3>2. \A n \in DOMAIN revisions[a] : revisions[a][n].at <= now
        BY DEF IInv, Dated
      <3>3. ASSUME NEW i \in Issues, sessions[a][i] # None
            PROVE  /\ i <= Len(issued'[a])
                   /\ sessions[a][i].at <= now
                   /\ sessions[a][i].revokedAt # None => sessions[a][i].revokedAt <= now
                   /\ \A later \in (i + 1)..Len(issued'[a]) : sessions[a][i].at <= issued'[a][later]
        <4>1. /\ i <= Len(issued[a]) /\ i \in Nat
              /\ sessions[a][i].at <= now
              /\ sessions[a][i].revokedAt # None => sessions[a][i].revokedAt <= now
              /\ \A later \in (i + 1)..Len(issued[a]) : sessions[a][i].at <= issued[a][later]
          BY <3>3 DEF IInv, Dated, Issues
        <4>2. Len(issued'[a]) = Len(issued[a]) + 1 /\ issued'[a][Len(issued[a]) + 1] = now
              /\ \A k \in 1..Len(issued[a]) : issued'[a][k] = issued[a][k]
          BY <1>2
        <4> QED
          BY <1>2, <4>1, <4>2
      <3> QED
        BY <2>2, <3>1, <3>2, <3>3
    <2> QED
      BY <2>1, <2>2
  <1> QED
    BY <1>3, <1>4, <1>5 DEF IInv

\* A session appears, or the moment of its revocation.
LEMMA SessionKeeps ==
  ASSUME IInv, NEW a \in Applicants, NEW i \in Issues, NEW x \in SessionRow,
         sessions' = [sessions EXCEPT ![a] = [sessions[a] EXCEPT ![i] = x]],
         people' \subseteq Applicants,
         UNCHANGED <<now, call, forms, extensions, issued, papers>>,
         i <= Len(issued[a]), x.at <= now, x.revokedAt # None => x.revokedAt = now,
         \A later \in (i + 1)..Len(issued[a]) : x.at <= issued[a][later],
         sessions[a][i] # None => sessions[a][i].at = x.at
  PROVE  IInv'
  <1> USE DEF papers
  <1>1. /\ sessions'[a][i] = x /\ x # None
        /\ \A b \in Applicants, j \in Issues : <<b, j>> # <<a, i>> => sessions'[b][j] = sessions[b][j]
        /\ sessions' \in [Applicants -> [Issues -> {None} \union SessionRow]]
    BY NoneAssumption DEF IInv, TypeOK
  <1>2. now \in Nat
    BY DEF IInv, TypeOK
  <1>3. TypeOK' /\ Pinned' /\ Current'
    BY <1>1 DEF IInv, TypeOK, Pinned, Current
  <1>4. Dated'
    <2> SUFFICES ASSUME NEW b \in Applicants
                 PROVE  /\ \A k \in DOMAIN issued[b] : issued[b][k] <= now
                        /\ \A n \in DOMAIN revisions[b] : revisions[b][n].at <= now
                        /\ \A j \in Issues : sessions'[b][j] # None =>
                             /\ j <= Len(issued[b])
                             /\ sessions'[b][j].at <= now
                             /\ sessions'[b][j].revokedAt # None => sessions'[b][j].revokedAt <= now
                             /\ \A later \in (j + 1)..Len(issued[b]) : sessions'[b][j].at <= issued[b][later]
      BY DEF Dated
    <2>1. /\ \A k \in DOMAIN issued[b] : issued[b][k] <= now
          /\ \A n \in DOMAIN revisions[b] : revisions[b][n].at <= now
      BY DEF IInv, Dated
    <2>2. ASSUME NEW j \in Issues, sessions'[b][j] # None
          PROVE  /\ j <= Len(issued[b])
                 /\ sessions'[b][j].at <= now
                 /\ sessions'[b][j].revokedAt # None => sessions'[b][j].revokedAt <= now
                 /\ \A later \in (j + 1)..Len(issued[b]) : sessions'[b][j].at <= issued[b][later]
      <3>1. CASE <<b, j>> = <<a, i>>
        BY <3>1, <1>1, <1>2
      <3>2. CASE <<b, j>> # <<a, i>>
        BY <2>2, <3>2, <1>1 DEF IInv, Dated
      <3> QED
        BY <3>1, <3>2
    <2> QED
      BY <2>1, <2>2
  <1>5. Evidence'
    <2> SUFFICES ASSUME NEW b \in Applicants, NEW n \in DOMAIN revisions[b] PROVE Written(b, n)'
      BY DEF Evidence
    <2> DEFINE j == revisions[b][n].session
    <2>1. Written(b, n) /\ revisions[b][n].at <= now /\ j \in Issues
      BY StoredRevision DEF IInv, Evidence, Dated
    <2>2. CASE <<b, j>> # <<a, i>>
      <3>1. sessions'[b][j] = sessions[b][j]
        BY <2>1, <2>2, <1>1
      <3> QED
        BY <2>1, <3>1 DEF Written
    <2>3. CASE <<b, j>> = <<a, i>>
      <3>1. sessions'[b][j] = x /\ sessions[b][j].at = x.at
        BY <2>1, <2>3, <1>1 DEF Written
      <3> QED
        BY <2>1, <3>1, <1>1 DEF Written
    <2> QED
      BY <2>2, <2>3
  <1> QED
    BY <1>3, <1>4, <1>5 DEF IInv

LEMMA ConsumeKeeps ==
  ASSUME IInv, NEW a \in Applicants, NEW i \in Issues, ConsumeVerification(a, i)
  PROVE  IInv'
  <1> DEFINE x == [at |-> now, revokedAt |-> None]
  <1>1. /\ sessions' = [sessions EXCEPT ![a] = [sessions[a] EXCEPT ![i] = x]]
        /\ people' \subseteq Applicants /\ i = Len(issued[a]) /\ sessions[a][i] = None
        /\ UNCHANGED <<now, call, forms, extensions, issued, papers>>
    BY DEF ConsumeVerification, Consumable, Opened, IInv, TypeOK
  <1>2. /\ x \in SessionRow /\ x.at <= now /\ x.revokedAt = None
        /\ i <= Len(issued[a]) /\ \A later \in (i + 1)..Len(issued[a]) : x.at <= issued[a][later]
    BY <1>1 DEF IInv, TypeOK, SessionRow, Issues
  <1> HIDE DEF x
  <1> QED
    BY <1>1, <1>2, SessionKeeps

LEMMA RevokeKeeps ==
  ASSUME IInv, NEW a \in Applicants, NEW i \in Issues, RevokeSession(a, i)
  PROVE  IInv'
  <1> DEFINE x == [at |-> sessions[a][i].at, revokedAt |-> now]
  <1>1. /\ sessions' = [sessions EXCEPT ![a] = [sessions[a] EXCEPT ![i] = x]] /\ sessions[a][i] # None
        /\ UNCHANGED <<now, call, forms, people, extensions, issued, papers>>
    BY DEF RevokeSession, Opened
  <1>2. /\ sessions[a][i].at \in Nat /\ sessions[a][i].at <= now /\ now \in Nat /\ people \subseteq Applicants
        /\ i <= Len(issued[a]) /\ \A later \in (i + 1)..Len(issued[a]) : sessions[a][i].at <= issued[a][later]
    BY <1>1 DEF IInv, Dated, TypeOK, SessionRow
  <1>3. /\ x \in SessionRow /\ x.at = sessions[a][i].at /\ x.revokedAt = now
    BY <1>2 DEF SessionRow
  <1> HIDE DEF x
  <1> QED
    BY <1>1, <1>2, <1>3, SessionKeeps

LEMMA CreateKeeps ==
  ASSUME IInv, NEW a \in Applicants, NEW i \in Issues, CreateDraft(a, i)
  PROVE  IInv'
  <1> USE DEF access
  <1> DEFINE x == [state |-> "DRAFT", form |-> call.form, current |-> 0, createdAt |-> now, updatedAt |-> now]
  <1>1. /\ submission' = [submission EXCEPT ![a] = x] /\ submission[a] = None
        /\ UNCHANGED <<now, call, forms, access, revisions, decision, outbox>>
    BY DEF CreateDraft
  <1>2. /\ x \in SubmissionRow /\ x.form = call.form /\ x.current = 0
        /\ decision[a] = None /\ revisions[a] = <<>>
    BY <1>1 DEF IInv, TypeOK, Current, SubmissionRow
  <1> HIDE DEF x
  <1>3. submission'[a] = x /\ \A b \in Applicants \ {a} : submission'[b] = submission[b]
    BY <1>1 DEF IInv, TypeOK
  <1>4. TypeOK'
    BY <1>1, <1>2 DEF IInv, TypeOK
  <1>5. Pinned'
    BY <1>1, <1>2, <1>3 DEF IInv, Pinned
  <1>6. Current'
    BY <1>1, <1>2, <1>3, NoneAssumption DEF IInv, Current
  <1>7. Dated' /\ Evidence'
    BY <1>1 DEF IInv, Dated, Evidence, Written
  <1> QED
    BY <1>4, <1>5, <1>6, <1>7 DEF IInv

LEMMA DecideKeeps ==
  ASSUME IInv, NEW a \in Applicants, NEW expected \in 1..MaxRevisions, NEW outcome \in Outcomes,
         Decide(a, expected, outcome)
  PROVE  IInv'
  <1> USE DEF access
  <1> DEFINE x == [revision |-> expected, outcome |-> outcome]
  <1>1. /\ submission[a] # None /\ submission[a].state = "SUBMITTED" /\ submission[a].current = expected
        /\ decision' = [decision EXCEPT ![a] = x]
        /\ outbox' = [outbox EXCEPT ![a] = Append(@, outcome)]
        /\ UNCHANGED <<now, call, forms, access, submission, revisions>>
    BY DEF Decide, Owns, Tell
  <1>2. x \in DecisionRow /\ x.revision = expected
    BY DEF DecisionRow
  <1> HIDE DEF x
  <1>3. decision'[a] = x /\ \A b \in Applicants \ {a} : decision'[b] = decision[b]
    BY <1>1 DEF IInv, TypeOK
  <1>4. outbox' \in [Applicants -> Seq({Received} \union Outcomes)]
    BY <1>1, Told DEF IInv
  <1>5. TypeOK'
    BY <1>1, <1>2, <1>4 DEF IInv, TypeOK
  <1>6. Current'
    BY <1>1, <1>2, <1>3 DEF IInv, Current
  <1>7. Pinned' /\ Dated' /\ Evidence'
    BY <1>1 DEF IInv, Pinned, Dated, Evidence, Written
  <1> QED
    BY <1>5, <1>6, <1>7 DEF IInv

LEMMA InvariantStep == IInv /\ [Next]_vars => IInv'
  <1> SUFFICES ASSUME IInv, [Next]_vars PROVE IInv'
    OBVIOUS
  <1>1. CASE UNCHANGED vars
    BY <1>1 DEF vars, access, papers, IInv, TypeOK, Pinned, Current, Dated, Evidence, Written
  <1>2. CASE Tick
    BY <1>2, TickKeeps
  <1>3. CASE OrganizerStep
    BY <1>3, CallKeeps, GrantKeeps, RevokeKeeps, DecideKeeps DEF OrganizerStep
  <1>4. ASSUME NEW a \in Applicants, ApplicantStep(a) PROVE IInv'
    BY <1>4, IssueKeeps, ConsumeKeeps, CreateKeeps, WritesKeep DEF ApplicantStep
  <1> QED
    BY <1>1, <1>2, <1>3, <1>4 DEF Next

\* The tables of a call keep their types and fit each other: every pinned form
\* version exists, the current revision is the last, and nothing on record is
\* from the future.
THEOREM TypeCorrect == Spec => [](TypeOK /\ Pinned /\ Current /\ Dated)
  <1>1. IInv => TypeOK /\ Pinned /\ Current /\ Dated
    BY DEF IInv
  <1> QED
    BY <1>1, InitInvariant, InvariantStep, PTL DEF Spec

(***************************************************************************)
(* What the invariant is for                                               *)
(***************************************************************************)
\* A decision is about the revision that stays the current one for ever
\* (decideCfpSubmission against amendSubmittedSubmission).
THEOREM DecisionsStand == Spec => []DecidedRevisionStands
  <1>1. IInv => DecidedRevisionStands
    BY DEF IInv, Current, DecidedRevisionStands
  <1> QED
    BY <1>1, InitInvariant, InvariantStep, PTL DEF Spec

\* No stale page, revoked or expired session or superseded link ever writes a
\* revision (consumeEmailVerification, assertApplicantAccess,
\* saveRevisionInternal).
THEOREM EvidenceIsChained == Spec => []ChainOfEvidence
  <1>1. ASSUME IInv PROVE ChainOfEvidence
    <2> SUFFICES ASSUME NEW a \in Applicants, NEW n \in 1..MaxRevisions, n <= Len(revisions[a])
                 PROVE  LET r == revisions[a][n]
                            s == sessions[a][r.session]
                        IN /\ r.after = n - 1
                           /\ n > 1 => revisions[a][n - 1].at <= r.at
                           /\ s # None
                           /\ s.at <= r.at /\ r.at < s.at + SessionTtl
                           /\ s.revokedAt # None => r.at <= s.revokedAt
                           /\ \A later \in (r.session + 1)..Len(issued[a]) : s.at <= issued[a][later]
      BY DEF ChainOfEvidence
    <2>1. revisions[a] \in Seq(Revision)
      BY <1>1 DEF IInv, TypeOK
    <2>2. n \in DOMAIN revisions[a]
      BY <2>1
    <2>3. Written(a, n) /\ revisions[a][n].session \in Issues
      BY <1>1, <2>2, StoredRevision DEF IInv, Evidence
    <2>4. \A later \in (revisions[a][n].session + 1)..Len(issued[a]) :
             sessions[a][revisions[a][n].session].at <= issued[a][later]
      BY <1>1, <2>3 DEF IInv, Dated, Written
    <2> QED
      BY <2>3, <2>4 DEF Written
  <1> QED
    BY <1>1, InitInvariant, InvariantStep, PTL DEF Spec

LEMMA PolicyStep == IInv /\ DraftsFitThePolicy /\ [Next]_vars => DraftsFitThePolicy'
  <1> SUFFICES ASSUME IInv, DraftsFitThePolicy, [Next]_vars PROVE DraftsFitThePolicy'
    OBVIOUS
  <1> USE DEF access, papers
  <1>0. forms \in Seq(SUBSET ConsentFields) /\ call.form \in DOMAIN forms
    BY DEF IInv, TypeOK, Pinned
  <1>1. CASE UNCHANGED <<forms, call, submission>>
    BY <1>1 DEF DraftsFitThePolicy
  <1>2. ASSUME NEW expected \in CallStates, NEW next \in CallStates, TransitionCall(expected, next)
        PROVE  DraftsFitThePolicy'
    BY <1>2 DEF TransitionCall, DraftsFitThePolicy
  <1>3. ASSUME NEW next \in CallStates, NEW closes \in ClosingTimes,
               NEW fields \in SUBSET ConsentFields, NEW policy \in SUBSET ConsentFields,
               SaveCall(next, closes, fields, policy)
        PROVE  DraftsFitThePolicy'
    <2>1. /\ forms' = Sealed(fields) /\ call'.form = CurrentForm(fields) /\ call'.policy = policy
          /\ policy \subseteq fields /\ \A v \in DraftPins : policy \subseteq forms[v]
          /\ submission' = submission
      BY <1>3 DEF SaveCall, PolicyFits
    <2>2. forms'[call'.form] = fields /\ \A v \in DOMAIN forms : forms'[v] = forms[v]
      BY <1>0, <2>1 DEF Sealed, CurrentForm
    <2>3. \A a \in Applicants : submission[a] # None /\ submission[a].state = "DRAFT" =>
            submission[a].form \in DraftPins /\ submission[a].form \in DOMAIN forms
      BY DEF DraftPins, IInv, Pinned
    <2> QED
      BY <2>1, <2>2, <2>3 DEF DraftsFitThePolicy
  <1>4. ASSUME NEW a \in Applicants, NEW i \in Issues, CreateDraft(a, i) PROVE DraftsFitThePolicy'
    <2> DEFINE x == [state |-> "DRAFT", form |-> call.form, current |-> 0, createdAt |-> now, updatedAt |-> now]
    <2>1. submission' = [submission EXCEPT ![a] = x] /\ x.form = call.form /\ UNCHANGED <<forms, call>>
      BY <1>4 DEF CreateDraft
    <2> HIDE DEF x
    <2> QED
      BY <2>1 DEF IInv, TypeOK, DraftsFitThePolicy
  <1>5. ASSUME NEW a \in Applicants, NEW i \in Issues, NEW expected, NEW answered,
               SaveDraft(a, i, expected, answered) \/ Submit(a, i, expected, answered)
                 \/ Amend(a, i, expected, answered)
        PROVE  DraftsFitThePolicy'
    <2>1. /\ submission[a] # None /\ UNCHANGED <<call, forms>>
          /\ NewRevision(a, i, expected, answered)
          /\ \E status \in {"DRAFT", "SUBMITTED"}, updatedAt \in Nat : Revised(a, status, updatedAt)
      BY <1>5, Writes
    <2>2. call.policy \subseteq forms[submission[a].form]
      BY <2>1 DEF NewRevision
    <2>3. /\ submission'[a].form = submission[a].form
          /\ \A b \in Applicants \ {a} : submission'[b] = submission[b]
      BY <2>1, RowWritten
    <2> QED
      BY <2>1, <2>2, <2>3 DEF DraftsFitThePolicy
  <1> QED
    BY <1>1, <1>2, <1>3, <1>4, <1>5 DEF Next, vars, Tick, OrganizerStep, GrantExtension,
       RevokeSession, Decide, ApplicantStep, IssueVerification, ConsumeVerification

\* Whatever the organizers change, no draft is stuck on a form that cannot give
\* the consent the call asks for (updateCallPolicy).
THEOREM DraftsAlwaysFitThePolicy == Spec => []DraftsFitThePolicy
  <1>1. Init => DraftsFitThePolicy
    BY DEF Init, DraftsFitThePolicy
  <1> QED
    BY <1>1, PolicyStep, InitInvariant, InvariantStep, PTL DEF Spec

LEMMA DeadlineStep ==
  ASSUME IInv, [Next]_vars, NEW a \in Applicants,
         <<submission[a], revisions[a]>>' # <<submission[a], revisions[a]>>
  PROVE  \/ call.state = "OPEN" /\ now < call.closesAt
         \/ /\ call.state \in {"OPEN", "CLOSED"}
            /\ submission[a] = None \/ submission[a].state = "DRAFT"
            /\ \E until \in extensions[a] : now < until
  <1> USE DEF access, papers
  <1>1. CASE UNCHANGED <<submission, revisions>>
    BY <1>1
  <1>2. ASSUME NEW b \in Applicants, NEW i \in Issues, CreateDraft(b, i)
        PROVE  a = b /\ Authorized(a, i) /\ submission[a] = None
    BY <1>2 DEF CreateDraft, IInv, TypeOK
  <1>3. ASSUME NEW b \in Applicants, NEW i \in Issues, NEW expected, NEW answered,
               SaveDraft(b, i, expected, answered) \/ Submit(b, i, expected, answered)
                 \/ Amend(b, i, expected, answered)
        PROVE  /\ a = b /\ Authorized(a, i)
               /\ submission[a].state = "DRAFT" \/ (call.state = "OPEN" /\ now < call.closesAt)
    <2>1. \A c \in Applicants \ {b} : submission'[c] = submission[c] /\ revisions'[c] = revisions[c]
      BY <1>3, Writes, RowWritten, RevisionWritten
    <2>2. a = b
      BY <2>1
    <2> QED
      BY <1>3, <2>2 DEF SaveDraft, Submit, Submittable, Amend, Amendable
  <1>4. ASSUME NEW i \in Issues, Authorized(a, i)
        PROVE  \/ call.state = "OPEN" /\ now < call.closesAt
               \/ /\ call.state \in {"OPEN", "CLOSED"}
                  /\ \E until \in extensions[a] : now < until
    BY <1>4 DEF Authorized, CallAccess, LateLeave
  <1> QED
    BY <1>1, <1>2, <1>3, <1>4 DEF Next, vars, Tick, OrganizerStep, TransitionCall, SaveCall,
       GrantExtension, RevokeSession, Decide, ApplicantStep, IssueVerification, ConsumeVerification

\* Past its deadline a call takes drafts from people with an active extension
\* and changes of what was submitted from nobody (evaluateCallAccess,
\* isOpenCallAt).
THEOREM DeadlinesHold == Spec => DeadlineHolds
  <1>1. IInv /\ [Next]_vars =>
          [\A a \in Applicants : <<submission[a], revisions[a]>>' # <<submission[a], revisions[a]>> =>
             \/ call.state = "OPEN" /\ now < call.closesAt
             \/ /\ call.state \in {"OPEN", "CLOSED"}
                /\ submission[a] = None \/ submission[a].state = "DRAFT"
                /\ \E until \in extensions[a] : now < until]_vars
    BY DeadlineStep
  <1> QED
    BY <1>1, InitInvariant, InvariantStep, PTL DEF Spec, DeadlineHolds

LEMMA ToldStep == IInv /\ ApplicantIsToldOnce /\ [Next]_vars => ApplicantIsToldOnce'
  <1> SUFFICES ASSUME IInv, ApplicantIsToldOnce, [Next]_vars PROVE ApplicantIsToldOnce'
    OBVIOUS
  <1> USE DEF access, papers
  <1>1. CASE UNCHANGED <<submission, decision, outbox>>
    BY <1>1 DEF ApplicantIsToldOnce
  <1>2. ASSUME NEW a \in Applicants, UNCHANGED decision,
               \A b \in Applicants \ {a} : submission'[b] = submission[b] /\ outbox'[b] = outbox[b],
               outbox'[a] = (IF submission'[a] # None /\ submission'[a].state = "SUBMITTED"
                             THEN <<Received>> ELSE <<>>)
                            \o (IF decision[a] # None THEN <<decision[a].outcome>> ELSE <<>>)
        PROVE  ApplicantIsToldOnce'
    BY <1>2 DEF ApplicantIsToldOnce
  <1>3. ASSUME NEW a \in Applicants, NEW i \in Issues, CreateDraft(a, i) PROVE ApplicantIsToldOnce'
    <2> DEFINE x == [state |-> "DRAFT", form |-> call.form, current |-> 0, createdAt |-> now, updatedAt |-> now]
    <2>1. /\ submission' = [submission EXCEPT ![a] = x] /\ submission[a] = None /\ x.state = "DRAFT"
          /\ UNCHANGED <<decision, outbox>>
      BY <1>3 DEF CreateDraft
    <2> HIDE DEF x
    <2>2. submission'[a] = x /\ \A b \in Applicants \ {a} : submission'[b] = submission[b]
      BY <2>1 DEF IInv, TypeOK
    <2> QED
      BY <2>1, <2>2, <1>2 DEF ApplicantIsToldOnce
  <1>4. ASSUME NEW a \in Applicants, NEW i \in Issues, NEW expected, NEW answered,
               SaveDraft(a, i, expected, answered) \/ Amend(a, i, expected, answered)
        PROVE  ApplicantIsToldOnce'
    <2>1. /\ submission[a] # None /\ UNCHANGED <<decision, outbox>>
          /\ submission[a].state \in {"DRAFT", "SUBMITTED"}
          /\ \E updatedAt \in Nat : Revised(a, submission[a].state, updatedAt)
      <3>1. submission[a] # None /\ UNCHANGED <<decision, outbox>>
        BY <1>4 DEF SaveDraft, Amend, Owns
      <3>2. submission[a] \in SubmissionRow /\ now \in Nat
        BY <3>1 DEF IInv, TypeOK
      <3>3. submission[a].state \in {"DRAFT", "SUBMITTED"} /\ submission[a].updatedAt \in Nat
        BY <3>2 DEF SubmissionRow
      <3> QED
        BY <1>4, <3>1, <3>2, <3>3 DEF SaveDraft, Amend
    <2>2. /\ submission'[a] # None /\ submission'[a].state = submission[a].state
          /\ \A b \in Applicants \ {a} : submission'[b] = submission[b]
      BY <2>1, RowWritten
    <2> QED
      BY <2>1, <2>2, <1>2 DEF ApplicantIsToldOnce
  <1>5. ASSUME NEW a \in Applicants, NEW i \in Issues, NEW expected, NEW answered,
               Submit(a, i, expected, answered)
        PROVE  ApplicantIsToldOnce'
    <2>1. /\ submission[a] # None /\ submission[a].state = "DRAFT" /\ Revised(a, "SUBMITTED", now)
          /\ outbox' = [outbox EXCEPT ![a] = Append(outbox[a], Received)] /\ decision' = decision
      BY <1>5 DEF Submit, Submittable, Owns, Tell
    <2>2. decision[a] = None /\ now \in Nat
      BY <2>1 DEF IInv, Current, TypeOK
    <2>3. outbox[a] = <<>>
      <3>1. outbox[a] = <<>> \o <<>>
        BY <2>1, <2>2 DEF ApplicantIsToldOnce
      <3>2. <<>> \o <<>> = <<>>
        OBVIOUS
      <3> QED
        BY <3>1, <3>2
    <2>4. /\ outbox'[a] = <<Received>>
          /\ \A b \in Applicants \ {a} : outbox'[b] = outbox[b]
      BY <2>1, <2>3 DEF IInv, TypeOK
    <2>5. /\ submission'[a] # None /\ submission'[a].state = "SUBMITTED"
          /\ \A b \in Applicants \ {a} : submission'[b] = submission[b]
      BY <2>1, <2>2, RowWritten
    <2>6. <<Received>> \o <<>> = <<Received>>
      OBVIOUS
    <2> QED
      BY <2>1, <2>2, <2>4, <2>5, <2>6, <1>2
  <1>6. ASSUME NEW a \in Applicants, NEW expected \in 1..MaxRevisions, NEW outcome \in Outcomes,
               Decide(a, expected, outcome)
        PROVE  ApplicantIsToldOnce'
    <2> DEFINE x == [revision |-> expected, outcome |-> outcome]
    <2>1. /\ submission[a] # None /\ submission[a].state = "SUBMITTED" /\ decision[a] = None
          /\ decision' = [decision EXCEPT ![a] = x]
          /\ outbox' = [outbox EXCEPT ![a] = Append(outbox[a], outcome)]
          /\ submission' = submission
      BY <1>6 DEF Decide, Owns, Undecided, Tell
    <2>2. x # None /\ x.outcome = outcome
      BY NoneAssumption DEF DecisionRow
    <2> HIDE DEF x
    <2>3. decision'[a] = x /\ \A b \in Applicants \ {a} : decision'[b] = decision[b] /\ outbox'[b] = outbox[b]
      BY <2>1 DEF IInv, TypeOK
    <2>4. outbox[a] = <<Received>> \o <<>>
      BY <2>1 DEF ApplicantIsToldOnce
    <2>5. Append(<<Received>> \o <<>>, outcome) = <<Received>> \o <<outcome>>
      OBVIOUS
    <2>6. outbox'[a] = <<Received>> \o <<outcome>>
      BY <2>1, <2>4, <2>5 DEF IInv, TypeOK
    <2> QED
      BY <2>1, <2>2, <2>3, <2>6 DEF ApplicantIsToldOnce
  <1> QED
    BY <1>1, <1>3, <1>4, <1>5, <1>6 DEF Next, vars, Tick, OrganizerStep, TransitionCall, SaveCall,
       GrantExtension, RevokeSession, ApplicantStep, IssueVerification, ConsumeVerification

\* Receipt and decision are announced once each, in this order
\* (queueSubmissionConfirmation, decideCfpSubmission).
THEOREM ApplicantsAreToldOnce == Spec => []ApplicantIsToldOnce
  <1>1. Init => ApplicantIsToldOnce
    BY DEF Init, ApplicantIsToldOnce
  <1> QED
    BY <1>1, ToldStep, InitInvariant, InvariantStep, PTL DEF Spec

-----------------------------------------------------------------------------
(***************************************************************************)
(* The review round                                                        *)
(***************************************************************************)

(* A disposition is about an assignment that exists.                           *)
DispositionsOfAssigned == \A k \in Keys : state[k] = "NONE" => conflicts[k] = 0

ReviewInv == ReviewTypeOK /\ DispositionsOfAssigned

LEMMA KeyParts ==
    /\ \A k \in Keys : /\ k[1] \in Submissions /\ k[2] \in 1..MaxRevision /\ k[3] \in Reviewers
                       /\ k = <<k[1], k[2], k[3]>>
    /\ \A s \in Submissions, v \in 1..MaxRevision, r \in Reviewers : <<s, v, r>> \in Keys
  BY DEF Keys

LEMMA PlanIsFree ==
    ASSUME NEW plan, NEW subs, NEW request, IsPlan(plan, subs, request), NEW k \in plan
    PROVE  ~Retired(SubmissionOf(k), ReviewerOf(k)) /\ IsCurrent(k) /\ SubmissionOf(k) \in subs
  BY DEF IsPlan

LEMMA InitTyped == ReviewInit => ReviewInv
  <1> SUFFICES ASSUME ReviewInit PROVE ReviewInv
    OBVIOUS
  <1>1. ReviewTypeOK
    BY ReviewConstants DEF ReviewInit, ReviewTypeOK, Packets, Pages
  <1>2. DispositionsOfAssigned
    BY DEF ReviewInit, DispositionsOfAssigned
  <1> QED
    BY <1>1, <1>2 DEF ReviewInv

(* What a distribution of this plan writes.                                    *)
PlanWrites(plan, decided) ==
    /\ \A k \in plan : ~Retired(SubmissionOf(k), ReviewerOf(k))
    /\ \A k \in plan : packet[k] = Nothing /\ state[k] # "NONE" =>
           ~Declared(k) /\ rubricOf[k] \in semantics \cup {rubrics}
    /\ semantics' = semantics \cup {rubrics}
    /\ state' = [k \in Keys |-> IF k \in plan /\ state[k] = "NONE" THEN "ASSIGNED" ELSE state[k]]
    /\ rubricOf' = [k \in Keys |-> IF k \in plan /\ state[k] = "NONE" THEN rubrics ELSE rubricOf[k]]
    /\ packet' = [k \in Keys |-> IF k \in plan /\ packet[k] = Nothing
                                 THEN [decisions |-> decided[k[1]], conflict |-> conflicts[k]]
                                 ELSE packet[k]]
    /\ UNCHANGED <<round, current, rubrics, supersedes, conflicts, reviews, page>>

LEMMA DistributeWrites ==
    ASSUME ReviewTypeOK, NEW subs \in SUBSET Submissions, NEW request \in Requests,
           NEW decided \in [Submissions -> Decisions], Distribute(subs, request, decided)
    PROVE  \E plan \in SUBSET Keys : PlanWrites(plan, decided)
  <1>1. PICK plan \in SUBSET {k \in Keys : IsCurrent(k) /\ SubmissionOf(k) \in subs /\ ReviewerOf(k) \in request.reviewers} :
            /\ IsPlan(plan, subs, request)
            /\ \A k \in {j \in plan : packet[j] = Nothing} \ {j \in plan : state[j] = "NONE"} : CanSeal(k, SealedSemantics)
            /\ semantics' = SealedSemantics
            /\ state' = [k \in Keys |-> IF k \in {j \in plan : state[j] = "NONE"} THEN "ASSIGNED" ELSE state[k]]
            /\ rubricOf' = [k \in Keys |-> IF k \in {j \in plan : state[j] = "NONE"} THEN rubrics ELSE rubricOf[k]]
            /\ packet' = [k \in Keys |-> IF k \in {j \in plan : packet[j] = Nothing} THEN Packet(k, decided) ELSE packet[k]]
            /\ UNCHANGED <<round, current, rubrics, supersedes, conflicts, reviews, page>>
    BY DEF Distribute
  <1>2. plan \in SUBSET Keys
    OBVIOUS
  <1>3. \A k \in plan : ~Retired(SubmissionOf(k), ReviewerOf(k))
    BY <1>1, PlanIsFree
  <1>4. \A k \in plan : packet[k] = Nothing /\ state[k] # "NONE" =>
            ~Declared(k) /\ rubricOf[k] \in semantics \cup {rubrics}
    BY <1>1 DEF CanSeal, SealedSemantics
  <1>5. semantics' = semantics \cup {rubrics}
    BY <1>1 DEF SealedSemantics
  <1>6. state' = [k \in Keys |-> IF k \in plan /\ state[k] = "NONE" THEN "ASSIGNED" ELSE state[k]]
    BY <1>1
  <1>7. rubricOf' = [k \in Keys |-> IF k \in plan /\ state[k] = "NONE" THEN rubrics ELSE rubricOf[k]]
    BY <1>1
  <1>8. packet' = [k \in Keys |-> IF k \in plan /\ packet[k] = Nothing
                                  THEN [decisions |-> decided[k[1]], conflict |-> conflicts[k]]
                                  ELSE packet[k]]
    BY <1>1 DEF Packet, SubmissionOf
  <1> QED
    BY <1>1, <1>2, <1>3, <1>4, <1>5, <1>6, <1>7, <1>8 DEF PlanWrites

LEMMA TypeStep == ReviewTypeOK /\ [ReviewNext]_reviewVars => ReviewTypeOK'
  <1> SUFFICES ASSUME ReviewTypeOK, [ReviewNext]_reviewVars PROVE ReviewTypeOK'
    OBVIOUS
  <1> USE DEF organizing
  <1>1. CASE UNCHANGED reviewVars
    BY <1>1 DEF reviewVars, ReviewTypeOK
  <1>2. ASSUME NEW s \in Submissions, AmendSubmission(s) PROVE ReviewTypeOK'
    BY <1>2, ReviewConstants DEF AmendSubmission, ReviewTypeOK
  <1>3. ASSUME NEW next \in {"OPEN", "ENDED"}, SetRoundState(next) PROVE ReviewTypeOK'
    BY <1>3 DEF SetRoundState, ReviewTypeOK
  <1>4. CASE CreateRubric
    BY <1>4 DEF CreateRubric, ReviewTypeOK
  <1>5. ASSUME NEW subs \in SUBSET Submissions, NEW request \in Requests,
               NEW decided \in [Submissions -> Decisions], Distribute(subs, request, decided)
        PROVE  ReviewTypeOK'
    <2>1. PICK plan \in SUBSET Keys : PlanWrites(plan, decided)
      BY <1>5, DistributeWrites
    <2>2. packet' \in [Keys -> Packets]
      BY <2>1, KeyParts DEF PlanWrites, ReviewTypeOK, Packets
    <2>3. /\ semantics' \subseteq 1..rubrics' /\ rubricOf' \in [Keys -> Nat]
          /\ state' \in [Keys -> {"NONE", "ASSIGNED", "IN_PROGRESS", "SUBMITTED", "REVOKED"}]
      BY <2>1 DEF PlanWrites, ReviewTypeOK
    <2> QED
      BY <2>1, <2>2, <2>3 DEF PlanWrites, ReviewTypeOK
  <1>6. ASSUME NEW k \in Keys, Recuse(k) PROVE ReviewTypeOK'
    BY <1>6 DEF Recuse, ReviewTypeOK
  <1>7. ASSUME NEW k \in Keys, NEW r \in Reviewers, NEW decided \in Decisions, Replace(k, r, decided)
        PROVE  ReviewTypeOK'
    <2> DEFINE new == <<SubmissionOf(k), current[SubmissionOf(k)], r>>
    <2>1. /\ state' = [state EXCEPT ![k] = "REVOKED", ![new] = "ASSIGNED"]
          /\ rubricOf' = [rubricOf EXCEPT ![new] = rubricOf[k]]
          /\ supersedes' = [supersedes EXCEPT ![new] = Predecessor(k)]
          /\ packet' = [packet EXCEPT ![new] = [decisions |-> decided, conflict |-> 0]]
          /\ UNCHANGED <<round, current, rubrics, semantics, conflicts, reviews, page>>
      BY <1>7 DEF Replace
    <2>2. packet' \in [Keys -> Packets]
      BY <2>1 DEF ReviewTypeOK, Packets
    <2>3. supersedes' \in [Keys -> Keys \cup {Nothing}]
      BY <2>1 DEF ReviewTypeOK, Predecessor
    <2> HIDE DEF new
    <2> QED
      BY <2>1, <2>2, <2>3 DEF ReviewTypeOK
  <1>8. ASSUME NEW k \in Keys, Open(k) PROVE ReviewTypeOK'
    <2>1. page' = [page EXCEPT ![ReviewerOf(k)] =
                     [key |-> k, state |-> state[k], number |-> Len(reviews[k]), conflict |-> conflicts[k]]]
      BY <1>8 DEF Open, Assignment
    <2>2. [key |-> k, state |-> state[k], number |-> Len(reviews[k]), conflict |-> conflicts[k]] \in Pages
      BY <1>8 DEF Open, ReviewTypeOK, Pages
    <2>3. page' \in [Reviewers -> Pages]
      BY <2>1, <2>2 DEF ReviewTypeOK
    <2> QED
      BY <1>8, <2>3 DEF Open, ReviewTypeOK
  <1>9. ASSUME NEW r \in Reviewers, NEW declare \in BOOLEAN, Conflict(r, declare) PROVE ReviewTypeOK'
    BY <1>9 DEF Conflict, ReviewTypeOK, Pages
  <1>10. ASSUME NEW r \in Reviewers, SaveReview(r) PROVE ReviewTypeOK'
    <2>1. page[r] # Nothing /\ page[r].key \in Keys /\ page[r].number \in Nat
      BY <1>10 DEF SaveReview, ReviewTypeOK, Pages
    <2>2. /\ state' = [state EXCEPT ![page[r].key] = "IN_PROGRESS"]
          /\ reviews' = [reviews EXCEPT ![page[r].key] = Append(@, page[r].number)]
          /\ UNCHANGED <<round, current, conflicts, page, organizing>>
      BY <1>10 DEF SaveReview
    <2>3. reviews' \in [Keys -> Seq(Nat)]
      BY <2>1, <2>2 DEF ReviewTypeOK
    <2> QED
      BY <2>2, <2>3 DEF ReviewTypeOK
  <1>11. ASSUME NEW r \in Reviewers, SubmitReview(r) PROVE ReviewTypeOK'
    BY <1>11 DEF SubmitReview, ReviewTypeOK
  <1> QED
    BY <1>1, <1>2, <1>3, <1>4, <1>5, <1>6, <1>7, <1>8, <1>9, <1>10, <1>11 DEF ReviewNext

LEMMA DispositionsStep == ReviewInv /\ [ReviewNext]_reviewVars => DispositionsOfAssigned'
  <1> SUFFICES ASSUME ReviewInv, [ReviewNext]_reviewVars PROVE DispositionsOfAssigned'
    OBVIOUS
  <1> USE DEF organizing
  <1>1. CASE UNCHANGED <<state, conflicts>>
    BY <1>1 DEF ReviewInv, DispositionsOfAssigned
  <1>2. ASSUME \A k \in Keys : state'[k] = "NONE" => state[k] = "NONE", conflicts' = conflicts
        PROVE  DispositionsOfAssigned'
    BY <1>2 DEF ReviewInv, DispositionsOfAssigned
  <1>3. ASSUME NEW subs \in SUBSET Submissions, NEW request \in Requests,
               NEW decided \in [Submissions -> Decisions], Distribute(subs, request, decided)
        PROVE  DispositionsOfAssigned'
    <2>1. PICK plan \in SUBSET Keys : PlanWrites(plan, decided)
      BY <1>3, DistributeWrites DEF ReviewInv
    <2>2. \A k \in Keys : state'[k] = "NONE" => state[k] = "NONE"
      BY <2>1 DEF PlanWrites
    <2> QED
      BY <2>1, <2>2, <1>2 DEF PlanWrites
  <1>4. ASSUME NEW k \in Keys, Recuse(k) PROVE DispositionsOfAssigned'
    <2>1. state' = [state EXCEPT ![k] = "REVOKED"] /\ conflicts' = conflicts
      BY <1>4 DEF Recuse
    <2> QED
      BY <2>1, <1>2 DEF ReviewInv, ReviewTypeOK
  <1>5. ASSUME NEW k \in Keys, NEW r \in Reviewers, NEW decided \in Decisions, Replace(k, r, decided)
        PROVE  DispositionsOfAssigned'
    <2> DEFINE new == <<SubmissionOf(k), current[SubmissionOf(k)], r>>
    <2>1. state' = [state EXCEPT ![k] = "REVOKED", ![new] = "ASSIGNED"] /\ conflicts' = conflicts
      BY <1>5 DEF Replace
    <2> HIDE DEF new
    <2> QED
      BY <2>1, <1>2 DEF ReviewInv, ReviewTypeOK
  <1>6. ASSUME NEW r \in Reviewers, NEW declare \in BOOLEAN, Conflict(r, declare)
        PROVE  DispositionsOfAssigned'
    <2>1. /\ state[page[r].key] \in Active /\ state' = state
          /\ conflicts' = [conflicts EXCEPT ![page[r].key] = @ + 1]
      BY <1>6 DEF Conflict
    <2> QED
      BY <2>1 DEF ReviewInv, ReviewTypeOK, DispositionsOfAssigned, Active
  <1>7. ASSUME NEW r \in Reviewers, SaveReview(r) \/ SubmitReview(r) PROVE DispositionsOfAssigned'
    <2>1. \E x \in {"IN_PROGRESS", "SUBMITTED"} : state' = [state EXCEPT ![page[r].key] = x]
      BY <1>7 DEF SaveReview, SubmitReview
    <2>2. conflicts' = conflicts
      BY <1>7 DEF SaveReview, SubmitReview
    <2> QED
      BY <2>1, <2>2, <1>2 DEF ReviewInv, ReviewTypeOK
  <1> QED
    BY <1>1, <1>3, <1>4, <1>5, <1>6, <1>7 DEF ReviewNext, reviewVars, AmendSubmission, SetRoundState, CreateRubric, Open

LEMMA ReviewInvStep == ReviewInv /\ [ReviewNext]_reviewVars => ReviewInv'
  BY TypeStep, DispositionsStep DEF ReviewInv

(* Every row is what it says, and only existing assignments have dispositions  *)
(* (the foreign key of review_conflict_dispositions).                          *)
THEOREM ReviewTypeCorrect == ReviewSpec => [](ReviewTypeOK /\ DispositionsOfAssigned)
  <1> QED
    BY InitTyped, ReviewInvStep, PTL DEF ReviewSpec, ReviewInv
-----------------------------------------------------------------------------
LEMMA ConflictStep ==
    ASSUME ReviewInv, [ReviewNext]_reviewVars, NEW k \in Keys, conflicts[k] % 2 = 1
    PROVE  /\ reviews'[k] = reviews[k]
           /\ packet'[k] = packet[k]
           /\ state'[k] \in {state[k], "REVOKED"}
  <1> USE DEF organizing
  <1>1. Declared(k) /\ state[k] # "NONE"
    BY DEF Declared, ReviewInv, DispositionsOfAssigned
  <1>2. CASE UNCHANGED <<reviews, packet, state>>
    BY <1>2
  <1>3. ASSUME NEW subs \in SUBSET Submissions, NEW request \in Requests,
               NEW decided \in [Submissions -> Decisions], Distribute(subs, request, decided)
        PROVE  reviews' = reviews /\ packet'[k] = packet[k] /\ state'[k] = state[k]
    <2>1. PICK plan \in SUBSET Keys : PlanWrites(plan, decided)
      BY <1>3, DistributeWrites DEF ReviewInv
    <2> QED
      BY <2>1, <1>1 DEF PlanWrites
  <1>4. ASSUME NEW j \in Keys, Recuse(j) PROVE reviews' = reviews /\ packet' = packet /\ state'[k] \in {state[k], "REVOKED"}
    BY <1>4 DEF Recuse, ReviewInv, ReviewTypeOK
  <1>5. ASSUME NEW j \in Keys, NEW r \in Reviewers, NEW decided \in Decisions, Replace(j, r, decided)
        PROVE  reviews' = reviews /\ packet'[k] = packet[k] /\ state'[k] \in {state[k], "REVOKED"}
    <2> DEFINE new == <<SubmissionOf(j), current[SubmissionOf(j)], r>>
    <2>1. /\ state[new] = "NONE"
          /\ state' = [state EXCEPT ![j] = "REVOKED", ![new] = "ASSIGNED"]
          /\ packet' = [packet EXCEPT ![new] = [decisions |-> decided, conflict |-> 0]]
          /\ reviews' = reviews
      BY <1>5 DEF Replace
    <2> HIDE DEF new
    <2>2. new # k
      BY <2>1, <1>1
    <2> QED
      BY <2>1, <2>2 DEF ReviewInv, ReviewTypeOK
  <1>6. ASSUME NEW r \in Reviewers, SaveReview(r)
        PROVE  packet' = packet /\ state'[k] = state[k] /\ reviews'[k] = reviews[k]
    <2>1. /\ ~Declared(page[r].key) /\ packet' = packet
          /\ state' = [state EXCEPT ![page[r].key] = "IN_PROGRESS"]
          /\ reviews' = [reviews EXCEPT ![page[r].key] = Append(@, page[r].number)]
      BY <1>6 DEF SaveReview, RequireMutable
    <2>2. page[r].key # k
      BY <2>1, <1>1
    <2> QED
      BY <2>1, <2>2 DEF ReviewInv, ReviewTypeOK
  <1>7. ASSUME NEW r \in Reviewers, SubmitReview(r)
        PROVE  packet' = packet /\ state'[k] = state[k] /\ reviews' = reviews
    <2>1. /\ ~Declared(page[r].key) /\ packet' = packet /\ reviews' = reviews
          /\ state' = [state EXCEPT ![page[r].key] = "SUBMITTED"]
      BY <1>7 DEF SubmitReview, RequireMutable
    <2>2. page[r].key # k
      BY <2>1, <1>1
    <2> QED
      BY <2>1, <2>2 DEF ReviewInv, ReviewTypeOK
  <1> QED
    BY <1>2, <1>3, <1>4, <1>5, <1>6, <1>7 DEF ReviewNext, reviewVars, AmendSubmission, SetRoundState, CreateRubric, Open, Conflict

(* While a conflict of interest stands, the assignment can only be revoked     *)
(* (requireMutableAssignment, authoritativeConflict).                          *)
THEOREM ConflictAlwaysStopsWork == ReviewSpec => ConflictStopsWork
  <1>1. ReviewInv /\ [ReviewNext]_reviewVars =>
          [\A k \in Keys : conflicts[k] % 2 = 1 =>
             /\ reviews'[k] = reviews[k]
             /\ packet'[k] = packet[k]
             /\ state'[k] \in {state[k], "REVOKED"}]_reviewVars
    BY ConflictStep
  <1> QED
    BY <1>1, InitTyped, ReviewInvStep, PTL DEF ReviewSpec, ConflictStopsWork
-----------------------------------------------------------------------------
LEMMA NotRetired ==
    ASSUME ReviewInv, NEW s \in Submissions, NEW r \in Reviewers, ~Retired(s, r), NEW v \in 1..MaxRevision
    PROVE  state[<<s, v, r>>] # "REVOKED" /\ conflicts[<<s, v, r>>] % 2 = 0
  <1>1. <<s, v, r>> \in Keys
    BY KeyParts
  <1>2. conflicts[<<s, v, r>>] \in Nat
    BY <1>1 DEF ReviewInv, ReviewTypeOK
  <1>3. CASE state[<<s, v, r>>] = "NONE"
    BY <1>1, <1>3 DEF ReviewInv, DispositionsOfAssigned
  <1>4. CASE state[<<s, v, r>>] # "NONE"
    <2>1. <<s, v, r>> \in Assigned
      BY <1>1, <1>4 DEF Assigned
    <2>2. state[<<s, v, r>>] # "REVOKED" /\ ~Declared(<<s, v, r>>)
      BY <2>1 DEF Retired, SubmissionOf, ReviewerOf
    <2> QED
      BY <2>2, <1>2 DEF Declared
  <1> QED
    BY <1>3, <1>4

LEMMA RetiredStep ==
    ASSUME ReviewInv, [ReviewNext]_reviewVars, NEW k \in Keys,
           (state[k] = "NONE" /\ state'[k] # "NONE") \/ (packet[k] = Nothing /\ packet'[k] # Nothing)
    PROVE  ~Retired(SubmissionOf(k), ReviewerOf(k))
  <1> USE DEF organizing
  <1>1. CASE UNCHANGED <<state, packet>>
    BY <1>1
  <1>2. ASSUME NEW subs \in SUBSET Submissions, NEW request \in Requests,
               NEW decided \in [Submissions -> Decisions], Distribute(subs, request, decided)
        PROVE  ~Retired(SubmissionOf(k), ReviewerOf(k))
    <2>1. PICK plan \in SUBSET Keys : PlanWrites(plan, decided)
      BY <1>2, DistributeWrites DEF ReviewInv
    <2>2. k \in plan
      BY <2>1 DEF PlanWrites
    <2> QED
      BY <2>1, <2>2 DEF PlanWrites
  <1>3. ASSUME NEW j \in Keys, Recuse(j) PROVE FALSE
    <2>1. state[j] # "NONE" /\ state' = [state EXCEPT ![j] = "REVOKED"] /\ packet' = packet
      BY <1>3 DEF Recuse, Active
    <2> QED
      BY <2>1 DEF ReviewInv, ReviewTypeOK
  <1>4. ASSUME NEW j \in Keys, NEW r \in Reviewers, NEW decided \in Decisions, Replace(j, r, decided)
        PROVE  ~Retired(SubmissionOf(k), ReviewerOf(k))
    <2> DEFINE new == <<SubmissionOf(j), current[SubmissionOf(j)], r>>
    <2>1. /\ ~Retired(SubmissionOf(j), r) /\ state[j] # "NONE"
          /\ state' = [state EXCEPT ![j] = "REVOKED", ![new] = "ASSIGNED"]
          /\ packet' = [packet EXCEPT ![new] = [decisions |-> decided, conflict |-> 0]]
      BY <1>4 DEF Replace, Active
    <2>2. SubmissionOf(new) = SubmissionOf(j) /\ ReviewerOf(new) = r
      BY DEF SubmissionOf, ReviewerOf
    <2> HIDE DEF new
    <2>3. k = new
      BY <2>1 DEF ReviewInv, ReviewTypeOK
    <2> QED
      BY <2>1, <2>2, <2>3
  <1>5. ASSUME NEW r \in Reviewers, SaveReview(r) \/ SubmitReview(r) PROVE FALSE
    <2>1. /\ state[page[r].key] # "NONE" /\ packet' = packet
          /\ \E x : state' = [state EXCEPT ![page[r].key] = x]
      BY <1>5 DEF SaveReview, SubmitReview, RequireMutable, Active
    <2> QED
      BY <2>1 DEF ReviewInv, ReviewTypeOK
  <1> QED
    BY <1>1, <1>2, <1>3, <1>4, <1>5 DEF ReviewNext, reviewVars, AmendSubmission, SetRoundState, CreateRubric, Open, Conflict

(* No distribution, replacement or recusal assigns a reviewer to a submission, *)
(* or seals a packet of it, after a revocation or under a conflict about any   *)
(* revision of it (retiredReviewerSubmissionPair).                             *)
THEOREM RetiredReviewersStayRetired == ReviewSpec => RetiredStaysRetired
  <1>1. ASSUME ReviewInv, [ReviewNext]_reviewVars, NEW k \in Keys,
               (state[k] = "NONE" /\ state'[k] # "NONE") \/ (packet[k] = Nothing /\ packet'[k] # Nothing),
               NEW v \in 1..MaxRevision
        PROVE  state[<<SubmissionOf(k), v, ReviewerOf(k)>>] # "REVOKED"
               /\ conflicts[<<SubmissionOf(k), v, ReviewerOf(k)>>] % 2 = 0
    <2>1. SubmissionOf(k) \in Submissions /\ ReviewerOf(k) \in Reviewers
      BY KeyParts DEF SubmissionOf, ReviewerOf
    <2> QED
      BY <1>1, <2>1, RetiredStep, NotRetired
  <1>2. ReviewInv /\ [ReviewNext]_reviewVars =>
          [\A k \in Keys :
             (state[k] = "NONE" /\ state'[k] # "NONE") \/ (packet[k] = Nothing /\ packet'[k] # Nothing) =>
               \A v \in 1..MaxRevision :
                 LET j == <<SubmissionOf(k), v, ReviewerOf(k)>>
                 IN  state[j] # "REVOKED" /\ conflicts[j] % 2 = 0]_reviewVars
    BY <1>1
  <1> QED
    BY <1>2, InitTyped, ReviewInvStep, PTL DEF ReviewSpec, RetiredStaysRetired
-----------------------------------------------------------------------------
LEMMA PagesStep == ReviewInv /\ ReviewsBuildOnTheirPage /\ [ReviewNext]_reviewVars => ReviewsBuildOnTheirPage'
  <1> SUFFICES ASSUME ReviewInv, ReviewsBuildOnTheirPage, [ReviewNext]_reviewVars PROVE ReviewsBuildOnTheirPage'
    OBVIOUS
  <1> USE DEF organizing
  <1>1. CASE UNCHANGED reviews
    BY <1>1 DEF ReviewsBuildOnTheirPage
  <1>2. ASSUME NEW r \in Reviewers, SaveReview(r) PROVE ReviewsBuildOnTheirPage'
    <2> DEFINE p == page[r]
    <2>1. /\ p # Nothing /\ Len(reviews[p.key]) = p.number
          /\ reviews' = [reviews EXCEPT ![p.key] = Append(@, p.number)]
      BY <1>2 DEF SaveReview, UpToDate, ExpectedReview
    <2>2. p.key \in Keys /\ reviews[p.key] \in Seq(Nat) /\ p.number \in Nat
      BY <2>1 DEF ReviewInv, ReviewTypeOK, Pages
    <2>3. /\ reviews'[p.key] = Append(reviews[p.key], p.number)
          /\ \A k \in Keys \ {p.key} : reviews'[k] = reviews[k]
      BY <2>1, <2>2 DEF ReviewInv, ReviewTypeOK
    <2> HIDE DEF p
    <2>4. \A i \in 1..Len(reviews'[p.key]) : reviews'[p.key][i] = i - 1
      BY <2>1, <2>2, <2>3 DEF ReviewsBuildOnTheirPage
    <2> QED
      BY <2>3, <2>4 DEF ReviewsBuildOnTheirPage
  <1>3. ASSUME NEW subs \in SUBSET Submissions, NEW request \in Requests,
               NEW decided \in [Submissions -> Decisions], Distribute(subs, request, decided)
        PROVE  reviews' = reviews
    BY <1>3, DistributeWrites DEF ReviewInv, PlanWrites
  <1> QED
    BY <1>1, <1>2, <1>3 DEF ReviewNext, reviewVars, AmendSubmission, SetRoundState, CreateRubric, Recuse, Replace,
       Open, Conflict, SubmitReview

(* No saved review is overwritten unseen (expectedReviewRevisionNumber).       *)
THEOREM ReviewsAlwaysBuildOnTheirPage == ReviewSpec => []ReviewsBuildOnTheirPage
  <1>1. ReviewInit => ReviewsBuildOnTheirPage
    BY DEF ReviewInit, ReviewsBuildOnTheirPage
  <1> QED
    BY <1>1, PagesStep, InitTyped, ReviewInvStep, PTL DEF ReviewSpec
-----------------------------------------------------------------------------
(* What the chains of replaced assignments and the packets rest on.            *)

Chained ==
    \A j \in Keys : supersedes[j] # Nothing =>
        /\ state[j] # "NONE"
        /\ state[supersedes[j]] = "REVOKED"
        /\ supersedes[j][1] = j[1] /\ supersedes[j][2] = j[2]
        /\ \A i \in Keys : supersedes[i] = supersedes[j] => i = j

Bound ==
    \A k \in Keys :
        /\ packet[k] = Nothing /\ state[k] \notin {"NONE", "REVOKED"} => k \in Legacy /\ state[k] = "ASSIGNED"
        /\ packet[k] # Nothing =>
               /\ rubricOf[k] \in semantics
               /\ packet[k].conflict <= conflicts[k] /\ packet[k].conflict % 2 = 0

(* Where no successor is written, the chains stand as long as what is revoked  *)
(* stays so and no assignment vanishes.                                        *)
LEMMA ChainsStand ==
    ASSUME ReviewTypeOK, Chained, UNCHANGED supersedes,
           \A k \in Keys : state[k] = "REVOKED" => state'[k] = "REVOKED",
           \A k \in Keys : state[k] # "NONE" => state'[k] # "NONE"
    PROVE  Chained'
  BY DEF Chained, ReviewTypeOK

LEMMA ChainStep == ReviewInv /\ Chained /\ [ReviewNext]_reviewVars => Chained'
  <1> SUFFICES ASSUME ReviewInv, Chained, [ReviewNext]_reviewVars PROVE Chained'
    OBVIOUS
  <1> USE DEF organizing
  <1>0. ReviewTypeOK
    BY DEF ReviewInv
  <1>1. CASE UNCHANGED <<state, supersedes>>
    BY <1>0, <1>1, ChainsStand
  <1>2. ASSUME NEW subs \in SUBSET Submissions, NEW request \in Requests,
               NEW decided \in [Submissions -> Decisions], Distribute(subs, request, decided)
        PROVE  Chained'
    <2>1. PICK plan \in SUBSET Keys : PlanWrites(plan, decided)
      BY <1>0, <1>2, DistributeWrites
    <2>2. /\ \A k \in Keys : state[k] = "REVOKED" => state'[k] = "REVOKED"
          /\ \A k \in Keys : state[k] # "NONE" => state'[k] # "NONE"
          /\ supersedes' = supersedes
      BY <2>1 DEF PlanWrites
    <2> QED
      BY <1>0, <2>2, ChainsStand
  <1>3. ASSUME NEW k \in Keys, Recuse(k) PROVE Chained'
    <2>1. state' = [state EXCEPT ![k] = "REVOKED"] /\ supersedes' = supersedes
      BY <1>3 DEF Recuse
    <2> QED
      BY <1>0, <2>1, ChainsStand DEF ReviewTypeOK
  <1>4. ASSUME NEW k \in Keys, NEW r \in Reviewers, NEW decided \in Decisions, Replace(k, r, decided)
        PROVE  Chained'
    <2> DEFINE new == <<SubmissionOf(k), current[SubmissionOf(k)], r>>
    <2>1. /\ state[k] \in Active /\ state[new] = "NONE" /\ r # ReviewerOf(k)
          /\ state' = [state EXCEPT ![k] = "REVOKED", ![new] = "ASSIGNED"]
          /\ supersedes' = [supersedes EXCEPT ![new] = Predecessor(k)]
      BY <1>4 DEF Replace
    <2>2. new # k /\ new[1] = k[1]
      BY <2>1, KeyParts DEF SubmissionOf, ReviewerOf
    <2>3. Predecessor(k) # Nothing => Predecessor(k) = k /\ new[2] = k[2]
      BY DEF Predecessor, IsCurrent, SubmissionOf, RevisionOf
    <2> HIDE DEF new
    <2>4. \A j \in Keys : /\ supersedes'[j] = IF j = new THEN Predecessor(k) ELSE supersedes[j]
                          /\ state'[j] = IF j = new THEN "ASSIGNED" ELSE IF j = k THEN "REVOKED" ELSE state[j]
      BY <2>1, <2>2, <1>0 DEF ReviewTypeOK
    <2>5. \A j \in Keys : supersedes[j] # Nothing => supersedes[j] \in Keys /\ supersedes[j] # k /\ supersedes[j] # new
      BY <2>1, <1>0 DEF Chained, Active, ReviewTypeOK
    <2>6. ASSUME NEW j \in Keys, supersedes'[j] # Nothing
          PROVE  /\ state'[j] # "NONE" /\ state'[supersedes'[j]] = "REVOKED"
                 /\ supersedes'[j][1] = j[1] /\ supersedes'[j][2] = j[2]
      <3>1. CASE j = new
        BY <2>2, <2>3, <2>4, <2>6, <3>1
      <3>2. CASE j # new
        BY <2>4, <2>5, <2>6, <3>2 DEF Chained
      <3> QED
        BY <3>1, <3>2
    <2>7. ASSUME NEW j \in Keys, supersedes'[j] # Nothing, NEW i \in Keys, supersedes'[i] = supersedes'[j]
          PROVE  i = j
      <3>1. i # new => supersedes[i] = supersedes'[i]
        BY <2>4
      <3>2. j # new => supersedes[j] = supersedes'[j]
        BY <2>4
      <3>3. CASE i = new /\ j # new
        BY <2>3, <2>4, <2>5, <2>7, <3>2, <3>3
      <3>4. CASE j = new /\ i # new
        BY <2>3, <2>4, <2>5, <2>7, <3>1, <3>4
      <3>5. CASE i # new /\ j # new
        BY <2>7, <3>1, <3>2, <3>5 DEF Chained
      <3> QED
        BY <3>3, <3>4, <3>5
    <2> QED
      BY <2>6, <2>7 DEF Chained
  <1>5. ASSUME NEW r \in Reviewers, SaveReview(r) \/ SubmitReview(r) PROVE Chained'
    <2>1. PICK x \in {"IN_PROGRESS", "SUBMITTED"} : state' = [state EXCEPT ![page[r].key] = x]
      BY <1>5 DEF SaveReview, SubmitReview
    <2>2. state[page[r].key] \in Active /\ supersedes' = supersedes
      BY <1>5 DEF SaveReview, SubmitReview, RequireMutable
    <2> QED
      BY <1>0, <2>1, <2>2, ChainsStand DEF ReviewTypeOK, Active
  <1> QED
    BY <1>1, <1>2, <1>3, <1>4, <1>5 DEF ReviewNext, reviewVars, AmendSubmission, SetRoundState, CreateRubric, Open, Conflict

LEMMA BoundStep == ReviewInv /\ Bound /\ [ReviewNext]_reviewVars => Bound'
  <1> SUFFICES ASSUME ReviewInv, Bound, [ReviewNext]_reviewVars PROVE Bound'
    OBVIOUS
  <1> USE DEF organizing
  <1>0. ReviewTypeOK
    BY DEF ReviewInv
  <1>1. CASE UNCHANGED <<state, packet, rubricOf, semantics, conflicts>>
    BY <1>1 DEF Bound
  <1>2. ASSUME NEW subs \in SUBSET Submissions, NEW request \in Requests,
               NEW decided \in [Submissions -> Decisions], Distribute(subs, request, decided)
        PROVE  Bound'
    <2>1. PICK plan \in SUBSET Keys : PlanWrites(plan, decided)
      BY <1>0, <1>2, DistributeWrites
    <2>2. ASSUME NEW k \in Keys
          PROVE  /\ packet'[k] = Nothing /\ state'[k] \notin {"NONE", "REVOKED"} => k \in Legacy /\ state'[k] = "ASSIGNED"
                 /\ packet'[k] # Nothing =>
                        /\ rubricOf'[k] \in semantics'
                        /\ packet'[k].conflict <= conflicts'[k] /\ packet'[k].conflict % 2 = 0
      <3>1. CASE packet[k] # Nothing
        BY <2>1, <3>1 DEF PlanWrites, Bound
      <3>2. CASE packet[k] = Nothing /\ k \notin plan
        BY <2>1, <3>2 DEF PlanWrites, Bound
      <3>3. CASE packet[k] = Nothing /\ k \in plan
        <4>1. packet'[k] = [decisions |-> decided[k[1]], conflict |-> conflicts[k]]
          BY <2>1, <3>3 DEF PlanWrites
        <4>2. packet'[k] # Nothing
          <5>1. decided[k[1]] \in Decisions /\ conflicts[k] \in Nat
            BY <1>0, KeyParts DEF ReviewTypeOK
          <5> QED
            BY <4>1, <5>1, ReviewConstants
        <4>3. rubricOf'[k] \in semantics'
          BY <2>1, <3>3 DEF PlanWrites
        <4>4. conflicts[k] \in Nat /\ conflicts'[k] = conflicts[k] /\ conflicts[k] % 2 = 0
          <5>1. conflicts[k] \in Nat /\ conflicts'[k] = conflicts[k]
            BY <2>1, <1>0 DEF PlanWrites, ReviewTypeOK
          <5>2. conflicts[k] = 0 \/ conflicts[k] % 2 # 1
            BY <2>1, <3>3 DEF PlanWrites, ReviewInv, DispositionsOfAssigned, Declared
          <5> QED
            BY <5>1, <5>2
        <4> QED
          BY <4>1, <4>2, <4>3, <4>4
      <3> QED
        BY <3>1, <3>2, <3>3
    <2> QED
      BY <2>2 DEF Bound
  <1>3. ASSUME NEW k \in Keys, Recuse(k) PROVE Bound'
    <2>1. state' = [state EXCEPT ![k] = "REVOKED"] /\ UNCHANGED <<packet, rubricOf, semantics, conflicts>>
      BY <1>3 DEF Recuse
    <2> QED
      BY <1>0, <2>1 DEF ReviewTypeOK, Bound
  <1>4. ASSUME NEW k \in Keys, NEW r \in Reviewers, NEW decided \in Decisions, Replace(k, r, decided)
        PROVE  Bound'
    <2> DEFINE new == <<SubmissionOf(k), current[SubmissionOf(k)], r>>
    <2>1. /\ rubricOf[k] \in semantics
          /\ state' = [state EXCEPT ![k] = "REVOKED", ![new] = "ASSIGNED"]
          /\ rubricOf' = [rubricOf EXCEPT ![new] = rubricOf[k]]
          /\ packet' = [packet EXCEPT ![new] = [decisions |-> decided, conflict |-> 0]]
          /\ UNCHANGED <<semantics, conflicts>>
      BY <1>4 DEF Replace
    <2> HIDE DEF new
    <2>2. [decisions |-> decided, conflict |-> 0] # Nothing
      BY ReviewConstants
    <2>3. \A j \in Keys \ {new} : /\ state'[j] \in {state[j], "REVOKED"}
                                  /\ rubricOf'[j] = rubricOf[j] /\ packet'[j] = packet[j]
      BY <1>0, <2>1 DEF ReviewTypeOK
    <2>4. new \in Keys => rubricOf'[new] = rubricOf[k] /\ packet'[new] = [decisions |-> decided, conflict |-> 0]
      BY <1>0, <2>1 DEF ReviewTypeOK
    <2>5. \A j \in Keys : conflicts[j] \in Nat
      BY <1>0 DEF ReviewTypeOK
    <2>6. ASSUME NEW j \in Keys
          PROVE  /\ packet'[j] = Nothing /\ state'[j] \notin {"NONE", "REVOKED"} => j \in Legacy /\ state'[j] = "ASSIGNED"
                 /\ packet'[j] # Nothing =>
                        /\ rubricOf'[j] \in semantics'
                        /\ packet'[j].conflict <= conflicts'[j] /\ packet'[j].conflict % 2 = 0
      <3>1. CASE j = new
        BY <2>1, <2>2, <2>4, <2>5, <3>1
      <3>2. CASE j # new
        <4>1. /\ state'[j] \in {state[j], "REVOKED"} /\ rubricOf'[j] = rubricOf[j]
              /\ packet'[j] = packet[j] /\ conflicts'[j] = conflicts[j] /\ semantics' = semantics
          BY <2>1, <2>3, <3>2
        <4>2. /\ packet[j] = Nothing /\ state[j] \notin {"NONE", "REVOKED"} => j \in Legacy /\ state[j] = "ASSIGNED"
              /\ packet[j] # Nothing =>
                     /\ rubricOf[j] \in semantics
                     /\ packet[j].conflict <= conflicts[j] /\ packet[j].conflict % 2 = 0
          BY DEF Bound
        <4> QED
          BY <4>1, <4>2
      <3> QED
        BY <3>1, <3>2
    <2> QED
      BY <2>6 DEF Bound
  <1>5. ASSUME NEW r \in Reviewers, NEW declare \in BOOLEAN, Conflict(r, declare) PROVE Bound'
    <2>1. /\ conflicts' = [conflicts EXCEPT ![page[r].key] = @ + 1]
          /\ UNCHANGED <<state, packet, rubricOf, semantics>>
      BY <1>5 DEF Conflict
    <2>2. \A j \in Keys : conflicts[j] \in Nat /\ conflicts'[j] \in {conflicts[j], conflicts[j] + 1}
      BY <1>0, <2>1 DEF ReviewTypeOK
    <2>3. \A j \in Keys : packet[j] # Nothing => packet[j].conflict \in Nat
      BY <1>0 DEF ReviewTypeOK, Packets
    <2> QED
      BY <2>1, <2>2, <2>3 DEF Bound
  <1>6. ASSUME NEW r \in Reviewers, SaveReview(r) \/ SubmitReview(r) PROVE Bound'
    <2>1. PICK x \in {"IN_PROGRESS", "SUBMITTED"} : state' = [state EXCEPT ![page[r].key] = x]
      BY <1>6 DEF SaveReview, SubmitReview
    <2>2. packet[page[r].key] # Nothing /\ UNCHANGED <<packet, rubricOf, semantics, conflicts>>
      BY <1>6 DEF SaveReview, SubmitReview, TrustedPacket
    <2> QED
      BY <1>0, <2>1, <2>2 DEF ReviewTypeOK, Bound
  <1> QED
    BY <1>1, <1>2, <1>3, <1>4, <1>5, <1>6 DEF ReviewNext, reviewVars, AmendSubmission, SetRoundState, CreateRubric, Open

(* Induction over the naturals, for a set that is closed under the successor.  *)
LEMMA ClosedUnderSuccessor ==
    ASSUME NEW S, 0 \in S, \A n \in Nat : n \in S => n + 1 \in S
    PROVE  Nat \subseteq S
  <1> DEFINE Less == {r \in Nat \X Nat : r[1] < r[2]}
  <1> SUFFICES ASSUME Nat \ S # {} PROVE FALSE
    OBVIOUS
  <1>1. IsWellFoundedOn(Less, Nat)
    BY NatLessThanWellFounded DEF OpToRel
  <1>2. PICK n \in Nat \ S : \A m \in Nat \ S : <<m, n>> \notin Less
    BY <1>1, WFMin
  <1>3. n - 1 \in Nat /\ <<n - 1, n>> \in Less
    OBVIOUS
  <1>4. n - 1 \in S
    BY <1>2, <1>3
  <1> QED
    BY <1>3, <1>4

LEMMA ChainRecursion ==
    ASSUME NEW k
    PROVE  /\ Cardinality(Reviewers) \in Nat
           /\ Chain(k)[0] = Direct({k})
           /\ \A n \in 1..Cardinality(Reviewers) : Chain(k)[n] = Chain(k)[n - 1] \cup Direct(Chain(k)[n - 1])
  <1> DEFINE After(A) == A \cup Direct(A)
             IsChain(f, m) == f = [n \in 0..m |-> IF n = 0 THEN Direct({k}) ELSE After(f[n - 1])]
             Has == {m \in Nat : \E f : IsChain(f, m)}
             c == Cardinality(Reviewers)
  <1>1. Chain(k) = CHOOSE f : IsChain(f, c)
    BY DEF Chain
  <1>2. c \in Nat
    BY ReviewConstants, FS_CardinalityType
  <1> HIDE DEF After, c
  <1>3. 0 \in Has
    <2>1. IsChain([n \in 0..0 |-> Direct({k})], 0)
      OBVIOUS
    <2> QED
      BY <2>1
  <1>4. ASSUME NEW m \in Nat, m \in Has PROVE m + 1 \in Has
    <2>1. PICK f : IsChain(f, m)
      BY <1>4
    <2> DEFINE g == [n \in 0..(m + 1) |-> IF n = m + 1 THEN After(f[m]) ELSE f[n]]
    <2>2. ASSUME NEW n \in 0..(m + 1)
          PROVE  g[n] = IF n = 0 THEN Direct({k}) ELSE After(g[n - 1])
      <3>1. CASE n = m + 1
        <4>1. g[n] = After(f[m]) /\ n - 1 = m /\ n # 0 /\ m \in 0..(m + 1) /\ m # m + 1
          BY <3>1
        <4>2. g[m] = f[m]
          BY <4>1
        <4> QED
          BY <4>1, <4>2
      <3>2. CASE n # m + 1
        <4>1. n \in 0..m /\ g[n] = f[n]
          BY <3>2
        <4>2. f[n] = IF n = 0 THEN Direct({k}) ELSE After(f[n - 1])
          BY <2>1, <4>1
        <4>3. n # 0 => n - 1 \in 0..(m + 1) /\ n - 1 # m + 1
          BY <4>1
        <4>4. n # 0 => g[n - 1] = f[n - 1]
          BY <4>3
        <4> QED
          BY <4>1, <4>2, <4>4
      <3> QED
        BY <3>1, <3>2
    <2>3. IsChain(g, m + 1)
      BY <2>2
    <2> HIDE DEF g, IsChain
    <2> QED
      BY <2>3
  <1>5. \E f : IsChain(f, c)
    <2>1. c \in Has
      <3> HIDE DEF Has
      <3> QED
        BY <1>2, <1>3, <1>4, ClosedUnderSuccessor
    <2> QED
      BY <2>1
  <1>6. IsChain(Chain(k), c)
    BY <1>1, <1>5
  <1> HIDE DEF IsChain
  <1>7. Chain(k) = [n \in 0..c |-> IF n = 0 THEN Direct({k}) ELSE After(Chain(k)[n - 1])]
    BY <1>6 DEF IsChain
  <1>8. Chain(k)[0] = Direct({k})
    BY <1>2, <1>7
  <1>9. ASSUME NEW n \in 1..c PROVE Chain(k)[n] = Chain(k)[n - 1] \cup Direct(Chain(k)[n - 1])
    <2>1. n \in 0..c /\ n # 0
      BY <1>2
    <2> QED
      BY <1>7, <2>1 DEF After
  <1> QED
    BY <1>2, <1>8, <1>9 DEF c

(* Every predecessor of an assignment, near or far, is a revoked one of the    *)
(* same submission and revision that nothing else replaces.                    *)
LEMMA PredecessorsAreRevoked ==
    ASSUME ReviewTypeOK, Chained, NEW k \in Keys, NEW a \in Ancestors(k)
    PROVE  /\ a[1] = k[1] /\ a[2] = k[2]
           /\ state[a] = "REVOKED"
           /\ \A i, j \in Keys : supersedes[i] = a /\ supersedes[j] = a => i = j
  <1> DEFINE Good == {b \in Keys : /\ b[1] = k[1] /\ b[2] = k[2] /\ state[b] = "REVOKED"
                                   /\ \A i, j \in Keys : supersedes[i] = b /\ supersedes[j] = b => i = j}
             c == Cardinality(Reviewers)
             Reached == {n \in Nat : n <= c => Chain(k)[n] \subseteq Good}
  <1>1. \A b \in Keys : b[1] = k[1] /\ b[2] = k[2] => Direct({b}) \subseteq Good
    BY DEF Chained, ReviewTypeOK, Direct
  <1>2. ASSUME NEW A, A \subseteq Good PROVE Direct(A) \subseteq Good
    <2>1. \A b \in A : Direct({b}) \subseteq Good
      BY <1>1, <1>2
    <2> HIDE DEF Good
    <2> QED
      BY <2>1 DEF Direct
  <1>3. Direct({k}) \subseteq Good
    BY <1>1
  <1> HIDE DEF c, Good
  <1>4. c \in Nat /\ Chain(k)[0] = Direct({k})
        /\ \A n \in 1..c : Chain(k)[n] = Chain(k)[n - 1] \cup Direct(Chain(k)[n - 1])
    BY ChainRecursion DEF c
  <1>5. 0 \in Reached
    BY <1>3, <1>4
  <1>6. ASSUME NEW n \in Nat, n \in Reached PROVE n + 1 \in Reached
    <2> SUFFICES ASSUME n + 1 <= c PROVE Chain(k)[n + 1] \subseteq Good
      OBVIOUS
    <2>1. n + 1 \in 1..c /\ (n + 1) - 1 = n /\ Chain(k)[n] \subseteq Good
      BY <1>4, <1>6
    <2>2. Chain(k)[n + 1] = Chain(k)[n] \cup Direct(Chain(k)[n])
      BY <1>4, <2>1
    <2> QED
      BY <2>1, <2>2, <1>2
  <1>7. c \in Reached
    <2> HIDE DEF Reached
    <2> QED
      BY <1>4, <1>5, <1>6, ClosedUnderSuccessor
  <1>8. a \in Good
    BY <1>4, <1>7 DEF Ancestors, c
  <1> QED
    BY <1>8 DEF Good

(* What the organizer's commands leave behind passes every check of the        *)
(* reviewer's (validateAssignmentLineage, readTrustedPacket): no assignment     *)
(* that is handed out turns out to be unreadable.                              *)
THEOREM AssignedWorkIsAlwaysReadable == ReviewSpec => []AssignedWorkIsReadable
  <1>1. ReviewInit => Chained /\ Bound
    BY DEF ReviewInit, Chained, Bound
  <1>2. ReviewInv /\ Chained /\ Bound => AssignedWorkIsReadable
    <2> SUFFICES ASSUME ReviewInv, Chained, Bound, NEW k \in Assigned, state[k] # "REVOKED"
                 PROVE  /\ \A j \in Keys : supersedes[j] # k
                        /\ \A a \in Ancestors(k) :
                               /\ a[1] = k[1] /\ a[2] = k[2]
                               /\ state[a] = "REVOKED"
                               /\ \A i, j \in Keys : supersedes[i] = a /\ supersedes[j] = a => i = j
                        /\ packet[k] = Nothing => k \in Legacy /\ state[k] = "ASSIGNED"
                        /\ packet[k] # Nothing =>
                               /\ rubricOf[k] \in semantics
                               /\ packet[k].conflict <= conflicts[k] /\ packet[k].conflict % 2 = 0
      BY DEF AssignedWorkIsReadable
    <2>1. k \in Keys /\ state[k] # "NONE" /\ k # Nothing
      BY ReviewConstants DEF Assigned
    <2>2. \A j \in Keys : supersedes[j] # k
      BY <2>1 DEF Chained
    <2>3. \A a \in Ancestors(k) :
              /\ a[1] = k[1] /\ a[2] = k[2]
              /\ state[a] = "REVOKED"
              /\ \A i, j \in Keys : supersedes[i] = a /\ supersedes[j] = a => i = j
      BY <2>1, PredecessorsAreRevoked DEF ReviewInv
    <2> QED
      BY <2>1, <2>2, <2>3 DEF Bound
  <1> QED
    BY <1>1, <1>2, InitTyped, ReviewInvStep, ChainStep, BoundStep, PTL DEF ReviewSpec
=============================================================================
