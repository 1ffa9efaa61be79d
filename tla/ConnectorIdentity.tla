-------------------------- MODULE ConnectorIdentity --------------------------
(***************************************************************************)
(* What a connector import says of the people of a workspace: the          *)
(* disposition of each preview row, and its confirmation                   *)
(* (finalizePreview and confirmConnectorImport of                          *)
(* src/src/server/services/connector-hub/orchestration.ts).                *)
(*                                                                         *)
(* Several runs of one connection are previewed and confirmed in any       *)
(* order; in between organizers rename people and other parts of the       *)
(* product create them.  A provider record is its id; name stands for the  *)
(* full name, organization and title together.                             *)
(***************************************************************************)
EXTENDS Integers, SequencesExt

CONSTANTS
  Run,       \* import runs, each with an idempotency key of its own
  Contact,   \* ids of provider records
  Email,     \* normalized addresses
  Name,      \* contents of the other fields
  MaxPeople, \* bound: people of the workspace
  MaxRename, \* bound: renames by organizers
  Null

ASSUME IdentityAssumption ==
  /\ MaxPeople \in Nat /\ MaxRename \in Nat
  /\ IsFiniteSet(Contact) /\ Null \notin Email \union Name

VARIABLES
  people,    \* the rows of people, by id
  source,    \* [Contact -> the versions of its source_records, each with its link]
  state,     \* [Run -> state of the run]
  preview,   \* [Run -> [Contact -> its preview row or Null]]
  decisions, \* person_projection_decisions
  renames    \* renames so far

identityVars == <<people, source, state, preview, decisions, renames>>

PersonRow(e, n) == [email |-> e, name |-> n]
Evidence(e, n, p) == [email |-> e, name |-> n, person |-> p]
Row(e, n, d, p, seen) ==
  [email |-> e, name |-> n, disposition |-> d, candidate |-> p, seen |-> seen]
Decision(r, k, p, was, is) ==
  [run |-> r, contact |-> k, person |-> p, previous |-> was, next |-> is]

-----------------------------------------------------------------------------
\* finalizePreview

PersonByEmail(ps, e) == {p \in DOMAIN ps : ps[p].email = e}
PersonByExternalIdentity(k) == {source[k][v].person : v \in DOMAIN source[k]}

\* A page as the provider reports it: each record with an address or without.
Reported == [Contact -> {Null} \union [email : Email \union {Null}, name : Name]]

Collides(page, k) ==
  \E j \in Contact \ {k} : page[j] # Null /\ page[j].email = page[k].email

\* The people a row may be about, by external identity before address.
Candidates(k, e) ==
  IF PersonByExternalIdentity(k) # {}
  THEN PersonByExternalIdentity(k) ELSE PersonByEmail(people, e)

Conflicting(page, k) ==
  \/ page[k].email = Null
  \/ Collides(page, k)
  \/ Cardinality(PersonByExternalIdentity(k) \union PersonByEmail(people, page[k].email)) > 1

Conflict(page, k) == Row(page[k].email, page[k].name, "CONFLICT", 0, Null)

Disposed(page, k) ==
  LET e == page[k].email
      n == page[k].name
  IN IF Candidates(k, e) = {} THEN Row(e, n, "CREATE", 0, Null)
     ELSE LET p == CHOOSE q \in Candidates(k, e) : TRUE
          IN Row(e, n, IF people[p] = PersonRow(e, n) THEN "LINK" ELSE "UPDATE", p, people[p])

FinalizePreview(r) ==
  /\ state[r] = "ABSENT"
  /\ \E page \in Reported :
       preview' = [preview EXCEPT ![r] =
         [k \in Contact |-> IF page[k] = Null THEN Null
                            ELSE IF Conflicting(page, k) THEN Conflict(page, k)
                            ELSE Disposed(page, k)]]
  /\ state' = [state EXCEPT ![r] = "PREVIEW_READY"]
  /\ UNCHANGED <<people, source, decisions, renames>>

-----------------------------------------------------------------------------
\* confirmConnectorImport works through the rows in the order of their ids,
\* which are digests: any order.  w is the workspace the transaction has made
\* so far; ok turns FALSE when a row throws CONNECTOR_CANONICAL_CONFLICT.

Work(ps, s, ds, ok) == [people |-> ps, source |-> s, decisions |-> ds, ok |-> ok]

\* Nobody else has the address now (people has a UNIQUE index on it as well).
AddressIsFree(w, row) == PersonByEmail(w.people, row.email) \subseteq {row.candidate}

\* mutant: the candidate may have changed since the preview
CandidateUnchanged_Unchecked(w, row) == TRUE

CandidateUnchanged(w, row) ==
  row.disposition # "CREATE" => w.people[row.candidate] = row.seen

Target(w, row) ==
  IF row.disposition = "CREATE" THEN Len(w.people) + 1 ELSE row.candidate

PeopleAfter(w, row) ==
  CASE row.disposition = "CREATE" -> Append(w.people, PersonRow(row.email, row.name))
    [] row.disposition = "UPDATE" ->
         [w.people EXCEPT ![row.candidate] = PersonRow(row.email, row.name)]
    [] row.disposition = "LINK" -> w.people

\* latestSource does not hold the evidence of the row.
NeedsVersion(versions, row) ==
  IF versions = <<>> THEN TRUE
  ELSE Last(versions).email # row.email \/ Last(versions).name # row.name

SourceAfter(w, k, row) ==
  IF NeedsVersion(w.source[k], row)
  THEN Append(w.source[k], Evidence(row.email, row.name, Target(w, row)))
  ELSE w.source[k]

\* Dispositions that change a projection and leave a person_projection_decisions row.
Decided == {"CREATE", "UPDATE"}

DecisionsAfter(w, r, k, row) ==
  IF row.disposition \in Decided
  THEN w.decisions \union
         {Decision(r, k, Target(w, row), row.seen, PersonRow(row.email, row.name))}
  ELSE w.decisions

\* The row can be applied: the source of its evidence is not linked elsewhere.
Applicable(w, k, row) ==
  /\ AddressIsFree(w, row) /\ CandidateUnchanged(w, row)
  /\ Last(SourceAfter(w, k, row)).person = Target(w, row)

ApplyRow(w, r, k) ==
  LET row == preview[r][k]
  IN IF ~w.ok \/ row.disposition = "CONFLICT" THEN w
     ELSE Work(PeopleAfter(w, row),
               [w.source EXCEPT ![k] = SourceAfter(w, k, row)],
               DecisionsAfter(w, r, k, row), Applicable(w, k, row))

\* The workspace after the first i rows.
Works(r, order) ==
  LET work[i \in 0..Len(order)] ==
        IF i = 0 THEN Work(people, source, decisions, TRUE)
        ELSE ApplyRow(work[i - 1], r, order[i])
  IN work

Applied(r, order) == Works(r, order)[Len(order)]

\* A row that throws rolls the whole confirmation back.
ConfirmImport(r) ==
  /\ state[r] = "PREVIEW_READY"
  /\ \E order \in SetToSeqs({k \in Contact : preview[r][k] # Null}) :
       LET w == Applied(r, order)
       IN /\ w.ok /\ Len(w.people) <= MaxPeople
          /\ people' = w.people /\ source' = w.source /\ decisions' = w.decisions
  /\ state' = [state EXCEPT ![r] = "SUCCEEDED"]
  /\ UNCHANGED <<preview, renames>>

-----------------------------------------------------------------------------
\* editManualSpeaker changes the name of a person, never the address.
RenamePerson(p, n) ==
  /\ renames < MaxRename /\ people[p].name # n
  /\ people' = [people EXCEPT ![p] = PersonRow(people[p].email, n)]
  /\ renames' = renames + 1
  /\ UNCHANGED <<source, state, preview, decisions>>

\* Applications, manual speakers and the CRM create a person for a new address.
CreatePerson(e, n) ==
  /\ Len(people) < MaxPeople /\ PersonByEmail(people, e) = {}
  /\ people' = Append(people, PersonRow(e, n))
  /\ UNCHANGED <<source, state, preview, decisions, renames>>

-----------------------------------------------------------------------------
IdentityInit ==
  /\ people = <<>> /\ source = [k \in Contact |-> <<>>]
  /\ state = [r \in Run |-> "ABSENT"]
  /\ preview = [r \in Run |-> [k \in Contact |-> Null]]
  /\ decisions = {} /\ renames = 0

IdentityNext ==
  \/ \E r \in Run : FinalizePreview(r) \/ ConfirmImport(r)
  \/ \E p \in DOMAIN people, n \in Name : RenamePerson(p, n)
  \/ \E e \in Email, n \in Name : CreatePerson(e, n)

IdentitySpec == IdentityInit /\ [][IdentityNext]_identityVars

-----------------------------------------------------------------------------
\* Every table has the shape the schema gives it.
TypeOK ==
  /\ people \in Seq([email : Email, name : Name]) /\ Len(people) <= MaxPeople
  /\ \A k \in Contact : source[k] \in
       Seq([email : Email, name : Name, person : DOMAIN people])
  /\ state \in [Run -> {"ABSENT", "PREVIEW_READY", "SUCCEEDED"}]
  /\ renames \in 0..MaxRename

\* A confirmation overwrites exactly what the organizer was shown: an edit made
\* between preview and confirmation survives.
EditsAfterPreviewSurvive ==
  [][\A p \in DOMAIN people : \A r \in Run :
       state[r] # state'[r] /\ people'[p] # people[p] =>
         \E k \in Contact : /\ preview[r][k] # Null
                            /\ preview[r][k].candidate = p
                            /\ preview[r][k].seen = people[p]]_identityVars
=============================================================================
