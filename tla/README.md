# Sympose: verification project

TLA+ models of the Sympose server (`src/src/server`) and of its release kit
(`src/scripts/production-release`), TLC instances that check them, and TLAPS
proofs of the properties that matter most. Paths below are relative to
`src/src/server/services/` unless they say otherwise.

Run a model with `tlc -config ReleasePublication.cfg MCReleasePublication.tla` and a
proof with `tlapm SpeakerPortalProofs.tla`. `PROJECT.json` lists the runs, the lines
of code each definition stands for, a mutant of the code for every property, the
finding and the hazards.

## 1. The system

Sympose is a Next.js application on one host, a modular monolith over one SQLite
file (`src/src/server/db.ts`, `node:sqlite`, synchronous). `docs/ARCHITECTURE.md`
separates four layers of truth about an event: *candidate* (what the compiler
proposes), *decision* (what an organizer approved), *commitment* (what a speaker
answered) and *operational* (what happened). A command is a synchronous function in
`withTransaction`: `BEGIN IMMEDIATE`, `COMMIT`, or `ROLLBACK` on an exception. So
one command is one atomic step. What is not atomic, and why the models exist:

- a person acts on a page that is stale by the time the command arrives;
- several commands, in an order nobody wrote a test for, reach a state that every
  later command refuses;
- a request awaits something outside the database (scrypt, a provider, a file)
  between two transactions, and other requests or processes run meanwhile;
- a process dies between two transactions, or between two file operations, and a
  later one must find out what was done;
- the wall clock, which several rules compare with what was stored, is set back.

### Inventory

| component | state | operations | what is hard | what makes it correct |
| --- | --- | --- | --- | --- |
| production authentication (`production-auth.ts`, `production-bootstrap.ts`) | challenge, workspaces, attempt leases, guard rows, sessions | prepare and install a challenge, bootstrap, login, status, logout | scrypt between two transactions, processes that die in between, several processes, time | at most one owner; bounded attempts; spent budgets block; nobody is locked out for good |
| connector hub (`connector-hub/`) | connections and versions, runs, attempts, pages, preview rows, export decisions and receipts | save, revoke, test, preview, confirm, export | awaits, leases, late and lost answers, retries by key, opaque cursors | a person is handed over at most once per key; doubt is on record; what was confirmed is what was shown |
| planning, commitments, outcomes (`planning.ts`, `commitments.ts`, `outcomes.ts`) | plan versions and states, the plan pointer, offers, responses, observations, corrections | compile, approve, deliver, respond, record and correct attendance | stale pages, replaced plans, states ordered by wall clock, no rejection | the pointer moves forward only; attendance is backed; replaced plans are closed |
| artifact records and store (`artifact-records/`, `artifact-store/`) | upload intents, records, files, an index per process | upload, view, recover | file operations between transactions, recovery by another process | committed bytes are served; intents are settled |
| scheduling (`scheduling/`) | an event log of drafts and approvals, rooms, allocations | move, clear, configure rooms, approve | two copies of a draft, authorities that move under it, database triggers | the copies agree; an approval means what it approved |
| production release kit (`src/scripts/production-release`) | operation lock, restore journal, state root and its copies, receipts, build receipt | start, build, backup, restore, recover | processes killed between any two durable steps, no transactions | no state is lost; a restore ends done or undone |
| call for papers (`cfp/`) | calls, extensions, verification links, sessions, forms, submissions, revisions, decisions, an outbox | open, close, extend, issue, consume, draft, save, submit, amend, decide | deadlines that move, pinned form versions, stale pages, amendments against decisions | a decision is about what the committee saw; past the deadline only extensions admit drafts; nobody is told twice |
| review (`cfp-review/`) | rubrics, plans, assignments, conflicts, packets, drafts, reviews | distribute, replace, revoke, seal a packet, declare, save, submit | amendments under review, stale pages, retired pairs | a conflict stops work; who left does not come back; no saved review is overwritten unseen |
| publication (`publication.ts`, `publication-schedule.ts`, `publication-audience/`) | releases, portal tokens, texts and their approvals, audience policies and bindings | submit, approve, seal, supersede, read, bind | every authority moves before and after a seal | a sealed release stays readable and says only what was approved; sealing comes to no dead end |
| program capacity (`program-capacity.ts`) | pools, versions, transfers | create, append, transfer | a ledger that is replayed at each read | the total is conserved, the ledger stays readable |
| speaker operations (`speaker-operations/`) | people, tasks, reminders in an outbox | create, rename, complete, remind | leases, late answers and retries of overlapping jobs | a reminder is recorded as delivered once, and only if it was taken for a task that is still open; what is queued is settled |
| speaker portal access (`speaker-portal-access.ts`) | links, the event's roster | issue, open, list a speaker by hand or by an acceptance | links that outlive the plan they were issued for, a roster with three writers | a dead link stays dead; nobody has links in two roles |
| content operations (`content-operations/`) | versions and approvals of texts and artifacts | submit, approve, request changes | co-speakers, approvals that are taken back before a release | the public reads only what its speakers wrote and an organizer approved |
| speaker communications, delivery center | batches and outbox rows | queue | nothing sends them | |
| pure kernels, catalogues, projections, adapters, UI | none, or read models | | canonical text and fingerprints | |

Components meet in shared rows. `PlanCommitment`'s plan pointer and accepted offers
are the authorities of `ScheduleDraft` and of portal links; an accepted submission
brings the schedule a session and the roster a row; a release binds the plan, the
schedule and the texts.
Imports (`ConnectorIdentity`) and organizers write the same `people`. The release kit
takes the whole state root, the database and the artifact directory together.

## 2. Modules

An action is one transaction, or one file operation that is synchronised before the
next. A command that throws, or answers with what is already stored, changes nothing
and is not an action. Every bound is a CONSTANT named in the module that has it.

| module | models | run |
| --- | --- | --- |
| `ProductionAuth` | `production-auth.ts`, `production-bootstrap.ts`, the auth rows of `schema.ts` | `production_auth` |
| `ConnectorRun` | the row of a run: claim, ownership, lease, attempts, connection version (extended by the next two) | through them |
| `ConnectorExport` | `exportCanonicalPeopleToConnector` | `connector_export` |
| `ConnectorImport` | `createConnectorImportPreview`, confirmation tokens | `connector_import` |
| `ConnectorIdentity` | `finalizePreview`, `confirmConnectorImport` on several runs | `connector_identity` |
| `PlanCommitment` | `planning.ts`, `commitments.ts`, `outcomes.ts` | through `SpeakerPortal` |
| `SpeakerPortal` EXTENDS `PlanCommitment` | `speaker-portal-access.ts` and the writers of `event_speakers` | `speaker_portal` |
| `ArtifactUpload` | `artifact-records/`, `artifact-store/` | `artifact_upload` |
| `ScheduleDraft` | `scheduling/` | through `ReleasePublication` |
| `ReleasePublication` EXTENDS `ScheduleDraft` | `publication.ts`, `publication-schedule.ts`, the text side of `content-operations/` | `release_publication` |
| `ReminderPromise` | what the outbox promises, the abstract specification | as a property of the next |
| `ReminderOutbox` | the reminder jobs of `speaker-operations/index.ts` | `reminder_outbox` |
| `CfpApplication` | `cfp/applicant-access.ts`, `organizer.ts`, `form-documents.ts`, `submissions.ts`, `submission-confirmation.ts`, `decisions.ts` | `cfp_application`, `cfp_replay` |
| `ReviewRound` | `cfp-review/` organizer, sealing and reviewer | `review_round` |
| `StateRestore` | `release.mjs` and `lib.mjs` of the release kit | `state_restore` |
| `ProductionAuthProofs`, `ConnectorExportProofs` (with `ConnectorIdentity`), `ConnectorImportProofs`, `SpeakerPortalProofs` (with `PlanCommitment` and `ArtifactUpload`), `ReleasePublicationProofs` (with `ScheduleDraft`), `ReminderOutboxProofs`, `CallForPapersProofs` (`CfpApplication` and `ReviewRound`), `StateRestoreProofs` | theorems | |

A proof module may extend two models that share nothing. So that this is possible,
`ArtifactUpload`, `ConnectorIdentity` and `ReviewRound` give the parts of their
specifications names of their own (`UploadInit`, `UploadSpec`, `IdentitySpec`,
`ReviewSpec` and so on).

**ProductionAuth.** A login or bootstrap is *claim* (first transaction: cleanup of
expired rows, limits, guards, a lease row), scrypt, and *settle* (second transaction:
lease still current, challenge still live or account still there, then success or a
counted failure). A caller is a slot of a process; a crash leaves its lease row.
Instants are relative to now, so that a `Tick` moves them all and the state space is
finite without a bound on time.

**ConnectorRun, ConnectorExport, ConnectorImport.** A request is a chain of
transactions that loses its turn on the event loop only where the code awaits the
provider; `turn` names the request that holds the loop of a process. `owners` is the
set of requests whose copy of the row still has its `updated_at`, which is what
`withOwnedRunTransition` compares. One `upsertPeople` is a chain of HTTP requests, as
`requestJson` makes them: after an answer 429 or 5xx, of which nobody knows what it wrote,
the same people are sent again (`ProviderRetries`), and the last request gives one of the
classes of answers the export tells apart (`ProviderAnswers`). `handed` counts how often
a person was handed to `upsertPeople`, `landed` holds who may have been written, and
`refusal` is `provider_attempts` of the attempt row that a refused batch leaves. A crash
while the provider is asked may have written anybody of the batch. The repeated reads of
an import change nothing, so `ConnectorImport` has one answer per page.

**ConnectorIdentity.** Names and addresses as model values, the disposition of each
preview row, and its confirmation, over several runs of one connection with renames
and creations by organizers in between.

**PlanCommitment.** The compiler is a constant from manifests to seats. `ApprovePlan`
takes the version and the expected pointer as arbitrary arguments, since both come
from a page; so do the version and person of a response. `compiledAt` and `outdated`
stand for the ordering of `plan_states` by `created_at`. Nothing in the program sets
`events.lifecycle` to `live`, so that is an external action. The audit row
`plan.compile.rejected` is rolled back by the exception that follows it, so a refused
compilation has no action.

**SpeakerPortal.** The plan goes on underneath, unchanged. `IssueLink` is the one
transaction of `issueSpeakerPortalToken`: it checks the accepted seat and the roster,
confirms the person and stores the link with the plan it was issued on. Opening a link
writes nothing, so `Opens` is an operator: `revalidateSpeakerPortalToken` reads the
plan, the offer, the answer and the roster again. `ListSpeaker` stands for the two
other writers of the roster.

**ArtifactUpload.** The steps of one upload (recover what is PREPARED, reserve, stage,
finalize, write the record, clean up) of each process, with a crash between any two.

**ScheduleDraft.** The stored draft (a pointer in `domain_events`) and
`event_session_allocations` as two variables, the grid of slots, the defaults, and the
room triggers: a save is the row-by-row write of `persistCanonicalScheduleMutation`,
aborted as a whole when any row meets another.

**ReleasePublication.** Texts, approvals and releases over the schedule. A release is
one immutable document with the plan, the offers, the schedule and the texts it was
sealed from. It is validated again at every read, in two ways: the public page compares
it with what is true now, a personal link and the next sealing with the evidence of its
own time. Both are operators over the stored rows. Names, e-mail addresses, headshots,
slides and the roles of organizers are left out.

**ReminderPromise, ReminderOutbox.** A job queues one message per due task and day and
then claims, sends and settles messages one by one; each of its transactions is an
action and the provider's call lies between two of them. A job reads the clock once,
when it starts, so everything it compares is as old as it is. The claim's random token
is the number of its attempt. The last instant stands for every later time. A receipt is
written in the transaction of its row, so the branches that find a receipt without a
settled row are left out. The preparation of a job scans the assignments of every event
and throws when an event has more than 100 of them, completed ones included, or when
there are more than 50 events (`index.ts:1982`, `:2184`); nothing catches it before the
claim loop. `Outgrow` is the creation of the assignments beyond a limit, which nothing
removes, and `PrepareThrows` the job that ends there, perhaps after it queued for the
events it had scanned. `ReminderPromise` knows only what the provider took, which
tasks are open and the speaker's, whether the jobs are halted, and how each reminder ended;
`Promise == INSTANCE ReminderPromise WITH ...` maps the outbox to it.

**CfpApplication.** One call. A form version is the set of its consent fields, a policy
the set of fields it asks for. A caller names what it has read before (a revision, a
link), as old as it likes; compare-and-set against the call's own fingerprint succeeds
only for a page that has seen the current call, so it is no argument. A draft, its
revisions, its confirmation and its decision are separate rows, as in the schema.

**ReviewRound.** Assignments are keyed by submission, revision and reviewer; a
redistribution is an arbitrary plan that satisfies the request. An assignment enters
each state once, so comparing states compares the sequence numbers the code sends.
`Legacy` assignments were made before packets were sealed with them. `sealRubricSemantics`
and `sealBlindReviewArtifact` are exported as commands of their own, but only the
evaluator data calls them; distributions and replacements compose the steps they consist
of, and those are what is modelled.

**StateRestore.** Every durable operation of a restore and of a recovery is an action,
and a process may be gone after each. A receipt is created in place, so a process that
dies while it writes one may leave a part of it, which makes its directory unreadable.
A start recovers first; that recovery is the one modelled.

## 3. What the runs show

| run | distinct question | bounds and why they are enough |
| --- | --- | --- |
| `production_auth` | do leases, guards, budgets and the one challenge keep their promises while calls race, die and wait? | two logins, a bootstrap, two openers, limits of 1 to 3, so that every limit is reached, each block both holds and lapses, the guard table must evict, and the challenge is raced for, expires and is redeployed |
| `connector_export` | is anybody handed over twice, or hidden behind a wrong state? | two requests with one key, two people in batches of one, up to three HTTP requests for a batch (the default of the code), two attempts: a second batch after the first, a takeover between them, a refusal after a request that may have written. Three people in batches of two with two HTTP requests hold as well, but take too long for a run |
| `connector_import` | do pages follow the cursor through takeovers, and is a shown preview frozen? | two requests, two pages of two out of three contacts, three attempts, two tokens |
| `connector_identity` | what may a confirmation change? | two runs, two records, two addresses, two people |
| `speaker_portal` | do the four layers and the links stay consistent over several plans? | two people, one unit, three versions (current, replaced, ahead), three manifests (one infeasible, one that makes a speaker a moderator), two links, a clock that may go back |
| `artifact_upload` | is what is committed readable, and is each upload settled? | two processes, one scope, three uploads, one crash, one loss of authority |
| `release_publication` | do the copies of a draft agree, does an approval mean what it approved, what may the public read, and does sealing always go on? | two people, two sessions of which one comes from a submission, two rooms, two plans, two revisions and approvals, two versions of a text, three releases: one superseded twice |
| `state_restore` | is any state lost, and does every restore end? | two processes, two restores, one rebuild, two processes lost: one at any step of the restore and one at any step of its recovery |
| `reminder_outbox` | does the outbox implement `ReminderPromise`, and who settles a claim? | one task, two days, two overlapping jobs of one message each, two attempts, one crash, a limit exceeded here or elsewhere at any time; the last instant stands for all later ones |
| `cfp_application` | what do stale pages, old links and moving deadlines let through? | one applicant, one consent field, two closing times, two links, forms, revisions and moves of the call: a newer one of each exists |
| `cfp_replay` | finding, see below | the same instance |
| `review_round` | what may happen to an assignment, a packet and a review while the proposal and the committee change? | one submission, three reviewers (one in, one out, one to replace), two revisions, two rubrics, three assignments, two reviews, two dispositions |

Applicants of one call share nothing but the call, and submissions of one round nothing
but the reviewers' loads, so one of each shows the interleavings; the theorems cover any
number. Symmetry is used only where all properties are invariants or action properties
(`connector_identity`, `review_round`).

Each property of a passing run has a mutant in `PROJECT.json`, a plausible bug of the
code that breaks it; it says which mechanism the property depends on.

**Fairness.** `ProductionAuth`: weak fairness of `Tick` only; time goes on, and no
caller has to. `ConnectorExport`: a request that runs goes on (a single event loop), the
provider answers or its timeout fires (both are bounded in the code), leases run out by
the clock, somebody tries the key again, and crashes stop eventually; safety is checked
under the same specification, where the last condition does not restrict any finite
behaviour. Imports claim and resolve runs by the same `ConnectorRun` steps and are
checked for safety only. `ReminderOutbox`: time goes on, a scheduled job starts when
there is none, and a job that runs goes on. That each reminder is settled is promised
only while no scan exceeds its limits (`halted` in `ReminderPromise`): from then on every
job ends in `PrepareThrows`. `ArtifactUpload`: a called process goes on
and somebody looks at the event again. `StateRestore`: a process that runs goes on, and
an idle one begins a recovery when there is one to do; `sympose.service` runs `recover`
before every start with `Restart=on-failure`.

**Deadlock** is checked for sign-in, plans and portal, artifacts and reminders. It is off
for connectors (a revoked connection refuses everything), identity (everything is
confirmed), calls, reviews and releases (the bounds on revisions and rows are not in the
code) and restores (the lock of a launcher that was killed stays for good: nothing in
the kit removes it).

## 4. What the code does against its word

**Finding.** `cfp_replay` (`cfp/submissions.ts:1757`). An amendment writes a revision
without moving `submissions.updated_at` and without a consent receipt, while the replay
of `createSubmissionDraft` rejects a revision that is younger than `updated_at`, and a
submitted row whose last revision has no receipt (`:1855`). An applicant who amended a
submission and then creates it again, as a lost page does, gets SUBMISSION_WRITE_FAILED
for good. `tests/unit/cfp-submissions.test.ts:1043` says the replay works "before and
after lifecycle changes".

**Observations**, made while modelling, which no run states:

- *Identity of an import* (`connector-hub/orchestration.ts:1236`).
  `confirmConnectorImport` rechecks the owner of an address and never the external
  identity that `finalizePreview` resolved. Two imports previewed before either is
  confirmed create two people for one provider record whose address changed, against
  `orchestration.ts:687-688`.
- *Doubt behind a refusal* (`connector-hub/orchestration.ts:1915`). The export takes an
  answer 401, 403 or 404 for a refusal before anything was written. It may be the answer
  to a repeated request: the first one was answered 503 and may have written. The run is
  then FAILED_TERMINAL with a written person and no receipt; only `provider_attempts > 1`
  of its attempt row shows it. `DoubtIsOnRecord` says exactly this much.
- *Authority of a repeated request* (`providers/http.ts:268`). `exportBatchAuthorityIsCurrent`
  is asked once before `upsertPeople`. A request that is repeated after a pause sends the
  same people without asking again.
- *Reminders past a limit* (`speaker-operations/index.ts:2621`). Once an event has more
  than 100 assignments, or there are more than 50 events, every job of every event dies
  before its first claim, so reminders that are queued stay PENDING for good.
  `tests/unit/speaker-shared-action-reminders.test.ts:670` expects the throw of the scan.
- *Recovery of an upload* (`artifact-records/index.ts:884`). After a restart, recovery
  hydrates a PREPARED intent before the committed rows of its scope. From version 2 on
  it never fits the empty index, is taken for an integrity failure, and its staged file
  is unlinked. The test that expects recovery uses version 1.
- *Schedule conflicts* (`scheduling/canonical.ts:1317`). Every save materializes all
  default placements, and the room triggers abort the first row that overlaps. When an
  acceptance makes two sessions collide by default, every save aborts, also the one that
  the page offers to resolve the conflict.
- *Portal links* (`speaker-portal-access.ts:287-340`). Whoever is on the roster before
  the first link, listed by hand (PENDING, `manual-speakers.ts:1259`) or by an accepted
  proposal (INVITED, `session-handoff.ts:759`), and whoever changes between speaker and
  moderator after it, can never be issued a link: nothing changes
  `participation_status`. Nothing calls `revokeSpeakerPortalToken`.
- *Review.* Revoking an assignment of an older revision retires the pair, but an active
  assignment on the current revision goes on. `aggregateRankings`
  (`organizer-console.ts:2338`) counts reviews of older revisions. A distribution
  without a key of its own, repeated after a revocation, replays the old plan and assigns
  nobody.
- *Publication.* Personal links are only returned by the sealing call that created them.
  A session that only a submission brings blocks sealing
  (SESSION_CONTENT_REQUIREMENTS_INCOMPLETE). Evidence dated after the draft because the
  clock was set back is left out by `readCanonicalScheduleAuthorityAt`, so sealing fails
  until the draft is saved again.
- *Call for papers.* Moving `closes_at` to or past the end of an extension makes its
  immutable row invalid, and late access fails from then on. One save cannot remove a
  consent field together with the policy choice for it.

## 5. What is proved

TLC checks the instances above; TLAPS proves the following for every value of the
constants that satisfies the named assumptions of the modules. Each invariant and each
action property of a passing run is stated by one of these theorems.

The assumptions are what the code and its schema give: limits and lifetimes that are
positive, time limits in the order the code has them, sentinels that are no values, and
finite sets where the code counts or walks through them (processes, reviewers, provider
records). Nothing is assumed about how many of anything there are, except where a
theorem says `OneServer`.

Several facts are inductions over data: over the units of a schedule, the rows of a
confirmation, a chain of replaced assignments. The models write such a recursion as a
function (`Writing` and `Placing`, `Works`, `Chain`). Each has a lemma that the function
satisfies its equations (`WritingRecursion`, `WorksRecursion`, `ChainRecursion`), and
`ClosedUnderSuccessor`, a consequence of `NatLessThanWellFounded`, gives the induction
for a set of numbers in place of the theorems that take a predicate.

`ProductionAuthProofs`, for any number of slots, identities and limits with
`LeaseTtl < Window <= Retention` (`TimeAssumption`, the values of the code):

- `TypeCorrect`: `TypeOK` is inductive by itself. The work is in the operators that
  compute rows (`Cleanup...`, `Record...Failure`), which have a lemma each.
- `AttemptsAlwaysBounded`: with `TypeOK`. A step can only shrink the set of live
  leases (`ShrinkLeases`) or admit one caller when `Admit`'s counts are below the
  limits; the cardinality lemma covers both.
- `AtMostOneOwner`: `SingleOwner` is inductive with `TypeOK`. The middle conjunct,
  that the challenge is consumed exactly when there is a workspace, carries the first.
- `BudgetNeverOverspent`: `SpentBudgetBlocks` is the strengthening. That a budget is
  not overspent follows only because a block outlives every lease that is current
  when it is set, which needs `LeaseTtl < Window`.
- `FailuresAreKept`: an action property; the same `GuardStep` lemma says how each
  action may change a guard row.
- `IdentityBlocksHold`: an action property that needs `BlocksRun`. A block and the age
  of its row add up to the window, which the retention covers, so neither a cleanup nor
  an eviction finds a blocked row.
- `ChallengeIsNeverReissued`: an action property; an installation needs that no row
  was ever installed, and every other step can only age, consume or invalidate it.

`ConnectorExportProofs`, for any requests, people, batches, attempts and versions, on one
server process (`OneServer`, a hypothesis of each theorem and not an assumption of the
module: section 6 says what two processes do):

- The invariant `ExportInv` is the argument of the single claim. A request between two of
  its own transactions holds the event loop (`TurnHeld`), so what it decided on is what
  the row still says (`DecidedOnRow`); so a run is claimed only while it is CREATED,
  which it is once; so one request is in flight (`OneInFlight`) and owns the row
  (`SenderOwns`); what it has still to send is all that has no receipt and was never
  handed over (`ToBeSent`). `HandedOverOnce` alone is not inductive, since it says
  nothing of who is about to send.
- `AtMostOnce` follows, and `DoubtIsNeverHidden` from `DoubtIsOpen`: a write in doubt
  always has an attempt left with which it can be recorded as UNKNOWN, or as a refusal
  whose attempt row counts the requests. The requests that one `upsertPeople` repeats are
  steps of the proof (`RetryKeeps`); that they write a person once is up to the upserts
  of the adapters and outside the claim.
- `AlwaysSentOnCurrentEvidence`: an action property, from `InputKept`: the evidence a
  request loaded is that of the run, and no later write of the row changes it.

- `EditsAlwaysSurvive`, of `ConnectorIdentity`: a confirmation works through its rows,
  and by induction over them (`ConfirmationOverwrites`) each person is still as the
  transaction found it or was shown like that in the preview (`Overwrites`). The step
  (`RowOverwrites`) has the one hard case of two rows about one person: the later one
  compares with what the earlier one wrote. `IdentityInv` says what a preview row is.
- `IdentityTypeCorrect`: above the types, every version of a source record and every
  row of a preview points to a person there is (`LinkInv`, by the same induction).

`ConnectorImportProofs`, for any requests, processes, contacts, cursors and tokens:

- `PagesAlwaysFollowTheCursor` needs nothing of the event loop. The row has one owner
  at most, which read with the cursor of the row (`OneOwner`), only an owner inserts a
  page, and the ledger ends where the row stands (`LedgerEnds`). The property alone says
  nothing of a request that is about to insert.
- `ShownPreviewStaysFrozen` has the hypothesis `OneServer`. What a request decided on is
  what the row says when it claims (`LoopHeld`, `DecidedOnRow`), and a run with a token
  is waiting for its confirmation or confirmed (`ShownIsFinal`), so nobody claims it.

`SpeakerPortalProofs`, of `PlanCommitment`, for any people, units, inputs, compiler and
windows:

- `TypeCorrect`, and `PointerAlwaysNewest` by an induction on top of it: approving
  needs the only candidate and the current pointer, so the next approval is the next
  version.
- `EvidenceOnlyAdded` and `ReplacedPlansStayClosed`: action properties, one lemma per
  table; the first from `TypeOK`, the second also from `PointerIsNewestApproval`.
- `AttendanceAlwaysBacked`: inductive with `TypeOK` and `PointerIsNewestApproval`. What
  backs a record (an answer, an offer, an approval) can only stay (`BackingStays`), and
  `RecordAttendance` checks it when it writes.
- `DeadEndsStay`: no sequence of commands leads out of an event with two open
  candidates, an infeasible one, or a current plan that reads as unapproved after the
  clock was set back between compiling and approving it.

`EvidenceOnlyAdded`, `DeadEndsStay`, `IdentityTypeCorrect` and
`RecoveryAlwaysFindsItsTrees` are proved only; no run lists them.

The same module, for any roles, links and lifetimes on top of that:

- `PortalKeepsThePlan`: the composition implements the plan's specification, so every
  theorem above holds of it.
- `LinksAlwaysAgree`: inductive with the plan's invariants. What a link was issued on
  stays (`SeatsStay`); issuing another one to the same person finds the one role he is
  confirmed in (`IssuingConfirms`).
- `DeadLinksAlwaysStayDead`: a link that came back would be one of the plan in force
  afterwards; the pointer never falls and was never below the link's plan, so it did not
  move, and everything else the link depends on was so before the step.

The same module, of `ArtifactUpload`, for any processes, scopes, uploads and crashes:

- `CommittedIsAlwaysServable`: `UploadInv` is the strengthening. What a call has in hand
  is on disk or given up by somebody else's recovery (`InHand`), an upload is written by
  the call that reserved it (`OneWriter`), what nobody reserved has no file (`NotBegun`):
  without these a late write could land on committed bytes. `Numbered` is that the rows
  of a scope have versions without a gap, from which the next version is free, and
  `Budget` that a call on its way to a reservation finds an upload left under the bound.

`ReleasePublicationProofs`, for any people, units, rooms, grids, plans and texts. `IInv`
is `Authorities` (plan, acceptances and sessions exist), `Drafted` and `RowsAgree` (the
draft and the rows of `event_session_allocations`), `ApprovalsSound` (what an approval
vouches for, in terms of itself), `Answers` and `OnRecord` (every release validates
against the evidence of its own time).

- `DraftAlwaysDurable`: `RowsAgree`, by induction over the row-by-row write of a save
  (`WritingRecursion`), which goes through only if no row meets another.
- `ApprovalsAlwaysHold`: an approval that reads as current is of the context it was made
  in, so what it vouched for is what is stored.
- `PublicAlwaysAgreed` and `SealingAlwaysSettles`: each release said what was agreed when
  it was sealed (`Agreed`, `Historical`) and nothing it says can change, so the next
  sealing always has a release it can validate.

`ReminderOutboxProofs`, for any tasks, jobs, days and crashes. `IInv` says that no job is
older than the clock, works on a reminder without a row, or has seen an acceptance that
the provider did not give.

- `ClaimantSettles`: a claimed row is settled by the job of its last claim or taken over
  when its lease has run out; the token is what carries it.
- `RefinesPromise`: the initial states and every step of the outbox are those of
  `ReminderPromise` under the mapping, also when a scan throws. Its fairness part, that each reminder is settled
  one day, stays with TLC (`PromiseKept` has both).

`CallForPapersProofs`, of `CfpApplication`, for any applicants, fields, closing times, lifetimes. `IInv` is
`TypeOK` and `Pinned` (every form version referred to exists), `Current` (the current
revision is the last, and what was decided was submitted), `Dated` (nothing is from the
future) and `Evidence` (each revision was written in a session that was live then).
`DecisionsStand` and `EvidenceIsChained` follow from it; `DraftsAlwaysFitThePolicy` and
`ApplicantsAreToldOnce` are inductive with it, `DeadlinesHold` is an action property.

The same module, of `ReviewRound`, for any submissions, reviewers and distributions:
type correctness with the foreign key of dispositions, `ConflictAlwaysStopsWork` and
`RetiredReviewersStayRetired` as action properties (the latter of distributions,
replacements and recusals: see section 6), `ReviewsAlwaysBuildOnTheirPage` by an
induction of its own. A distribution is an arbitrary plan (`PlanIsFree` is all that is
used of it). `AssignedWorkIsAlwaysReadable` needs two more inductive facts. `Chained`: an
assignment is replaced once, by one of its own submission and revision, and stays
revoked; with the induction along `Chain` (`PredecessorsAreRevoked`) every predecessor
passes the reviewer's validation. `Bound`: a packet that was sealed names a rubric whose
semantics are stored and an even number of conflict changes that have happened, and who
works without a packet has a legacy assignment.

`StateRestoreProofs`, for any processes and any number of restores, writes, builds,
backups and lost processes. One inductive invariant, `IInv`, in named parts:

- `Holding` and `Leasing`: a plain lock is that of the one process at work under it,
  the lease that of the one process at work on a restore. Without them two processes
  could move the same trees. `Copied` and `Dated` are about what a process remembers
  between two of its steps.
- `Attested`, `Staged`, `Moved`: where the trees are. Every restore but the one of the
  journal is settled, and for that one each phase says which of active, stage and prior
  exist and which receipts they hold. `SettledEitherWay` says nothing while a journal is
  there, so it is not inductive; these say what it must be in between.
- `Drawn`: an identity that has no journal yet is on no receipt.

The steps split into those of a restore that has its journal (`JournalTopology`, one
case for each) and all the others, which leave the trees and receipts where they are
(`QuietSteps`). From `IInv` follow `TypeCorrect`, `AlwaysSettled`,
`BackupsStayConsistent` and the action property `TreesAreKept`.
`RecoveryAlwaysFindsItsTrees` adds `Carried`, which follows the restored tree from the
stage to the state root: in each phase the trees are as the next recovery expects them,
so none of its checks of them fails. This is the safety part of `RestoresAreSettled`.

Out of the prover's reach, and only model-checked: liveness (`QuietReopensAdmission`,
`ClaimsAreResolved`, `PreparedIsSettled`, `RestoresAreSettled`, the liveness of
`PromiseKept`) and what depends on ENABLED. The finding of `cfp_replay` is a
counterexample and has no theorem.

## 6. What is not modelled, and hazards without a property

Hazards that the models cover and that `PROJECT.json`, which lists forty, leaves out: the
receipts of a batch that was written cannot be inserted
(`connector-hub/orchestration.ts:2003`, `DoubtIsOnRecord`), a late page between those of a
successor (`:1012`, `PagesFollowTheCursor`), a recovery that works on a copy of the
intents (`artifact-records/index.ts:880`) and a cleanup against another call's commit
(`:853`, both `CommittedIsServable`), a seal repeated with or without a change
(`publication.ts:1571`, `SealingSettles`), co-speakers with different texts
(`publication-schedule.ts:444`, `PublicIsAgreed`), a schedule moved and moved back
(`scheduling/approval.ts:370`, `ApprovalHolds`), a death between linking and removing the
journal (`lib.mjs:2967`), a torn receipt (`:2430`) and a build replaced after it was
verified (`:3387`, all `RestoresAreSettled`, where `Blocked` names the last two), a
decision on a revision that is not the current one (`cfp/decisions.ts:1628`,
`DecidedRevisionStands`), attempts used up by dead jobs
(`speaker-operations/index.ts:2370`, `PromiseKept`) and leases that have expired when
they are written (`:2610`, `OnlyTheClaimantSettles`), plan states ordered by the clock
(`planning.ts:573`) and the dead ends of planning (`:404`, theorem `DeadEndsStay`), and a
command sent again after a correction (`outcomes.ts:897`, theorem `EvidenceOnlyAdded`).

Not covered, or not modelled:

- *Two server processes on one database.* `docs/ARCHITECTURE.md` does not claim it.
  `claimRunForExecution` (`connector-hub/orchestration.ts:562`) compares the row with
  what it has just selected; `ConnectorExport` with `ProcessOf` naming two processes
  violates `HandedOverOnce`. With two processes a tombstone deleted by the other one
  stays in an artifact index (`artifact-store/index.ts:1012`).
- *Connectors.* A process that dies between `beginRun` and the item limit
  (`orchestration.ts:1836`) leaves a key that reports CREATED for ever; it wrote
  nothing, and a new key starts over. `testConnectorConnection` takes the steps of an
  import that reads once and keeps no rows.
- *Plans.* A correction dated ahead after the clock is set back is refused by a trigger
  until the clock has caught up (`outcomes.ts:1257`, the guard of `CorrectAttendance`).
- *Schedules.* `boundStoredEvents` (`scheduling/persistence.ts:463`) applies every old
  draft to today's grid, so a slot that came from an allocation which moved away makes
  the schedule unreadable: `named` and `Readable` model it, it needs a unit whose own
  time is neither the start of the event nor the whole of it, which only evaluator data
  has. `applyStoredPointer` (`persistence.ts:678`) checks a stored day before its
  context; the day a page shows is not modelled. `updated_at` of an allocation must not
  go back (`canonical.ts:1307`); the clock of this model does not. The conflict of
  defaults (`canonical.ts:1317`) is among the observations above.
- *Release kit.* The confirmation token is read before the lock (`lib.mjs:3400`), the
  operation log has a limit and is never rotated (`:2398`), the lock of a killed
  launcher stays (`:2627`), failed builds, and everything about configuration, git,
  fingerprints, ports and health checks.
- *Database.* A rollback that fails (`src/src/server/db.ts:690`) or a COMMIT that throws
  (`cfp/submissions.ts:879`): the code refuses the connection from then on. Opening a
  database inspects its state before the transaction that migrates it, and binds the
  runtime mode in a statement of its own afterwards, so two processes that open at once,
  or one that dies in between, meet a state that was checked earlier. The deployment
  opens it from one process under the release kit's lock; a module for it is planned.
- *Call for papers.* The form evaluator is a pure function over strings and numbers.
  Proposals bound over several calls, calls for invited people (they admit nobody), and
  an extension that a moved closing time invalidates (`applicant-access.ts:1166`, modelled
  as a refusal, with nothing that promises otherwise).
- *Review.* `sealBlindReviewArtifact` as a command asks about conflicts of its own
  assignment and not about other revisions, so it could seal a packet for a reviewer who
  is retired by another one; `RetiredStaysRetired` does not speak of it. Scores, weights,
  exports and the clock: one set back refuses commands that
  are older than the evidence they follow (`reviewer.ts:2627`).
- *Publication.* Headshots, slides and audiences: a policy version and a binding are one
  transaction each and name an immutable release.
- *Capacity.* Nothing in the program calls the commands of `program-capacity.ts`; its
  ledger would keep to the pool version of its first transfer (`:888`) and fail for good
  past the limit of its surface (`:1147`).
- *Communications and delivery center.* A batch and its rows are one transaction and
  nothing sends them.
- Pure kernels, projections, adapters, routes and UI, the synthetic data of the
  demonstration, and migrations v1 to v21. Much of the source is of this kind, which is
  why the map covers a small share of its lines.

## 7. Plan

The order in which to go on; each module is written without RECURSIVE operators so that
it can be proved about.

1. **PublicationAudience** EXTENDS `ReleasePublication`: channels, policy versions and
   bindings. *What a channel shows is a release its policy admitted when it was bound, and
   a disabled binding stays dark.*
2. **DatabaseOpen**, composed with `StateRestore`: inspection, migration, runtime mode,
   two processes and a crash between any two statements. *A database is opened by a
   process of its own mode and of a schema it knows.*
3. **CapacityLedger**, once something calls it: the balances as abstract specification,
   the replayed transfers as the detailed one.

Proofs, in order: what the liveness of `ConnectorExport` and `ArtifactUpload` rests on,
as `RecoveryAlwaysFindsItsTrees` does for restores: that a claim whose process is gone,
or an intent that stays PREPARED, is always in a state from which a next step resolves
it; then the invariants of the modules above.
