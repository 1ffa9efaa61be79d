--------------------------- MODULE ConnectorExport ---------------------------
(***************************************************************************)
(* One idempotency key of exportCanonicalPeopleToConnector                 *)
(* (src/src/server/services/connector-hub/orchestration.ts): the people of *)
(* a workspace are handed to an outside provider in batches, each person   *)
(* in at most one, whatever dies, times out or is retried.                 *)
(*                                                                         *)
(* A person's projection and authority evidence are one version number;    *)
(* authorized is the set of people for whom the purpose preflight says     *)
(* READY now.  One upsertPeople is a chain of HTTP requests: an answer 429 *)
(* or 5xx is waited out and the same people are sent again, so an earlier  *)
(* request may have written what the last one is refused for.  The answer  *)
(* of the call is one of the classes the code tells apart.  handed and     *)
(* landed are auxiliary: no table records them.                            *)
(***************************************************************************)
EXTENDS ConnectorRun

CONSTANTS
  PersonCount, \* people of the workspace, numbered in the order of their ids
  BatchSize,   \* exportBatchSize of the provider
  MaxTries,    \* requests one upsertPeople may make: maxRetries + 1 of the provider
               \* runtime; Salesforce also looks the person up first
  MaxEvidence  \* bound: versions of one person's projection and authority

Person == 1..PersonCount

ASSUME ExportAssumption ==
  /\ PersonCount \in Nat \ {0}
  /\ BatchSize \in Nat \ {0} /\ MaxTries \in Nat \ {0} /\ MaxEvidence \in Nat \ {0}
  /\ Operation = "EXPORT"

VARIABLES
  candidate,   \* [Person -> version of projection and authority evidence]
  authorized,  \* people whose preflight is READY now
  crowded,     \* the workspace has more people than CONNECTOR_IMPORT_ITEM_LIMIT
  manifest,    \* the run has a connector_export_manifests row
  decision,    \* [Person -> decision_state of connector_export_decisions]
  receipts,    \* people with a connector_export_receipts row
  refusal,     \* provider_attempts of the connector_run_attempts row of the batch
               \* that was refused, 0 when none was
  call,        \* [Caller -> the request between two transactions]
  handed,      \* [Person -> upsertPeople calls the person was handed to, 0..2]
  landed       \* people some HTTP request may have written at the provider

evidence == <<candidate, authorized, crowded>>
tables == <<manifest, decision, receipts, refusal>>
outside == <<handed, landed>>
vars == <<connection, turn, run, owners, candidate, authorized, crowded,
          manifest, decision, receipts, refusal, call, handed, landed>>

Input == [Person -> 1..MaxEvidence]
Step == {"idle", "loaded", "begun", "authorized", "sending", "awaiting",
         "answered", "uncertain"}
Answer == {"OK", "REJECTED", "UNSENT", "UNCERTAIN", "COLLISION"}

\* seen: the state of the row when beginRun read it, ABSENT when it made it;
\* tries: the HTTP requests that upsertPeople has made and that were answered.
CallRecord(at, v, i, s, p, b, t, a) ==
  [at |-> at, version |-> v, input |-> i, seen |-> s, pending |-> p,
   batch |-> b, tries |-> t, answer |-> a]

Idle == CallRecord("idle", 0, None, "ABSENT", {}, {}, 0, None)

Goto(c, at) ==
  call' = [call EXCEPT ![c] =
    CallRecord(at, call[c].version, call[c].input, call[c].seen,
               call[c].pending, call[c].batch, call[c].tries, call[c].answer)]

\* The request returns or throws; its copy of the row is gone.
Return(c) == call' = [call EXCEPT ![c] = Idle] /\ YieldTurn(c)

\* The last transaction of a request: it writes the row or leaves it alone.
Stop(c, row) ==
  /\ run' = row /\ Return(c)
  /\ owners' = IF row = run THEN owners \ {c} ELSE {}

-----------------------------------------------------------------------------
\* loadActiveConnectorExecutionSnapshot and canonicalPeopleForExport.
Load(c) ==
  /\ call[c].at = "idle" /\ OnTurn(c) /\ connection.active
  /\ call' = [call EXCEPT ![c] =
       CallRecord("loaded", connection.version, candidate, "ABSENT", {}, {}, 0, None)]
  /\ KeepTurn(c)
  /\ UNCHANGED <<connection, run, owners, evidence, tables, outside>>

Begin(c) ==
  /\ call[c].at = "loaded" /\ OnTurn(c)
  /\ \/ /\ IdempotencyConflict(call[c].version, call[c].input)
        /\ Return(c) /\ UNCHANGED run
     \/ /\ ~IdempotencyConflict(call[c].version, call[c].input)
        /\ BeginRun(call[c].version, call[c].input)
        /\ call' = [call EXCEPT ![c] =
             CallRecord("begun", call[c].version, call[c].input, run.state, {}, {}, 0, None)]
        /\ KeepTurn(c)
  /\ UNCHANGED <<connection, owners, evidence, tables, outside>>

\* EXPORT_ITEM_LIMIT_EXCEEDED; a replay only reports the row.
RefuseCrowd(c) ==
  /\ call[c].at = "begun" /\ OnTurn(c) /\ crowded
  /\ Stop(c, IF call[c].seen = "ABSENT" THEN Recorded("FAILED_TERMINAL") ELSE run)
  /\ UNCHANGED <<connection, evidence, tables, outside>>

Denied(d) == \E p \in Person : d[p] = "DENIED"

\* The states of a replayed row with which the export goes on.
Resumable(s) == s \in {"CREATED", "FAILED_RETRYABLE", "PARTIAL", "RUNNING"}

\* What the caller does with the row that persistExportPurposeDecisions returns.
Proceed(c, row) ==
  IF \/ row.state = "FAILED_TERMINAL"
     \/ call[c].seen # "ABSENT" /\ (row.state = "SUCCEEDED" \/ ~Resumable(call[c].seen))
  THEN Stop(c, row)
  ELSE run' = row /\ Goto(c, "authorized") /\ KeepTurn(c) /\ UNCHANGED owners

PersistExportPurposeDecisions(c) ==
  /\ call[c].at = "begun" /\ OnTurn(c) /\ ~crowded
  /\ \/ /\ manifest /\ \E p \in Person : decision[p] # "NONE"
        /\ Proceed(c, run) /\ UNCHANGED tables
     \/ /\ run.state # "CREATED" /\ \A p \in Person : decision[p] = "NONE"
        /\ Stop(c, run) /\ UNCHANGED tables
     \/ /\ ~manifest /\ run.state = "CREATED" /\ candidate # call[c].input
        /\ Stop(c, Recorded("FAILED_TERMINAL"))
        /\ manifest' = TRUE /\ UNCHANGED <<decision, receipts, refusal>>
     \/ /\ ~manifest /\ run.state = "CREATED" /\ candidate = call[c].input
        /\ manifest' = TRUE /\ UNCHANGED <<receipts, refusal>>
        /\ decision' = [p \in Person |-> IF p \in authorized THEN "READY" ELSE "DENIED"]
        /\ Proceed(c, IF Denied(decision') THEN Recorded("FAILED_TERMINAL") ELSE run)
  /\ UNCHANGED <<connection, evidence, outside>>

Claim(c) ==
  /\ call[c].at = "authorized" /\ OnTurn(c)
  /\ IF ClaimRefused
     THEN Stop(c, RowAfterRefusal)
     ELSE /\ run' = RowAfterClaim /\ owners' = {c}
          /\ call' = [call EXCEPT ![c] =
               CallRecord("sending", call[c].version, call[c].input, call[c].seen,
                          Person \ receipts, {}, 0, None)]
          /\ KeepTurn(c)
  /\ UNCHANGED <<connection, evidence, tables, outside>>

-----------------------------------------------------------------------------
\* The next slice of the pending people, which are ordered by id.
NextBatch(c) ==
  {p \in call[c].pending :
     Cardinality({q \in call[c].pending : q <= p}) <= BatchSize}

\* mutant: only the stored decision is asked, not the evidence of this instant
BatchAuthorityIsCurrent_StoredOnly(c, batch) ==
  \A p \in batch : decision[p] = "READY"

\* exportBatchAuthorityIsCurrent
BatchAuthorityIsCurrent(c, batch) ==
  \A p \in batch : decision[p] = "READY" /\ p \in authorized
                    /\ candidate[p] = call[c].input[p]

\* One turn of the loop up to the await of upsertPeople.
SendBatch(c) ==
  /\ call[c].at = "sending" /\ call[c].pending # {} /\ OnTurn(c)
  /\ \/ /\ ~OwnsRun(c) /\ Stop(c, run) /\ UNCHANGED handed
     \/ /\ OwnsRun(c) /\ run.attempts >= MaxAttempts
        /\ Stop(c, MarkAttemptBudgetExhausted) /\ UNCHANGED handed
     \/ /\ OwnsRun(c) /\ run.attempts < MaxAttempts
        /\ ~SnapshotCurrent(call[c].version)
        /\ Stop(c, Recorded("UNKNOWN")) /\ UNCHANGED handed
     \/ /\ OwnsRun(c) /\ run.attempts < MaxAttempts
        /\ SnapshotCurrent(call[c].version)
        /\ ~BatchAuthorityIsCurrent(c, NextBatch(c))
        /\ Stop(c, Recorded("FAILED_TERMINAL")) /\ UNCHANGED handed
     \/ /\ OwnsRun(c) /\ run.attempts < MaxAttempts
        /\ SnapshotCurrent(call[c].version)
        /\ BatchAuthorityIsCurrent(c, NextBatch(c))
        /\ call' = [call EXCEPT ![c] =
             CallRecord("awaiting", call[c].version, call[c].input, call[c].seen,
                        call[c].pending, NextBatch(c), 0, None)]
        /\ handed' = [p \in Person |->
             IF p \in NextBatch(c) /\ handed[p] < 2 THEN handed[p] + 1 ELSE handed[p]]
        /\ YieldTurn(c) /\ UNCHANGED <<run, owners>>
  /\ UNCHANGED <<connection, evidence, tables, landed>>

\* requestJson: an answer 429 or 5xx, after which the request may have written
\* some of the people; the same people are sent again after a pause.
ProviderRetries(c) ==
  /\ call[c].at = "awaiting" /\ call[c].tries + 1 < MaxTries
  /\ \E W \in SUBSET call[c].batch : landed' = landed \union W
  /\ call' = [call EXCEPT ![c] =
       CallRecord("awaiting", call[c].version, call[c].input, call[c].seen,
                  call[c].pending, call[c].batch, call[c].tries + 1, None)]
  /\ UNCHANGED <<connection, turn, run, owners, evidence, tables, handed>>

\* upsertPeople returns or throws.  OK: one valid record per person; REJECTED:
\* an explicit outbound rejection, so the last request wrote nothing; UNSENT: no
\* request was made; UNCERTAIN: any other failure, the last 429 or 5xx among
\* them, a malformed answer or a throw, after some of the people may have been
\* written; COLLISION: a valid answer whose receipts break a uniqueness constraint.
ProviderAnswers(c) ==
  /\ call[c].at = "awaiting"
  /\ \E a \in Answer : \E W \in SUBSET call[c].batch :
       /\ a \in {"OK", "COLLISION"} => W = call[c].batch
       /\ a \in {"REJECTED", "UNSENT"} => W = {}
       /\ a = "UNSENT" => call[c].tries = 0
       /\ landed' = landed \union W
       /\ call' = [call EXCEPT ![c] =
            CallRecord("answered", call[c].version, call[c].input, call[c].seen,
                       call[c].pending, call[c].batch,
                       IF a = "UNSENT" THEN 0 ELSE call[c].tries + 1, a)]
  /\ UNCHANGED <<connection, turn, run, owners, evidence, tables, handed>>

\* mutant: an answer that leaves the write in doubt counts as a plain failure
FailureState_Certain(a) == "FAILED_TERMINAL"

\* Which failures the code takes to say that nothing was written: see
\* EXPLICIT_OUTBOUND_REJECTION_CODES.  It asks about the last request only.
FailureState(a) == IF a = "UNCERTAIN" THEN "UNKNOWN" ELSE "FAILED_TERMINAL"

\* A result that is ok and has one valid record for each person of the batch.
Accepted(a) == a = "OK"

\* The loop goes on behind the batch.
NextTurn(c) ==
  /\ call' = [call EXCEPT ![c] =
       CallRecord("sending", call[c].version, call[c].input, call[c].seen,
                  call[c].pending \ call[c].batch, {}, 0, None)]
  /\ KeepTurn(c)

\* The transaction after the await.  A late caller takes the row it finds for
\* its own and goes on when another call has it RUNNING.
SettleBatch(c) ==
  /\ call[c].at = "answered" /\ OnTurn(c)
  /\ \/ /\ ~OwnsRun(c) /\ run.state # "RUNNING"
        /\ Stop(c, run) /\ UNCHANGED <<receipts, refusal>>
     \/ /\ ~OwnsRun(c) /\ run.state = "RUNNING"
        /\ NextTurn(c) /\ owners' = owners \union {c} /\ UNCHANGED <<run, receipts, refusal>>
     \/ /\ OwnsRun(c) /\ ~SnapshotCurrent(call[c].version)
        /\ Stop(c, Recorded("UNKNOWN")) /\ UNCHANGED <<receipts, refusal>>
     \/ /\ OwnsRun(c) /\ SnapshotCurrent(call[c].version)
        /\ call[c].answer # "COLLISION" /\ ~Accepted(call[c].answer)
        /\ Stop(c, Recorded(FailureState(call[c].answer))) /\ UNCHANGED receipts
        /\ refusal' = IF FailureState(call[c].answer) = "UNKNOWN"
                      THEN refusal ELSE call[c].tries
     \/ /\ OwnsRun(c) /\ SnapshotCurrent(call[c].version)
        /\ call[c].answer = "COLLISION"
        /\ Goto(c, "uncertain") /\ KeepTurn(c) /\ UNCHANGED <<run, owners, receipts, refusal>>
     \/ /\ OwnsRun(c) /\ SnapshotCurrent(call[c].version)
        /\ Accepted(call[c].answer)
        /\ run' = Recorded("RUNNING") /\ receipts' = receipts \union call[c].batch
        /\ NextTurn(c) /\ owners' = {c} /\ UNCHANGED refusal
  /\ UNCHANGED <<connection, evidence, manifest, decision, outside>>

\* EXPORT_RECEIPT_UNCERTAIN, after the rollback of the receipts.
MarkReceiptsUncertain(c) ==
  /\ call[c].at = "uncertain" /\ OnTurn(c)
  /\ Stop(c, IF OwnsRun(c) THEN Recorded("UNKNOWN") ELSE run)
  /\ UNCHANGED <<connection, evidence, tables, outside>>

\* trg_connector_export_success_integrity: anything else aborts the transaction.
SuccessEvidence ==
  /\ run.state = "RUNNING" /\ manifest /\ receipts = Person
  /\ \A p \in Person : decision[p] = "READY"

Finalize(c) ==
  /\ call[c].at = "sending" /\ call[c].pending = {} /\ OnTurn(c)
  /\ Stop(c, IF ~OwnsRun(c) THEN run
             ELSE IF SnapshotCurrent(call[c].version)
                  THEN IF SuccessEvidence THEN Written("SUCCEEDED", run.attempts) ELSE run
                  ELSE IF CanRecord THEN Recorded("UNKNOWN") ELSE run)
  /\ UNCHANGED <<connection, evidence, tables, outside>>

-----------------------------------------------------------------------------
\* A process dies with all its requests; a request already sent may still land.
Crash(p) ==
  /\ \E c \in Caller : ProcessOf[c] = p /\ call[c].at # "idle"
  /\ \E W \in SUBSET UNION {call[c].batch : c \in {d \in Caller :
                               ProcessOf[d] = p /\ call[d].at = "awaiting"}} :
       landed' = landed \union W
  /\ call' = [c \in Caller |-> IF ProcessOf[c] = p THEN Idle ELSE call[c]]
  /\ turn' = [turn EXCEPT ![p] = None]
  /\ owners' = {c \in owners : ProcessOf[c] # p}
  /\ UNCHANGED <<connection, run, evidence, tables, handed>>

\* Somebody else edits the person or a new authority version arrives.
EvidenceChanges(p) ==
  /\ OtherRequest /\ candidate[p] < MaxEvidence
  /\ candidate' = [candidate EXCEPT ![p] = @ + 1]
  /\ authorized' \in {authorized \union {p}, authorized \ {p}}
  /\ UNCHANGED <<connection, turn, run, owners, crowded, tables, call, outside>>

\* Consent, retention or authority of the person ends by the clock.
AuthorityLapses(p) ==
  /\ p \in authorized /\ authorized' = authorized \ {p}
  /\ UNCHANGED <<connection, turn, run, owners, candidate, crowded, tables, call, outside>>

ConnectionChanges ==
  /\ OtherRequest /\ (SaveConnection \/ RevokeConnection)
  /\ UNCHANGED <<turn, run, owners, evidence, tables, call, outside>>

TimePasses ==
  /\ LeaseExpires
  /\ UNCHANGED <<connection, turn, owners, evidence, tables, call, outside>>

-----------------------------------------------------------------------------
Init ==
  /\ RunInit
  /\ candidate = [p \in Person |-> 1]
  /\ authorized \in SUBSET Person /\ crowded \in BOOLEAN
  /\ manifest = FALSE
  /\ decision = [p \in Person |-> "NONE"]
  /\ receipts = {} /\ refusal = 0
  /\ call = [c \in Caller |-> Idle]
  /\ handed = [p \in Person |-> 0] /\ landed = {}

CallStep(c) ==
  \/ Begin(c) \/ RefuseCrowd(c) \/ PersistExportPurposeDecisions(c) \/ Claim(c)
  \/ SendBatch(c) \/ SettleBatch(c) \/ MarkReceiptsUncertain(c) \/ Finalize(c)

Next ==
  \/ \E c \in Caller : Load(c) \/ CallStep(c) \/ ProviderRetries(c) \/ ProviderAnswers(c)
  \/ \E p \in Process : Crash(p)
  \/ \E p \in Person : EvidenceChanges(p) \/ AuthorityLapses(p)
  \/ ConnectionChanges \/ TimePasses

Spec == Init /\ [][Next]_vars

\* A request that runs goes on, the provider answers or times out, the lease
\* runs out by the clock, and somebody tries the same key again.
Fairness ==
  /\ \A c \in Caller : WF_vars(CallStep(c)) /\ WF_vars(ProviderAnswers(c))
                        /\ WF_vars(Load(c))
  /\ WF_vars(TimePasses)

\* Processes die, but not for ever.
LiveSpec == Spec /\ Fairness /\ <>[][\A p \in Process : ~Crash(p)]_vars

-----------------------------------------------------------------------------
\* No person is handed to upsertPeople a second time under one key: what the
\* claim, the owner test and UNKNOWN exist for.  The requests inside one
\* upsertPeople repeat by design; the adapters make them upserts by e-mail or id.
HandedOverOnce == \A p \in Person : handed[p] <= 1

\* A person who may have been written without a receipt is never hidden: the run
\* is still open or UNKNOWN, or it was refused and its attempt row says that the
\* refused call had made more than one request.  Of the last case the state alone
\* says nothing: a 503 that wrote and a 403 after it end as FAILED_TERMINAL.
DoubtIsOnRecord ==
  /\ run.state \in {"ABSENT", "CREATED", "SUCCEEDED", "FAILED_RETRYABLE"}
       => landed \subseteq receipts
  /\ run.state = "FAILED_TERMINAL" => landed \subseteq receipts \/ refusal > 1

\* A person is handed to the provider only on evidence that is current in the
\* same transaction, not merely when the run was authorized.  The requests that
\* upsertPeople repeats after a pause do not ask again.
SentOnCurrentEvidence ==
  [][\A c \in Caller :
       call[c].at # "awaiting" /\ call'[c].at = "awaiting" =>
         \A p \in call'[c].batch : p \in authorized /\ candidate[p] = run.input[p]]_vars

\* A claim whose process died does not stay RUNNING while the same key can
\* still be retried under the connection and evidence it was made for.
ClaimsAreResolved ==
  run.state = "RUNNING" ~>
    (run.state # "RUNNING" \/ ~SnapshotCurrent(run.bound) \/ candidate # run.input)
=============================================================================
