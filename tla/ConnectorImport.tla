--------------------------- MODULE ConnectorImport ---------------------------
(***************************************************************************)
(* One idempotency key of createConnectorImportPreview, and the one-time   *)
(* confirmation of the preview it makes                                    *)
(* (src/src/server/services/connector-hub/orchestration.ts).               *)
(*                                                                         *)
(* The provider's contacts are read page by page from an opaque cursor; a  *)
(* run that lost its process goes on from the stored cursor.  A contact is *)
(* its external identity; what a row says of a person is the business of   *)
(* ConnectorIdentity.  ledger is the SUCCEEDED rows of                     *)
(* connector_run_attempts, each with the cursor its request was sent with. *)
(***************************************************************************)
EXTENDS ConnectorRun, Sequences, FiniteSetsExt

CONSTANTS
  Contact,    \* external identities the provider may report
  MaxCursor,  \* bound: the provider's cursors are 1..MaxCursor, 0 is NULL
  PageLimit,  \* CONNECTOR_IMPORT_PAGE_LIMIT (10)
  ItemLimit,  \* CONNECTOR_IMPORT_ITEM_LIMIT (500)
  PageSize,   \* the largest page asked for (100)
  MaxToken    \* bound: confirmation tokens issued

ASSUME ImportAssumption ==
  /\ MaxCursor \in Nat /\ MaxToken \in Nat
  /\ PageLimit \in Nat \ {0} /\ ItemLimit \in Nat \ {0} /\ PageSize \in Nat \ {0}
  /\ IsFiniteSet(Contact) /\ Operation = "IMPORT"

VARIABLES
  progress,  \* provider_cursor, page_count and item_count of the run
  rows,      \* identities with a connector_import_preview_rows row
  ledger,    \* the successful page reads, in order
  token,     \* the stored confirmation: 0 is NULL, and whether it is in time
  issued,    \* tokens handed out so far
  shown,     \* [1..MaxToken -> the rows of the preview a token was issued for]
  applied,   \* rows with an applied_source_record_id
  call       \* [Caller -> the request between two transactions]

preview == <<progress, rows, ledger>>
confirmation == <<token, issued, shown, applied>>
vars == <<connection, turn, run, owners, progress, rows, ledger,
          token, issued, shown, applied, call>>

Cursor == 0..MaxCursor
Progress(k, p, i) == [cursor |-> k, pages |-> p, items |-> i]
Token(n, f) == [number |-> n, fresh |-> f]
PageRead(read, before, after, items) ==
  [read |-> read, before |-> before, after |-> after, items |-> items]

\* What readContacts may return.  makeContactPage has refused a page that is
\* too long, repeats an identity, or is empty and not the last.
Page(room) ==
  [kind : {"PAGE"}, contacts : {C \in SUBSET Contact : Cardinality(C) <= room}, next : {0}]
  \union
  [kind : {"PAGE"}, contacts : {C \in SUBSET Contact : C # {} /\ Cardinality(C) <= room},
   next : 1..MaxCursor]
Failure == [kind : {"RETRYABLE", "TERMINAL", "THROWN"}, contacts : {{}}, next : {0}]
NoAnswer == [kind |-> "NONE", contacts |-> {}, next |-> 0]

CallRecord(at, v, s, k, r, a) ==
  [at |-> at, version |-> v, seen |-> s, cursor |-> k, room |-> r, answer |-> a]
Idle == CallRecord("idle", 0, "ABSENT", 0, 0, NoAnswer)

Return(c) == call' = [call EXCEPT ![c] = Idle] /\ YieldTurn(c)

\* The last transaction of a request: it writes the row or leaves it alone.
Stop(c, row) ==
  /\ run' = row /\ Return(c)
  /\ owners' = IF row = run THEN owners \ {c} ELSE {}

\* The request goes on; what it read for the step it has done is forgotten.
Goto(c, at) ==
  /\ call' = [call EXCEPT ![c] =
       CallRecord(at, call[c].version, "ABSENT", 0, 0, NoAnswer)]
  /\ KeepTurn(c)

-----------------------------------------------------------------------------
Load(c) ==
  /\ call[c].at = "idle" /\ OnTurn(c) /\ connection.active
  /\ call' = [call EXCEPT ![c] =
       CallRecord("loaded", connection.version, "ABSENT", 0, 0, NoAnswer)]
  /\ KeepTurn(c)
  /\ UNCHANGED <<connection, run, owners, preview, confirmation>>

\* The input fingerprint holds the connection version and the limits.
Begin(c) ==
  /\ call[c].at = "loaded" /\ OnTurn(c)
  /\ \/ /\ IdempotencyConflict(call[c].version, None)
        /\ Return(c) /\ UNCHANGED run
     \/ /\ ~IdempotencyConflict(call[c].version, None)
        /\ BeginRun(call[c].version, None)
        /\ call' = [call EXCEPT ![c] =
             CallRecord("begun", call[c].version, run.state, 0, 0, NoAnswer)]
        /\ KeepTurn(c)
  /\ UNCHANGED <<connection, owners, preview, confirmation>>

\* mutant: a finished preview or import may be executed again
Resumable_Finished(s) == s # "FAILED_TERMINAL"

Resumable(s) == s \in {"ABSENT", "CREATED", "FAILED_RETRYABLE", "PARTIAL", "RUNNING"}

Claim(c) ==
  /\ call[c].at = "begun" /\ OnTurn(c)
  /\ \/ /\ ~Resumable(call[c].seen) /\ Stop(c, run)
     \/ /\ Resumable(call[c].seen) /\ ClaimRefused /\ Stop(c, RowAfterRefusal)
     \/ /\ Resumable(call[c].seen) /\ ~ClaimRefused
        /\ run' = RowAfterClaim /\ owners' = {c} /\ Goto(c, "reading")
  /\ UNCHANGED <<connection, preview, confirmation>>

-----------------------------------------------------------------------------
\* IMPORT_LIMIT_EXCEEDED
Exhausted == progress.pages >= PageLimit \/ progress.items >= ItemLimit

\* The size asked for: what is left of the item budget bounds the last page.
Room == Min({PageSize, ItemLimit - progress.items})

\* The head of the loop, up to the await of readContacts.
ReadContacts(c) ==
  /\ call[c].at = "reading" /\ OnTurn(c)
  /\ \/ /\ ~OwnsRun(c) /\ Stop(c, run)
     \/ /\ OwnsRun(c) /\ ~CanRecord /\ Stop(c, MarkAttemptBudgetExhausted)
     \/ /\ OwnsRun(c) /\ CanRecord /\ Exhausted
        /\ Stop(c, Recorded("FAILED_TERMINAL"))
     \/ /\ OwnsRun(c) /\ CanRecord /\ ~Exhausted /\ ~SnapshotCurrent(call[c].version)
        /\ Stop(c, Recorded("UNKNOWN"))
     \/ /\ OwnsRun(c) /\ CanRecord /\ ~Exhausted /\ SnapshotCurrent(call[c].version)
        /\ call' = [call EXCEPT ![c] =
             CallRecord("awaiting", call[c].version, "ABSENT", progress.cursor, Room,
                        NoAnswer)]
        /\ YieldTurn(c) /\ UNCHANGED <<run, owners>>
  /\ UNCHANGED <<connection, preview, confirmation>>

ProviderAnswers(c) ==
  /\ call[c].at = "awaiting"
  /\ \E a \in Page(call[c].room) \union Failure :
       call' = [call EXCEPT ![c] =
         CallRecord("answered", call[c].version, "ABSENT", call[c].cursor, 0, a)]
  /\ UNCHANGED <<connection, turn, run, owners, preview, confirmation>>

\* failureState of a failed read, which is never ambiguous.
FailureState(a) == IF a.kind = "RETRYABLE" THEN "FAILED_RETRYABLE" ELSE "FAILED_TERMINAL"

\* insertPreviewPage throws CONNECTOR_IMPORT_DUPLICATE_PAGE.
Repeats(a) == a.contacts \intersect rows # {}

\* mutant: a page that repeats an identity is inserted as far as it is new
Insertable_Merged(a) == a.kind = "PAGE"

Insertable(a) == a.kind = "PAGE" /\ ~Repeats(a)

DuplicateCursor(a) == a.kind = "PAGE" /\ a.next # 0 /\ a.next = progress.cursor

\* finalizePreview hands out a token with the preview it is good for.
FinalizePreview ==
  /\ issued < MaxToken
  /\ issued' = issued + 1 /\ token' = Token(issued + 1, TRUE)
  /\ shown' = [shown EXCEPT ![issued + 1] = rows']
  /\ UNCHANGED applied

InsertPage(c, a) ==
  /\ rows' = rows \union a.contacts
  /\ progress' = Progress(a.next, progress.pages + 1,
                          progress.items + Cardinality(a.contacts))
  /\ ledger' = Append(ledger, PageRead(call[c].cursor, progress.cursor, a.next,
                                       Cardinality(a.contacts)))
  /\ IF a.next = 0
     THEN FinalizePreview /\ Stop(c, Recorded("PREVIEW_READY"))
     ELSE /\ run' = Recorded("RUNNING") /\ owners' = {c} /\ Goto(c, "reading")
          /\ UNCHANGED confirmation

\* The transaction after the await.
SettlePage(c) ==
  /\ call[c].at = "answered" /\ OnTurn(c)
  /\ \/ /\ ~OwnsRun(c) /\ Stop(c, run) /\ UNCHANGED <<preview, confirmation>>
     \/ /\ OwnsRun(c) /\ call[c].answer.kind = "THROWN"
        /\ Stop(c, Recorded("FAILED_TERMINAL")) /\ UNCHANGED <<preview, confirmation>>
     \/ /\ OwnsRun(c) /\ call[c].answer.kind # "THROWN" /\ ~SnapshotCurrent(call[c].version)
        /\ Stop(c, Recorded("UNKNOWN")) /\ UNCHANGED <<preview, confirmation>>
     \/ /\ OwnsRun(c) /\ call[c].answer.kind \in {"RETRYABLE", "TERMINAL"}
        /\ SnapshotCurrent(call[c].version)
        /\ Stop(c, Recorded(FailureState(call[c].answer)))
        /\ UNCHANGED <<preview, confirmation>>
     \/ /\ OwnsRun(c) /\ DuplicateCursor(call[c].answer) /\ SnapshotCurrent(call[c].version)
        /\ Stop(c, Recorded("FAILED_TERMINAL")) /\ UNCHANGED <<preview, confirmation>>
     \/ /\ OwnsRun(c) /\ SnapshotCurrent(call[c].version)
        /\ call[c].answer.kind = "PAGE" /\ ~DuplicateCursor(call[c].answer)
        /\ ~Insertable(call[c].answer)
        /\ Goto(c, "rolledBack") /\ UNCHANGED <<run, owners, preview, confirmation>>
     \/ /\ OwnsRun(c) /\ SnapshotCurrent(call[c].version)
        /\ ~DuplicateCursor(call[c].answer) /\ Insertable(call[c].answer)
        /\ InsertPage(c, call[c].answer)
  /\ UNCHANGED connection

\* IMPORT_PERSISTENCE_FAILED, a transaction of its own after the rollback.
MarkPersistenceFailed(c) ==
  /\ call[c].at = "rolledBack" /\ OnTurn(c)
  /\ Stop(c, IF OwnsRun(c) THEN Recorded("FAILED_TERMINAL") ELSE run)
  /\ UNCHANGED <<connection, preview, confirmation>>

-----------------------------------------------------------------------------
\* issueConnectorImportConfirmation: a new token replaces the old one.
IssueConfirmation ==
  /\ OtherRequest /\ run.state = "PREVIEW_READY" /\ SnapshotCurrent(run.bound)
  /\ issued < MaxToken
  /\ issued' = issued + 1 /\ token' = Token(issued + 1, TRUE)
  /\ shown' = [shown EXCEPT ![issued + 1] = rows]
  /\ owners' = {}
  /\ UNCHANGED <<connection, turn, run, preview, applied, call>>

\* The token is compared with the one stored last, which may have expired.
Confirms(n) == token.fresh /\ token.number = n

\* confirmConnectorImport with the n-th token.  A conflict with the people of
\* the workspace rolls everything back.
ConfirmImport(n) ==
  /\ OtherRequest /\ run.state = "PREVIEW_READY" /\ Confirms(n)
  /\ SnapshotCurrent(run.bound)
  /\ \E kept \in SUBSET rows : applied' = kept   \* all but the CONFLICT rows
  /\ run' = Written("SUCCEEDED", run.attempts) /\ owners' = {}
  /\ token' = Token(0, FALSE)
  /\ UNCHANGED <<connection, turn, preview, issued, shown, call>>

TokenExpires ==
  /\ token.fresh /\ token' = Token(token.number, FALSE)
  /\ UNCHANGED <<connection, turn, run, owners, preview, issued, shown, applied, call>>

-----------------------------------------------------------------------------
Crash(p) ==
  /\ \E c \in Caller : ProcessOf[c] = p /\ call[c].at # "idle"
  /\ call' = [c \in Caller |-> IF ProcessOf[c] = p THEN Idle ELSE call[c]]
  /\ turn' = [turn EXCEPT ![p] = None]
  /\ owners' = {c \in owners : ProcessOf[c] # p}
  /\ UNCHANGED <<connection, run, preview, confirmation>>

ConnectionChanges ==
  /\ OtherRequest /\ (SaveConnection \/ RevokeConnection)
  /\ UNCHANGED <<turn, run, owners, preview, confirmation, call>>

TimePasses ==
  /\ LeaseExpires
  /\ UNCHANGED <<connection, turn, owners, preview, confirmation, call>>

-----------------------------------------------------------------------------
Init ==
  /\ RunInit
  /\ progress = Progress(0, 0, 0) /\ rows = {} /\ ledger = <<>>
  /\ token = Token(0, FALSE) /\ issued = 0
  /\ shown = [n \in 1..MaxToken |-> {}] /\ applied = {}
  /\ call = [c \in Caller |-> Idle]

CallStep(c) ==
  \/ Begin(c) \/ Claim(c) \/ ReadContacts(c) \/ SettlePage(c) \/ MarkPersistenceFailed(c)

Next ==
  \/ \E c \in Caller : Load(c) \/ CallStep(c) \/ ProviderAnswers(c)
  \/ IssueConfirmation \/ \E n \in 1..MaxToken : ConfirmImport(n)
  \/ TokenExpires
  \/ \E p \in Process : Crash(p)
  \/ ConnectionChanges \/ TimePasses

Spec == Init /\ [][Next]_vars

-----------------------------------------------------------------------------
\* Whoever reads and however often the run changes hands, each page was asked
\* for with the cursor the page before it returned, the first with none, and
\* the rows are those pages without loss or repetition.
PagesFollowTheCursor ==
  /\ \A i \in 1..Len(ledger) :
       /\ ledger[i].read = ledger[i].before
       /\ ledger[i].before = IF i = 1 THEN 0 ELSE ledger[i - 1].after
  /\ progress.pages = Len(ledger)
  /\ progress.items = Cardinality(rows)

\* What an organizer was shown with a token is what the run holds ever after:
\* no retry adds to or restarts a preview that waits for confirmation.
PreviewIsFrozenOnceShown == \A n \in 1..issued : shown[n] = rows
=============================================================================
