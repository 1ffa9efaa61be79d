---------------------------- MODULE ConnectorRun ----------------------------
(***************************************************************************)
(* The durable row of one connector run and the rules by which concurrent  *)
(* calls claim, keep and lose it                                           *)
(* (src/src/server/services/connector-hub/orchestration.ts, connections.ts)*)
(*                                                                         *)
(* A call is a chain of database transactions.  Inside one Node process    *)
(* the chain is interrupted only where the code awaits the provider: turn  *)
(* names the call that holds the event loop of a process.  Calls of        *)
(* different processes interleave between any two transactions.            *)
(*                                                                         *)
(* run.fresh says that updated_at is younger than the execution lease.     *)
(* owners are the calls whose in-memory copy of the row carries the current*)
(* updated_at: what withOwnedRunTransition compares.  A write leaves one   *)
(* owner, the writer; reading the row makes another.                       *)
(* Instants of two different writes are taken to differ.                   *)
(***************************************************************************)
EXTENDS Integers, FiniteSets

CONSTANTS
  Caller,      \* requests that carry the idempotency key of the run
  Process,     \* server processes that open the database
  ProcessOf,   \* [Caller -> Process]
  Operation,   \* "TEST", "IMPORT" or "EXPORT"
  MaxAttempts, \* CONNECTOR_RUN_MAX_ATTEMPTS (1000)
  MaxVersion,  \* bound: connection versions an organizer creates
  None

ASSUME RunAssumption ==
  /\ ProcessOf \in [Caller -> Process]
  /\ Operation \in {"TEST", "IMPORT", "EXPORT"}
  /\ MaxAttempts \in Nat \ {0} /\ MaxVersion \in Nat \ {0}
  /\ None \notin Caller

VARIABLES
  connection,  \* the row of connector_connections: version and ACTIVE or not
  turn,        \* [Process -> the call that holds its event loop]
  run,         \* the row of connector_runs
  owners       \* the calls whose copy of the row has its updated_at

RunState == {"ABSENT", "CREATED", "RUNNING", "PREVIEW_READY", "SUCCEEDED",
             "FAILED_RETRYABLE", "FAILED_TERMINAL", "UNKNOWN"}

-----------------------------------------------------------------------------
\* The event loop of a process.
OnTurn(c) == turn[ProcessOf[c]] \in {None, c}
KeepTurn(c) == turn' = [turn EXCEPT ![ProcessOf[c]] = c]
YieldTurn(c) == turn' = [turn EXCEPT ![ProcessOf[c]] = None]
OtherRequest == \E p \in Process : turn[p] = None

-----------------------------------------------------------------------------
\* The connection row, guarded by an optimistic version.
Connection(v, a) == [version |-> v, active |-> a]

\* A save that changes nothing writes nothing; any other save takes the next
\* version and activates the connection again.
SaveConnection ==
  /\ connection.version < MaxVersion
  /\ connection' = Connection(connection.version + 1, TRUE)

RevokeConnection ==
  /\ connection.active /\ connection.version < MaxVersion
  /\ connection' = Connection(connection.version + 1, FALSE)

SnapshotCurrent(v) == connection.active /\ connection.version = v

-----------------------------------------------------------------------------
\* The run row.  Every write sets updated_at, so a RUNNING row is fresh again.
RunRow(s, a, v, i, f) ==
  [state |-> s, attempts |-> a, bound |-> v, input |-> i, fresh |-> f]

Unborn == RunRow("ABSENT", 0, 0, None, FALSE)

Written(s, a) == RunRow(s, a, run.bound, run.input, s = "RUNNING")

\* recordAttempt: attempt numbers above the limit break a CHECK of the table,
\* and the transaction rolls back.
CanRecord == run.attempts < MaxAttempts
Recorded(s) == Written(s, run.attempts + 1)

MarkAttemptBudgetExhausted == Written("FAILED_TERMINAL", run.attempts)

\* The insert of beginRun; a replay finds the row instead.
BeginRun(v, i) ==
  run' = IF run.state = "ABSENT" THEN RunRow("CREATED", 0, v, i, FALSE) ELSE run

\* beginRun refuses a key that was used with another connection or input.
IdempotencyConflict(v, i) ==
  run.state # "ABSENT" /\ (run.bound # v \/ run.input # i)

-----------------------------------------------------------------------------
\* mutant: a RUNNING row counts as owned for ever
RunningLeaseIsFresh_Forever == run.state = "RUNNING"

RunningLeaseIsFresh == run.state = "RUNNING" /\ run.fresh

ClaimRefused == run.state = "RUNNING" \/ run.attempts >= MaxAttempts

\* mutant: an expired outbound claim is retried like a read
Interrupted_Retried == "FAILED_RETRYABLE"

\* What claimRunForExecution makes of an expired claim that nobody finished.
Interrupted == IF Operation = "EXPORT" THEN "UNKNOWN" ELSE "FAILED_RETRYABLE"

RowAfterRefusal ==
  IF RunningLeaseIsFresh THEN run
  ELSE IF run.attempts >= MaxAttempts THEN MarkAttemptBudgetExhausted
  ELSE Recorded(Interrupted)

RowAfterClaim == Written("RUNNING", run.attempts)

\* mutant: the guard compares the state and forgets updated_at
OwnsRun_AnyOwner(c) == run.state = "RUNNING"

\* withOwnedRunTransition: the guard of every write after the claim.
OwnsRun(c) == run.state = "RUNNING" /\ c \in owners

\* The ten minutes of CONNECTOR_EXECUTION_LEASE_MS pass without a write.
LeaseExpires ==
  /\ RunningLeaseIsFresh
  /\ run' = RunRow(run.state, run.attempts, run.bound, run.input, FALSE)

-----------------------------------------------------------------------------
RunInit ==
  /\ connection = Connection(1, TRUE)
  /\ turn = [p \in Process |-> None]
  /\ run = Unborn
  /\ owners = {}

RunType(inputs) ==
  /\ connection \in [version : 1..MaxVersion, active : BOOLEAN]
  /\ turn \in [Process -> Caller \union {None}]
  /\ run \in [state : RunState, attempts : 0..MaxAttempts, bound : 0..MaxVersion,
              input : inputs \union {None}, fresh : BOOLEAN]
  /\ owners \subseteq Caller
=============================================================================
