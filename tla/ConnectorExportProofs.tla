------------------------ MODULE ConnectorExportProofs ------------------------
(***************************************************************************)
(* Proofs about ConnectorExport for any number of requests, people,        *)
(* batches, attempts and versions, on one server process: the deployment   *)
(* the code is written for.  The argument is that of the single claim.     *)
(* Between the reads of a request and its claim nothing else holds the     *)
(* event loop, so a run is claimed only while it is CREATED, hence once;   *)
(* the claimer is the only request that ever sends, and what it has still  *)
(* to send was never handed over.  A closed run leaves a write in doubt    *)
(* only when it was refused after a request that had to be repeated.       *)
(* The last part is about ConnectorIdentity: the confirmation of imports.  *)
(***************************************************************************)
EXTENDS ConnectorExport, ConnectorIdentity, FiniteSetTheorems, WellFoundedInduction, TLAPS

OneServer == \A p, q \in Process : p = q

ExportState == {"ABSENT", "CREATED", "RUNNING", "SUCCEEDED", "FAILED_TERMINAL", "UNKNOWN"}
Holding     == {"loaded", "begun", "authorized", "sending", "uncertain"}
Flight      == {"sending", "awaiting", "answered", "uncertain"}
Waiting     == {"awaiting", "answered", "uncertain"}

(***************************************************************************)
(* The inductive invariant                                                 *)
(***************************************************************************)
Shape == /\ turn \in [Process -> Caller \union {None}]
         /\ run.state \in ExportState /\ run.attempts \in Nat
         /\ receipts \subseteq Person
         /\ handed \in [Person -> Nat] /\ landed \subseteq Person
         /\ call = [c \in Caller |-> call[c]]
         /\ \A c \in Caller : call[c].at \in Step

\* a request between two of its own transactions keeps the event loop
TurnHeld == \A c \in Caller : call[c].at \in Holding => turn[ProcessOf[c]] = c

\* so what it decided on is what the row still says
DecidedOnRow ==
  \A c \in Caller :
    /\ call[c].at = "begun" =>
         run.state = IF call[c].seen = "ABSENT" THEN "CREATED" ELSE call[c].seen
    /\ call[c].at = "authorized" => run.state \in {"CREATED", "RUNNING"}

OneInFlight ==
  \A c, d \in Caller : call[c].at \in Flight /\ call[d].at \in Flight => c = d

Untouched ==
  run.state \in {"ABSENT", "CREATED"} =>
    /\ \A c \in Caller : call[c].at \notin Flight
    /\ \A p \in Person : handed[p] = 0
    /\ receipts = {} /\ landed = {}

\* the request that sends is the owner of the row for as long as it is RUNNING
SenderOwns ==
  \A c \in Caller : call[c].at \in Flight /\ run.state = "RUNNING" => c \in owners

\* what is still to be sent was never handed over and is all that has no receipt;
\* a batch that was not repeated and is refused was not written
ToBeSent ==
  \A c \in Caller :
    /\ call[c].at \in Flight => call[c].pending = Person \ receipts
    /\ call[c].at = "sending" =>
         \A p \in call[c].pending : handed[p] = 0 /\ p \notin landed
    /\ call[c].at \in {"awaiting", "answered"} =>
         /\ call[c].batch \subseteq call[c].pending /\ call[c].tries \in Nat
         /\ \A p \in call[c].pending \ call[c].batch : handed[p] = 0 /\ p \notin landed
    /\ call[c].at = "awaiting" /\ call[c].tries = 0 =>
         \A p \in call[c].batch : p \notin landed
    /\ call[c].at = "answered" =>
         /\ call[c].answer \in Answer
         /\ call[c].answer \in {"REJECTED", "UNSENT"} =>
              call[c].tries > 1 \/ \A p \in call[c].batch : p \notin landed

InDoubt   == \E p \in landed : p \notin receipts
Awaited   == \E c \in Caller : call[c].at \in Waiting
Unsettled == InDoubt \/ Awaited

\* a write in doubt has an attempt left to be recorded as UNKNOWN, or was left
\* behind by a refusal after more than one request
DoubtIsOpen ==
  Unsettled => \/ run.state = "UNKNOWN"
               \/ run.state = "RUNNING" /\ run.attempts < MaxAttempts
               \/ run.state = "FAILED_TERMINAL" /\ refusal > 1 /\ ~Awaited

ExportInv == /\ Shape /\ TurnHeld /\ DecidedOnRow /\ OneInFlight /\ Untouched
             /\ SenderOwns /\ ToBeSent /\ DoubtIsOpen /\ HandedOverOnce

(***************************************************************************)
(* The event loop                                                          *)
(***************************************************************************)
LEMMA Loop ==
  ASSUME OneServer, Shape, TurnHeld, NEW c \in Caller, OnTurn(c),
         NEW d \in Caller, call[d].at \in Holding
  PROVE  d = c
<1>1. ProcessOf[c] \in Process /\ ProcessOf[d] \in Process  BY RunAssumption
<1>2. ProcessOf[c] = ProcessOf[d]  BY <1>1 DEF OneServer
<1>3. turn[ProcessOf[c]] = d  BY <1>2 DEF TurnHeld
<1>4. d # None  BY RunAssumption
<1>5. QED  BY <1>3, <1>4 DEF OnTurn

\* a step of one request: its record and the loop, and nobody else's record
LEMMA CallChanges ==
  ASSUME Shape, NEW c \in Caller, NEW r, r.at \in Step,
         call' = [call EXCEPT ![c] = r]
  PROVE  /\ call'[c] = r
         /\ \A d \in Caller : d # c => call'[d] = call[d]
         /\ call' = [d \in Caller |-> call'[d]]
         /\ \A d \in Caller : call'[d].at \in Step
<1>1. call = [d \in Caller |-> call[d]]  BY DEF Shape
<1>2. call' = [d \in Caller |-> IF d = c THEN r ELSE call[d]]  BY <1>1
<1>3. QED  BY <1>2 DEF Shape

LEMMA TurnChanges ==
  ASSUME OneServer, Shape, NEW c \in Caller, KeepTurn(c) \/ YieldTurn(c)
  PROVE  /\ turn' \in [Process -> Caller \union {None}]
         /\ KeepTurn(c) => turn'[ProcessOf[c]] = c
<1>1. ProcessOf[c] \in Process  BY RunAssumption
<1>2. QED  BY <1>1 DEF Shape, KeepTurn, YieldTurn

(***************************************************************************)
(* A request that ends.  It leaves the row alone, or closes the run when   *)
(* nothing is in doubt, or says UNKNOWN, or keeps the number of requests.  *)
(***************************************************************************)
Closes(c) == /\ run'.state \in {"SUCCEEDED", "FAILED_TERMINAL", "UNKNOWN"}
             /\ run'.attempts \in Nat
             /\ \/ run'.state = "UNKNOWN"
                \/ /\ ~InDoubt \/ (run'.state = "FAILED_TERMINAL" /\ refusal' > 1)
                   /\ \A d \in Caller : call[d].at \in Waiting => d = c

LEMMA Ends ==
  ASSUME OneServer, ExportInv, NEW c \in Caller, OnTurn(c), Return(c),
         UNCHANGED <<receipts, handed, landed>>,
         \/ UNCHANGED <<run, refusal>> /\ owners \ {c} \subseteq owners'
         \/ Closes(c)
  PROVE  ExportInv'
<1> USE DEF ExportInv
<1>1. /\ call'[c] = Idle /\ \A d \in Caller : d # c => call'[d] = call[d]
      /\ call' = [d \in Caller |-> call'[d]]
      /\ \A d \in Caller : call'[d].at \in Step
  <2>1. Idle.at \in Step  BY DEF Idle, CallRecord, Step
  <2>2. QED  BY <2>1, CallChanges DEF Return
<1>2. /\ call'[c].at = "idle"
      /\ \A d \in Caller : call'[d].at # "idle" => d # c /\ call'[d] = call[d]
  BY <1>1 DEF Idle, CallRecord
<1>3. turn' \in [Process -> Caller \union {None}]  BY TurnChanges DEF Return
<1>4. Shape'  BY <1>1, <1>3 DEF Shape, Closes, ExportState
<1>5. \A d \in Caller : call'[d].at \notin Holding
  BY <1>2, Loop DEF Holding
<1>6. TurnHeld' /\ DecidedOnRow'  BY <1>5 DEF TurnHeld, DecidedOnRow, Holding
<1>7. OneInFlight'  BY <1>2 DEF OneInFlight, Flight
<1>8. Untouched'  BY <1>2 DEF Untouched, Closes, Flight
<1>9. SenderOwns'  BY <1>2 DEF SenderOwns, Closes, Flight
<1>10. ToBeSent'  BY <1>2 DEF ToBeSent, Flight
<1>11. DoubtIsOpen'
  <2>1. /\ Unsettled' => Unsettled
        /\ Awaited' => Awaited
    BY <1>2 DEF Unsettled, Awaited, InDoubt, Waiting
  <2>2. CASE UNCHANGED <<run, refusal>>  BY <2>1, <2>2 DEF DoubtIsOpen
  <2>3. CASE Closes(c)
    <3>1. CASE run'.state = "UNKNOWN"  BY <3>1 DEF DoubtIsOpen
    <3>2. CASE /\ ~InDoubt \/ (run'.state = "FAILED_TERMINAL" /\ refusal' > 1)
               /\ \A d \in Caller : call[d].at \in Waiting => d = c
      <4>1. ~Awaited' /\ InDoubt' = InDoubt
        BY <3>2, <1>2 DEF Awaited, InDoubt, Waiting
      <4>2. QED  BY <3>2, <4>1 DEF DoubtIsOpen, Unsettled
    <3>3. QED  BY <2>3, <3>1, <3>2 DEF Closes
  <2>4. QED  BY <2>2, <2>3
<1>12. QED  BY <1>4, <1>6, <1>7, <1>8, <1>9, <1>10, <1>11 DEF HandedOverOnce

\* Stop is such an end
LEMMA Stops ==
  ASSUME OneServer, ExportInv, NEW c \in Caller, OnTurn(c), NEW row, Stop(c, row),
         UNCHANGED <<receipts, refusal, handed, landed>>, row = run \/ Closes(c)
  PROVE  ExportInv'
BY Ends DEF Stop
(***************************************************************************)
(* A request that goes on: its record is r, and whoever else is under way  *)
(* waits for the provider.                                                 *)
(***************************************************************************)
Advanced(c, r) ==
  /\ call'[c] = r
  /\ \A d \in Caller : d # c => call'[d] = call[d] /\ call[d].at \notin Holding
  /\ call' = [d \in Caller |-> call'[d]]
  /\ \A d \in Caller : call'[d].at \in Step
  /\ turn' \in [Process -> Caller \union {None}]
  /\ TurnHeld'

LEMMA Advances ==
  ASSUME OneServer, Shape, TurnHeld, NEW c \in Caller, OnTurn(c),
         NEW r, r.at \in Step, call' = [call EXCEPT ![c] = r],
         KeepTurn(c) \/ (YieldTurn(c) /\ r.at \notin Holding)
  PROVE  Advanced(c, r)
<1>1. /\ call'[c] = r /\ \A d \in Caller : d # c => call'[d] = call[d]
      /\ call' = [d \in Caller |-> call'[d]]
      /\ \A d \in Caller : call'[d].at \in Step
  BY CallChanges
<1>2. \A d \in Caller : d # c => call[d].at \notin Holding  BY Loop
<1>3. turn' \in [Process -> Caller \union {None}]  BY TurnChanges
<1>4. TurnHeld'  BY <1>1, <1>2, TurnChanges DEF TurnHeld
<1>5. QED  BY <1>1, <1>2, <1>3, <1>4 DEF Advanced

\* on the way to the claim it touches nothing but, once, the row that is absent
Approaching(c, r) ==
  /\ OnTurn(c) /\ KeepTurn(c) /\ call[c].at \notin Flight
  /\ call' = [call EXCEPT ![c] = r]
  /\ UNCHANGED <<owners, receipts, refusal, handed, landed>>
  /\ \/ UNCHANGED run
     \/ run.state = "ABSENT" /\ run'.state = "CREATED" /\ run'.attempts = 0
  /\ \/ r.at = "loaded"
     \/ /\ r.at = "begun"
        /\ run'.state = IF r.seen = "ABSENT" THEN "CREATED" ELSE r.seen
     \/ r.at = "authorized" /\ run'.state \in {"CREATED", "RUNNING"}

LEMMA Approaches ==
  ASSUME OneServer, ExportInv, NEW c \in Caller, NEW r, Approaching(c, r)
  PROVE  ExportInv'
<1> USE DEF ExportInv, Approaching
<1>1. r.at \in Step  BY DEF Step
<1>2. Advanced(c, r)  BY <1>1, Advances
<1> USE DEF Advanced
<1>3. Shape'  BY <1>2 DEF Shape, ExportState
<1>4. DecidedOnRow'  BY <1>2 DEF DecidedOnRow, Holding
<1>5. OneInFlight' /\ Untouched' /\ SenderOwns'
  BY <1>2 DEF OneInFlight, Untouched, SenderOwns, Flight
<1>6. ToBeSent'  BY <1>2 DEF ToBeSent, Flight
<1>7. DoubtIsOpen'
  <2>1. InDoubt' = InDoubt /\ Awaited' = Awaited
    BY <1>2 DEF InDoubt, Awaited, Waiting, Flight
  <2>2. CASE UNCHANGED run  BY <2>1, <2>2 DEF DoubtIsOpen, Unsettled
  <2>3. CASE run.state = "ABSENT"  BY <2>1, <2>3 DEF DoubtIsOpen, Unsettled
  <2>4. QED  BY <2>2, <2>3
<1>8. QED  BY <1>2, <1>3, <1>4, <1>5, <1>6, <1>7 DEF HandedOverOnce

LEMMA LoadKeeps ==
  ASSUME OneServer, ExportInv, NEW c \in Caller, Load(c)
  PROVE  ExportInv'
<1> PICK r : r = CallRecord("loaded", connection.version, candidate, "ABSENT", {}, {}, 0, None)
  OBVIOUS
<1>1. r.at = "loaded"  BY DEF CallRecord
<1>2. /\ call' = [call EXCEPT ![c] = r] /\ OnTurn(c) /\ KeepTurn(c)
      /\ call[c].at \notin Flight /\ UNCHANGED <<run, owners, receipts, refusal, handed, landed>>
  BY DEF Load, tables, outside, Flight
<1>3. Approaching(c, r)  BY <1>1, <1>2 DEF Approaching
<1>4. QED  BY <1>3, Approaches

LEMMA BeginKeeps ==
  ASSUME OneServer, ExportInv, NEW c \in Caller, Begin(c)
  PROVE  ExportInv'
<1>1. /\ OnTurn(c) /\ UNCHANGED <<owners, receipts, refusal, handed, landed>>
      /\ call[c].at \notin Flight
  BY DEF Begin, tables, outside, Flight
<1>2. CASE Return(c) /\ UNCHANGED run  BY <1>1, <1>2, Ends
<1>3. CASE /\ BeginRun(call[c].version, call[c].input) /\ KeepTurn(c)
           /\ call' = [call EXCEPT ![c] =
                CallRecord("begun", call[c].version, call[c].input, run.state, {}, {}, 0, None)]
  <2> PICK r :
        r = CallRecord("begun", call[c].version, call[c].input, run.state, {}, {}, 0, None)
    OBVIOUS
  <2>1. r.at = "begun" /\ r.seen = run.state  BY DEF CallRecord
  <2>2. call' = [call EXCEPT ![c] = r] /\ KeepTurn(c)  BY <1>3
  <2>3. \/ run.state # "ABSENT" /\ UNCHANGED run
        \/ run.state = "ABSENT" /\ run'.state = "CREATED" /\ run'.attempts = 0
    BY <1>3 DEF BeginRun, RunRow
  <2>4. Approaching(c, r)  BY <1>1, <2>1, <2>2, <2>3 DEF Approaching
  <2>5. QED  BY <2>4, Approaches
<1>4. QED  BY <1>2, <1>3 DEF Begin

(***************************************************************************)
(* Closing the run                                                         *)
(***************************************************************************)
LEMMA NothingInDoubt ==
  ASSUME ExportInv,
         \/ run.state \in {"ABSENT", "CREATED", "SUCCEEDED"}
         \/ run.state = "RUNNING" /\ ~(run.attempts < MaxAttempts)
  PROVE  ~Unsettled
BY DEF ExportInv, DoubtIsOpen

\* between two batches every write has its receipt
LEMMA NothingWhileSending ==
  ASSUME ExportInv, NEW c \in Caller, call[c].at = "sending"
  PROVE  ~Unsettled
<1>1. ~InDoubt  BY DEF ExportInv, Shape, ToBeSent, InDoubt, Flight
<1>2. \A d \in Caller : call[d].at \notin Waiting
  BY DEF ExportInv, OneInFlight, Flight, Waiting
<1>3. QED  BY <1>1, <1>2 DEF Unsettled, Awaited

LEMMA Failures ==
  ASSUME ExportInv, NEW c \in Caller, NEW s \in {"SUCCEEDED", "FAILED_TERMINAL", "UNKNOWN"},
         run' = Recorded(s) \/ run' = Written(s, run.attempts),
         s = "UNKNOWN" \/ ~Unsettled
  PROVE  Closes(c)
<1>1. run'.state = s /\ run'.attempts \in Nat
  BY DEF Recorded, Written, RunRow, ExportInv, Shape
<1>2. QED  BY <1>1 DEF Closes, Unsettled, Awaited

LEMMA RefuseCrowdKeeps ==
  ASSUME OneServer, ExportInv, NEW c \in Caller, RefuseCrowd(c)
  PROVE  ExportInv'
<1>1. /\ OnTurn(c) /\ call[c].at = "begun"
      /\ UNCHANGED <<receipts, refusal, handed, landed>>
  BY DEF RefuseCrowd, tables, outside
<1>2. CASE call[c].seen = "ABSENT"
  <2>1. run.state = "CREATED"  BY <1>1, <1>2 DEF ExportInv, DecidedOnRow
  <2>2. Stop(c, Recorded("FAILED_TERMINAL"))  BY <1>2 DEF RefuseCrowd
  <2>3. Closes(c)  BY <2>1, <2>2, NothingInDoubt, Failures DEF Stop
  <2>4. QED  BY <1>1, <2>2, <2>3, Stops
<1>3. CASE call[c].seen # "ABSENT"
  <2>1. Stop(c, run)  BY <1>3 DEF RefuseCrowd
  <2>2. QED  BY <1>1, <2>1, Stops
<1>4. QED  BY <1>2, <1>3

(***************************************************************************)
(* The purpose decisions                                                   *)
(***************************************************************************)
LEMMA ProceedKeeps ==
  ASSUME OneServer, ExportInv, NEW c \in Caller, OnTurn(c), call[c].at = "begun",
         NEW row, Proceed(c, row), UNCHANGED <<receipts, refusal, handed, landed>>,
         \/ row = run
         \/ row = Recorded("FAILED_TERMINAL") /\ run.state = "CREATED"
  PROVE  ExportInv'
<1>1. row = run \/ row.state = "FAILED_TERMINAL"
  BY DEF Recorded, Written, RunRow
<1>2. CASE Stop(c, row)
  <2>1. row = run \/ Closes(c)
    <3>1. CASE row # run
      BY <3>1, <1>2, NothingInDoubt, Failures DEF Stop
    <3>2. QED  BY <3>1
  <2>2. QED  BY <1>2, <2>1, Stops
<1>3. CASE ~Stop(c, row)
  <2>1. /\ row.state # "FAILED_TERMINAL"
        /\ call[c].seen # "ABSENT" => row.state # "SUCCEEDED" /\ Resumable(call[c].seen)
        /\ run' = row /\ Goto(c, "authorized") /\ KeepTurn(c) /\ UNCHANGED owners
    BY <1>3 DEF Proceed
  <2>2. UNCHANGED run  BY <1>1, <2>1
  <2>3. run.state = IF call[c].seen = "ABSENT" THEN "CREATED" ELSE call[c].seen
    BY DEF ExportInv, DecidedOnRow
  <2>4. run.state \in {"CREATED", "RUNNING"}
    BY <2>1, <2>3 DEF Resumable, ExportInv, Shape, ExportState
  <2> PICK r :
        r = CallRecord("authorized", call[c].version, call[c].input, call[c].seen,
                       call[c].pending, call[c].batch, call[c].tries, call[c].answer)
    OBVIOUS
  <2>5. r.at = "authorized"  BY DEF CallRecord
  <2>6. call' = [call EXCEPT ![c] = r]  BY <2>1 DEF Goto
  <2>7. Approaching(c, r)
    BY <2>1, <2>2, <2>4, <2>5, <2>6 DEF Approaching, Flight
  <2>8. QED  BY <2>7, Approaches
<1>4. QED  BY <1>2, <1>3

LEMMA PersistKeeps ==
  ASSUME OneServer, ExportInv, NEW c \in Caller, PersistExportPurposeDecisions(c)
  PROVE  ExportInv'
<1>1. OnTurn(c) /\ call[c].at = "begun" /\ UNCHANGED <<receipts, refusal, handed, landed>>
  BY DEF PersistExportPurposeDecisions, tables, outside
<1>2. CASE Proceed(c, run)  BY <1>1, <1>2, ProceedKeeps
<1>3. CASE Stop(c, run)  BY <1>1, <1>3, Stops
<1>4. CASE run.state = "CREATED" /\ Stop(c, Recorded("FAILED_TERMINAL"))
  <2>1. Closes(c)  BY <1>4, NothingInDoubt, Failures DEF Stop
  <2>2. QED  BY <1>1, <1>4, <2>1, Stops
<1>5. CASE /\ run.state = "CREATED"
           /\ Proceed(c, IF Denied(decision') THEN Recorded("FAILED_TERMINAL") ELSE run)
  <2> PICK row : row = IF Denied(decision') THEN Recorded("FAILED_TERMINAL") ELSE run
    OBVIOUS
  <2>1. Proceed(c, row) /\ (row = run \/ row = Recorded("FAILED_TERMINAL"))
    BY <1>5
  <2>2. QED  BY <1>1, <1>5, <2>1, ProceedKeeps
<1>6. QED  BY <1>2, <1>3, <1>4, <1>5 DEF PersistExportPurposeDecisions
(***************************************************************************)
(* The claim and the batches                                               *)
(***************************************************************************)
\* the claim or the answer of the provider: r is the only request that sends,
\* with nothing in doubt behind it
Departing(c, r) ==
  /\ OnTurn(c) /\ KeepTurn(c)
  /\ call' = [call EXCEPT ![c] = r] /\ r.at = "sending"
  /\ \A d \in Caller : d # c => call[d].at \notin Flight
  /\ run'.state = "RUNNING" /\ run'.attempts \in Nat /\ owners' = {c}
  /\ receipts' \subseteq Person /\ UNCHANGED <<handed, landed>>
  /\ r.pending = Person \ receipts'
  /\ \A p \in r.pending : handed[p] = 0 /\ p \notin landed

LEMMA Departs ==
  ASSUME OneServer, ExportInv, NEW c \in Caller, NEW r, Departing(c, r)
  PROVE  ExportInv'
<1> USE DEF ExportInv, Departing
<1>1. r.at \in Step  BY DEF Step
<1>2. Advanced(c, r)  BY <1>1, Advances
<1> USE DEF Advanced
<1>3. Shape'  BY <1>2 DEF Shape, ExportState
<1>4. DecidedOnRow'  BY <1>2 DEF DecidedOnRow, Holding
<1>5. OneInFlight' /\ Untouched' /\ SenderOwns'
  BY <1>2 DEF OneInFlight, Untouched, SenderOwns, Flight
<1>6. ToBeSent'  BY <1>2 DEF ToBeSent, Flight
<1>7. ~InDoubt'  BY <1>2 DEF InDoubt, Shape
<1>8. \A d \in Caller : call'[d].at \notin Waiting  BY <1>2 DEF Waiting, Flight
<1>9. DoubtIsOpen'  BY <1>7, <1>8 DEF DoubtIsOpen, Unsettled, Awaited
<1>10. QED  BY <1>2, <1>3, <1>4, <1>5, <1>6, <1>9 DEF HandedOverOnce

LEMMA ClaimKeeps ==
  ASSUME OneServer, ExportInv, NEW c \in Caller, Claim(c)
  PROVE  ExportInv'
<1>1. /\ OnTurn(c) /\ call[c].at = "authorized" /\ UNCHANGED <<receipts, refusal, handed, landed>>
      /\ run.state \in {"CREATED", "RUNNING"} /\ run.attempts \in Nat
  BY DEF Claim, tables, outside, ExportInv, DecidedOnRow, Shape
<1>2. CASE ClaimRefused
  <2>1. Stop(c, RowAfterRefusal)  BY <1>2 DEF Claim
  <2>2. CASE RowAfterRefusal = run  BY <1>1, <2>1, <2>2, Stops
  <2>3. CASE run.attempts >= MaxAttempts /\ RowAfterRefusal = MarkAttemptBudgetExhausted
    <3>1. ~Unsettled  BY <1>1, <2>3, NothingInDoubt, RunAssumption
    <3>2. Closes(c)
      BY <2>1, <2>3, <3>1, Failures DEF Stop, MarkAttemptBudgetExhausted
    <3>3. QED  BY <1>1, <2>1, <3>2, Stops
  <2>4. CASE RowAfterRefusal = Recorded("UNKNOWN")
    <3>1. Closes(c)  BY <2>1, <2>4, Failures DEF Stop
    <3>2. QED  BY <1>1, <2>1, <3>1, Stops
  <2>5. QED  BY <2>2, <2>3, <2>4, ExportAssumption DEF RowAfterRefusal, Interrupted
<1>3. CASE ~ClaimRefused
  <2>1. run.state = "CREATED"  BY <1>1, <1>3 DEF ClaimRefused
  <2> PICK r :
        r = CallRecord("sending", call[c].version, call[c].input, call[c].seen,
                       Person \ receipts, {}, 0, None)
    OBVIOUS
  <2>2. r.at = "sending" /\ r.pending = Person \ receipts  BY DEF CallRecord
  <2>3. /\ call' = [call EXCEPT ![c] = r] /\ KeepTurn(c) /\ owners' = {c}
        /\ run' = RowAfterClaim
    BY <1>3 DEF Claim
  <2>4. run'.state = "RUNNING" /\ run'.attempts = run.attempts
    BY <2>3 DEF RowAfterClaim, Written, RunRow
  <2>5. /\ \A d \in Caller : call[d].at \notin Flight
        /\ \A p \in Person : handed[p] = 0 /\ p \notin landed
        /\ receipts \subseteq Person
    BY <2>1 DEF ExportInv, Untouched, Shape
  <2>6. Departing(c, r)  BY <1>1, <2>2, <2>3, <2>4, <2>5 DEF Departing
  <2>7. QED  BY <2>6, Departs
<1>4. QED  BY <1>2, <1>3

LEMMA SendBatchKeeps ==
  ASSUME OneServer, ExportInv, NEW c \in Caller, SendBatch(c)
  PROVE  ExportInv'
<1>1. /\ OnTurn(c) /\ call[c].at = "sending" /\ UNCHANGED <<receipts, refusal, landed>>
      /\ run.attempts \in Nat
  BY DEF SendBatch, tables, outside, ExportInv, Shape
<1>2. ~Unsettled  BY <1>1, NothingWhileSending
<1>3. CASE Stop(c, run) /\ UNCHANGED handed  BY <1>1, <1>3, Stops
<1>4. CASE Stop(c, MarkAttemptBudgetExhausted) /\ UNCHANGED handed
  <2>1. Closes(c)  BY <1>2, <1>4, Failures DEF Stop, MarkAttemptBudgetExhausted
  <2>2. QED  BY <1>1, <1>4, <2>1, Stops
<1>5. CASE /\ Stop(c, Recorded("UNKNOWN")) \/ Stop(c, Recorded("FAILED_TERMINAL"))
           /\ UNCHANGED handed
  <2>1. Closes(c)  BY <1>2, <1>5, Failures DEF Stop
  <2>2. QED  BY <1>1, <1>5, <2>1, Stops
<1>6. CASE /\ OwnsRun(c) /\ run.attempts < MaxAttempts
           /\ call' = [call EXCEPT ![c] =
                CallRecord("awaiting", call[c].version, call[c].input, call[c].seen,
                           call[c].pending, NextBatch(c), 0, None)]
           /\ handed' = [p \in Person |->
                IF p \in NextBatch(c) /\ handed[p] < 2 THEN handed[p] + 1 ELSE handed[p]]
           /\ YieldTurn(c) /\ UNCHANGED <<run, owners>>
  <2> USE DEF ExportInv
  <2> PICK r :
        r = CallRecord("awaiting", call[c].version, call[c].input, call[c].seen,
                       call[c].pending, NextBatch(c), 0, None)
    OBVIOUS
  <2>1. /\ r.at = "awaiting" /\ r.pending = call[c].pending
        /\ r.batch = NextBatch(c) /\ r.tries = 0
        /\ r.batch \subseteq call[c].pending
    BY DEF CallRecord, NextBatch
  <2>2. /\ call' = [call EXCEPT ![c] = r] /\ YieldTurn(c)
        /\ run.state = "RUNNING" /\ c \in owners
    BY <1>6 DEF OwnsRun
  <2>3. r.at \in Step /\ r.at \notin Holding  BY <2>1 DEF Step, Holding
  <2>4. Advanced(c, r)  BY <1>1, <2>2, <2>3, Advances
  <2> USE DEF Advanced
  <2>5. \A p \in call[c].pending : handed[p] = 0 /\ p \notin landed
    BY <1>1 DEF ToBeSent
  <2>6. /\ call[c].pending = Person \ receipts
        /\ handed \in [Person -> Nat]
    BY <1>1 DEF ToBeSent, Flight, Shape
  <2>7. /\ handed' \in [Person -> Nat]
        /\ \A p \in Person : p \notin r.batch => handed'[p] = handed[p]
        /\ \A p \in r.batch : handed'[p] = 1
    <3> HIDE DEF ExportInv
    <3>1. handed' = [p \in Person |->
             IF p \in r.batch /\ handed[p] < 2 THEN handed[p] + 1 ELSE handed[p]]
      BY <1>6, <2>1
    <3>2. r.batch \subseteq Person /\ \A p \in r.batch : handed[p] = 0
      BY <2>1, <2>5, <2>6
    <3>3. \A p \in Person :
             handed'[p] = IF p \in r.batch /\ handed[p] < 2 THEN handed[p] + 1 ELSE handed[p]
      BY <3>1
    <3>4. handed' \in [Person -> Nat]  BY <2>6, <3>1
    <3>5. QED  BY <3>2, <3>3, <3>4
  <2>8. Shape'  BY <1>1, <1>6, <2>4, <2>7 DEF Shape
  <2>9. DecidedOnRow'  BY <1>6, <2>1, <2>4 DEF DecidedOnRow, Holding
  <2>10. \A d \in Caller : d # c => call'[d].at \notin Flight
    BY <1>1, <2>4 DEF OneInFlight, Flight
  <2>11. OneInFlight' /\ Untouched' /\ SenderOwns'
    <3>1. run'.state = "RUNNING" /\ c \in owners'  BY <1>6, <2>2
    <3>2. QED  BY <2>10, <3>1 DEF OneInFlight, Untouched, SenderOwns
  <2>12. ToBeSent'
    <3>1. \A p \in r.pending \ r.batch : handed'[p] = 0 /\ p \notin landed'
      BY <1>1, <2>1, <2>5, <2>6, <2>7
    <3>2. \A p \in r.batch : p \notin landed'  BY <1>1, <2>1, <2>5
    <3>3. call'[c] = r /\ r.pending = Person \ receipts'  BY <1>1, <2>1, <2>4, <2>6
    <3>4. \A d \in Caller : call'[d].at \in Flight => d = c  BY <2>10
    <3>5. r.tries \in Nat /\ r.batch \subseteq r.pending  BY <2>1
    <3> HIDE DEF ExportInv, Advanced
    <3>6. QED  BY <2>1, <3>1, <3>2, <3>3, <3>4, <3>5 DEF ToBeSent, Flight
  <2>13. DoubtIsOpen'  BY <1>6, <2>2 DEF DoubtIsOpen
  <2>14. HandedOverOnce'  BY <2>7 DEF HandedOverOnce
  <2>15. QED  BY <2>4, <2>8, <2>9, <2>11, <2>12, <2>13, <2>14
<1>7. QED  BY <1>3, <1>4, <1>5, <1>6 DEF SendBatch
\* the request that waits is the only one in flight
LEMMA BatchAlone ==
  ASSUME ExportInv, NEW c \in Caller, call[c].at = "awaiting"
  PROVE  /\ \A d \in Caller : d # c => call[d].at \notin Flight
         /\ call[c].batch \subseteq call[c].pending
         /\ call[c].pending = Person \ receipts
         /\ call[c].tries \in Nat
         /\ \A p \in call[c].pending \ call[c].batch : handed[p] = 0 /\ p \notin landed
         /\ call[c].tries = 0 => \A p \in call[c].batch : p \notin landed
         /\ \/ run.state = "UNKNOWN"
            \/ run.state = "RUNNING" /\ run.attempts < MaxAttempts
<1>1. Awaited  BY DEF Awaited, Waiting
<1>2. QED
  BY <1>1 DEF ExportInv, OneInFlight, ToBeSent, DoubtIsOpen, Unsettled, Flight

\* what the provider does: the record of the waiting request becomes r, some of
\* its batch may land, and nothing else changes
Delivers(c, r, W) ==
  /\ call[c].at = "awaiting" /\ r.at \in {"awaiting", "answered"}
  /\ call' = [call EXCEPT ![c] = r]
  /\ r.pending = call[c].pending /\ r.batch = call[c].batch
  /\ W \subseteq call[c].batch /\ landed' = landed \union W
  /\ UNCHANGED <<turn, run, owners, receipts, refusal, handed>>
  /\ r.tries \in Nat
  /\ r.at = "awaiting" => r.tries # 0
  /\ r.at = "answered" =>
       /\ r.answer \in Answer
       /\ r.answer \in {"REJECTED", "UNSENT"} =>
            r.tries > 1 \/ (W = {} /\ call[c].tries = 0)

LEMMA DeliversKeeps ==
  ASSUME ExportInv, NEW c \in Caller, NEW r, NEW W, Delivers(c, r, W)
  PROVE  ExportInv'
<1> USE DEF ExportInv, Delivers
<1>1. r.at \in Step  BY DEF Step
<1>2. /\ call'[c] = r /\ \A d \in Caller : d # c => call'[d] = call[d]
      /\ call' = [d \in Caller |-> call'[d]]
      /\ \A d \in Caller : call'[d].at \in Step
  BY <1>1, CallChanges
<1>3. /\ \A d \in Caller : d # c => call[d].at \notin Flight
      /\ call[c].batch \subseteq call[c].pending
      /\ call[c].pending = Person \ receipts
      /\ \A p \in call[c].pending \ call[c].batch : handed[p] = 0 /\ p \notin landed
      /\ call[c].tries = 0 => \A p \in call[c].batch : p \notin landed
      /\ \/ run.state = "UNKNOWN"
         \/ run.state = "RUNNING" /\ run.attempts < MaxAttempts
  BY BatchAlone
<1>4. Shape'  BY <1>2, <1>3 DEF Shape
<1>5. TurnHeld' /\ DecidedOnRow'
  BY <1>2 DEF TurnHeld, DecidedOnRow, Holding
<1>6. OneInFlight' /\ Untouched' /\ SenderOwns'
  BY <1>2, <1>3 DEF OneInFlight, Untouched, SenderOwns, Flight
<1>7. ToBeSent'
  <2>1. \A d \in Caller : call'[d].at \in Flight => d = c  BY <1>2, <1>3
  <2>2. \A p \in r.pending \ r.batch : handed'[p] = 0 /\ p \notin landed'
    BY <1>3
  <2>3. r.at = "answered" /\ r.answer \in {"REJECTED", "UNSENT"} =>
          r.tries > 1 \/ \A p \in r.batch : p \notin landed'
    BY <1>3
  <2>4. r.pending = Person \ receipts' /\ r.batch \subseteq r.pending  BY <1>3
  <2>5. QED  BY <1>2, <2>1, <2>2, <2>3, <2>4 DEF ToBeSent, Flight
<1>8. DoubtIsOpen'  BY <1>3 DEF DoubtIsOpen
<1>9. QED  BY <1>4, <1>5, <1>6, <1>7, <1>8 DEF HandedOverOnce

LEMMA RetryKeeps ==
  ASSUME ExportInv, NEW c \in Caller, ProviderRetries(c)
  PROVE  ExportInv'
<1> PICK W \in SUBSET call[c].batch : landed' = landed \union W
  BY DEF ProviderRetries
<1> PICK r :
      r = CallRecord("awaiting", call[c].version, call[c].input, call[c].seen,
                     call[c].pending, call[c].batch, call[c].tries + 1, None)
  OBVIOUS
<1>1. call[c].at = "awaiting" /\ call[c].tries \in Nat
  BY BatchAlone DEF ProviderRetries
<1>2. /\ r.at = "awaiting" /\ r.pending = call[c].pending
      /\ r.batch = call[c].batch /\ r.tries = call[c].tries + 1
  BY DEF CallRecord
<1>3. /\ call' = [call EXCEPT ![c] = r]
      /\ UNCHANGED <<turn, run, owners, receipts, refusal, handed>>
  BY DEF ProviderRetries, tables
<1>4. Delivers(c, r, W)  BY <1>1, <1>2, <1>3 DEF Delivers
<1>5. QED  BY <1>4, DeliversKeeps

LEMMA AnswerKeeps ==
  ASSUME ExportInv, NEW c \in Caller, ProviderAnswers(c)
  PROVE  ExportInv'
<1> PICK a \in Answer, W \in SUBSET call[c].batch :
      /\ a \in {"REJECTED", "UNSENT"} => W = {}
      /\ a = "UNSENT" => call[c].tries = 0
      /\ landed' = landed \union W
      /\ call' = [call EXCEPT ![c] =
           CallRecord("answered", call[c].version, call[c].input, call[c].seen,
                      call[c].pending, call[c].batch,
                      IF a = "UNSENT" THEN 0 ELSE call[c].tries + 1, a)]
  BY DEF ProviderAnswers
<1> PICK r :
      r = CallRecord("answered", call[c].version, call[c].input, call[c].seen,
                     call[c].pending, call[c].batch,
                     IF a = "UNSENT" THEN 0 ELSE call[c].tries + 1, a)
  OBVIOUS
<1>1. call[c].at = "awaiting" /\ call[c].tries \in Nat
  BY BatchAlone DEF ProviderAnswers
<1>2. /\ r.at = "answered" /\ r.pending = call[c].pending
      /\ r.batch = call[c].batch /\ r.answer = a
      /\ r.tries = IF a = "UNSENT" THEN 0 ELSE call[c].tries + 1
  BY DEF CallRecord
<1>3. /\ call' = [call EXCEPT ![c] = r]
      /\ UNCHANGED <<turn, run, owners, receipts, refusal, handed>>
  BY DEF ProviderAnswers, tables
<1>4. Delivers(c, r, W)  BY <1>1, <1>2, <1>3 DEF Delivers
<1>5. QED  BY <1>4, DeliversKeeps

LEMMA SettleKeeps ==
  ASSUME OneServer, ExportInv, NEW c \in Caller, SettleBatch(c)
  PROVE  ExportInv'
<1> USE DEF ExportInv
<1>1. /\ OnTurn(c) /\ call[c].at = "answered" /\ UNCHANGED <<handed, landed>>
      /\ run.attempts \in Nat
  BY DEF SettleBatch, outside, Shape
<1>2. /\ \A d \in Caller : d # c => call[d].at \notin Flight
      /\ call[c].batch \subseteq call[c].pending
      /\ call[c].pending = Person \ receipts
      /\ \A p \in call[c].pending \ call[c].batch : handed[p] = 0 /\ p \notin landed
      /\ call[c].answer \in Answer
  BY <1>1 DEF OneInFlight, ToBeSent, Flight
<1>3. run.state = "RUNNING" => run.attempts < MaxAttempts
  BY <1>1 DEF DoubtIsOpen, Unsettled, Awaited, Waiting
<1>4. CASE Stop(c, run) /\ UNCHANGED <<receipts, refusal>>  BY <1>1, <1>4, Stops
<1>5. CASE ~OwnsRun(c) /\ run.state = "RUNNING"
  BY <1>1, <1>5 DEF OwnsRun, SenderOwns, Flight
<1>6. CASE Stop(c, Recorded("UNKNOWN")) /\ UNCHANGED <<receipts, refusal>>
  <2>1. Closes(c)  BY <1>6, Failures DEF Stop
  <2>2. QED  BY <1>1, <1>6, <2>1, Stops
<1>7. CASE /\ call[c].answer # "COLLISION" /\ ~Accepted(call[c].answer)
           /\ Stop(c, Recorded(FailureState(call[c].answer))) /\ UNCHANGED receipts
           /\ refusal' = IF FailureState(call[c].answer) = "UNKNOWN"
                         THEN refusal ELSE call[c].tries
  <2>1. CASE call[c].answer = "UNCERTAIN"
    <3>1. Stop(c, Recorded("UNKNOWN")) /\ UNCHANGED refusal
      BY <1>7, <2>1 DEF FailureState
    <3>2. QED  BY <1>6, <1>7, <3>1
  <2>2. CASE call[c].answer # "UNCERTAIN"
    <3>1. call[c].answer \in {"REJECTED", "UNSENT"}
      BY <1>2, <1>7, <2>2 DEF Accepted, Answer
    <3>2. call[c].tries > 1 \/ \A p \in call[c].batch : p \notin landed
      BY <1>1, <3>1 DEF ToBeSent
    <3>3. run' = Recorded("FAILED_TERMINAL") /\ refusal' = call[c].tries
      BY <1>7, <2>2 DEF Stop, FailureState
    <3>4. run'.state = "FAILED_TERMINAL" /\ run'.attempts \in Nat
      BY <1>1, <3>3 DEF Recorded, Written, RunRow
    <3>5. ~InDoubt \/ refusal' > 1
      BY <1>2, <3>2, <3>3 DEF InDoubt, Shape
    <3>6. \A d \in Caller : call[d].at \in Waiting => d = c
      BY <1>2 DEF Waiting, Flight
    <3>7. Closes(c)  BY <3>4, <3>5, <3>6 DEF Closes
    <3>8. QED  BY <1>1, <1>7, <3>7, Ends DEF Stop
  <2>3. QED  BY <2>1, <2>2
<1>8. CASE /\ OwnsRun(c) /\ Goto(c, "uncertain") /\ KeepTurn(c)
           /\ UNCHANGED <<run, owners, receipts, refusal>>
  <2> PICK r :
        r = CallRecord("uncertain", call[c].version, call[c].input, call[c].seen,
                       call[c].pending, call[c].batch, call[c].tries, call[c].answer)
    OBVIOUS
  <2>1. r.at = "uncertain" /\ r.pending = call[c].pending /\ r.at \in Step
    BY DEF CallRecord, Step
  <2>2. call' = [call EXCEPT ![c] = r] /\ KeepTurn(c)  BY <1>8 DEF Goto
  <2>3. Advanced(c, r)  BY <1>1, <2>1, <2>2, Advances
  <2> USE DEF Advanced
  <2>4. run.state = "RUNNING" /\ c \in owners  BY <1>8 DEF OwnsRun
  <2>5. Shape' /\ DecidedOnRow'
    BY <1>1, <1>8, <2>1, <2>3 DEF Shape, DecidedOnRow, Holding
  <2>6. OneInFlight' /\ Untouched' /\ SenderOwns'
    BY <1>2, <1>8, <2>3, <2>4 DEF OneInFlight, Untouched, SenderOwns
  <2>7. ToBeSent'  BY <1>2, <1>8, <2>1, <2>3 DEF ToBeSent, Flight
  <2>8. DoubtIsOpen'  BY <1>3, <1>8, <2>4 DEF DoubtIsOpen
  <2>9. QED  BY <1>1, <2>3, <2>5, <2>6, <2>7, <2>8 DEF HandedOverOnce
<1>9. CASE /\ run' = Recorded("RUNNING") /\ receipts' = receipts \union call[c].batch
           /\ NextTurn(c) /\ owners' = {c} /\ UNCHANGED refusal
  <2> PICK r :
        r = CallRecord("sending", call[c].version, call[c].input, call[c].seen,
                       call[c].pending \ call[c].batch, {}, 0, None)
    OBVIOUS
  <2>1. r.at = "sending" /\ r.pending = call[c].pending \ call[c].batch
    BY DEF CallRecord
  <2>2. call' = [call EXCEPT ![c] = r] /\ KeepTurn(c)  BY <1>9 DEF NextTurn
  <2>3. run'.state = "RUNNING" /\ run'.attempts \in Nat
    BY <1>1, <1>9 DEF Recorded, Written, RunRow
  <2>4. receipts' \subseteq Person /\ r.pending = Person \ receipts'
    BY <1>2, <1>9, <2>1 DEF Shape
  <2>5. Departing(c, r)
    BY <1>1, <1>2, <1>9, <2>1, <2>2, <2>3, <2>4 DEF Departing
  <2>6. QED  BY <2>5, Departs
<1>10. QED  BY <1>4, <1>5, <1>6, <1>7, <1>8, <1>9 DEF SettleBatch

LEMMA UncertainKeeps ==
  ASSUME OneServer, ExportInv, NEW c \in Caller, MarkReceiptsUncertain(c)
  PROVE  ExportInv'
<1>1. OnTurn(c) /\ UNCHANGED <<receipts, refusal, handed, landed>>
  BY DEF MarkReceiptsUncertain, tables, outside
<1>2. CASE Stop(c, run)  BY <1>1, <1>2, Stops
<1>3. CASE Stop(c, Recorded("UNKNOWN"))
  <2>1. Closes(c)  BY <1>3, Failures DEF Stop
  <2>2. QED  BY <1>1, <1>3, <2>1, Stops
<1>4. QED  BY <1>2, <1>3 DEF MarkReceiptsUncertain

LEMMA FinalizeKeeps ==
  ASSUME OneServer, ExportInv, NEW c \in Caller, Finalize(c)
  PROVE  ExportInv'
<1>1. OnTurn(c) /\ call[c].at = "sending" /\ UNCHANGED <<receipts, refusal, handed, landed>>
  BY DEF Finalize, tables, outside
<1>2. CASE Stop(c, run)  BY <1>1, <1>2, Stops
<1>3. CASE Stop(c, Written("SUCCEEDED", run.attempts)) \/ Stop(c, Recorded("UNKNOWN"))
  <2>1. ~Unsettled  BY <1>1, NothingWhileSending
  <2>2. Closes(c)  BY <1>3, <2>1, Failures DEF Stop
  <2>3. QED  BY <1>1, <1>3, <2>2, Stops
<1>4. QED  BY <1>2, <1>3 DEF Finalize
(***************************************************************************)
(* A crash ends every request of the one process; what it had sent may     *)
(* still land.                                                             *)
(***************************************************************************)
LEMMA CrashKeeps ==
  ASSUME OneServer, ExportInv, NEW s \in Process, Crash(s)
  PROVE  ExportInv'
<1> USE DEF ExportInv
<1> DEFINE Sent == UNION {call[c].batch : c \in {d \in Caller :
                              ProcessOf[d] = s /\ call[d].at = "awaiting"}}
<1> PICK W \in SUBSET Sent : landed' = landed \union W
  BY DEF Crash
<1>1. \A c \in Caller : ProcessOf[c] = s  BY RunAssumption DEF OneServer
<1>2. call' = [c \in Caller |-> Idle]  BY <1>1 DEF Crash
<1>3. \A c \in Caller : call'[c].at = "idle"  BY <1>2 DEF Idle, CallRecord
<1>4. UNCHANGED <<run, receipts, refusal, handed>> /\ turn' = [turn EXCEPT ![s] = None]
  BY DEF Crash, tables
<1>5. \A q \in W : q \in Person /\ Awaited
  <2> SUFFICES ASSUME NEW q \in W
               PROVE  q \in Person /\ Awaited
    OBVIOUS
  <2> PICK c \in Caller : call[c].at = "awaiting" /\ q \in call[c].batch
    OBVIOUS
  <2>1. QED  BY BatchAlone DEF Awaited, Waiting
<1>6. Shape'  BY <1>2, <1>3, <1>4, <1>5 DEF Shape, Step
<1>7. /\ TurnHeld' /\ DecidedOnRow' /\ OneInFlight' /\ SenderOwns' /\ ToBeSent'
  BY <1>3 DEF TurnHeld, DecidedOnRow, OneInFlight, SenderOwns, ToBeSent, Holding, Flight
<1>8. CASE W = {}
  <2>1. landed' = landed  BY <1>8
  <2>2. Untouched'  BY <1>3, <1>4, <2>1 DEF Untouched, Flight
  <2>3. ~Awaited' /\ InDoubt' = InDoubt
    BY <1>3, <1>4, <2>1 DEF Awaited, InDoubt, Waiting
  <2>4. DoubtIsOpen'  BY <1>4, <2>3 DEF DoubtIsOpen, Unsettled
  <2>5. QED  BY <1>4, <1>6, <1>7, <2>2, <2>4 DEF HandedOverOnce
<1>9. CASE W # {}
  <2>1. Awaited  BY <1>5, <1>9
  <2>2. \/ run.state = "UNKNOWN"
        \/ run.state = "RUNNING" /\ run.attempts < MaxAttempts
    BY <2>1 DEF DoubtIsOpen, Unsettled
  <2>3. Untouched' /\ DoubtIsOpen'  BY <1>4, <2>2 DEF Untouched, DoubtIsOpen
  <2>4. QED  BY <1>4, <1>6, <1>7, <2>3 DEF HandedOverOnce
<1>10. QED  BY <1>8, <1>9

(***************************************************************************)
(* The world around the requests                                           *)
(***************************************************************************)
LEMMA ElsewhereKeeps ==
  ASSUME ExportInv, UNCHANGED <<turn, owners, receipts, refusal, call, handed, landed>>,
         run'.state = run.state, run'.attempts = run.attempts
  PROVE  ExportInv'
<1> USE DEF ExportInv
<1>1. Shape' /\ TurnHeld' /\ DecidedOnRow'  BY DEF Shape, TurnHeld, DecidedOnRow
<1>2. OneInFlight' /\ Untouched' /\ SenderOwns' /\ ToBeSent'
  BY DEF OneInFlight, Untouched, SenderOwns, ToBeSent
<1>3. DoubtIsOpen' /\ HandedOverOnce'
  BY DEF DoubtIsOpen, Unsettled, InDoubt, Awaited, HandedOverOnce
<1>4. QED  BY <1>1, <1>2, <1>3

LEMMA InitExport == Init => ExportInv
<1> SUFFICES ASSUME Init PROVE ExportInv
  OBVIOUS
<1>1. \A c \in Caller : call[c].at = "idle"  BY DEF Init, Idle, CallRecord
<1>2. run.state = "ABSENT" /\ run.attempts = 0
  BY DEF Init, RunInit, Unborn, RunRow
<1>3. Shape  BY <1>1, <1>2 DEF Init, RunInit, Shape, ExportState, Step
<1>4. TurnHeld /\ DecidedOnRow /\ OneInFlight /\ Untouched /\ SenderOwns /\ ToBeSent
  BY <1>1 DEF Init, TurnHeld, DecidedOnRow, OneInFlight, Untouched, SenderOwns, ToBeSent,
              Holding, Flight
<1>5. DoubtIsOpen /\ HandedOverOnce
  BY <1>1 DEF Init, DoubtIsOpen, Unsettled, InDoubt, Awaited, Waiting, HandedOverOnce
<1>6. QED  BY <1>3, <1>4, <1>5 DEF ExportInv

LEMMA NextExport ==
  ASSUME OneServer, ExportInv, [Next]_vars
  PROVE  ExportInv'
<1>1. ASSUME NEW c \in Caller,
             Load(c) \/ CallStep(c) \/ ProviderRetries(c) \/ ProviderAnswers(c)
      PROVE  ExportInv'
  BY <1>1, LoadKeeps, BeginKeeps, RefuseCrowdKeeps, PersistKeeps, ClaimKeeps,
     SendBatchKeeps, RetryKeeps, AnswerKeeps, SettleKeeps, UncertainKeeps, FinalizeKeeps
     DEF CallStep
<1>2. ASSUME NEW s \in Process, Crash(s) PROVE ExportInv'  BY <1>2, CrashKeeps
<1>3. CASE \E p \in Person : EvidenceChanges(p) \/ AuthorityLapses(p)
  BY <1>3, ElsewhereKeeps DEF EvidenceChanges, AuthorityLapses, tables, outside
<1>4. CASE ConnectionChanges
  BY <1>4, ElsewhereKeeps DEF ConnectionChanges, tables, outside
<1>5. CASE TimePasses
  <2>1. run'.state = run.state /\ run'.attempts = run.attempts
    BY <1>5 DEF TimePasses, LeaseExpires, RunRow
  <2>2. QED  BY <1>5, <2>1, ElsewhereKeeps DEF TimePasses, tables, outside
<1>6. CASE UNCHANGED vars  BY <1>6, ElsewhereKeeps DEF vars
<1>7. QED  BY <1>1, <1>2, <1>3, <1>4, <1>5, <1>6 DEF Next

LEMMA ExportInvHolds == ASSUME OneServer PROVE Spec => []ExportInv
BY InitExport, NextExport, PTL DEF Spec

\* On one server process no person is ever handed to the provider by two
\* upsertPeople calls of one key, for any number of requests, batches, HTTP
\* retries and crashes (exportCanonicalPeopleToConnector).
THEOREM AtMostOnce == ASSUME OneServer PROVE Spec => []HandedOverOnce
<1>1. ExportInv => HandedOverOnce  BY DEF ExportInv
<1>2. QED  BY <1>1, ExportInvHolds, PTL

\* On one server process a write without a receipt leaves its run open or
\* UNKNOWN, or is left behind by a refusal whose attempt row counts more than one
\* request (withOwnedRunTransition, EXPORT_RECEIPT_UNCERTAIN, requestJson).
THEOREM DoubtIsNeverHidden == ASSUME OneServer PROVE Spec => []DoubtIsOnRecord
<1>1. ExportInv => DoubtIsOnRecord
  <2> SUFFICES ASSUME ExportInv PROVE DoubtIsOnRecord
    OBVIOUS
  <2>1. ~InDoubt => landed \subseteq receipts  BY DEF InDoubt
  <2>2. run.state # "FAILED_RETRYABLE"  BY DEF ExportInv, Shape, ExportState
  <2>3. run.state \in {"ABSENT", "CREATED", "SUCCEEDED"} => ~InDoubt
    BY DEF ExportInv, DoubtIsOpen, Unsettled
  <2>4. run.state = "FAILED_TERMINAL" => ~InDoubt \/ refusal > 1
    BY DEF ExportInv, DoubtIsOpen, Unsettled
  <2>5. QED  BY <2>1, <2>2, <2>3, <2>4 DEF DoubtIsOnRecord
<1>2. QED  BY <1>1, ExportInvHolds, PTL
(***************************************************************************)
(* Sent on current evidence.  Once a request has begun, the evidence it    *)
(* loaded is the evidence of the run, and the row never changes it.        *)
(***************************************************************************)
Fresh == {"idle", "loaded"}

InputKept == \A c \in Caller : call[c].at \notin Fresh =>
               run.state # "ABSENT" /\ call[c].input = run.input

\* a step of a request: its evidence stays, and what it hands over is checked
Moved(c, r) ==
  /\ call' = [call EXCEPT ![c] = r] /\ r.at \in Step
  /\ r.at \notin Fresh => r.input = call[c].input /\ call[c].at # "idle"
  /\ r.at = "awaiting" /\ call[c].at # "awaiting" =>
       /\ call[c].at \notin Fresh
       /\ \A p \in r.batch : p \in authorized /\ candidate[p] = call[c].input[p]

RowStays == UNCHANGED run \/ (run'.state # "ABSENT" /\ run'.input = run.input)

LEMMA StopMoves ==
  ASSUME NEW c \in Caller, call' = [call EXCEPT ![c] = Idle]
  PROVE  \E r : Moved(c, r)
<1>1. Idle.at = "idle"  BY DEF Idle, CallRecord
<1>2. Moved(c, Idle)  BY <1>1 DEF Moved, Step, Fresh
<1>3. QED  BY <1>2

\* steps whose record is written out
LEMMA RecordMoves ==
  ASSUME NEW c \in Caller, NEW s \in Step, NEW v, NEW n, NEW b, NEW q, NEW t, NEW a,
         call' = [call EXCEPT ![c] = CallRecord(s, v, call[c].input, n, q, b, t, a)],
         call[c].at # "idle",
         s = "awaiting" /\ call[c].at # "awaiting" =>
           /\ call[c].at \notin Fresh
           /\ \A p \in b : p \in authorized /\ candidate[p] = call[c].input[p]
  PROVE  \E r : Moved(c, r)
<1> PICK r : r = CallRecord(s, v, call[c].input, n, q, b, t, a)
  OBVIOUS
<1>1. r.at = s /\ r.input = call[c].input /\ r.batch = b  BY DEF CallRecord
<1>2. Moved(c, r)  BY <1>1 DEF Moved
<1>3. QED  BY <1>2

LEMMA RequestMoves ==
  ASSUME NEW c \in Caller, Load(c) \/ CallStep(c) \/ ProviderRetries(c) \/ ProviderAnswers(c)
  PROVE  \E r : Moved(c, r)
<1>1. CASE Load(c)
  <2> PICK r : r = CallRecord("loaded", connection.version, candidate, "ABSENT", {}, {}, 0, None)
    OBVIOUS
  <2>1. r.at = "loaded"  BY DEF CallRecord
  <2>2. call' = [call EXCEPT ![c] = r]  BY <1>1 DEF Load
  <2>3. Moved(c, r)  BY <2>1, <2>2 DEF Moved, Step, Fresh
  <2>4. QED  BY <2>3
<1>2. CASE Begin(c)
  <2>1. CASE Return(c)  BY <2>1, StopMoves DEF Return
  <2>2. CASE ~Return(c)
    <3>1. /\ call[c].at = "loaded"
          /\ call' = [call EXCEPT ![c] =
               CallRecord("begun", call[c].version, call[c].input, run.state, {}, {}, 0, None)]
      BY <1>2, <2>2 DEF Begin
    <3>2. "begun" \in Step  BY DEF Step
    <3>3. QED  BY <3>1, <3>2, RecordMoves
  <2>3. QED  BY <2>1, <2>2
<1>3. CASE RefuseCrowd(c) \/ MarkReceiptsUncertain(c) \/ Finalize(c)
  BY <1>3, StopMoves DEF RefuseCrowd, MarkReceiptsUncertain, Finalize, Stop, Return
<1>4. CASE PersistExportPurposeDecisions(c)
  <2>1. CASE Return(c)  BY <2>1, StopMoves DEF Return
  <2>2. CASE ~Return(c)
    <3>1. call[c].at = "begun" /\ Goto(c, "authorized")
      BY <1>4, <2>2 DEF PersistExportPurposeDecisions, Proceed, Stop
    <3>2. "authorized" \in Step  BY DEF Step
    <3>3. QED  BY <3>1, <3>2, RecordMoves DEF Goto
  <2>3. QED  BY <2>1, <2>2
<1>5. CASE Claim(c)
  <2>1. CASE Return(c)  BY <2>1, StopMoves DEF Return
  <2>2. CASE ~Return(c)
    <3>1. /\ call[c].at = "authorized"
          /\ call' = [call EXCEPT ![c] =
               CallRecord("sending", call[c].version, call[c].input, call[c].seen,
                          Person \ receipts, {}, 0, None)]
      BY <1>5, <2>2 DEF Claim, Stop
    <3>2. "sending" \in Step  BY DEF Step
    <3>3. QED  BY <3>1, <3>2, RecordMoves
  <2>3. QED  BY <2>1, <2>2
<1>6. CASE SendBatch(c)
  <2>1. CASE Return(c)  BY <2>1, StopMoves DEF Return
  <2>2. CASE ~Return(c)
    <3>1. /\ call[c].at = "sending"
          /\ BatchAuthorityIsCurrent(c, NextBatch(c))
          /\ call' = [call EXCEPT ![c] =
               CallRecord("awaiting", call[c].version, call[c].input, call[c].seen,
                          call[c].pending, NextBatch(c), 0, None)]
      BY <1>6, <2>2 DEF SendBatch, Stop
    <3>2. /\ "awaiting" \in Step /\ call[c].at \notin Fresh
          /\ \A p \in NextBatch(c) : p \in authorized /\ candidate[p] = call[c].input[p]
      BY <3>1 DEF Step, Fresh, BatchAuthorityIsCurrent
    <3>3. QED  BY <3>1, <3>2, RecordMoves
  <2>3. QED  BY <2>1, <2>2
<1>7. CASE SettleBatch(c)
  <2>1. CASE Return(c)  BY <2>1, StopMoves DEF Return
  <2>2. CASE ~Return(c)
    <3>1. call[c].at = "answered" /\ (Goto(c, "uncertain") \/ NextTurn(c))
      BY <1>7, <2>2 DEF SettleBatch, Stop
    <3>2. "uncertain" \in Step /\ "sending" \in Step  BY DEF Step
    <3>3. QED  BY <3>1, <3>2, RecordMoves DEF Goto, NextTurn
  <2>3. QED  BY <2>1, <2>2
<1>8. CASE ProviderAnswers(c)
  <2> PICK a \in Answer :
        call' = [call EXCEPT ![c] =
          CallRecord("answered", call[c].version, call[c].input, call[c].seen,
                     call[c].pending, call[c].batch,
                     IF a = "UNSENT" THEN 0 ELSE call[c].tries + 1, a)]
    BY <1>8 DEF ProviderAnswers
  <2>1. call[c].at = "awaiting" /\ "answered" \in Step
    BY <1>8 DEF ProviderAnswers, Step
  <2>2. QED  BY <2>1, RecordMoves
<1>9. CASE ProviderRetries(c)
  <2>1. /\ call[c].at = "awaiting" /\ "awaiting" \in Step
        /\ call' = [call EXCEPT ![c] =
             CallRecord("awaiting", call[c].version, call[c].input, call[c].seen,
                        call[c].pending, call[c].batch, call[c].tries + 1, None)]
    BY <1>9 DEF ProviderRetries, Step
  <2>2. QED  BY <2>1, RecordMoves
<1>10. QED
  BY <1>1, <1>2, <1>3, <1>4, <1>5, <1>6, <1>7, <1>8, <1>9 DEF CallStep
LEMMA BegunOnItsInput ==
  ASSUME NEW c \in Caller, Begin(c)
  PROVE  \/ Return(c) /\ UNCHANGED run
         \/ run'.state # "ABSENT" /\ run'.input = call[c].input /\ run.state = "ABSENT"
         \/ run.state # "ABSENT" /\ run.input = call[c].input /\ UNCHANGED run
BY DEF Begin, IdempotencyConflict, BeginRun, RunRow

LEMMA RequestRow ==
  ASSUME NEW c \in Caller, Load(c) \/ CallStep(c) \/ ProviderRetries(c) \/ ProviderAnswers(c),
         run.state # "ABSENT"
  PROVE  RowStays
<1>1. \A s \in {"FAILED_TERMINAL", "UNKNOWN", "RUNNING", "SUCCEEDED"} : \A a :
        Written(s, a).state # "ABSENT" /\ Written(s, a).input = run.input
  BY DEF Written, RunRow
<1>2. CASE Load(c) \/ ProviderRetries(c) \/ ProviderAnswers(c)
  BY <1>2 DEF Load, ProviderRetries, ProviderAnswers, RowStays
<1>3. CASE Begin(c)  BY <1>3, BegunOnItsInput DEF RowStays
<1>4. CASE RefuseCrowd(c) \/ MarkReceiptsUncertain(c) \/ Finalize(c)
  BY <1>1, <1>4 DEF RefuseCrowd, MarkReceiptsUncertain, Finalize, Stop, Recorded, RowStays
<1>5. CASE PersistExportPurposeDecisions(c)
  BY <1>1, <1>5 DEF PersistExportPurposeDecisions, Proceed, Stop, Recorded, RowStays
<1>6. CASE Claim(c)
  <2>1. Interrupted = "UNKNOWN"  BY ExportAssumption DEF Interrupted
  <2>2. QED
    BY <1>1, <1>6, <2>1 DEF Claim, Stop, RowAfterRefusal, RowAfterClaim, Recorded,
                            MarkAttemptBudgetExhausted, RowStays
<1>7. CASE SendBatch(c)
  BY <1>1, <1>7 DEF SendBatch, Stop, Recorded, MarkAttemptBudgetExhausted, RowStays
<1>8. CASE SettleBatch(c)
  <2>1. FailureState(call[c].answer) \in {"UNKNOWN", "FAILED_TERMINAL"}
    BY DEF FailureState
  <2>2. QED  BY <1>1, <1>8, <2>1 DEF SettleBatch, Stop, Recorded, RowStays
<1>9. QED  BY <1>2, <1>3, <1>4, <1>5, <1>6, <1>7, <1>8 DEF CallStep

LEMMA RequestKeepsInput ==
  ASSUME Shape, InputKept, NEW c \in Caller,
         Load(c) \/ CallStep(c) \/ ProviderRetries(c) \/ ProviderAnswers(c)
  PROVE  InputKept'
<1> PICK r : Moved(c, r)  BY RequestMoves
<1>1. call'[c] = r /\ \A d \in Caller : d # c => call'[d] = call[d]
  BY CallChanges DEF Moved
<1>2. ASSUME run.state # "ABSENT", NEW d \in Caller, d # c, call'[d].at \notin Fresh
      PROVE  run'.state # "ABSENT" /\ call'[d].input = run'.input
  BY <1>1, <1>2, RequestRow DEF InputKept, RowStays
<1>3. ASSUME call[c].at \notin Fresh, call'[c].at \notin Fresh
      PROVE  run'.state # "ABSENT" /\ call'[c].input = run'.input
  BY <1>1, <1>3, RequestRow DEF InputKept, RowStays, Moved
<1>4. ASSUME call[c].at \in Fresh, call'[c].at \notin Fresh
      PROVE  run'.state # "ABSENT" /\ call'[c].input = run'.input
  <2>1. call[c].at = "loaded" /\ call'[c].input = call[c].input
    BY <1>1, <1>4 DEF Moved, Fresh
  <2>2. Begin(c)
    BY <2>1 DEF CallStep, Load, RefuseCrowd, PersistExportPurposeDecisions, Claim,
                SendBatch, SettleBatch, MarkReceiptsUncertain, Finalize,
                ProviderRetries, ProviderAnswers
  <2>3. ~Return(c)
    <3>1. Idle.at = "idle"  BY DEF Idle, CallRecord
    <3>2. Return(c) => call'[c] = Idle  BY DEF Return, Shape
    <3>3. QED  BY <1>4, <3>1, <3>2 DEF Fresh
  <2>4. QED  BY <2>1, <2>2, <2>3, BegunOnItsInput
<1>5. ASSUME run.state = "ABSENT", NEW d \in Caller, d # c, call'[d].at \notin Fresh
      PROVE  FALSE
  BY <1>1, <1>5 DEF InputKept
<1>6. QED  BY <1>2, <1>3, <1>4, <1>5 DEF InputKept

\* outside its own steps no request gets further, and the row keeps its input
LEMMA ElsewhereInput ==
  ASSUME InputKept, UNCHANGED run \/ LeaseExpires,
         UNCHANGED call \/ \E s \in Process : Crash(s)
  PROVE  InputKept' /\ \A c \in Caller : call'[c].at = "awaiting" => call'[c] = call[c]
<1>1. run'.state = run.state /\ run'.input = run.input
  BY DEF LeaseExpires, RunRow
<1>2. \A c \in Caller : call'[c] = call[c] \/ call'[c].at = "idle"
  <2>1. Idle.at = "idle"  BY DEF Idle, CallRecord
  <2>2. QED  BY <2>1 DEF Crash
<1>3. QED  BY <1>1, <1>2 DEF InputKept, Fresh

HandedOver(c) == call[c].at # "awaiting" /\ call'[c].at = "awaiting"

LEMMA NextInput ==
  ASSUME Shape, InputKept, [Next]_vars
  PROVE  /\ InputKept'
         /\ \A c \in Caller : HandedOver(c) =>
              \A p \in call'[c].batch : p \in authorized /\ candidate[p] = run.input[p]
<1>1. ASSUME NEW d \in Caller, Load(d) \/ CallStep(d) \/ ProviderRetries(d) \/ ProviderAnswers(d)
      PROVE  /\ InputKept'
             /\ \A c \in Caller : HandedOver(c) =>
                  \A p \in call'[c].batch : p \in authorized /\ candidate[p] = run.input[p]
  <2> PICK r : Moved(d, r)  BY <1>1, RequestMoves
  <2>1. call'[d] = r /\ \A c \in Caller : c # d => call'[c] = call[c]
    BY CallChanges DEF Moved
  <2>2. ASSUME r.at = "awaiting", call[d].at # "awaiting"
        PROVE  \A p \in r.batch : p \in authorized /\ candidate[p] = run.input[p]
    BY <2>2 DEF Moved, InputKept
  <2>3. QED  BY <1>1, <2>1, <2>2, RequestKeepsInput DEF HandedOver
<1>2. CASE /\ UNCHANGED run \/ LeaseExpires
           /\ UNCHANGED call \/ \E s \in Process : Crash(s)
  BY <1>2, ElsewhereInput DEF HandedOver
<1>3. CASE \E s \in Process : Crash(s)  BY <1>2, <1>3 DEF Crash
<1>4. CASE \/ \E p \in Person : EvidenceChanges(p) \/ AuthorityLapses(p)
           \/ ConnectionChanges
  BY <1>2, <1>4 DEF EvidenceChanges, AuthorityLapses, ConnectionChanges
<1>5. CASE TimePasses  BY <1>2, <1>5 DEF TimePasses
<1>6. CASE UNCHANGED vars  BY <1>2, <1>6 DEF vars
<1>7. QED  BY <1>1, <1>3, <1>4, <1>5, <1>6 DEF Next

\* On one server process nobody is handed to the provider on evidence that the
\* transaction before the request does not find current
\* (exportBatchAuthorityIsCurrent).
THEOREM AlwaysSentOnCurrentEvidence == ASSUME OneServer PROVE Spec => SentOnCurrentEvidence
<1>1. Init => InputKept
  BY DEF Init, InputKept, Idle, CallRecord, Fresh
<1>2. ExportInv /\ InputKept /\ [Next]_vars => InputKept'
  BY NextInput DEF ExportInv
<1>3. ExportInv /\ InputKept /\ [Next]_vars =>
        \A c \in Caller :
          call[c].at # "awaiting" /\ call'[c].at = "awaiting" =>
            \A p \in call'[c].batch : p \in authorized /\ candidate[p] = run.input[p]
  BY NextInput DEF ExportInv, HandedOver
<1>4. QED  BY <1>1, <1>2, <1>3, ExportInvHolds, PTL DEF Spec, SentOnCurrentEvidence

(***************************************************************************)
(* Confirming an import: ConnectorIdentity                                 *)
(*                                                                         *)
(* A confirmation works through its rows one by one; the argument is an    *)
(* induction over them.  Whatever a row overwrites is either still as the  *)
(* transaction found it, and then it is what the preview showed, or was    *)
(* overwritten by an earlier row of which that held.                       *)
(***************************************************************************)
PersonRows == [email : Email, name : Name]

\* what finalizePreview makes of a provider record
Previewed(row) ==
  /\ row.disposition \in {"CREATE", "UPDATE", "LINK", "CONFLICT"}
  /\ row.disposition # "CONFLICT" => row.email \in Email /\ row.name \in Name

IdentityInv ==
  /\ people \in Seq(PersonRows)
  /\ state \in [Run -> {"ABSENT", "PREVIEW_READY", "SUCCEEDED"}]
  /\ preview = [r \in Run |-> [k \in Contact |-> preview[r][k]]]
  /\ \A r \in Run, k \in Contact : preview[r][k] # Null => Previewed(preview[r][k])

\* Person p was shown to the organizer of run r as it is now.
Shown(r, p) ==
  \E k \in Contact : /\ preview[r][k] # Null
                     /\ preview[r][k].candidate = p
                     /\ preview[r][k].seen = people[p]

\* The people ps a transaction of run r may have made out of the people.
Overwrites(r, ps) ==
  /\ ps \in Seq(PersonRows) /\ Len(people) <= Len(ps)
  /\ \A p \in DOMAIN people : ps[p] = people[p] \/ Shown(r, p)

(* Induction over the naturals, for a set that is closed under the successor.  *)
LEMMA ClosedUnderSuccessor ==
    ASSUME NEW S, 0 \in S, \A n \in Nat : n \in S => n + 1 \in S
    PROVE  Nat \subseteq S
  <1> DEFINE Less == {r \in Nat \X Nat : r[1] < r[2]}
  <1> SUFFICES ASSUME Nat \ S # {} PROVE FALSE
    OBVIOUS
  <1>1. IsWellFoundedOn(Less, Nat)
    BY NatLessThanWellFounded DEF OpToRel
  <1>2. PICK n \in Nat \ S : \A m \in Nat \ S : <<m, n>> \notin Less
    BY <1>1, WFMin
  <1>3. n - 1 \in Nat /\ <<n - 1, n>> \in Less
    OBVIOUS
  <1>4. n - 1 \in S
    BY <1>2, <1>3
  <1> QED
    BY <1>3, <1>4

(* The recursion over the rows of a confirmation is well defined.              *)
LEMMA WorksRecursion ==
    ASSUME NEW r, NEW order, Len(order) \in Nat
    PROVE  /\ Works(r, order)[0] = Work(people, source, decisions, TRUE)
           /\ \A n \in 1..Len(order) :
                Works(r, order)[n] = ApplyRow(Works(r, order)[n - 1], r, order[n])
  <1> DEFINE First == Work(people, source, decisions, TRUE)
             After(w, i) == ApplyRow(w, r, order[i])
             IsWork(f, m) == f = [i \in 0..m |-> IF i = 0 THEN First ELSE After(f[i - 1], i)]
             Has == {m \in Nat : \E f : IsWork(f, m)}
             c == Len(order)
  <1>1. Works(r, order) = CHOOSE f : IsWork(f, c)
    BY DEF Works
  <1>2. c \in Nat
    OBVIOUS
  <1> HIDE DEF First, After, c
  <1>3. 0 \in Has
    <2>1. IsWork([i \in 0..0 |-> First], 0)
      OBVIOUS
    <2> QED
      BY <2>1
  <1>4. ASSUME NEW m \in Nat, m \in Has PROVE m + 1 \in Has
    <2>1. PICK f : IsWork(f, m)
      BY <1>4
    <2> DEFINE g == [i \in 0..(m + 1) |-> IF i = m + 1 THEN After(f[m], i) ELSE f[i]]
    <2>2. ASSUME NEW i \in 0..(m + 1)
          PROVE  g[i] = IF i = 0 THEN First ELSE After(g[i - 1], i)
      <3>1. CASE i = m + 1
        <4>1. g[i] = After(f[m], i) /\ i - 1 = m /\ i # 0 /\ m \in 0..(m + 1) /\ m # m + 1
          BY <3>1
        <4>2. g[m] = f[m]
          BY <4>1
        <4> QED
          BY <4>1, <4>2
      <3>2. CASE i # m + 1 /\ i = 0
        <4>1. i \in 0..m /\ g[i] = f[i]
          BY <3>2
        <4> QED
          BY <2>1, <3>2, <4>1
      <3>3. CASE i # m + 1 /\ i # 0
        <4>1. i \in 0..m /\ g[i] = f[i] /\ i - 1 \in 0..(m + 1) /\ i - 1 # m + 1
          BY <3>3
        <4>2. g[i - 1] = f[i - 1]
          BY <4>1
        <4>3. f[i] = After(f[i - 1], i)
          BY <2>1, <3>3, <4>1
        <4> QED
          BY <3>3, <4>1, <4>2, <4>3
      <3> QED
        BY <3>1, <3>2, <3>3
    <2> DEFINE h == [i \in 0..(m + 1) |-> IF i = 0 THEN First ELSE After(g[i - 1], i)]
    <2>3. g = h
      BY <2>2
    <2>4. IsWork(g, m + 1)
      BY <2>3
    <2> HIDE DEF g
    <2> QED
      BY <2>4
  <1>5. \E f : IsWork(f, c)
    <2>1. c \in Has
      <3> HIDE DEF Has
      <3> QED
        BY <1>2, <1>3, <1>4, ClosedUnderSuccessor
    <2> QED
      BY <2>1
  <1>6. IsWork(Works(r, order), c)
    BY <1>1, <1>5
  <1> HIDE DEF IsWork
  <1>7. Works(r, order) = [i \in 0..c |-> IF i = 0 THEN First ELSE After(Works(r, order)[i - 1], i)]
    BY <1>6 DEF IsWork
  <1>8. Works(r, order)[0] = First
    BY <1>2, <1>7
  <1>9. ASSUME NEW n \in 1..c PROVE Works(r, order)[n] = ApplyRow(Works(r, order)[n - 1], r, order[n])
    <2>1. n \in 0..c /\ n # 0
      BY <1>2
    <2> QED
      BY <1>7, <2>1 DEF After
  <1> QED
    BY <1>2, <1>8, <1>9 DEF c, First

LEMMA AppendKeeps ==
    ASSUME NEW S, NEW s \in Seq(S), NEW x \in S
    PROVE  /\ Append(s, x) \in Seq(S) /\ Len(Append(s, x)) = Len(s) + 1
           /\ \A p \in DOMAIN s : Append(s, x)[p] = s[p]
  OBVIOUS

LEMMA ExceptKeeps ==
    ASSUME NEW S, NEW s \in Seq(S), NEW x \in S, NEW c
    PROVE  [s EXCEPT ![c] = x] \in Seq(S) /\ Len([s EXCEPT ![c] = x]) = Len(s)
  <1> DEFINE t == [s EXCEPT ![c] = x]
             n == Len(s)
  <1>1. n \in Nat /\ s \in [1..n -> S]
    OBVIOUS
  <1> HIDE DEF n
  <1>2. t \in [1..n -> S]
    BY <1>1
  <1> HIDE DEF t
  <1>3. t \in Seq(S) /\ Len(t) = n
    BY <1>1, <1>2
  <1> QED
    BY <1>3 DEF t, n

(* One row: what it overwrites is as the preview showed it, or is not any more *)
(* as the transaction found it.                                                *)
LEMMA RowOverwrites ==
    ASSUME NEW r, NEW k \in Contact, preview[r][k] # Null, Previewed(preview[r][k]),
           NEW w, people \in Seq(PersonRows),
           w.ok => Overwrites(r, w.people), ApplyRow(w, r, k).ok
    PROVE  Overwrites(r, ApplyRow(w, r, k).people)
  <1> DEFINE row == preview[r][k]
             is == PersonRow(row.email, row.name)
             w2 == ApplyRow(w, r, k)
  <1>1. CASE ~w.ok
    <2>1. w2 = w
      BY <1>1 DEF ApplyRow
    <2> QED
      BY <1>1, <2>1
  <1>2. CASE w.ok /\ row.disposition = "CONFLICT"
    <2>1. w2 = w
      BY <1>2 DEF ApplyRow
    <2> QED
      BY <1>2, <2>1
  <1>3. CASE w.ok /\ row.disposition # "CONFLICT"
    <2>1. /\ w2.people = PeopleAfter(w, row)
          /\ w2.ok = Applicable(w, k, row)
      BY <1>3 DEF ApplyRow, Work
    <2>2. /\ is \in PersonRows
          /\ row.disposition \in {"CREATE", "UPDATE", "LINK"}
      BY <1>3 DEF Previewed, PersonRow, PersonRows
    <2>3. Overwrites(r, w.people)
      BY <1>3
    <2>4. row.disposition # "CREATE" => w.people[row.candidate] = row.seen
      BY <2>1 DEF Applicable, CandidateUnchanged
    <2>5. CASE row.disposition = "CREATE"
      <3>1. w2.people = Append(w.people, is)
        BY <2>1, <2>5 DEF PeopleAfter
      <3> DEFINE ps == w.people
      <3>2. ps \in Seq(PersonRows) /\ Len(people) <= Len(ps)
            /\ \A p \in DOMAIN people : ps[p] = people[p] \/ Shown(r, p)
        BY <2>3 DEF Overwrites
      <3> HIDE DEF w2, is, ps
      <3>3. /\ w2.people \in Seq(PersonRows) /\ Len(w2.people) = Len(ps) + 1
            /\ \A p \in DOMAIN ps : w2.people[p] = ps[p]
        BY <2>2, <3>1, <3>2, AppendKeeps DEF ps
      <3>4. DOMAIN people \subseteq DOMAIN ps /\ Len(people) <= Len(w2.people)
        BY <3>2, <3>3
      <3> QED
        BY <3>2, <3>3, <3>4 DEF Overwrites, w2
    <2>6. CASE row.disposition = "LINK"
      <3>1. w2.people = w.people
        BY <2>1, <2>6 DEF PeopleAfter
      <3> QED
        BY <2>3, <3>1
    <2>7. CASE row.disposition = "UPDATE"
      <3>1. w2.people = [w.people EXCEPT ![row.candidate] = is]
        BY <2>1, <2>7 DEF PeopleAfter
      <3>2. w.people[row.candidate] = row.seen
        BY <2>4, <2>7
      <3>3. w2.people \in Seq(PersonRows) /\ Len(w2.people) = Len(w.people)
        <4> HIDE DEF w2, is, row
        <4> QED
          BY <2>2, <2>3, <3>1, ExceptKeeps DEF Overwrites
      <3>4. ASSUME NEW p \in DOMAIN people, w2.people[p] # people[p] PROVE Shown(r, p)
        <4>1. p \in DOMAIN w.people
          BY <2>3 DEF Overwrites
        <4>2. CASE p # row.candidate
          <5>1. w2.people[p] = w.people[p]
            BY <3>1, <4>1, <4>2
          <5> QED
            BY <2>3, <3>4, <5>1 DEF Overwrites
        <4>3. CASE p = row.candidate /\ w.people[p] = people[p]
          BY <3>2, <4>3 DEF Shown
        <4>4. CASE w.people[p] # people[p]
          BY <2>3, <4>4 DEF Overwrites
        <4> QED
          BY <4>2, <4>3, <4>4
      <3>5. Len(people) <= Len(w2.people)
        BY <2>3, <3>3 DEF Overwrites
      <3> QED
        BY <3>3, <3>4, <3>5 DEF Overwrites
    <2> QED
      BY <2>2, <2>5, <2>6, <2>7
  <1> QED
    BY <1>1, <1>2, <1>3

(* The order of a confirmation is a sequence of its rows.                      *)
LEMMA OrderOfRows ==
    ASSUME NEW r, NEW order \in SetToSeqs({k \in Contact : preview[r][k] # Null})
    PROVE  /\ Len(order) \in Nat
           /\ \A n \in 1..Len(order) : order[n] \in Contact /\ preview[r][order[n]] # Null
  <1> DEFINE Rows == {k \in Contact : preview[r][k] # Null}
  <1>1. order \in [1..Cardinality(Rows) -> Rows]
    BY DEF SetToSeqs
  <1>2. Cardinality(Rows) \in Nat
    <2>1. IsFiniteSet(Rows)
      BY IdentityAssumption, FS_Subset
    <2> QED
      BY <2>1, FS_CardinalityType
  <1>3. order \in Seq(Rows)
    <2> HIDE DEF Rows
    <2> QED
      BY <1>1, <1>2
  <1>4. Len(order) \in Nat /\ \A n \in 1..Len(order) : order[n] \in Rows
    <2> HIDE DEF Rows
    <2> QED
      BY <1>3
  <1> QED
    BY <1>4

(* All rows, by induction along their order.                                   *)
LEMMA ConfirmationOverwrites ==
    ASSUME IdentityInv, NEW r \in Run,
           NEW order \in SetToSeqs({k \in Contact : preview[r][k] # Null}),
           Applied(r, order).ok
    PROVE  Overwrites(r, Applied(r, order).people)
  <1> DEFINE c == Len(order)
             Good == {n \in Nat : n <= c /\ Works(r, order)[n].ok
                                    => Overwrites(r, Works(r, order)[n].people)}
  <1>1. c \in Nat /\ \A n \in 1..c : order[n] \in Contact /\ preview[r][order[n]] # Null
    BY OrderOfRows
  <1>2. /\ Works(r, order)[0] = Work(people, source, decisions, TRUE)
        /\ \A n \in 1..c : Works(r, order)[n] = ApplyRow(Works(r, order)[n - 1], r, order[n])
    BY <1>1, WorksRecursion
  <1>3. 0 \in Good
    BY <1>2 DEF Work, Overwrites, IdentityInv
  <1>4. ASSUME NEW n \in Nat, n \in Good PROVE n + 1 \in Good
    <2> SUFFICES ASSUME n + 1 <= c, Works(r, order)[n + 1].ok
                 PROVE  Overwrites(r, Works(r, order)[n + 1].people)
      OBVIOUS
    <2> DEFINE w == Works(r, order)[n]
               k == order[n + 1]
    <2>1. n + 1 \in 1..c /\ n <= c /\ (n + 1) - 1 = n
      BY <1>1
    <2>2. Works(r, order)[n + 1] = ApplyRow(w, r, k)
      BY <1>2, <2>1
    <2>3. k \in Contact /\ preview[r][k] # Null
      BY <1>1, <2>1
    <2>4. Previewed(preview[r][k]) /\ people \in Seq(PersonRows)
      BY <2>3 DEF IdentityInv
    <2>5. w.ok => Overwrites(r, w.people)
      BY <1>4, <2>1
    <2> HIDE DEF w, k
    <2> QED
      BY <2>2, <2>3, <2>4, <2>5, RowOverwrites
  <1>5. c \in Good
    <2> HIDE DEF Good, c
    <2> QED
      BY <1>1, <1>3, <1>4, ClosedUnderSuccessor
  <1> QED
    BY <1>1, <1>5 DEF Applied

LEMMA InitIdentity == IdentityInit => IdentityInv
  BY DEF IdentityInit, IdentityInv

(* What finalizePreview stores of a record is of one of the four dispositions. *)
LEMMA PreviewRows ==
    ASSUME NEW page \in Reported, NEW k \in Contact, page[k] # Null
    PROVE  Previewed(IF Conflicting(page, k) THEN Conflict(page, k) ELSE Disposed(page, k))
  <1>1. page[k] \in [email : Email \union {Null}, name : Name]
    BY DEF Reported
  <1>2. CASE Conflicting(page, k)
    BY <1>2 DEF Conflict, Row, Previewed
  <1>3. CASE ~Conflicting(page, k)
    <2>1. page[k].email \in Email /\ page[k].name \in Name
      BY <1>1, <1>3 DEF Conflicting
    <2>2. \E d \in {"CREATE", "UPDATE", "LINK"} : \E p, seen :
            Disposed(page, k) = Row(page[k].email, page[k].name, d, p, seen)
      BY DEF Disposed
    <2> QED
      BY <1>3, <2>1, <2>2 DEF Row, Previewed
  <1> QED
    BY <1>2, <1>3

LEMMA IdentityInvStep == IdentityInv /\ [IdentityNext]_identityVars => IdentityInv'
  <1> SUFFICES ASSUME IdentityInv, [IdentityNext]_identityVars PROVE IdentityInv'
    OBVIOUS
  <1>1. ASSUME NEW r \in Run, FinalizePreview(r) PROVE IdentityInv'
    <2>1. PICK page \in Reported :
            preview' = [preview EXCEPT ![r] =
              [k \in Contact |-> IF page[k] = Null THEN Null
                                 ELSE IF Conflicting(page, k) THEN Conflict(page, k)
                                 ELSE Disposed(page, k)]]
      BY <1>1 DEF FinalizePreview
    <2>2. \A k \in Contact : preview'[r][k] # Null => Previewed(preview'[r][k])
      BY <2>1, PreviewRows DEF IdentityInv
    <2>3. \A q \in Run : q # r => preview'[q] = preview[q]
      BY <2>1 DEF IdentityInv
    <2>4. preview' = [q \in Run |-> [k \in Contact |-> preview'[q][k]]]
      BY <2>1 DEF IdentityInv
    <2> QED
      BY <1>1, <2>2, <2>3, <2>4 DEF FinalizePreview, IdentityInv, Previewed
  <1>2. ASSUME NEW r \in Run, ConfirmImport(r) PROVE IdentityInv'
    <2>1. PICK order \in SetToSeqs({k \in Contact : preview[r][k] # Null}) :
            Applied(r, order).ok /\ people' = Applied(r, order).people
      BY <1>2 DEF ConfirmImport
    <2>2. people' \in Seq(PersonRows)
      BY <2>1, ConfirmationOverwrites DEF Overwrites
    <2> QED
      BY <1>2, <2>2 DEF ConfirmImport, IdentityInv, Previewed
  <1>3. ASSUME NEW p \in DOMAIN people, NEW n \in Name, RenamePerson(p, n) PROVE IdentityInv'
    <2>1. people[p] \in PersonRows
      BY DEF IdentityInv
    <2>2. PersonRow(people[p].email, n) \in PersonRows
      BY <2>1 DEF PersonRow, PersonRows
    <2>3. people' \in Seq(PersonRows)
      BY <1>3, <2>2 DEF RenamePerson, IdentityInv
    <2> QED
      BY <1>3, <2>3 DEF RenamePerson, IdentityInv, Previewed
  <1>4. ASSUME NEW e \in Email, NEW n \in Name, CreatePerson(e, n) PROVE IdentityInv'
    <2>1. PersonRow(e, n) \in PersonRows
      BY DEF PersonRow, PersonRows
    <2>2. people' \in Seq(PersonRows)
      BY <1>4, <2>1 DEF CreatePerson, IdentityInv
    <2> QED
      BY <1>4, <2>2 DEF CreatePerson, IdentityInv, Previewed
  <1>5. CASE UNCHANGED identityVars
    BY <1>5 DEF identityVars, IdentityInv, Previewed
  <1> QED
    BY <1>1, <1>2, <1>3, <1>4, <1>5 DEF IdentityNext

(* A confirmation overwrites of a person what its preview showed of that       *)
(* person and nothing newer: an edit made in between makes the fingerprint     *)
(* differ (CONNECTOR_CANONICAL_CONFLICT) and survives.                         *)
THEOREM EditsAlwaysSurvive == IdentitySpec => EditsAfterPreviewSurvive
  <1> DEFINE Kept == \A p \in DOMAIN people : \A r \in Run :
                       state[r] # state'[r] /\ people'[p] # people[p] => Shown(r, p)
  <1>1. IdentityInv /\ [IdentityNext]_identityVars => Kept
    <2> SUFFICES ASSUME IdentityInv, [IdentityNext]_identityVars,
                        NEW p \in DOMAIN people, NEW r \in Run,
                        state[r] # state'[r], people'[p] # people[p]
                 PROVE  Shown(r, p)
      OBVIOUS
    <2>1. PICK q \in Run : ConfirmImport(q)
      BY DEF IdentityNext, identityVars, FinalizePreview, RenamePerson, CreatePerson
    <2>2. q = r
      BY <2>1 DEF ConfirmImport, IdentityInv
    <2>3. PICK order \in SetToSeqs({k \in Contact : preview[r][k] # Null}) :
            Applied(r, order).ok /\ people' = Applied(r, order).people
      BY <2>1, <2>2 DEF ConfirmImport
    <2>4. Overwrites(r, people')
      BY <2>3, ConfirmationOverwrites
    <2> QED
      BY <2>4 DEF Overwrites
  <1>2. IdentityInv /\ [IdentityNext]_identityVars =>
          \A p \in DOMAIN people : \A r \in Run :
            state[r] # state'[r] /\ people'[p] # people[p] =>
              \E k \in Contact : /\ preview[r][k] # Null
                                 /\ preview[r][k].candidate = p
                                 /\ preview[r][k].seen = people[p]
    BY <1>1 DEF Shown
  <1> QED
    BY <1>2, InitIdentity, IdentityInvStep, PTL DEF IdentitySpec, EditsAfterPreviewSurvive

(***************************************************************************)
(* The shape of the tables, for which a link must point to a person: the   *)
(* links of what finalizePreview found, and of what a confirmation adds.   *)
(***************************************************************************)
EvidenceOf(ps) == [email : Email, name : Name, person : DOMAIN ps]

\* every link of the versions ss is to one of the people ps
Linked(ps, ss) ==
  /\ ps \in Seq(PersonRows)
  /\ ss = [k \in Contact |-> ss[k]]
  /\ \A k \in Contact : ss[k] \in Seq(EvidenceOf(ps))

LinkInv ==
  /\ Linked(people, source) /\ Len(people) <= MaxPeople /\ renames \in 0..MaxRename
  /\ \A r \in Run, k \in Contact :
       preview[r][k] # Null /\ preview[r][k].disposition \in {"UPDATE", "LINK"}
         => preview[r][k].candidate \in DOMAIN people

LEMMA MorePeople ==
    ASSUME NEW ps \in Seq(PersonRows), NEW qs \in Seq(PersonRows), Len(ps) <= Len(qs)
    PROVE  /\ DOMAIN ps \subseteq DOMAIN qs
           /\ EvidenceOf(ps) \subseteq EvidenceOf(qs)
           /\ \A s \in Seq(EvidenceOf(ps)) : s \in Seq(EvidenceOf(qs))
  <1>1. DOMAIN ps \subseteq DOMAIN qs
    OBVIOUS
  <1>2. EvidenceOf(ps) \subseteq EvidenceOf(qs)
    BY <1>1 DEF EvidenceOf
  <1>3. ASSUME NEW S, NEW T, S \subseteq T PROVE \A s \in Seq(S) : s \in Seq(T)
    BY <1>3
  <1> QED
    BY <1>1, <1>2, <1>3

(* One row links its evidence to its target.                                   *)
LEMMA RowLinks ==
    ASSUME NEW r, NEW k \in Contact, preview[r][k] # Null, Previewed(preview[r][k]),
           people \in Seq(PersonRows),
           preview[r][k].disposition \in {"UPDATE", "LINK"}
             => preview[r][k].candidate \in DOMAIN people,
           NEW w, Len(people) <= Len(w.people), Linked(w.people, w.source)
    PROVE  /\ Len(w.people) <= Len(ApplyRow(w, r, k).people)
           /\ Linked(ApplyRow(w, r, k).people, ApplyRow(w, r, k).source)
  <1> DEFINE row == preview[r][k]
             is == PersonRow(row.email, row.name)
             w2 == ApplyRow(w, r, k)
             ps == w.people
             qs == PeopleAfter(w, row)
  <1>1. CASE ~w.ok \/ row.disposition = "CONFLICT"
    <2>1. w2 = w
      BY <1>1 DEF ApplyRow
    <2>2. Len(ps) \in Nat
      BY DEF Linked
    <2> QED
      BY <2>1, <2>2
  <1>2. CASE w.ok /\ row.disposition # "CONFLICT"
    <2>1. /\ w2.people = qs
          /\ w2.source = [w.source EXCEPT ![k] = SourceAfter(w, k, row)]
      BY <1>2 DEF ApplyRow, Work
    <2>2. /\ row.email \in Email /\ row.name \in Name /\ is \in PersonRows
          /\ row.disposition \in {"CREATE", "UPDATE", "LINK"}
      BY <1>2 DEF Previewed, PersonRow, PersonRows
    <2>3. ps \in Seq(PersonRows) /\ Len(ps) \in Nat /\ Len(people) \in Nat
      BY DEF Linked
    <2>4. /\ qs \in Seq(PersonRows) /\ Len(ps) <= Len(qs)
          /\ Target(w, row) \in DOMAIN qs
      <3>1. CASE row.disposition = "CREATE"
        <4>1. qs = Append(ps, is) /\ Target(w, row) = Len(ps) + 1
          BY <3>1 DEF PeopleAfter, Target
        <4> HIDE DEF qs, ps, is
        <4> QED
          BY <2>2, <2>3, <4>1
      <3>2. CASE row.disposition = "UPDATE"
        <4>1. qs = [ps EXCEPT ![row.candidate] = is] /\ Target(w, row) = row.candidate
          BY <3>2 DEF PeopleAfter, Target
        <4>2. row.candidate \in 1..Len(people)
          BY <3>2
        <4> HIDE DEF qs, is, row
        <4>3. qs \in Seq(PersonRows) /\ Len(qs) = Len(ps)
          BY <2>2, <2>3, <4>1, ExceptKeeps
        <4> QED
          BY <2>3, <4>1, <4>2, <4>3
      <3>3. CASE row.disposition = "LINK"
        <4>1. qs = ps /\ Target(w, row) = row.candidate
          BY <3>3 DEF PeopleAfter, Target
        <4>2. row.candidate \in 1..Len(people)
          BY <3>3
        <4> HIDE DEF qs, row
        <4> QED
          BY <2>3, <4>1, <4>2
      <3> QED
        BY <2>2, <3>1, <3>2, <3>3
    <2> DEFINE E == EvidenceOf(qs)
               e == Evidence(row.email, row.name, Target(w, row))
    <2>5. \A j \in Contact : w.source[j] \in Seq(E)
      BY <2>3, <2>4, MorePeople DEF Linked
    <2>6. e \in E
      BY <2>2, <2>4 DEF Evidence, EvidenceOf
    <2>7. SourceAfter(w, k, row) \in Seq(E)
      <3>1. SourceAfter(w, k, row) \in {w.source[k], Append(w.source[k], e)}
        BY DEF SourceAfter
      <3> HIDE DEF E, e
      <3> QED
        BY <2>5, <2>6, <3>1, AppendKeeps
    <2>8. w.source = [j \in Contact |-> w.source[j]]
      BY DEF Linked
    <2>9. Linked(qs, w2.source)
      <3> HIDE DEF qs, w2
      <3> QED
        BY <2>1, <2>4, <2>5, <2>7, <2>8 DEF Linked
    <2> QED
      BY <2>1, <2>4, <2>9
  <1> QED
    BY <1>1, <1>2

LEMMA ConfirmationLinks ==
    ASSUME IdentityInv, LinkInv, NEW r \in Run,
           NEW order \in SetToSeqs({k \in Contact : preview[r][k] # Null})
    PROVE  LET w == Applied(r, order)
           IN Len(people) <= Len(w.people) /\ Linked(w.people, w.source)
  <1> DEFINE c == Len(order)
             Fits(w) == Len(people) <= Len(w.people) /\ Linked(w.people, w.source)
             Good == {n \in Nat : n <= c => Fits(Works(r, order)[n])}
  <1>1. c \in Nat /\ \A n \in 1..c : order[n] \in Contact /\ preview[r][order[n]] # Null
    BY OrderOfRows
  <1>2. /\ Works(r, order)[0] = Work(people, source, decisions, TRUE)
        /\ \A n \in 1..c : Works(r, order)[n] = ApplyRow(Works(r, order)[n - 1], r, order[n])
    BY <1>1, WorksRecursion
  <1>3. 0 \in Good
    BY <1>2 DEF Work, IdentityInv, LinkInv
  <1>4. ASSUME NEW n \in Nat, n \in Good PROVE n + 1 \in Good
    <2> SUFFICES ASSUME n + 1 <= c PROVE Fits(Works(r, order)[n + 1])
      OBVIOUS
    <2> DEFINE w == Works(r, order)[n]
               k == order[n + 1]
    <2>1. n + 1 \in 1..c /\ n <= c /\ (n + 1) - 1 = n
      BY <1>1
    <2>2. Works(r, order)[n + 1] = ApplyRow(w, r, k)
      BY <1>2, <2>1
    <2>3. k \in Contact /\ preview[r][k] # Null
      BY <1>1, <2>1
    <2>4. /\ Previewed(preview[r][k]) /\ people \in Seq(PersonRows)
          /\ preview[r][k].disposition \in {"UPDATE", "LINK"}
               => preview[r][k].candidate \in DOMAIN people
      BY <2>3 DEF IdentityInv, LinkInv
    <2>5. Len(people) <= Len(w.people) /\ Linked(w.people, w.source)
      BY <1>4, <2>1
    <2> HIDE DEF w, k
    <2>6. /\ Len(w.people) <= Len(ApplyRow(w, r, k).people)
          /\ Linked(ApplyRow(w, r, k).people, ApplyRow(w, r, k).source)
      BY <2>3, <2>4, <2>5, RowLinks
    <2>7. /\ Len(people) \in Nat /\ Len(w.people) \in Nat
          /\ Len(ApplyRow(w, r, k).people) \in Nat
      BY <2>4, <2>5, <2>6 DEF Linked
    <2> QED
      BY <2>2, <2>5, <2>6, <2>7
  <1>5. c \in Good
    <2> HIDE DEF Good, c
    <2> QED
      BY <1>1, <1>3, <1>4, ClosedUnderSuccessor
  <1> QED
    BY <1>1, <1>5 DEF Applied

(* What a preview finds by identity or address is there.                       *)
LEMMA CandidatesExist ==
    ASSUME LinkInv, NEW page \in Reported, NEW k \in Contact, page[k] # Null,
           Disposed(page, k).disposition # "CREATE"
    PROVE  Disposed(page, k).candidate \in DOMAIN people
  <1> DEFINE e == page[k].email
  <1>1. Candidates(k, e) # {}
    BY DEF Disposed, Row
  <1>2. PICK p \in Candidates(k, e) : Disposed(page, k).candidate = p
    BY <1>1 DEF Disposed, Row
  <1>3. source[k] \in Seq(EvidenceOf(people))
    BY DEF LinkInv, Linked
  <1>4. \A v \in DOMAIN source[k] : source[k][v] \in EvidenceOf(people)
    BY <1>3
  <1>5. \A v \in DOMAIN source[k] : source[k][v].person \in DOMAIN people
    BY <1>4 DEF EvidenceOf
  <1> QED
    BY <1>2, <1>5 DEF Candidates, PersonByExternalIdentity, PersonByEmail

LEMMA LinksStay ==
    ASSUME IdentityInv, LinkInv, people' \in Seq(PersonRows),
           Len(people) <= Len(people'), Len(people') <= MaxPeople,
           source' = source \/ Linked(people', source'),
           UNCHANGED preview, renames' \in 0..MaxRename
    PROVE  LinkInv'
  <1>1. DOMAIN people \subseteq DOMAIN people'
    BY MorePeople DEF IdentityInv
  <1>2. Linked(people', source')
    <2>1. CASE source' = source
      <3>1. \A k \in Contact : source[k] \in Seq(EvidenceOf(people'))
        BY MorePeople DEF IdentityInv, LinkInv, Linked
      <3> QED
        BY <2>1, <3>1 DEF LinkInv, Linked
    <2> QED
      BY <2>1
  <1> QED
    BY <1>1, <1>2 DEF LinkInv, Linked, EvidenceOf

LEMMA LinkInvStep == IdentityInv /\ LinkInv /\ [IdentityNext]_identityVars => LinkInv'
  <1> SUFFICES ASSUME IdentityInv, LinkInv, [IdentityNext]_identityVars PROVE LinkInv'
    OBVIOUS
  <1>1. people \in Seq(PersonRows) /\ Len(people) \in Nat /\ Len(people) <= MaxPeople
        /\ renames \in 0..MaxRename
    BY DEF IdentityInv, LinkInv
  <1>2. ASSUME NEW r \in Run, FinalizePreview(r) PROVE LinkInv'
    <2>1. PICK page \in Reported :
            preview' = [preview EXCEPT ![r] =
              [k \in Contact |-> IF page[k] = Null THEN Null
                                 ELSE IF Conflicting(page, k) THEN Conflict(page, k)
                                 ELSE Disposed(page, k)]]
      BY <1>2 DEF FinalizePreview
    <2>2. UNCHANGED <<people, source, renames>>
      BY <1>2 DEF FinalizePreview
    <2>3. ASSUME NEW k \in Contact, preview'[r][k] # Null,
                 preview'[r][k].disposition \in {"UPDATE", "LINK"}
          PROVE  preview'[r][k].candidate \in DOMAIN people
      <3>1. page[k] # Null /\ preview'[r][k] \in {Conflict(page, k), Disposed(page, k)}
        BY <2>1, <2>3 DEF IdentityInv
      <3>2. preview'[r][k] = Disposed(page, k)
        BY <2>3, <3>1 DEF Conflict, Row
      <3> QED
        BY <2>3, <3>1, <3>2, CandidatesExist
    <2>4. \A q \in Run : q # r => preview'[q] = preview[q]
      BY <2>1 DEF IdentityInv
    <2> QED
      BY <2>2, <2>3, <2>4 DEF LinkInv, Linked, EvidenceOf
  <1>3. ASSUME NEW r \in Run, ConfirmImport(r) PROVE LinkInv'
    <2>1. PICK order \in SetToSeqs({k \in Contact : preview[r][k] # Null}) :
            /\ Len(Applied(r, order).people) <= MaxPeople
            /\ people' = Applied(r, order).people /\ source' = Applied(r, order).source
      BY <1>3 DEF ConfirmImport
    <2>2. Len(people) <= Len(people') /\ Linked(people', source')
      BY <2>1, ConfirmationLinks
    <2> QED
      BY <1>1, <1>3, <2>1, <2>2, LinksStay DEF ConfirmImport, Linked
  <1>4. ASSUME NEW p \in DOMAIN people, NEW n \in Name, RenamePerson(p, n) PROVE LinkInv'
    <2>1. people[p] \in PersonRows
      BY <1>1
    <2>2. PersonRow(people[p].email, n) \in PersonRows
      BY <2>1 DEF PersonRow, PersonRows
    <2>3. people' \in Seq(PersonRows) /\ Len(people') = Len(people)
      BY <1>1, <1>4, <2>2, ExceptKeeps DEF RenamePerson
    <2>4. renames' \in 0..MaxRename
      BY <1>1, <1>4, IdentityAssumption DEF RenamePerson
    <2> QED
      BY <1>1, <1>4, <2>3, <2>4, LinksStay DEF RenamePerson
  <1>5. ASSUME NEW e \in Email, NEW n \in Name, CreatePerson(e, n) PROVE LinkInv'
    <2>1. PersonRow(e, n) \in PersonRows
      BY DEF PersonRow, PersonRows
    <2>2. people' \in Seq(PersonRows) /\ Len(people') = Len(people) + 1
      BY <1>1, <1>5, <2>1, AppendKeeps DEF CreatePerson
    <2>3. Len(people') <= MaxPeople /\ Len(people) <= Len(people')
      BY <1>1, <1>5, <2>2, IdentityAssumption DEF CreatePerson
    <2> QED
      BY <1>1, <1>5, <2>2, <2>3, LinksStay DEF CreatePerson
  <1>6. CASE UNCHANGED identityVars
    BY <1>6 DEF identityVars, LinkInv, Linked, EvidenceOf
  <1> QED
    BY <1>2, <1>3, <1>4, <1>5, <1>6 DEF IdentityNext

(* Every version of a source record is linked to a person there is, whatever   *)
(* runs were previewed before and confirmed after the person was created.      *)
THEOREM IdentityTypeCorrect == IdentitySpec => []TypeOK
  <1>1. IdentityInit => LinkInv
    BY IdentityAssumption DEF IdentityInit, LinkInv, Linked
  <1>2. IdentityInv /\ LinkInv => TypeOK
    BY DEF IdentityInv, LinkInv, Linked, EvidenceOf, PersonRows, TypeOK
  <1> QED
    BY <1>1, <1>2, InitIdentity, IdentityInvStep, LinkInvStep, PTL DEF IdentitySpec
=============================================================================
