------------------------ MODULE ConnectorImportProofs ------------------------
(***************************************************************************)
(* Proofs about ConnectorImport for any number of requests, server         *)
(* processes, contacts, cursors, attempts and tokens.                      *)
(*                                                                         *)
(* That the pages follow the cursor needs nothing of the event loop: the   *)
(* row has one owner at most, only its owner inserts a page, and while a   *)
(* request owns the row the cursor it read with is the cursor of the row.  *)
(* That a shown preview is frozen needs one server process: the state a    *)
(* request has read when it claims the run must still be the state of the  *)
(* row, or a request that began before the preview would run it again.     *)
(***************************************************************************)
EXTENDS ConnectorImport, FiniteSetTheorems, TLAPS

OneServer == \A p, q \in Process : p = q

Step    == {"idle", "loaded", "begun", "reading", "awaiting", "answered", "rolledBack"}
Working == {"reading", "awaiting", "answered", "rolledBack"}

(***************************************************************************)
(* The inductive invariant                                                 *)
(***************************************************************************)
\* what a request in some step has in hand
InHand(r) ==
  /\ r.at \in Step
  /\ r.at = "answered" => /\ r.answer.contacts \in SUBSET Contact
                          /\ r.answer.next \in Cursor

Shape == /\ turn \in [Process -> Caller \union {None}]
         /\ run.state \in RunState
         /\ call = [c \in Caller |-> call[c]]
         /\ \A c \in Caller : InHand(call[c])
         /\ progress.cursor \in Cursor
         /\ rows \subseteq Contact

\* the row has one owner, which is at work and read with the cursor of the row
OneOwner ==
  /\ \A c, d \in Caller : c \in owners /\ d \in owners => c = d
  /\ \A c \in Caller : c \in owners =>
       /\ call[c].at \in Working
       /\ call[c].at \in {"awaiting", "answered"} => call[c].cursor = progress.cursor

\* the ledger ends where the row stands
LedgerEnds ==
  /\ ledger \in Seq([read : Cursor, before : Cursor, after : Cursor, items : Nat])
  /\ progress.cursor = IF ledger = <<>> THEN 0 ELSE ledger[Len(ledger)].after

PageInv == Shape /\ OneOwner /\ LedgerEnds /\ PagesFollowTheCursor

(***************************************************************************)
(* One request changes its own record                                      *)
(***************************************************************************)
LEMMA CallChanges ==
  ASSUME Shape, NEW c \in Caller, NEW r, InHand(r), call' = [call EXCEPT ![c] = r]
  PROVE  /\ call'[c] = r
         /\ \A d \in Caller : d # c => call'[d] = call[d]
         /\ call' = [d \in Caller |-> call'[d]]
         /\ \A d \in Caller : InHand(call'[d])
<1>1. call = [d \in Caller |-> call[d]]
  BY DEF Shape
<1>2. call' = [d \in Caller |-> IF d = c THEN r ELSE call[d]]
  BY <1>1
<1>3. QED  BY <1>2 DEF Shape

LEMMA TurnChanges ==
  ASSUME Shape, NEW c \in Caller, KeepTurn(c) \/ YieldTurn(c)
  PROVE  turn' \in [Process -> Caller \union {None}]
<1>1. ProcessOf[c] \in Process
  BY RunAssumption
<1>2. QED  BY <1>1 DEF Shape, KeepTurn, YieldTurn

\* a request that goes on to a step in which it holds no answer
LEMMA Moves ==
  ASSUME Shape, NEW c \in Caller, NEW at \in Step \ {"answered"}, NEW r,
         r.at = at, call' = [call EXCEPT ![c] = r],
         KeepTurn(c) \/ YieldTurn(c), run'.state \in RunState,
         UNCHANGED <<progress, rows>>
  PROVE  Shape' /\ call'[c] = r /\ \A d \in Caller : d # c => call'[d] = call[d]
<1>1. InHand(r)
  BY DEF InHand
<1>2. QED  BY <1>1, CallChanges, TurnChanges DEF Shape

LEMMA RowStates ==
  ASSUME run.state \in RunState
  PROVE  /\ \A s \in RunState : Recorded(s).state \in RunState
         /\ RowAfterRefusal.state \in RunState /\ RowAfterClaim.state = "RUNNING"
         /\ MarkAttemptBudgetExhausted.state = "FAILED_TERMINAL"
         /\ \A s \in RunState : Written(s, run.attempts).state = s /\ Recorded(s).state = s
BY DEF Recorded, Written, RunRow, RowAfterRefusal, RowAfterClaim, Interrupted,
       MarkAttemptBudgetExhausted, RunState

(***************************************************************************)
(* The steps that leave the pages alone keep PageInv                       *)
(***************************************************************************)
LEMMA Keeps ==
  ASSUME PageInv, Shape', UNCHANGED <<progress, rows, ledger>>,
         \A c \in Caller : c \in owners' =>
           /\ \A d \in owners' \intersect Caller : d = c
           /\ call'[c].at \in Working
           /\ call'[c].at \in {"awaiting", "answered"} => call'[c].cursor = progress.cursor
  PROVE  PageInv'
BY DEF PageInv, OneOwner, LedgerEnds, PagesFollowTheCursor

LEMMA OwnersKeep ==
  ASSUME PageInv, Shape', UNCHANGED <<progress, rows, ledger>>,
         \A c \in Caller : c \in owners' => c \in owners /\ call'[c] = call[c]
  PROVE  PageInv'
BY Keeps DEF PageInv, OneOwner

LEMMA Stops ==
  ASSUME PageInv, NEW c \in Caller, NEW row, row.state \in RunState, Stop(c, row),
         UNCHANGED <<progress, rows, ledger>>
  PROVE  PageInv'
<1>1. /\ call' = [call EXCEPT ![c] = Idle] /\ YieldTurn(c) /\ run' = row
      /\ owners' \subseteq owners \ {c}
  BY DEF Stop, Return
<1>2. Idle.at = "idle" /\ "idle" \in Step \ {"answered"}
  BY DEF Idle, CallRecord, Step
<1>3. Shape' /\ \A d \in Caller : d # c => call'[d] = call[d]
  BY <1>1, <1>2, Moves DEF PageInv
<1>4. QED  BY <1>1, <1>3, OwnersKeep

LEMMA Goes ==
  ASSUME PageInv, NEW c \in Caller, NEW at \in {"reading", "rolledBack"}, Goto(c, at),
         run'.state \in RunState, owners' \subseteq owners \/ owners' = {c},
         UNCHANGED <<progress, rows, ledger>>
  PROVE  PageInv'
<1> DEFINE r == CallRecord(at, call[c].version, "ABSENT", 0, 0, NoAnswer)
<1>1. call' = [call EXCEPT ![c] = r] /\ KeepTurn(c)
  BY DEF Goto
<1>2. r.at = at /\ at \in Step \ {"answered"} /\ at \in Working
  BY DEF CallRecord, Step, Working
<1> HIDE DEF r
<1>3. Shape' /\ call'[c] = r /\ \A d \in Caller : d # c => call'[d] = call[d]
  BY <1>1, <1>2, Moves DEF PageInv
<1>4. ASSUME NEW d \in Caller, d \in owners'
      PROVE  /\ \A e \in owners' \intersect Caller : e = d
             /\ call'[d].at \in Working
             /\ call'[d].at \in {"awaiting", "answered"} => call'[d].cursor = progress.cursor
  BY <1>2, <1>3, <1>4 DEF PageInv, OneOwner
<1>5. QED  BY <1>3, <1>4, Keeps

(***************************************************************************)
(* A page                                                                  *)
(***************************************************************************)
LEMMA PageInserted ==
  ASSUME PageInv, NEW c \in Caller, c \in owners, call[c].at = "answered",
         ~Repeats(call[c].answer), SettlePage(c), InsertPage(c, call[c].answer)
  PROVE  PageInv'
<1> DEFINE a == call[c].answer
           read == PageRead(call[c].cursor, progress.cursor, a.next, Cardinality(a.contacts))
           n == Len(ledger)
<1>1. a.contacts \subseteq Contact /\ a.next \in Cursor /\ a.contacts \intersect rows = {}
  BY DEF PageInv, Shape, InHand, Repeats
<1>2. /\ IsFiniteSet(a.contacts) /\ IsFiniteSet(rows)
      /\ Cardinality(a.contacts) \in Nat /\ Cardinality(rows) \in Nat
  BY <1>1, ImportAssumption, FS_Subset, FS_CardinalityType DEF PageInv, Shape
<1>3. /\ rows' = rows \union a.contacts
      /\ progress' = Progress(a.next, progress.pages + 1, progress.items + Cardinality(a.contacts))
      /\ ledger' = Append(ledger, read)
  BY DEF InsertPage
<1>4. Cardinality(rows') = Cardinality(rows) + Cardinality(a.contacts)
  <2>1. Cardinality(rows \intersect a.contacts) = 0
    <3>1. rows \intersect a.contacts = {}
      BY <1>1
    <3>2. QED  BY <3>1, FS_EmptySet
  <2>2. Cardinality(rows \union a.contacts)
          = Cardinality(rows) + Cardinality(a.contacts) - Cardinality(rows \intersect a.contacts)
    BY <1>2, FS_Union
  <2> DEFINE u == Cardinality(rows)
             v == Cardinality(a.contacts)
             w == Cardinality(rows \intersect a.contacts)
  <2>3. u \in Nat /\ v \in Nat /\ w = 0 /\ Cardinality(rows \union a.contacts) = u + v - w
    BY <1>2, <2>1, <2>2
  <2> HIDE DEF a, u, v, w
  <2>4. Cardinality(rows \union a.contacts) = u + v
    BY <2>3
  <2>5. QED  BY <1>3, <2>4 DEF u, v
<1>5. /\ call[c].cursor = progress.cursor /\ progress.cursor \in Cursor
      /\ progress.cursor = IF ledger = <<>> THEN 0 ELSE ledger[n].after
      /\ progress.pages = n /\ progress.items = Cardinality(rows)
      /\ \A d \in Caller : d \in owners => d = c
  BY DEF PageInv, OneOwner, Shape, LedgerEnds, PagesFollowTheCursor
<1>6. /\ read \in [read : Cursor, before : Cursor, after : Cursor, items : Nat]
      /\ read.read = read.before /\ read.before = progress.cursor /\ read.after = a.next
  BY <1>1, <1>2, <1>5 DEF PageRead
<1>7. /\ progress'.cursor = a.next /\ progress'.pages = n + 1
      /\ progress'.items = Cardinality(rows')
  BY <1>3, <1>4, <1>5 DEF Progress
<1>8. ledger \in Seq([read : Cursor, before : Cursor, after : Cursor, items : Nat])
  BY DEF PageInv, LedgerEnds
<1> HIDE DEF read, a
<1>9. /\ Len(ledger') = n + 1 /\ n \in Nat /\ ledger'[n + 1] = read
      /\ \A i \in 1..n : ledger'[i] = ledger[i]
      /\ ledger' \in Seq([read : Cursor, before : Cursor, after : Cursor, items : Nat])
  BY <1>3, <1>6, <1>8
<1>10. LedgerEnds'
  <2>1. ledger' # <<>>
    BY <1>9
  <2>2. QED  BY <1>6, <1>7, <1>9, <2>1 DEF LedgerEnds
<1>11. PagesFollowTheCursor'
  <2>1. ASSUME NEW i \in 1..(n + 1)
        PROVE  /\ ledger'[i].read = ledger'[i].before
               /\ ledger'[i].before = IF i = 1 THEN 0 ELSE ledger'[i - 1].after
    <3>1. CASE i = n + 1
      <4>1. ledger = <<>> <=> n = 0
        BY <1>8, <1>9
      <4>2. n # 0 => ledger'[n] = ledger[n]
        BY <1>9
      <4>3. QED  BY <1>5, <1>6, <1>9, <3>1, <4>1, <4>2
    <3>2. CASE i \in 1..n
      <4>1. /\ ledger[i].read = ledger[i].before
            /\ ledger[i].before = IF i = 1 THEN 0 ELSE ledger[i - 1].after
        BY <3>2 DEF PageInv, PagesFollowTheCursor
      <4>2. i # 1 => i - 1 \in 1..n
        BY <1>9, <3>2
      <4>3. QED  BY <1>9, <3>2, <4>1, <4>2
    <3>3. QED  BY <1>9, <3>1, <3>2
  <2>2. QED  BY <1>7, <1>9, <2>1 DEF PagesFollowTheCursor
<1>12. /\ run'.state \in RunState
       /\ \E r : /\ r.at \in {"idle", "reading"} /\ call' = [call EXCEPT ![c] = r]
                 /\ r.at = "idle" => \A d \in Caller : d \notin owners'
                 /\ r.at = "reading" => owners' = {c}
       /\ KeepTurn(c) \/ YieldTurn(c)
  <2>1. run.state \in RunState
    BY DEF PageInv, Shape
  <2>2. CASE a.next = 0
    <3>1. Stop(c, Recorded("PREVIEW_READY"))
      BY <2>2 DEF InsertPage, a
    <3>2. Idle.at = "idle" /\ "PREVIEW_READY" \in RunState
      BY DEF Idle, CallRecord, RunState
    <3>3. QED  BY <1>5, <2>1, <3>1, <3>2, RowStates DEF Stop, Return
  <2>3. CASE a.next # 0
    <3>1. run' = Recorded("RUNNING") /\ owners' = {c} /\ Goto(c, "reading")
      BY <2>3 DEF InsertPage, a
    <3>2. CallRecord("reading", call[c].version, "ABSENT", 0, 0, NoAnswer).at = "reading"
          /\ "RUNNING" \in RunState
      BY DEF CallRecord, RunState
    <3>3. QED  BY <2>1, <3>1, <3>2, RowStates DEF Goto
  <2>4. QED  BY <2>2, <2>3
<1>13. PICK r : /\ r.at \in {"idle", "reading"} /\ call' = [call EXCEPT ![c] = r]
                /\ r.at = "idle" => \A d \in Caller : d \notin owners'
                /\ r.at = "reading" => owners' = {c}
  BY <1>12
<1>14. /\ call'[c] = r /\ call' = [d \in Caller |-> call'[d]]
       /\ \A d \in Caller : InHand(call'[d])
  <2>1. InHand(r)
    BY <1>13 DEF InHand, Step
  <2>2. QED  BY <1>13, <2>1, CallChanges DEF PageInv
<1>15. Shape'
  <2>1. turn' \in [Process -> Caller \union {None}]
    BY <1>12, TurnChanges DEF PageInv
  <2>2. rows' \subseteq Contact
    BY <1>1, <1>3 DEF PageInv, Shape
  <2>3. QED  BY <1>1, <1>7, <1>12, <1>14, <2>1, <2>2 DEF Shape
<1>16. OneOwner'
  BY <1>13, <1>14 DEF OneOwner, Working
<1>17. QED  BY <1>10, <1>11, <1>15, <1>16 DEF PageInv

(***************************************************************************)
(* Every step                                                              *)
(***************************************************************************)
LEMMA PageInit == Init => PageInv
<1> SUFFICES ASSUME Init PROVE PageInv
  OBVIOUS
<1>1. Shape
  BY ImportAssumption
     DEF Init, RunInit, Unborn, RunRow, RunState, Progress, Idle, CallRecord, Shape, InHand,
         Step, Cursor
<1>2. OneOwner /\ LedgerEnds
  BY DEF Init, RunInit, OneOwner, LedgerEnds, Progress
<1>3. PagesFollowTheCursor
  BY FS_EmptySet DEF Init, PagesFollowTheCursor, Progress
<1>4. QED  BY <1>1, <1>2, <1>3 DEF PageInv

LEMMA SettleKeeps ==
  ASSUME PageInv, NEW c \in Caller, SettlePage(c)
  PROVE  PageInv'
<1>1. run.state \in RunState
  BY DEF PageInv, Shape
<1>2. \A s \in {"FAILED_TERMINAL", "UNKNOWN", FailureState(call[c].answer)} :
        s \in RunState /\ Recorded(s).state \in RunState
  BY <1>1, RowStates DEF RunState, FailureState
<1>3. \/ \E row : row.state \in RunState /\ Stop(c, row) /\ UNCHANGED preview
      \/ Goto(c, "rolledBack") /\ UNCHANGED <<run, owners, preview>>
      \/ /\ c \in owners /\ call[c].at = "answered" /\ ~Repeats(call[c].answer)
         /\ InsertPage(c, call[c].answer)
  BY <1>1, <1>2 DEF SettlePage, OwnsRun, Insertable
<1>4. QED  BY <1>1, <1>3, Stops, Goes, PageInserted DEF preview

LEMMA PageNext == PageInv /\ [Next]_vars => PageInv'
<1> SUFFICES ASSUME PageInv, [Next]_vars PROVE PageInv'
  OBVIOUS
<1>0. Shape /\ run.state \in RunState
  BY DEF PageInv, Shape
<1>1. ASSUME NEW c \in Caller, Load(c) PROVE PageInv'
  <2> DEFINE r == CallRecord("loaded", connection.version, "ABSENT", 0, 0, NoAnswer)
  <2>1. /\ call' = [call EXCEPT ![c] = r] /\ KeepTurn(c) /\ call[c].at = "idle"
        /\ UNCHANGED <<run, owners, progress, rows, ledger>>
    BY <1>1 DEF Load, preview
  <2>2. r.at = "loaded" /\ "loaded" \in Step \ {"answered"}
    BY DEF CallRecord, Step
  <2> HIDE DEF r
  <2>3. Shape' /\ \A d \in Caller : d # c => call'[d] = call[d]
    BY <1>0, <2>1, <2>2, Moves
  <2>4. c \notin owners
    BY <2>1 DEF PageInv, OneOwner, Working
  <2>5. QED  BY <2>1, <2>3, <2>4, OwnersKeep
<1>2. ASSUME NEW c \in Caller, Begin(c) PROVE PageInv'
  <2> DEFINE b == CallRecord("begun", call[c].version, run.state, 0, 0, NoAnswer)
  <2>0. b.at = "begun" /\ Idle.at = "idle"
    BY DEF Idle, CallRecord
  <2>1. /\ \/ call' = [call EXCEPT ![c] = Idle] /\ YieldTurn(c)
           \/ call' = [call EXCEPT ![c] = b] /\ KeepTurn(c)
        /\ UNCHANGED <<owners, progress, rows, ledger>>
    BY <1>2 DEF Begin, Return, preview
  <2> HIDE DEF b
  <2>2. PICK r : r.at \in {"idle", "begun"} /\ call' = [call EXCEPT ![c] = r]
    BY <2>0, <2>1
  <2>3. run'.state \in RunState
    <3>1. CASE UNCHANGED run
      BY <1>0, <3>1
    <3>2. CASE BeginRun(call[c].version, None)
      BY <1>0, <3>2 DEF BeginRun, Written, RunRow, RunState
    <3>3. QED  BY <1>2, <3>1, <3>2 DEF Begin
  <2>4. r.at \in Step \ {"answered"}
    BY <2>2 DEF Step
  <2>5. Shape' /\ \A d \in Caller : d # c => call'[d] = call[d]
    BY <1>0, <2>1, <2>2, <2>3, <2>4, Moves
  <2>6. c \notin owners
    BY <1>2 DEF Begin, PageInv, OneOwner, Working
  <2>7. QED  BY <2>1, <2>5, <2>6, OwnersKeep
<1>3. ASSUME NEW c \in Caller, Claim(c) PROVE PageInv'
  <2>1. \/ \E row : row.state \in RunState /\ Stop(c, row) /\ UNCHANGED preview
        \/ run' = RowAfterClaim /\ owners' = {c} /\ Goto(c, "reading") /\ UNCHANGED preview
    BY <1>0, <1>3, RowStates DEF Claim
  <2>2. RowAfterClaim.state \in RunState
    BY <1>0, RowStates DEF RunState
  <2>3. QED  BY <2>1, <2>2, Stops, Goes DEF preview
<1>4. ASSUME NEW c \in Caller, ReadContacts(c) PROVE PageInv'
  <2>1. "FAILED_TERMINAL" \in RunState /\ "UNKNOWN" \in RunState
    BY DEF RunState
  <2>2. \/ \E row : row.state \in RunState /\ Stop(c, row) /\ UNCHANGED preview
        \/ /\ call' = [call EXCEPT ![c] =
                CallRecord("awaiting", call[c].version, "ABSENT", progress.cursor, Room, NoAnswer)]
           /\ YieldTurn(c) /\ UNCHANGED <<run, owners, preview>>
    BY <1>0, <1>4, <2>1, RowStates DEF ReadContacts
  <2>3. CASE \E row : row.state \in RunState /\ Stop(c, row) /\ UNCHANGED preview
    BY <2>3, Stops DEF preview
  <2>4. ASSUME NEW r, r.at = "awaiting", r.cursor = progress.cursor,
               call' = [call EXCEPT ![c] = r],
               YieldTurn(c), UNCHANGED <<run, owners, progress, rows, ledger>>
        PROVE  PageInv'
    <3>1. "awaiting" \in Step \ {"answered"} /\ "awaiting" \in Working
      BY DEF Step, Working
    <3>2. Shape' /\ call'[c] = r /\ \A d \in Caller : d # c => call'[d] = call[d]
      BY <1>0, <2>4, <3>1, Moves
    <3>3. ASSUME NEW d \in Caller, d \in owners'
          PROVE  /\ \A e \in owners' \intersect Caller : e = d
                 /\ call'[d].at \in Working
                 /\ call'[d].at \in {"awaiting", "answered"} => call'[d].cursor = progress.cursor
      BY <2>4, <3>1, <3>2, <3>3 DEF PageInv, OneOwner
    <3>4. QED  BY <2>4, <3>2, <3>3, Keeps
  <2>5. QED  BY <2>2, <2>3, <2>4 DEF CallRecord, preview
<1>5. ASSUME NEW c \in Caller, ProviderAnswers(c) PROVE PageInv'
  <2>1. PICK a \in Page(call[c].room) \union Failure :
          call' = [call EXCEPT ![c] =
            CallRecord("answered", call[c].version, "ABSENT", call[c].cursor, 0, a)]
    BY <1>5 DEF ProviderAnswers
  <2> DEFINE r == CallRecord("answered", call[c].version, "ABSENT", call[c].cursor, 0, a)
  <2>2. a.contacts \in SUBSET Contact /\ a.next \in Cursor
    BY ImportAssumption DEF Page, Failure, Cursor
  <2>3. InHand(r) /\ r.at = "answered" /\ r.cursor = call[c].cursor
    BY <2>2 DEF CallRecord, InHand, Step
  <2> HIDE DEF r
  <2>4. /\ call'[c] = r /\ \A d \in Caller : d # c => call'[d] = call[d]
        /\ call' = [d \in Caller |-> call'[d]]
        /\ \A d \in Caller : InHand(call'[d])
    BY <1>0, <2>1, <2>3, CallChanges DEF r
  <2>5. /\ call[c].at = "awaiting"
        /\ UNCHANGED <<turn, run, owners, progress, rows, ledger>>
    BY <1>5 DEF ProviderAnswers, preview
  <2>6. Shape'
    BY <2>4, <2>5, <1>0 DEF Shape
  <2>7. ASSUME NEW d \in Caller, d \in owners'
        PROVE  /\ \A e \in owners' \intersect Caller : e = d
               /\ call'[d].at \in Working
               /\ call'[d].at \in {"awaiting", "answered"} => call'[d].cursor = progress.cursor
    BY <2>3, <2>4, <2>5, <2>7 DEF PageInv, OneOwner, Working
  <2>8. QED  BY <2>5, <2>6, <2>7, Keeps
<1>6. ASSUME NEW c \in Caller, SettlePage(c) PROVE PageInv'
  BY <1>6, SettleKeeps
<1>7. ASSUME NEW c \in Caller, MarkPersistenceFailed(c) PROVE PageInv'
  <2>1. "FAILED_TERMINAL" \in RunState
    BY DEF RunState
  <2>2. QED  BY <1>0, <1>7, <2>1, RowStates, Stops DEF MarkPersistenceFailed, preview
<1>8. ASSUME UNCHANGED <<turn, call, progress, rows, ledger>>, run'.state \in RunState,
             owners' \subseteq owners
      PROVE  PageInv'
  <2>1. Shape'
    BY <1>0, <1>8 DEF Shape
  <2>2. QED  BY <1>8, <2>1, OwnersKeep
<1>9. CASE IssueConfirmation
  BY <1>0, <1>8, <1>9 DEF IssueConfirmation, preview
<1>10. ASSUME NEW n \in 1..MaxToken, ConfirmImport(n) PROVE PageInv'
  <2>1. run'.state = "SUCCEEDED" /\ "SUCCEEDED" \in RunState
    BY <1>10 DEF ConfirmImport, Written, RunRow, RunState
  <2>2. QED  BY <1>8, <1>10, <2>1 DEF ConfirmImport, preview
<1>11. CASE TokenExpires
  BY <1>0, <1>8, <1>11 DEF TokenExpires, preview
<1>12. ASSUME NEW p \in Process, Crash(p) PROVE PageInv'
  <2>1. /\ call' = [c \in Caller |-> IF ProcessOf[c] = p THEN Idle ELSE call[c]]
        /\ turn' = [turn EXCEPT ![p] = None]
        /\ owners' = {c \in owners : ProcessOf[c] # p}
        /\ UNCHANGED <<run, progress, rows, ledger>>
    BY <1>12 DEF Crash, preview
  <2>2. InHand(Idle)
    BY DEF Idle, CallRecord, InHand, Step
  <2>3. Shape'
    BY <1>0, <2>1, <2>2 DEF Shape
  <2>4. QED  BY <2>1, <2>3, OwnersKeep
<1>13. CASE ConnectionChanges
  BY <1>0, <1>8, <1>13 DEF ConnectionChanges, preview
<1>14. CASE TimePasses
  BY <1>0, <1>8, <1>14 DEF TimePasses, LeaseExpires, RunRow, preview
<1>15. CASE UNCHANGED vars
  BY <1>0, <1>8, <1>15 DEF vars
<1>16. QED
  BY <1>1, <1>2, <1>3, <1>4, <1>5, <1>6, <1>7, <1>9, <1>10, <1>11, <1>12, <1>13, <1>14, <1>15
  DEF Next, CallStep

\* However often a run changes hands among requests and processes, every page was
\* asked for with the cursor that the page before it returned, and the rows are the
\* pages without loss or repetition (readContacts, insertPreviewPage).
THEOREM PagesAlwaysFollowTheCursor == Spec => []PagesFollowTheCursor
<1>1. PageInv => PagesFollowTheCursor
  BY DEF PageInv
<1>2. QED  BY <1>1, PageInit, PageNext, PTL DEF Spec

(***************************************************************************)
(* The frozen preview, on one server process                               *)
(***************************************************************************)
Held  == {"loaded", "begun", "reading", "rolledBack"}
Final == {"PREVIEW_READY", "SUCCEEDED"}

\* a request between two of its own transactions keeps the event loop
LoopHeld == \A c \in Caller : call[c].at \in Held => turn[ProcessOf[c]] = c

\* so the state it read before the claim is still the state of the row
DecidedOnRow ==
  \A c \in Caller : call[c].at = "begun" =>
    run.state = IF call[c].seen = "ABSENT" THEN "CREATED" ELSE call[c].seen

\* a preview that was shown is waiting for its confirmation or confirmed
ShownIsFinal ==
  /\ issued \in 0..MaxToken
  /\ shown = [n \in 1..MaxToken |-> shown[n]]
  /\ issued > 0 => run.state \in Final

FrozenInv == LoopHeld /\ DecidedOnRow /\ ShownIsFinal /\ PreviewIsFrozenOnceShown

LEMMA Alone ==
  ASSUME OneServer, Shape, LoopHeld, NEW p \in Process, NEW x, turn[p] = None \/ turn[p] = x,
         NEW d \in Caller, call[d].at \in Held
  PROVE  d = x
<1>1. ProcessOf[d] \in Process
  BY RunAssumption
<1>2. ProcessOf[d] = p
  BY <1>1 DEF OneServer
<1>3. turn[p] = d /\ d # None
  BY <1>2, RunAssumption DEF LoopHeld
<1>4. QED  BY <1>3

\* what a step of a request may do to the tokens
ShowsAtMostOnce ==
  \/ UNCHANGED <<rows, issued, shown>> /\ (issued = 0 \/ run'.state = run.state)
  \/ UNCHANGED <<issued, shown>> /\ issued = 0
  \/ /\ issued = 0 /\ issued < MaxToken /\ run'.state = "PREVIEW_READY"
     /\ issued' = issued + 1 /\ shown' = [shown EXCEPT ![issued + 1] = rows']

LEMMA ShownKept ==
  ASSUME ShownIsFinal, PreviewIsFrozenOnceShown, ShowsAtMostOnce
  PROVE  ShownIsFinal' /\ PreviewIsFrozenOnceShown'
<1>0. issued \in Nat /\ MaxToken \in Nat
  BY ImportAssumption DEF ShownIsFinal
<1>1. CASE UNCHANGED <<rows, issued, shown>> /\ (issued = 0 \/ run'.state = run.state)
  BY <1>0, <1>1 DEF ShownIsFinal, PreviewIsFrozenOnceShown
<1>2. CASE UNCHANGED <<issued, shown>> /\ issued = 0
  BY <1>0, <1>2 DEF ShownIsFinal, PreviewIsFrozenOnceShown
<1>3. CASE /\ issued = 0 /\ issued < MaxToken /\ run'.state = "PREVIEW_READY"
           /\ issued' = issued + 1 /\ shown' = [shown EXCEPT ![issued + 1] = rows']
  <2>1. shown = [n \in 1..MaxToken |-> shown[n]]
    BY DEF ShownIsFinal
  <2>2. 1 \in 1..MaxToken /\ issued' = 1 /\ shown' = [shown EXCEPT ![1] = rows']
    BY <1>0, <1>3
  <2>3. shown'[1] = rows' /\ shown' = [n \in 1..MaxToken |-> shown'[n]]
    BY <2>1, <2>2
  <2>4. QED  BY <1>0, <1>3, <2>2, <2>3 DEF ShownIsFinal, PreviewIsFrozenOnceShown, Final
<1>4. QED  BY <1>1, <1>2, <1>3 DEF ShowsAtMostOnce

\* a step of one request, which has the loop
LEMMA RequestKeepsFrozen ==
  ASSUME OneServer, Shape, FrozenInv, NEW c \in Caller, OnTurn(c), NEW r,
         call' = [call EXCEPT ![c] = r],
         KeepTurn(c) \/ (YieldTurn(c) /\ r.at \notin Held),
         r.at = "begun" => run'.state = IF r.seen = "ABSENT" THEN "CREATED" ELSE r.seen,
         ShowsAtMostOnce
  PROVE  FrozenInv'
<1>1. call'[c] = r /\ \A d \in Caller : d # c => call'[d] = call[d]
  BY DEF Shape
<1>2. ProcessOf[c] \in Process /\ turn \in [Process -> Caller \union {None}]
  BY RunAssumption DEF Shape
<1>3. \A d \in Caller : d # c => call'[d].at \notin Held
  <2>1. turn[ProcessOf[c]] = None \/ turn[ProcessOf[c]] = c
    BY DEF OnTurn
  <2>2. ASSUME NEW p \in Process, turn[p] = None \/ turn[p] = c, NEW d \in Caller, call[d].at \in Held
        PROVE  d = c
    BY <2>2, Alone DEF FrozenInv
  <2>3. QED  BY <1>1, <1>2, <2>1, <2>2
<1>4. KeepTurn(c) => turn'[ProcessOf[c]] = c
  BY <1>2 DEF KeepTurn
<1>5. LoopHeld'
  BY <1>1, <1>3, <1>4 DEF LoopHeld
<1>6. DecidedOnRow'
  BY <1>1, <1>3 DEF DecidedOnRow, Held
<1>7. QED  BY <1>5, <1>6, ShownKept DEF FrozenInv

LEMMA StopKeepsFrozen ==
  ASSUME OneServer, Shape, FrozenInv, NEW c \in Caller, OnTurn(c), NEW row, Stop(c, row),
         run' = row => ShowsAtMostOnce
  PROVE  FrozenInv'
<1>1. call' = [call EXCEPT ![c] = Idle] /\ YieldTurn(c) /\ run' = row
  BY DEF Stop, Return
<1>2. Idle.at = "idle" /\ "idle" \notin Held
  BY DEF Idle, CallRecord, Held
<1>3. QED  BY <1>1, <1>2, RequestKeepsFrozen

LEMMA GotoKeepsFrozen ==
  ASSUME OneServer, Shape, FrozenInv, NEW c \in Caller, OnTurn(c),
         NEW at \in {"reading", "rolledBack"}, Goto(c, at), ShowsAtMostOnce
  PROVE  FrozenInv'
<1> DEFINE r == CallRecord(at, call[c].version, "ABSENT", 0, 0, NoAnswer)
<1>1. call' = [call EXCEPT ![c] = r] /\ KeepTurn(c)
  BY DEF Goto
<1>2. r.at # "begun"
  BY DEF CallRecord
<1> HIDE DEF r
<1>3. QED  BY <1>1, <1>2, RequestKeepsFrozen

\* nothing resumes a preview that was shown
LEMMA ClaimsNoPreview ==
  ASSUME FrozenInv, NEW c \in Caller, call[c].at = "begun", Resumable(call[c].seen)
  PROVE  issued = 0
<1>1. run.state \notin Final
  BY DEF FrozenInv, DecidedOnRow, Resumable, Final
<1>2. QED  BY <1>1 DEF FrozenInv, ShownIsFinal

LEMMA WorksOnNoPreview ==
  ASSUME FrozenInv, NEW c \in Caller, OwnsRun(c)
  PROVE  issued = 0
BY DEF FrozenInv, ShownIsFinal, OwnsRun, Final

LEMMA FrozenNext == ASSUME OneServer
                    PROVE  Shape /\ FrozenInv /\ [Next]_vars => FrozenInv'
<1> SUFFICES ASSUME Shape, FrozenInv, [Next]_vars PROVE FrozenInv'
  OBVIOUS
<1> USE DEF confirmation, preview
<1>1. ASSUME NEW c \in Caller, Load(c) PROVE FrozenInv'
  <2> DEFINE r == CallRecord("loaded", connection.version, "ABSENT", 0, 0, NoAnswer)
  <2>1. call' = [call EXCEPT ![c] = r] /\ KeepTurn(c) /\ OnTurn(c) /\ ShowsAtMostOnce
    BY <1>1 DEF Load, ShowsAtMostOnce
  <2>2. r.at # "begun"
    BY DEF CallRecord
  <2> HIDE DEF r
  <2>3. QED  BY <2>1, <2>2, RequestKeepsFrozen
<1>2. ASSUME NEW c \in Caller, Begin(c) PROVE FrozenInv'
  <2> DEFINE b == CallRecord("begun", call[c].version, run.state, 0, 0, NoAnswer)
  <2>1. /\ OnTurn(c)
        /\ \/ call' = [call EXCEPT ![c] = Idle] /\ YieldTurn(c) /\ UNCHANGED run
           \/ /\ call' = [call EXCEPT ![c] = b] /\ KeepTurn(c)
              /\ BeginRun(call[c].version, None)
        /\ UNCHANGED <<rows, issued, shown>>
    BY <1>2 DEF Begin, Return
  <2>2. Idle.at = "idle" /\ "idle" \notin Held
    BY DEF Idle, CallRecord, Held
  <2>3. b.at = "begun" /\ b.seen = run.state
    BY DEF CallRecord
  <2>4. BeginRun(call[c].version, None) =>
          /\ run'.state = IF run.state = "ABSENT" THEN "CREATED" ELSE run.state
          /\ issued = 0 \/ run'.state = run.state
    BY DEF BeginRun, RunRow, FrozenInv, ShownIsFinal, Final
  <2>5. ShowsAtMostOnce
    BY <2>1, <2>4 DEF ShowsAtMostOnce
  <2> HIDE DEF b
  <2>6. QED  BY <2>1, <2>2, <2>3, <2>4, <2>5, RequestKeepsFrozen
<1>3. ASSUME NEW c \in Caller, Claim(c) PROVE FrozenInv'
  <2>1. /\ OnTurn(c) /\ call[c].at = "begun"
        /\ \/ Stop(c, run)
           \/ Resumable(call[c].seen) /\ Stop(c, RowAfterRefusal)
           \/ Resumable(call[c].seen) /\ Goto(c, "reading")
        /\ UNCHANGED <<rows, issued, shown>>
    BY <1>3 DEF Claim
  <2>2. Stop(c, run) \/ issued = 0
    BY <2>1, ClaimsNoPreview
  <2>3. ShowsAtMostOnce
    BY <2>1, <2>2 DEF ShowsAtMostOnce, Stop
  <2>4. QED  BY <2>1, <2>3, StopKeepsFrozen, GotoKeepsFrozen
<1>4. ASSUME NEW c \in Caller, ReadContacts(c) PROVE FrozenInv'
  <2> DEFINE r == CallRecord("awaiting", call[c].version, "ABSENT", progress.cursor, Room, NoAnswer)
  <2>1. /\ OnTurn(c) /\ UNCHANGED <<rows, issued, shown>>
        /\ \/ \E row : Stop(c, row) /\ (OwnsRun(c) \/ row = run)
           \/ call' = [call EXCEPT ![c] = r] /\ YieldTurn(c) /\ UNCHANGED run
    BY <1>4 DEF ReadContacts
  <2>2. ShowsAtMostOnce
    BY <2>1, WorksOnNoPreview DEF ShowsAtMostOnce, Stop
  <2>3. r.at = "awaiting" /\ "awaiting" \notin Held
    BY DEF CallRecord, Held
  <2> HIDE DEF r
  <2>4. QED  BY <2>1, <2>2, <2>3, StopKeepsFrozen, RequestKeepsFrozen
<1>5. ASSUME NEW c \in Caller, ProviderAnswers(c) PROVE FrozenInv'
  <2>1. PICK a :
          call' = [call EXCEPT ![c] =
            CallRecord("answered", call[c].version, "ABSENT", call[c].cursor, 0, a)]
    BY <1>5 DEF ProviderAnswers
  <2>2. call'[c].at = "answered" /\ \A d \in Caller : d # c => call'[d] = call[d]
    BY <2>1 DEF CallRecord, Shape
  <2>3. UNCHANGED <<turn, run, rows, issued, shown>>
    BY <1>5 DEF ProviderAnswers
  <2>4. \A d \in Caller : call'[d].at \in Held => call'[d] = call[d]
    BY <2>2 DEF Held
  <2>5. LoopHeld' /\ DecidedOnRow'
    BY <2>3, <2>4 DEF FrozenInv, LoopHeld, DecidedOnRow, Held
  <2>6. QED  BY <2>3, <2>5, ShownKept DEF FrozenInv, ShowsAtMostOnce
<1>6. ASSUME NEW c \in Caller, SettlePage(c) PROVE FrozenInv'
  <2>1. OnTurn(c)
    BY <1>6 DEF SettlePage
  <2>2. \/ \E row : /\ Stop(c, row) /\ (OwnsRun(c) \/ row = run)
                    /\ UNCHANGED <<rows, issued, shown>>
        \/ /\ Goto(c, "rolledBack") /\ UNCHANGED <<run, rows, issued, shown>>
        \/ OwnsRun(c) /\ InsertPage(c, call[c].answer)
    BY <1>6 DEF SettlePage
  <2>3. CASE \E row : /\ Stop(c, row) /\ (OwnsRun(c) \/ row = run)
                      /\ UNCHANGED <<rows, issued, shown>>
    BY <2>1, <2>3, WorksOnNoPreview, StopKeepsFrozen DEF ShowsAtMostOnce
  <2>4. CASE Goto(c, "rolledBack") /\ UNCHANGED <<run, rows, issued, shown>>
    BY <2>1, <2>4, GotoKeepsFrozen DEF ShowsAtMostOnce
  <2>5. CASE OwnsRun(c) /\ InsertPage(c, call[c].answer)
    <3>1. issued = 0
      BY <2>5, WorksOnNoPreview
    <3>2. \/ FinalizePreview /\ Stop(c, Recorded("PREVIEW_READY"))
          \/ Goto(c, "reading") /\ UNCHANGED <<issued, shown>>
      BY <2>5 DEF InsertPage
    <3>3. Recorded("PREVIEW_READY").state = "PREVIEW_READY"
      BY DEF Recorded, Written, RunRow
    <3>4. CASE FinalizePreview /\ Stop(c, Recorded("PREVIEW_READY"))
      <4>1. run'.state = "PREVIEW_READY"
        BY <3>3, <3>4 DEF Stop
      <4>2. ShowsAtMostOnce
        BY <3>1, <3>4, <4>1 DEF FinalizePreview, ShowsAtMostOnce
      <4>3. QED  BY <2>1, <3>4, <4>2, StopKeepsFrozen
    <3>5. CASE Goto(c, "reading") /\ UNCHANGED <<issued, shown>>
      BY <2>1, <3>1, <3>5, GotoKeepsFrozen DEF ShowsAtMostOnce
    <3>6. QED  BY <3>2, <3>4, <3>5
  <2>6. QED  BY <2>2, <2>3, <2>4, <2>5
<1>7. ASSUME NEW c \in Caller, MarkPersistenceFailed(c) PROVE FrozenInv'
  <2>1. \E row : Stop(c, row) /\ (OwnsRun(c) \/ row = run)
    BY <1>7 DEF MarkPersistenceFailed
  <2>2. OnTurn(c) /\ UNCHANGED <<rows, issued, shown>>
    BY <1>7 DEF MarkPersistenceFailed
  <2>3. QED  BY <2>1, <2>2, WorksOnNoPreview, StopKeepsFrozen DEF ShowsAtMostOnce
<1>8. ASSUME UNCHANGED <<turn, call>>, run'.state = run.state \/ OtherRequest
      PROVE  LoopHeld' /\ DecidedOnRow'
  <2>1. LoopHeld'
    BY <1>8 DEF FrozenInv, LoopHeld
  <2>2. OtherRequest => \A c \in Caller : call[c].at \notin Held
    <3>1. ASSUME NEW p \in Process, turn[p] = None, NEW c \in Caller, call[c].at \in Held
          PROVE  FALSE
      <4>1. c = None
        BY <3>1, Alone DEF FrozenInv
      <4>2. QED  BY <4>1, RunAssumption
    <3>2. QED  BY <3>1 DEF OtherRequest
  <2>3. DecidedOnRow'
    BY <1>8, <2>2 DEF FrozenInv, DecidedOnRow, Held
  <2>4. QED  BY <2>1, <2>3
<1>9. CASE IssueConfirmation
  <2>1. /\ UNCHANGED <<turn, call, run, rows>> /\ run.state = "PREVIEW_READY"
        /\ issued < MaxToken /\ issued' = issued + 1
        /\ shown' = [shown EXCEPT ![issued + 1] = rows]
    BY <1>9 DEF IssueConfirmation
  <2>2. issued \in Nat /\ MaxToken \in Nat /\ shown = [n \in 1..MaxToken |-> shown[n]]
    BY ImportAssumption DEF FrozenInv, ShownIsFinal
  <2>3. /\ issued + 1 \in 1..MaxToken /\ shown'[issued + 1] = rows
        /\ \A n \in 1..issued : shown'[n] = shown[n]
        /\ shown' = [n \in 1..MaxToken |-> shown'[n]]
    <3>1. issued + 1 \in 1..MaxToken /\ \A n \in 1..issued : n # issued + 1 /\ n \in 1..MaxToken
      BY <2>1, <2>2
    <3>2. shown' = [n \in 1..MaxToken |-> IF n = issued + 1 THEN rows ELSE shown[n]]
      BY <2>1, <2>2
    <3>3. QED  BY <3>1, <3>2
  <2>4. ShownIsFinal'
    BY <2>1, <2>2, <2>3 DEF ShownIsFinal, Final
  <2>5. PreviewIsFrozenOnceShown'
    <3>1. \A n \in 1..(issued + 1) : n = issued + 1 \/ n \in 1..issued
      BY <2>2
    <3>2. QED  BY <2>1, <2>3, <3>1 DEF FrozenInv, PreviewIsFrozenOnceShown
  <2>6. QED  BY <1>8, <2>1, <2>4, <2>5 DEF FrozenInv
<1>10. ASSUME NEW n \in 1..MaxToken, ConfirmImport(n) PROVE FrozenInv'
  <2>1. /\ UNCHANGED <<turn, call, rows, issued, shown>> /\ OtherRequest
        /\ run'.state = "SUCCEEDED"
    BY <1>10 DEF ConfirmImport, Written, RunRow
  <2>2. ShownIsFinal' /\ PreviewIsFrozenOnceShown'
    BY <2>1 DEF FrozenInv, ShownIsFinal, PreviewIsFrozenOnceShown, Final
  <2>3. QED  BY <1>8, <2>1, <2>2 DEF FrozenInv
<1>11. ASSUME UNCHANGED <<turn, call, rows, issued, shown>>, run'.state = run.state
       PROVE  FrozenInv'
  BY <1>8, <1>11, ShownKept DEF FrozenInv, ShowsAtMostOnce
<1>12. CASE TokenExpires
  BY <1>11, <1>12 DEF TokenExpires
<1>13. ASSUME NEW p \in Process, Crash(p) PROVE FrozenInv'
  <2>1. /\ call' = [c \in Caller |-> IF ProcessOf[c] = p THEN Idle ELSE call[c]]
        /\ UNCHANGED <<run, rows, issued, shown>>
    BY <1>13 DEF Crash
  <2>2. \A c \in Caller : call'[c] = Idle
    BY <2>1, RunAssumption DEF OneServer
  <2>3. Idle.at = "idle" /\ "idle" \notin Held
    BY DEF Idle, CallRecord, Held
  <2>4. LoopHeld' /\ DecidedOnRow'
    BY <2>2, <2>3 DEF LoopHeld, DecidedOnRow, Held
  <2>5. QED  BY <2>1, <2>4, ShownKept DEF FrozenInv, ShowsAtMostOnce
<1>14. CASE ConnectionChanges
  BY <1>11, <1>14 DEF ConnectionChanges
<1>15. CASE TimePasses
  BY <1>11, <1>15 DEF TimePasses, LeaseExpires, RunRow
<1>16. CASE UNCHANGED vars
  BY <1>11, <1>16 DEF vars
<1>17. QED
  BY <1>1, <1>2, <1>3, <1>4, <1>5, <1>6, <1>7, <1>9, <1>10, <1>12, <1>13, <1>14, <1>15, <1>16
     DEF Next, CallStep

\* On one server process the rows an organizer was shown with a token are the
\* rows of the run ever after, whoever retries the preview with its key
\* (createConnectorImportPreview, confirmConnectorImport).
THEOREM ShownPreviewStaysFrozen ==
  ASSUME OneServer PROVE Spec => []PreviewIsFrozenOnceShown
<1>1. Init => FrozenInv
  BY ImportAssumption
     DEF Init, RunInit, Idle, CallRecord, FrozenInv, LoopHeld, DecidedOnRow, ShownIsFinal,
         PreviewIsFrozenOnceShown, Held
<1>2. Shape /\ FrozenInv /\ [Next]_vars => FrozenInv'
  BY FrozenNext
<1>3. PageInv => Shape
  BY DEF PageInv
<1>4. FrozenInv => PreviewIsFrozenOnceShown
  BY DEF FrozenInv
<1>5. QED  BY PageInit, PageNext, <1>1, <1>2, <1>3, <1>4, PTL DEF Spec
=============================================================================
