------------------------ MODULE ReminderOutboxProofs ------------------------
(***************************************************************************)
(* Theorems of ReminderOutbox for any number of tasks, jobs, days and      *)
(* crashes: only the job of its last claim settles a claimed reminder, and *)
(* every step of the outbox is one that ReminderPromise allows.  That each *)
(* reminder is settled one day is left to TLC.                             *)
(***************************************************************************)
EXTENDS ReminderOutbox, TLAPS

Sent == {"send", "accepted", "failed"}
Known(w) == w.status \in {"PENDING", "CLAIMED", "DELIVERED", "FAILED"}

TimeOK == now \in Nat /\ \A j \in Jobs : job[j].at \in Nat /\ job[j].at <= now
RowOK == \A r \in Reminders : row[r].due \in Nat
DomainOK == DOMAIN row = Reminders /\ DOMAIN job = Jobs
WorkOK == \A j \in Jobs : job[j].pc \in Sent => job[j].of \in Reminders /\ Known(row[job[j].of])
TakenOK == /\ taken \subseteq Reminders
           /\ \A j \in Jobs : job[j].pc = "accepted" => job[j].of \in taken
IInv == DomainOK /\ TimeOK /\ RowOK /\ WorkOK /\ TakenOK

LEMMA LaterIsATime == ASSUME NEW time, NEW ticks PROVE Later(time, ticks) \in Nat
  BY BoundAssumption DEF Later

LEMMA InitInvariant == Init => IInv
  <1> SUFFICES ASSUME Init PROVE IInv
    OBVIOUS
  <1>1. DomainOK
    BY DEF Init, DomainOK
  <1>2. TimeOK
    BY DEF Init, TimeOK, Idle
  <1>3. RowOK
    BY DEF Init, RowOK, NoRow
  <1>4. WorkOK /\ TakenOK
    BY DEF Init, WorkOK, TakenOK, Idle, Sent
  <1> QED
    BY <1>1, <1>2, <1>3, <1>4 DEF IInv

\* Queueing touches only reminders that have no row yet.
LEMMA QueueKeeps ==
  ASSUME IInv, NEW time \in Nat, Queue(time)
  PROVE  /\ DOMAIN row' = Reminders /\ RowOK'
         /\ \A r \in Reminders : row[r] # NoRow => row'[r] = row[r]
         /\ \A r \in Reminders : row'[r] = row[r] \/ (r \in ToQueue(Day(time)) /\ row'[r].status = "PENDING")
  <1>1. \A r \in Reminders : row'[r] = IF r \in ToQueue(Day(time))
            THEN [status |-> "PENDING", attempts |-> 0, due |-> time] ELSE row[r]
    BY DEF Queue
  <1>2. \A r \in ToQueue(Day(time)) : row[r] = NoRow
    BY DEF ToQueue
  <1>3. DOMAIN row' = Reminders
    BY DEF Queue
  <1>4. \A r \in Reminders : row'[r] = row[r] \/ (r \in ToQueue(Day(time)) /\ row'[r].status = "PENDING" /\ row'[r].due = time)
    BY <1>1
  <1>5. RowOK'
    BY <1>4 DEF RowOK, IInv
  <1> QED
    BY <1>1, <1>2, <1>3, <1>4, <1>5

LEMMA RowWritten ==
  ASSUME IInv, NEW r \in Reminders, NEW x,
         x.due \in Nat, x.status \in {"PENDING", "CLAIMED", "DELIVERED", "FAILED"},
         row' = [row EXCEPT ![r] = x]
  PROVE  /\ DOMAIN row' = Reminders /\ RowOK'
         /\ \A s \in Reminders : Known(row[s]) => Known(row'[s])
         /\ Known(row'[r])
         /\ row'[r] = x /\ \A s \in Reminders \ {r} : row'[s] = row[s]
  <1>1. DOMAIN row' = Reminders
    BY DEF IInv, DomainOK
  <1>2. row'[r] = x /\ \A s \in Reminders \ {r} : row'[s] = row[s]
    BY DEF IInv, DomainOK
  <1>3. RowOK'
    BY <1>2 DEF IInv, RowOK
  <1>4. Known(row'[r]) /\ \A s \in Reminders : Known(row[s]) => Known(row'[s])
    BY <1>2 DEF Known
  <1> QED
    BY <1>1, <1>2, <1>3, <1>4

\* A job's step keeps the invariant if what the job becomes fits the tables.
LEMMA JobMoves ==
  ASSUME IInv, NEW j \in Jobs, NEW x, job' = [job EXCEPT ![j] = x], now' = now,
         x.at \in Nat, x.at <= now,
         DOMAIN row' = Reminders, RowOK',
         \A s \in Reminders : Known(row[s]) => Known(row'[s]),
         x.pc \in Sent => x.of \in Reminders /\ Known(row'[x.of]),
         taken \subseteq taken', taken' \subseteq Reminders,
         x.pc = "accepted" => x.of \in taken'
  PROVE  IInv'
  <1>1. DOMAIN job' = Jobs /\ job'[j] = x /\ \A k \in Jobs \ {j} : job'[k] = job[k]
    BY DEF IInv, DomainOK
  <1>2. DomainOK'
    BY <1>1 DEF DomainOK
  <1>3. TimeOK'
    BY <1>1 DEF IInv, TimeOK
  <1>4. WorkOK'
    <2> SUFFICES ASSUME NEW k \in Jobs, job'[k].pc \in Sent
                 PROVE  job'[k].of \in Reminders /\ Known(row'[job'[k].of])
      BY DEF WorkOK, Known
    <2>1. CASE k = j
      BY <2>1, <1>1
    <2>2. CASE k # j
      <3>1. job'[k] = job[k] /\ job[k].of \in Reminders /\ Known(row[job[k].of])
        BY <2>2, <1>1 DEF IInv, WorkOK
      <3> QED
        BY <3>1 DEF Known
    <2> QED
      BY <2>1, <2>2
  <1>5. TakenOK'
    BY <1>1 DEF IInv, TakenOK
  <1> QED
    BY <1>2, <1>3, <1>4, <1>5 DEF IInv

\* What a candidate is: a reminder with a row, which can be settled.
LEMMA CandidateIsKnown ==
  ASSUME NEW time, NEW r \in Candidates(time)
  PROVE  /\ r \in Reminders /\ Known(row[r])
         /\ row[r].status \in {"PENDING", "CLAIMED"} /\ row[r].due <= time
  BY DEF Candidates, IsCandidate, Known

\* The four steps of a job that write one row, as what they do to row and job.
LEMMA ClaimWrites ==
  ASSUME IInv, NEW j \in Jobs, Claim(j)
  PROVE  \E r \in Candidates(job[j].at) :
           \/ /\ row' = [row EXCEPT ![r] = [status |-> "CLAIMED", attempts |-> row[r].attempts + 1,
                                           due |-> Later(job[j].at, Lease)]]
              /\ job' = [job EXCEPT ![j] = Job("send", j, job[j].left - 1, r, row[r].attempts + 1)]
           \/ /\ row' = [row EXCEPT ![r] = Row("FAILED", r, 0)]
              /\ job' = [job EXCEPT ![j] = Job("claim", j, job[j].left - 1, None, 0)]
  BY DEF Claim, Settled

LEMMA FinalizeWrites ==
  ASSUME IInv, NEW j \in Jobs, Finalize(j)
  PROVE  /\ job[j].pc = "accepted"
         /\ row[job[j].of].status = "CLAIMED" /\ row[job[j].of].attempts = job[j].token
         /\ \/ Eligible(job[j].of) /\ row' = [row EXCEPT ![job[j].of] = Row("DELIVERED", job[j].of, 0)]
            \/ row' = [row EXCEPT ![job[j].of] = Row("FAILED", job[j].of, 0)]
         /\ job' = [job EXCEPT ![j] = Job("claim", j, job[j].left, None, 0)]
  BY DEF Finalize, Settled, Holds, NextMessage

LEMMA FailureWrites ==
  ASSUME IInv, NEW j \in Jobs, RecordFailure(j)
  PROVE  /\ job[j].pc = "failed"
         /\ row[job[j].of].status = "CLAIMED" /\ row[job[j].of].attempts = job[j].token
         /\ \E due \in Nat :
              \/ row' = [row EXCEPT ![job[j].of] = Row("PENDING", job[j].of, due)]
              \/ row' = [row EXCEPT ![job[j].of] = Row("FAILED", job[j].of, 0)]
         /\ job' = [job EXCEPT ![j] = Job("claim", j, job[j].left, None, 0)]
  <1>1. /\ job[j].pc = "failed"
        /\ row[job[j].of].status = "CLAIMED" /\ row[job[j].of].attempts = job[j].token
        /\ job' = [job EXCEPT ![j] = Job("claim", j, job[j].left, None, 0)]
    BY DEF RecordFailure, Holds, NextMessage
  <1> DEFINE delay == RetryBase * 2 ^ (row[job[j].of].attempts - 1)
  <1>2. \/ row' = [row EXCEPT ![job[j].of] = Row("PENDING", job[j].of, Later(job[j].at, delay))]
        \/ row' = [row EXCEPT ![job[j].of] = Row("FAILED", job[j].of, 0)]
    BY DEF RecordFailure, Settled
  <1>3. Later(job[j].at, delay) \in Nat
    BY LaterIsATime
  <1> HIDE DEF delay
  <1>4. \E due \in Nat :
          \/ row' = [row EXCEPT ![job[j].of] = Row("PENDING", job[j].of, due)]
          \/ row' = [row EXCEPT ![job[j].of] = Row("FAILED", job[j].of, 0)]
    BY <1>2, <1>3
  <1> QED
    BY <1>1, <1>4

LEMMA InvariantStep == IInv /\ [Next]_vars => IInv'
  <1> SUFFICES ASSUME IInv, [Next]_vars PROVE IInv'
    OBVIOUS
  <1> USE DEF outbox, world
  <1>1. CASE Tick
    <2>1. now' \in Nat /\ now < now' /\ UNCHANGED <<row, job, taken>>
      BY <1>1 DEF Tick, IInv, TimeOK
    <2>2. TimeOK'
      BY <2>1 DEF IInv, TimeOK
    <2> QED
      BY <2>1, <2>2 DEF IInv, DomainOK, RowOK, WorkOK, TakenOK
  <1>2. CASE UNCHANGED <<now, row, job, taken>>
    BY <1>2 DEF IInv, DomainOK, TimeOK, RowOK, WorkOK, TakenOK
  <1>3. ASSUME NEW t \in Tasks, CompleteTask(t) \/ ReopenTask(t) \/ RevokeAssignment(t)
        PROVE  UNCHANGED <<now, row, job, taken>>
    BY <1>3 DEF CompleteTask, ReopenTask, RevokeAssignment
  <1>4. CASE QueueDueReminders
    <2>1. Queue(now) /\ UNCHANGED <<now, job, taken>>
      BY <1>4 DEF QueueDueReminders
    <2>2. /\ DOMAIN row' = Reminders /\ RowOK'
          /\ \A r \in Reminders : Known(row[r]) => Known(row'[r])
      BY <2>1, QueueKeeps DEF IInv, TimeOK, Known, NoRow
    <2>3. WorkOK'
      BY <2>1, <2>2 DEF IInv, WorkOK
    <2> QED
      BY <2>1, <2>2, <2>3 DEF IInv, DomainOK, TimeOK, TakenOK
  <1>o. ASSUME NEW place \in Places, Outgrow(place) PROVE UNCHANGED <<now, row, job, taken>>
    BY <1>o DEF Outgrow
  <1>5. ASSUME NEW j \in Jobs, StartJob(j) \/ FinishJob(j) \/ AbandonClaim(j) \/ Crash(j) PROVE IInv'
    <2> DEFINE fresh == [pc |-> "prepare", at |-> now, left |-> MaxDeliveries, of |-> None, token |-> 0]
    <2>1. /\ \/ job' = [job EXCEPT ![j] = fresh]
             \/ job' = [job EXCEPT ![j] = Idle]
          /\ UNCHANGED <<now, row, taken>>
      BY <1>5 DEF StartJob, FinishJob, AbandonClaim, Crash
    <2>2. /\ DOMAIN row' = Reminders /\ RowOK' /\ now \in Nat /\ taken' \subseteq Reminders
          /\ \A r \in Reminders : Known(row[r]) => Known(row'[r])
          /\ taken \subseteq taken' /\ now' = now
      BY <2>1 DEF IInv, DomainOK, RowOK, TimeOK, TakenOK
    <2>3. /\ fresh.at = now /\ fresh.pc \notin Sent /\ fresh.pc # "accepted" /\ now <= now
          /\ Idle.at \in Nat /\ Idle.at <= now /\ Idle.pc \notin Sent /\ Idle.pc # "accepted"
      BY <2>2 DEF Sent, Idle
    <2> HIDE DEF fresh
    <2>4. CASE job' = [job EXCEPT ![j] = fresh]
      BY <2>2, <2>3, <2>4, JobMoves
    <2>5. CASE job' = [job EXCEPT ![j] = Idle]
      BY <2>2, <2>3, <2>5, JobMoves
    <2> QED
      BY <2>1, <2>4, <2>5
  <1>6. ASSUME NEW j \in Jobs, Prepare(j) PROVE IInv'
    <2> DEFINE x == Job("claim", j, job[j].left, job[j].of, job[j].token)
    <2>1. Queue(job[j].at) /\ job' = [job EXCEPT ![j] = x] /\ UNCHANGED <<now, taken>>
      BY <1>6 DEF Prepare, Becomes
    <2>2. job[j].at \in Nat /\ job[j].at <= now /\ taken' \subseteq Reminders
      BY <2>1 DEF IInv, TimeOK, TakenOK
    <2>3. /\ DOMAIN row' = Reminders /\ RowOK'
          /\ \A r \in Reminders : Known(row[r]) => Known(row'[r])
      BY <2>1, <2>2, QueueKeeps DEF Known, NoRow
    <2>4. x.at = job[j].at /\ x.pc = "claim"
      BY DEF Job
    <2> QED
      BY <2>1, <2>2, <2>3, <2>4, JobMoves DEF Sent
  <1>p. ASSUME NEW j \in Jobs, PrepareThrows(j) PROVE IInv'
    <2>1. Queue(job[j].at) \/ row' = row
      BY <1>p DEF PrepareThrows
    <2>2. job' = [job EXCEPT ![j] = Idle] /\ UNCHANGED <<now, taken>>
      BY <1>p DEF PrepareThrows
    <2>3. now \in Nat /\ job[j].at \in Nat /\ taken' \subseteq Reminders
      BY <2>2 DEF IInv, TimeOK, TakenOK
    <2>5. /\ DOMAIN row' = Reminders /\ RowOK'
          /\ \A r \in Reminders : Known(row[r]) => Known(row'[r])
      <3>1. CASE Queue(job[j].at)
        BY <2>3, <3>1, QueueKeeps DEF Known, NoRow
      <3>2. CASE row' = row
        BY <3>2 DEF IInv, DomainOK, RowOK
      <3> QED
        BY <2>1, <3>1, <3>2
    <2>6. Idle.at \in Nat /\ Idle.at <= now /\ Idle.pc \notin Sent /\ Idle.pc # "accepted"
      BY <2>3 DEF Sent, Idle
    <2> QED
      BY <2>2, <2>3, <2>5, <2>6, JobMoves
  <1>7. ASSUME NEW j \in Jobs, Claim(j) PROVE IInv'
    <2>1. PICK r \in Candidates(job[j].at) :
            \/ /\ row' = [row EXCEPT ![r] = [status |-> "CLAIMED", attempts |-> row[r].attempts + 1,
                                            due |-> Later(job[j].at, Lease)]]
               /\ job' = [job EXCEPT ![j] = Job("send", j, job[j].left - 1, r, row[r].attempts + 1)]
            \/ /\ row' = [row EXCEPT ![r] = Row("FAILED", r, 0)]
               /\ job' = [job EXCEPT ![j] = Job("claim", j, job[j].left - 1, None, 0)]
      BY <1>7, ClaimWrites
    <2>2. r \in Reminders /\ now' = now /\ taken' = taken /\ taken' \subseteq Reminders
      BY <1>7, CandidateIsKnown DEF Claim, IInv, TakenOK
    <2>3. job[j].at \in Nat /\ job[j].at <= now /\ Later(job[j].at, Lease) \in Nat
      BY LaterIsATime DEF IInv, TimeOK
    <2>4. ASSUME row' = [row EXCEPT ![r] = [status |-> "CLAIMED", attempts |-> row[r].attempts + 1,
                                            due |-> Later(job[j].at, Lease)]]
          PROVE  /\ DOMAIN row' = Reminders /\ RowOK' /\ Known(row'[r])
                 /\ \A s \in Reminders : Known(row[s]) => Known(row'[s])
      BY <2>2, <2>3, <2>4, RowWritten
    <2>5. ASSUME row' = [row EXCEPT ![r] = Row("FAILED", r, 0)]
          PROVE  /\ DOMAIN row' = Reminders /\ RowOK' /\ Known(row'[r])
                 /\ \A s \in Reminders : Known(row[s]) => Known(row'[s])
      BY <2>2, <2>5, RowWritten DEF Row
    <2>6. /\ DOMAIN row' = Reminders /\ RowOK' /\ Known(row'[r])
          /\ \A s \in Reminders : Known(row[s]) => Known(row'[s])
      BY <2>1, <2>4, <2>5
    <2>7. CASE job' = [job EXCEPT ![j] = Job("send", j, job[j].left - 1, r, row[r].attempts + 1)]
      BY <2>2, <2>3, <2>6, <2>7, JobMoves DEF Job
    <2>8. CASE job' = [job EXCEPT ![j] = Job("claim", j, job[j].left - 1, None, 0)]
      BY <2>2, <2>3, <2>6, <2>8, JobMoves DEF Job, Sent
    <2> QED
      BY <2>1, <2>7, <2>8
  <1>8. ASSUME NEW j \in Jobs, Deliver(j) PROVE IInv'
    <2>1. job[j].of \in Reminders /\ Known(row[job[j].of]) /\ job[j].at \in Nat /\ job[j].at <= now
      BY <1>8 DEF Deliver, IInv, WorkOK, TimeOK, Sent
    <2>2. PICK accepted \in BOOLEAN, answered \in BOOLEAN :
            /\ answered => accepted
            /\ taken' = IF accepted THEN taken \cup {job[j].of} ELSE taken
            /\ job' = [job EXCEPT ![j] = Job(IF answered THEN "accepted" ELSE "failed", j,
                                             job[j].left, job[j].of, job[j].token)]
      BY <1>8 DEF Deliver, Becomes
    <2>3. UNCHANGED <<now, row>> /\ taken \subseteq taken' /\ taken' \subseteq Reminders
      BY <1>8, <2>1, <2>2 DEF Deliver, IInv, TakenOK
    <2>4. answered => job[j].of \in taken'
      BY <2>2
    <2>5. DOMAIN row' = Reminders /\ RowOK'
      BY <2>3 DEF IInv, DomainOK, RowOK
    <2>6. CASE answered
      <3>1. job' = [job EXCEPT ![j] = Job("accepted", j, job[j].left, job[j].of, job[j].token)]
        BY <2>2, <2>6
      <3> QED
        BY <3>1, <2>1, <2>3, <2>4, <2>5, <2>6, JobMoves DEF Job
    <2>7. CASE ~answered
      <3>1. job' = [job EXCEPT ![j] = Job("failed", j, job[j].left, job[j].of, job[j].token)]
        BY <2>2, <2>7
      <3> QED
        BY <3>1, <2>1, <2>3, <2>5, JobMoves DEF Job
    <2> QED
      BY <2>6, <2>7
  <1>9. ASSUME NEW j \in Jobs, Finalize(j) \/ RecordFailure(j) PROVE IInv'
    <2> DEFINE r == job[j].of
    <2>1. job[j].pc \in Sent /\ now' = now /\ taken' = taken
      BY <1>9 DEF Finalize, RecordFailure, Sent
    <2>2. /\ r \in Reminders /\ taken' \subseteq Reminders
          /\ job[j].at \in Nat /\ job[j].at <= now
      BY <2>1 DEF IInv, WorkOK, TakenOK, TimeOK
    <2>3. PICK due \in Nat, status \in {"PENDING", "DELIVERED", "FAILED"} :
            row' = [row EXCEPT ![r] = Row(status, r, due)]
      BY <1>9, FinalizeWrites, FailureWrites
    <2> DEFINE y == Row(status, r, due)
    <2>4. y.due \in Nat /\ y.status \in {"PENDING", "CLAIMED", "DELIVERED", "FAILED"}
      BY DEF Row
    <2>5. r \in Reminders /\ row' = [row EXCEPT ![r] = y]
      BY <2>2, <2>3
    <2>6. /\ DOMAIN row' = Reminders /\ RowOK'
          /\ \A s \in Reminders : Known(row[s]) => Known(row'[s])
      <3> HIDE DEF r, y
      <3> QED
        BY <2>4, <2>5, RowWritten
    <2> DEFINE x == Job("claim", j, job[j].left, None, 0)
    <2>7. job' = [job EXCEPT ![j] = x]
      BY <1>9, FinalizeWrites, FailureWrites
    <2>8. x.at \in Nat /\ x.at <= now /\ x.pc \notin Sent /\ x.pc # "accepted"
      BY <2>2 DEF Job, Sent
    <2>9. taken \subseteq taken' /\ now' = now
      BY <2>1
    <2> HIDE DEF x
    <2> QED
      BY <2>2, <2>6, <2>7, <2>8, <2>9, JobMoves
  <1> QED
    BY <1>1, <1>2, <1>3, <1>4, <1>o, <1>5, <1>6, <1>p, <1>7, <1>8, <1>9 DEF Next, JobStep, vars

\* No job is older than the clock, works on a reminder without a row, or has
\* seen an acceptance the provider did not give.
THEOREM Invariance == Spec => []IInv
  <1> QED
    BY InitInvariant, InvariantStep, PTL DEF Spec

(***************************************************************************)
(* Only the job of the last claim settles a claimed reminder               *)
(***************************************************************************)
ByTheClaimant(r) == \E j \in Jobs : job[j].of = r /\ job[j].token = row[r].attempts /\ job'[j] # job[j]

LEMMA ClaimantStep ==
  ASSUME IInv, [Next]_vars, NEW r \in Reminders, row[r].status = "CLAIMED", row'[r] # row[r]
  PROVE  row[r].due <= now \/ ByTheClaimant(r)
  <1> USE DEF outbox, world
  <1>1. ASSUME NEW time \in Nat, Queue(time) PROVE FALSE
    <2>1. row[r] # NoRow
      BY DEF NoRow
    <2> QED
      BY <1>1, <2>1, QueueKeeps
  <1>2. ASSUME NEW j \in Jobs, Claim(j) PROVE row[r].due <= now
    <2>1. PICK c \in Candidates(job[j].at) : \E x : row' = [row EXCEPT ![c] = x]
      BY <1>2, ClaimWrites
    <2>2. c \in Reminders /\ row[c].due <= job[j].at /\ job[j].at <= now
      BY <2>1, CandidateIsKnown DEF IInv, TimeOK
    <2>3. c = r
      BY <2>1, <2>2 DEF IInv, DomainOK
    <2> QED
      BY <2>2, <2>3 DEF IInv, TimeOK, RowOK
  <1>3. ASSUME NEW j \in Jobs, Finalize(j) \/ RecordFailure(j) PROVE ByTheClaimant(r)
    <2>1. /\ job[j].pc # "claim" /\ row[job[j].of].attempts = job[j].token
          /\ \E x : row' = [row EXCEPT ![job[j].of] = x]
          /\ job' = [job EXCEPT ![j] = Job("claim", j, job[j].left, None, 0)]
      BY <1>3, FinalizeWrites, FailureWrites
    <2>2. job[j].of = r
      BY <2>1 DEF IInv, DomainOK
    <2>3. job'[j].pc = "claim"
      BY <2>1 DEF IInv, DomainOK, Job
    <2> QED
      BY <2>1, <2>2, <2>3 DEF ByTheClaimant
  <1>4. CASE QueueDueReminders
    BY <1>1, <1>4 DEF QueueDueReminders, IInv, TimeOK
  <1>5. ASSUME NEW j \in Jobs, Prepare(j) PROVE FALSE
    BY <1>1, <1>5 DEF Prepare, IInv, TimeOK
  <1>p. ASSUME NEW j \in Jobs, PrepareThrows(j) PROVE FALSE
    BY <1>1, <1>p DEF PrepareThrows, IInv, TimeOK
  <1>6. row' # row
    OBVIOUS
  <1> QED
    BY <1>2, <1>3, <1>4, <1>5, <1>p, <1>6 DEF Next, JobStep, vars, Tick, CompleteTask, ReopenTask,
       RevokeAssignment, Outgrow, StartJob, FinishJob, Deliver, AbandonClaim, Crash

\* However late the provider answers, a claimed reminder is settled or released
\* by the job of its last claim, or taken over once its lease has run out
\* (claimNextActionTaskReminder, finalizeClaimedActionReminder).
THEOREM ClaimantSettles == Spec => OnlyTheClaimantSettles
  <1>1. IInv /\ [Next]_vars =>
          [\A r \in Reminders : row[r].status = "CLAIMED" /\ row'[r] # row[r] =>
             \/ row[r].due <= now
             \/ \E j \in Jobs : job[j].of = r /\ job[j].token = row[r].attempts /\ job'[j] # job[j]]_vars
    BY ClaimantStep DEF ByTheClaimant
  <1> QED
    BY <1>1, Invariance, PTL DEF Spec, OnlyTheClaimantSettles

(***************************************************************************)
(* Every step is one of the promise                                        *)
(***************************************************************************)
Wanted == {r \in Reminders : r[1] \in open \cap current}
Owed == {r \in Reminders : row[r].status \in {"PENDING", "CLAIMED"}}
Told == {r \in Reminders : row[r].status = "DELIVERED"}
Dropped == {r \in Reminders : row[r].status = "FAILED"}
Halted == overgrown # {}

LEMMA InitPromise == Init => Promise!Init
  BY DEF Init, Promise!Init, NoRow, Reminders

LEMMA SettledOrOwed ==
  ASSUME IInv, NEW r \in Reminders, NEW x, row' = [row EXCEPT ![r] = x]
  PROVE  /\ x.status = "FAILED" /\ r \in Owed => Owed' = Owed \ {r} /\ Dropped' = Dropped \cup {r} /\ Told' = Told
         /\ x.status = "DELIVERED" /\ r \in Owed => Owed' = Owed \ {r} /\ Told' = Told \cup {r} /\ Dropped' = Dropped
         /\ x.status \in {"PENDING", "CLAIMED"} /\ r \in Owed => UNCHANGED <<Owed, Told, Dropped>>
  <1>1. row'[r] = x /\ \A s \in Reminders \ {r} : row'[s] = row[s]
    BY DEF IInv, DomainOK
  <1>2. CASE x.status = "FAILED" /\ r \in Owed
    BY <1>1, <1>2 DEF Owed, Told, Dropped
  <1>3. CASE x.status = "DELIVERED" /\ r \in Owed
    BY <1>1, <1>3 DEF Owed, Told, Dropped
  <1>4. CASE x.status \in {"PENDING", "CLAIMED"} /\ r \in Owed
    BY <1>1, <1>4 DEF Owed, Told, Dropped
  <1> QED
    BY <1>2, <1>3, <1>4

LEMMA QueueOwes ==
  ASSUME IInv, NEW time \in Nat, Queue(time)
  PROVE  Owed \subseteq Owed' /\ Owed' \ Owed \subseteq Wanted \ (Told \cup Dropped) /\ Told' = Told /\ Dropped' = Dropped
  <1>1. \A r \in Reminders : row'[r] = row[r] \/ (r \in ToQueue(Day(time)) /\ row'[r].status = "PENDING")
    BY QueueKeeps
  <1>2. \A r \in ToQueue(Day(time)) : row[r].status = "NONE" /\ r \in Wanted
    BY DEF ToQueue, Wanted, Eligible, NoRow
  <1> QED
    BY <1>1, <1>2 DEF Owed, Told, Dropped

LEMMA StepKeepsPromise == IInv /\ [Next]_vars => [Promise!Next]_Promise!vars
  <1> SUFFICES ASSUME IInv, [Next]_vars PROVE [Promise!Next]_Promise!vars
    OBVIOUS
  <1> USE DEF outbox, world
  <1> DEFINE Same == UNCHANGED <<Owed, Told, Dropped>>
  <1>a. ASSUME UNCHANGED <<Halted, Wanted, taken, Owed, Told, Dropped>> PROVE [Promise!Next]_Promise!vars
    BY <1>a DEF Promise!vars, Wanted, Owed, Told, Dropped, Halted
  <1>b. ASSUME Same, Halted => Halted', taken \subseteq taken', taken' \subseteq taken \cup Owed \cup Told \cup Dropped
        PROVE  Promise!Next
    BY <1>b DEF Promise!Next, Promise!World, Wanted, Owed, Told, Dropped, Halted
  <1>c. ASSUME NEW r \in Owed, Owed' = Owed \ {r}, Dropped' = Dropped \cup {r}, Told' = Told,
               UNCHANGED <<open, current, overgrown, taken>>
        PROVE  Promise!Next
    <2>1. r \in Reminders
      BY DEF Owed
    <2>2. Promise!Drop(r)
      BY <1>c DEF Promise!Drop, Owed, Told, Dropped
    <2> QED
      BY <2>1, <2>2 DEF Promise!Next, Promise!Settle
  <1>d. ASSUME NEW r \in Owed, Owed' = Owed \ {r}, Told' = Told \cup {r}, Dropped' = Dropped,
               UNCHANGED <<open, current, overgrown, taken>>, r \in Wanted \cap taken
        PROVE  Promise!Next
    <2>1. r \in Reminders
      BY DEF Owed
    <2>2. Promise!Tell(r)
      BY <1>d DEF Promise!Tell, Wanted, Owed, Told, Dropped
    <2> QED
      BY <2>1, <2>2 DEF Promise!Next, Promise!Settle
  <1>1. CASE UNCHANGED <<open, current, overgrown, row, taken>>
    BY <1>1, <1>a DEF Wanted, Owed, Told, Dropped, Halted
  <1>2. ASSUME NEW t \in Tasks, CompleteTask(t) \/ ReopenTask(t) \/ RevokeAssignment(t) PROVE Promise!Next
    <2>1. UNCHANGED <<overgrown, row, taken>>
      BY <1>2 DEF CompleteTask, ReopenTask, RevokeAssignment
    <2>2. Same
      BY <2>1 DEF Owed, Told, Dropped
    <2> QED
      BY <2>1, <2>2, <1>b DEF Halted
  <1>o. ASSUME NEW place \in Places, Outgrow(place) PROVE Promise!Next
    <2>1. UNCHANGED <<row, taken>> /\ Halted'
      BY <1>o DEF Outgrow, Halted
    <2>2. Same
      BY <2>1 DEF Owed, Told, Dropped
    <2> QED
      BY <2>1, <2>2, <1>b
  <1>3. ASSUME NEW time \in Nat, Queue(time), UNCHANGED <<open, current, overgrown, taken>> PROVE Promise!Next
    <2>1. Owed \subseteq Owed' /\ Owed' \ Owed \subseteq Wanted \ (Told \cup Dropped) /\ Told' = Told /\ Dropped' = Dropped
      BY <1>3, QueueOwes
    <2>2. Promise!Owe
      BY <1>3, <2>1 DEF Promise!Owe, Wanted, Owed, Told, Dropped
    <2> QED
      BY <2>2 DEF Promise!Next
  <1>4. CASE QueueDueReminders
    BY <1>4, <1>3 DEF QueueDueReminders, IInv, TimeOK
  <1>5. ASSUME NEW j \in Jobs, Prepare(j) PROVE Promise!Next
    BY <1>5, <1>3 DEF Prepare, IInv, TimeOK
  <1>p. ASSUME NEW j \in Jobs, PrepareThrows(j) PROVE [Promise!Next]_Promise!vars
    <2>1. UNCHANGED <<open, current, overgrown, taken>> /\ (Queue(job[j].at) \/ row' = row)
      BY <1>p DEF PrepareThrows
    <2> QED
      BY <2>1, <1>1, <1>3 DEF IInv, TimeOK
  <1>6. ASSUME NEW j \in Jobs, Claim(j) PROVE [Promise!Next]_Promise!vars
    <2>1. PICK r \in Candidates(job[j].at) :
            \E x : x.status \in {"CLAIMED", "FAILED"} /\ row' = [row EXCEPT ![r] = x]
      <3>1. PICK r \in Candidates(job[j].at) :
              \/ row' = [row EXCEPT ![r] = [status |-> "CLAIMED", attempts |-> row[r].attempts + 1,
                                           due |-> Later(job[j].at, Lease)]]
              \/ row' = [row EXCEPT ![r] = Row("FAILED", r, 0)]
        BY <1>6, ClaimWrites
      <3> DEFINE claimed == [status |-> "CLAIMED", attempts |-> row[r].attempts + 1, due |-> Later(job[j].at, Lease)]
                 failed == Row("FAILED", r, 0)
      <3>2. claimed.status \in {"CLAIMED", "FAILED"} /\ failed.status \in {"CLAIMED", "FAILED"}
        BY DEF Row
      <3>3. row' = [row EXCEPT ![r] = claimed] \/ row' = [row EXCEPT ![r] = failed]
        BY <3>1
      <3> HIDE DEF claimed, failed
      <3> QED
        BY <3>2, <3>3
    <2>2. PICK x : x.status \in {"CLAIMED", "FAILED"} /\ row' = [row EXCEPT ![r] = x]
      BY <2>1
    <2>3. r \in Reminders /\ r \in Owed
      BY CandidateIsKnown DEF Owed
    <2>4. UNCHANGED <<open, current, overgrown, taken>>
      BY <1>6 DEF Claim
    <2>5. CASE x.status = "FAILED"
      BY <2>2, <2>3, <2>4, <2>5, <1>c, SettledOrOwed
    <2>6. CASE x.status = "CLAIMED"
      <3>1. Same
        BY <2>2, <2>3, <2>6, SettledOrOwed
      <3> QED
        BY <3>1, <2>4, <1>a DEF Wanted, Halted
    <2> QED
      BY <2>2, <2>5, <2>6
  <1>7. ASSUME NEW j \in Jobs, Deliver(j) PROVE Promise!Next
    <2>1. /\ job[j].pc = "send" /\ overgrown' = overgrown /\ (taken' = taken \/ taken' = taken \cup {job[j].of}) /\ row' = row
      BY <1>7 DEF Deliver
    <2>2. job[j].of \in Owed \cup Told \cup Dropped
      BY <2>1 DEF IInv, WorkOK, Sent, Known, Owed, Told, Dropped
    <2>3. Same
      BY <2>1 DEF Owed, Told, Dropped
    <2> QED
      BY <2>1, <2>2, <2>3, <1>b DEF Halted
  <1>8. ASSUME NEW j \in Jobs, Finalize(j) PROVE Promise!Next
    <2> DEFINE r == job[j].of
    <2>1. /\ job[j].pc = "accepted" /\ row[r].status = "CLAIMED" /\ UNCHANGED <<open, current, overgrown, taken>>
          /\ \/ Eligible(r) /\ row' = [row EXCEPT ![r] = Row("DELIVERED", r, 0)]
             \/ row' = [row EXCEPT ![r] = Row("FAILED", r, 0)]
      BY <1>8, FinalizeWrites DEF Finalize
    <2>2. r \in Reminders /\ r \in taken /\ r \in Owed
      BY <2>1 DEF IInv, WorkOK, TakenOK, Sent, Owed
    <2>3. Row("DELIVERED", r, 0).status = "DELIVERED" /\ Row("FAILED", r, 0).status = "FAILED"
      BY DEF Row
    <2> HIDE DEF r
    <2>4. CASE row' = [row EXCEPT ![r] = Row("FAILED", r, 0)]
      BY <2>1, <2>2, <2>3, <2>4, <1>c, SettledOrOwed
    <2>5. CASE Eligible(r) /\ row' = [row EXCEPT ![r] = Row("DELIVERED", r, 0)]
      <3>1. Owed' = Owed \ {r} /\ Told' = Told \cup {r} /\ Dropped' = Dropped
        BY <2>2, <2>3, <2>5, SettledOrOwed
      <3>2. r \in Wanted
        BY <2>2, <2>5 DEF Wanted, Eligible
      <3> QED
        BY <2>1, <2>2, <3>1, <3>2, <1>d
    <2> QED
      BY <2>1, <2>4, <2>5
  <1>9. ASSUME NEW j \in Jobs, RecordFailure(j) PROVE [Promise!Next]_Promise!vars
    <2> DEFINE r == job[j].of
    <2>1. /\ job[j].pc = "failed" /\ row[r].status = "CLAIMED" /\ UNCHANGED <<open, current, overgrown, taken>>
          /\ \E due \in Nat : \/ row' = [row EXCEPT ![r] = Row("PENDING", r, due)]
                              \/ row' = [row EXCEPT ![r] = Row("FAILED", r, 0)]
      BY <1>9, FailureWrites DEF RecordFailure
    <2>2. PICK due \in Nat : \/ row' = [row EXCEPT ![r] = Row("PENDING", r, due)]
                             \/ row' = [row EXCEPT ![r] = Row("FAILED", r, 0)]
      BY <2>1
    <2>3. r \in Reminders /\ r \in Owed
      BY <2>1 DEF IInv, WorkOK, Sent, Owed
    <2>4. Row("PENDING", r, due).status = "PENDING" /\ Row("FAILED", r, 0).status = "FAILED"
      BY DEF Row
    <2> HIDE DEF r
    <2>5. CASE row' = [row EXCEPT ![r] = Row("FAILED", r, 0)]
      BY <2>1, <2>3, <2>4, <2>5, <1>c, SettledOrOwed
    <2>6. CASE row' = [row EXCEPT ![r] = Row("PENDING", r, due)]
      <3>1. Same
        BY <2>3, <2>4, <2>6, SettledOrOwed
      <3> QED
        BY <3>1, <2>1, <1>a DEF Wanted, Halted
    <2> QED
      BY <2>2, <2>5, <2>6
  <1> QED
    BY <1>1, <1>2, <1>o, <1>4, <1>5, <1>p, <1>6, <1>7, <1>8, <1>9 DEF Next, JobStep, vars, Tick, StartJob,
       FinishJob, AbandonClaim, Crash

\* What the outbox does is what ReminderPromise allows: a reminder is recorded
\* as delivered only if the provider took it and its task is still open and the
\* speaker's, and what was settled stays settled.
THEOREM RefinesPromise == Spec => Promise!Init /\ [][Promise!Next]_Promise!vars
  <1> QED
    BY InitPromise, Invariance, StepKeepsPromise, PTL DEF Spec
=============================================================================
