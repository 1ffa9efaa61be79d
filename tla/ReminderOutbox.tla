--------------------------- MODULE ReminderOutbox ---------------------------
(***************************************************************************)
(* The automatic reminders of shared ACTION tasks.  A job (a cron request) *)
(* queues one message per due task and day in the outbox and then claims,  *)
(* sends and settles messages one after the other.  Jobs overlap and die;  *)
(* each of their transactions is an action, and so is the provider's call  *)
(* between two of them.  A job reads the clock once, when it starts, so    *)
(* everything it writes and compares is as old as the job.                 *)
(*                                                                         *)
(* A claim's random token is the number of its attempt, which only a claim *)
(* changes.  A receipt is written with the row it belongs to, so the       *)
(* branches that find a receipt without it are left out, as is the         *)
(* lifecycle of the event, which no code changes.                          *)
(***************************************************************************)
EXTENDS Integers, FiniteSets

CONSTANTS Tasks,         \* task assignments of one event, each of one speaker
          DueDay,        \* Tasks -> the day the task is due
          WindowDays,    \* reminders start that many days ahead
          DayLength,     \* ticks of a UTC day
          Jobs, None,
          MaxAttempts, MaxDeliveries,  \* limits of the code
          Lease, RetryBase,            \* in ticks
          LastDay, MaxTime, MaxCrashes \* bounds

ASSUME TaskAssumption == DueDay \in [Tasks -> Nat] /\ WindowDays \in Nat /\ DayLength \in Nat \ {0}
ASSUME LimitAssumption == /\ MaxAttempts \in Nat \ {0} /\ MaxDeliveries \in Nat
                          /\ Lease \in Nat /\ RetryBase \in Nat
ASSUME BoundAssumption == LastDay \in Nat /\ MaxTime \in Nat /\ MaxCrashes \in Nat
ASSUME NoneAssumption == None \notin Tasks \X (0..LastDay)

VARIABLES now,
          open,      \* tasks that are not COMPLETED
          current,   \* tasks whose assignment is the speaker's current one
          overgrown, \* where a scan would exceed its limits
          row,       \* outbox_messages, per reminder
          receipts,  \* reminders with a provider receipt in audit_events
          job,
          taken,     \* reminders the provider has accepted
          crashes

world == <<open, current, overgrown>>
outbox == <<row, receipts>>
vars == <<now, world, outbox, job, taken, crashes>>

Reminders == Tasks \X (0..LastDay)
Day(time) == time \div DayLength

\* the last tick stands for every later time
Later(time, ticks) == IF time + ticks \in 0..MaxTime THEN time + ticks ELSE MaxTime

\* more assignments than a scan takes in this event ("here"), or in another event
\* or more events than a job takes ("elsewhere"), which no longer matters when a
\* job is stopped here at the latest
Places == {"here", "elsewhere"}

NoRow == [status |-> "NONE", attempts |-> 0, due |-> 0]
Idle == [pc |-> "idle", at |-> 0, left |-> 0, of |-> None, token |-> 0]

\* mutant: what was due when it was queued is due
Eligible_Always(r) == TRUE
\* actionReminderEligibility
Eligible(r) == r[1] \in open /\ r[1] \in current

Init == /\ now = 0
        /\ open = Tasks /\ current = Tasks /\ overgrown = {}
        /\ row = [r \in Reminders |-> NoRow] /\ receipts = {}
        /\ job = [j \in Jobs |-> Idle]
        /\ taken = {}
        /\ crashes = 0

(***************************************************************************)
(* The speakers and organizers                                             *)
(***************************************************************************)
Tick == /\ now < MaxTime
        /\ now' = now + 1
        /\ UNCHANGED <<world, outbox, job, taken, crashes>>

\* completeTask by the speaker, updateTask by an organizer: of a task that is
\* still bound to the current assignment
CompleteTask(t) == /\ t \in open \cap current
                   /\ open' = open \ {t}
                   /\ UNCHANGED <<now, current, overgrown, outbox, job, taken, crashes>>

ReopenTask(t) == /\ t \in current \ open
                 /\ open' = open \cup {t}
                 /\ UNCHANGED <<now, current, overgrown, outbox, job, taken, crashes>>

\* a new plan has other assignments, also for the same speaker
RevokeAssignment(t) == /\ t \in current
                       /\ current' = current \ {t}
                       /\ UNCHANGED <<now, open, overgrown, outbox, job, taken, crashes>>

\* createSharedActionTask asks for no limit, nothing removes an assignment, and
\* completed ones count as well; the tasks beyond Tasks are not due
Outgrow(place) == /\ overgrown \notin {{"here"}, {place}}
                  /\ overgrown' = {place}
                  /\ UNCHANGED <<now, open, current, outbox, job, taken, crashes>>

(***************************************************************************)
(* Queueing what is due                                                    *)
(***************************************************************************)
IsDue(t, day) == DueDay[t] < day + WindowDays

\* queueDueActionTaskRemindersInTransaction
ToQueue(day) == {r \in Reminders : /\ r[2] = day /\ Eligible(r) /\ IsDue(r[1], day)
                                   /\ row[r] = NoRow}

Queue(time) ==
  row' = [r \in Reminders |-> IF r \in ToQueue(Day(time))
                              THEN [status |-> "PENDING", attempts |-> 0, due |-> time]
                              ELSE row[r]]

\* the organizer's button, which scans one event
QueueDueReminders == /\ "here" \notin overgrown
                     /\ ToQueue(Day(now)) # {}
                     /\ Queue(now)
                     /\ UNCHANGED <<now, world, receipts, job, taken, crashes>>

(***************************************************************************)
(* A job                                                                   *)
(***************************************************************************)
Job(pc, j, left, of, token) ==
  [pc |-> pc, at |-> job[j].at, left |-> left, of |-> of, token |-> token]
Becomes(pc, j) == job' = [job EXCEPT ![j] = Job(pc, j, job[j].left, job[j].of, job[j].token)]

StartJob(j) ==
  /\ job[j] = Idle
  /\ job' = [job EXCEPT ![j] =
       [pc |-> "prepare", at |-> now, left |-> MaxDeliveries, of |-> None, token |-> 0]]
  /\ UNCHANGED <<now, world, outbox, taken, crashes>>

\* prepareAutomaticActionTaskReminders, for the day the job was started on
Prepare(j) == /\ job[j].pc = "prepare" /\ overgrown = {}
              /\ Queue(job[j].at)
              /\ Becomes("claim", j)
              /\ UNCHANGED <<now, world, receipts, taken, crashes>>

\* It throws where a limit is exceeded, which ends the job before its first
\* claim; what was queued for the events scanned before stays queued.
PrepareThrows(j) == /\ job[j].pc = "prepare" /\ overgrown # {}
                    /\ \/ "here" \notin overgrown /\ Queue(job[j].at)
                       \/ UNCHANGED row
                    /\ job' = [job EXCEPT ![j] = Idle]
                    /\ UNCHANGED <<now, world, receipts, taken, crashes>>

IsCandidate(r, time) == row[r].status \in {"PENDING", "CLAIMED"} /\ row[r].due <= time

\* in the order of what they wait for
Candidates(time) ==
  {r \in Reminders : /\ IsCandidate(r, time)
                     /\ \A s \in Reminders : IsCandidate(s, time) => row[r].due <= row[s].due}

Row(status, r, due) == [status |-> status, attempts |-> row[r].attempts, due |-> due]
Settled(r, status) == row' = [row EXCEPT ![r] = Row(status, r, 0)]

NextMessage(j) == job' = [job EXCEPT ![j] = Job("claim", j, job[j].left, None, 0)]

Exhausted(r) == row[r].attempts >= MaxAttempts

\* claimNextActionTaskReminder
Claim(j) ==
  /\ job[j].pc = "claim" /\ job[j].left > 0
  /\ \E r \in Candidates(job[j].at) :
       IF Eligible(r) /\ ~Exhausted(r)
       THEN /\ row' = [row EXCEPT ![r] = [status |-> "CLAIMED", attempts |-> row[r].attempts + 1,
                                          due |-> Later(job[j].at, Lease)]]
            /\ job' = [job EXCEPT ![j] =
                         Job("send", j, job[j].left - 1, r, row[r].attempts + 1)]
       ELSE /\ Settled(r, "FAILED")
            /\ job' = [job EXCEPT ![j] = Job("claim", j, job[j].left - 1, None, 0)]
  /\ UNCHANGED <<now, world, receipts, taken, crashes>>

FinishJob(j) == /\ job[j].pc = "claim"
                /\ job[j].left = 0 \/ Candidates(job[j].at) = {}
                /\ job' = [job EXCEPT ![j] = Idle]
                /\ UNCHANGED <<now, world, outbox, taken, crashes>>

\* adapter.deliver, outside any transaction; when it throws, or its receipt is
\* malformed, the provider may still have accepted the message
Deliver(j) ==
  LET r == job[j].of IN
  /\ job[j].pc = "send"
  /\ \E accepted, answered \in BOOLEAN :
       /\ answered => accepted
       /\ taken' = IF accepted THEN taken \cup {r} ELSE taken
       /\ Becomes(IF answered THEN "accepted" ELSE "failed", j)
  /\ UNCHANGED <<now, world, outbox, crashes>>

\* mutant: any claim of the row will do
Holds_AnyClaim(j) == row[job[j].of].status = "CLAIMED"
Holds(j) == LET r == job[j].of IN
            row[r].status = "CLAIMED" /\ row[r].attempts = job[j].token

Receive(r) == receipts' = receipts \cup {r}

\* finalizeClaimedActionReminder, with the receipt in the same transaction
Finalize(j) ==
  LET r == job[j].of IN
  /\ job[j].pc = "accepted" /\ Holds(j)
  /\ IF Eligible(r) THEN Settled(r, "DELIVERED") /\ Receive(r)
                    ELSE Settled(r, "FAILED") /\ UNCHANGED receipts
  /\ NextMessage(j)
  /\ UNCHANGED <<now, world, taken, crashes>>

\* recordClaimedActionReminderFailure
RecordFailure(j) ==
  LET r == job[j].of IN
  /\ job[j].pc = "failed" /\ Holds(j)
  /\ IF Eligible(r) /\ ~Exhausted(r)
     THEN row' = [row EXCEPT ![r] =
            Row("PENDING", r, Later(job[j].at, RetryBase * 2 ^ (row[r].attempts - 1)))]
     ELSE Settled(r, "FAILED")
  /\ NextMessage(j)
  /\ UNCHANGED <<now, world, receipts, taken, crashes>>

\* the claim is no longer authoritative: both throw, which ends the job
AbandonClaim(j) == /\ job[j].pc \in {"accepted", "failed"} /\ ~Holds(j)
                   /\ job' = [job EXCEPT ![j] = Idle]
                   /\ UNCHANGED <<now, world, outbox, taken, crashes>>

Crash(j) == /\ job[j] # Idle /\ crashes < MaxCrashes
            /\ job' = [job EXCEPT ![j] = Idle]
            /\ crashes' = crashes + 1
            /\ UNCHANGED <<now, world, outbox, taken>>

JobStep(j) == Prepare(j) \/ PrepareThrows(j) \/ Claim(j) \/ FinishJob(j) \/ Deliver(j)
              \/ Finalize(j) \/ RecordFailure(j) \/ AbandonClaim(j)

Next == \/ Tick \/ QueueDueReminders
        \/ \E t \in Tasks : CompleteTask(t) \/ ReopenTask(t) \/ RevokeAssignment(t)
        \/ \E place \in Places : Outgrow(place)
        \/ \E j \in Jobs : StartJob(j) \/ JobStep(j) \/ Crash(j)

\* time passes, cron starts the job again and again, and a job that was started
\* goes on unless it dies
Fairness == WF_vars(Tick) /\ \A j \in Jobs : WF_vars(StartJob(j)) /\ WF_vars(JobStep(j))

Spec == Init /\ [][Next]_vars /\ Fairness

(***************************************************************************)
(* Properties                                                              *)
(***************************************************************************)
\* A job that comes back late from the provider changes nothing: a claimed row
\* is settled or released by the job of its last claim, or taken over once its
\* lease has run out.
OnlyTheClaimantSettles ==
  [][\A r \in Reminders : row[r].status = "CLAIMED" /\ row'[r] # row[r] =>
       \/ row[r].due <= now
       \/ \E j \in Jobs : job[j].of = r /\ job[j].token = row[r].attempts /\ job'[j] # job[j]]_vars

Promise == INSTANCE ReminderPromise WITH
  halted  <- overgrown # {},
  wanted  <- {r \in Reminders : r[1] \in open \cap current},
  owed    <- {r \in Reminders : row[r].status \in {"PENDING", "CLAIMED"}},
  told    <- {r \in Reminders : row[r].status = "DELIVERED"},
  dropped <- {r \in Reminders : row[r].status = "FAILED"}

\* The outbox implements ReminderPromise: every reminder that was queued ends as
\* delivered or as failed as long as no scan exceeds its limits, it stays what it
\* ended as, and only one that the provider took, of an open task of a current
\* speaker, ends as delivered.  Once a limit is exceeded every job ends in
\* PrepareThrows and what is queued may stay so for ever, in all events.
PromiseKept == Promise!Spec
=============================================================================
