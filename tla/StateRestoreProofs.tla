------------------------- MODULE StateRestoreProofs -------------------------
(***************************************************************************)
(* Proofs about StateRestore for any processes and every bound on          *)
(* restores, writes, builds, backups and losses.                           *)
(***************************************************************************)
EXTENDS StateRestore, TLAPS

Guarded == {"start", "serving", "backup", "copying", "build"}
Leased  == {"leased", "prepared", "published", "direct", "recovering", "recover", "closing"}
Begun   == {"checked", "leased", "prepared"}
LockOf(where) == IF where \in {"start", "serving"} THEN "start"
                 ELSE IF where = "build" THEN "build" ELSE "backup"

\* A plain lock is that of the one process at work under it, which may go on.
Holding == /\ \A p \in Procs : pc[p] \in Guarded => lock = LockOf(pc[p])
           /\ \A p, q \in Procs : pc[p] \in Guarded /\ pc[q] \in Guarded => p = q
           /\ server => lock = "start"
           /\ \A p \in Procs : pc[p] = "start" => ~server
           /\ \A p \in Procs : pc[p] = "opening" => job[p].cmd \in Plain
           /\ \A p \in Procs : pc[p] = "build" => build <= MaxBuilds

\* The lease is that of the one process at work on a restore, whose lock stays.
Leasing == /\ \A p \in Procs : lease = p <=> pc[p] \in Leased
           /\ \A p \in Procs : pc[p] \in {"published", "direct", "recover"} => lock = "restore"

\* the receipts in the trees that are kept
IsCompleted(o) == \/ active # Absent /\ o \in active.completed
                  \/ \E q \in Ops : prior[q] # Absent /\ o \in prior[q].completed
IsAborted(o) == \/ active # Absent /\ o \in active.aborted
                \/ \E q \in Ops : prior[q] # Absent /\ o \in prior[q].aborted
Fit == active # Absent /\ active.whole /\ ~active.manifest

\* Every restore but the one of the journal is settled.
Attested ==
  /\ \A o \in Ops \ {Op} : stage[o] = Absent /\ (prior[o] # Absent <=> IsCompleted(o))
  /\ \A o \in Ops : ~(IsCompleted(o) /\ IsAborted(o))
  /\ \A o \in Ops : stage[o] # Absent => stage[o].completed = {} /\ stage[o].aborted = {}
  /\ lock # "restore" => Fit

\* The restore of the journal, before the active tree is moved and after it
\* was aborted.
Staged == /\ journal.phase \in {"staging", "aborted"} =>
               Fit /\ prior[Op] = Absent /\ ~IsCompleted(Op)
          /\ journal.phase = "staging" /\ IsAborted(Op) =>
               stage[Op] = Absent /\ \A p \in Procs : pc[p] \notin {"published", "direct"}
          /\ journal.phase = "aborted" => stage[Op] = Absent

\* The restore of the journal from then on.
Moved == /\ journal.phase = "prepared" => (active = Absent <=> prior[Op] # Absent)
         /\ journal.phase \in {"prepared", "prior-moved"} => ~IsCompleted(Op)
         /\ journal.phase \in {"prepared", "prior-moved", "installed"} => ~IsAborted(Op)
         /\ journal.phase \in {"prior-moved", "installed", "committed"} => prior[Op] # Absent
         /\ journal.phase \in {"installed", "committed"} =>
              stage[Op] = Absent /\ active # Absent /\ active.whole
         /\ journal.phase = "committed" => Op \in active.completed

\* An identity that has no journal yet is nowhere on record.
Unused(o) == o # Op /\ ~IsCompleted(o) /\ ~IsAborted(o)
Drawn == /\ \A o \in Ops : o > restores => Unused(o)
         /\ \A p \in Procs : pc[p] \in Begun => job[p].op \in 1..restores /\ Unused(job[p].op)
         /\ \A p, q \in Procs :
              pc[p] \in Begun /\ pc[q] \in Begun /\ p # q => job[p].op # job[q].op

\* Nothing is younger than the last write.
Dated == /\ active # Absent => active.data <= writes
         /\ \A o \in Ops : stage[o] # Absent => stage[o].data <= writes
         /\ journal.data <= writes
         /\ \A p \in Procs : job[p].data <= writes
         /\ \A b \in backups : b.database <= writes

\* What a backup has copied is what the database still belongs to.
Copied == /\ \A p \in Procs : pc[p] = "copying" => job[p].data = active.data
          /\ \A b \in backups : b.artifacts = b.database

IInv == TypeOK /\ Holding /\ Leasing /\ Attested /\ Staged /\ Moved /\ Drawn /\ Dated /\ Copied

USE DEF lockVars, rootVars, runVars, kitVars, Go, Finish, GiveUp, ReleaseLock, Moves, Records,
        Op, Phase, Owns

(***************************************************************************)
(* Locks                                                                   *)
(***************************************************************************)
LEMMA HoldingStep == TypeOK /\ Holding /\ Leasing /\ [Next]_vars => Holding'
<1> SUFFICES ASSUME TypeOK, Holding, Leasing, [Next]_vars PROVE Holding'
  OBVIOUS
<1> USE DEF TypeOK, Holding, Guarded, LockOf, Plain
<1>1. ASSUME NEW p \in Procs, Command(p) PROVE Holding'
  <2>1. CASE TakeLock(p)  BY <2>1 DEF TakeLock, Creatable, Bounded, NoJob, Job
  <2>2. CASE LockTaken(p)  BY <2>2 DEF LockTaken, NoJob, Job
  <2>3. CASE Launch(p)  BY <2>3 DEF Launch
  <2>4. CASE LaunchFails(p)  BY <2>4 DEF LaunchFails, NoJob, Job
  <2>5. CASE CopyArtifacts(p) \/ NothingToCopy(p)
    BY <2>5 DEF CopyArtifacts, NothingToCopy, NoJob, Job
  <2>6. CASE FinishBuild(p)  BY <2>6 DEF FinishBuild, NoJob, Job
  <2>7. CASE \E ok \in BOOLEAN : FinishBackup(p, ok)  BY <2>7 DEF FinishBackup, NoJob, Job
  <2>8. QED  BY <1>1, <2>1, <2>2, <2>3, <2>4, <2>5, <2>6, <2>7 DEF Command
<1>2. ASSUME NEW p \in Procs, Begins(p) PROVE Holding'
  BY <1>2 DEF Begins, EnterLease, TurnedAway, Prepare, NotPrepared, Publish, PublishFails, Unalias,
              Creatable, NoJob, Job
<1>3. ASSUME NEW p \in Procs, Stages(p) \/ Advances(p) \/ Aborts(p) PROVE Holding'
  BY <1>3 DEF Stages, Advances, Aborts, StartStage, FillStage, RecordPrepared, MovePrior,
              RecordPriorMoved, Install, RecordInstalled, IssueCompleted, RecordCommitted,
              DropManifest, RemoveStage, IssueAborted, RecordAborted
<1>4. ASSUME NEW p \in Procs, Ends(p) PROVE Holding'
  BY <1>4 DEF Ends, Unreadable, RemoveJournal, ReleaseLease, Advancing, NoJob, Job
<1>5. ASSUME NEW p \in Procs, Recovers(p) PROVE Holding'
  BY <1>5 DEF Recovers, Recover, DropPreparation, DropAlias, ReadJournal, RefuseRecovery, NoJob, Job
<1>6. ASSUME NEW p \in Procs, NEW cmd \in Plain, Open(p, cmd) PROVE Holding'
  BY <1>6 DEF Open, Job
<1>7. ASSUME NEW p \in Procs, NEW b \in backups, Inspect(p, b) PROVE Holding'
  BY <1>7 DEF Inspect, Job
<1>8. ASSUME NEW p \in Procs, NEW ok \in BOOLEAN, StopServer(p, ok) PROVE Holding'
  BY <1>8 DEF StopServer, NoJob, Job
<1>9. ASSUME NEW p \in Procs, NEW half \in BOOLEAN, Gone(p, half) PROVE Holding'
  BY <1>9 DEF Gone, NoJob, Job
<1>10. CASE ServerWrites \/ OrphanExits
  BY <1>10 DEF ServerWrites, OrphanExits
<1>11. CASE UNCHANGED vars
  BY <1>11 DEF vars
<1>12. QED
  BY <1>1, <1>2, <1>3, <1>4, <1>5, <1>6, <1>7, <1>8, <1>9, <1>10, <1>11 DEF Next, Goes

LEMMA LeasingStep == TypeOK /\ Holding /\ Leasing /\ [Next]_vars => Leasing'
<1> SUFFICES ASSUME TypeOK, Holding, Leasing, [Next]_vars PROVE Leasing'
  OBVIOUS
<1> USE NoProcAssumption DEF TypeOK, Leasing, Leased, Plain
<1>1. ASSUME NEW p \in Procs, Command(p) PROVE Leasing'
  <2>1. CASE TakeLock(p)
    BY <2>1 DEF TakeLock, Creatable, Holding
  <2>2. CASE LockTaken(p) \/ Launch(p) \/ CopyArtifacts(p)
    BY <2>2 DEF LockTaken, Launch, CopyArtifacts
  <2>3. CASE LaunchFails(p) \/ NothingToCopy(p) \/ FinishBuild(p)
             \/ \E ok \in BOOLEAN : FinishBackup(p, ok)
    BY <2>3 DEF LaunchFails, NothingToCopy, FinishBuild, FinishBackup, Holding, Guarded, LockOf
  <2>4. QED  BY <1>1, <2>1, <2>2, <2>3 DEF Command
<1>2. ASSUME NEW p \in Procs, Begins(p) PROVE Leasing'
  BY <1>2 DEF Begins, EnterLease, TurnedAway, Prepare, NotPrepared, Publish, PublishFails, Unalias,
              LeaseFree
<1>3. ASSUME NEW p \in Procs, Stages(p) \/ Advances(p) \/ Aborts(p) PROVE Leasing'
  BY <1>3 DEF Stages, Advances, Aborts, StartStage, FillStage, RecordPrepared, MovePrior,
              RecordPriorMoved, Install, RecordInstalled, IssueCompleted, RecordCommitted,
              DropManifest, RemoveStage, IssueAborted, RecordAborted
<1>4. ASSUME NEW p \in Procs, Ends(p) PROVE Leasing'
  BY <1>4 DEF Ends, Unreadable, RemoveJournal, ReleaseLease, Advancing
<1>5. ASSUME NEW p \in Procs, Recovers(p) PROVE Leasing'
  BY <1>5 DEF Recovers, Recover, DropPreparation, DropAlias, ReadJournal, RefuseRecovery, LeaseFree
<1>6. ASSUME NEW p \in Procs, NEW cmd \in Plain, Open(p, cmd) PROVE Leasing'
  BY <1>6 DEF Open
<1>7. ASSUME NEW p \in Procs, NEW b \in backups, Inspect(p, b) PROVE Leasing'
  BY <1>7 DEF Inspect
<1>8. ASSUME NEW p \in Procs, NEW ok \in BOOLEAN, StopServer(p, ok) PROVE Leasing'
  BY <1>8 DEF StopServer, Holding, Guarded, LockOf
<1>9. ASSUME NEW p \in Procs, NEW half \in BOOLEAN, Gone(p, half) PROVE Leasing'
  BY <1>9 DEF Gone
<1>10. CASE ServerWrites \/ OrphanExits
  BY <1>10 DEF ServerWrites, OrphanExits
<1>11. CASE UNCHANGED vars
  BY <1>11 DEF vars
<1>12. QED
  BY <1>1, <1>2, <1>3, <1>4, <1>5, <1>6, <1>7, <1>8, <1>9, <1>10, <1>11 DEF Next, Goes

(***************************************************************************)
(* Backups                                                                 *)
(***************************************************************************)
LEMMA CopiedStep == TypeOK /\ Holding /\ Leasing /\ Copied /\ [Next]_vars => Copied'
<1> SUFFICES ASSUME TypeOK, Holding, Leasing, Copied, [Next]_vars PROVE Copied'
  OBVIOUS
<1> USE DEF TypeOK, Copied, Holding, Guarded, LockOf, Plain
<1>1. ASSUME NEW p \in Procs, Command(p) PROVE Copied'
  <2>1. CASE TakeLock(p) \/ LockTaken(p)
    BY <2>1 DEF TakeLock, LockTaken, NoJob, Job
  <2>2. CASE Launch(p) \/ LaunchFails(p)
    BY <2>2 DEF Launch, LaunchFails, NoJob, Job
  <2>3. CASE CopyArtifacts(p) \/ NothingToCopy(p) \/ FinishBuild(p)
    BY <2>3 DEF CopyArtifacts, NothingToCopy, FinishBuild, NoJob, Job
  <2>4. CASE \E ok \in BOOLEAN : FinishBackup(p, ok)
    BY <2>4 DEF FinishBackup, NoJob, Job, Noted
  <2>5. QED  BY <1>1, <2>1, <2>2, <2>3, <2>4 DEF Command
<1>2. ASSUME NEW p \in Procs, Begins(p) PROVE Copied'
  BY <1>2 DEF Begins, EnterLease, TurnedAway, Prepare, NotPrepared, Publish, PublishFails, Unalias,
              NoJob, Job
<1>3. ASSUME NEW p \in Procs, Stages(p) \/ Advances(p) \/ Aborts(p) PROVE Copied'
  BY <1>3 DEF Stages, Advances, Aborts, StartStage, FillStage, RecordPrepared, MovePrior,
              RecordPriorMoved, Install, RecordInstalled, IssueCompleted, RecordCommitted,
              DropManifest, RemoveStage, IssueAborted, RecordAborted
<1>4. ASSUME NEW p \in Procs, Ends(p) \/ Recovers(p) PROVE Copied'
  BY <1>4 DEF Ends, Unreadable, RemoveJournal, ReleaseLease, NoJob, Job,
              Recovers, Recover, DropPreparation, DropAlias, ReadJournal, RefuseRecovery
<1>5. ASSUME NEW p \in Procs, NEW cmd \in Plain, Open(p, cmd) PROVE Copied'
  BY <1>5 DEF Open, Job
<1>6. ASSUME NEW p \in Procs, NEW b \in backups, Inspect(p, b) PROVE Copied'
  BY <1>6 DEF Inspect, Job
<1>7. ASSUME NEW p \in Procs, NEW ok \in BOOLEAN, StopServer(p, ok) PROVE Copied'
  BY <1>7 DEF StopServer, NoJob, Job
<1>8. ASSUME NEW p \in Procs, NEW half \in BOOLEAN, Gone(p, half) PROVE Copied'
  BY <1>8 DEF Gone, NoJob, Job
<1>9. CASE ServerWrites \/ OrphanExits
  BY <1>9 DEF ServerWrites, OrphanExits
<1>10. CASE UNCHANGED vars
  BY <1>10 DEF vars
<1>11. QED
  BY <1>1, <1>2, <1>3, <1>4, <1>5, <1>6, <1>7, <1>8, <1>9, <1>10 DEF Next, Goes

(***************************************************************************)
(* Ages                                                                    *)
(***************************************************************************)
LEMMA DatedStep == TypeOK /\ Holding /\ Attested /\ Dated /\ [Next]_vars => Dated'
<1> SUFFICES ASSUME TypeOK, Holding, Attested, Dated, [Next]_vars PROVE Dated'
  OBVIOUS
<1> USE BoundAssumption DEF TypeOK, Dated, Elsewhere
<1>a. active # Absent => active \in Tree
  OBVIOUS
<1>b. \A o \in Ops : stage[o] # Absent => stage[o] \in Tree
  OBVIOUS
<1>c. lock \in Plain => active # Absent
  BY DEF Attested, Fit, Plain
<1> HIDE DEF TypeOK
<1>d. /\ job \in [Procs -> [cmd : Plain \cup {"none"}, op : 0..MaxRestores,
                          data : Elsewhere..MaxWrites, build : Builds]]
      /\ writes \in 0..MaxWrites /\ journal.data \in Elsewhere..MaxWrites
      /\ pc \in [Procs -> Pcs]
      /\ stage \in [Ops -> Tree \cup {Absent}]
      /\ backups \subseteq [artifacts : Elsewhere..MaxWrites, database : Elsewhere..MaxWrites]
  BY DEF TypeOK, NoJournal
<1>e. \A t \in Tree : t.data \in Elsewhere..MaxWrites
  BY DEF Tree
<1> USE <1>a, <1>b, <1>c, <1>d, <1>e DEF NoJob, Job
<1>1. ASSUME NEW p \in Procs, Command(p) PROVE Dated'
  <2>1. CASE TakeLock(p) \/ LockTaken(p)
    BY <2>1 DEF TakeLock, LockTaken
  <2>2. CASE Launch(p) \/ LaunchFails(p)
    BY <2>2 DEF Launch, LaunchFails, Noted, Holding, Guarded, LockOf, Plain
  <2>3. CASE CopyArtifacts(p) \/ NothingToCopy(p) \/ FinishBuild(p)
    BY <2>3 DEF CopyArtifacts, NothingToCopy, FinishBuild, Holding, Guarded, LockOf, Plain
  <2>4. CASE \E ok \in BOOLEAN : FinishBackup(p, ok)
    BY <2>4 DEF FinishBackup, Noted, Holding, Guarded, LockOf, Plain
  <2>5. QED  BY <1>1, <2>1, <2>2, <2>3, <2>4 DEF Command
<1>2. ASSUME NEW p \in Procs, Begins(p) PROVE Dated'
  BY <1>2 DEF Begins, EnterLease, TurnedAway, Prepare, NotPrepared, Publish, PublishFails, Unalias
<1>3. ASSUME NEW p \in Procs, Stages(p) PROVE Dated'
  BY <1>3 DEF Stages, StartStage, FillStage, RecordPrepared, Partial, Restored
<1>4. ASSUME NEW p \in Procs, Advances(p) PROVE Dated'
  <2>1. CASE MovePrior(p) \/ RecordPriorMoved(p) \/ RecordInstalled(p) \/ RecordCommitted(p)
    BY <2>1 DEF MovePrior, RecordPriorMoved, RecordInstalled, RecordCommitted
  <2>2. CASE Install(p)  BY <2>2 DEF Install, Payload
  <2>3. CASE IssueCompleted(p) \/ DropManifest(p)
    BY <2>3 DEF IssueCompleted, IssuesCompleted, DropManifest, Payload, Received, Unmarked
  <2>4. QED  BY <1>4, <2>1, <2>2, <2>3 DEF Advances
<1>5. ASSUME NEW p \in Procs, Aborts(p) PROVE Dated'
  BY <1>5 DEF Aborts, RemoveStage, IssueAborted, IssuesAborted, RecordAborted, Received
<1>6. ASSUME NEW p \in Procs, Ends(p) \/ Recovers(p) PROVE Dated'
  BY <1>6 DEF Ends, Unreadable, RemoveJournal, ReleaseLease, NoJournal,
              Recovers, Recover, DropPreparation, DropAlias, ReadJournal, RefuseRecovery
<1>7. ASSUME NEW p \in Procs, NEW cmd \in Plain, Open(p, cmd) PROVE Dated'
  BY <1>7 DEF Open
<1>8. ASSUME NEW p \in Procs, NEW b \in backups, Inspect(p, b) PROVE Dated'
  BY <1>8 DEF Inspect
<1>9. ASSUME NEW p \in Procs, NEW ok \in BOOLEAN, StopServer(p, ok) PROVE Dated'
  BY <1>9 DEF StopServer, Noted, Holding, Guarded, LockOf, Plain
<1>10. ASSUME NEW p \in Procs, NEW half \in BOOLEAN, Gone(p, half) PROVE Dated'
  BY <1>10 DEF Gone, Noted, IssuesCompleted, IssuesAborted, Payload
<1>11. CASE ServerWrites \/ OrphanExits
  BY <1>11 DEF ServerWrites, OrphanExits, Written
<1>12. CASE UNCHANGED vars
  BY <1>12 DEF vars
<1>13. QED
  BY <1>1, <1>2, <1>3, <1>4, <1>5, <1>6, <1>7, <1>8, <1>9, <1>10, <1>11, <1>12 DEF Next, Goes

(***************************************************************************)
(* Trees                                                                   *)
(***************************************************************************)
LEMMA WrittenType ==
  ASSUME NEW t \in Tree, NEW d \in Elsewhere..MaxWrites
  PROVE  Written(t, d) \in Tree
BY DEF Written, Tree

LEMMA NotedType ==
  ASSUME NEW t \in Tree, NEW ok \in BOOLEAN
  PROVE  Noted(t, ok) \in Tree
BY DEF Noted, Tree

LEMMA ReceivedType ==
  ASSUME NEW t \in Tree, NEW c \in SUBSET Ops, NEW a \in SUBSET Ops
  PROVE  Received(t, c, a) \in Tree
BY DEF Received, Tree

LEMMA UnmarkedType ==
  ASSUME NEW t \in Tree
  PROVE  Unmarked(t) \in Tree
BY DEF Unmarked, Tree

\* What a step leaves alone that is not one of a restore with a journal: the
\* active tree may get younger data and receipts of other kinds.
SameTree(u, t) == /\ u = Absent <=> t = Absent
                  /\ t # Absent => /\ u.whole = t.whole /\ u.manifest = t.manifest
                                   /\ u.completed = t.completed /\ u.aborted = t.aborted
                                   /\ u.data >= t.data
Quiet == /\ UNCHANGED <<stage, prior, journal>>
         /\ SameTree(active', active)
         /\ lock' = "restore" <=> lock = "restore"
         /\ \A p \in Procs : pc'[p] \in {"published", "direct"} => pc[p] \in {"published", "direct"}

Journaled(p) == Publish(p) \/ Stages(p) \/ Advances(p) \/ Aborts(p) \/ RemoveJournal(p)

LEMMA QuietSteps ==
  ASSUME TypeOK, Holding, Leasing, Attested, Dated, [Next]_vars, \A p \in Procs : ~Journaled(p)
  PROVE  Quiet
<1>a. active # Absent => active \in Tree
  BY DEF TypeOK
<1>b. lock \in Plain => active \in Tree
  BY <1>a DEF Attested, Fit, Plain
<1>c. ASSUME NEW ok \in BOOLEAN, active \in Tree, active' = Noted(active, ok)
      PROVE  SameTree(active', active)
  <2>1. active # Absent /\ active' # Absent
    BY <1>c, NotedType, AbsentAssumption
  <2>2. active.data >= active.data  BY <1>c DEF Tree, Elsewhere
  <2>3. QED  BY <1>c, <2>1, <2>2 DEF SameTree, Noted
<1>d. active' = active => SameTree(active', active)
  <2>1. active # Absent => active.data >= active.data  BY <1>a DEF Tree, Elsewhere
  <2>2. QED  BY <2>1 DEF SameTree
<1>e. pc \in [Procs -> Pcs]
  BY DEF TypeOK
<1> USE <1>e DEF Quiet
<1>1. ASSUME NEW p \in Procs, Command(p) PROVE Quiet
  <2>1. CASE Launch(p) \/ LaunchFails(p) \/ \E ok \in BOOLEAN : FinishBackup(p, ok)
    BY <2>1, <1>b, <1>c DEF Launch, LaunchFails, FinishBackup, Holding, Guarded, LockOf, Plain
  <2>2. CASE TakeLock(p)
    BY <2>2, <1>d DEF TakeLock, Creatable, Holding, Plain
  <2>3. CASE LockTaken(p) \/ CopyArtifacts(p) \/ NothingToCopy(p) \/ FinishBuild(p)
    BY <2>3, <1>d DEF LockTaken, CopyArtifacts, NothingToCopy, FinishBuild, Holding, Guarded, LockOf
  <2>4. QED  BY <1>1, <2>1, <2>2, <2>3 DEF Command
<1>2. ASSUME NEW p \in Procs, Begins(p), ~Publish(p) PROVE Quiet
  BY <1>2, <1>d DEF Begins, EnterLease, TurnedAway, Prepare, NotPrepared, PublishFails, Unalias
<1>3. ASSUME NEW p \in Procs, Unreadable(p) \/ ReleaseLease(p) \/ Recovers(p) PROVE Quiet
  BY <1>3, <1>d DEF Unreadable, ReleaseLease, Recovers, Recover, DropPreparation, DropAlias,
                    ReadJournal, RefuseRecovery
<1>4. ASSUME NEW p \in Procs, NEW cmd \in Plain, Open(p, cmd) PROVE Quiet
  BY <1>4, <1>d DEF Open
<1>5. ASSUME NEW p \in Procs, NEW b \in backups, Inspect(p, b) PROVE Quiet
  BY <1>5, <1>d DEF Inspect
<1>6. ASSUME NEW p \in Procs, NEW ok \in BOOLEAN, StopServer(p, ok) PROVE Quiet
  BY <1>6, <1>b, <1>c DEF StopServer, Holding, Guarded, LockOf, Plain
<1>7. ASSUME NEW p \in Procs, NEW half \in BOOLEAN, Gone(p, half) PROVE Quiet
  <2>1. CASE half
    BY <1>7, <2>1, <1>a, <1>c DEF Gone, IssuesCompleted, IssuesAborted, Payload
  <2>2. CASE ~half
    BY <1>7, <2>2, <1>d DEF Gone
  <2>3. QED  BY <2>1, <2>2
<1>8. CASE ServerWrites
  <2>1. active \in Tree /\ active' = Written(active, writes + 1)
    BY <1>8, <1>b DEF ServerWrites, Holding, Plain
  <2>2. writes + 1 \in Elsewhere..MaxWrites
    BY <1>8, BoundAssumption DEF ServerWrites, TypeOK, Elsewhere
  <2>3. active # Absent /\ active' # Absent
    BY <2>1, <2>2, WrittenType, AbsentAssumption
  <2>4. writes + 1 >= active.data
    BY <2>1, <2>3 DEF Dated, TypeOK, Tree, Elsewhere
  <2>5. SameTree(active', active)
    BY <2>1, <2>3, <2>4 DEF SameTree, Written
  <2>6. QED  BY <1>8, <2>5 DEF ServerWrites
<1>9. CASE OrphanExits
  BY <1>9, <1>d DEF OrphanExits
<1>10. CASE UNCHANGED vars
  BY <1>10, <1>d DEF vars
<1>11. QED
  BY <1>1, <1>2, <1>3, <1>4, <1>5, <1>6, <1>7, <1>8, <1>9, <1>10
  DEF Next, Goes, Journaled, Ends

(***************************************************************************)
(* Receipts and where the trees are                                        *)
(***************************************************************************)
SameReceipts == \A o \in Ops : /\ IsCompleted(o)' <=> IsCompleted(o)
                               /\ IsAborted(o)' <=> IsAborted(o)

LEMMA QuietReceipts ==
  ASSUME UNCHANGED prior, SameTree(active', active)
  PROVE  SameReceipts
BY DEF SameReceipts, SameTree, IsCompleted, IsAborted

\* the types the steps of a journal start from
LEMMA JournalTypes ==
  ASSUME TypeOK, lock = "restore"
  PROVE  /\ Op \in Ops /\ journal.phase \in Phases /\ journal.data \in Elsewhere..MaxWrites
         /\ journal.build \in Builds
         /\ active # Absent => active \in Tree
         /\ stage \in [Ops -> Tree \cup {Absent}] /\ prior \in [Ops -> Tree \cup {Absent}]
         /\ stage[Op] # Absent => stage[Op] \in Tree
         /\ pc \in [Procs -> Pcs]
BY DEF TypeOK

LEMMA MovedReceipts ==
  ASSUME TypeOK, Attested, NEW p \in Procs, MovePrior(p) \/ Install(p)
  PROVE  SameReceipts
<1>1. CASE MovePrior(p)
  <2>1. /\ Op \in Ops /\ active # Absent /\ prior[Op] = Absent
        /\ prior \in [Ops -> Tree \cup {Absent}]
        /\ active' = Absent /\ prior' = [prior EXCEPT ![Op] = active]
    BY <1>1, JournalTypes DEF MovePrior
  <2>2. QED  BY <2>1 DEF SameReceipts, IsCompleted, IsAborted
<1>2. CASE Install(p)
  <2>1. /\ Op \in Ops /\ active = Absent /\ stage[Op] # Absent
        /\ active' = stage[Op] /\ UNCHANGED prior
    BY <1>2, JournalTypes DEF Install, Payload
  <2>2. active'.completed = {} /\ active'.aborted = {}
    BY <2>1 DEF Attested
  <2>3. QED  BY <2>1, <2>2 DEF SameReceipts, IsCompleted, IsAborted
<1>3. QED  BY <1>1, <1>2

LEMMA CompletionReceipt ==
  ASSUME active \in Tree, Op \in Ops, active' = Received(active, {Op}, {}), UNCHANGED prior
  PROVE  /\ active' # Absent
         /\ \A o \in Ops : /\ IsCompleted(o)' <=> IsCompleted(o) \/ o = Op
                           /\ IsAborted(o)' <=> IsAborted(o)
<1>1. active' \in Tree /\ active # Absent /\ active' # Absent
  BY ReceivedType, AbsentAssumption
<1>2. QED  BY <1>1 DEF Received, IsCompleted, IsAborted

LEMMA AbortReceipt ==
  ASSUME active \in Tree, Op \in Ops, active' = Received(active, {}, {Op}), UNCHANGED prior
  PROVE  /\ active' # Absent
         /\ \A o \in Ops : /\ IsCompleted(o)' <=> IsCompleted(o)
                           /\ IsAborted(o)' <=> IsAborted(o) \/ o = Op
<1>1. active' \in Tree /\ active # Absent /\ active' # Absent
  BY ReceivedType, AbsentAssumption
<1>2. QED  BY <1>1 DEF Received, IsCompleted, IsAborted

LEMMA QuietTopology ==
  ASSUME TypeOK, Attested, Staged, Moved, Quiet
  PROVE  Attested' /\ Staged' /\ Moved'
<1>1. SameReceipts
  BY QuietReceipts DEF Quiet
<1>2. Attested'
  BY <1>1 DEF Quiet, Attested, SameReceipts, SameTree, Fit
<1>3. journal # NoJournal => Op \in Ops
  BY DEF TypeOK
<1>4. journal = NoJournal => journal.phase = "none"
  BY DEF NoJournal
<1>5. Staged'
  BY <1>1, <1>3, <1>4 DEF Quiet, Staged, SameReceipts, SameTree, Fit
<1>6. Moved'
  BY <1>1, <1>3, <1>4 DEF Quiet, Moved, SameReceipts, SameTree
<1>7. QED  BY <1>2, <1>5, <1>6

\* Each step of a restore with a journal takes the trees from one of the
\* places its phase allows to another.
LEMMA JournalTopology ==
  ASSUME TypeOK, Leasing, Attested, Staged, Moved, Drawn, NEW p \in Procs, Journaled(p)
  PROVE  Attested' /\ Staged' /\ Moved'
<1>a. \A q \in Procs : pc[p] \in Leased /\ q # p => pc[q] \notin Leased
  BY DEF Leasing
<1> USE DEF Leased, Advancing
<1>b. UNCHANGED <<active, prior>> => SameReceipts
  BY DEF SameReceipts, IsCompleted, IsAborted
<1>1. CASE Publish(p)
  <2> DEFINE o == job[p].op
  <2>1. o \in 1..restores /\ Unused(o)
    BY <1>1 DEF Publish, Drawn, Begun
  <2>2. o \in Ops /\ o # Op
    BY <2>1, BoundAssumption DEF TypeOK, Ops, Unused
  <2>3. /\ lock # "restore" /\ lock' = "restore" /\ journal'.op = o /\ journal'.phase = "staging"
        /\ UNCHANGED rootVars
    BY <1>1 DEF Publish, Creatable
  <2>4. stage[o] = Absent /\ prior[o] = Absent /\ ~IsCompleted(o) /\ ~IsAborted(o) /\ Fit
    BY <2>1, <2>2, <2>3 DEF Attested, Unused
  <2>5. SameReceipts  BY <2>3, <1>b
  <2>6. \A q \in Ops : stage[q] = Absent /\ (prior[q] # Absent <=> IsCompleted(q))
    BY <2>3 DEF Attested, TypeOK, Ops, NoJournal
  <2>7. Attested'
    BY <2>2, <2>3, <2>4, <2>5, <2>6 DEF Attested, SameReceipts
  <2>8. Staged' /\ Moved'
    BY <2>2, <2>3, <2>4, <2>5 DEF Staged, Moved, SameReceipts, Fit
  <2>9. QED  BY <2>7, <2>8
<1>2. CASE Stages(p)
  <2>1. /\ lock = "restore" /\ journal.phase = "staging" /\ pc[p] = "direct"
        /\ UNCHANGED <<active, prior, lock, pc>> /\ journal'.op = Op
    BY <1>2 DEF Stages, StartStage, FillStage, RecordPrepared
  <2>2. SameReceipts  BY <2>1, <1>b
  <2>3. Op \in Ops /\ stage \in [Ops -> Tree \cup {Absent}]
    BY <2>1, JournalTypes
  <2>4. ~IsAborted(Op) /\ ~IsCompleted(Op) /\ Fit /\ prior[Op] = Absent
    BY <2>1 DEF Staged
  <2>5. \A q \in Ops : q # Op => stage'[q] = stage[q]
    BY <1>2, <2>3 DEF Stages, StartStage, FillStage, RecordPrepared
  <2>6. stage'[Op] # Absent => stage'[Op].completed = {} /\ stage'[Op].aborted = {}
    BY <1>2, <2>3 DEF Stages, StartStage, FillStage, RecordPrepared, Partial, Restored, Attested
  <2>7. Attested'
    BY <2>1, <2>2, <2>3, <2>5, <2>6 DEF Attested, SameReceipts
  <2>8. journal'.phase \in {"staging", "prepared"}
    BY <1>2, <2>1 DEF Stages, StartStage, FillStage, RecordPrepared
  <2>9. Staged' /\ Moved'
    BY <2>1, <2>2, <2>3, <2>4, <2>8 DEF Staged, Moved, SameReceipts, Fit
  <2>10. QED  BY <2>7, <2>9
<1>3. CASE MovePrior(p) \/ Install(p)
  <2>1. SameReceipts  BY <1>3, MovedReceipts
  <2>2. lock = "restore"  BY <1>3 DEF MovePrior, Install
  <2>3. /\ Op \in Ops /\ stage \in [Ops -> Tree \cup {Absent}] /\ prior \in [Ops -> Tree \cup {Absent}]
    BY <2>2, JournalTypes
  <2>4. Attested'
    BY <1>3, <2>1, <2>3 DEF MovePrior, Install, Attested, SameReceipts
  <2>5. Staged' /\ Moved'
    BY <1>3, <2>1, <2>3 DEF MovePrior, Install, Staged, Moved, SameReceipts
  <2>6. QED  BY <2>4, <2>5
<1>4. CASE RecordPriorMoved(p) \/ RecordInstalled(p) \/ RecordCommitted(p) \/ RecordAborted(p)
  <2>1. lock = "restore" /\ journal'.op = Op /\ UNCHANGED <<active, prior, stage, lock, pc>>
    BY <1>4 DEF RecordPriorMoved, RecordInstalled, RecordCommitted, RecordAborted
  <2>2. SameReceipts  BY <2>1, <1>b
  <2>3. Op \in Ops  BY <2>1, JournalTypes
  <2>4. Attested'  BY <2>1, <2>2, <2>3 DEF Attested, SameReceipts
  <2>5. Staged'
    BY <1>4, <2>1, <2>2, <2>3
    DEF RecordPriorMoved, RecordInstalled, RecordCommitted, RecordAborted, Staged, SameReceipts, Fit
  <2>6. Moved'
    BY <1>4, <2>1, <2>2, <2>3
    DEF RecordPriorMoved, RecordInstalled, RecordCommitted, RecordAborted, Moved, SameReceipts, Payload
  <2>7. QED  BY <2>4, <2>5, <2>6
<1>5. CASE IssueCompleted(p)
  <2>1. /\ lock = "restore" /\ active # Absent /\ journal.phase = "installed" /\ prior[Op] # Absent
        /\ active' = Received(active, {Op}, {})
        /\ UNCHANGED <<prior, stage, lock, journal, pc>>
    BY <1>5 DEF IssueCompleted, IssuesCompleted, Payload
  <2>2. Op \in Ops /\ active \in Tree  BY <2>1, JournalTypes
  <2>3. /\ active' # Absent
        /\ \A o \in Ops : /\ IsCompleted(o)' <=> IsCompleted(o) \/ o = Op
                          /\ IsAborted(o)' <=> IsAborted(o)
    BY <2>1, <2>2, CompletionReceipt
  <2>4. Attested'  BY <2>1, <2>2, <2>3 DEF Attested, Moved
  <2>5. Staged' /\ Moved'
    BY <2>1, <2>2, <2>3 DEF Staged, Moved, Received
  <2>6. QED  BY <2>4, <2>5
<1>6. CASE DropManifest(p)
  <2>1. /\ lock = "restore" /\ active # Absent /\ journal.phase = "committed"
        /\ active' = Unmarked(active) /\ UNCHANGED <<prior, stage, lock, journal, pc>>
    BY <1>6 DEF DropManifest, Payload
  <2>2. Op \in Ops /\ active \in Tree  BY <2>1, JournalTypes
  <2>3. active' # Absent  BY <2>1, <2>2, UnmarkedType, AbsentAssumption
  <2>4. SameReceipts  BY <2>1, <2>3 DEF SameReceipts, IsCompleted, IsAborted, Unmarked
  <2>5. Attested'  BY <2>1, <2>2, <2>4 DEF Attested, SameReceipts
  <2>6. Staged' /\ Moved'
    BY <2>1, <2>2, <2>3, <2>4 DEF Staged, Moved, SameReceipts, Unmarked
  <2>7. QED  BY <2>5, <2>6
<1>7. CASE RemoveStage(p)
  <2>1. /\ lock = "restore" /\ UNCHANGED <<active, prior, lock, journal, pc>>
        /\ stage' = [stage EXCEPT ![Op] = Absent] /\ journal.phase \in {"staging", "aborted"}
    BY <1>7 DEF RemoveStage, Abortable
  <2>2. SameReceipts  BY <2>1, <1>b
  <2>3. Op \in Ops /\ stage \in [Ops -> Tree \cup {Absent}]  BY <2>1, JournalTypes
  <2>4. Attested'  BY <2>1, <2>2, <2>3 DEF Attested, SameReceipts
  <2>5. Staged' /\ Moved'
    BY <2>1, <2>2, <2>3 DEF Staged, Moved, SameReceipts, Fit
  <2>6. QED  BY <2>4, <2>5
<1>8. CASE IssueAborted(p)
  <2>1. /\ lock = "restore" /\ active # Absent /\ journal.phase \in {"staging", "aborted"}
        /\ prior[Op] = Absent /\ stage[Op] = Absent /\ pc[p] = "recover"
        /\ active' = Received(active, {}, {Op})
        /\ UNCHANGED <<prior, stage, lock, journal, pc>>
    BY <1>8 DEF IssueAborted, IssuesAborted, Abortable
  <2>2. Op \in Ops /\ active \in Tree  BY <2>1, JournalTypes
  <2>3. /\ active' # Absent
        /\ \A o \in Ops : /\ IsCompleted(o)' <=> IsCompleted(o)
                          /\ IsAborted(o)' <=> IsAborted(o) \/ o = Op
    BY <2>1, <2>2, AbortReceipt
  <2>4. Attested'  BY <2>1, <2>2, <2>3 DEF Attested, Staged
  <2>5. \A q \in Procs : pc[q] \notin {"published", "direct"}
    BY <2>1, <1>a
  <2>6. Staged' /\ Moved'
    BY <2>1, <2>2, <2>3, <2>5 DEF Staged, Moved, Received, Fit
  <2>7. QED  BY <2>4, <2>6
<1>9. CASE RemoveJournal(p)
  <2>1. /\ lock = "restore" /\ lock' = "none" /\ journal' = NoJournal
        /\ UNCHANGED <<active, prior, stage>>
        /\ \/ journal.phase = "committed" /\ prior[Op] # Absent /\ ~active.manifest
           \/ journal.phase = "aborted"
    BY <1>9 DEF RemoveJournal
  <2>2. SameReceipts  BY <2>1, <1>b
  <2>3. Op \in Ops  BY <2>1, JournalTypes
  <2>4. stage[Op] = Absent /\ (prior[Op] # Absent <=> IsCompleted(Op)) /\ Fit
    BY <2>1 DEF Staged, Moved, Fit, IsCompleted
  <2>5. Attested'
    BY <2>1, <2>2, <2>3, <2>4 DEF Attested, SameReceipts, Fit
  <2>6. Staged' /\ Moved'
    BY <2>1 DEF Staged, Moved, NoJournal
  <2>7. QED  BY <2>5, <2>6
<1>10. QED
  BY <1>1, <1>2, <1>3, <1>4, <1>5, <1>6, <1>7, <1>8, <1>9 DEF Journaled, Advances, Aborts

(***************************************************************************)
(* Identities                                                              *)
(***************************************************************************)
\* No step but an inspection draws an identity or takes one up.
LEMMA BegunStep ==
  ASSUME TypeOK, [Next]_vars, \A p \in Procs, b \in backups : ~Inspect(p, b)
  PROVE  /\ restores' = restores
         /\ \A q \in Procs : pc'[q] \in Begun => pc[q] \in Begun /\ job'[q] = job[q]
<1> DEFINE StaysPut == /\ restores' = restores
                       /\ \A q \in Procs : pc'[q] \in Begun => pc[q] \in Begun /\ job'[q] = job[q]
<1> USE DEF Begun, Plain
<1>a. pc \in [Procs -> Pcs] /\ job \in [Procs -> [cmd : Plain \cup {"none"}, op : 0..MaxRestores,
                        data : Elsewhere..MaxWrites, build : Builds]]
  BY DEF TypeOK
<1> USE <1>a
<1>1. ASSUME NEW p \in Procs, Command(p) \/ Begins(p) PROVE StaysPut
  BY <1>1 DEF Command, TakeLock, LockTaken, Launch, LaunchFails, CopyArtifacts, NothingToCopy,
              FinishBackup, FinishBuild, Begins, EnterLease, TurnedAway, Prepare, NotPrepared,
              Publish, PublishFails, Unalias
<1>2. ASSUME NEW p \in Procs, Stages(p) \/ Advances(p) \/ Aborts(p) PROVE StaysPut
  BY <1>2 DEF Stages, Advances, Aborts, StartStage, FillStage, RecordPrepared, MovePrior,
              RecordPriorMoved, Install, RecordInstalled, IssueCompleted, RecordCommitted,
              DropManifest, RemoveStage, IssueAborted, RecordAborted
<1>3. ASSUME NEW p \in Procs, Ends(p) \/ Recovers(p) PROVE StaysPut
  BY <1>3 DEF Ends, Unreadable, RemoveJournal, ReleaseLease, Recovers, Recover, DropPreparation,
              DropAlias, ReadJournal, RefuseRecovery
<1>4. ASSUME NEW p \in Procs, NEW cmd \in Plain, Open(p, cmd) PROVE StaysPut
  BY <1>4 DEF Open
<1>5. ASSUME NEW p \in Procs, NEW ok \in BOOLEAN, StopServer(p, ok) PROVE StaysPut
  BY <1>5 DEF StopServer
<1>6. ASSUME NEW p \in Procs, NEW half \in BOOLEAN, Gone(p, half) PROVE StaysPut
  BY <1>6 DEF Gone
<1>7. CASE ServerWrites \/ OrphanExits \/ UNCHANGED vars
  BY <1>7 DEF ServerWrites, OrphanExits, vars
<1>8. QED  BY <1>1, <1>2, <1>3, <1>4, <1>5, <1>6, <1>7 DEF Next, Goes

\* A step puts only the restore of the journal on record, and changes the
\* journal only by removing it or publishing one.
LEMMA UnusedStep ==
  ASSUME TypeOK, Holding, Leasing, Attested, Dated, [Next]_vars, NEW o \in Ops, Unused(o), o # Op'
  PROVE  Unused(o)'
<1>1. CASE \A p \in Procs : ~Journaled(p)
  <2>1. SameReceipts  BY <1>1, QuietSteps, QuietReceipts DEF Quiet
  <2>2. QED  BY <2>1 DEF SameReceipts, Unused
<1>2. ASSUME NEW p \in Procs, Journaled(p) PROVE Unused(o)'
  <2>1. CASE IssueCompleted(p)
    <3>1. /\ Op \in Ops /\ active \in Tree /\ active' = Received(active, {Op}, {})
          /\ UNCHANGED prior
      BY <2>1, JournalTypes DEF IssueCompleted, IssuesCompleted, Payload
    <3>2. QED  BY <3>1, CompletionReceipt DEF Unused
  <2>2. CASE IssueAborted(p)
    <3>1. /\ Op \in Ops /\ active \in Tree /\ active' = Received(active, {}, {Op})
          /\ UNCHANGED prior
      BY <2>2, JournalTypes DEF IssueAborted, IssuesAborted
    <3>2. QED  BY <3>1, AbortReceipt DEF Unused
  <2>3. CASE MovePrior(p) \/ Install(p)
    BY <2>3, MovedReceipts DEF SameReceipts, Unused
  <2>4. CASE DropManifest(p)
    <3>1. active \in Tree /\ active' = Unmarked(active) /\ UNCHANGED prior
      BY <2>4, JournalTypes DEF DropManifest, Payload
    <3>2. active # Absent /\ active' # Absent
      BY <3>1, UnmarkedType, AbsentAssumption
    <3>3. SameReceipts  BY <3>1, <3>2 DEF SameReceipts, IsCompleted, IsAborted, Unmarked
    <3>4. QED  BY <3>3 DEF SameReceipts, Unused
  <2>5. CASE UNCHANGED <<active, prior>>
    BY <2>5 DEF Unused, IsCompleted, IsAborted
  <2>6. QED
    BY <1>2, <2>1, <2>2, <2>3, <2>4, <2>5
    DEF Journaled, Publish, Stages, StartStage, FillStage, RecordPrepared, Advances,
        RecordPriorMoved, RecordInstalled, RecordCommitted, Aborts, RemoveStage, RecordAborted,
        RemoveJournal
<1>3. QED  BY <1>1, <1>2

LEMMA JournalOp ==
  ASSUME TypeOK, Holding, Leasing, Attested, Dated, [Next]_vars, \A p \in Procs : ~Publish(p)
  PROVE  Op' = Op \/ Op' = 0
<1>1. CASE \A p \in Procs : ~Journaled(p)
  BY <1>1, QuietSteps DEF Quiet
<1>2. ASSUME NEW p \in Procs, Journaled(p) PROVE Op' = Op \/ Op' = 0
  BY <1>2 DEF Journaled, Stages, StartStage, FillStage, RecordPrepared, Advances, MovePrior,
      RecordPriorMoved, Install, RecordInstalled, IssueCompleted, RecordCommitted, DropManifest,
      Aborts, RemoveStage, IssueAborted, RecordAborted, RemoveJournal, NoJournal
<1>3. QED  BY <1>1, <1>2

LEMMA DrawnStep ==
  TypeOK /\ Holding /\ Leasing /\ Attested /\ Drawn /\ Dated /\ [Next]_vars => Drawn'
<1> SUFFICES ASSUME TypeOK, Holding, Leasing, Attested, Drawn, Dated, [Next]_vars PROVE Drawn'
  OBVIOUS
<1>a. \A o \in 1..restores : o \in Ops /\ o # 0
  BY BoundAssumption DEF TypeOK, Ops
<1>b. restores \in 0..MaxRestores
  BY DEF TypeOK
<1>1. ASSUME NEW p \in Procs, Publish(p) PROVE Drawn'
  <2>1. /\ pc[p] \in Begun /\ Op' = job[p].op /\ restores' = restores
        /\ UNCHANGED <<active, prior>>
        /\ \A q \in Procs : pc'[q] \in Begun => pc[q] \in Begun /\ q # p /\ job'[q] = job[q]
    BY <1>1 DEF Publish, Begun, TypeOK
  <2>2. job[p].op \in 1..restores  BY <2>1 DEF Drawn
  <2>3. \A o \in Ops : Unused(o) /\ o # Op' => Unused(o)'
    BY UnusedStep
  <2>4. \A q \in Procs : pc'[q] \in Begun => job[q].op # job[p].op
    BY <2>1 DEF Drawn
  <2>5. \A o \in Ops : o > restores' => Unused(o)'
    BY <2>1, <2>2, <2>3, <1>b, BoundAssumption DEF Drawn, Ops
  <2>6. \A q \in Procs : pc'[q] \in Begun => job'[q].op \in 1..restores' /\ Unused(job[q].op)'
    BY <2>1, <2>3, <2>4, <1>a DEF Drawn
  <2>7. QED  BY <2>1, <2>5, <2>6 DEF Drawn
<1>2. ASSUME \A p \in Procs : ~Publish(p), \A p \in Procs, b \in backups : ~Inspect(p, b)
      PROVE  Drawn'
  <2>1. /\ restores' = restores
        /\ \A q \in Procs : pc'[q] \in Begun => pc[q] \in Begun /\ job'[q] = job[q]
    BY <1>2, BegunStep
  <2>2. Op' = Op \/ Op' = 0  BY <1>2, JournalOp
  <2>3. \A o \in Ops : Unused(o) => Unused(o)'
    <3> SUFFICES ASSUME NEW o \in Ops, Unused(o) PROVE Unused(o)'
      OBVIOUS
    <3>1. o # Op'  BY <2>2, BoundAssumption DEF Unused, Ops
    <3>2. QED  BY <3>1, UnusedStep
  <2>4. QED  BY <2>1, <2>3, <1>a DEF Drawn
<1>3. ASSUME NEW p \in Procs, NEW b \in backups, Inspect(p, b) PROVE Drawn'
  <2>1. /\ restores' = restores + 1 /\ restores < MaxRestores
        /\ UNCHANGED <<active, prior, journal>>
        /\ job'[p].op = restores + 1
        /\ \A q \in Procs : q # p => pc'[q] = pc[q] /\ job'[q] = job[q]
    BY <1>3 DEF Inspect, Job, TypeOK
  <2>2. \A o \in Ops : Unused(o) => Unused(o)'
    BY <2>1 DEF Unused, IsCompleted, IsAborted
  <2>3. restores + 1 \in Ops /\ Unused(restores + 1)
    BY <2>1, <1>b, BoundAssumption DEF Ops, Drawn
  <2>4. QED  BY <2>1, <2>2, <2>3, <1>a, <1>b, BoundAssumption DEF Drawn, Ops
<1>4. QED  BY <1>1, <1>2, <1>3

(***************************************************************************)
(* Types                                                                   *)
(***************************************************************************)
LockType == /\ lock \in {"none", "restore"} \cup Plain
            /\ journal \in [op : Ops, phase : Phases, data : Elsewhere..MaxWrites, build : Builds]
                 \cup {NoJournal}
            /\ lock = "restore" <=> journal # NoJournal
            /\ prep \in 0..MaxRestores
TreeType == /\ active \in Tree \cup {Absent}
            /\ stage \in [Ops -> Tree \cup {Absent}] /\ prior \in [Ops -> Tree \cup {Absent}]
Jobs == [cmd : Plain \cup {"none"}, op : 0..MaxRestores, data : Elsewhere..MaxWrites, build : Builds]
WorkType == /\ lease \in Procs \cup {NoProc}
            /\ pc \in [Procs -> Pcs]
            /\ job \in [Procs -> Jobs]
KitType == /\ server \in BOOLEAN
           /\ build \in Builds
           /\ backups \subseteq [artifacts : Elsewhere..MaxWrites, database : Elsewhere..MaxWrites]
           /\ restores \in 0..MaxRestores /\ writes \in 0..MaxWrites /\ gone \in 0..MaxGone

LEMMA TypeParts == TypeOK <=> LockType /\ TreeType /\ WorkType /\ KitType
BY DEF TypeOK, LockType, TreeType, WorkType, KitType, Jobs

LEMMA JobType ==
  ASSUME NEW cmd \in Plain \cup {"none"}, NEW o \in 0..MaxRestores,
         NEW d \in Elsewhere..MaxWrites, NEW b \in Builds
  PROVE  Job(cmd, o, d, b) \in Jobs
BY DEF Job, Jobs

LEMMA NoJobType ==
  /\ NoJob \in Jobs
  /\ 0 \in 0..MaxRestores /\ 0 \in Elsewhere..MaxWrites /\ 1 \in Builds
BY BoundAssumption, JobType DEF NoJob, Elsewhere, Builds, Plain

LEMMA LockTypeStep ==
  TypeOK /\ Holding /\ Leasing /\ Attested /\ Drawn /\ [Next]_vars => LockType'
<1> SUFFICES ASSUME TypeOK, Holding, Leasing, Attested, Drawn, [Next]_vars PROVE LockType'
  OBVIOUS
<1> USE DEF LockType, Plain
<1>a. LockType /\ WorkType /\ restores \in 0..MaxRestores  BY TypeParts DEF KitType
<1> USE <1>a
<1>1. ASSUME NEW p \in Procs, Command(p) PROVE LockType'
  <2>1. CASE TakeLock(p)
    BY <2>1 DEF TakeLock, Creatable, Holding
  <2>2. CASE ~TakeLock(p)
    BY <1>1, <2>2 DEF Command, LockTaken, Launch, LaunchFails, CopyArtifacts, NothingToCopy,
                      FinishBackup, FinishBuild, Holding, Guarded, LockOf
  <2>3. QED  BY <2>1, <2>2
<1>2. ASSUME NEW p \in Procs, Begins(p) PROVE LockType'
  <2>1. CASE Publish(p)
    <3>1. job[p].op \in Ops  BY <2>1, BoundAssumption DEF Publish, Drawn, Begun, Ops
    <3>2. "staging" \in Phases  BY DEF Phases
    <3>3. journal' \in [op : Ops, phase : Phases, data : Elsewhere..MaxWrites, build : Builds]
      BY <2>1, <3>1, <3>2 DEF Publish, WorkType, Jobs
    <3>4. journal' # NoJournal  BY <3>1, <2>1 DEF Publish, NoJournal, Ops
    <3>5. QED  BY <2>1, <3>3, <3>4 DEF Publish
  <2>2. CASE Prepare(p)
    BY <2>2, BoundAssumption DEF Prepare, WorkType, Jobs
  <2>3. CASE ~Publish(p) /\ ~Prepare(p)
    BY <1>2, <2>3, BoundAssumption DEF Begins, EnterLease, TurnedAway, NotPrepared, PublishFails,
                                       Unalias
  <2>4. QED  BY <2>1, <2>2, <2>3
<1>3. ASSUME NEW p \in Procs, NEW ph \in {"prepared", "prior-moved", "installed", "committed", "aborted"},
             lock = "restore", Phase(ph), UNCHANGED <<lock, prep>>
      PROVE  LockType'
  <2>1. Op \in Ops /\ journal.data \in Elsewhere..MaxWrites /\ journal.build \in Builds
    BY <1>3, JournalTypes
  <2>2. ph \in Phases  BY DEF Phases
  <2>3. journal' \in [op : Ops, phase : Phases, data : Elsewhere..MaxWrites, build : Builds]
    BY <1>3, <2>1, <2>2
  <2>4. journal' # NoJournal  BY <1>3, <2>1 DEF NoJournal, Ops
  <2>5. QED  BY <1>3, <2>3, <2>4
<1>4. ASSUME NEW p \in Procs, Stages(p) \/ Advances(p) \/ Aborts(p) PROVE LockType'
  <2>1. CASE \/ RecordPrepared(p) \/ RecordPriorMoved(p) \/ RecordInstalled(p)
             \/ RecordCommitted(p) \/ RecordAborted(p)
    BY <2>1, <1>3 DEF RecordPrepared, RecordPriorMoved, RecordInstalled, RecordCommitted,
                      RecordAborted
  <2>2. CASE UNCHANGED lockVars
    BY <2>2
  <2>3. QED
    BY <1>4, <2>1, <2>2 DEF Stages, Advances, Aborts, StartStage, FillStage, MovePrior, Install,
       IssueCompleted, DropManifest, RemoveStage, IssueAborted
<1>5. ASSUME NEW p \in Procs, Ends(p) \/ Recovers(p) PROVE LockType'
  BY <1>5, BoundAssumption
  DEF Ends, Unreadable, RemoveJournal, ReleaseLease, Recovers, Recover, DropPreparation,
      DropAlias, ReadJournal, RefuseRecovery
<1>6. ASSUME NEW p \in Procs, NEW cmd \in Plain, Open(p, cmd) PROVE LockType'
  BY <1>6 DEF Open
<1>7. ASSUME NEW p \in Procs, NEW b \in backups, Inspect(p, b) PROVE LockType'
  BY <1>7 DEF Inspect
<1>8. ASSUME NEW p \in Procs, NEW ok \in BOOLEAN, StopServer(p, ok) PROVE LockType'
  BY <1>8 DEF StopServer, Holding, Guarded, LockOf
<1>9. ASSUME NEW p \in Procs, NEW half \in BOOLEAN, Gone(p, half) PROVE LockType'
  BY <1>9 DEF Gone
<1>10. CASE ServerWrites \/ OrphanExits \/ UNCHANGED vars
  BY <1>10 DEF ServerWrites, OrphanExits, vars
<1>11. QED
  BY <1>1, <1>2, <1>4, <1>5, <1>6, <1>7, <1>8, <1>9, <1>10 DEF Next, Goes

LEMMA TreeTypeStep == TypeOK /\ Holding /\ Attested /\ [Next]_vars => TreeType'
<1> SUFFICES ASSUME TypeOK, Holding, Attested, [Next]_vars PROVE TreeType'
  OBVIOUS
<1>a. TreeType  BY TypeParts
<1>b. lock \in Plain => active \in Tree  BY <1>a DEF Attested, Fit, Plain, TreeType
<1>c. UNCHANGED rootVars => TreeType'
  BY <1>a DEF TreeType
<1>d. ASSUME active' \in Tree \cup {Absent}, UNCHANGED <<stage, prior>> PROVE TreeType'
  BY <1>a, <1>d DEF TreeType
<1>e. ASSUME NEW t \in Tree \cup {Absent}, Op \in Ops, stage' = [stage EXCEPT ![Op] = t],
             active' \in Tree \cup {Absent}, UNCHANGED prior
      PROVE  TreeType'
  BY <1>a, <1>e DEF TreeType
<1>1. ASSUME NEW p \in Procs, Command(p) PROVE TreeType'
  <2>1. CASE Launch(p) \/ LaunchFails(p) \/ \E ok \in BOOLEAN : FinishBackup(p, ok)
    BY <2>1, <1>b, <1>d, NotedType
    DEF Launch, LaunchFails, FinishBackup, Holding, Guarded, LockOf, Plain
  <2>2. CASE UNCHANGED rootVars  BY <2>2, <1>c
  <2>3. QED
    BY <1>1, <2>1, <2>2 DEF Command, TakeLock, LockTaken, CopyArtifacts, NothingToCopy, FinishBuild
<1>2. ASSUME NEW p \in Procs, Begins(p) \/ Ends(p) \/ Recovers(p) PROVE TreeType'
  BY <1>2, <1>c DEF Begins, EnterLease, TurnedAway, Prepare, NotPrepared, Publish, PublishFails,
     Unalias, Ends, Unreadable, RemoveJournal, ReleaseLease, Recovers, Recover, DropPreparation,
     DropAlias, ReadJournal, RefuseRecovery
<1>3. ASSUME NEW p \in Procs, Stages(p) PROVE TreeType'
  <2>1. Partial \in Tree  BY BoundAssumption DEF Partial, Tree, Elsewhere
  <2>2. lock = "restore" => Restored \in Tree  BY JournalTypes DEF Restored, Tree
  <2>3. CASE StartStage(p)
    BY <2>3, <2>1, <1>a, <1>e, JournalTypes DEF StartStage, TreeType
  <2>4. CASE FillStage(p)
    BY <2>4, <2>2, <1>a, <1>e, JournalTypes DEF FillStage, TreeType
  <2>5. CASE RecordPrepared(p)
    BY <2>5, <1>c DEF RecordPrepared
  <2>6. QED  BY <1>3, <2>3, <2>4, <2>5 DEF Stages
<1>4. ASSUME NEW p \in Procs, Advances(p) PROVE TreeType'
  <2>1. CASE MovePrior(p)
    BY <2>1, <1>a DEF MovePrior, TreeType
  <2>2. CASE Install(p)
    <3>1. Op \in Ops /\ stage[Op] \in Tree  BY <2>2, JournalTypes DEF Install, Payload
    <3>2. QED  BY <2>2, <3>1, <1>e DEF Install
  <2>3. CASE IssueCompleted(p)
    BY <2>3, <1>d, ReceivedType, JournalTypes DEF IssueCompleted, IssuesCompleted, Payload
  <2>4. CASE DropManifest(p)
    BY <2>4, <1>d, UnmarkedType, JournalTypes DEF DropManifest, Payload
  <2>5. CASE RecordPriorMoved(p) \/ RecordInstalled(p) \/ RecordCommitted(p)
    BY <2>5, <1>c DEF RecordPriorMoved, RecordInstalled, RecordCommitted
  <2>6. QED  BY <1>4, <2>1, <2>2, <2>3, <2>4, <2>5 DEF Advances
<1>5. ASSUME NEW p \in Procs, Aborts(p) PROVE TreeType'
  <2>1. CASE RemoveStage(p)
    BY <2>1, <1>a, <1>e, JournalTypes DEF RemoveStage, TreeType
  <2>2. CASE IssueAborted(p)
    BY <2>2, <1>d, ReceivedType, JournalTypes DEF IssueAborted, IssuesAborted
  <2>3. CASE RecordAborted(p)
    BY <2>3, <1>c DEF RecordAborted
  <2>4. QED  BY <1>5, <2>1, <2>2, <2>3 DEF Aborts
<1>6. ASSUME NEW p \in Procs, NEW cmd \in Plain, Open(p, cmd) PROVE TreeType'
  BY <1>6, <1>c DEF Open
<1>7. ASSUME NEW p \in Procs, NEW b \in backups, Inspect(p, b) PROVE TreeType'
  BY <1>7, <1>c DEF Inspect
<1>8. ASSUME NEW p \in Procs, NEW ok \in BOOLEAN, StopServer(p, ok) PROVE TreeType'
  BY <1>8, <1>b, <1>d, NotedType DEF StopServer, Holding, Guarded, LockOf, Plain
<1>9. ASSUME NEW p \in Procs, NEW half \in BOOLEAN, Gone(p, half) PROVE TreeType'
  <2>1. CASE half
    BY <1>9, <2>1, <1>a, <1>d, NotedType DEF Gone, IssuesCompleted, IssuesAborted, Payload, TreeType
  <2>2. CASE ~half
    BY <1>9, <2>2, <1>c DEF Gone
  <2>3. QED  BY <2>1, <2>2
<1>10. CASE ServerWrites
  <2>1. active \in Tree /\ active' = Written(active, writes + 1) /\ UNCHANGED <<stage, prior>>
    BY <1>10, <1>b DEF ServerWrites, Holding, Plain
  <2>2. writes + 1 \in Elsewhere..MaxWrites
    BY <1>10, BoundAssumption DEF ServerWrites, TypeOK, Elsewhere
  <2>3. QED  BY <2>1, <2>2, <1>d, WrittenType
<1>11. CASE OrphanExits \/ UNCHANGED vars
  BY <1>11, <1>c DEF OrphanExits, vars
<1>12. QED
  BY <1>1, <1>2, <1>3, <1>4, <1>5, <1>6, <1>7, <1>8, <1>9, <1>10, <1>11 DEF Next, Goes

LEMMA WorkTypeStep == TypeOK /\ Holding /\ Attested /\ [Next]_vars => WorkType'
<1> SUFFICES ASSUME TypeOK, Holding, Attested, [Next]_vars PROVE WorkType'
  OBVIOUS
<1>a. WorkType /\ KitType  BY TypeParts
<1>b. lock \in Plain => active \in Tree
  BY DEF Attested, Fit, Plain, TypeOK
<1> USE <1>a, NoJobType DEF WorkType, Pcs, Plain
<1>1. ASSUME NEW p \in Procs, Command(p) PROVE WorkType'
  <2>1. CASE TakeLock(p)
    BY <2>1 DEF TakeLock, Holding
  <2>2. CASE CopyArtifacts(p)
    <3>1. active.data \in Elsewhere..MaxWrites
      BY <2>2, <1>b DEF CopyArtifacts, Holding, Guarded, LockOf, Tree
    <3>2. Job("none", 0, active.data, 1) \in Jobs  BY <3>1, JobType
    <3>3. QED  BY <2>2, <3>2 DEF CopyArtifacts
  <2>3. CASE ~TakeLock(p) /\ ~CopyArtifacts(p)
    BY <1>1, <2>3 DEF Command, LockTaken, Launch, LaunchFails, NothingToCopy, FinishBackup,
                      FinishBuild
  <2>4. QED  BY <2>1, <2>2, <2>3
<1>2. ASSUME NEW p \in Procs, Begins(p) PROVE WorkType'
  BY <1>2 DEF Begins, EnterLease, TurnedAway, Prepare, NotPrepared, Publish, PublishFails, Unalias
<1>3. ASSUME NEW p \in Procs, Stages(p) \/ Advances(p) \/ Aborts(p) PROVE WorkType'
  BY <1>3 DEF Stages, Advances, Aborts, StartStage, FillStage, RecordPrepared, MovePrior,
              RecordPriorMoved, Install, RecordInstalled, IssueCompleted, RecordCommitted,
              DropManifest, RemoveStage, IssueAborted, RecordAborted
<1>4. ASSUME NEW p \in Procs, Ends(p) \/ Recovers(p) PROVE WorkType'
  BY <1>4 DEF Ends, Unreadable, RemoveJournal, ReleaseLease, Recovers, Recover, DropPreparation,
              DropAlias, ReadJournal, RefuseRecovery
<1>5. ASSUME NEW p \in Procs, NEW cmd \in Plain, Open(p, cmd) PROVE WorkType'
  <2>1. Job(cmd, 0, 0, 1) \in Jobs  BY JobType
  <2>2. QED  BY <1>5, <2>1 DEF Open
<1>6. ASSUME NEW p \in Procs, NEW b \in backups, Inspect(p, b) PROVE WorkType'
  <2>1. b.database \in Elsewhere..MaxWrites /\ build \in Builds  BY DEF KitType
  <2>2. restores + 1 \in 0..MaxRestores  BY <1>6, BoundAssumption DEF Inspect, KitType
  <2>3. Job("none", restores + 1, b.database, build) \in Jobs  BY <2>1, <2>2, JobType
  <2>4. QED  BY <1>6, <2>3 DEF Inspect
<1>7. ASSUME NEW p \in Procs, NEW ok \in BOOLEAN, StopServer(p, ok) PROVE WorkType'
  BY <1>7 DEF StopServer
<1>8. ASSUME NEW p \in Procs, NEW half \in BOOLEAN, Gone(p, half) PROVE WorkType'
  BY <1>8 DEF Gone
<1>9. CASE ServerWrites \/ OrphanExits \/ UNCHANGED vars
  BY <1>9 DEF ServerWrites, OrphanExits, vars
<1>10. QED
  BY <1>1, <1>2, <1>3, <1>4, <1>5, <1>6, <1>7, <1>8, <1>9 DEF Next, Goes

LEMMA KitTypeStep == TypeOK /\ Holding /\ Attested /\ [Next]_vars => KitType'
<1> SUFFICES ASSUME TypeOK, Holding, Attested, [Next]_vars PROVE KitType'
  OBVIOUS
<1>a. WorkType /\ KitType  BY TypeParts
<1>b. lock \in Plain => active \in Tree
  BY DEF Attested, Fit, Plain, TypeOK
<1> USE <1>a DEF KitType
<1>1. ASSUME NEW p \in Procs, Command(p) PROVE KitType'
  <2>1. ASSUME NEW ok \in BOOLEAN, FinishBackup(p, ok) PROVE KitType'
    <3>1. active.data \in Elsewhere..MaxWrites
      BY <2>1, <1>b DEF FinishBackup, Holding, Guarded, LockOf, Tree, Plain
    <3>2. job[p].data \in Elsewhere..MaxWrites
      BY DEF WorkType, Jobs
    <3>3. QED  BY <2>1, <3>1, <3>2 DEF FinishBackup
  <2>2. CASE FinishBuild(p)
    <3>1. build \in 1..MaxBuilds
      BY <2>2, BoundAssumption DEF FinishBuild, Holding, Builds
    <3>2. QED  BY <2>2, <3>1, BoundAssumption DEF FinishBuild, Builds
  <2>3. CASE \/ TakeLock(p) \/ LockTaken(p) \/ Launch(p) \/ LaunchFails(p) \/ CopyArtifacts(p)
             \/ NothingToCopy(p)
    BY <2>3 DEF TakeLock, LockTaken, Launch, LaunchFails, CopyArtifacts, NothingToCopy
  <2>4. QED  BY <1>1, <2>1, <2>2, <2>3 DEF Command
<1>2. ASSUME NEW p \in Procs, Begins(p) PROVE KitType'
  BY <1>2 DEF Begins, EnterLease, TurnedAway, Prepare, NotPrepared, Publish, PublishFails, Unalias
<1>3. ASSUME NEW p \in Procs, Stages(p) \/ Advances(p) \/ Aborts(p) PROVE KitType'
  BY <1>3 DEF Stages, Advances, Aborts, StartStage, FillStage, RecordPrepared, MovePrior,
              RecordPriorMoved, Install, RecordInstalled, IssueCompleted, RecordCommitted,
              DropManifest, RemoveStage, IssueAborted, RecordAborted
<1>4. ASSUME NEW p \in Procs, Ends(p) \/ Recovers(p) PROVE KitType'
  BY <1>4 DEF Ends, Unreadable, RemoveJournal, ReleaseLease, Recovers, Recover, DropPreparation,
              DropAlias, ReadJournal, RefuseRecovery
<1>5. ASSUME NEW p \in Procs, NEW cmd \in Plain, Open(p, cmd) PROVE KitType'
  BY <1>5 DEF Open
<1>6. ASSUME NEW p \in Procs, NEW b \in backups, Inspect(p, b) PROVE KitType'
  BY <1>6, BoundAssumption DEF Inspect
<1>7. ASSUME NEW p \in Procs, NEW ok \in BOOLEAN, StopServer(p, ok) PROVE KitType'
  BY <1>7 DEF StopServer
<1>8. ASSUME NEW p \in Procs, NEW half \in BOOLEAN, Gone(p, half) PROVE KitType'
  BY <1>8, BoundAssumption DEF Gone
<1>9. CASE ServerWrites
  BY <1>9, BoundAssumption DEF ServerWrites
<1>10. CASE OrphanExits \/ UNCHANGED vars
  BY <1>10 DEF OrphanExits, vars
<1>11. QED
  BY <1>1, <1>2, <1>3, <1>4, <1>5, <1>6, <1>7, <1>8, <1>9, <1>10 DEF Next, Goes

(***************************************************************************)
(* The invariant                                                           *)
(***************************************************************************)
LEMMA InitInv == Init => IInv
<1> SUFFICES ASSUME Init PROVE IInv
  OBVIOUS
<1> USE BoundAssumption, NoProcAssumption DEF Init
<1>1. Fresh \in Tree  BY DEF Fresh, Tree, Elsewhere
<1>2. /\ active = Fresh /\ active # Absent /\ active.completed = {} /\ active.aborted = {}
      /\ Fit /\ active.data = 0
  BY <1>1, AbsentAssumption DEF Fresh, Fit
<1>3. \A o \in Ops : ~IsCompleted(o) /\ ~IsAborted(o)
  BY <1>2 DEF IsCompleted, IsAborted
<1>4. TypeOK
  <2>1. LockType  BY DEF LockType
  <2>2. TreeType  BY <1>1 DEF TreeType
  <2>3. WorkType  BY NoJobType DEF WorkType, Pcs
  <2>4. KitType
    <3>1. Elsewhere \in Elsewhere..MaxWrites  BY DEF Elsewhere
    <3>2. backups \subseteq [artifacts : Elsewhere..MaxWrites, database : Elsewhere..MaxWrites]
      BY <3>1
    <3>3. /\ restores \in 0..MaxRestores /\ writes \in 0..MaxWrites /\ gone \in 0..MaxGone
      OBVIOUS
    <3>4. build \in Builds  BY NoJobType
    <3>5. server \in BOOLEAN  OBVIOUS
    <3>6. QED  BY <3>2, <3>3, <3>4, <3>5 DEF KitType
  <2>5. QED  BY <2>1, <2>2, <2>3, <2>4, TypeParts
<1>5. Holding  BY DEF Holding, Guarded
<1>6. Leasing  BY DEF Leasing, Leased
<1>7. Attested  BY <1>2, <1>3 DEF Attested
<1>8. Staged /\ Moved  BY DEF Staged, Moved, NoJournal
<1>9. Drawn  BY <1>3 DEF Drawn, Begun, Unused, NoJournal, Ops
<1>10. Dated  BY <1>2, <1>7 DEF Dated, NoJournal, NoJob, Job, Elsewhere
<1>11. Copied  BY DEF Copied
<1>12. QED  BY <1>4, <1>5, <1>6, <1>7, <1>8, <1>9, <1>10, <1>11 DEF IInv

LEMMA StepInv == IInv /\ [Next]_vars => IInv'
<1> SUFFICES ASSUME IInv, [Next]_vars PROVE IInv'
  OBVIOUS
<1>1. /\ TypeOK /\ Holding /\ Leasing /\ Attested /\ Staged /\ Moved /\ Drawn /\ Dated /\ Copied
  BY DEF IInv
<1>2. TypeOK'
  <2>1. LockType' /\ TreeType' /\ WorkType' /\ KitType'
    BY <1>1, LockTypeStep, TreeTypeStep, WorkTypeStep, KitTypeStep
  <2>2. QED
    BY <2>1 DEF TypeOK, LockType, TreeType, WorkType, KitType, Jobs
<1>3. Attested' /\ Staged' /\ Moved'
  <2>1. CASE \A p \in Procs : ~Journaled(p)
    BY <1>1, <2>1, QuietSteps, QuietTopology
  <2>2. ASSUME NEW p \in Procs, Journaled(p) PROVE Attested' /\ Staged' /\ Moved'
    BY <1>1, <2>2, JournalTopology
  <2>3. QED  BY <2>1, <2>2
<1>4. QED
  BY <1>1, <1>2, <1>3, HoldingStep, LeasingStep, DrawnStep, DatedStep, CopiedStep DEF IInv

LEMMA Invariant == Spec => []IInv
BY InitInv, StepInv, PTL DEF Spec

(***************************************************************************)
(* What follows from it                                                    *)
(***************************************************************************)
\* Every variable keeps its type, and the journal is that of a restore exactly
\* while the operation lock is one.
THEOREM TypeCorrect == Spec => []TypeOK
<1>1. IInv => TypeOK  BY DEF IInv
<1>2. QED  BY <1>1, Invariant, PTL

LEMMA KeptReceipts ==
  ASSUME NEW o
  PROVE  /\ IsCompleted(o) <=> \E t \in Kept : o \in t.completed
         /\ IsAborted(o) <=> \E t \in Kept : o \in t.aborted
BY DEF IsCompleted, IsAborted, Kept

\* Whenever no restore has the lock, every restore that ever began is done or
\* undone as a whole, whichever processes were lost at it and whoever recovered
\* it (advanceRestoreTransaction, abortRestoreTransaction).
THEOREM AlwaysSettled == Spec => []SettledEitherWay
<1>1. ASSUME IInv PROVE SettledEitherWay
  <2> SUFFICES ASSUME lock # "restore" PROVE
        /\ active # Absent /\ active.whole /\ ~active.manifest
        /\ \A o \in Ops : /\ stage[o] = Absent
                          /\ prior[o] # Absent <=> \E t \in Kept : o \in t.completed
                          /\ \A t, u \in Kept : ~(o \in t.completed /\ o \in u.aborted)
    BY DEF SettledEitherWay
  <2>1. Attested /\ Fit  BY <1>1 DEF IInv, Attested
  <2>2. \A o \in Ops : o # Op
    BY <1>1, BoundAssumption DEF IInv, TypeOK, NoJournal, Ops
  <2>3. ASSUME NEW o \in Ops
        PROVE  /\ stage[o] = Absent
               /\ prior[o] # Absent <=> \E t \in Kept : o \in t.completed
               /\ \A t, u \in Kept : ~(o \in t.completed /\ o \in u.aborted)
    <3>1. stage[o] = Absent /\ (prior[o] # Absent <=> IsCompleted(o))
      BY <2>1, <2>2 DEF Attested
    <3>2. ~(IsCompleted(o) /\ IsAborted(o))  BY <2>1 DEF Attested
    <3>3. QED  BY <3>1, <3>2, KeptReceipts
  <2>4. QED  BY <2>1, <2>3 DEF Fit
<1>2. QED  BY <1>1, Invariant, PTL

\* The database and the artifacts of every backup are of one moment, and the
\* application runs only while the lock is a start's (createBackup and startKit
\* under acquireOperationLock).
THEOREM BackupsStayConsistent == Spec => []BackupsAreConsistent
<1>1. IInv => BackupsAreConsistent
  BY DEF IInv, Copied, Holding, BackupsAreConsistent
<1>2. QED  BY <1>1, Invariant, PTL

\* No step loses a tree the kit keeps for good, or a receipt in one.
THEOREM TreesAreKept == Spec => NothingIsLost
<1>1. ASSUME IInv, [Next]_vars PROVE \A t \in Kept : \E u \in Kept' : Continues(u, t)
  <2>a. /\ TypeOK /\ Holding /\ Leasing /\ Attested /\ Dated
    BY <1>1 DEF IInv
  <2>b. active # Absent => active \in Tree
    BY <2>a DEF TypeOK
  <2>c. \A t \in Tree : t.data >= t.data
    BY DEF Tree, Elsewhere
  <2>d. \A t \in Tree : Continues(t, t)
    BY <2>c DEF Continues
  <2>e. \A o \in Ops : prior[o] # Absent => prior[o] \in Tree
    BY <2>a DEF TypeOK
  <2>1. ASSUME active # Absent => active' # Absent /\ Continues(active', active),
               \A o \in Ops : prior[o] # Absent => prior'[o] = prior[o]
        PROVE  \A t \in Kept : \E u \in Kept' : Continues(u, t)
    BY <2>1, <2>d, <2>e DEF Kept
  <2>2. CASE \A p \in Procs : ~Journaled(p)
    <3>1. Quiet  BY <2>a, <2>2, <1>1, QuietSteps
    <3>2. QED  BY <3>1, <2>1 DEF Quiet, SameTree, Continues
  <2>3. ASSUME NEW p \in Procs, MovePrior(p)
        PROVE  \A t \in Kept : \E u \in Kept' : Continues(u, t)
    <3>1. /\ Op \in Ops /\ active \in Tree /\ prior[Op] = Absent /\ active # Absent
          /\ prior \in [Ops -> Tree \cup {Absent}] /\ prior' = [prior EXCEPT ![Op] = active]
      BY <2>3, <2>a, <2>b, JournalTypes DEF MovePrior
    <3>2. \A o \in Ops : prior[o] # Absent => prior'[o] = prior[o]
      BY <3>1
    <3>3. prior'[Op] = active  BY <3>1
    <3>4. QED  BY <3>1, <3>2, <3>3, <2>d, <2>e DEF Kept
  <2>4. ASSUME NEW p \in Procs, IssueCompleted(p) \/ IssueAborted(p) \/ DropManifest(p)
        PROVE  \A t \in Kept : \E u \in Kept' : Continues(u, t)
    <3>1. /\ active \in Tree /\ Op \in Ops /\ UNCHANGED prior
          /\ \/ \E c, a \in {{}, {Op}} : active' = Received(active, c, a)
             \/ active' = Unmarked(active)
      BY <2>4, <2>a, JournalTypes
      DEF IssueCompleted, IssuesCompleted, Payload, IssueAborted, IssuesAborted, DropManifest
    <3>2. active' # Absent
      BY <3>1, ReceivedType, UnmarkedType, AbsentAssumption
    <3>3. Continues(active', active)
      BY <3>1, <2>c DEF Received, Unmarked, Continues
    <3>4. QED  BY <3>1, <3>2, <3>3, <2>1
  <2>5. ASSUME NEW p \in Procs, Install(p)
        PROVE  \A t \in Kept : \E u \in Kept' : Continues(u, t)
    <3>1. active = Absent /\ UNCHANGED prior  BY <2>5 DEF Install
    <3>2. QED  BY <3>1, <2>1
  <2>6. CASE UNCHANGED <<active, prior>>
    BY <2>6, <2>1, <2>b, <2>d
  <2>7. QED
    BY <2>2, <2>3, <2>4, <2>5, <2>6
    DEF Journaled, Publish, Stages, StartStage, FillStage, RecordPrepared, Advances,
        RecordPriorMoved, RecordInstalled, RecordCommitted, Aborts, RemoveStage, RecordAborted,
        RemoveJournal
<1>2. QED  BY <1>1, Invariant, PTL DEF Spec, NothingIsLost


(***************************************************************************)
(* What the journal promises of the restored tree, wherever it is          *)
(***************************************************************************)
Carried ==
  /\ journal.phase = "staging" /\ stage[Op] # Absent /\ stage[Op].whole => Payload(stage[Op])
  /\ journal.phase = "prepared" => Payload(stage[Op])
  /\ journal.phase = "prior-moved" => \/ Payload(stage[Op]) /\ active = Absent
                                      \/ stage[Op] = Absent /\ Payload(active)
  /\ journal.phase = "installed" => Payload(active)
  /\ journal.phase = "committed" /\ active.manifest => Payload(active)

\* The application writes only under the lock of a start, so no one else changes the
\* data of a state root that is being replaced.
LEMMA QuietData ==
  ASSUME IInv, [Next]_vars, \A p \in Procs : ~Journaled(p), lock = "restore", active # Absent
  PROVE  active'.data = active.data
<1>a. Holding /\ ~server  BY DEF IInv, Holding
<1> USE <1>a DEF Noted
<1>1. ASSUME NEW p \in Procs, Command(p) PROVE active'.data = active.data
  BY <1>1 DEF Command, TakeLock, LockTaken, Launch, LaunchFails, CopyArtifacts, NothingToCopy,
              FinishBackup, FinishBuild
<1>2. ASSUME NEW p \in Procs, Begins(p) \/ Ends(p) \/ Recovers(p) PROVE active'.data = active.data
  BY <1>2 DEF Begins, EnterLease, TurnedAway, Prepare, NotPrepared, Publish, PublishFails, Unalias,
              Ends, Unreadable, RemoveJournal, ReleaseLease, Recovers, Recover, DropPreparation,
              DropAlias, ReadJournal, RefuseRecovery
<1>3. ASSUME NEW p \in Procs, \/ \E cmd \in Plain : Open(p, cmd)
                              \/ \E b \in backups : Inspect(p, b)
                              \/ \E ok \in BOOLEAN : StopServer(p, ok)
                              \/ \E half \in BOOLEAN : Gone(p, half)
      PROVE active'.data = active.data
  BY <1>3 DEF Open, Inspect, StopServer, Gone
<1>4. CASE ServerWrites \/ OrphanExits \/ UNCHANGED vars
  BY <1>4 DEF ServerWrites, OrphanExits, vars
<1>5. QED  BY <1>1, <1>2, <1>3, <1>4 DEF Next, Goes, Journaled

LEMMA CarriedStep == IInv /\ Carried /\ [Next]_vars => Carried'
<1> SUFFICES ASSUME IInv, Carried, [Next]_vars PROVE Carried'
  OBVIOUS
<1>a. TypeOK /\ Holding /\ Leasing /\ Attested /\ Staged /\ Moved /\ Drawn /\ Dated
  BY DEF IInv
<1>1. CASE \A p \in Procs : ~Journaled(p)
  <2>1. Quiet  BY <1>a, <1>1, QuietSteps
  <2>2. CASE lock # "restore"
    <3>1. journal' = NoJournal  BY <1>a, <2>1, <2>2 DEF TypeOK, Quiet
    <3>2. QED  BY <3>1 DEF Carried, NoJournal
  <2>3. CASE lock = "restore" /\ active = Absent
    BY <2>1, <2>3 DEF Quiet, SameTree, Carried, Payload
  <2>4. CASE lock = "restore" /\ active # Absent
    <3>1. active'.data = active.data  BY <1>1, <2>4, QuietData
    <3>2. QED  BY <2>1, <2>4, <3>1 DEF Quiet, SameTree, Carried, Payload
  <2>5. QED  BY <2>2, <2>3, <2>4
<1>2. ASSUME NEW p \in Procs, Journaled(p) PROVE Carried'
  <2>1. CASE Publish(p)
    <3>1. /\ job[p].op \in 1..restores /\ Unused(job[p].op) /\ lock # "restore"
          /\ journal'.op = job[p].op /\ journal'.phase = "staging" /\ UNCHANGED rootVars
      BY <1>a, <2>1 DEF Publish, Creatable, Drawn, Begun
    <3>2. job[p].op \in Ops /\ stage[job[p].op] = Absent
      BY <1>a, <3>1, BoundAssumption DEF TypeOK, Ops, Unused, Attested
    <3>3. QED  BY <3>1, <3>2 DEF Carried
  <2>2. CASE lock = "restore"
    <3>1. Op \in Ops /\ stage \in [Ops -> Tree \cup {Absent}]
          /\ (active # Absent => active \in Tree)
      BY <1>a, <2>2, JournalTypes
    <3>2. CASE Stages(p)
      <4>1. CASE StartStage(p)
        BY <3>1, <4>1 DEF StartStage, Carried, Partial
      <4>2. CASE FillStage(p)
        <5>1. /\ journal' = journal /\ journal.phase = "staging" /\ stage'[Op] = Restored
          BY <3>1, <4>2 DEF FillStage
        <5>2. Restored # Absent
          <6>1. journal.data \in Elsewhere..MaxWrites  BY <1>a, <2>2, JournalTypes
          <6>2. Restored \in Tree  BY <6>1 DEF Restored, Tree
          <6>3. QED  BY <6>2, AbsentAssumption
        <5>3. QED  BY <5>1, <5>2 DEF Carried, Payload, Restored
      <4>3. CASE RecordPrepared(p)
        BY <4>3 DEF RecordPrepared, Carried, Payload
      <4>4. QED  BY <3>2, <4>1, <4>2, <4>3 DEF Stages
    <3>3. CASE MovePrior(p)
      BY <3>3 DEF MovePrior, Carried, Payload
    <3>4. CASE Install(p)
      BY <3>1, <3>4 DEF Install, Carried, Payload
    <3>5. CASE RecordPriorMoved(p) \/ RecordInstalled(p) \/ RecordCommitted(p) \/ RecordAborted(p)
      BY <3>5 DEF RecordPriorMoved, RecordInstalled, RecordCommitted, RecordAborted, Carried, Payload
    <3>6. CASE IssueCompleted(p)
      <4>1. /\ journal.phase = "installed" /\ Payload(active) /\ journal' = journal
            /\ active' = Received(active, {Op}, {}) /\ UNCHANGED prior
        BY <3>6 DEF IssueCompleted, IssuesCompleted
      <4>2. active' # Absent
        BY <3>1, <4>1, CompletionReceipt DEF Payload
      <4>3. QED  BY <4>1, <4>2 DEF Carried, Payload, Received
    <3>7. CASE DropManifest(p)
      BY <3>7 DEF DropManifest, Carried, Unmarked
    <3>8. CASE RemoveStage(p)
      BY <3>1, <3>8 DEF RemoveStage, Abortable, Carried
    <3>9. CASE IssueAborted(p)
      BY <3>9 DEF IssueAborted, IssuesAborted, Abortable, Carried, Payload
    <3>10. CASE RemoveJournal(p)
      BY <3>10 DEF RemoveJournal, Carried, NoJournal
    <3>11. QED
      BY <1>2, <2>2, <3>2, <3>3, <3>4, <3>5, <3>6, <3>7, <3>8, <3>9, <3>10, <2>1
      DEF Journaled, Advances, Aborts, Publish, Creatable
  <2>3. QED
    BY <1>2, <2>1, <2>2 DEF Journaled, Stages, StartStage, FillStage, RecordPrepared, Advances,
       MovePrior, RecordPriorMoved, Install, RecordInstalled, IssueCompleted, RecordCommitted,
       DropManifest, Aborts, RemoveStage, IssueAborted, RecordAborted, RemoveJournal
<1>3. QED  BY <1>1, <1>2

\* However often a restore or its recovery is interrupted, the next recovery finds the
\* trees as the journal says and does not give up on them (RECOVERY_INVALID).
THEOREM RecoveryAlwaysFindsItsTrees == Spec => []RecoveryFindsItsTrees
<1>1. Init => Carried  BY DEF Init, Carried, NoJournal
<1>2. IInv /\ Carried => RecoveryFindsItsTrees
  BY DEF IInv, Carried, Staged, Moved, Fit, Abortable, RecoveryFindsItsTrees
<1>3. QED  BY <1>1, <1>2, Invariant, CarriedStep, PTL DEF Spec
=============================================================================
