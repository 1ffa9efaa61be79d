---------------------------- MODULE StateRestore ----------------------------
(***************************************************************************)
(* The release kit: start, build, backup and restore of one state root on  *)
(* one host, and the recovery of a restore that was interrupted            *)
(* (scripts/production-release/lib.mjs).                                   *)
(*                                                                         *)
(* Every command is a process of its own.  What they share is in the parent*)
(* directory of the state root: the operation lock, which a start, build or*)
(* backup creates exclusively and which for a restore is its journal; the  *)
(* preparation file a restore links to it; the active tree, and one stage  *)
(* and one prior tree per restore.  A restore or a recovery also holds a   *)
(* lease, a socket the kernel takes back when the process is gone.         *)
(*                                                                         *)
(* Each rename, link, unlink and journal write is synchronised before the  *)
(* next one, so each is one action, and a process can be gone between any  *)
(* two.  A receipt is created in place: what is left of one that was not   *)
(* finished makes its directory unreadable to matchingOperationReceipt.    *)
(* A tree is the generation of its data, its receipts and its restore      *)
(* manifest; a start first recovers, which is the recovery modelled, and   *)
(* then takes the lock.  Nothing in the kit removes the lock of a process  *)
(* that is gone; the model adds no operator who does.                      *)
(***************************************************************************)
EXTENDS Integers, FiniteSets

CONSTANTS Procs,
          NoProc,      \* nobody holds the lease
          Absent,      \* no tree at this path
          MaxRestores, MaxWrites, MaxBuilds, MaxBackups, MaxGone \* bounds

ASSUME NoProcAssumption == NoProc \notin Procs
ASSUME BoundAssumption == /\ MaxRestores \in Nat /\ MaxWrites \in Nat /\ MaxBuilds \in Nat
                          /\ MaxBackups \in Nat /\ MaxGone \in Nat

Ops    == 1..MaxRestores
Plain  == {"start", "backup", "build"}
Phases == {"staging", "prepared", "prior-moved", "installed", "committed", "aborted"}
Builds == 1..(MaxBuilds + 1)
Elsewhere == -1 \* the generation of a backup that was taken on another host

Tree == [data : Elsewhere..MaxWrites, used : BOOLEAN, torn : BOOLEAN, whole : BOOLEAN,
         manifest : BOOLEAN, completed : SUBSET Ops, aborted : SUBSET Ops]

ASSUME AbsentAssumption == Absent \notin Tree

VARIABLES lock,     \* the operation lock: "none", a plain one, or "restore" for a journal
          journal,  \* what the journal says
          prep,     \* the preparation file: the restore it is of, or 0
          active,   \* the state root
          stage,    \* .sympose-restore-<id>
          prior,    \* .sympose-prior-<id>
          lease,    \* who holds the restore lease
          server,   \* the application is running on the state root
          build,    \* the build receipt, a new one for each build
          backups,  \* verified backups
          restores, \* identities drawn so far
          writes,   \* generations of data written so far
          gone,     \* processes killed so far
          pc,       \* what each process is doing
          job       \* what a process read before it took the lock

lockVars == <<lock, journal, prep>>
rootVars == <<active, stage, prior>>
runVars  == <<server, writes>>
kitVars  == <<build, backups, restores, gone>>
vars == <<lock, journal, prep, active, stage, prior, lease, server, writes, build,
          backups, restores, gone, pc, job>>

NoJournal == [op |-> 0, phase |-> "none", data |-> 0, build |-> 1]
Job(cmd, o, d, b) == [cmd |-> cmd, op |-> o, data |-> d, build |-> b]
NoJob == Job("none", 0, 0, 1)

\* initializeState
Fresh == [data |-> 0, used |-> FALSE, torn |-> FALSE, whole |-> TRUE, manifest |-> FALSE,
          completed |-> {}, aborted |-> {}]

Init == /\ lock = "none"
        /\ journal = NoJournal
        /\ prep = 0
        /\ active = Fresh
        /\ stage = [o \in Ops |-> Absent]
        /\ prior = [o \in Ops |-> Absent]
        /\ lease = NoProc
        /\ server = FALSE
        /\ writes = 0
        /\ build = 1
        /\ backups = {[artifacts |-> Elsewhere, database |-> Elsewhere]}
        /\ restores = 0
        /\ gone = 0
        /\ pc = [p \in Procs |-> "idle"]
        /\ job = [p \in Procs |-> NoJob]

Go(p, where) == pc' = [pc EXCEPT ![p] = where]
Finish(p) == Go(p, "idle") /\ job' = [job EXCEPT ![p] = NoJob]

\* requireNoOperationLock
Unlocked == lock = "none" /\ prep = 0

\* a tree after a write of the server, after an attempt to add a receipt, and
\* after the receipts of a restore
Written(t, d) == [data |-> d, used |-> TRUE, torn |-> t.torn, whole |-> t.whole,
                  manifest |-> t.manifest, completed |-> t.completed, aborted |-> t.aborted]
Noted(t, ok) == [data |-> t.data, used |-> TRUE, torn |-> t.torn \/ ~ok, whole |-> t.whole,
                 manifest |-> t.manifest, completed |-> t.completed, aborted |-> t.aborted]
Received(t, c, a) == [data |-> t.data, used |-> TRUE, torn |-> t.torn, whole |-> t.whole,
                      manifest |-> t.manifest, completed |-> t.completed \cup c,
                      aborted |-> t.aborted \cup a]
Unmarked(t) == [data |-> t.data, used |-> t.used, torn |-> t.torn, whole |-> t.whole,
                manifest |-> FALSE, completed |-> t.completed, aborted |-> t.aborted]

(***************************************************************************)
(* Commands under a plain lock: start, backup, build                       *)
(***************************************************************************)
Bounded(cmd) == /\ cmd = "backup" => Cardinality(backups) < MaxBackups
                /\ cmd = "build" => build <= MaxBuilds

\* everything a command looks at before it creates the lock
Open(p, cmd) == /\ pc[p] = "idle"
                /\ Unlocked
                /\ Bounded(cmd)
                /\ Go(p, "opening")
                /\ job' = [job EXCEPT ![p] = Job(cmd, 0, 0, 1)]
                /\ UNCHANGED <<lockVars, rootVars, runVars, kitVars, lease>>

\* mutant: the lock file is written over
Creatable_Any == TRUE
\* openSync(path, "wx")
Creatable == lock = "none"

TakeLock(p) == /\ pc[p] = "opening"
               /\ Creatable
               /\ Bounded(job[p].cmd)
               /\ lock' = job[p].cmd
               /\ Go(p, job[p].cmd) /\ job' = [job EXCEPT ![p] = NoJob]
               /\ UNCHANGED <<journal, prep, rootVars, runVars, kitVars, lease>>

LockTaken(p) == /\ pc[p] = "opening"
                /\ ~Creatable
                /\ Finish(p)
                /\ UNCHANGED <<lockVars, rootVars, runVars, kitVars, lease>>

\* the finally of each command: the lock goes, whether its receipt was written
ReleaseLock(p) == lock' = "none" /\ Finish(p) /\ UNCHANGED <<journal, prep, lease>>

Launch(p) == /\ pc[p] = "start"
             /\ active' = Noted(active, TRUE)
             /\ server' = TRUE
             /\ Go(p, "serving")
             /\ UNCHANGED <<lockVars, stage, prior, writes, kitVars, lease, job>>

\* the receipt start-requested cannot be written, for instance on a full disk
LaunchFails(p) == /\ pc[p] = "start"
                  /\ active' = Noted(active, FALSE)
                  /\ ReleaseLock(p)
                  /\ UNCHANGED <<stage, prior, runVars, kitVars>>

ServerWrites == /\ server
                /\ writes < MaxWrites
                /\ writes' = writes + 1
                /\ active' = Written(active, writes + 1)
                /\ UNCHANGED <<lockVars, stage, prior, server, kitVars, lease, pc, job>>

StopServer(p, ok) == /\ pc[p] = "serving"
                     /\ server' = FALSE
                     /\ active' = Noted(active, ok)
                     /\ ReleaseLock(p)
                     /\ UNCHANGED <<stage, prior, writes, kitVars>>

\* a server whose launcher is gone, or could not prove that it stopped
OrphanExits == /\ server
               /\ \A p \in Procs : pc[p] # "serving"
               /\ server' = FALSE
               /\ UNCHANGED <<lockVars, rootVars, writes, kitVars, lease, pc, job>>

\* artifacts sort before the database
CopyArtifacts(p) == /\ pc[p] = "backup"
                    /\ active.data # 0
                    /\ Go(p, "copying")
                    /\ job' = [job EXCEPT ![p] = Job("none", 0, active.data, 1)]
                    /\ UNCHANGED <<lockVars, rootVars, runVars, kitVars, lease>>

NothingToCopy(p) == /\ pc[p] = "backup"
                    /\ active.data = 0
                    /\ ReleaseLock(p)
                    /\ UNCHANGED <<rootVars, runVars, kitVars>>

FinishBackup(p, ok) ==
  /\ pc[p] = "copying"
  /\ backups' = backups \cup {[artifacts |-> job[p].data, database |-> active.data]}
  /\ active' = Noted(active, ok)
  /\ ReleaseLock(p)
  /\ UNCHANGED <<stage, prior, runVars, build, restores, gone>>

FinishBuild(p) == /\ pc[p] = "build"
                  /\ build' = build + 1
                  /\ ReleaseLock(p)
                  /\ UNCHANGED <<rootVars, runVars, backups, restores, gone>>

(***************************************************************************)
(* restoreBackup, up to the journal                                        *)
(***************************************************************************)
\* what is verified before the lease: the build, the backup, the state root and,
\* if the root was used by then, the confirmation, which whoever asks can give
Inspect(p, b) ==
  /\ pc[p] = "idle"
  /\ Unlocked
  /\ restores < MaxRestores
  /\ restores' = restores + 1
  /\ Go(p, "checked")
  /\ job' = [job EXCEPT ![p] = Job("none", restores + 1, b.database, build)]
  /\ UNCHANGED <<lockVars, rootVars, runVars, build, backups, gone, lease>>

\* mutant: whoever comes later shares the lease
LeaseFree_Shared == TRUE
LeaseFree == lease = NoProc

EnterLease(p) == /\ pc[p] = "checked"
                 /\ LeaseFree
                 /\ Unlocked
                 /\ stage[job[p].op] = Absent /\ prior[job[p].op] = Absent
                 /\ lease' = p
                 /\ Go(p, "leased")
                 /\ UNCHANGED <<lockVars, rootVars, runVars, kitVars, job>>

TurnedAway(p) == /\ pc[p] = "checked"
                 /\ ~(LeaseFree /\ Unlocked)
                 /\ Finish(p)
                 /\ UNCHANGED <<lockVars, rootVars, runVars, kitVars, lease>>

\* the finally of a restore and of a recovery
GiveUp(p) == Finish(p) /\ lease' = NoProc

\* publishInitialRestoreJournal: a file of its own, linked to where the lock is
Prepare(p) == /\ pc[p] = "leased"
              /\ Unlocked
              /\ prep' = job[p].op
              /\ Go(p, "prepared")
              /\ UNCHANGED <<lock, journal, rootVars, runVars, kitVars, lease, job>>

NotPrepared(p) == /\ pc[p] = "leased"
                  /\ ~Unlocked
                  /\ GiveUp(p)
                  /\ UNCHANGED <<lockVars, rootVars, runVars, kitVars>>

Publish(p) == /\ pc[p] = "prepared"
              /\ Creatable
              /\ lock' = "restore"
              /\ journal' = [op |-> job[p].op, phase |-> "staging", data |-> job[p].data,
                             build |-> job[p].build]
              /\ Go(p, "published") /\ job' = [job EXCEPT ![p] = NoJob]
              /\ UNCHANGED <<prep, rootVars, runVars, kitVars, lease>>

\* the link is refused: the lock is there by now, or the file system fails
PublishFails(p) == /\ pc[p] = "prepared"
                   /\ prep' = 0
                   /\ GiveUp(p)
                   /\ UNCHANGED <<lock, journal, rootVars, runVars, kitVars>>

Unalias(p) == /\ pc[p] = "published"
              /\ prep' = 0
              /\ Go(p, "direct")
              /\ UNCHANGED <<lock, journal, rootVars, runVars, kitVars, lease, job>>

(***************************************************************************)
(* The journal, from staging to committed or aborted.  The owner of the    *)
(* lease goes on from the phase and the trees it finds, whether it is the  *)
(* restore itself or a recovery after it.                                  *)
(***************************************************************************)
Op == journal.op
Owns(p, modes) == pc[p] \in modes /\ lock = "restore"
Phase(ph) == journal' = [op |-> Op, phase |-> ph, data |-> journal.data,
                         build |-> journal.build]
Moves(p)   == UNCHANGED <<lockVars, runVars, kitVars, lease, pc, job>>
Records(p) == UNCHANGED <<lock, prep, rootVars, runVars, kitVars, lease, pc, job>>

\* createRestoredStateStage, from its first file to its last
Partial  == [data |-> 0, used |-> FALSE, torn |-> FALSE, whole |-> FALSE, manifest |-> FALSE,
             completed |-> {}, aborted |-> {}]
Restored == [data |-> journal.data, used |-> TRUE, torn |-> FALSE, whole |-> TRUE,
             manifest |-> TRUE, completed |-> {}, aborted |-> {}]

StartStage(p) == /\ Owns(p, {"direct"}) /\ journal.phase = "staging"
                 /\ stage[Op] = Absent
                 /\ stage' = [stage EXCEPT ![Op] = Partial]
                 /\ UNCHANGED <<active, prior>> /\ Moves(p)

FillStage(p) == /\ Owns(p, {"direct"}) /\ journal.phase = "staging"
                /\ stage[Op] # Absent /\ ~stage[Op].whole
                /\ stage' = [stage EXCEPT ![Op] = Restored]
                /\ UNCHANGED <<active, prior>> /\ Moves(p)

RecordPrepared(p) == /\ Owns(p, {"direct"}) /\ journal.phase = "staging"
                     /\ stage[Op] # Absent /\ stage[Op].whole
                     /\ Phase("prepared") /\ Records(p)

Advancing == {"direct", "recover"}

\* validateStateAtRoot and validateRestoredPayload of a tree
Payload(t) == t # Absent /\ t.whole /\ t.manifest /\ t.data = journal.data

\* mutant: the active tree is deleted and an empty one kept in its place
MovePrior_Deleted(p) == /\ Owns(p, Advancing) /\ journal.phase = "prepared"
                        /\ Payload(stage[Op])
                        /\ active # Absent /\ prior[Op] = Absent
                        /\ prior' = [prior EXCEPT ![Op] = Fresh]
                        /\ active' = Absent
                        /\ UNCHANGED stage /\ Moves(p)

MovePrior(p) == /\ Owns(p, Advancing) /\ journal.phase = "prepared"
                /\ Payload(stage[Op])
                /\ active # Absent /\ prior[Op] = Absent
                /\ prior' = [prior EXCEPT ![Op] = active]
                /\ active' = Absent
                /\ UNCHANGED stage /\ Moves(p)

RecordPriorMoved(p) == /\ Owns(p, Advancing) /\ journal.phase = "prepared"
                       /\ Payload(stage[Op])
                       /\ active = Absent /\ prior[Op] # Absent
                       /\ Phase("prior-moved") /\ Records(p)

Install(p) == /\ Owns(p, Advancing) /\ journal.phase = "prior-moved"
              /\ prior[Op] # Absent
              /\ Payload(stage[Op]) /\ active = Absent
              /\ active' = stage[Op]
              /\ stage' = [stage EXCEPT ![Op] = Absent]
              /\ UNCHANGED prior /\ Moves(p)

RecordInstalled(p) == /\ Owns(p, Advancing) /\ journal.phase = "prior-moved"
                      /\ prior[Op] # Absent
                      /\ stage[Op] = Absent /\ Payload(active)
                      /\ Phase("installed") /\ Records(p)

\* ensureRestoreCompletedReceipt and ensureRestoreAbortedReceipt, where none is yet
IssuesCompleted == /\ journal.phase = "installed"
                   /\ Payload(active) /\ prior[Op] # Absent
                   /\ Op \notin active.completed

\* mutant: a recovery also takes back a restore that was prepared
Abortable_Prepared == {"staging", "prepared", "aborted"}
Abortable == {"staging", "aborted"}
IssuesAborted == /\ journal.phase \in Abortable
                 /\ active # Absent /\ prior[Op] = Absent /\ stage[Op] = Absent
                 /\ Op \notin active.aborted

IssueCompleted(p) == /\ Owns(p, Advancing) /\ IssuesCompleted
                     /\ ~active.torn
                     /\ active' = Received(active, {Op}, {})
                     /\ UNCHANGED <<stage, prior>> /\ Moves(p)

RecordCommitted(p) == /\ Owns(p, Advancing) /\ journal.phase = "installed"
                      /\ Payload(active) /\ prior[Op] # Absent
                      /\ Op \in active.completed
                      /\ Phase("committed") /\ Records(p)

DropManifest(p) == /\ Owns(p, Advancing) /\ journal.phase = "committed"
                   /\ Payload(active) /\ prior[Op] # Absent
                   /\ active' = Unmarked(active)
                   /\ UNCHANGED <<stage, prior>> /\ Moves(p)

\* a receipt directory that cannot be read, at the receipt or before it
Unreadable(p) == /\ Owns(p, Advancing)
                 /\ IssuesCompleted \/ (pc[p] = "recover" /\ IssuesAborted)
                 /\ active.torn
                 /\ GiveUp(p)
                 /\ UNCHANGED <<lockVars, rootVars, runVars, kitVars>>

\* removeRestoreStage
RemoveStage(p) == /\ Owns(p, {"recover"}) /\ journal.phase \in Abortable
                  /\ active # Absent /\ prior[Op] = Absent
                  /\ stage[Op] # Absent
                  /\ stage' = [stage EXCEPT ![Op] = Absent]
                  /\ UNCHANGED <<active, prior>> /\ Moves(p)

IssueAborted(p) == /\ Owns(p, {"recover"}) /\ IssuesAborted
                   /\ ~active.torn
                   /\ active' = Received(active, {}, {Op})
                   /\ UNCHANGED <<stage, prior>> /\ Moves(p)

RecordAborted(p) == /\ Owns(p, {"recover"}) /\ journal.phase = "staging"
                    /\ active # Absent /\ prior[Op] = Absent /\ stage[Op] = Absent
                    /\ Op \in active.aborted
                    /\ Phase("aborted") /\ Records(p)

\* finalizeRestoreJournal
RemoveJournal(p) ==
  /\ Owns(p, Advancing)
  /\ active # Absent
  /\ \/ /\ journal.phase = "committed"
        /\ prior[Op] # Absent
        /\ ~active.manifest /\ Op \in active.completed
     \/ /\ journal.phase = "aborted" /\ pc[p] = "recover"
        /\ prior[Op] = Absent /\ stage[Op] = Absent
        /\ Op \in active.aborted
  /\ lock' = "none"
  /\ journal' = NoJournal
  /\ Go(p, "closing")
  /\ UNCHANGED <<prep, rootVars, runVars, kitVars, lease, job>>

ReleaseLease(p) == /\ pc[p] = "closing"
                   /\ GiveUp(p)
                   /\ UNCHANGED <<lockVars, rootVars, runVars, kitVars>>

(***************************************************************************)
(* recoverInterruptedRestore, up to the journal                            *)
(***************************************************************************)
Recover(p) == /\ pc[p] = "idle"
              /\ ~Unlocked
              /\ LeaseFree
              /\ lease' = p
              /\ Go(p, "recovering")
              /\ UNCHANGED <<lockVars, rootVars, runVars, kitVars, job>>

\* without a lock a preparation was never published
DropPreparation(p) == /\ pc[p] = "recovering"
                      /\ lock = "none"
                      /\ prep' = 0
                      /\ GiveUp(p)
                      /\ UNCHANGED <<lock, journal, rootVars, runVars, kitVars>>

DropAlias(p) == /\ pc[p] = "recovering"
                /\ lock = "restore" /\ prep = Op
                /\ prep' = 0
                /\ UNCHANGED <<lock, journal, rootVars, runVars, kitVars, lease, pc, job>>

ReadJournal(p) == /\ pc[p] = "recovering"
                  /\ lock = "restore" /\ prep = 0
                  /\ journal.build = build
                  /\ Go(p, "recover")
                  /\ UNCHANGED <<lockVars, rootVars, runVars, kitVars, lease, job>>

\* a lock that is not a journal, or a journal of another build
RefuseRecovery(p) == /\ pc[p] = "recovering"
                     /\ \/ lock \in Plain
                        \/ lock = "restore" /\ prep = 0 /\ journal.build # build
                     /\ GiveUp(p)
                     /\ UNCHANGED <<lockVars, rootVars, runVars, kitVars>>

(***************************************************************************)
(* A process is killed, or throws where the code cleans up no more than    *)
(* the lease: what it wrote stays, and of a receipt it was writing perhaps *)
(* a part.                                                                 *)
(***************************************************************************)
Gone(p, half) ==
  /\ pc[p] # "idle"
  /\ gone < MaxGone
  /\ gone' = gone + 1
  /\ half => Owns(p, Advancing) /\ (IssuesCompleted \/ (pc[p] = "recover" /\ IssuesAborted))
  /\ active' = IF half THEN Noted(active, FALSE) ELSE active
  /\ lease' = IF lease = p THEN NoProc ELSE lease
  /\ Finish(p)
  /\ UNCHANGED <<lockVars, stage, prior, runVars, build, backups, restores>>

Command(p) == \/ TakeLock(p) \/ LockTaken(p) \/ Launch(p) \/ LaunchFails(p)
              \/ CopyArtifacts(p) \/ NothingToCopy(p) \/ FinishBuild(p)
              \/ \E ok \in BOOLEAN : FinishBackup(p, ok)
Begins(p) == \/ EnterLease(p) \/ TurnedAway(p) \/ Prepare(p) \/ NotPrepared(p)
             \/ Publish(p) \/ PublishFails(p) \/ Unalias(p)
Stages(p) == StartStage(p) \/ FillStage(p) \/ RecordPrepared(p)
Advances(p) == \/ MovePrior(p) \/ RecordPriorMoved(p) \/ Install(p) \/ RecordInstalled(p)
               \/ IssueCompleted(p) \/ RecordCommitted(p) \/ DropManifest(p)
Aborts(p) == RemoveStage(p) \/ IssueAborted(p) \/ RecordAborted(p)
Ends(p) == Unreadable(p) \/ RemoveJournal(p) \/ ReleaseLease(p)
Recovers(p) == \/ Recover(p) \/ DropPreparation(p) \/ DropAlias(p) \/ ReadJournal(p)
               \/ RefuseRecovery(p)

\* what a process does next on its own, without being started or stopped
Goes(p) == \/ Command(p) \/ Begins(p) \/ Stages(p) \/ Advances(p) \/ Aborts(p) \/ Ends(p)
           \/ Recovers(p)

Next == \/ \E p \in Procs : Goes(p)
        \/ \E p \in Procs, cmd \in Plain : Open(p, cmd)
        \/ \E p \in Procs, b \in backups : Inspect(p, b)
        \/ \E p \in Procs, ok \in BOOLEAN : StopServer(p, ok)
        \/ \E p \in Procs, half \in BOOLEAN : Gone(p, half)
        \/ ServerWrites \/ OrphanExits

\* a process that runs goes on, and the service unit begins every start with a
\* recovery and starts again until it succeeds
Fairness == \A p \in Procs : WF_vars(Goes(p))

Spec == Init /\ [][Next]_vars /\ Fairness

(***************************************************************************)
(* Properties                                                              *)
(***************************************************************************)
Pcs == {"idle", "opening", "serving", "copying", "checked", "leased", "prepared", "published",
        "direct", "recovering", "recover", "closing"} \cup Plain

\* The types of the variables; the journal is that of a restore exactly while
\* the lock is one.
TypeOK ==
  /\ lock \in {"none", "restore"} \cup Plain
  /\ journal \in [op : Ops, phase : Phases, data : Elsewhere..MaxWrites, build : Builds] \cup {NoJournal}
  /\ lock = "restore" <=> journal # NoJournal
  /\ prep \in 0..MaxRestores
  /\ active \in Tree \cup {Absent}
  /\ stage \in [Ops -> Tree \cup {Absent}] /\ prior \in [Ops -> Tree \cup {Absent}]
  /\ lease \in Procs \cup {NoProc}
  /\ server \in BOOLEAN
  /\ build \in Builds
  /\ backups \subseteq [artifacts : Elsewhere..MaxWrites, database : Elsewhere..MaxWrites]
  /\ restores \in 0..MaxRestores /\ writes \in 0..MaxWrites /\ gone \in 0..MaxGone
  /\ pc \in [Procs -> Pcs]
  /\ job \in [Procs -> [cmd : Plain \cup {"none"}, op : 0..MaxRestores, data : Elsewhere..MaxWrites,
                        build : Builds]]

\* Where the kit keeps trees for good: the state root and what restores replaced.
Kept == ({active} \cup {prior[o] : o \in Ops}) \ {Absent}
Continues(u, t) == u.data >= t.data /\ t.completed \subseteq u.completed /\ t.aborted \subseteq u.aborted

\* No step of any command, nor the loss of one, loses a tree: whatever state was
\* active or had been replaced lives on with all the receipts it held
\* (advanceRestoreTransaction renames, and removes only stages).
NothingIsLost == [][\A t \in Kept : \E u \in Kept' : Continues(u, t)]_vars

\* Whenever no restore has the lock, each one that ever began is done or undone
\* as a whole: no stage and no restore manifest is left, the state root is
\* complete, what a restore replaced is kept exactly if its completion is
\* attested, and none is attested both ways.
SettledEitherWay ==
  lock # "restore" =>
    /\ active # Absent /\ active.whole /\ ~active.manifest
    /\ \A o \in Ops : /\ stage[o] = Absent
                      /\ prior[o] # Absent <=> \E t \in Kept : o \in t.completed
                      /\ \A t, u \in Kept : ~(o \in t.completed /\ o \in u.aborted)

\* Wherever the processes that work on a restore are lost, the next recovery finds
\* the trees as the phase of the journal has them: none of the checks of the trees
\* by which advanceRestoreTransaction and recoverInterruptedRestore would give up
\* for good (RECOVERY_INVALID) fails.
RecoveryFindsItsTrees ==
  lock = "restore" =>
    /\ journal.phase \in Abortable => active # Absent /\ prior[Op] = Absent
    /\ journal.phase = "prepared" =>
         Payload(stage[Op]) /\ (active # Absent <=> prior[Op] = Absent)
    /\ journal.phase = "prior-moved" =>
         /\ prior[Op] # Absent
         /\ \/ Payload(stage[Op]) /\ active = Absent
            \/ stage[Op] = Absent /\ Payload(active)
    /\ journal.phase = "installed" => prior[Op] # Absent /\ Payload(active)
    /\ journal.phase = "committed" =>
         /\ prior[Op] # Absent /\ active # Absent /\ Op \in active.completed
         /\ active.manifest => Payload(active)

\* The database and the artifacts of a backup are of one moment, though they are
\* copied one after the other, and the application never runs on a state root
\* that is being replaced: the lock of the one keeps the other out.
BackupsAreConsistent == /\ \A b \in backups : b.artifacts = b.database
                        /\ server => lock = "start"

\* A restore that has its journal comes to an end, whatever happens to the
\* processes that work on it, unless a receipt of the state root is only partly
\* written or the build it was verified with has been replaced.
Blocked == \/ active # Absent /\ active.torn
           \/ journal.build # build
RestoresAreSettled == lock = "restore" ~> lock # "restore" \/ Blocked

=============================================================================
