--------------------------- MODULE ArtifactUpload ---------------------------
(***************************************************************************)
(* Uploads of speaker artifacts (services/artifact-records over            *)
(* services/artifact-store): a row in artifact_upload_intents reserves a   *)
(* version, the bytes are staged in a file, and a last transaction writes  *)
(* the artifact record.  Every call first recovers the uploads it finds    *)
(* PREPARED, its own process's or another's.                               *)
(*                                                                         *)
(* The code is synchronous, so the calls of one process never interleave;  *)
(* processes interleave between transactions and file operations, and a    *)
(* process may die between any two steps, which empties its index of known *)
(* files.  Bytes, media types and names are left out: a file is absent,    *)
(* partly written or whole.  The record, the content version, the domain   *)
(* event and the task state change in one transaction and are one fact.    *)
(***************************************************************************)
EXTENDS Naturals, FiniteSets, Sequences

CONSTANTS
  Process,     \* server processes
  Scope,       \* what has versions of its own: a person's task of one kind
  MaxUpload,   \* bound: uploads ever begun
  MaxCrash,    \* bound: crashes
  MaxDoubt     \* bound: times a person loses the authority to upload

ASSUME ArtifactAssumption ==
  /\ Process # {} /\ IsFiniteSet(Process) /\ Scope # {}
  /\ MaxUpload \in Nat \ {0}
  /\ MaxCrash \in Nat /\ MaxDoubt \in Nat

Upload == 1..MaxUpload
NoUpload == 0

VARIABLES
  intent,     \* artifact_upload_intents, by artifact id
  records,    \* artifact_records: the uploads that are committed
  file,       \* the artifact directory
  index,      \* versionsByScope of each process's LocalArtifactStore
  call,       \* what each process is doing
  authority,  \* the scopes whose person may upload (an accepted assignment)
  crashes, doubts  \* bounded histories

tables == <<intent, records>>
world == <<authority, doubts>>
uploadVars == <<intent, records, file, index, call, authority, crashes, doubts>>

-----------------------------------------------------------------------------
Intent(st, s, v, prev) == [status |-> st, scope |-> s, version |-> v, supersedes |-> prev]

SomeScope == CHOOSE s \in Scope : TRUE
NoIntent == Intent("NONE", SomeScope, 0, NoUpload)

WithStatus(u, st) ==
  Intent(st, intent[u].scope, intent[u].version, intent[u].supersedes)

Prepared == {u \in Upload : intent[u].status = "PREPARED"}

\* selectRows: the committed uploads of one scope; versions are unique.
Rows(s) == {u \in records : intent[u].scope = s}

\* The row with the highest version.
Last(s) == IF Rows(s) = {} THEN NoUpload
           ELSE CHOOSE u \in Rows(s) : \A w \in Rows(s) : intent[w].version <= intent[u].version

\* What a call is doing: at, what it came for, its scope, the intents it still
\* has to recover, the upload in hand, and whether its file is staged.
Call(at, goal, s, todo, u, staged) ==
  [at |-> at, goal |-> goal, scope |-> s, todo |-> todo, upload |-> u, staged |-> staged]

Idle == Call("idle", "view", SomeScope, {}, NoUpload, FALSE)

Goto(p, at) ==
  call' = [call EXCEPT ![p] = Call(at, call[p].goal, call[p].scope, call[p].todo,
                                   call[p].upload, call[p].staged)]

Return(p) == call' = [call EXCEPT ![p] = Idle]

-----------------------------------------------------------------------------
\* The process-local index: a scope's history is a sequence of uploads.
Known(h) == {h[i] : i \in 1..Len(h)}

Fits(h, u) ==
  /\ intent[u].version = Len(h) + 1
  /\ intent[u].supersedes = IF h = <<>> THEN NoUpload ELSE h[Len(h)]

\* LocalArtifactStore.hydrate: a known file is left alone, one that does not
\* continue the history is an integrity failure.
Hydratable(h, u) == u \in Known(h) \/ Fits(h, u)

Hydrated(h, u) == IF u \notin Known(h) /\ Fits(h, u) THEN Append(h, u) ELSE h

\* hydrateRows: the committed rows of a scope, oldest first.  The versions are
\* 1..n; the call throws at the first row that does not fit.
RowAt(s, v) == CHOOSE u \in Rows(s) : intent[u].version = v

HydrateRows(h, s) ==
  LET n == Cardinality(Rows(s))
      step[k \in 0..n] ==
        IF k = 0 THEN [ok |-> TRUE, history |-> h]
        ELSE IF step[k - 1].ok
             THEN [ok |-> Hydratable(step[k - 1].history, RowAt(s, k)),
                   history |-> Hydrated(step[k - 1].history, RowAt(s, k))]
             ELSE step[k - 1]
  IN  step[n]

\* discardUnpublished: out of the index, and the file is unlinked.
Forgotten(h, u) == SelectSeq(h, LAMBDA w : w # u)

-----------------------------------------------------------------------------
\* recoverSpeakerArtifactUploads opens every call: it reads the PREPARED
\* intents of the event once and works on that copy.  MaxUpload bounds the
\* calls that may begin an upload.
Open(p) ==
  /\ call[p].at = "idle"
  /\ \E goal \in {"create", "view"}, s \in Scope :
       /\ goal = "create" =>
            Cardinality({u \in Upload : intent[u].status # "NONE"})
            + Cardinality({q \in Process : call[q].goal = "create"}) < MaxUpload
       /\ call' = [call EXCEPT ![p] = Call("recovering", goal, s, Prepared, NoUpload, FALSE)]
  /\ UNCHANGED <<tables, file, index, world>>

\* store.read: the bytes are there and have the length and hash of the intent.
Readable(u) == file[u] = "whole"

\* One intent of the copy: hydrate and read.
Inspect(p) ==
  /\ call[p].at = "recovering"
  /\ \E u \in call[p].todo :
       LET s == intent[u].scope IN
       /\ index' = [index EXCEPT ![p][s] = Hydrated(index[p][s], u)]
       /\ call' = [call EXCEPT ![p] =
            Call(IF Hydratable(index[p][s], u) /\ Readable(u) THEN "found" ELSE "missing",
                 call[p].goal, call[p].scope, call[p].todo, u, TRUE)]
  /\ UNCHANGED <<tables, file, world>>

\* What the tables let finalizeIntentInTransaction write: the content version
\* of this version is not another upload's, the intent is not aborted or gone,
\* the predecessor is committed and the person is still entitled.
Recordable(u) ==
  \/ u \in records
  \/ /\ intent[u].status \in {"PREPARED", "COMMITTED"}
     /\ \A w \in Rows(intent[u].scope) : intent[w].version # intent[u].version
     /\ \/ intent[u].version = 1 /\ intent[u].supersedes = NoUpload
        \/ /\ intent[u].supersedes \in Rows(intent[u].scope)
           /\ intent[intent[u].supersedes].version = intent[u].version - 1
     /\ intent[u].scope \in authority

\* finalizeIntentInTransaction: the record and the status in one transaction.
FinalizeIntent(u) ==
  /\ records' = records \union {u}
  /\ intent' = [intent EXCEPT ![u] =
       IF intent[u].status = "PREPARED" THEN WithStatus(u, "COMMITTED") ELSE intent[u]]

\* The recovery's own transaction; when it throws the whole call throws, and
\* the index keeps what was hydrated.
RecoverFound(p) ==
  /\ call[p].at = "found"
  /\ LET u == call[p].upload IN
     \/ /\ intent[u].scope \in authority /\ Recordable(u)
        /\ FinalizeIntent(u)
        /\ call' = [call EXCEPT ![p] = Call("recovering", call[p].goal, call[p].scope,
                                            call[p].todo \ {u}, NoUpload, FALSE)]
     \/ /\ ~(intent[u].scope \in authority /\ Recordable(u))
        /\ Return(p) /\ UNCHANGED tables
  /\ UNCHANGED <<file, index, world>>

\* mutant: an upload is aborted whatever became of it meanwhile
AbortIntent_Unguarded(u) == intent' = [intent EXCEPT ![u] = WithStatus(u, "ABORTED")]

\* mutant: an upload that cannot be read is skipped
AbortIntent_Skipped(u) == UNCHANGED intent

AbortIntent(u) ==
  intent' = [intent EXCEPT ![u] =
    IF intent[u].status = "PREPARED" THEN WithStatus(u, "ABORTED") ELSE intent[u]]

\* mutant: the caller knows that its upload failed and does not ask the tables
MayDiscard_Unasked(u) == TRUE

\* The bytes may go once the intent says ABORTED and no record has them.
MayDiscard(u) == intent[u].status = "ABORTED" /\ u \notin records

Discard(p, u) ==
  /\ file' = [file EXCEPT ![u] = "absent"]
  /\ index' = [index EXCEPT ![p][intent[u].scope] = Forgotten(index[p][intent[u].scope], u)]

\* The recovery gives an upload up that it cannot read.
RecoverMissing(p) ==
  /\ call[p].at = "missing"
  /\ AbortIntent(call[p].upload) /\ Goto(p, "dropping")
  /\ UNCHANGED <<records, file, index, world>>

RecoverDrop(p) ==
  /\ call[p].at = "dropping"
  /\ IF MayDiscard(call[p].upload) THEN Discard(p, call[p].upload) ELSE UNCHANGED <<file, index>>
  /\ call' = [call EXCEPT ![p] = Call("recovering", call[p].goal, call[p].scope,
                                      call[p].todo \ {call[p].upload}, NoUpload, FALSE)]
  /\ UNCHANGED <<tables, world>>

\* listSpeakerArtifactRecords, getSpeakerArtifactRecord, readSpeakerArtifact.
View(p) ==
  /\ call[p].at = "recovering" /\ call[p].todo = {} /\ call[p].goal = "view"
  /\ index' = [index EXCEPT ![p][call[p].scope] =
                 HydrateRows(index[p][call[p].scope], call[p].scope).history]
  /\ Return(p)
  /\ UNCHANGED <<tables, file, world>>

-----------------------------------------------------------------------------
\* The first transaction of createSpeakerArtifactRecord.  A tombstone of the
\* next version is deleted; an upload of it that is under way elsewhere makes
\* the insert fail.
NextUpload == CHOOSE u \in Upload : intent[u].status = "NONE"

SameVersion(s, st) ==
  {u \in Upload : /\ intent[u].status = st /\ intent[u].scope = s
                  /\ intent[u].version = Cardinality(Rows(s)) + 1}

Prepare(p) ==
  /\ call[p].at = "recovering" /\ call[p].todo = {} /\ call[p].goal = "create"
  /\ LET s == call[p].scope
         hydration == HydrateRows(index[p][s], s)
     IN
     /\ index' = IF s \in authority THEN [index EXCEPT ![p][s] = hydration.history] ELSE index
     /\ \/ /\ s \in authority /\ hydration.ok /\ SameVersion(s, "PREPARED") = {}
           /\ intent' = [u \in Upload |->
                IF u \in SameVersion(s, "ABORTED") THEN WithStatus(u, "DELETED")
                ELSE IF u = NextUpload
                     THEN Intent("PREPARED", s, Cardinality(Rows(s)) + 1, Last(s))
                     ELSE intent[u]]
           /\ call' = [call EXCEPT ![p] = Call("prepared", "create", s, {}, NextUpload, FALSE)]
        \/ /\ ~(s \in authority /\ hydration.ok /\ SameVersion(s, "PREPARED") = {})
           /\ Return(p) /\ UNCHANGED intent
  /\ UNCHANGED <<records, file, world>>

\* writeImmutableBytes creates the file; the bytes follow.
StageOpens(p) ==
  /\ call[p].at = "prepared"
  /\ file' = [file EXCEPT ![call[p].upload] = "partial"]
  /\ Goto(p, "writing")
  /\ UNCHANGED <<tables, index, world>>

\* The bytes are written and synced, or the write fails and the file is
\* unlinked.  Bytes that do not continue this process's history are discarded.
StageEnds(p) ==
  /\ call[p].at = "writing"
  /\ LET u == call[p].upload
         s == call[p].scope
     IN
     \/ /\ Fits(index[p][s], u)
        /\ file' = [file EXCEPT ![u] = IF file[u] = "absent" THEN "absent" ELSE "whole"]
        /\ index' = [index EXCEPT ![p][s] = Append(index[p][s], u)]
        /\ call' = [call EXCEPT ![p] = Call("staged", "create", s, {}, u, TRUE)]
     \/ /\ file' = [file EXCEPT ![u] = "absent"]
        /\ Goto(p, "failing") /\ UNCHANGED index
  /\ UNCHANGED <<tables, world>>

StillPrepared(u) == intent[u].status = "PREPARED"

\* onPrepared, which may throw, and the last transaction.
Finalize(p) ==
  /\ call[p].at = "staged"
  /\ LET u == call[p].upload IN
     \/ StillPrepared(u) /\ Recordable(u) /\ FinalizeIntent(u) /\ Return(p)
     \/ Goto(p, "failing") /\ UNCHANGED tables
  /\ UNCHANGED <<file, index, world>>

\* cleanupArtifactFailure
AbortFailed(p) ==
  /\ call[p].at = "failing"
  /\ AbortIntent(call[p].upload) /\ Goto(p, "undoing")
  /\ UNCHANGED <<records, file, index, world>>

Undo(p) ==
  /\ call[p].at = "undoing"
  /\ IF call[p].staged /\ MayDiscard(call[p].upload)
     THEN Discard(p, call[p].upload) ELSE UNCHANGED <<file, index>>
  /\ Return(p)
  /\ UNCHANGED <<tables, world>>

-----------------------------------------------------------------------------
\* The process dies and comes back with an empty index.
Crash(p) ==
  /\ crashes < MaxCrash
  /\ call[p].at # "idle" \/ \E s \in Scope : index[p][s] # <<>>
  /\ crashes' = crashes + 1
  /\ index' = [index EXCEPT ![p] = [s \in Scope |-> <<>>]]
  /\ Return(p)
  /\ UNCHANGED <<tables, file, authority, doubts>>

\* A person's assignment or participation changes.
LoseAuthority(s) ==
  /\ s \in authority /\ doubts < MaxDoubt
  /\ authority' = authority \ {s} /\ doubts' = doubts + 1
  /\ UNCHANGED <<tables, file, index, call, crashes>>

RegainAuthority(s) ==
  /\ s \notin authority
  /\ authority' = authority \union {s}
  /\ UNCHANGED <<tables, file, index, call, crashes, doubts>>

\* What a process does by itself once it is called.
Step(p) ==
  /\ \/ Inspect(p) \/ RecoverFound(p) \/ RecoverMissing(p) \/ RecoverDrop(p)
     \/ View(p) \/ Prepare(p) \/ StageOpens(p) \/ StageEnds(p)
     \/ Finalize(p) \/ AbortFailed(p) \/ Undo(p)
  /\ UNCHANGED crashes

UploadInit ==
  /\ intent = [u \in Upload |-> NoIntent]
  /\ records = {}
  /\ file = [u \in Upload |-> "absent"]
  /\ index = [p \in Process |-> [s \in Scope |-> <<>>]]
  /\ call = [p \in Process |-> Idle]
  /\ authority = Scope /\ crashes = 0 /\ doubts = 0

UploadNext ==
  \/ \E p \in Process : (Open(p) /\ UNCHANGED crashes) \/ Step(p) \/ Crash(p)
  \/ \E s \in Scope : LoseAuthority(s) \/ RegainAuthority(s)

UploadSpec == UploadInit /\ [][UploadNext]_uploadVars

\* A called process goes on, and somebody looks at the event again.
LiveSpec ==
  UploadSpec /\ \A p \in Process : WF_uploadVars(Step(p)) /\ WF_uploadVars(Open(p) /\ UNCHANGED crashes)

-----------------------------------------------------------------------------
\* Intent and record never tell different stories, and every committed record
\* can be served by a process that has just started: the rows of a scope follow
\* each other from version 1, each superseding the one before, and the bytes of
\* each are still in the directory, although any process may be recovering,
\* aborting or discarding the same upload.
CommittedIsServable ==
  /\ \A u \in Upload : u \in records <=> intent[u].status = "COMMITTED"
  /\ \A u \in records : file[u] = "whole"
  /\ \A s \in Scope :
       \A n \in 1..Cardinality(Rows(s)) :
         \E u \in Rows(s) :
           /\ intent[u].version = n
           /\ IF n = 1 THEN intent[u].supersedes = NoUpload
              ELSE /\ intent[u].supersedes \in Rows(s)
                   /\ intent[intent[u].supersedes].version = n - 1

\* An upload that was interrupted is settled in the end, one way or the other,
\* if nobody's authority stays in doubt and somebody looks at the event.
PreparedIsSettled ==
  []<>(authority # Scope) \/
  \A u \in Upload : intent[u].status = "PREPARED" ~> intent[u].status # "PREPARED"
=============================================================================
