--------------------------- MODULE ProductionAuth ---------------------------
(***************************************************************************)
(* Owner bootstrap and password sign-in of a production deployment         *)
(* (src/src/server/production-auth.ts, production-bootstrap.ts).           *)
(*                                                                         *)
(* A call runs in two database transactions with one scrypt evaluation     *)
(* between them.  The first transaction admits the call and writes an      *)
(* attempt lease, the second one settles it.  Calls come from several      *)
(* processes that share the SQLite file, so the two transactions of one    *)
(* call interleave with those of the others; a process may die between     *)
(* them and leave its lease row behind.                                    *)
(*                                                                         *)
(* Instants are kept relative to now: the time left until expires_at or    *)
(* blocked_until, and the age of window_started_at or last_failed_at up to *)
(* the largest cutoff any query compares it with.  A tick moves them all.  *)
(* All reads of the clock inside one transaction see the same instant.     *)
(* A caller is one slot of a process; its lease row has a random id, which *)
(* the slot stands for: a slot starts again once its old row has expired.  *)
(***************************************************************************)
EXTENDS Integers, FiniteSets

CONSTANTS
  LoginCaller,          \* slots that call loginProductionAccount
  BootstrapCaller,      \* slots that call bootstrapProductionWorkspace
  Opener,               \* processes that open the database
  Identity,             \* (workspace slug, email) pairs a login may name
  Owner,                \* the identity the bootstrap registers
  ActiveLimit,          \* PRODUCTION_AUTH_ACTIVE_ATTEMPT_LIMIT (4)
  BootstrapLimit,       \* PRODUCTION_BOOTSTRAP_ACTIVE_ATTEMPT_LIMIT (1)
  RowLimit,             \* PRODUCTION_AUTH_LEASE_ROW_LIMIT (64)
  GuardLimit,           \* PRODUCTION_AUTH_LOGIN_GUARD_LIMIT (256)
  CleanupBatch,         \* AUTH_CLEANUP_BATCH (64)
  IdentityFailureLimit, \* LOGIN_IDENTITY_FAILURE_LIMIT (5)
  LoginFailureLimit,    \* LOGIN_GLOBAL_FAILURE_LIMIT (20)
  BootstrapFailureLimit,\* BOOTSTRAP_GLOBAL_FAILURE_LIMIT (5)
  LeaseTtl,             \* AUTH_ATTEMPT_LEASE_MS (2 minutes)
  Window,               \* AUTH_WINDOW_MS (15 minutes)
  Retention,            \* AUTH_GUARD_RETENTION_MS (30 minutes)
  ChallengeTtl          \* PRODUCTION_BOOTSTRAP_TTL_MS (30 minutes)

Caller == LoginCaller \union BootstrapCaller
Kind == {"LOGIN", "BOOTSTRAP"}

ASSUME CallerAssumption ==
  /\ IsFiniteSet(LoginCaller) /\ IsFiniteSet(BootstrapCaller)
  /\ LoginCaller \intersect BootstrapCaller = {}
  /\ IsFiniteSet(Identity) /\ Owner \in Identity

ASSUME LimitAssumption ==
  /\ ActiveLimit \in Nat \ {0} /\ BootstrapLimit \in Nat \ {0}
  /\ RowLimit \in Nat \ {0} /\ GuardLimit \in Nat \ {0}
  /\ CleanupBatch \in Nat \ {0} /\ IdentityFailureLimit \in Nat \ {0}
  /\ LoginFailureLimit \in Nat \ {0} /\ BootstrapFailureLimit \in Nat \ {0}

ASSUME TimeAssumption ==
  /\ LeaseTtl \in Nat \ {0} /\ Window \in Nat \ {0}
  /\ Retention \in Nat /\ ChallengeTtl \in Nat \ {0}
  /\ LeaseTtl < Window /\ Window <= Retention

VARIABLES
  challenge,   \* the row of production_bootstrap_challenges
  configTtl,   \* time until the configured token expires
  prepared,    \* [Opener -> what prepareProductionBootstrapChallenge returned]
  workspaces,  \* rows of workspaces, each with its owner account and credential
  sessions,    \* callers whose browser holds a live session row
  call,        \* [Caller -> the call between its two transactions]
  leases,      \* callers that have a row in auth_attempt_leases
  leaseLeft,   \* [Caller -> time until that row's expires_at]
  loginGuard,  \* [Identity -> the row of auth_login_guards, failed = 0: no row]
  globalGuard  \* [Kind -> the row of auth_global_guards, failed = 0: no row]

clocked == <<leaseLeft, loginGuard, globalGuard>>
vars == <<challenge, configTtl, prepared, workspaces, sessions, call, leases,
          leaseLeft, loginGuard, globalGuard>>

-----------------------------------------------------------------------------
KindOf(c) == IF c \in BootstrapCaller THEN "BOOTSTRAP" ELSE "LOGIN"
FailureLimit(k) == IF k = "LOGIN" THEN LoginFailureLimit ELSE BootstrapFailureLimit

\* left: time until blocked_until, age: since last_failed_at
NoLoginGuard == [failed |-> 0, left |-> 0, age |-> 0]
\* left: time until blocked_until, age: since window_started_at
NoGlobalGuard == [failed |-> 0, left |-> 0, age |-> 0]
IdleCall == [busy |-> FALSE, right |-> FALSE, known |-> FALSE, identity |-> Owner]

Rows(guards) == {i \in Identity : guards[i].failed > 0}
\* blocked_until is written exactly when the failures reach the limit
HasBlock(g, limit) == g.failed = limit
Lapsed(g, limit) == HasBlock(g, limit) /\ g.left = 0

\* the sets of n rows of S that "ORDER BY last_failed_at LIMIT n" may return
Oldest(guards, S, n) ==
  {D \in SUBSET S :
     /\ Cardinality(D) <= n
     /\ Cardinality(D) < n => D = S
     /\ \A d \in D, e \in S \ D : guards[d].age >= guards[e].age}

Without(guards, D) == [i \in Identity |-> IF i \in D THEN NoLoginGuard ELSE guards[i]]

\* what cleanupAuthAdmissionState leaves of the three tables; its batch covers
\* every lease row (RowLimit <= CleanupBatch in the code), so after it the
\* rows are the live leases
LeasesAfterCleanup_Kept == leases  \* mutant: expired leases are never removed
LeasesAfterCleanup == {c \in leases : leaseLeft[c] > 0}
LoginGuardsAfterCleanup ==
  LET stale == {i \in Rows(loginGuard) :
                  \/ loginGuard[i].age >= Retention
                  \/ Lapsed(loginGuard[i], IdentityFailureLimit)}
  IN  {Without(loginGuard, D) : D \in Oldest(loginGuard, stale, CleanupBatch)}
GlobalGuardsAfterCleanup ==
  [k \in Kind |-> IF globalGuard[k].age >= Window \/ Lapsed(globalGuard[k], FailureLimit(k))
                  THEN NoGlobalGuard ELSE globalGuard[k]]

HasCapacity(guards, i) == i \in Rows(guards) \/ Cardinality(Rows(guards)) < GuardLimit

\* reserveLoginGuardCapacity: a new row may cost an unblocked one its place
AfterReserve_AnyRow(guards, i) ==  \* mutant: a blocked row may be evicted
  IF HasCapacity(guards, i) THEN {guards}
  ELSE {Without(guards, D) : D \in Oldest(guards, Rows(guards), 1)}
AfterReserve(guards, i) ==
  IF HasCapacity(guards, i) THEN {guards}
  ELSE {Without(guards, D) : D \in Oldest(guards, {j \in Rows(guards) : guards[j].left = 0}, 1)}

(***************************************************************************)
(* admitAuthAttempt: cleanup, then the blocks, the guard capacity and the  *)
(* lease limits.  A refused call still commits its cleanup and eviction.   *)
(***************************************************************************)
LeaseAvailable_OffByOne(k, rows) ==  \* mutant: > for >=
  /\ Cardinality(rows) <= ActiveLimit
  /\ Cardinality(rows) < RowLimit
  /\ k = "BOOTSTRAP" => Cardinality(rows \intersect BootstrapCaller) <= BootstrapLimit
LeaseAvailable(k, rows) ==
  /\ Cardinality(rows) < ActiveLimit
  /\ Cardinality(rows) < RowLimit
  /\ k = "BOOTSTRAP" => Cardinality(rows \intersect BootstrapCaller) < BootstrapLimit

Blocked(k, i, guards) ==
  \/ GlobalGuardsAfterCleanup[k].left > 0
  \/ k = "LOGIN" /\ guards[i].left > 0

AdmitAuthAttempt(c, i, admitted) ==
  LET k == KindOf(c)
  IN  /\ globalGuard' = GlobalGuardsAfterCleanup
      /\ \E cleaned \in LoginGuardsAfterCleanup :
               \/ /\ Blocked(k, i, cleaned) /\ ~admitted
                  /\ loginGuard' = cleaned
               \/ /\ ~Blocked(k, i, cleaned)
                  /\ IF k = "LOGIN" THEN loginGuard' \in AfterReserve(cleaned, i)
                                    ELSE loginGuard' = cleaned
                  /\ admitted = /\ k = "LOGIN" => HasCapacity(loginGuard', i)
                                /\ LeaseAvailable(k, LeasesAfterCleanup)

LeaseIsCurrent(c) == c \in leases /\ leaseLeft[c] > 0

\* the call may start: it is not running and its slot's old row has expired
Ready(c) == ~call[c].busy /\ ~LeaseIsCurrent(c)

RecordGlobalFailure_ShortBlock(k) ==  \* mutant: blocks for the lease time
  globalGuard' = [globalGuard EXCEPT ![k] =
    LET failures == IF @.failed < FailureLimit(k) THEN @.failed + 1 ELSE @.failed
    IN  [failed |-> failures, age |-> @.age,
         left |-> IF failures >= FailureLimit(k) THEN LeaseTtl ELSE 0]]
RecordGlobalFailure(k) ==
  LET g == globalGuard[k]
      limit == FailureLimit(k)
      failures == IF g.failed < limit THEN g.failed + 1 ELSE limit
  IN  globalGuard' = [globalGuard EXCEPT ![k] =
        [failed |-> failures, age |-> g.age,
         left |-> IF failures >= limit THEN Window ELSE 0]]

\* recordLoginFailure once the capacity is reserved in guards
RecordLoginFailure(guards, i) ==
  LET g == guards[i]
      stale == \/ g.failed = 0 \/ g.age >= Window
               \/ Lapsed(g, IdentityFailureLimit)
      failures == IF stale THEN 1
                  ELSE IF g.failed < IdentityFailureLimit THEN g.failed + 1
                  ELSE IdentityFailureLimit
  IN  /\ loginGuard' = [guards EXCEPT ![i] =
           [failed |-> failures, age |-> 0,
            left |-> IF failures >= IdentityFailureLimit THEN Window ELSE 0]]
      /\ RecordGlobalFailure("LOGIN")
-----------------------------------------------------------------------------
Init ==
  /\ challenge = [state |-> "none", left |-> 0]
  /\ configTtl \in {0, ChallengeTtl}
  /\ prepared = [o \in Opener |-> [state |-> "none", left |-> 0]]
  /\ workspaces = 0
  /\ sessions = {}
  /\ call = [c \in Caller |-> IdleCall]
  /\ leases = {}
  /\ leaseLeft = [c \in Caller |-> 0]
  /\ loginGuard = [i \in Identity |-> NoLoginGuard]
  /\ globalGuard = [k \in Kind |-> NoGlobalGuard]

Down(n) == IF n > 0 THEN n - 1 ELSE 0
Up(n, cap) == IF n < cap THEN n + 1 ELSE cap
Older(ch) == [state |-> ch.state, left |-> Down(ch.left)]
Aged(g, cap) == [failed |-> g.failed, left |-> Down(g.left), age |-> Up(g.age, cap)]

\* the clock advances
Tick ==
  /\ challenge' = Older(challenge)
  /\ configTtl' = Down(configTtl)
  /\ prepared' = [o \in Opener |-> Older(prepared[o])]
  /\ leaseLeft' = [c \in Caller |-> Down(leaseLeft[c])]
  /\ loginGuard' = [i \in Identity |->
       IF loginGuard[i].failed = 0 THEN NoLoginGuard ELSE Aged(loginGuard[i], Retention)]
  /\ globalGuard' = [k \in Kind |->
       IF globalGuard[k].failed = 0 THEN NoGlobalGuard ELSE Aged(globalGuard[k], Window)]
  /\ UNCHANGED <<workspaces, sessions, call, leases>>

\* the operator deploys with a newly issued bootstrap token
Redeploy ==
  /\ configTtl' = ChallengeTtl
  /\ UNCHANGED <<challenge, prepared, workspaces, sessions, call, leases, clocked>>

\* prepareProductionBootstrapChallenge, outside any transaction
PrepareChallenge(o) ==
  /\ prepared[o].state = "none"
  /\ prepared' = [prepared EXCEPT ![o] =
       IF challenge.state # "none" \/ workspaces # 0
       THEN [state |-> "nothing", left |-> 0]
       ELSE IF configTtl = 0 THEN [state |-> "expired", left |-> 0]
       ELSE [state |-> "fresh", left |-> configTtl]]
  /\ UNCHANGED <<challenge, configTtl, workspaces, sessions, call, leases, clocked>>

\* an unconsumed challenge past its expiry loses its verifier
Expired(ch) == ch.state = "live" /\ ch.left = 0
ExpireChallenge ==
  challenge' = IF Expired(challenge) THEN [state |-> "invalidated", left |-> 0]
               ELSE challenge

\* installProductionBootstrapChallenge, in the opener's transaction
MayInstall_Unchecked(o) ==  \* mutant: the row is not read again under the lock
  workspaces = 0 /\ prepared[o].state \in {"fresh", "expired"}
MayInstall(o) ==
  /\ challenge.state = "none" /\ workspaces = 0
  /\ prepared[o].state \in {"fresh", "expired"}

InstallChallenge(o) ==
  /\ prepared[o].state # "none"
  /\ prepared' = [prepared EXCEPT ![o] = [state |-> "none", left |-> 0]]
  /\ \/ /\ Expired(challenge)
        /\ ExpireChallenge
     \/ /\ MayInstall(o)
        /\ challenge' = [state |-> IF prepared[o].state = "fresh" THEN "live" ELSE "invalidated",
                         left |-> prepared[o].left]
     \/ /\ ~Expired(challenge)
        /\ ~MayInstall(o)
        /\ UNCHANGED challenge
  /\ UNCHANGED <<configTtl, workspaces, sessions, call, leases, clocked>>

\* productionBootstrapStatus expires the challenge when it is read
ReadStatus ==
  /\ Expired(challenge)
  /\ ExpireChallenge
  /\ UNCHANGED <<configTtl, prepared, workspaces, sessions, call, leases, clocked>>

\* first transaction of bootstrapProductionWorkspace
ClaimBootstrap(c, right) ==
  /\ Ready(c) /\ c \in BootstrapCaller
  /\ \/ /\ AdmitAuthAttempt(c, Owner, FALSE)
        /\ leases' = LeasesAfterCleanup
        /\ UNCHANGED <<challenge, call, leaseLeft>>
     \/ /\ AdmitAuthAttempt(c, Owner, TRUE)   \* the new lease is deleted again
        /\ challenge.state # "live" \/ Expired(challenge)
        /\ leases' = LeasesAfterCleanup
        /\ IF Expired(challenge) THEN ExpireChallenge ELSE UNCHANGED challenge
        /\ UNCHANGED <<call, leaseLeft>>
     \/ /\ AdmitAuthAttempt(c, Owner, TRUE)
        /\ challenge.state = "live" /\ challenge.left > 0
        /\ leases' = LeasesAfterCleanup \union {c}
        /\ leaseLeft' = [leaseLeft EXCEPT ![c] = LeaseTtl]
        /\ call' = [call EXCEPT ![c] = 
             [busy |-> TRUE, right |-> right, known |-> FALSE, identity |-> Owner]]
        /\ UNCHANGED challenge
  /\ UNCHANGED <<configTtl, prepared, workspaces, sessions>>

DeleteExactLease(c) ==
  /\ leases' = leases \ {c}
  /\ leaseLeft' = [leaseLeft EXCEPT ![c] = 0]

\* second transaction: the conditions that must all hold, in the code's order
BootstrapSettles(c) ==
  /\ LeaseIsCurrent(c)
  /\ globalGuard["BOOTSTRAP"].left = 0
  /\ challenge.state = "live"

ConsumeChallenge_Forgotten == UNCHANGED challenge  \* mutant
ConsumeChallenge == challenge' = [state |-> "consumed", left |-> challenge.left]

SettleBootstrap(c) ==
  /\ call[c].busy /\ c \in BootstrapCaller
  /\ call' = [call EXCEPT ![c] = IdleCall]
  /\ \/ /\ ~BootstrapSettles(c)
        /\ IF LeaseIsCurrent(c) THEN DeleteExactLease(c) ELSE UNCHANGED <<leases, leaseLeft>>
        /\ UNCHANGED <<challenge, workspaces, sessions, globalGuard>>
     \/ /\ BootstrapSettles(c) /\ challenge.left = 0
        /\ ExpireChallenge /\ DeleteExactLease(c)
        /\ UNCHANGED <<workspaces, sessions, globalGuard>>
     \/ /\ BootstrapSettles(c) /\ challenge.left > 0 /\ ~call[c].right
        /\ RecordGlobalFailure("BOOTSTRAP") /\ DeleteExactLease(c)
        /\ UNCHANGED <<challenge, workspaces, sessions>>
     \/ /\ BootstrapSettles(c) /\ challenge.left > 0 /\ call[c].right /\ workspaces # 0
        /\ DeleteExactLease(c)
        /\ UNCHANGED <<challenge, workspaces, sessions, globalGuard>>
     \/ /\ BootstrapSettles(c) /\ challenge.left > 0 /\ call[c].right /\ workspaces = 0
        /\ workspaces' = workspaces + 1
        /\ ConsumeChallenge
        /\ sessions' = sessions \union {c}
        /\ DeleteExactLease(c)
        /\ UNCHANGED globalGuard
  /\ UNCHANGED <<configTtl, prepared, loginGuard>>

\* first transaction of loginProductionAccount; known: selectCredential found a
\* row, and only then can the password be the right one
ClaimLogin(c, i, right) ==
  /\ Ready(c) /\ c \in LoginCaller
  /\ LET known == i = Owner /\ workspaces > 0
     IN  /\ right => known
         /\ \/ /\ AdmitAuthAttempt(c, i, FALSE)
               /\ leases' = LeasesAfterCleanup
               /\ UNCHANGED <<call, leaseLeft>>
            \/ /\ AdmitAuthAttempt(c, i, TRUE)
               /\ leases' = LeasesAfterCleanup \union {c}
               /\ leaseLeft' = [leaseLeft EXCEPT ![c] = LeaseTtl]
               /\ call' = [call EXCEPT ![c] =
                    [busy |-> TRUE, right |-> right, known |-> known, identity |-> i]]
  /\ UNCHANGED <<challenge, configTtl, prepared, workspaces, sessions>>

\* second transaction of loginProductionAccount
LoginSettles(c) == LeaseIsCurrent(c) /\ globalGuard["LOGIN"].left = 0

SettleLogin(c) ==
  LET i == call[c].identity
      known == i = Owner /\ workspaces > 0
      verified == call[c].right /\ call[c].known /\ known
  IN
  /\ call[c].busy /\ c \in LoginCaller
  /\ call' = [call EXCEPT ![c] = IdleCall]
  /\ \/ /\ ~LoginSettles(c)
        /\ IF LeaseIsCurrent(c) THEN DeleteExactLease(c) ELSE UNCHANGED <<leases, leaseLeft>>
        /\ UNCHANGED <<sessions, loginGuard, globalGuard>>
     \/ /\ LoginSettles(c) /\ ~verified
        /\ \E guards \in AfterReserve(loginGuard, i) :
             IF HasCapacity(guards, i) THEN RecordLoginFailure(guards, i)
             ELSE loginGuard' = guards /\ UNCHANGED globalGuard
        /\ DeleteExactLease(c)
        /\ UNCHANGED sessions
     \/ /\ LoginSettles(c) /\ verified
        /\ loginGuard' = Without(loginGuard, {i})
        /\ sessions' = sessions \union {c}
        /\ DeleteExactLease(c)
        /\ UNCHANGED globalGuard
  /\ UNCHANGED <<challenge, configTtl, prepared, workspaces>>

\* the process dies between the two transactions: its lease row stays
Crash(c) ==
  /\ call[c].busy
  /\ call' = [call EXCEPT ![c] = IdleCall]
  /\ UNCHANGED <<challenge, configTtl, prepared, workspaces, sessions, leases, clocked>>

\* sign-out, or the cookie could not be published (publishSessionCookie)
EndSession(c) ==
  /\ c \in sessions
  /\ sessions' = sessions \ {c}
  /\ UNCHANGED <<challenge, configTtl, prepared, workspaces, call, leases, clocked>>

Claim == \/ \E c \in BootstrapCaller, right \in BOOLEAN : ClaimBootstrap(c, right)
         \/ \E c \in LoginCaller, i \in Identity, right \in BOOLEAN : ClaimLogin(c, i, right)

Next ==
  \/ Tick
  \/ Redeploy
  \/ \E o \in Opener : PrepareChallenge(o) \/ InstallChallenge(o)
  \/ ReadStatus
  \/ Claim
  \/ \E c \in BootstrapCaller : SettleBootstrap(c)
  \/ \E c \in LoginCaller : SettleLogin(c)
  \/ \E c \in Caller : Crash(c) \/ EndSession(c)

\* the clock is the only thing that is sure to go on
Spec == Init /\ [][Next]_vars /\ WF_vars(Tick)
-----------------------------------------------------------------------------
(***************************************************************************)
(* Every variable keeps the shape its table or record has in the code.     *)
(***************************************************************************)
CallRecord == [busy : BOOLEAN, right : BOOLEAN, known : BOOLEAN, identity : Identity]
LoginGuardRow ==
  [failed : 0..IdentityFailureLimit, left : 0..Window, age : 0..Retention]
GlobalGuardRow(k) ==
  [failed : 0..FailureLimit(k), left : 0..Window, age : 0..Window]
TypeOK ==
  /\ challenge \in [state : {"none", "live", "consumed", "invalidated"}, left : 0..ChallengeTtl]
  /\ configTtl \in 0..ChallengeTtl
  /\ prepared \in [Opener -> [state : {"none", "nothing", "expired", "fresh"},
                              left : 0..ChallengeTtl]]
  /\ workspaces \in Nat
  /\ sessions \subseteq Caller
  /\ call \in [Caller -> CallRecord]
  /\ leases \subseteq Caller
  /\ leaseLeft \in [Caller -> 0..LeaseTtl]
  /\ loginGuard \in [Identity -> LoginGuardRow]
  /\ DOMAIN globalGuard = Kind
  /\ \A k \in Kind : globalGuard[k] \in GlobalGuardRow(k)

(***************************************************************************)
(* The bounds the startup integrity check of db.ts demands of the lease    *)
(* table hold after every transaction, whatever processes died in between: *)
(* no more live attempts than the limits, no more rows than the row limit. *)
(***************************************************************************)
LiveLeases == {c \in leases : leaseLeft[c] > 0}
AttemptsBounded ==
  /\ Cardinality(LiveLeases) <= ActiveLimit
  /\ Cardinality(LiveLeases \intersect BootstrapCaller) <= BootstrapLimit
  /\ Cardinality(leases) <= RowLimit

(***************************************************************************)
(* However the openers and the bootstrap calls interleave, at most one     *)
(* owner workspace is created, the challenge is consumed exactly when it   *)
(* is, and nobody is signed in before that.                                *)
(***************************************************************************)
SingleOwner ==
  /\ workspaces <= 1
  /\ challenge.state = "consumed" <=> workspaces = 1
  /\ sessions # {} => workspaces = 1

(***************************************************************************)
(* A challenge is issued once in the life of the database: an installed    *)
(* row is only ever consumed or invalidated, its expiry never moves        *)
(* further away, and a redeployment with a new token does not revive it.   *)
(***************************************************************************)
ChallengeNeverReissued ==
  [][challenge.state # "none" =>
       /\ challenge'.left <= challenge.left
       /\ challenge'.state # "none"
       /\ challenge.state # "live" => challenge'.state = challenge.state]_vars

(***************************************************************************)
(* The failure budget of a window is never overspent: the block of a spent *)
(* budget lasts until the window is over and longer than any lease that is *)
(* current meanwhile.  So no call can settle one more failure, and the     *)
(* count in the row is the number of wrong secrets of this window.         *)
(***************************************************************************)
SpentBudgetBlocks ==
  \A k \in Kind : HasBlock(globalGuard[k], FailureLimit(k)) =>
    /\ globalGuard[k].left + globalGuard[k].age >= Window
    /\ \A c \in Caller : KindOf(c) = k /\ LeaseIsCurrent(c) => globalGuard[k].left > leaseLeft[c]

(***************************************************************************)
(* "permits legitimate recovery only after the window expires"             *)
(* (tests/unit/production-runtime-auth.test.ts): the failures counted for  *)
(* a kind of attempt are forgotten only when their window is over.         *)
(***************************************************************************)
FailuresKeptForWindow ==
  [][\A k \in Kind :
       globalGuard'[k].failed < globalGuard[k].failed => globalGuard[k].age >= Window]_vars

(***************************************************************************)
(* A block on one identity ends by its time or by the right password of a  *)
(* call admitted before it; neither the cleanup nor the eviction that makes *)
(* room for other identities lifts it.                                     *)
(***************************************************************************)
IdentityBlockHolds ==
  [][\A i \in Identity :
       loginGuard[i].left > 1 /\ loginGuard'[i].left = 0 =>
         \E c \in LoginCaller : /\ call[c].busy /\ ~call'[c].busy
                                /\ call[c].right /\ call[c].identity = i]_vars

(***************************************************************************)
(* Nobody is locked out for good: once no new call arrives, every lease of *)
(* a dead process and every block lapses with time alone.                  *)
(***************************************************************************)
AdmissionOpen ==
  /\ LeasesAfterCleanup = {}
  /\ \A k \in Kind : GlobalGuardsAfterCleanup[k].left = 0
  /\ \A guards \in LoginGuardsAfterCleanup, i \in Identity : guards[i].left = 0
QuietReopensAdmission == <>[][~Claim]_vars => <>[]AdmissionOpen
=============================================================================
