------------------------ MODULE ProductionAuthProofs ------------------------
(***************************************************************************)
(* Proofs about ProductionAuth for every number of callers, openers and    *)
(* identities and every value of the limits and times.                     *)
(***************************************************************************)
EXTENDS ProductionAuth, FiniteSetTheorems, TLAPS

LEMMA CallerFinite == IsFiniteSet(Caller)
BY CallerAssumption, FS_Union DEF Caller

\* every helper that rewrites the guard tables returns tables of the same shape
LEMMA WithoutType ==
  ASSUME NEW guards \in [Identity -> LoginGuardRow], NEW D
  PROVE  Without(guards, D) \in [Identity -> LoginGuardRow]
BY LimitAssumption, TimeAssumption DEF Without, NoLoginGuard, LoginGuardRow

LEMMA CleanupType ==
  ASSUME TypeOK
  PROVE  /\ LoginGuardsAfterCleanup \subseteq [Identity -> LoginGuardRow]
         /\ DOMAIN GlobalGuardsAfterCleanup = Kind
         /\ \A k \in Kind : GlobalGuardsAfterCleanup[k] \in GlobalGuardRow(k)
         /\ LeasesAfterCleanup \subseteq leases
<1>1. LoginGuardsAfterCleanup \subseteq [Identity -> LoginGuardRow]
  <2>1. loginGuard \in [Identity -> LoginGuardRow]  BY DEF TypeOK
  <2>2. \A D : Without(loginGuard, D) \in [Identity -> LoginGuardRow]
    BY <2>1, WithoutType
  <2>3. QED  BY <2>2 DEF LoginGuardsAfterCleanup
<1>2. \A k \in Kind : NoGlobalGuard \in GlobalGuardRow(k)
  BY LimitAssumption, TimeAssumption
  DEF NoGlobalGuard, GlobalGuardRow, FailureLimit, Kind
<1>3. QED  BY <1>1, <1>2 DEF TypeOK, GlobalGuardsAfterCleanup, LeasesAfterCleanup

LEMMA ReserveType ==
  ASSUME NEW guards \in [Identity -> LoginGuardRow], NEW i
  PROVE  AfterReserve(guards, i) \subseteq [Identity -> LoginGuardRow]
BY WithoutType DEF AfterReserve

LEMMA RecordGlobalFailureType ==
  ASSUME TypeOK, NEW k \in Kind, RecordGlobalFailure(k)
  PROVE  /\ DOMAIN globalGuard' = Kind
         /\ \A j \in Kind : globalGuard'[j] \in GlobalGuardRow(j)
<1>1. FailureLimit(k) \in Nat \ {0} /\ Window \in Nat
  BY LimitAssumption, TimeAssumption DEF FailureLimit
<1>2. globalGuard[k] \in GlobalGuardRow(k)  BY DEF TypeOK
<1>3. globalGuard'[k] \in GlobalGuardRow(k)
  BY <1>1, <1>2 DEF RecordGlobalFailure, GlobalGuardRow, TypeOK
<1>4. QED  BY <1>3 DEF RecordGlobalFailure, TypeOK

LEMMA RecordLoginFailureType ==
  ASSUME TypeOK, NEW guards \in [Identity -> LoginGuardRow], NEW i \in Identity,
         RecordLoginFailure(guards, i)
  PROVE  /\ loginGuard' \in [Identity -> LoginGuardRow]
         /\ DOMAIN globalGuard' = Kind
         /\ \A j \in Kind : globalGuard'[j] \in GlobalGuardRow(j)
<1>1. loginGuard' \in [Identity -> LoginGuardRow]
  BY LimitAssumption, TimeAssumption DEF RecordLoginFailure, LoginGuardRow
<1>2. RecordGlobalFailure("LOGIN")  BY DEF RecordLoginFailure
<1>3. QED  BY <1>1, <1>2, RecordGlobalFailureType DEF Kind

LEMMA AdmitType ==
  ASSUME TypeOK, NEW c, NEW i \in Identity, NEW admitted, AdmitAuthAttempt(c, i, admitted)
  PROVE  /\ loginGuard' \in [Identity -> LoginGuardRow]
         /\ DOMAIN globalGuard' = Kind
         /\ \A j \in Kind : globalGuard'[j] \in GlobalGuardRow(j)
<1>1. PICK cleaned \in LoginGuardsAfterCleanup :
         loginGuard' = cleaned \/ loginGuard' \in AfterReserve(cleaned, i)
  BY DEF AdmitAuthAttempt
<1>2. cleaned \in [Identity -> LoginGuardRow]  BY CleanupType
<1>3. QED  BY <1>1, <1>2, CleanupType, ReserveType DEF AdmitAuthAttempt

(***************************************************************************)
(* Type correctness.                                                       *)
(***************************************************************************)
ChallengeType == [state : {"none", "live", "consumed", "invalidated"}, left : 0..ChallengeTtl]

LEMMA ExpireType ==
  ASSUME TypeOK, ExpireChallenge PROVE challenge' \in ChallengeType
BY TimeAssumption DEF TypeOK, ExpireChallenge, ChallengeType

LEMMA IdleCallType == IdleCall \in CallRecord
BY CallerAssumption DEF IdleCall, CallRecord

LEMMA TypeStep == TypeOK /\ [Next]_vars => TypeOK'
<1> SUFFICES ASSUME TypeOK, [Next]_vars PROVE TypeOK'
  OBVIOUS
<1> USE CallerAssumption, LimitAssumption, TimeAssumption
<1>1. CASE UNCHANGED vars
  BY <1>1 DEF TypeOK, vars
<1>2. CASE Tick
  <2>1. loginGuard' \in [Identity -> LoginGuardRow]
    <3>1. ASSUME NEW i \in Identity PROVE loginGuard'[i] \in LoginGuardRow
      <4>1. loginGuard[i] \in LoginGuardRow  BY DEF TypeOK
      <4>2. loginGuard'[i] = IF loginGuard[i].failed = 0 THEN NoLoginGuard
              ELSE Aged(loginGuard[i], Retention)
        BY <1>2 DEF Tick
      <4>3. QED  BY <4>1, <4>2 DEF Aged, Down, Up, LoginGuardRow, NoLoginGuard
    <3>2. QED  BY <1>2, <3>1 DEF Tick
  <2>2. \A k \in Kind : globalGuard'[k] \in GlobalGuardRow(k)
    <3> TAKE k \in Kind
    <3>1. FailureLimit(k) \in Nat  BY DEF FailureLimit
    <3>2. globalGuard[k] \in GlobalGuardRow(k)  BY DEF TypeOK
    <3>3. globalGuard'[k] = IF globalGuard[k].failed = 0 THEN NoGlobalGuard
            ELSE Aged(globalGuard[k], Window)
      BY <1>2 DEF Tick
    <3>4. QED  BY <3>1, <3>2, <3>3 DEF Aged, Down, Up, GlobalGuardRow, NoGlobalGuard
  <2>3. DOMAIN globalGuard' = Kind  BY <1>2 DEF Tick
  <2>4. prepared' \in [Opener -> [state : {"none", "nothing", "expired", "fresh"},
                                  left : 0..ChallengeTtl]]
    <3>1. ASSUME NEW o \in Opener
          PROVE  Older(prepared[o])
                   \in [state : {"none", "nothing", "expired", "fresh"}, left : 0..ChallengeTtl]
      <4>1. prepared[o] \in [state : {"none", "nothing", "expired", "fresh"},
                             left : 0..ChallengeTtl]
        BY DEF TypeOK
      <4>2. QED  BY <4>1 DEF Older, Down
    <3>2. QED  BY <1>2, <3>1 DEF Tick
  <2>5. /\ challenge' \in ChallengeType
        /\ configTtl' \in 0..ChallengeTtl
        /\ leaseLeft' \in [Caller -> 0..LeaseTtl]
    <3>1. challenge' \in ChallengeType
      <4>1. challenge \in ChallengeType  BY DEF TypeOK, ChallengeType
      <4>2. QED  BY <1>2, <4>1 DEF Tick, Older, Down, ChallengeType
    <3>2. configTtl' \in 0..ChallengeTtl  BY <1>2 DEF Tick, Down, TypeOK
    <3>3. \A c \in Caller : Down(leaseLeft[c]) \in 0..LeaseTtl  BY DEF Down, TypeOK
    <3>4. QED  BY <1>2, <3>1, <3>2, <3>3 DEF Tick
  <2>6. QED  BY <1>2, <2>1, <2>2, <2>3, <2>4, <2>5 DEF TypeOK, Tick, ChallengeType
<1>3. CASE Redeploy
  BY <1>3 DEF TypeOK, Redeploy, clocked
<1>4. ASSUME NEW o \in Opener, PrepareChallenge(o) PROVE TypeOK'
  BY <1>4 DEF TypeOK, PrepareChallenge, clocked
<1>5. ASSUME NEW o \in Opener, InstallChallenge(o) PROVE TypeOK'
  <2>1. challenge' \in ChallengeType
    BY <1>5, ExpireType DEF TypeOK, InstallChallenge, ChallengeType
  <2>2. QED  BY <1>5, <2>1 DEF TypeOK, InstallChallenge, clocked, ChallengeType
<1>6. CASE ReadStatus
  BY <1>6, ExpireType DEF TypeOK, ReadStatus, clocked, ChallengeType
<1>7. ASSUME NEW c \in BootstrapCaller, NEW right \in BOOLEAN, ClaimBootstrap(c, right)
      PROVE  TypeOK'
  <2>1. PICK admitted \in BOOLEAN : AdmitAuthAttempt(c, Owner, admitted)
    BY <1>7 DEF ClaimBootstrap
  <2>2. challenge' \in ChallengeType
    BY <1>7, ExpireType DEF TypeOK, ClaimBootstrap, ChallengeType
  <2>3. c \in Caller  BY DEF Caller
  <2>4. /\ leases' \subseteq Caller /\ leaseLeft' \in [Caller -> 0..LeaseTtl]
        /\ call' \in [Caller -> CallRecord]
    <3>1. [busy |-> TRUE, right |-> right, known |-> FALSE, identity |-> Owner] \in CallRecord
      BY DEF CallRecord
    <3>2. call' \in [Caller -> CallRecord]
      BY <1>7, <3>1 DEF TypeOK, ClaimBootstrap
    <3>3. leaseLeft' \in [Caller -> 0..LeaseTtl]
      <4>1. leaseLeft' = leaseLeft \/ leaseLeft' = [leaseLeft EXCEPT ![c] = LeaseTtl]
        BY <1>7 DEF ClaimBootstrap
      <4>2. leaseLeft \in [Caller -> 0..LeaseTtl] /\ LeaseTtl \in 0..LeaseTtl  BY DEF TypeOK
      <4>3. QED  BY <4>1, <4>2
    <3>4. leases' \subseteq Caller
      <4>1. leases' = LeasesAfterCleanup \/ leases' = LeasesAfterCleanup \union {c}
        BY <1>7 DEF ClaimBootstrap
      <4>2. LeasesAfterCleanup \subseteq Caller  BY DEF TypeOK, LeasesAfterCleanup
      <4>3. QED  BY <4>1, <4>2, <2>3
    <3>5. QED  BY <3>2, <3>3, <3>4
  <2>5. QED  BY <1>7, <2>1, <2>2, <2>4, AdmitType DEF TypeOK, ClaimBootstrap, ChallengeType
<1>8. ASSUME NEW c \in LoginCaller, NEW i \in Identity, NEW right \in BOOLEAN,
             ClaimLogin(c, i, right)
      PROVE  TypeOK'
  <2>1. PICK admitted \in BOOLEAN : AdmitAuthAttempt(c, i, admitted)
    BY <1>8 DEF ClaimLogin
  <2>3. c \in Caller  BY DEF Caller
  <2>4. /\ leases' \subseteq Caller /\ leaseLeft' \in [Caller -> 0..LeaseTtl]
        /\ call' \in [Caller -> CallRecord]
    <3>1. \A known \in BOOLEAN :
            [busy |-> TRUE, right |-> right, known |-> known, identity |-> i] \in CallRecord
      BY DEF CallRecord
    <3>2. (i = Owner /\ workspaces > 0) \in BOOLEAN  OBVIOUS
    <3>3. call' \in [Caller -> CallRecord]
      BY <1>8, <3>1, <3>2 DEF TypeOK, ClaimLogin
    <3>4. leaseLeft' \in [Caller -> 0..LeaseTtl]
      <4>1. leaseLeft' = leaseLeft \/ leaseLeft' = [leaseLeft EXCEPT ![c] = LeaseTtl]
        BY <1>8 DEF ClaimLogin
      <4>2. leaseLeft \in [Caller -> 0..LeaseTtl] /\ LeaseTtl \in 0..LeaseTtl  BY DEF TypeOK
      <4>3. QED  BY <4>1, <4>2
    <3>5. leases' \subseteq Caller
      <4>1. leases' = LeasesAfterCleanup \/ leases' = LeasesAfterCleanup \union {c}
        BY <1>8 DEF ClaimLogin
      <4>2. LeasesAfterCleanup \subseteq Caller  BY DEF TypeOK, LeasesAfterCleanup
      <4>3. QED  BY <4>1, <4>2, <2>3
    <3>6. QED  BY <3>3, <3>4, <3>5
  <2>5. QED  BY <1>8, <2>1, <2>4, AdmitType DEF TypeOK, ClaimLogin
<1>9. ASSUME NEW c \in BootstrapCaller, SettleBootstrap(c) PROVE TypeOK'
  <2>1. challenge' \in ChallengeType
    BY <1>9, ExpireType DEF TypeOK, SettleBootstrap, ConsumeChallenge, ChallengeType
  <2>2. DOMAIN globalGuard' = Kind /\ \A j \in Kind : globalGuard'[j] \in GlobalGuardRow(j)
    BY <1>9, RecordGlobalFailureType DEF TypeOK, SettleBootstrap, Kind
  <2>3. workspaces' \in Nat /\ sessions' \subseteq Caller
    BY <1>9 DEF TypeOK, SettleBootstrap, Caller
  <2>4. leases' \subseteq Caller /\ leaseLeft' \in [Caller -> 0..LeaseTtl]
    BY <1>9 DEF TypeOK, SettleBootstrap, DeleteExactLease
  <2>5. call' \in [Caller -> CallRecord]
    BY <1>9, IdleCallType DEF TypeOK, SettleBootstrap
  <2>6. QED  BY <1>9, <2>1, <2>2, <2>3, <2>4, <2>5 DEF TypeOK, SettleBootstrap, ChallengeType
<1>10. ASSUME NEW c \in LoginCaller, SettleLogin(c) PROVE TypeOK'
  <2>1. c \in Caller /\ call[c].identity \in Identity  BY DEF Caller, TypeOK, CallRecord
  <2>2. /\ loginGuard' \in [Identity -> LoginGuardRow]
        /\ DOMAIN globalGuard' = Kind
        /\ \A j \in Kind : globalGuard'[j] \in GlobalGuardRow(j)
    <3>1. loginGuard \in [Identity -> LoginGuardRow]  BY DEF TypeOK
    <3>2. ASSUME NEW guards \in AfterReserve(loginGuard, call[c].identity),
                 \/ RecordLoginFailure(guards, call[c].identity)
                 \/ loginGuard' = guards /\ UNCHANGED globalGuard
          PROVE  /\ loginGuard' \in [Identity -> LoginGuardRow]
                 /\ DOMAIN globalGuard' = Kind
                 /\ \A j \in Kind : globalGuard'[j] \in GlobalGuardRow(j)
      BY <2>1, <3>1, <3>2, ReserveType, RecordLoginFailureType DEF TypeOK
    <3>3. QED  BY <1>10, <3>1, <3>2, WithoutType DEF SettleLogin, TypeOK
  <2>3. leases' \subseteq Caller /\ leaseLeft' \in [Caller -> 0..LeaseTtl]
    BY <1>10 DEF TypeOK, SettleLogin, DeleteExactLease
  <2>4. call' \in [Caller -> CallRecord]
    BY <1>10, IdleCallType DEF TypeOK, SettleLogin
  <2>5. sessions' \subseteq Caller  BY <1>10, <2>1 DEF TypeOK, SettleLogin
  <2>6. QED  BY <1>10, <2>2, <2>3, <2>4, <2>5 DEF TypeOK, SettleLogin
<1>11. ASSUME NEW c \in Caller, Crash(c) \/ EndSession(c) PROVE TypeOK'
  BY <1>11, IdleCallType DEF TypeOK, Crash, EndSession, clocked
<1>12. QED
  BY <1>1, <1>2, <1>3, <1>4, <1>5, <1>6, <1>7, <1>8, <1>9, <1>10, <1>11 DEF Next, Claim

LEMMA TypeInit == Init => TypeOK
<1> SUFFICES ASSUME Init PROVE TypeOK
  OBVIOUS
<1> USE CallerAssumption, LimitAssumption, TimeAssumption
<1>1. /\ loginGuard \in [Identity -> LoginGuardRow]
      /\ DOMAIN globalGuard = Kind
  BY DEF Init, NoLoginGuard, LoginGuardRow
<1>2. \A k \in Kind : globalGuard[k] \in GlobalGuardRow(k)
  BY DEF Init, NoGlobalGuard, GlobalGuardRow, FailureLimit, Kind
<1>3. call \in [Caller -> CallRecord]
  BY IdleCallType DEF Init
<1>4. /\ challenge \in ChallengeType /\ configTtl \in 0..ChallengeTtl
      /\ leases \subseteq Caller /\ leaseLeft \in [Caller -> 0..LeaseTtl]
      /\ workspaces \in Nat /\ sessions \subseteq Caller
  BY DEF Init, ChallengeType
<1>5. prepared \in [Opener -> [state : {"none", "nothing", "expired", "fresh"},
                              left : 0..ChallengeTtl]]
  BY DEF Init
<1>6. QED  BY <1>1, <1>2, <1>3, <1>4, <1>5 DEF TypeOK, ChallengeType

\* Every reachable state has rows and records of the shape the schema declares.
THEOREM TypeCorrect == Spec => []TypeOK
<1>1. QED  BY TypeInit, TypeStep, PTL DEF Spec
-----------------------------------------------------------------------------
(***************************************************************************)
(* Admission limits.  A step either leaves a subset of the lease rows, each *)
(* no younger than before, or adds one row after LeaseAvailable said yes.  *)
(***************************************************************************)
ShrinkLeases ==
  /\ leases' \subseteq leases
  /\ \A c \in leases' : leaseLeft'[c] <= leaseLeft[c]
GrantLease(c) ==
  /\ leases' = LeasesAfterCleanup \union {c}
  /\ leaseLeft' = [leaseLeft EXCEPT ![c] = LeaseTtl]
  /\ LeaseAvailable(KindOf(c), LeasesAfterCleanup)

LEMMA AdmittedAvailable ==
  ASSUME NEW c, NEW i, AdmitAuthAttempt(c, i, TRUE)
  PROVE  LeaseAvailable(KindOf(c), LeasesAfterCleanup)
BY DEF AdmitAuthAttempt

LEMMA LeaseStep ==
  ASSUME TypeOK, [Next]_vars
  PROVE  ShrinkLeases \/ \E c \in Caller : GrantLease(c)
<1> USE TimeAssumption
<1>1. leases \subseteq Caller /\ leaseLeft \in [Caller -> 0..LeaseTtl]  BY DEF TypeOK
<1>2. ASSUME leases' = leases, leaseLeft' = leaseLeft PROVE ShrinkLeases
  BY <1>1, <1>2 DEF ShrinkLeases
<1>3. CASE Tick
  BY <1>1, <1>3 DEF ShrinkLeases, Tick, Down
<1>4. ASSUME leases' = LeasesAfterCleanup, leaseLeft' = leaseLeft PROVE ShrinkLeases
  BY <1>1, <1>4 DEF ShrinkLeases, LeasesAfterCleanup
<1>5. ASSUME NEW c \in Caller, DeleteExactLease(c) PROVE ShrinkLeases
  BY <1>1, <1>5 DEF ShrinkLeases, DeleteExactLease
<1>6. ASSUME NEW c \in BootstrapCaller, NEW right \in BOOLEAN, ClaimBootstrap(c, right)
      PROVE  ShrinkLeases \/ GrantLease(c)
  <2>1. CASE leases' = LeasesAfterCleanup /\ UNCHANGED leaseLeft
    BY <1>4, <2>1
  <2>2. CASE /\ AdmitAuthAttempt(c, Owner, TRUE)
             /\ leases' = LeasesAfterCleanup \union {c}
             /\ leaseLeft' = [leaseLeft EXCEPT ![c] = LeaseTtl]
    BY <2>2, AdmittedAvailable DEF GrantLease
  <2>3. QED  BY <1>6, <2>1, <2>2 DEF ClaimBootstrap
<1>7. ASSUME NEW c \in LoginCaller, NEW i \in Identity, NEW right \in BOOLEAN,
             ClaimLogin(c, i, right)
      PROVE  ShrinkLeases \/ GrantLease(c)
  <2>1. CASE leases' = LeasesAfterCleanup /\ UNCHANGED leaseLeft
    BY <1>4, <2>1
  <2>2. CASE /\ AdmitAuthAttempt(c, i, TRUE)
             /\ leases' = LeasesAfterCleanup \union {c}
             /\ leaseLeft' = [leaseLeft EXCEPT ![c] = LeaseTtl]
    BY <2>2, AdmittedAvailable DEF GrantLease
  <2>3. QED  BY <1>7, <2>1, <2>2 DEF ClaimLogin
<1>8. ASSUME NEW c \in BootstrapCaller, SettleBootstrap(c) PROVE ShrinkLeases
  <2>1. DeleteExactLease(c) \/ (leases' = leases /\ leaseLeft' = leaseLeft)
    BY <1>8 DEF SettleBootstrap
  <2>2. QED  BY <2>1, <1>2, <1>5 DEF Caller
<1>9. ASSUME NEW c \in LoginCaller, SettleLogin(c) PROVE ShrinkLeases
  <2>1. DeleteExactLease(c) \/ (leases' = leases /\ leaseLeft' = leaseLeft)
    BY <1>9 DEF SettleLogin
  <2>2. QED  BY <2>1, <1>2, <1>5 DEF Caller
<1>10. QED
  BY <1>2, <1>3, <1>6, <1>7, <1>8, <1>9
  DEF Next, Claim, vars, clocked, Redeploy, PrepareChallenge, InstallChallenge, ReadStatus,
      Crash, EndSession, Caller

LEMMA AttemptsStep == TypeOK /\ AttemptsBounded /\ [Next]_vars => AttemptsBounded'
<1> SUFFICES ASSUME TypeOK, AttemptsBounded, [Next]_vars PROVE AttemptsBounded'
  OBVIOUS
<1>1. IsFiniteSet(leases) /\ IsFiniteSet(LiveLeases)
  BY CallerFinite, FS_Subset DEF TypeOK, LiveLeases
<1>2. CASE ShrinkLeases
  <2>1. leases' \subseteq leases  BY <1>2 DEF ShrinkLeases
  <2>2. LiveLeases' \subseteq LiveLeases
    <3>1. leaseLeft \in [Caller -> 0..LeaseTtl] /\ leases \subseteq Caller  BY DEF TypeOK
    <3>2. (TypeOK)'  BY TypeStep
    <3>3. leaseLeft' \in [Caller -> 0..LeaseTtl]  BY <3>2 DEF TypeOK
    <3>4. QED  BY <1>2, <3>1, <3>3, TimeAssumption DEF ShrinkLeases, LiveLeases
  <2>3. /\ Cardinality(leases') <= Cardinality(leases)
        /\ Cardinality(LiveLeases') <= Cardinality(LiveLeases)
    BY <1>1, <2>1, <2>2, FS_Subset
  <2>4. /\ IsFiniteSet(LiveLeases \intersect BootstrapCaller)
        /\ (LiveLeases \intersect BootstrapCaller)' \subseteq LiveLeases \intersect BootstrapCaller
    BY <1>1, <2>2, FS_Subset
  <2>5. Cardinality((LiveLeases \intersect BootstrapCaller)')
          <= Cardinality(LiveLeases \intersect BootstrapCaller)
    BY <2>4, FS_Subset
  <2>6. /\ Cardinality(leases) \in Nat /\ Cardinality(leases') \in Nat
        /\ Cardinality(LiveLeases) \in Nat /\ Cardinality(LiveLeases') \in Nat
        /\ Cardinality(LiveLeases \intersect BootstrapCaller) \in Nat
        /\ Cardinality((LiveLeases \intersect BootstrapCaller)') \in Nat
    BY <1>1, <2>1, <2>2, <2>4, FS_Subset, FS_CardinalityType
  <2>7. QED  BY <2>3, <2>5, <2>6, LimitAssumption DEF AttemptsBounded
<1>3. ASSUME NEW c \in Caller, GrantLease(c) PROVE AttemptsBounded'
  <2> DEFINE L == LeasesAfterCleanup
             LB == L \intersect BootstrapCaller
  <2>1. L = LiveLeases  BY DEF LeasesAfterCleanup, LiveLeases
  <2>2. IsFiniteSet(L) /\ IsFiniteSet(LB)  BY <1>1, <2>1, FS_Subset
  <2>3. leases' = L \union {c}  BY <1>3 DEF GrantLease
  <2>4. LiveLeases' = L \union {c}
    BY <1>3, <2>3, TimeAssumption DEF GrantLease, LiveLeases, TypeOK, LeasesAfterCleanup
  <2>5. Cardinality(L) \in Nat /\ Cardinality(LB) \in Nat  BY <2>2, FS_CardinalityType
  <2>6. Cardinality(L) < ActiveLimit /\ Cardinality(L) < RowLimit
    BY <1>3 DEF GrantLease, LeaseAvailable
  <2>7. Cardinality(L \union {c}) <= Cardinality(L) + 1
    <3>1. Cardinality(L \union {c}) = IF c \in L THEN Cardinality(L) ELSE Cardinality(L) + 1
      BY <2>2, FS_AddElement
    <3>2. QED  BY <3>1, <2>5
  <2>8. Cardinality(L \union {c}) \in Nat
    BY <2>2, FS_AddElement, FS_CardinalityType
  <2>9. Cardinality((L \union {c}) \intersect BootstrapCaller) <= BootstrapLimit
    <3>1. CASE c \in BootstrapCaller
      <4>1. Cardinality(LB) < BootstrapLimit
        BY <1>3, <3>1 DEF GrantLease, LeaseAvailable, KindOf
      <4>2. (L \union {c}) \intersect BootstrapCaller = LB \union {c}  BY <3>1
      <4>3. Cardinality(LB \union {c}) <= Cardinality(LB) + 1
        BY <2>2, <2>5, FS_AddElement
      <4>4. Cardinality(LB \union {c}) \in Nat  BY <2>2, FS_AddElement, FS_CardinalityType
      <4>5. QED  BY <4>1, <4>2, <4>3, <4>4, <2>5, LimitAssumption
    <3>2. CASE c \notin BootstrapCaller
      <4>1. (L \union {c}) \intersect BootstrapCaller = LiveLeases \intersect BootstrapCaller
        BY <2>1, <3>2
      <4>2. QED  BY <4>1 DEF AttemptsBounded
    <3>3. QED  BY <3>1, <3>2
  <2>10. QED
    BY <2>3, <2>4, <2>5, <2>6, <2>7, <2>8, <2>9, LimitAssumption DEF AttemptsBounded
<1>4. QED  BY <1>2, <1>3, LeaseStep

\* No interleaving of claims, deaths and late returns exceeds the limits that
\* admitAuthAttempt enforces and the startup check of db.ts demands.
THEOREM AttemptsAlwaysBounded == Spec => []AttemptsBounded
<1>1. Init => AttemptsBounded
  <2> SUFFICES ASSUME Init PROVE AttemptsBounded
    OBVIOUS
  <2>1. leases = {} /\ LiveLeases = {} /\ LiveLeases \intersect BootstrapCaller = {}
    BY DEF Init, LiveLeases
  <2>2. QED  BY <2>1, FS_EmptySet, LimitAssumption DEF AttemptsBounded
<1>2. QED  BY <1>1, AttemptsStep, TypeCorrect, PTL DEF Spec
-----------------------------------------------------------------------------
(***************************************************************************)
(* One owner.  The challenge is consumed in the transaction that inserts   *)
(* the workspace, every other change of it starts from a row that is not   *)
(* consumed, and a session needs the owner's credential.                   *)
(***************************************************************************)
LEMMA OwnerStep == TypeOK /\ SingleOwner /\ [Next]_vars => SingleOwner'
<1> SUFFICES ASSUME TypeOK, SingleOwner, [Next]_vars PROVE SingleOwner'
  OBVIOUS
<1>1. ASSUME NEW o \in Opener, InstallChallenge(o) PROVE SingleOwner'
  BY <1>1 DEF InstallChallenge, SingleOwner, ExpireChallenge, Expired, MayInstall
<1>2. CASE ReadStatus
  BY <1>2 DEF ReadStatus, SingleOwner, ExpireChallenge, Expired
<1>3. ASSUME NEW c \in BootstrapCaller, NEW right \in BOOLEAN, ClaimBootstrap(c, right)
      PROVE  SingleOwner'
  <2>1. workspaces' = workspaces /\ sessions' = sessions  BY <1>3 DEF ClaimBootstrap
  <2>2. challenge' = challenge \/ ExpireChallenge  BY <1>3 DEF ClaimBootstrap
  <2>3. QED  BY <2>1, <2>2 DEF SingleOwner, ExpireChallenge, Expired
<1>4. ASSUME NEW c \in BootstrapCaller, SettleBootstrap(c) PROVE SingleOwner'
  BY <1>4 DEF SettleBootstrap, BootstrapSettles, SingleOwner, ExpireChallenge, Expired,
              ConsumeChallenge
<1>5. ASSUME NEW c \in LoginCaller, SettleLogin(c) PROVE SingleOwner'
  <2>1. workspaces' = workspaces /\ challenge' = challenge  BY <1>5 DEF SettleLogin
  <2>2. sessions' = sessions \/ workspaces > 0  BY <1>5 DEF SettleLogin
  <2>3. QED  BY <2>1, <2>2 DEF SingleOwner, TypeOK
<1>6. CASE Tick
  BY <1>6 DEF Tick, Older, SingleOwner
<1>7. QED
  BY <1>1, <1>2, <1>3, <1>4, <1>5, <1>6
  DEF Next, Claim, vars, clocked, Redeploy, PrepareChallenge, ClaimLogin, Crash, EndSession,
      SingleOwner

\* Openers, bootstrap calls and logins of any number of processes create at most
\* one owner, and nobody is signed in before the challenge is consumed for it.
THEOREM AtMostOneOwner == Spec => []SingleOwner
<1>1. Init => SingleOwner  BY DEF Init, SingleOwner
<1>2. QED  BY <1>1, OwnerStep, TypeCorrect, PTL DEF Spec
-----------------------------------------------------------------------------
(***************************************************************************)
(* Failure budgets.  How a step may change the global guards: not at all,  *)
(* by a cleanup that may grant one lease, by one more failure, or by time. *)
(***************************************************************************)
LEMMA GuardStep ==
  ASSUME TypeOK, [Next]_vars
  PROVE  \/ globalGuard' = globalGuard /\ ShrinkLeases
         \/ globalGuard' = GlobalGuardsAfterCleanup /\ ShrinkLeases
         \/ /\ globalGuard' = GlobalGuardsAfterCleanup
            /\ \E c \in Caller : GrantLease(c) /\ ~(globalGuard'[KindOf(c)].left > 0)
         \/ (\E k \in Kind : RecordGlobalFailure(k)) /\ ShrinkLeases
         \/ Tick
<1> DEFINE Goal == \/ globalGuard' = globalGuard /\ ShrinkLeases
                   \/ globalGuard' = GlobalGuardsAfterCleanup /\ ShrinkLeases
                   \/ /\ globalGuard' = GlobalGuardsAfterCleanup
                      /\ \E c \in Caller : GrantLease(c) /\ ~(globalGuard'[KindOf(c)].left > 0)
                   \/ (\E k \in Kind : RecordGlobalFailure(k)) /\ ShrinkLeases
                   \/ Tick
<1>1. leases \subseteq Caller /\ leaseLeft \in [Caller -> 0..LeaseTtl]  BY DEF TypeOK
<1>2. ASSUME leases' = leases, leaseLeft' = leaseLeft PROVE ShrinkLeases
  BY <1>1, <1>2, TimeAssumption DEF ShrinkLeases
<1>3. ASSUME leases' = LeasesAfterCleanup, leaseLeft' = leaseLeft PROVE ShrinkLeases
  BY <1>1, <1>3, TimeAssumption DEF ShrinkLeases, LeasesAfterCleanup
<1>4. ASSUME NEW c \in Caller, DeleteExactLease(c) PROVE ShrinkLeases
  BY <1>1, <1>4, TimeAssumption DEF ShrinkLeases, DeleteExactLease
<1>5. ASSUME NEW c \in Caller, NEW i, AdmitAuthAttempt(c, i, TRUE),
             leases' = LeasesAfterCleanup \union {c},
             leaseLeft' = [leaseLeft EXCEPT ![c] = LeaseTtl]
      PROVE  Goal
  <2>1. GrantLease(c)  BY <1>5, AdmittedAvailable DEF GrantLease
  <2>2. /\ globalGuard' = GlobalGuardsAfterCleanup
        /\ ~(globalGuard'[KindOf(c)].left > 0)
    BY <1>5 DEF AdmitAuthAttempt, Blocked
  <2>3. \E d \in Caller : GrantLease(d) /\ ~(globalGuard'[KindOf(d)].left > 0)
    BY <2>1, <2>2, Zenon
  <2>4. QED  BY <2>2, <2>3
<1>6. ASSUME NEW c \in BootstrapCaller, NEW right \in BOOLEAN, ClaimBootstrap(c, right)
      PROVE  Goal
  <2>1. globalGuard' = GlobalGuardsAfterCleanup  BY <1>6 DEF ClaimBootstrap, AdmitAuthAttempt
  <2>2. \/ leases' = LeasesAfterCleanup /\ leaseLeft' = leaseLeft
        \/ /\ AdmitAuthAttempt(c, Owner, TRUE)
           /\ leases' = LeasesAfterCleanup \union {c}
           /\ leaseLeft' = [leaseLeft EXCEPT ![c] = LeaseTtl]
    BY <1>6 DEF ClaimBootstrap
  <2>3. c \in Caller  BY DEF Caller
  <2>4. QED  BY <2>1, <2>2, <2>3, <1>3, <1>5
<1>7. ASSUME NEW c \in LoginCaller, NEW i \in Identity, NEW right \in BOOLEAN,
             ClaimLogin(c, i, right)
      PROVE  Goal
  <2>1. globalGuard' = GlobalGuardsAfterCleanup  BY <1>7 DEF ClaimLogin, AdmitAuthAttempt
  <2>2. \/ leases' = LeasesAfterCleanup /\ leaseLeft' = leaseLeft
        \/ /\ AdmitAuthAttempt(c, i, TRUE)
           /\ leases' = LeasesAfterCleanup \union {c}
           /\ leaseLeft' = [leaseLeft EXCEPT ![c] = LeaseTtl]
    BY <1>7 DEF ClaimLogin
  <2>3. c \in Caller  BY DEF Caller
  <2>4. QED  BY <2>1, <2>2, <2>3, <1>3, <1>5
<1>8. ASSUME NEW c \in BootstrapCaller, SettleBootstrap(c) PROVE Goal
  <2>1. ShrinkLeases
    <3>1. DeleteExactLease(c) \/ (leases' = leases /\ leaseLeft' = leaseLeft)
      BY <1>8 DEF SettleBootstrap
    <3>2. QED  BY <3>1, <1>2, <1>4 DEF Caller
  <2>2. globalGuard' = globalGuard \/ RecordGlobalFailure("BOOTSTRAP")
    BY <1>8 DEF SettleBootstrap
  <2>3. QED  BY <2>1, <2>2 DEF Kind
<1>9. ASSUME NEW c \in LoginCaller, SettleLogin(c) PROVE Goal
  <2>1. ShrinkLeases
    <3>1. DeleteExactLease(c) \/ (leases' = leases /\ leaseLeft' = leaseLeft)
      BY <1>9 DEF SettleLogin
    <3>2. QED  BY <3>1, <1>2, <1>4 DEF Caller
  <2>2. globalGuard' = globalGuard \/ RecordGlobalFailure("LOGIN")
    BY <1>9 DEF SettleLogin, RecordLoginFailure
  <2>3. QED  BY <2>1, <2>2 DEF Kind
<1>10. QED
  BY <1>2, <1>6, <1>7, <1>8, <1>9
  DEF Next, Claim, vars, clocked, Redeploy, PrepareChallenge, InstallChallenge, ReadStatus,
      Crash, EndSession
-----------------------------------------------------------------------------
LEMMA FailureLimitType == \A k \in Kind : FailureLimit(k) \in Nat \ {0}
BY LimitAssumption DEF FailureLimit

LEMMA BudgetStep == TypeOK /\ SpentBudgetBlocks /\ [Next]_vars => SpentBudgetBlocks'
<1> SUFFICES ASSUME TypeOK, SpentBudgetBlocks, [Next]_vars, NEW k \in Kind,
                    HasBlock(globalGuard'[k], FailureLimit(k))
             PROVE  /\ globalGuard'[k].left + globalGuard'[k].age >= Window
                    /\ \A c \in Caller : KindOf(c) = k /\ LeaseIsCurrent(c)'
                         => globalGuard'[k].left > leaseLeft'[c]
  BY DEF SpentBudgetBlocks
<1> DEFINE Covers == globalGuard'[k].left + globalGuard'[k].age >= Window
           Outlives == \A c \in Caller : KindOf(c) = k /\ LeaseIsCurrent(c)'
                         => globalGuard'[k].left > leaseLeft'[c]
<1>1. globalGuard[k] \in GlobalGuardRow(k) /\ globalGuard'[k] \in GlobalGuardRow(k)
  BY TypeStep DEF TypeOK
<1>2. /\ leaseLeft \in [Caller -> 0..LeaseTtl] /\ leaseLeft' \in [Caller -> 0..LeaseTtl]
      /\ leases \subseteq Caller
  BY TypeStep DEF TypeOK
<1>3. FailureLimit(k) \in Nat \ {0}  BY FailureLimitType
<1>4. ASSUME globalGuard'[k] = globalGuard[k], ShrinkLeases PROVE Covers /\ Outlives
  <2>1. HasBlock(globalGuard[k], FailureLimit(k))  BY <1>4
  <2>2. ASSUME NEW c \in Caller, LeaseIsCurrent(c)'
        PROVE  LeaseIsCurrent(c) /\ leaseLeft'[c] <= leaseLeft[c]
    BY <1>2, <1>4, <2>2, TimeAssumption DEF ShrinkLeases, LeaseIsCurrent
  <2>3. QED
    BY <1>1, <1>2, <1>4, <2>1, <2>2, TimeAssumption DEF SpentBudgetBlocks, GlobalGuardRow
<1>5. ASSUME globalGuard' = GlobalGuardsAfterCleanup
      PROVE  globalGuard'[k] = globalGuard[k] /\ globalGuard'[k].left > 0
  BY <1>1, <1>3, <1>5 DEF GlobalGuardsAfterCleanup, HasBlock, Lapsed, NoGlobalGuard, GlobalGuardRow
<1>6. ASSUME globalGuard' = GlobalGuardsAfterCleanup,
             NEW d \in Caller, GrantLease(d), ~(globalGuard'[KindOf(d)].left > 0)
      PROVE  Covers /\ Outlives
  <2>1. HasBlock(globalGuard[k], FailureLimit(k)) /\ globalGuard'[k] = globalGuard[k]
    BY <1>5, <1>6
  <2>2. KindOf(d) # k  BY <1>5, <1>6
  <2>3. ASSUME NEW c \in Caller, KindOf(c) = k, LeaseIsCurrent(c)'
        PROVE  LeaseIsCurrent(c) /\ leaseLeft'[c] = leaseLeft[c]
    BY <1>2, <1>6, <2>2, <2>3 DEF GrantLease, LeaseIsCurrent, LeasesAfterCleanup
  <2>4. QED  BY <2>1, <2>3 DEF SpentBudgetBlocks
<1>7. ASSUME NEW j \in Kind, RecordGlobalFailure(j), ShrinkLeases
      PROVE  Covers /\ Outlives
  <2>1. CASE j = k
    <3>1. globalGuard'[k].left = Window
      BY <1>1, <1>3, <1>7, <2>1 DEF RecordGlobalFailure, HasBlock, GlobalGuardRow, TypeOK
    <3>2. QED  BY <1>1, <1>2, <3>1, TimeAssumption DEF GlobalGuardRow
  <2>2. CASE j # k
    <3>1. globalGuard'[k] = globalGuard[k]
      BY <1>7, <2>2 DEF RecordGlobalFailure, TypeOK
    <3>2. QED  BY <1>4, <1>7, <3>1
  <2>3. QED  BY <2>1, <2>2
<1>8. CASE Tick
  <2>1. globalGuard'[k] = IF globalGuard[k].failed = 0 THEN NoGlobalGuard
                          ELSE Aged(globalGuard[k], Window)
    BY <1>8 DEF Tick
  <2>2. HasBlock(globalGuard[k], FailureLimit(k))
    BY <2>1, <1>1, <1>3 DEF HasBlock, NoGlobalGuard, Aged, GlobalGuardRow
  <2>3. globalGuard[k].failed # 0  BY <2>2, <1>3 DEF HasBlock
  <2>4. Covers
    BY <1>1, <2>1, <2>2, <2>3, TimeAssumption
    DEF SpentBudgetBlocks, Aged, Down, Up, GlobalGuardRow
  <2>5. ASSUME NEW c \in Caller, KindOf(c) = k, LeaseIsCurrent(c)'
        PROVE  globalGuard'[k].left > leaseLeft'[c]
    <3>1. c \in leases /\ leaseLeft'[c] > 0 /\ leaseLeft'[c] = Down(leaseLeft[c])
      BY <1>8, <2>5 DEF Tick, LeaseIsCurrent
    <3>2. leaseLeft[c] \in 0..LeaseTtl /\ leaseLeft[c] > 0 /\ leaseLeft'[c] = leaseLeft[c] - 1
      BY <1>2, <3>1, TimeAssumption DEF Down
    <3>3. globalGuard[k].left > leaseLeft[c]
      BY <2>2, <2>5, <3>1, <3>2 DEF SpentBudgetBlocks, LeaseIsCurrent
    <3>4. QED  BY <1>1, <2>1, <2>3, <3>2, <3>3, TimeAssumption DEF Aged, Down, GlobalGuardRow
  <2>6. QED  BY <2>4, <2>5
<1>9. QED  BY <1>4, <1>5, <1>6, <1>7, <1>8, GuardStep

\* The block of a spent failure budget covers its window and outlives every
\* running call, for all limits and every lease time below the window.
THEOREM BudgetNeverOverspent == Spec => []SpentBudgetBlocks
<1>1. Init => SpentBudgetBlocks
  <2> SUFFICES ASSUME Init PROVE SpentBudgetBlocks
    OBVIOUS
  <2>1. \A k \in Kind : globalGuard[k].failed = 0  BY DEF Init, NoGlobalGuard
  <2>2. QED  BY <2>1, FailureLimitType DEF SpentBudgetBlocks, HasBlock
<1>2. QED  BY <1>1, BudgetStep, TypeCorrect, PTL DEF Spec

\* Counted failures are forgotten only when their window is over.
THEOREM FailuresAreKept == Spec => FailuresKeptForWindow
<1>1. TypeOK /\ SpentBudgetBlocks /\ [Next]_vars =>
        [\A k \in Kind :
           globalGuard'[k].failed < globalGuard[k].failed => globalGuard[k].age >= Window]_vars
  <2> SUFFICES ASSUME TypeOK, SpentBudgetBlocks, [Next]_vars, NEW k \in Kind,
                      globalGuard'[k].failed < globalGuard[k].failed
               PROVE  globalGuard[k].age >= Window
    OBVIOUS
  <2>1. globalGuard[k] \in GlobalGuardRow(k)  BY DEF TypeOK
  <2>2. FailureLimit(k) \in Nat \ {0}  BY FailureLimitType
  <2>3. CASE globalGuard'[k] = globalGuard[k]
    BY <2>1, <2>2, <2>3 DEF GlobalGuardRow
  <2>4. CASE globalGuard' = GlobalGuardsAfterCleanup /\ globalGuard'[k] # globalGuard[k]
    <3>1. globalGuard[k].age >= Window \/ Lapsed(globalGuard[k], FailureLimit(k))
      BY <2>4 DEF GlobalGuardsAfterCleanup
    <3>2. QED
      BY <2>1, <3>1, TimeAssumption DEF Lapsed, SpentBudgetBlocks, GlobalGuardRow
  <2>5. ASSUME NEW j \in Kind, RecordGlobalFailure(j), globalGuard'[k] # globalGuard[k]
        PROVE  FALSE
    <3>1. j = k  BY <2>5 DEF RecordGlobalFailure, TypeOK
    <3>2. globalGuard'[k].failed =
            IF globalGuard[k].failed < FailureLimit(k) THEN globalGuard[k].failed + 1
            ELSE FailureLimit(k)
      BY <2>5, <3>1 DEF RecordGlobalFailure, TypeOK
    <3>3. QED  BY <2>1, <2>2, <3>2 DEF GlobalGuardRow
  <2>6. CASE Tick
    BY <2>1, <2>2, <2>6 DEF Tick, Aged, NoGlobalGuard, GlobalGuardRow
  <2>7. QED  BY <2>3, <2>4, <2>5, <2>6, GuardStep
<1>2. QED  BY <1>1, TypeCorrect, BudgetNeverOverspent, PTL DEF Spec, FailuresKeptForWindow
-----------------------------------------------------------------------------
(***************************************************************************)
(* The challenge.  Whoever writes the row has read it in the same          *)
(* transaction, so that only a row that is not there yet is made live.     *)
(***************************************************************************)
LEMMA ChallengeStep ==
  ASSUME TypeOK, [Next]_vars, challenge.state # "none"
  PROVE  /\ challenge'.left <= challenge.left
         /\ challenge'.state # "none"
         /\ challenge.state # "live" => challenge'.state = challenge.state
<1> DEFINE Goal == /\ challenge'.left <= challenge.left
                   /\ challenge'.state # "none"
                   /\ challenge.state # "live" => challenge'.state = challenge.state
<1>1. challenge.left \in Nat
  BY TimeAssumption DEF TypeOK
<1>2. ASSUME challenge' = challenge PROVE Goal
  BY <1>1, <1>2
<1>3. ASSUME ExpireChallenge PROVE Goal
  BY <1>1, <1>3 DEF ExpireChallenge, Expired
<1>4. CASE Tick
  BY <1>1, <1>4 DEF Tick, Older, Down
<1>5. ASSUME NEW o \in Opener, InstallChallenge(o) PROVE Goal
  BY <1>2, <1>3, <1>5 DEF InstallChallenge, MayInstall
<1>6. ASSUME NEW c \in BootstrapCaller, NEW right \in BOOLEAN, ClaimBootstrap(c, right)
      PROVE  Goal
  BY <1>2, <1>3, <1>6 DEF ClaimBootstrap
<1>7. ASSUME NEW c \in BootstrapCaller, SettleBootstrap(c) PROVE Goal
  <2>1. CASE ConsumeChallenge /\ BootstrapSettles(c)
    BY <1>1, <2>1 DEF ConsumeChallenge, BootstrapSettles
  <2>2. QED  BY <1>2, <1>3, <1>7, <2>1 DEF SettleBootstrap
<1>8. QED
  BY <1>2, <1>3, <1>4, <1>5, <1>6, <1>7
  DEF Next, Claim, vars, Redeploy, PrepareChallenge, ReadStatus, ClaimLogin, SettleLogin,
      Crash, EndSession

\* A challenge is issued once in the life of the database, whatever the openers,
\* the deployments and the calls (installProductionBootstrapChallenge).
THEOREM ChallengeIsNeverReissued == Spec => ChallengeNeverReissued
<1>1. TypeOK /\ [Next]_vars =>
        [challenge.state # "none" =>
           /\ challenge'.left <= challenge.left
           /\ challenge'.state # "none"
           /\ challenge.state # "live" => challenge'.state = challenge.state]_vars
  BY ChallengeStep
<1>2. QED  BY <1>1, TypeCorrect, PTL DEF Spec, ChallengeNeverReissued
-----------------------------------------------------------------------------
(***************************************************************************)
(* Blocks on one identity.  A block and the age of its row add up to the   *)
(* window, which the retention covers: neither the cleanup nor an eviction *)
(* finds a blocked row.                                                    *)
(***************************************************************************)
BlocksRun ==
  \A i \in Identity : loginGuard[i].left > 0 =>
    /\ loginGuard[i].failed = IdentityFailureLimit
    /\ loginGuard[i].left + loginGuard[i].age = Window

\* what a cleanup and an eviction may do to the guards
Thinned(old, new) ==
  \A i \in Identity : new[i] = old[i] \/ (new[i] = NoLoginGuard /\ old[i].left = 0)

LEMMA CleanupThins ==
  ASSUME TypeOK, BlocksRun, NEW cleaned \in LoginGuardsAfterCleanup
  PROVE  Thinned(loginGuard, cleaned)
<1> DEFINE stale == {i \in Rows(loginGuard) :
                       \/ loginGuard[i].age >= Retention
                       \/ Lapsed(loginGuard[i], IdentityFailureLimit)}
<1>1. PICK D \in Oldest(loginGuard, stale, CleanupBatch) : cleaned = Without(loginGuard, D)
  BY DEF LoginGuardsAfterCleanup
<1>2. D \subseteq stale
  BY DEF Oldest
<1>3. ASSUME NEW i \in D, i \in Identity PROVE loginGuard[i].left = 0
  <2>1. loginGuard[i] \in LoginGuardRow
    BY <1>3 DEF TypeOK
  <2>2. loginGuard[i].age >= Retention \/ loginGuard[i].left = 0
    BY <1>2 DEF Lapsed
  <2>3. QED  BY <1>3, <2>1, <2>2, TimeAssumption DEF BlocksRun, LoginGuardRow
<1>4. QED  BY <1>1, <1>3 DEF Thinned, Without

LEMMA ReserveThins ==
  ASSUME NEW old \in [Identity -> LoginGuardRow], NEW i, NEW new \in AfterReserve(old, i)
  PROVE  Thinned(old, new)
<1>1. CASE new = old
  BY <1>1 DEF Thinned
<1>2. CASE \E D \in Oldest(old, {j \in Rows(old) : old[j].left = 0}, 1) : new = Without(old, D)
  <2>1. PICK D \in SUBSET {j \in Rows(old) : old[j].left = 0} : new = Without(old, D)
    BY <1>2 DEF Oldest
  <2>2. QED  BY <2>1 DEF Thinned, Without
<1>3. QED  BY <1>1, <1>2 DEF AfterReserve

LEMMA AdmitThins ==
  ASSUME TypeOK, BlocksRun, NEW c, NEW i, NEW admitted, AdmitAuthAttempt(c, i, admitted)
  PROVE  Thinned(loginGuard, loginGuard')
<1>1. PICK cleaned \in LoginGuardsAfterCleanup :
         loginGuard' = cleaned \/ loginGuard' \in AfterReserve(cleaned, i)
  BY DEF AdmitAuthAttempt
<1>2. Thinned(loginGuard, cleaned) /\ cleaned \in [Identity -> LoginGuardRow]
  BY CleanupThins, CleanupType
<1>3. CASE loginGuard' = cleaned
  BY <1>2, <1>3
<1>4. CASE loginGuard' \in AfterReserve(cleaned, i)
  <2>1. Thinned(cleaned, loginGuard')
    BY <1>2, <1>4, ReserveThins
  <2>2. QED  BY <1>2, <2>1 DEF Thinned
<1>5. QED  BY <1>1, <1>3, <1>4

\* the row that a wrong secret leaves
FailedRow(g, new) ==
  /\ new.age = 0 /\ new.left \in {0, Window}
  /\ new.left = Window => new.failed = IdentityFailureLimit
  /\ g.left > 0 /\ g.left + g.age = Window => new.left = Window

LEMMA FailureRow ==
  ASSUME NEW guards \in [Identity -> LoginGuardRow], NEW i \in Identity,
         RecordLoginFailure(guards, i),
         guards[i].left > 0 => guards[i].failed = IdentityFailureLimit
  PROVE  /\ FailedRow(guards[i], loginGuard'[i])
         /\ \A j \in Identity \ {i} : loginGuard'[j] = guards[j]
<1> DEFINE g == guards[i]
           stale == \/ g.failed = 0 \/ g.age >= Window \/ Lapsed(g, IdentityFailureLimit)
           failures == IF stale THEN 1
                       ELSE IF g.failed < IdentityFailureLimit THEN g.failed + 1
                       ELSE IdentityFailureLimit
<1>1. loginGuard' = [guards EXCEPT ![i] =
           [failed |-> failures, age |-> 0,
            left |-> IF failures >= IdentityFailureLimit THEN Window ELSE 0]]
  BY DEF RecordLoginFailure
<1>2. g \in LoginGuardRow /\ IdentityFailureLimit \in Nat \ {0} /\ Window \in Nat \ {0}
  BY LimitAssumption, TimeAssumption
<1>3. failures \in 1..IdentityFailureLimit
  BY <1>2 DEF LoginGuardRow
<1>4. g.left > 0 /\ g.left + g.age = Window => failures = IdentityFailureLimit
  BY <1>2 DEF LoginGuardRow, Lapsed
<1> HIDE DEF failures
<1>5. loginGuard'[i] = [failed |-> failures, age |-> 0,
                        left |-> IF failures >= IdentityFailureLimit THEN Window ELSE 0]
  BY <1>1
<1>6. FailedRow(g, loginGuard'[i])
  BY <1>2, <1>3, <1>4, <1>5 DEF FailedRow
<1>7. QED  BY <1>1, <1>6

\* how a step may change the guards of the identities
LEMMA LoginGuardStep ==
  ASSUME TypeOK, BlocksRun, [Next]_vars
  PROVE  \/ Thinned(loginGuard, loginGuard')
         \/ Tick
         \/ \E i \in Identity : /\ FailedRow(loginGuard[i], loginGuard'[i])
                                /\ \A j \in Identity \ {i} :
                                     loginGuard'[j] = loginGuard[j]
                                     \/ (loginGuard'[j] = NoLoginGuard /\ loginGuard[j].left = 0)
         \/ \E c \in LoginCaller : /\ call[c].busy /\ ~call'[c].busy /\ call[c].right
                                   /\ loginGuard' = Without(loginGuard, {call[c].identity})
<1> DEFINE Goal == \/ Thinned(loginGuard, loginGuard')
                   \/ Tick
                   \/ \E i \in Identity : /\ FailedRow(loginGuard[i], loginGuard'[i])
                                          /\ \A j \in Identity \ {i} :
                                               loginGuard'[j] = loginGuard[j]
                                               \/ (loginGuard'[j] = NoLoginGuard /\ loginGuard[j].left = 0)
                   \/ \E c \in LoginCaller : /\ call[c].busy /\ ~call'[c].busy /\ call[c].right
                                             /\ loginGuard' = Without(loginGuard, {call[c].identity})
<1>1. ASSUME loginGuard' = loginGuard PROVE Goal
  BY <1>1 DEF Thinned
<1>2. ASSUME NEW c \in BootstrapCaller, NEW right \in BOOLEAN, ClaimBootstrap(c, right)
      PROVE  Goal
  <2>1. \E admitted : AdmitAuthAttempt(c, Owner, admitted)
    BY <1>2 DEF ClaimBootstrap
  <2>2. QED  BY <2>1, AdmitThins
<1>3. ASSUME NEW c \in LoginCaller, NEW i \in Identity, NEW right \in BOOLEAN,
             ClaimLogin(c, i, right)
      PROVE  Goal
  <2>1. \E admitted : AdmitAuthAttempt(c, i, admitted)
    BY <1>3 DEF ClaimLogin
  <2>2. QED  BY <2>1, AdmitThins
<1>4. ASSUME NEW c \in LoginCaller, SettleLogin(c) PROVE Goal
  <2> DEFINE i == call[c].identity
  <2>1. /\ call[c].busy /\ call' = [call EXCEPT ![c] = IdleCall]
        /\ \/ loginGuard' = loginGuard
           \/ \E guards \in AfterReserve(loginGuard, i) :
                loginGuard' = guards \/ RecordLoginFailure(guards, i)
           \/ call[c].right /\ loginGuard' = Without(loginGuard, {i})
    BY <1>4 DEF SettleLogin
  <2>2. i \in Identity /\ c \in Caller
    BY DEF TypeOK, CallRecord, Caller
  <2>3. loginGuard \in [Identity -> LoginGuardRow]
    BY DEF TypeOK
  <2> HIDE DEF i
  <2>4. ASSUME NEW guards \in AfterReserve(loginGuard, i),
               loginGuard' = guards \/ RecordLoginFailure(guards, i)
        PROVE  Goal
    <3>1. Thinned(loginGuard, guards) /\ guards \in [Identity -> LoginGuardRow]
      BY <2>3, ReserveThins, ReserveType
    <3>2. CASE loginGuard' = guards
      BY <3>1, <3>2
    <3>3. CASE RecordLoginFailure(guards, i)
      <4>1. guards[i] = loginGuard[i] \/ (guards[i] = NoLoginGuard /\ loginGuard[i].left = 0)
        BY <2>2, <3>1 DEF Thinned
      <4>2. guards[i].left > 0 => guards[i].failed = IdentityFailureLimit
        BY <2>2, <4>1 DEF BlocksRun, NoLoginGuard
      <4>3. /\ FailedRow(guards[i], loginGuard'[i])
            /\ \A j \in Identity \ {i} : loginGuard'[j] = guards[j]
        BY <2>2, <3>1, <3>3, <4>2, FailureRow
      <4>4. FailedRow(loginGuard[i], loginGuard'[i])
        BY <4>1, <4>3 DEF FailedRow
      <4>5. \A j \in Identity \ {i} :
              loginGuard'[j] = loginGuard[j]
              \/ (loginGuard'[j] = NoLoginGuard /\ loginGuard[j].left = 0)
        BY <3>1, <4>3 DEF Thinned
      <4>6. QED  BY <2>2, <4>4, <4>5
    <3>4. QED  BY <2>4, <3>2, <3>3
  <2>5. ASSUME call[c].right, loginGuard' = Without(loginGuard, {i}) PROVE Goal
    <3>1. ~call'[c].busy
      BY <2>1, <2>2 DEF TypeOK, IdleCall
    <3>2. QED  BY <2>1, <2>5, <3>1 DEF i
  <2>6. QED  BY <1>1, <2>1, <2>4, <2>5
<1>5. ASSUME NEW c \in BootstrapCaller, SettleBootstrap(c) PROVE Goal
  BY <1>1, <1>5 DEF SettleBootstrap
<1>6. QED
  BY <1>1, <1>2, <1>3, <1>4, <1>5
  DEF Next, Claim, vars, clocked, Redeploy, PrepareChallenge, InstallChallenge, ReadStatus,
      Crash, EndSession

LEMMA TickRow ==
  ASSUME TypeOK, BlocksRun, Tick, NEW i \in Identity
  PROVE  /\ loginGuard[i].left > 1 => loginGuard'[i].left > 0
         /\ loginGuard'[i].left > 0 =>
              /\ loginGuard'[i].failed = IdentityFailureLimit
              /\ loginGuard'[i].left + loginGuard'[i].age = Window
<1> DEFINE g == loginGuard[i]
<1>1. loginGuard'[i] = IF g.failed = 0 THEN NoLoginGuard ELSE Aged(g, Retention)
  BY DEF Tick
<1>2. g \in LoginGuardRow
  BY DEF TypeOK
<1>3. g.left > 0 => g.failed = IdentityFailureLimit /\ g.left + g.age = Window
  BY DEF BlocksRun
<1> HIDE DEF g
<1>4. CASE g.left = 0
  BY <1>1, <1>2, <1>4 DEF NoLoginGuard, Aged, Down, g
<1>5. CASE g.left > 0
  <2>1. g.failed # 0 /\ g.age < Retention
    BY <1>2, <1>3, <1>5, LimitAssumption, TimeAssumption DEF LoginGuardRow
  <2>2. loginGuard'[i] = [failed |-> g.failed, left |-> g.left - 1, age |-> g.age + 1]
    BY <1>1, <1>2, <1>5, <2>1 DEF Aged, Down, Up, LoginGuardRow
  <2>3. QED  BY <1>2, <1>3, <1>5, <2>2, TimeAssumption DEF LoginGuardRow, g
<1>6. QED  BY <1>2, <1>4, <1>5 DEF LoginGuardRow

LEMMA BlocksStep == TypeOK /\ BlocksRun /\ [Next]_vars => BlocksRun'
<1> SUFFICES ASSUME TypeOK, BlocksRun, [Next]_vars, NEW j \in Identity, loginGuard'[j].left > 0
             PROVE  /\ loginGuard'[j].failed = IdentityFailureLimit
                    /\ loginGuard'[j].left + loginGuard'[j].age = Window
  BY DEF BlocksRun
<1>1. CASE loginGuard'[j] = loginGuard[j]
  BY <1>1 DEF BlocksRun
<1>2. CASE loginGuard'[j] = NoLoginGuard
  BY <1>2 DEF NoLoginGuard
<1>3. CASE Tick
  BY <1>3, TickRow
<1>4. CASE FailedRow(loginGuard[j], loginGuard'[j])
  BY <1>4, TimeAssumption DEF FailedRow
<1>5. QED
  BY <1>1, <1>2, <1>3, <1>4, LoginGuardStep DEF Thinned, Without

\* A block on an identity ends with its time or with the right password of a call
\* admitted before it; no cleanup and no eviction lifts it (cleanupAuthAdmissionState,
\* reserveLoginGuardCapacity).
THEOREM IdentityBlocksHold == Spec => IdentityBlockHolds
<1>1. Init => BlocksRun
  BY DEF Init, BlocksRun, NoLoginGuard
<1>2. TypeOK /\ BlocksRun /\ [Next]_vars =>
        [\A i \in Identity :
           loginGuard[i].left > 1 /\ loginGuard'[i].left = 0 =>
             \E c \in LoginCaller : /\ call[c].busy /\ ~call'[c].busy
                                    /\ call[c].right /\ call[c].identity = i]_vars
  <2> SUFFICES ASSUME TypeOK, BlocksRun, [Next]_vars, NEW j \in Identity,
                      loginGuard[j].left > 1, loginGuard'[j].left = 0
               PROVE  \E c \in LoginCaller : /\ call[c].busy /\ ~call'[c].busy
                                             /\ call[c].right /\ call[c].identity = j
    OBVIOUS
  <2>1. loginGuard[j] \in LoginGuardRow
    BY DEF TypeOK
  <2>2. loginGuard'[j] # loginGuard[j] /\ loginGuard[j].left # 0
    BY <2>1 DEF LoginGuardRow
  <2>3. ~Tick
    BY <2>1, TickRow DEF LoginGuardRow
  <2>4. ~FailedRow(loginGuard[j], loginGuard'[j])
    BY <2>1, TimeAssumption DEF FailedRow, BlocksRun, LoginGuardRow
  <2>5. PICK c \in LoginCaller : /\ call[c].busy /\ ~call'[c].busy /\ call[c].right
                                 /\ loginGuard' = Without(loginGuard, {call[c].identity})
    BY <2>2, <2>3, <2>4, LoginGuardStep DEF Thinned
  <2>6. call[c].identity = j
    BY <2>2, <2>5 DEF Without
  <2>7. QED  BY <2>5, <2>6
<1>3. QED  BY <1>1, <1>2, BlocksStep, TypeCorrect, PTL DEF Spec, IdentityBlockHolds
=============================================================================
