------------------------ MODULE ReleasePublicationProofs ------------------------
(***************************************************************************)
(* Proofs about schedules and releases, for every event: any people, units,*)
(* plans, submissions, windows, rooms and texts.                           *)
(*                                                                         *)
(* A save and an auto-placement work through the units one after the other;*)
(* what they leave behind is shown by induction over that sequence.        *)
(***************************************************************************)
EXTENDS ReleasePublication, WellFoundedInduction, TLAPS

(***************************************************************************)
(* Induction over the naturals, in the form of a set that is closed under  *)
(* the successor                                                           *)
(***************************************************************************)
Less == {r \in Nat \X Nat : r[1] < r[2]}

LEMMA LeastElement ==
  ASSUME NEW S, S \subseteq Nat, S # {}
  PROVE  \E n \in S : \A m \in S : n <= m
<1>1. IsWellFoundedOn(Less, Nat)
  BY NatLessThanWellFounded DEF OpToRel, Less
<1>2. PICK n \in S : \A m \in S : ~ (<<m, n>> \in Less)
  BY <1>1, WFMin
<1>3. ASSUME NEW m \in S PROVE n <= m
  <2>1. m \in Nat /\ n \in Nat /\ ~ (<<m, n>> \in Less)
    BY <1>2
  <2>2. ~ (m < n)
    BY <2>1 DEF Less
  <2>3. QED  BY <2>1, <2>2
<1>4. QED  BY <1>3

LEMMA ClosedUnderSuccessor ==
  ASSUME NEW S, 0 \in S, \A n \in Nat : n \in S => n + 1 \in S
  PROVE  Nat \subseteq S
<1> SUFFICES ASSUME Nat \ S # {} PROVE FALSE
  OBVIOUS
<1>1. PICK n \in Nat \ S : \A m \in Nat \ S : n <= m
  BY LeastElement
<1>2. n - 1 \in Nat
  OBVIOUS
<1>3. n - 1 \in S
  BY <1>1, <1>2
<1>4. QED  BY <1>2, <1>3

(***************************************************************************)
(* The two tables that are computed unit by unit are what their recursive  *)
(* definitions say                                                         *)
(***************************************************************************)
N == Len(UnitOrder)

LEMMA OrderType == /\ N \in Nat
                   /\ \A i \in 1..N : UnitOrder[i] \in Units
                   /\ \A u \in Units : \E i \in 1..N : UnitOrder[i] = u
BY OrderAssumption DEF N

LEMMA WritingRecursion ==
  ASSUME NEW prior, NEW next
  PROVE  /\ Writing(prior, next)[0] = Cleared
         /\ \A i \in 1..N : Writing(prior, next)[i]
              = WriteNext(Writing(prior, next)[i - 1], prior, next, UnitOrder[i])
<1> DEFINE After(v, i) == WriteNext(v, prior, next, UnitOrder[i])
           IsTable(f, n) == f = [i \in 0..n |-> IF i = 0 THEN Cleared ELSE After(f[i - 1], i)]
           S == {n \in Nat : \E f : IsTable(f, n)}
<1>1. Writing(prior, next) = CHOOSE f : IsTable(f, N)
  BY DEF Writing, N
<1> HIDE DEF After
<1>2. 0 \in S
  <2>1. IsTable([i \in 0..0 |-> Cleared], 0)
    OBVIOUS
  <2>2. QED  BY <2>1
<1>3. ASSUME NEW n \in Nat, n \in S PROVE n + 1 \in S
  <2>1. PICK f : IsTable(f, n)
    BY <1>3
  <2> DEFINE g == [i \in 0..(n + 1) |-> IF i = n + 1 THEN After(f[n], i) ELSE f[i]]
  <2>2. ASSUME NEW i \in 0..(n + 1)
        PROVE  g[i] = IF i = 0 THEN Cleared ELSE After(g[i - 1], i)
    <3>1. CASE i = n + 1
      <4>1. g[i] = After(f[n], i) /\ i - 1 = n /\ i # 0 /\ n \in 0..(n + 1) /\ n # n + 1
        BY <3>1
      <4>2. g[n] = f[n]
        BY <4>1
      <4>3. QED  BY <4>1, <4>2
    <3>2. CASE i # n + 1
      <4>1. i \in 0..n /\ g[i] = f[i]
        BY <3>2
      <4>2. f[i] = IF i = 0 THEN Cleared ELSE After(f[i - 1], i)
        BY <2>1, <4>1
      <4>3. i # 0 => i - 1 \in 0..(n + 1) /\ i - 1 # n + 1
        BY <4>1
      <4>4. i # 0 => g[i - 1] = f[i - 1]
        BY <4>3
      <4>5. QED  BY <4>1, <4>2, <4>4
    <3>3. QED  BY <3>1, <3>2
  <2>3. IsTable(g, n + 1)
    BY <2>2
  <2> HIDE DEF g, IsTable
  <2>4. QED  BY <2>3
<1>4. \E f : IsTable(f, N)
  BY <1>2, <1>3, ClosedUnderSuccessor, OrderType
<1>5. IsTable(Writing(prior, next), N)
  BY <1>1, <1>4
<1>6. QED  BY <1>5, OrderType DEF After

(***************************************************************************)
(* The inductive invariant                                                 *)
(***************************************************************************)
SessionsAt(n, A, C) == IF n = 0 THEN {} ELSE C \cup {Seat[n][p] : p \in A}
SpeakersAt(n, A, C, u) == {p \in A : Seat[n][p] = u}
                          \cup (IF u \in C THEN CfpSpeakers[u] ELSE {})

IsSchedule(d) ==
  /\ d = [plan |-> d.plan, accepted |-> d.accepted, cfp |-> d.cfp,
          revision |-> d.revision, rooms |-> d.rooms, place |-> d.place]
  /\ d.place = [u \in Units |-> d.place[u]]
IsRow(row) == row = [from |-> row.from, room |-> row.room, status |-> row.status]

\* the authorities point to what exists, and who accepted has a seat
Authorities ==
  /\ plan \in 0..Len(Seat) /\ cfp \subseteq CfpUnits
  /\ accepted \subseteq People
  /\ plan = 0 => accepted = {}
  /\ \A p \in accepted : Seat[plan][p] # NoUnit

\* a draft places sessions of its own context only, and submissions only come
Drafted ==
  /\ IsSchedule(draft) /\ draft.cfp \subseteq cfp
  /\ \A u \in Units : draft.place[u] # Nowhere =>
       u \in SessionsAt(draft.plan, draft.accepted, draft.cfp)

Agrees(row, placement) ==
  IF placement # Nowhere
  THEN row.status = "DRAFT" /\ row.room = placement.room
       /\ row.from = placement.slot[1]
  ELSE row.status # "DRAFT"

\* the rows are those of the last draft, of whatever context
RowsAgree ==
  /\ rows = [u \in Units |-> rows[u]]
  /\ \A u \in Units : IsRow(rows[u]) /\ Agrees(rows[u], draft.place[u])

\* what an approval vouches for, in terms of nothing but itself
Sound(a) ==
  /\ a.plan # 0
  /\ \A u \in SessionsAt(a.plan, a.accepted, a.cfp) : a.place[u] # Nowhere
  /\ \A u, w \in SessionsAt(a.plan, a.accepted, a.cfp) :
       u # w /\ Meets(Taken(a.place, u), Taken(a.place, w)) =>
         /\ a.place[u].room # a.place[w].room
         /\ SpeakersAt(a.plan, a.accepted, a.cfp, u)
            \cap SpeakersAt(a.plan, a.accepted, a.cfp, w) = {}

ApprovalsSound == \A a \in approvals : Sound(a)

DraftInv == Authorities /\ Drafted /\ RowsAgree /\ ApprovalsSound

Answers == /\ Len(answered) = IF plan = 0 THEN 0 ELSE plan - 1
           /\ answered \in Seq(SUBSET People)

\* what a release vouches for, in terms of nothing but itself
Agreed(r) ==
  /\ \A p \in r.accepted : HeldAt(r, Seat[r.plan][p]) = Window[Seat[r.plan][p]]
  /\ \A p, q \in r.accepted :
       Seat[r.plan][p] = Seat[r.plan][q] => r.texts[p] = r.texts[q]

\* and every release can be validated against the evidence of its own time
OnRecord ==
  /\ releases \in Seq({releases[i] : i \in 1..Len(releases)})
  /\ \A i \in 1..Len(releases) :
       Agreed(releases[i]) /\ Historical(i) /\ releases[i].plan \in 1..plan

IInv == DraftInv /\ Answers /\ OnRecord

LEMMA PlacingRecursion ==
  ASSUME NEW now
  PROVE  /\ Placing(now)[0] = now.place
         /\ \A i \in 1..N : Placing(now)[i]
              = PlaceNext(Placing(now)[i - 1], now.rooms, UnitOrder[i])
<1> DEFINE After(v, i) == PlaceNext(v, now.rooms, UnitOrder[i])
           IsTable(f, n) == f = [i \in 0..n |-> IF i = 0 THEN now.place ELSE After(f[i - 1], i)]
           S == {n \in Nat : \E f : IsTable(f, n)}
<1>1. Placing(now) = CHOOSE f : IsTable(f, N)
  BY DEF Placing, N
<1> HIDE DEF After
<1>2. 0 \in S
  <2>1. IsTable([i \in 0..0 |-> now.place], 0)
    OBVIOUS
  <2>2. QED  BY <2>1
<1>3. ASSUME NEW n \in Nat, n \in S PROVE n + 1 \in S
  <2>1. PICK f : IsTable(f, n)
    BY <1>3
  <2> DEFINE g == [i \in 0..(n + 1) |-> IF i = n + 1 THEN After(f[n], i) ELSE f[i]]
  <2>2. ASSUME NEW i \in 0..(n + 1)
        PROVE  g[i] = IF i = 0 THEN now.place ELSE After(g[i - 1], i)
    <3>1. CASE i = n + 1
      <4>1. g[i] = After(f[n], i) /\ i - 1 = n /\ i # 0 /\ n \in 0..(n + 1) /\ n # n + 1
        BY <3>1
      <4>2. g[n] = f[n]
        BY <4>1
      <4>3. QED  BY <4>1, <4>2
    <3>2. CASE i # n + 1
      <4>1. i \in 0..n /\ g[i] = f[i]
        BY <3>2
      <4>2. f[i] = IF i = 0 THEN now.place ELSE After(f[i - 1], i)
        BY <2>1, <4>1
      <4>3. i # 0 => i - 1 \in 0..(n + 1) /\ i - 1 # n + 1
        BY <4>1
      <4>4. i # 0 => g[i - 1] = f[i - 1]
        BY <4>3
      <4>5. QED  BY <4>1, <4>2, <4>4
    <3>3. QED  BY <3>1, <3>2
  <2>3. IsTable(g, n + 1)
    BY <2>2
  <2> HIDE DEF g, IsTable
  <2>4. QED  BY <2>3
<1>4. \E f : IsTable(f, N)
  BY <1>2, <1>3, ClosedUnderSuccessor, OrderType
<1>5. IsTable(Placing(now), N)
  BY <1>1, <1>4
<1>6. QED  BY <1>5, OrderType DEF After


(***************************************************************************)
(* What a save leaves in the table                                         *)
(***************************************************************************)
\* what the rows know of the schedule before the save
PriorAgrees(prior) ==
  \A u \in Sessions : rows[u] # NoRow => Agrees(rows[u], prior[u])

\* the table once the units in D have been written
WrittenFor(table, next, D) ==
  /\ table = [u \in Units |-> table[u]]
  /\ \A u \in Units :
       /\ IsRow(table[u])
       /\ u \notin Sessions => table[u].status # "DRAFT"
       /\ u \in Sessions /\ u \in D => Agrees(table[u], next[u])
       /\ u \in Sessions /\ u \notin D => table[u] = rows[u]

LEMMA OneUnitWritten ==
  ASSUME NEW prior, NEW next, PriorAgrees(prior),
         NEW table, NEW D, WrittenFor(table, next, D),
         NEW u \in Units
  PROVE  WrittenFor(Write(table, prior, next, u), next, D \cup {u})
<1> DEFINE new == Write(table, prior, next, u)
<1>1. CASE u \notin Sessions
  <2>1. new = table
    BY <1>1 DEF Write
  <2>2. QED  BY <1>1, <2>1 DEF WrittenFor
<1>2. CASE u \in Sessions /\ Settled(table, prior, next, u)
  <2>1. new = table
    BY <1>2 DEF Write
  <2>2. Agrees(table[u], next[u])
    BY <1>2 DEF WrittenFor, Settled, PriorAgrees
  <2>3. QED  BY <1>2, <2>1, <2>2 DEF WrittenFor
<1>3. CASE u \in Sessions /\ ~Settled(table, prior, next, u) /\ next[u] # Nowhere
  <2> DEFINE row == [from |-> next[u].slot[1], room |-> next[u].room, status |-> "DRAFT"]
  <2>1. new = [table EXCEPT ![u] = row]
    BY <1>3 DEF Write
  <2>2. IsRow(row) /\ Agrees(row, next[u])
    BY <1>3 DEF IsRow, Agrees
  <2>3. QED  BY <1>3, <2>1, <2>2 DEF WrittenFor
<1>4. CASE u \in Sessions /\ ~Settled(table, prior, next, u) /\ next[u] = Nowhere
  <2>1. CASE table[u] # NoRow
    <3>1. new = [table EXCEPT ![u].status = "CANCELLED"]
      BY <1>4, <2>1 DEF Write
    <3>2. IsRow(table[u])
      BY DEF WrittenFor
    <3>3. new[u] = [from |-> table[u].from, room |-> table[u].room, status |-> "CANCELLED"]
      BY <3>1, <3>2 DEF WrittenFor, IsRow
    <3>4. IsRow(new[u]) /\ Agrees(new[u], next[u])
      BY <3>3, <1>4 DEF IsRow, Agrees
    <3>5. /\ new = [w \in Units |-> new[w]]
          /\ \A w \in Units \ {u} : new[w] = table[w]
      BY <3>1 DEF WrittenFor
    <3>6. QED  BY <1>4, <3>4, <3>5 DEF WrittenFor
  <2>2. CASE table[u] = NoRow
    <3>1. new = table
      BY <1>4, <2>2 DEF Write
    <3>2. Agrees(table[u], next[u])
      BY <1>4, <2>2 DEF Agrees, NoRow
    <3>3. QED  BY <1>4, <3>1, <3>2 DEF WrittenFor
  <2>3. QED  BY <2>1, <2>2
<1>5. QED  BY <1>1, <1>2, <1>3, <1>4

LEMMA ClearedTable ==
  ASSUME RowsAgree, NEW next
  PROVE  WrittenFor(Cleared, next, {})
<1>1. ASSUME NEW u \in Units
      PROVE  /\ IsRow(Cleared[u])
             /\ u \notin Sessions => Cleared[u].status # "DRAFT"
             /\ u \in Sessions => Cleared[u] = rows[u]
  <2>1. IsRow(rows[u])
    BY DEF RowsAgree
  <2>2. CASE u \notin Sessions /\ rows[u].status = "DRAFT"
    <3>1. Cleared[u] = [from |-> rows[u].from, room |-> rows[u].room, status |-> "CANCELLED"]
      BY <2>1, <2>2 DEF Cleared, IsRow
    <3>2. QED  BY <2>2, <3>1 DEF IsRow
  <2>3. CASE ~ (u \notin Sessions /\ rows[u].status = "DRAFT")
    BY <2>1, <2>3 DEF Cleared
  <2>4. QED  BY <2>2, <2>3
<1>2. Cleared = [u \in Units |-> Cleared[u]]
  BY DEF Cleared
<1>3. QED  BY <1>1, <1>2 DEF WrittenFor

\* the units written first
Done(i) == {UnitOrder[j] : j \in 1..i}

LEMMA AllWritten ==
  ASSUME RowsAgree, NEW prior, NEW next, PriorAgrees(prior),
         Written(prior, next) # Aborted
  PROVE  WrittenFor(Written(prior, next), next, Units)
<1> DEFINE T == Writing(prior, next)
           S == {i \in Nat : i <= N /\ T[i] # Aborted => WrittenFor(T[i], next, Done(i))}
<1>1. /\ T[0] = Cleared
      /\ \A i \in 1..N : T[i] = WriteNext(T[i - 1], prior, next, UnitOrder[i])
  BY WritingRecursion
<1> HIDE DEF T
<1>2. 0 \in S
  <2>1. Done(0) = {}
    BY DEF Done
  <2>2. QED  BY <1>1, <2>1, ClearedTable
<1>3. ASSUME NEW i \in Nat, i \in S PROVE i + 1 \in S
  <2> SUFFICES ASSUME i + 1 <= N, T[i + 1] # Aborted
               PROVE  WrittenFor(T[i + 1], next, Done(i + 1))
    OBVIOUS
  <2> DEFINE u == UnitOrder[i + 1]
  <2>1. i + 1 \in 1..N /\ i <= N /\ (i + 1) - 1 = i
    BY OrderType
  <2>2. T[i + 1] = WriteNext(T[i], prior, next, u)
    BY <1>1, <2>1
  <2>3. T[i] # Aborted /\ T[i + 1] = Write(T[i], prior, next, u)
    BY <2>2 DEF WriteNext
  <2>4. u \in Units
    BY <2>1, OrderType
  <2>5. WrittenFor(T[i], next, Done(i))
    BY <1>3, <2>1, <2>3
  <2>6. WrittenFor(T[i + 1], next, Done(i) \cup {u})
    BY <2>3, <2>4, <2>5, OneUnitWritten
  <2>7. Done(i + 1) = Done(i) \cup {u}
    <3>1. \A j \in Int : j \in 1..(i + 1) <=> j \in 1..i \/ j = i + 1
      OBVIOUS
    <3>2. QED  BY <3>1 DEF Done
  <2>8. QED  BY <2>6, <2>7
<1>4. N \in S
  BY <1>2, <1>3, ClosedUnderSuccessor, OrderType
<1>5. T[N] = Written(prior, next)
  BY DEF T, Written, N
<1>6. Units \subseteq Done(N)
  BY OrderType DEF Done
<1>7. WrittenFor(Written(prior, next), next, Done(N))
  BY <1>4, <1>5, OrderType
<1>8. QED  BY <1>6, <1>7 DEF WrittenFor

(***************************************************************************)
(* The schedule an organizer edits                                         *)
(***************************************************************************)
PlacedIn(place) ==
  /\ place = [u \in Units |-> place[u]]
  /\ \A u \in Units : place[u] # Nowhere => u \in Sessions

LEMMA SessionsAreUnits ==
  ASSUME Authorities
  PROVE  Sessions \subseteq Units /\ Sessions = SessionsAt(plan, accepted, cfp)
<1>1. ASSUME plan # 0, NEW p \in accepted PROVE Seat[plan][p] \in Units
  <2>1. Seat[plan] \in [People -> Units \cup {NoUnit}]
    BY <1>1, SeatAssumption DEF Authorities
  <2>2. QED  BY <1>1, <2>1 DEF Authorities
<1>2. QED  BY <1>1, SeatAssumption DEF Sessions, SessionsAt, Authorities

LEMMA RowsArePlaced ==
  ASSUME Authorities, RowsAgree
  PROVE  PlacedIn(BasePlace) /\ PriorAgrees(BasePlace)
<1>1. \A u \in Units : BasePlace[u] # Nowhere => u \in Sessions
  BY DEF BasePlace
<1>2. ASSUME NEW u \in Sessions \cap Units, rows[u] # NoRow
      PROVE  Agrees(rows[u], BasePlace[u])
  <2>1. CASE rows[u].status = "DRAFT"
    <3>1. BasePlace[u] = [slot |-> Interval(rows[u], u), room |-> rows[u].room]
      BY <2>1, <1>2 DEF BasePlace, HasDefault
    <3>2. Interval(rows[u], u) # <<0, 0>>
      BY WindowAssumption DEF Interval, Duration
    <3>3. BasePlace[u] # Nowhere
      BY <3>1, <3>2 DEF Nowhere
    <3>4. BasePlace[u].slot[1] = rows[u].from /\ BasePlace[u].room = rows[u].room
      BY <3>1 DEF Interval
    <3>5. QED  BY <2>1, <3>3, <3>4 DEF Agrees
  <2>2. CASE rows[u].status # "DRAFT"
    <3>1. BasePlace[u] = Nowhere
      BY <2>2, <1>2 DEF BasePlace, HasDefault
    <3>2. QED  BY <2>2, <3>1 DEF Agrees
  <2>3. QED  BY <2>1, <2>2
<1>3. BasePlace = [u \in Units |-> BasePlace[u]]
  BY DEF BasePlace
<1>4. QED  BY <1>1, <1>2, <1>3, SessionsAreUnits DEF PlacedIn, PriorAgrees

LEMMA CurrentSchedule ==
  ASSUME Authorities, Drafted, RowsAgree, Sessions # {}
  PROVE  /\ IsSchedule(Current)
         /\ Current.plan = plan /\ Current.accepted = accepted /\ Current.cfp = cfp
         /\ PlacedIn(Current.place) /\ PriorAgrees(Current.place)
         /\ SameCommitments(draft) => Current.place = draft.place
<1>1. CASE SameCommitments(draft)
  <2>1. Current = [plan |-> plan, accepted |-> accepted, cfp |-> cfp,
                   revision |-> draft.revision, rooms |-> draft.rooms, place |-> draft.place]
    BY <1>1 DEF Current, SameCommitments, Drafted, IsSchedule
  <2>2. plan # 0
    BY DEF Sessions
  <2>3. \A u \in Units : draft.place[u] # Nowhere => u \in Sessions
    BY <1>1, <2>2 DEF Drafted, SameCommitments, SessionsAt, Sessions
  <2>4. PriorAgrees(draft.place)
    BY SessionsAreUnits DEF PriorAgrees, RowsAgree
  <2>5. draft.place = [u \in Units |-> draft.place[u]]
    BY DEF Drafted, IsSchedule
  <2>6. QED  BY <2>1, <2>3, <2>4, <2>5 DEF IsSchedule, PlacedIn
<1>2. CASE ~ SameCommitments(draft)
  <2>1. Current = [plan |-> plan, accepted |-> accepted, cfp |-> cfp, revision |-> 1,
                   rooms |-> IF rooms = {} THEN {DefaultRoom} ELSE rooms,
                   place |-> BasePlace]
    BY <1>2 DEF Current, Base
  <2>2. QED  BY <1>2, <2>1, RowsArePlaced, SessionsAreUnits DEF IsSchedule, PlacedIn
<1>3. QED  BY <1>1, <1>2

LEMMA AutoPlacedInside ==
  ASSUME NEW now, PlacedIn(now.place)
  PROVE  PlacedIn(AutoPlaced(now))
<1> DEFINE T == Placing(now)
           S == {i \in Nat : i <= N => PlacedIn(T[i])}
<1>1. /\ T[0] = now.place
      /\ \A i \in 1..N : T[i] = PlaceNext(T[i - 1], now.rooms, UnitOrder[i])
  BY PlacingRecursion
<1> HIDE DEF T
<1>2. 0 \in S
  BY <1>1
<1>3. ASSUME NEW i \in Nat, i \in S PROVE i + 1 \in S
  <2> SUFFICES ASSUME i + 1 <= N PROVE PlacedIn(T[i + 1])
    OBVIOUS
  <2>1. i + 1 \in 1..N /\ i <= N /\ (i + 1) - 1 = i
    BY OrderType
  <2>2. PlacedIn(T[i]) /\ T[i + 1] = PlaceNext(T[i], now.rooms, UnitOrder[i + 1])
    BY <1>1, <1>3, <2>1
  <2>3. QED  BY <2>2 DEF PlaceNext, PlacedIn
<1>4. N \in S
  BY <1>2, <1>3, ClosedUnderSuccessor, OrderType
<1>5. QED  BY <1>4, OrderType DEF T, AutoPlaced, N

(***************************************************************************)
(* Drafts and approvals                                                    *)
(***************************************************************************)
LEMMA SaveKeeps ==
  ASSUME DraftInv, NEW next, Save(Current, next), IsSchedule(next),
         next.plan = plan, next.accepted = accepted, next.cfp = cfp, PlacedIn(next.place)
  PROVE  DraftInv'
<1>1. Sessions # {} /\ UNCHANGED <<plan, accepted, cfp, approvals>> /\ draft' = next
  BY DEF Save, Readable, authorityVars
<1>2. PriorAgrees(Current.place)
  BY <1>1, CurrentSchedule DEF DraftInv
<1>3. /\ rows' = Written(Current.place, next.place)
      /\ Written(Current.place, next.place) # Aborted
  BY DEF Save
<1>4. WrittenFor(rows', next.place, Units)
  BY <1>2, <1>3, AllWritten DEF DraftInv
<1>5. RowsAgree'
  <2>1. ASSUME NEW u \in Units
        PROVE  IsRow(rows'[u]) /\ Agrees(rows'[u], next.place[u])
    BY <1>4 DEF WrittenFor, PlacedIn, Agrees
  <2>2. QED  BY <1>1, <1>4, <2>1 DEF WrittenFor, RowsAgree
<1>6. Drafted'
  BY <1>1, SessionsAreUnits DEF Drafted, PlacedIn, DraftInv
<1>7. Authorities' /\ ApprovalsSound'
  BY <1>1 DEF DraftInv, Authorities, ApprovalsSound
<1>8. QED  BY <1>5, <1>6, <1>7 DEF DraftInv

LEMMA NextPlacing ==
  ASSUME NEW d, IsSchedule(d), NEW k, NEW new
  PROVE  [d EXCEPT !.place = new, !.revision = k]
           = [plan |-> d.plan, accepted |-> d.accepted, cfp |-> d.cfp,
              revision |-> k, rooms |-> d.rooms, place |-> new]
<1> DEFINE half == [d EXCEPT !.place = new]
<1>1. [d EXCEPT !.place = new, !.revision = k] = [half EXCEPT !.revision = k]
  OBVIOUS
<1>2. half = [plan |-> d.plan, accepted |-> d.accepted, cfp |-> d.cfp,
              revision |-> d.revision, rooms |-> d.rooms, place |-> new]
  BY DEF IsSchedule
<1> HIDE DEF half
<1>3. QED  BY <1>1, <1>2

LEMMA NextRooms ==
  ASSUME NEW d, IsSchedule(d), NEW k, NEW new
  PROVE  [d EXCEPT !.rooms = new, !.revision = k]
           = [plan |-> d.plan, accepted |-> d.accepted, cfp |-> d.cfp,
              revision |-> k, rooms |-> new, place |-> d.place]
<1> DEFINE half == [d EXCEPT !.rooms = new]
<1>1. [d EXCEPT !.rooms = new, !.revision = k] = [half EXCEPT !.revision = k]
  OBVIOUS
<1>2. half = [plan |-> d.plan, accepted |-> d.accepted, cfp |-> d.cfp,
              revision |-> d.revision, rooms |-> new, place |-> d.place]
  BY DEF IsSchedule
<1> HIDE DEF half
<1>3. QED  BY <1>1, <1>2

LEMMA EditKeeps ==
  ASSUME DraftInv, NEW place, Edit(Current, place), PlacedIn(place)
  PROVE  DraftInv'
<1> DEFINE next == [Current EXCEPT !.place = place, !.revision = NextRevision(Current)]
<1>1. Save(Current, next) /\ Sessions # {}
  BY DEF Edit, Save, Readable
<1>2. IsSchedule(Current)
  BY <1>1, CurrentSchedule DEF DraftInv
<1>3. next = [plan |-> Current.plan, accepted |-> Current.accepted, cfp |-> Current.cfp,
              revision |-> NextRevision(Current), rooms |-> Current.rooms, place |-> place]
  <2> DEFINE d == Current
             k == NextRevision(Current)
  <2>1. IsSchedule(d)
    BY <1>2
  <2> HIDE DEF d, k
  <2>2. [d EXCEPT !.place = place, !.revision = k]
          = [plan |-> d.plan, accepted |-> d.accepted, cfp |-> d.cfp,
             revision |-> k, rooms |-> d.rooms, place |-> place]
    BY <2>1, NextPlacing
  <2>3. QED  BY <2>2 DEF d, k
<1>4. /\ IsSchedule(next) /\ next.place = place /\ next.plan = Current.plan
      /\ next.accepted = Current.accepted /\ next.cfp = Current.cfp
  BY <1>3 DEF IsSchedule, PlacedIn
<1> HIDE DEF next
<1>5. QED  BY <1>1, <1>4, CurrentSchedule, SaveKeeps DEF DraftInv

Editing == \/ \E u \in Sessions : \E slot \in Slots, room \in Current.rooms :
                MoveSession(u, slot, room)
           \/ \E u \in Sessions : ClearSession(u)
           \/ \E S \in SUBSET Rooms \ {{}} : ConfigureRooms(S)
           \/ AutoPlace

LEMMA EditingKeeps == DraftInv /\ Editing => DraftInv'
<1> SUFFICES ASSUME DraftInv, Editing PROVE DraftInv'
  OBVIOUS
<1>1. Sessions # {}
  BY DEF Editing, MoveSession, ClearSession, ConfigureRooms, AutoPlace, Edit, Save, Readable
<1>2. /\ IsSchedule(Current) /\ PlacedIn(Current.place)
      /\ Current.plan = plan /\ Current.accepted = accepted /\ Current.cfp = cfp
  BY <1>1, CurrentSchedule DEF DraftInv
<1>3. ASSUME NEW u \in Sessions, NEW slot \in Slots, NEW room \in Current.rooms,
             MoveSession(u, slot, room)
      PROVE  DraftInv'
  <2> DEFINE place == [Current.place EXCEPT ![u] = [slot |-> slot, room |-> room]]
  <2>1. PlacedIn(place)
    BY <1>2 DEF PlacedIn
  <2>2. Edit(Current, place)
    BY <1>3 DEF MoveSession
  <2> HIDE DEF place
  <2>3. QED  BY <2>1, <2>2, EditKeeps
<1>4. ASSUME NEW u \in Sessions, ClearSession(u) PROVE DraftInv'
  <2> DEFINE place == [Current.place EXCEPT ![u] = Nowhere]
  <2>1. PlacedIn(place)
    BY <1>2 DEF PlacedIn
  <2>2. Edit(Current, place)
    BY <1>4 DEF ClearSession
  <2> HIDE DEF place
  <2>3. QED  BY <2>1, <2>2, EditKeeps
<1>5. ASSUME NEW S \in SUBSET Rooms \ {{}}, ConfigureRooms(S) PROVE DraftInv'
  <2> DEFINE next == [Current EXCEPT !.rooms = S, !.revision = NextRevision(Current)]
  <2>1. Save(Current, next)
    BY <1>5 DEF ConfigureRooms
  <2>2. IsSchedule(Current) /\ PlacedIn(Current.place)
    BY <1>2
  <2>3. next = [plan |-> Current.plan, accepted |-> Current.accepted, cfp |-> Current.cfp,
                revision |-> NextRevision(Current), rooms |-> S, place |-> Current.place]
    BY <2>2, NextRooms
  <2>4. /\ IsSchedule(next) /\ next.place = Current.place /\ next.plan = Current.plan
        /\ next.accepted = Current.accepted /\ next.cfp = Current.cfp
    BY <2>2, <2>3 DEF IsSchedule, PlacedIn
  <2> HIDE DEF next
  <2>5. QED  BY <1>2, <2>1, <2>4, SaveKeeps
<1>6. ASSUME AutoPlace PROVE DraftInv'
  <2>1. CASE AutoPlaced(Current) = Current.place
    <3>1. Save(Current, Current)
      BY <1>6, <2>1 DEF AutoPlace
    <3>2. QED  BY <1>2, <3>1, SaveKeeps
  <2>2. CASE AutoPlaced(Current) # Current.place
    <3>1. Edit(Current, AutoPlaced(Current))
      BY <1>6, <2>2 DEF AutoPlace
    <3>2. PlacedIn(AutoPlaced(Current))
      BY <1>2, AutoPlacedInside
    <3>3. QED  BY <3>1, <3>2, EditKeeps
  <2>3. QED  BY <2>1, <2>2
<1>7. QED  BY <1>3, <1>4, <1>5, <1>6 DEF Editing

\* what an approval checks when it is given is what it vouches for ever after
LEMMA ApprovalIsSound ==
  ASSUME DraftInv, Readable, Durable(Current.place), ~HasConflict(Current.place)
  PROVE  Sound(Current)
<1>1. Sessions # {} /\ plan # 0
  BY DEF Readable, Sessions
<1>2. Current.plan = plan /\ Current.accepted = accepted /\ Current.cfp = cfp
  BY <1>1, CurrentSchedule DEF DraftInv
<1>3. Sessions = SessionsAt(Current.plan, Current.accepted, Current.cfp)
  BY <1>2, SessionsAreUnits DEF DraftInv
<1>4. \A u : Speakers(u) = SpeakersAt(Current.plan, Current.accepted, Current.cfp, u)
  BY <1>2 DEF Speakers, SpeakersAt
<1>5. \A u \in Sessions : Current.place[u] # Nowhere
  BY DEF Durable
<1>6. ASSUME NEW u \in Sessions, NEW w \in Sessions, u # w,
             Meets(Taken(Current.place, u), Taken(Current.place, w))
      PROVE  /\ Current.place[u].room # Current.place[w].room
             /\ Speakers(u) \cap Speakers(w) = {}
  BY <1>5, <1>6 DEF HasConflict, InConflict
<1>7. QED  BY <1>1, <1>2, <1>3, <1>4, <1>5, <1>6 DEF Sound

LEMMA DraftStepKeeps ==
  ASSUME DraftInv,
         \/ ReplacePlan \/ \E p \in People : AcceptOffer(p)
         \/ \E u \in CfpUnits : AcceptSubmission(u)
         \/ Editing \/ ApproveSchedule \/ UNCHANGED vars
  PROVE  DraftInv'
<1>1. CASE ReplacePlan
  <2>1. Authorities'
    BY <1>1, SeatAssumption DEF ReplacePlan, DraftInv, Authorities
  <2>2. Drafted' /\ RowsAgree' /\ ApprovalsSound'
    BY <1>1 DEF ReplacePlan, storeVars, DraftInv, Drafted, RowsAgree, ApprovalsSound
  <2>3. QED  BY <2>1, <2>2 DEF DraftInv
<1>2. ASSUME NEW p \in People, AcceptOffer(p) PROVE DraftInv'
  <2>1. Authorities'
    BY <1>2 DEF AcceptOffer, DraftInv, Authorities
  <2>2. Drafted' /\ RowsAgree' /\ ApprovalsSound'
    BY <1>2 DEF AcceptOffer, storeVars, DraftInv, Drafted, RowsAgree, ApprovalsSound
  <2>3. QED  BY <2>1, <2>2 DEF DraftInv
<1>3. ASSUME NEW u \in CfpUnits, AcceptSubmission(u) PROVE DraftInv'
  <2>1. Authorities'
    BY <1>3 DEF AcceptSubmission, DraftInv, Authorities
  <2>2. Drafted' /\ RowsAgree' /\ ApprovalsSound'
    BY <1>3 DEF AcceptSubmission, storeVars, DraftInv, Drafted, RowsAgree, ApprovalsSound
  <2>3. QED  BY <2>1, <2>2 DEF DraftInv
<1>4. CASE Editing
  BY <1>4, EditingKeeps
<1>5. CASE ApproveSchedule
  <2>1. Sound(Current)
    BY <1>5, ApprovalIsSound DEF ApproveSchedule, Approvable
  <2>2. ApprovalsSound'
    BY <1>5, <2>1 DEF ApproveSchedule, ApprovalsSound, DraftInv
  <2>3. Authorities' /\ Drafted' /\ RowsAgree'
    BY <1>5 DEF ApproveSchedule, authorityVars, storeVars, DraftInv, Authorities, Drafted,
                RowsAgree
  <2>4. QED  BY <2>2, <2>3 DEF DraftInv
<1>6. CASE UNCHANGED vars
  BY <1>6 DEF vars, DraftInv, Authorities, Drafted, RowsAgree, ApprovalsSound
<1>7. QED  BY <1>1, <1>2, <1>3, <1>4, <1>5, <1>6

(***************************************************************************)
(* Releases                                                                *)
(***************************************************************************)
\* what the releases rest on is added to and never taken away
EvidenceStays ==
  /\ approvals \subseteq approvals' /\ plan <= plan'
  /\ \A n \in 1..plan : AcceptedOf(n) \subseteq AcceptedOf(n)'

LEMMA ReleasesStay ==
  ASSUME Authorities, OnRecord, EvidenceStays, plan' \in Nat, UNCHANGED releases
  PROVE  OnRecord'
<1>1. ASSUME NEW i \in 1..Len(releases)
      PROVE  /\ Agreed(releases[i])' /\ Historical(i)'
             /\ releases'[i].plan \in 1..plan'
  <2>1. Agreed(releases[i]) /\ Historical(i) /\ releases[i].plan \in 1..plan
    BY DEF OnRecord
  <2>2. Agreed(releases[i])'
    BY <2>1 DEF Agreed, HeldAt
  <2>3. Lineage(i)'
    BY <2>1 DEF Historical, Lineage
  <2>4. CommitmentsStand(releases[i])'
    BY <2>1 DEF Historical, CommitmentsStand, EvidenceStays
  <2>5. releases[i].schedule \in approvals'
    BY <2>1 DEF Historical, EvidenceStays
  <2>6. Historical(i)'
    BY <2>1, <2>3, <2>4, <2>5 DEF Historical
  <2>7. releases[i].plan \in 1..plan'
    BY <2>1 DEF EvidenceStays, Authorities
  <2>8. QED  BY <2>2, <2>6, <2>7
<1>2. QED  BY <1>1 DEF OnRecord

LEMMA ReplacingKeeps ==
  ASSUME Authorities, Answers, PlanReplaced
  PROVE  Answers' /\ EvidenceStays
<1>1. plan' = plan + 1 /\ plan \in Nat /\ accepted \in SUBSET People
  BY SeatAssumption DEF PlanReplaced, ReplacePlan, Authorities
<1>2. answered' = IF plan = 0 THEN answered ELSE Append(answered, accepted)
  BY DEF PlanReplaced
<1>3. Answers'
  BY <1>1, <1>2 DEF Answers
<1>4. ASSUME NEW n \in 1..plan PROVE AcceptedOf(n)' = AcceptedOf(n)
  <2>1. n # plan' /\ plan # 0 /\ AcceptedOf(n)' = answered'[n]
    BY <1>1 DEF AcceptedOf
  <2>2. answered'[n] = IF n = plan THEN accepted ELSE answered[n]
    BY <1>1, <1>2, <2>1 DEF Answers
  <2>3. QED  BY <2>1, <2>2 DEF AcceptedOf
<1>5. approvals' = approvals
  BY DEF PlanReplaced, ReplacePlan
<1>6. QED  BY <1>1, <1>3, <1>4, <1>5 DEF EvidenceStays

LEMMA AcceptingKeeps ==
  ASSUME Authorities, Answers, NEW p \in People, AcceptOffer(p), UNCHANGED publicationVars
  PROVE  Answers' /\ EvidenceStays
<1>1. UNCHANGED <<plan, answered, approvals>> /\ accepted \subseteq accepted' /\ plan \in Nat
  BY DEF AcceptOffer, publicationVars, Authorities
<1>2. QED  BY <1>1 DEF Answers, EvidenceStays, AcceptedOf

LEMMA OtherwiseKept ==
  ASSUME Authorities, Answers, UNCHANGED <<plan, accepted, answered>>,
         approvals \subseteq approvals'
  PROVE  Answers' /\ EvidenceStays
<1>1. plan \in Nat
  BY DEF Authorities
<1>2. QED  BY <1>1 DEF Answers, EvidenceStays, AcceptedOf

\* what sealing checks is what the release vouches for ever after
LEMMA SealedIsAgreed ==
  ASSUME ScheduleReady, NEW r,
         r.plan = plan, r.accepted = accepted, r.schedule = Current, r.texts = Candidate.texts
  PROVE  Agreed(r)
<1>1. r.texts = [p \in accepted |-> content[p]]
  BY DEF Candidate
<1>2. plan # 0
  BY DEF ScheduleReady, Readable, Sessions
<1>3. ASSUME NEW p \in accepted PROVE HeldAt(r, Seat[plan][p]) = Window[Seat[plan][p]]
  <2>1. Seat[plan][p] \in Sessions
    BY <1>2 DEF Sessions
  <2>2. Taken(Current.place, Seat[plan][p]) = Window[Seat[plan][p]]
    BY <2>1 DEF ScheduleReady, AtOfferedTime
  <2>3. QED  BY <2>2 DEF HeldAt, Interval, Taken
<1>4. ASSUME NEW p \in accepted, NEW q \in accepted, Seat[plan][p] = Seat[plan][q]
      PROVE  r.texts[p] = r.texts[q]
  <2>1. Seat[plan][p] \in Sessions
    BY <1>2 DEF Sessions
  <2>2. content[p] = content[q]
    BY <1>4, <2>1 DEF ScheduleReady, TextsApproved, Seated
  <2>3. QED  BY <1>1, <2>2
<1>5. QED  BY <1>3, <1>4 DEF Agreed

LEMMA SealingKeeps ==
  ASSUME DraftInv, OnRecord, SealRelease
  PROVE  OnRecord'
<1> DEFINE n == Len(releases)
           new == [plan |-> plan, accepted |-> accepted, schedule |-> Current,
                   texts |-> Candidate.texts, number |-> n + 1, supersedes |-> n]
           R == {releases[i] : i \in 1..n}
<1>1. releases' = Append(releases, new) /\ UNCHANGED <<plan, accepted, answered, approvals>>
  BY DEF SealRelease, vars
<1>2. releases \in Seq(R) /\ n \in Nat
  BY DEF OnRecord
<1> HIDE DEF new, R
<1>3. /\ Len(releases') = n + 1 /\ releases'[n + 1] = new
      /\ \A i \in 1..n : releases'[i] = releases[i]
      /\ releases' \in Seq(R \cup {new})
  BY <1>1, <1>2
<1>4. ASSUME NEW i \in 1..n
      PROVE  Agreed(releases[i])' /\ Historical(i)' /\ releases'[i].plan \in 1..plan'
  <2>1. Agreed(releases[i]) /\ Historical(i) /\ releases[i].plan \in 1..plan
    BY DEF OnRecord
  <2>2. releases'[i] = releases[i]
    BY <1>3
  <2>3. Agreed(releases[i])'
    <3>1. Agreed(releases'[i])
      BY <2>1, <2>2
    <3>2. QED  BY <3>1 DEF Agreed, HeldAt
  <2>4. Lineage(i)'
    BY <2>1, <2>2 DEF Historical, Lineage
  <2>5. CommitmentsStand(releases[i])'
    BY <1>1, <2>1, <2>2 DEF Historical, CommitmentsStand, AcceptedOf
  <2>6. Historical(i)'
    BY <1>1, <2>1, <2>2, <2>4, <2>5 DEF Historical
  <2>7. QED  BY <1>1, <2>1, <2>2, <2>3, <2>6
<1>5. plan # 0 /\ plan \in Nat /\ Sessions # {} /\ Current \in approvals
  BY DEF SealRelease, ScheduleReady, Readable, Sessions, IsCurrent, DraftInv, Authorities
<1>6. Current.plan = plan /\ Current.accepted = accepted
  BY <1>5, CurrentSchedule DEF DraftInv
<1>7. /\ new.plan = plan /\ new.accepted = accepted /\ new.schedule = Current
      /\ new.texts = Candidate.texts /\ new.number = n + 1 /\ new.supersedes = n
  BY DEF new
<1>8. ASSUME NEW i \in Nat, i = n + 1
      PROVE  Agreed(releases[i])' /\ Historical(i)' /\ releases'[i].plan \in 1..plan'
  <2>1. releases'[i] = new /\ i - 1 = n
    BY <1>2, <1>3, <1>8
  <2>2. Agreed(releases'[i])
    BY <1>7, <2>1, SealedIsAgreed DEF SealRelease
  <2>3. Agreed(releases[i])'
    BY <2>2 DEF Agreed, HeldAt
  <2>4. Historical(i)'
    BY <1>1, <1>5, <1>6, <1>7, <1>8, <2>1
       DEF Historical, Lineage, CommitmentsStand, AcceptedOf
  <2>5. QED  BY <1>1, <1>5, <1>7, <2>1, <2>3, <2>4
<1>9. \A i \in Int : i \in 1..(n + 1) <=> i \in 1..n \/ i = n + 1
  BY <1>2
<1>10. \A i \in 1..(n + 1) :
         Agreed(releases[i])' /\ Historical(i)' /\ releases'[i].plan \in 1..plan'
  BY <1>2, <1>4, <1>8
<1>11. R \cup {new} = {releases'[i] : i \in 1..(n + 1)}
  BY <1>3, <1>9 DEF R
<1>12. QED  BY <1>3, <1>10, <1>11 DEF OnRecord

(***************************************************************************)
(* The invariant and what follows from it                                  *)
(***************************************************************************)
LEMMA InitInv == InitAll => IInv
<1> SUFFICES ASSUME InitAll PROVE IInv
  OBVIOUS
<1>1. DraftInv
  <2>1. Authorities
    BY SeatAssumption DEF InitAll, Init, Authorities
  <2>2. Drafted
    BY DEF InitAll, Init, NoSchedule, NoDraft, Drafted, IsSchedule
  <2>3. RowsAgree
    BY DEF InitAll, Init, NoSchedule, NoDraft, NoRow, RowsAgree, IsRow, Agrees
  <2>4. QED  BY <2>1, <2>2, <2>3 DEF InitAll, Init, NoSchedule, ApprovalsSound, DraftInv
<1>2. Answers
  BY DEF InitAll, Init, Answers
<1>3. OnRecord
  BY DEF InitAll, OnRecord
<1>4. QED  BY <1>1, <1>2, <1>3 DEF IInv

\* the texts change nothing the invariant is about
TextStep == \/ \E p \in People, t \in Texts : SubmitVersion(p, t)
            \/ \E p \in People : RequestRevision(p) \/ ApproveVersion(p)

LEMMA NextInv == IInv /\ [NextAll]_allVars => IInv'
<1> SUFFICES ASSUME IInv, [NextAll]_allVars PROVE IInv'
  OBVIOUS
<1>1. DraftInv /\ Authorities /\ Answers /\ OnRecord
  BY DEF IInv, DraftInv
<1>2. ASSUME DraftInv' PROVE plan' \in Nat
  BY <1>2 DEF DraftInv, Authorities
<1>3. CASE PlanReplaced
  <2>1. DraftInv'
    BY <1>1, <1>3, DraftStepKeeps DEF PlanReplaced
  <2>2. UNCHANGED releases
    BY <1>3 DEF PlanReplaced
  <2>3. QED  BY <1>1, <1>2, <1>3, <2>1, <2>2, ReplacingKeeps, ReleasesStay DEF IInv
<1>4. ASSUME NEW p \in People, AcceptOffer(p), UNCHANGED publicationVars PROVE IInv'
  <2>1. DraftInv'
    BY <1>1, <1>4, DraftStepKeeps
  <2>2. UNCHANGED releases
    BY <1>4 DEF publicationVars
  <2>3. QED  BY <1>1, <1>2, <1>4, <2>1, <2>2, AcceptingKeeps, ReleasesStay DEF IInv
<1>5. CASE /\ \/ \E u \in CfpUnits : AcceptSubmission(u)
              \/ Editing \/ ApproveSchedule
           /\ UNCHANGED publicationVars
  <2>1. DraftInv'
    BY <1>1, <1>5, DraftStepKeeps
  <2>2. UNCHANGED <<plan, accepted>> /\ approvals \subseteq approvals'
    BY <1>5 DEF AcceptSubmission, Editing, MoveSession, ClearSession, ConfigureRooms, AutoPlace,
                Edit, Save, ApproveSchedule, authorityVars
  <2>3. UNCHANGED <<answered, releases>>
    BY <1>5 DEF publicationVars
  <2>4. QED  BY <1>1, <1>2, <2>1, <2>2, <2>3, OtherwiseKept, ReleasesStay DEF IInv
<1>6. CASE TextStep \/ UNCHANGED allVars
  <2>1. UNCHANGED vars /\ UNCHANGED <<answered, releases>>
    BY <1>6 DEF TextStep, SubmitVersion, RequestRevision, ApproveVersion, allVars, vars
  <2>2. DraftInv'
    BY <1>1, <2>1, DraftStepKeeps
  <2>3. UNCHANGED <<plan, accepted, approvals>>
    BY <2>1 DEF vars
  <2>4. QED  BY <1>1, <1>2, <2>1, <2>2, <2>3, OtherwiseKept, ReleasesStay DEF IInv
<1>7. CASE SealRelease
  <2>1. UNCHANGED vars /\ UNCHANGED answered
    BY <1>7 DEF SealRelease
  <2>2. DraftInv'
    BY <1>1, <2>1, DraftStepKeeps
  <2>3. UNCHANGED <<plan, accepted, approvals>>
    BY <2>1 DEF vars
  <2>4. OnRecord'
    BY <1>1, <1>7, SealingKeeps
  <2>5. QED  BY <1>1, <2>1, <2>2, <2>3, <2>4, OtherwiseKept DEF IInv
<1>8. QED
  BY <1>3, <1>4, <1>5, <1>6, <1>7 DEF NextAll, Editing, TextStep

LEMMA InvHolds == SpecAll => []IInv
BY InitInv, NextInv, PTL DEF SpecAll

\* The pointer of the draft and the rows of event_session_allocations agree as long
\* as nobody's acceptance has overtaken the draft (persistCanonicalScheduleMutation),
\* whatever plans and drafts came before.
THEOREM DraftAlwaysDurable == SpecAll => []DraftIsDurable
<1>1. IInv => DraftIsDurable
  BY DEF IInv, DraftInv, RowsAgree, Drafted, Agrees, Authorities, DraftIsDurable,
         SameContext, SameCommitments, Sessions, SessionsAt
<1>2. QED  BY <1>1, InvHolds, PTL

\* An approval that reads as current is one of a schedule that can be held as it is
\* stored now (readCurrentScheduleApproval).
THEOREM ApprovalsAlwaysHold == SpecAll => []ApprovalHolds
<1>1. IInv => ApprovalHolds
  <2> SUFFICES ASSUME IInv, NEW a \in approvals, IsCurrent(a)
               PROVE  /\ \A u \in Sessions : rows[u].status = "DRAFT" /\ a.place[u] # Nowhere
                      /\ \A u, w \in Sessions :
                           u # w /\ Meets(Interval(rows[u], u), Interval(rows[w], w)) =>
                             rows[u].room # rows[w].room /\ Speakers(u) \cap Speakers(w) = {}
    BY DEF ApprovalHolds
  <2>1. Sessions # {} /\ plan # 0 /\ a = Current /\ SameCommitments(draft)
    BY DEF IsCurrent, Readable, Sessions
  <2>2. /\ a.plan = plan /\ a.accepted = accepted /\ a.cfp = cfp
        /\ a.place = draft.place
    BY <2>1, CurrentSchedule DEF IInv, DraftInv
  <2>3. Sound(a)
    BY DEF IInv, DraftInv, ApprovalsSound
  <2>4. Sessions = SessionsAt(a.plan, a.accepted, a.cfp) /\ Sessions \subseteq Units
    BY <2>2, SessionsAreUnits DEF IInv, DraftInv
  <2>5. \A u : Speakers(u) = SpeakersAt(a.plan, a.accepted, a.cfp, u)
    BY <2>2 DEF Speakers, SpeakersAt
  <2>6. ASSUME NEW u \in Sessions
        PROVE  /\ a.place[u] # Nowhere /\ rows[u].status = "DRAFT"
               /\ rows[u].room = a.place[u].room
               /\ Interval(rows[u], u) = Taken(a.place, u)
    <3>1. a.place[u] # Nowhere
      BY <2>3, <2>4 DEF Sound
    <3>2. Agrees(rows[u], a.place[u])
      BY <2>2, <2>4 DEF IInv, DraftInv, RowsAgree
    <3>3. QED  BY <3>1, <3>2 DEF Agrees, Interval, Taken
  <2>7. ASSUME NEW u \in Sessions, NEW w \in Sessions, u # w,
               Meets(Interval(rows[u], u), Interval(rows[w], w))
        PROVE  rows[u].room # rows[w].room /\ Speakers(u) \cap Speakers(w) = {}
    <3>1. Meets(Taken(a.place, u), Taken(a.place, w))
      BY <2>6, <2>7
    <3>2. /\ a.place[u].room # a.place[w].room
          /\ Speakers(u) \cap Speakers(w) = {}
      BY <2>3, <2>4, <2>5, <2>7, <3>1 DEF Sound
    <3>3. QED  BY <2>6, <3>2
  <2>8. QED  BY <2>6, <2>7
<1>2. QED  BY <1>1, InvHolds, PTL

\* Every release the public may read says what was agreed (validatePublicReleaseForRead),
\* however far plan, offers, schedule and texts have moved since it was sealed.
THEOREM PublicAlwaysAgreed == SpecAll => []PublicIsAgreed
<1>1. IInv => PublicIsAgreed
  <2> SUFFICES ASSUME IInv, NEW i \in 1..Len(releases), Public(i)
               PROVE  LET r == releases[i] IN
                      /\ r.plan = plan /\ r.accepted = accepted
                      /\ \A p \in accepted : HeldAt(r, Seat[plan][p]) = Window[Seat[plan][p]]
                      /\ \A p, q \in accepted :
                           Seat[plan][p] = Seat[plan][q] => r.texts[p] = r.texts[q]
                      /\ \A u, w \in SessionsOf(r) :
                           u # w /\ Meets(HeldAt(r, u), HeldAt(r, w)) =>
                             /\ r.schedule.place[u].room # r.schedule.place[w].room
                             /\ SpeakersOf(r, u) \cap SpeakersOf(r, w) = {}
    BY DEF PublicIsAgreed
  <2> DEFINE r == releases[i]
             a == r.schedule
  <2>1. /\ r.plan = plan /\ r.accepted = accepted /\ a \in approvals
        /\ a.plan = r.plan /\ a.accepted = r.accepted
    BY DEF Public, LiveCommitments, Historical
  <2>2. Agreed(r) /\ Sound(a)
    BY <2>1 DEF IInv, OnRecord, DraftInv, ApprovalsSound
  <2> HIDE DEF r
  <2>3. SessionsOf(r) = SessionsAt(a.plan, a.accepted, a.cfp)
    BY <2>1, <2>2 DEF SessionsOf, SessionsAt, Sound
  <2>4. \A u : /\ HeldAt(r, u) = Taken(a.place, u)
               /\ SpeakersOf(r, u) = SpeakersAt(a.plan, a.accepted, a.cfp, u)
    BY <2>1 DEF HeldAt, Interval, Taken, SpeakersOf, SpeakersAt
  <2>5. \A u, w \in SessionsOf(r) :
          u # w /\ Meets(HeldAt(r, u), HeldAt(r, w)) =>
            /\ a.place[u].room # a.place[w].room
            /\ SpeakersOf(r, u) \cap SpeakersOf(r, w) = {}
    BY <2>2, <2>3, <2>4 DEF Sound
  <2>6. QED  BY <2>1, <2>2, <2>5 DEF Agreed, r
<1>2. QED  BY <1>1, InvHolds, PTL

\* Sealing never comes to a dead end: the release in force can always be validated
\* against its own evidence (validateReleaseSupersessionLineage), and one that would
\* only be repeated is public (sealRelease).
THEOREM SealingAlwaysSettles == SpecAll => []SealingSettles
<1>1. IInv => SealingSettles
  <2> SUFFICES ASSUME IInv, ScheduleReady, releases # <<>>
               PROVE  /\ Historical(Len(releases))
                      /\ Repeats => Public(Len(releases))
    BY DEF SealingSettles
  <2>1. Len(releases) \in 1..Len(releases)
    BY DEF IInv, OnRecord
  <2>2. Historical(Len(releases))
    BY <2>1 DEF IInv, OnRecord
  <2>3. ASSUME Repeats PROVE LiveCommitments(Latest)
    <3>1. "plan" \in DOMAIN Candidate /\ "accepted" \in DOMAIN Candidate
          /\ Candidate["plan"] = plan /\ Candidate["accepted"] = accepted
      BY DEF Candidate
    <3>2. Latest["plan"] = plan /\ Latest["accepted"] = accepted
      BY <2>3, <3>1 DEF Repeats
    <3>3. QED  BY <3>2 DEF LiveCommitments
  <2>4. QED  BY <2>2, <2>3 DEF Public, Latest
<1>2. QED  BY <1>1, InvHolds, PTL
=====
