--------------------------- MODULE ScheduleDraft ---------------------------
(***************************************************************************)
(* The schedule of one event: where and when each session of the approved  *)
(* plan takes place.  The sessions follow from three authorities that move *)
(* on their own (the plan pointer, the accepted offers, the accepted CFP   *)
(* sessions); organizers edit a draft of the placements, which is stored   *)
(* twice, as a pointer in an event log and as rows of                      *)
(* event_session_allocations, and approve exact revisions of it.           *)
(*                                                                         *)
(* Each command is one BEGIN IMMEDIATE transaction and one action; one that*)
(* throws, or answers a key it has seen, changes nothing and is no action. *)
(* A person accepts at most one seat of a plan.  Tracks, names, capacities *)
(* and the day a page shows are left out; the clock does not run backwards.*)
(* ReleasePublication puts these actions into a specification.             *)
(***************************************************************************)
EXTENDS Integers, Sequences, FiniteSets

CONSTANTS People, Units,
          UnitOrder,     \* the units by start, name and id
          NoUnit,        \* the person has no seat in the plan
          Seat,          \* plans -> person -> unit
          CfpUnits,      \* units that accepted CFP submissions bring
          CfpSpeakers,   \* CfpUnits -> their speakers
          Window,        \* Units -> <<start, end>>
          EventWindow,
          Rooms,         \* ids are numbers, as rooms are sorted by id
          DefaultRoom,   \* the room of an event that has none
          MaxRevision, MaxApprovals  \* bounds

ASSUME OrderAssumption == /\ UnitOrder \in Seq(Units)
                          /\ \A u \in Units : \E i \in 1..Len(UnitOrder) : UnitOrder[i] = u
ASSUME SeatAssumption == /\ NoUnit \notin Units
                         /\ Seat \in Seq([People -> Units \cup {NoUnit}])
                         /\ CfpUnits \subseteq Units
                         /\ CfpSpeakers \in [CfpUnits -> SUBSET People]
ASSUME WindowAssumption == /\ Window \in [Units -> Nat \X Nat]
                           /\ \A u \in Units : Window[u][1] < Window[u][2]
                           /\ EventWindow \in Nat \X Nat
ASSUME RoomAssumption == Rooms \subseteq Nat \ {0} /\ DefaultRoom \in Rooms
ASSUME BoundAssumption == MaxRevision \in Nat /\ MaxApprovals \in Nat

VARIABLES plan,      \* the event's plan pointer, 0 for null
          accepted,  \* people who accepted their offer of that plan
          cfp,       \* units with an accepted CFP submission
          rooms,     \* event_rooms
          firstRoom, \* the oldest of them, 0 if there is none
          rows,      \* event_session_allocations, per unit
          draft,     \* pointer of the newest stored draft event, or NoDraft
          named,     \* slots the stored drafts of that context place a session in
          approvals  \* pointers an approval event was stored for

authorityVars == <<plan, accepted, cfp>>
storeVars     == <<rooms, firstRoom, rows, draft, named>>
vars == <<plan, accepted, cfp, rooms, firstRoom, rows, draft, named, approvals>>

Nowhere == [slot |-> <<0, 0>>, room |-> 0]   \* no placement
NoRow   == [from |-> 0, room |-> 0, status |-> "NONE"]
NoDraft == [plan |-> 0, accepted |-> {}, cfp |-> {}, revision |-> 0,
            rooms |-> {}, place |-> [u \in Units |-> Nowhere]]

Duration(u) == Window[u][2] - Window[u][1]

(***************************************************************************)
(* The schedule as the server reads it                                     *)
(***************************************************************************)
Sessions == IF plan = 0 THEN {}
            ELSE cfp \cup {Seat[plan][p] : p \in accepted}

Speakers(u) == {p \in accepted : Seat[plan][p] = u}
               \cup (IF u \in cfp THEN CfpSpeakers[u] ELSE {})

Interval(row, u) == <<row.from, row.from + Duration(u)>>

\* the grid: every session's own time, every time a session was allocated, and
\* the event as a whole
Slots == {EventWindow} \cup {Window[u] : u \in Sessions}
         \cup {Interval(rows[u], u) : u \in {s \in Sessions : rows[s] # NoRow}}

HasDefault(u) == rows[u] = NoRow /\ firstRoom # 0 /\ u \notin cfp

\* canonicalBase: what is allocated stays where it is, what was cancelled is
\* unplaced, and once the event has rooms the rest starts in the first of them
BasePlace == [u \in Units |->
  CASE u \in Sessions /\ rows[u].status = "DRAFT" ->
         [slot |-> Interval(rows[u], u), room |-> rows[u].room]
    [] u \in Sessions /\ HasDefault(u) -> [slot |-> Window[u], room |-> firstRoom]
    [] OTHER -> Nowhere]

Base == [plan |-> plan, accepted |-> accepted, cfp |-> cfp, revision |-> 1,
         rooms |-> IF rooms = {} THEN {DefaultRoom} ELSE rooms, place |-> BasePlace]

SameCommitments(d) == d.plan = plan /\ d.accepted = accepted
SameContext(d) == SameCommitments(d) /\ d.cfp = cfp

\* latestCompatibleStoredEvent: a draft outlives new CFP sessions, which join it
\* unplaced, and nothing else
Current == IF SameCommitments(draft) THEN [draft EXCEPT !.cfp = cfp] ELSE Base

\* boundStoredEvents applies every stored draft of the context to the grid of today
Readable == /\ Sessions # {}
            /\ SameContext(draft) => named \subseteq Slots

Meets(i, j) == i[1] < j[2] /\ j[1] < i[2]
Taken(place, u) == <<place[u].slot[1], place[u].slot[1] + Duration(u)>>

\* detectScheduleConflicts
InConflict(place, u, w) ==
  /\ u # w /\ place[u] # Nowhere /\ place[w] # Nowhere
  /\ Meets(Taken(place, u), Taken(place, w))
  /\ place[u].room = place[w].room \/ Speakers(u) \cap Speakers(w) # {}
HasConflict(place) == \E u, w \in Sessions : InConflict(place, u, w)

\* scheduleAllocationsAreDurable
Durable(place) ==
  /\ {u \in Units : rows[u].status = "DRAFT"} = Sessions
  /\ \A u \in Sessions : /\ place[u] # Nowhere
                         /\ rows[u].room = place[u].room
                         /\ Interval(rows[u], u) = Taken(place, u)

(***************************************************************************)
(* The authorities                                                         *)
(***************************************************************************)
NoSchedule == /\ rooms = {} /\ firstRoom = 0
              /\ rows = [u \in Units |-> NoRow]
              /\ draft = NoDraft /\ named = {}
              /\ approvals = {}

Init == plan = 0 /\ accepted = {} /\ cfp = {} /\ NoSchedule

\* approvePlan; nobody has accepted an offer of the new plan
ReplacePlan == /\ plan < Len(Seat)
               /\ plan' = plan + 1
               /\ accepted' = {}
               /\ UNCHANGED <<cfp, approvals>> /\ UNCHANGED storeVars

AcceptOffer(p) == /\ plan # 0
                  /\ Seat[plan][p] # NoUnit
                  /\ p \notin accepted
                  /\ accepted' = accepted \cup {p}
                  /\ UNCHANGED <<plan, cfp, approvals>> /\ UNCHANGED storeVars

AcceptSubmission(u) == /\ u \in CfpUnits \ cfp
                       /\ cfp' = cfp \cup {u}
                       /\ UNCHANGED <<plan, accepted, approvals>>
                       /\ UNCHANGED storeVars

(***************************************************************************)
(* Saving a draft                                                          *)
(***************************************************************************)
\* mutant: a unit that left the schedule keeps its room
Cleared_Nothing == rows
Cleared == [u \in Units |->
  IF u \notin Sessions /\ rows[u].status = "DRAFT"
  THEN [rows[u] EXCEPT !.status = "CANCELLED"] ELSE rows[u]]

Settled(table, prior, next, u) == table[u] # NoRow /\ prior[u] = next[u]

Write(table, prior, next, u) ==
  IF u \notin Sessions \/ Settled(table, prior, next, u) THEN table
  ELSE IF next[u] # Nowhere
  THEN [table EXCEPT ![u] = [from |-> next[u].slot[1], room |-> next[u].room,
                             status |-> "DRAFT"]]
  ELSE IF table[u] # NoRow THEN [table EXCEPT ![u].status = "CANCELLED"]
  ELSE table

\* the triggers of event_session_allocations refuse a row in an occupied room,
\* also when a later write would have emptied it
DoubleBooked(table) ==
  \E u, w \in Units : /\ u # w
                      /\ table[u].status = "DRAFT" /\ table[w].status = "DRAFT"
                      /\ table[u].room = table[w].room
                      /\ Meets(Interval(table[u], u), Interval(table[w], w))

Aborted == <<>>   \* no table: the transaction is rolled back

WriteNext(table, prior, next, u) ==
  IF table = Aborted \/ DoubleBooked(Write(table, prior, next, u))
  THEN Aborted ELSE Write(table, prior, next, u)

\* persistCanonicalScheduleMutation writes the sessions one after the other
Writing(prior, next) ==
  LET table[i \in 0..Len(UnitOrder)] ==
        IF i = 0 THEN Cleared ELSE WriteNext(table[i - 1], prior, next, UnitOrder[i])
  IN table
Written(prior, next) == Writing(prior, next)[Len(UnitOrder)]

SlotsOf(d) == {d.place[u].slot : u \in {s \in Units : d.place[s] # Nowhere}}
Oldest(S) == CHOOSE r \in S : \A other \in S : r <= other

\* executeScheduleDraftCommand once the command has made the next schedule; a
\* page of another revision or another context is refused
Save(now, next) ==
  /\ Readable
  /\ rows' = Written(now.place, next.place)
  /\ rows' # Aborted
  /\ rooms' = rooms \cup next.rooms
  /\ firstRoom' = IF firstRoom = 0 THEN Oldest(next.rooms) ELSE firstRoom
  /\ draft' = next
  /\ named' = SlotsOf(next) \cup (IF SameContext(draft) THEN named ELSE {})
  /\ UNCHANGED authorityVars /\ UNCHANGED approvals

NextRevision(now) == now.revision + 1

Edit(now, place) ==
  /\ now.revision < MaxRevision
  /\ Save(now, [now EXCEPT !.place = place, !.revision = NextRevision(now)])

Fits(u, slot) == slot[1] + Duration(u) <= slot[2]

MoveSession(u, slot, room) ==
  LET now == Current IN
  /\ u \in Sessions /\ slot \in Slots /\ room \in now.rooms
  /\ Fits(u, slot)
  /\ Edit(now, [now.place EXCEPT ![u] = [slot |-> slot, room |-> room]])

\* unscheduleSession, and clearScheduleConflict, which is this for one of the
\* two sessions of a conflict
ClearSession(u) ==
  LET now == Current IN
  /\ u \in Sessions /\ now.place[u] # Nowhere
  /\ Edit(now, [now.place EXCEPT ![u] = Nowhere])

KeepsUsed(now, S) ==
  \A u \in Sessions : now.place[u] # Nowhere => now.place[u].room \in S

ConfigureRooms(S) ==
  LET now == Current IN
  /\ now.revision < MaxRevision
  /\ S # now.rooms
  /\ KeepsUsed(now, S)
  /\ Save(now, [now EXCEPT !.rooms = S, !.revision = NextRevision(now)])

Before(i, j) == i[1] < j[1] \/ (i[1] = j[1] /\ i[2] < j[2])

\* suggestConflictFreeMove tries the slots in order, and in each the rooms
Free(place, S, u) ==
  {t \in [slot : {s \in Slots : Fits(u, s)}, room : S] :
     \A w \in Sessions : ~InConflict([place EXCEPT ![u] = t], u, w)}
First(targets) == CHOOSE t \in targets : \A other \in targets :
                    \/ Before(t.slot, other.slot)
                    \/ t.slot = other.slot /\ t.room <= other.room

PlaceNext(place, S, u) ==
  IF u \in Sessions /\ place[u] = Nowhere /\ Free(place, S, u) # {}
  THEN [place EXCEPT ![u] = First(Free(place, S, u))] ELSE place

\* autoPlaceUnscheduledSessions, by priority, which is the order of the units
Placing(now) ==
  LET place[i \in 0..Len(UnitOrder)] ==
        IF i = 0 THEN now.place ELSE PlaceNext(place[i - 1], now.rooms, UnitOrder[i])
  IN place
AutoPlaced(now) == Placing(now)[Len(UnitOrder)]

\* with nothing to place, the schedule is stored as it is
AutoPlace == LET now == Current  placed == AutoPlaced(now) IN
             IF placed = now.place THEN Save(now, now) ELSE Edit(now, placed)

(***************************************************************************)
(* Approving it                                                            *)
(***************************************************************************)
\* mutant: conflicts are left to publication
Approvable_AsPlaced == Durable(Current.place)
Approvable == Durable(Current.place) /\ ~HasConflict(Current.place)

\* approveScheduleDraft: of a draft that is stored exactly as it reads, and is
\* what the organizer's page shows (the request names its fingerprint)
ApproveSchedule == /\ Cardinality(approvals) < MaxApprovals
                   /\ Readable /\ SameContext(draft)
                   /\ Approvable
                   /\ approvals' = approvals \cup {Current}
                   /\ UNCHANGED authorityVars /\ UNCHANGED storeVars

\* readCurrentScheduleApproval
IsCurrent(a) == Readable /\ SameCommitments(draft) /\ a = Current

(***************************************************************************)
(* Properties                                                              *)
(***************************************************************************)
\* The two copies of a draft agree: as long as nobody's acceptance has overtaken
\* it, the active allocations are exactly its placed sessions, where it places
\* them, whatever earlier plans and drafts have left in the table.
DraftIsDurable ==
  SameContext(draft) /\ Sessions # {} =>
    \A u \in Units :
      IF u \in Sessions /\ draft.place[u] # Nowhere
      THEN /\ rows[u].status = "DRAFT" /\ rows[u].room = draft.place[u].room
           /\ rows[u].from = draft.place[u].slot[1]
      ELSE rows[u].status # "DRAFT"

\* An approval that counts is one of a schedule that can be held now: every
\* session has a place, no room and no speaker is needed twice at once, and the
\* allocations are those that were approved.
ApprovalHolds ==
  \A a \in approvals : IsCurrent(a) =>
    /\ \A u \in Sessions : rows[u].status = "DRAFT" /\ a.place[u] # Nowhere
    /\ \A u, w \in Sessions :
         u # w /\ Meets(Interval(rows[u], u), Interval(rows[w], w)) =>
           rows[u].room # rows[w].room /\ Speakers(u) \cap Speakers(w) = {}
=============================================================================
