--------------------------- MODULE Population_proofs ---------------------------
(***************************************************************************)
(* The population is never lost and never counted twice, for any calendar,  *)
(* catalog, set of shifts and number of buildings: the invariant IInv below *)
(* is inductive and implies every invariant of Population.                  *)
(***************************************************************************)
EXTENDS Population, FiniteSetTheorems, TLAPS

Wake == [kind : Activities, due : Nat]
Citizen == [home : Nat, shift : Shifts, job : Nat \cup {None}, away : BOOLEAN,
            wake : Wake \cup {None}]
Building == [kind : Kinds, placedAt : Nat, born : Nat]
MoveIn == [building : Nat, slot : Nat, born : Nat, due : Nat]
Demand == [citizen : Nat, purpose : Purposes, to : Nat, due : Nat]
Trip == [citizen : Nat, purpose : Purposes, to : Nat, day : Nat]

\* Building ids and citizen ordinals are bounded by what has been handed out.
TypeOK ==
  /\ now \in Nat /\ phase \in {"rest", "due", "moved", "grown"}
  /\ placements \in Nat /\ nextOrdinal \in Nat \ {0}
  /\ DOMAIN buildings \subseteq 1..placements /\ buildings \in [DOMAIN buildings -> Building]
  /\ DOMAIN citizens \subseteq 1..(nextOrdinal - 1) /\ citizens \in [DOMAIN citizens -> Citizen]
  /\ rows \in [Workplaces(buildings) -> SUBSET Nat] /\ unassigned \subseteq Nat
  /\ wakes \subseteq Nat \X Nat /\ moveIns \subseteq MoveIn
  /\ demands \subseteq Demand /\ trips \subseteq Trip

\* Who lives and works where, and who looks for work.
Settled ==
  /\ \A c \in DOMAIN citizens :
       /\ citizens[c].home \in DOMAIN buildings
       /\ citizens[c].job \in DOMAIN rows \cup {None}
       /\ citizens[c].job # None => citizens[c].shift # "school"
  /\ rows = LoadedRows /\ unassigned = LoadedUnassigned

\* Every citizen without a wake has one demand or one trip, and no other has any.
Owned ==
  /\ phase # "due" => demands = {}
  /\ \A d, e \in demands : d.citizen = e.citizen => d = e
  /\ \A d, e \in trips : d.citizen = e.citizen => d = e
  /\ \A d \in demands, e \in trips : d.citizen # e.citizen
  /\ \A e \in demands \cup trips :
       e.citizen \in DOMAIN citizens /\ citizens[e.citizen].wake = None
  /\ \A c \in DOMAIN citizens :
       citizens[c].wake = None => \E e \in demands \cup trips : e.citizen = c

\* The scheduler's rows of those who are there are their wakes; a row of nobody is
\* of somebody who has left.
Queued ==
  /\ \A w \in wakes :
       /\ w[1] < nextOrdinal
       /\ w[1] \in DOMAIN citizens =>
            citizens[w[1]].wake # None /\ citizens[w[1]].wake.due = w[2]
  /\ \A c \in DOMAIN citizens : citizens[c].wake # None => <<c, citizens[c].wake.due>> \in wakes

\* A way back leads home.
Homebound == \A e \in demands \cup trips :
               e.purpose \notin Outbound => e.to = citizens[e.citizen].home

\* A routine is scheduled for the departure time of some shift.
AtDeparture(due) == \E s \in Shifts, day \in Nat : due = At(day, Departs[s])
RoutineTimes == \A c \in DOMAIN citizens :
                  citizens[c].wake # None /\ citizens[c].wake.kind = "DailyRoutine" =>
                    AtDeparture(citizens[c].wake.due)

\* Slot k of a house is filled, or its move-in is still to come.
OwnRow(b, k) == [building |-> b, slot |-> k, born |-> buildings[b].born,
                 due |-> buildings[b].placedAt + k * MoveInInterval]
SlotsFilled ==
  \A b \in DOMAIN buildings : \A k \in 0..(Residents(b) - 1) :
    OwnRow(b, k) \in moveIns \/ Cardinality(Occupants(b)) > k

\* A move-in belongs to the building that has its id or to an earlier one, and to
\* the one that has it if no other ever had.
MoveInOrigins ==
  /\ \A b \in DOMAIN buildings : b <= buildings[b].born /\ buildings[b].born <= placements
  /\ \A m \in moveIns :
       /\ m.building <= m.born /\ m.born <= placements
       /\ m.building \in DOMAIN buildings =>
            /\ m.born <= buildings[m.building].born
            /\ m.born = buildings[m.building].born =>
                 m.slot < Residents(m.building) /\ m = OwnRow(m.building, m.slot)
       /\ FirstOfItsId(m.building) => m.slot >= Cardinality(Occupants(m.building))

\* No building has more residents or workers than it has room for, and nobody is out
\* of work while a job is open.
WithinRoom ==
  /\ \A b \in DOMAIN buildings : Cardinality(Occupants(b)) <= Residents(b)
  /\ \A b \in DOMAIN rows : Cardinality(rows[b]) <= Catalog[buildings[b].kind].jobs
  /\ unassigned = {} \/ Vacancies = {}

IInv ==
  /\ TypeOK
  /\ Settled
  /\ Owned
  /\ Queued
  /\ JourneysMatchWhereabouts
  /\ Homebound
  /\ NothingOverdue
  /\ RoutineTimes
  /\ SlotsFilled
  /\ MoveInOrigins
  /\ WithinRoom

-----------------------------------------------------------------------------
(* Constants, numbers and finite sets.                                      *)

LEMMA Constants ==
  /\ DayLength \in Nat \ {0} /\ Week \in Nat \ {0} /\ StudentEvery \in Nat \ {0}
  /\ MoveInInterval \in Nat \ {0} /\ GrowthInterval \in Nat \ {0}
  /\ Dwell \in Nat /\ MaxPlacements \in Nat
  /\ "school" \in Shifts
  /\ \A s \in Shifts : Departs[s] \in 0..(DayLength - 1) /\ Returns[s] \in 0..(DayLength - 1)
  /\ \A s, r \in Shifts : Departs[s] < Returns[r]
  /\ None \notin Nat /\ None \notin Shifts
BY PopulationAssumption DEF Shifts

LEMMA KindFacts ==
  ASSUME NEW kind \in Kinds
  PROVE  /\ Catalog[kind].residents \in Nat /\ Catalog[kind].jobs \in Nat
         /\ \A p \in {0, 1} : Catalog[kind].hours[p] \in (Shifts \ {"school"}) \cup {None}
<1>1. Catalog[kind] \in [residents : Nat, jobs : Nat, school : BOOLEAN, site : BOOLEAN,
                         hours : [{0, 1} -> (Shifts \ {"school"}) \cup {None}]]
  BY PopulationAssumption
<1>2. Catalog[kind].hours \in [{0, 1} -> (Shifts \ {"school"}) \cup {None}]
  BY <1>1
<1>3. QED
  BY <1>1, <1>2

\* The day of an instant is the one that contains it.
LEMMA DayFacts ==
  ASSUME NEW t \in Nat
  PROVE  /\ Day(t) \in Nat
         /\ Day(t) * DayLength <= t
         /\ t < (Day(t) + 1) * DayLength
         /\ \A day \in Nat : day * DayLength <= t => day <= Day(t)
<1>1. DayLength \in Nat \ {0}
  BY Constants
<1>2. /\ t \div DayLength \in Nat
      /\ (t \div DayLength) * DayLength <= t
      /\ t < (t \div DayLength + 1) * DayLength
  BY <1>1
<1>3. ASSUME NEW day \in Nat, day * DayLength <= t PROVE day <= t \div DayLength
  BY <1>1, <1>3
<1>4. QED
  BY <1>2, <1>3 DEF Day

\* A nonempty set of natural numbers has a least element, and a greatest one if
\* it is bounded.
LEMMA LeastExists ==
  ASSUME NEW S \in SUBSET Nat, S # {}
  PROVE  \E b \in S : \A e \in S : b <= e
<1>1. PICK b \in S : \A e \in S : <<e, b>> \notin OpToRel(<, Nat)
  BY NatLessThanWellFounded, WFMin
<1>2. \A e \in S : ~(e < b)
  BY <1>1 DEF OpToRel
<1>3. QED
  BY <1>2

LEMMA GreatestExists ==
  ASSUME NEW n \in Nat, NEW S \in SUBSET (1..n), S # {}
  PROVE  \E b \in S : \A e \in S : e <= b
<1> DEFINE T == {k \in Nat : \A e \in S : e <= k}
<1>1. T \in SUBSET Nat /\ n \in T
  OBVIOUS
<1>2. PICK x \in T : \A k \in T : x <= k
  BY <1>1, LeastExists
<1>3. x \in S
  <2>1. SUFFICES ASSUME x \notin S PROVE FALSE
    OBVIOUS
  <2>2. x \in Nat /\ \A e \in S : e \in 1..n /\ e <= x /\ e # x
    BY <2>1
  <2>3. x - 1 \in Nat /\ \A e \in S : e <= x - 1
    <3>1. PICK e \in S : e \in 1..n /\ e <= x
      BY <2>2
    <3>2. x >= 1
      BY <2>2, <3>1
    <3>3. QED
      BY <2>2, <3>2
  <2>4. x - 1 \in T
    BY <2>3
  <2>5. x <= x - 1
    BY <1>2, <2>4
  <2>6. QED
    BY <2>2, <2>5
<1>4. QED
  BY <1>3

-----------------------------------------------------------------------------
(* The calendar.                                                            *)

\* A routine planned from now on is not in the past, and at a departure time.
LEMMA RoutineTypes ==
  ASSUME NEW s \in Shifts, NEW t \in Nat
  PROVE  /\ RoutineFromNow(s, t) \in Wake /\ NextDailyRoutine(s, Day(t)) \in Wake
         /\ RoutineFromNow(s, t).kind = "DailyRoutine"
         /\ NextDailyRoutine(s, Day(t)).kind = "DailyRoutine"
         /\ RoutineFromNow(s, t).due >= t /\ NextDailyRoutine(s, Day(t)).due >= t
         /\ AtDeparture(RoutineFromNow(s, t).due) /\ AtDeparture(NextDailyRoutine(s, Day(t)).due)
<1>1. /\ DayLength \in Nat \ {0} /\ Departs[s] \in Nat
      /\ Day(t) \in Nat /\ t < (Day(t) + 1) * DayLength
  BY Constants, DayFacts
<1>2. At(Day(t) + 1, Departs[s]) \in Nat /\ At(Day(t) + 1, Departs[s]) >= t
  BY <1>1 DEF At
<1>3. At(Day(t), Departs[s]) \in Nat
  BY <1>1 DEF At
<1>4. AtDeparture(At(Day(t) + 1, Departs[s])) /\ AtDeparture(At(Day(t), Departs[s]))
  BY <1>1 DEF AtDeparture
<1>5. NextDailyRoutine(s, Day(t)) = [kind |-> "DailyRoutine", due |-> At(Day(t) + 1, Departs[s])]
  BY DEF NextDailyRoutine, Activity
<1>6. CASE t <= At(Day(t), Departs[s])
  <2>1. RoutineFromNow(s, t) = [kind |-> "DailyRoutine", due |-> At(Day(t), Departs[s])]
    BY <1>6 DEF RoutineFromNow, Activity
  <2>2. QED
    BY <1>2, <1>3, <1>4, <1>5, <1>6, <2>1 DEF Wake, Activities
<1>7. CASE ~(t <= At(Day(t), Departs[s]))
  <2>1. RoutineFromNow(s, t) = NextDailyRoutine(s, Day(t))
    BY <1>7 DEF RoutineFromNow
  <2>2. QED
    BY <1>2, <1>4, <1>5, <2>1 DEF Wake, Activities
<1>8. QED
  BY <1>6, <1>7

\* Today's way back is an activity; after a departure time it is still ahead.
LEMMA ReturnTypes ==
  ASSUME NEW s \in Shifts, NEW t \in Nat
  PROVE  /\ PrimaryReturn(s, Day(t)) \in Wake
         /\ PrimaryReturn(s, Day(t)).kind = "PrimaryReturn"
         /\ AtDeparture(t) => PrimaryReturn(s, Day(t)).due >= t
<1>1. /\ DayLength \in Nat \ {0} /\ Returns[s] \in Nat /\ Day(t) \in Nat
      /\ \A day \in Nat : day * DayLength <= t => day <= Day(t)
      /\ \A r \in Shifts : Departs[r] \in Nat /\ Departs[r] < Returns[s]
  BY Constants, DayFacts
<1>2. At(Day(t), Returns[s]) \in Nat
  BY <1>1 DEF At
<1>3. PrimaryReturn(s, Day(t)) = [kind |-> "PrimaryReturn", due |-> At(Day(t), Returns[s])]
  BY DEF PrimaryReturn, Activity
<1>4. ASSUME AtDeparture(t) PROVE At(Day(t), Returns[s]) >= t
  <2>1. PICK r \in Shifts, day \in Nat : t = day * DayLength + Departs[r]
    BY <1>4 DEF AtDeparture, At
  <2>2. day * DayLength \in Nat
    BY <1>1
  <2>3. day <= Day(t)
    BY <1>1, <2>1, <2>2
  <2>4. day * DayLength <= Day(t) * DayLength
    BY <1>1, <2>3
  <2>5. QED
    BY <1>1, <2>1, <2>2, <2>4 DEF At
<1>5. QED
  BY <1>2, <1>3, <1>4 DEF Wake, Activities

\* Kinds of buildings that stand.
LEMMA StandingFacts ==
  ASSUME TypeOK, NEW b \in DOMAIN buildings
  PROVE  /\ b \in Nat /\ b >= 1 /\ b <= placements
         /\ buildings[b].kind \in Kinds /\ buildings[b].placedAt \in Nat /\ buildings[b].born \in Nat
         /\ Residents(b) \in Nat /\ Catalog[buildings[b].kind].jobs \in Nat
<1>1. buildings[b] \in Building /\ b \in 1..placements /\ placements \in Nat
  BY DEF TypeOK
<1>2. QED
  BY <1>1, KindFacts DEF Building, Residents

\* There are finitely many citizens, and each of them is a citizen.
LEMMA CitizenFacts ==
  ASSUME TypeOK
  PROVE  /\ IsFiniteSet(DOMAIN citizens)
         /\ \A c \in DOMAIN citizens : /\ c \in Nat /\ c < nextOrdinal /\ citizens[c] \in Citizen
                                       /\ c # nextOrdinal
         /\ nextOrdinal \notin DOMAIN citizens
<1>0. 1 \in Int /\ nextOrdinal - 1 \in Int
  BY DEF TypeOK
<1>1. IsFiniteSet(1..(nextOrdinal - 1))
  BY <1>0, FS_Interval
<1>2. QED
  BY <1>1, FS_Subset DEF TypeOK

\* The rows of a building that stands, by their slots.
LEMMA OwnRows ==
  ASSUME NEW b, NEW first
  PROVE  MoveInRows(b, buildings[b], first) = {OwnRow(b, k) : k \in first..(Residents(b) - 1)}
BY DEF MoveInRows, OwnRow, Residents

LEMMA InitIInv == Init => IInv
<1> SUFFICES ASSUME Init PROVE IInv
  OBVIOUS
<1> USE DEF Init
<1>0. InitialBuildings \in Seq(Kinds) /\ Len(InitialBuildings) \in Nat
      /\ DOMAIN InitialBuildings = 1..Len(InitialBuildings)
      /\ \A b \in DOMAIN InitialBuildings : InitialBuildings[b] \in Kinds
  BY PopulationAssumption
<1>1. /\ DOMAIN buildings = 1..placements /\ placements \in Nat
      /\ \A b \in DOMAIN buildings : /\ buildings[b].placedAt = 0 /\ buildings[b].born = b
                                     /\ buildings[b] \in Building
      /\ buildings \in [DOMAIN buildings -> Building]
  BY <1>0 DEF Building
<1>2. DOMAIN citizens = {} /\ citizens \in [DOMAIN citizens -> Citizen]
  OBVIOUS
<1>3. \A b \in DOMAIN buildings : Cardinality(Occupants(b)) = 0
  BY <1>2, FS_EmptySet DEF Occupants
<1>4. \A b \in DOMAIN buildings : Residents(b) \in Nat /\ Catalog[buildings[b].kind].jobs \in Nat
  BY <1>1, KindFacts DEF Residents, Building
<1>5. moveIns = UNION {MoveInRows(b, buildings[b], 0) : b \in DOMAIN buildings}
  BY <1>3 DEF LoadedMoveIns
<1>a. \A b : MoveInRows(b, buildings[b], 0) = {OwnRow(b, k) : k \in 0..(Residents(b) - 1)}
  BY OwnRows
<1>6. \A m : m \in moveIns <=> \E b \in DOMAIN buildings : \E k \in 0..(Residents(b) - 1) : m = OwnRow(b, k)
  BY ONLY <1>5, <1>a
<1>7. \A b \in DOMAIN buildings, k \in Nat :
        OwnRow(b, k) \in MoveIn /\ OwnRow(b, k).due >= 0 /\ OwnRow(b, k).born = b
        /\ OwnRow(b, k).building = b /\ OwnRow(b, k).slot = k
  <2>1. \A k \in Nat : k * MoveInInterval \in Nat
    BY Constants
  <2>2. QED
    BY <1>1, <2>1 DEF OwnRow, MoveIn, Building
<1>8. TypeOK
  <2>1. moveIns \subseteq MoveIn
    BY <1>4, <1>6, <1>7
  <2>2. QED
    BY <1>1, <1>2, <2>1 DEF TypeOK
<1>9. Settled
  BY <1>2 DEF Settled, LoadedRows, LoadedUnassigned
<1>10. Owned /\ Queued /\ JourneysMatchWhereabouts /\ Homebound /\ RoutineTimes
  BY <1>2 DEF Owned, Queued, JourneysMatchWhereabouts, Homebound, RoutineTimes
<1>11. NothingOverdue
  BY <1>4, <1>6, <1>7 DEF NothingOverdue
<1>12. SlotsFilled
  BY <1>6 DEF SlotsFilled
<1>13. MoveInOrigins
  BY <1>1, <1>3, <1>4, <1>6, <1>7 DEF MoveInOrigins
<1>14. WithinRoom
  <2>1. \A b \in DOMAIN rows : b \in DOMAIN buildings /\ Cardinality(rows[b]) = 0
    BY FS_EmptySet DEF Workplaces
  <2>2. QED
    BY <1>3, <1>4, <2>1 DEF WithinRoom
<1>15. QED
  BY <1>8, <1>9, <1>10, <1>11, <1>12, <1>13, <1>14 DEF IInv

-----------------------------------------------------------------------------
(* The clock, and events that concern nobody.                               *)

worldVars == <<cityVars, citizens, nextOrdinal, jobVars, wakes, moveIns>>

\* What holds of buildings, citizens and scheduler as long as they stay as they are.
LEMMA SameWorld ==
  ASSUME IInv, UNCHANGED worldVars
  PROVE  Settled' /\ Queued' /\ RoutineTimes' /\ SlotsFilled' /\ MoveInOrigins' /\ WithinRoom'
<1> USE DEF IInv, worldVars, cityVars, jobVars
<1>1. Settled'
  BY DEF Settled, LoadedRows, LoadedUnassigned, Workplaces
<1>2. Queued' /\ RoutineTimes'
  BY DEF Queued, RoutineTimes
<1>3. SlotsFilled'
  BY DEF SlotsFilled, Residents, Occupants, OwnRow
<1>4. MoveInOrigins'
  BY DEF MoveInOrigins, Residents, Occupants, OwnRow, FirstOfItsId
<1>5. WithinRoom'
  BY DEF WithinRoom, Residents, Occupants, Vacancies
<1>6. QED
  BY <1>1, <1>2, <1>3, <1>4, <1>5

\* Demands and trips that stay as they are.
LEMMA SameJourneys ==
  ASSUME IInv, UNCHANGED <<citizens, buildings, demands, trips>>
  PROVE  JourneysMatchWhereabouts' /\ Homebound'
BY DEF IInv, JourneysMatchWhereabouts, Homebound, Destinations, Schools

LEMMA SameOwners ==
  ASSUME IInv, UNCHANGED <<citizens, demands, trips>>, phase' # "due" => demands = {}
  PROVE  Owned'
BY DEF IInv, Owned

LEMMA ClockIInv ==
  ASSUME IInv,
         BeginTick \/ EndSubstep \/ EndTick \/ \E t \in (now + 1)..NextGrowth : Advance(t)
  PROVE  IInv'
<1>0. TypeOK /\ Owned /\ NothingOverdue
  BY DEF IInv
<1>1. UNCHANGED worldVars /\ UNCHANGED <<demands, trips>>
  BY DEF BeginTick, EndSubstep, EndTick, Advance, worldVars, travelVars
<1>2. /\ phase' \in {"rest", "due", "moved"}
      /\ phase' # "due" => demands = {}
  BY DEF BeginTick, EndSubstep, EndTick, Advance, Drained
<1>3. /\ now' \in Nat
      /\ now' = now \/ (Drained /\ (\A w \in wakes : now' <= w[2]) /\ \A m \in moveIns : now' <= m.due)
  BY <1>0 DEF TypeOK, BeginTick, EndSubstep, EndTick, Advance
<1>4. TypeOK'
  BY <1>0, <1>1, <1>2, <1>3 DEF TypeOK, worldVars, cityVars, jobVars, Workplaces
<1>5. Owned'
  BY <1>1, <1>2, SameOwners DEF worldVars
<1>6. NothingOverdue'
  BY <1>0, <1>1, <1>3 DEF TypeOK, NothingOverdue, Drained, worldVars, MoveIn
<1>7. QED
  BY <1>1, <1>4, <1>5, <1>6, SameWorld, SameJourneys DEF IInv, worldVars, cityVars

\* The row of a wake that is dropped is of somebody who has left.
LEMMA DropIInv ==
  ASSUME IInv, NEW w \in wakes, DropWake(w)
  PROVE  IInv'
<1>0. TypeOK /\ Queued /\ NothingOverdue
  BY DEF IInv
<1>1. /\ UNCHANGED <<now, phase, buildings, placements, citizens, nextOrdinal, rows, unassigned,
                     moveIns, demands, trips>>
      /\ wakes' = wakes \ {w} /\ phase = "due"
  BY DEF DropWake, NextWake, clockVars, cityVars, jobVars, travelVars
<1>2. w[1] \notin DOMAIN citizens
  BY <1>0 DEF Queued, DropWake
<1>3. TypeOK'
  BY <1>0, <1>1 DEF TypeOK, Workplaces
<1>4. Queued'
  <2>1. \A c \in DOMAIN citizens : \A due : <<c, due>> # w
    BY <1>2
  <2>2. QED
    BY <1>0, <1>1, <2>1 DEF Queued
<1>5. NothingOverdue'
  BY <1>0, <1>1 DEF NothingOverdue
<1>6. Settled' /\ RoutineTimes' /\ SlotsFilled' /\ MoveInOrigins' /\ WithinRoom'
  BY <1>1 DEF IInv, Settled, LoadedRows, LoadedUnassigned, Workplaces, RoutineTimes, SlotsFilled,
     MoveInOrigins, WithinRoom, Vacancies, Residents, Occupants, OwnRow, FirstOfItsId
<1>7. QED
  BY <1>1, <1>3, <1>4, <1>5, <1>6, SameJourneys, SameOwners DEF IInv

\* Every demand becomes the trip of its citizen.
LEMMA SpawnIInv ==
  ASSUME IInv, DrainAndSpawn
  PROVE  IInv'
<1>0. TypeOK /\ Owned /\ JourneysMatchWhereabouts /\ Homebound /\ NothingOverdue
  BY DEF IInv
<1> DEFINE Spawned(d) == [citizen |-> d.citizen, purpose |-> d.purpose, to |-> d.to, day |-> Day(now)]
<1>1. /\ UNCHANGED worldVars /\ UNCHANGED clockVars
      /\ demands' = {}
      /\ trips' = trips \cup {Spawned(d) : d \in demands}
  BY DEF DrainAndSpawn, worldVars
<1>2. TypeOK'
  <2>1. Day(now) \in Nat
    BY <1>0, DayFacts DEF TypeOK
  <2>2. \A d \in demands : Spawned(d) \in Trip
    BY <1>0, <2>1 DEF TypeOK, Demand, Trip
  <2>3. QED
    BY <1>0, <1>1, <2>2 DEF TypeOK, worldVars, cityVars, jobVars, clockVars, Workplaces
<1>3. \A e \in trips' : e \in trips \/ \E d \in demands :
         e.citizen = d.citizen /\ e.purpose = d.purpose /\ e.to = d.to /\ e = Spawned(d)
  BY <1>1
<1>4. ASSUME NEW d \in demands PROVE \E e \in trips' : e.citizen = d.citizen
  <2>1. Spawned(d) \in trips' /\ Spawned(d).citizen = d.citizen
    BY <1>1
  <2>2. QED
    BY <2>1
<1>5. trips \subseteq trips' /\ demands' = {} /\ UNCHANGED <<citizens, buildings, phase, now>>
  BY <1>1 DEF worldVars, cityVars, clockVars
<1> HIDE DEF Spawned
<1>6. Owned'
  <2>1. \A d, e \in trips' : d.citizen = e.citizen => d = e
    BY <1>0, <1>3 DEF Owned
  <2>2. \A e \in trips' : e.citizen \in DOMAIN citizens /\ citizens[e.citizen].wake = None
    BY <1>0, <1>3 DEF Owned
  <2>3. \A c \in DOMAIN citizens : citizens[c].wake = None => \E e \in trips' : e.citizen = c
    BY <1>0, <1>4, <1>5 DEF Owned
  <2>4. QED
    BY <1>5, <2>1, <2>2, <2>3 DEF Owned
<1>7. JourneysMatchWhereabouts'
  <2>1. \A c : Destinations(c)' = Destinations(c)
    BY <1>5 DEF Destinations, Schools
  <2>2. \A e \in trips' :
          /\ e.purpose \in (IF citizens[e.citizen].away THEN Purposes \ Outbound ELSE Outbound)
          /\ e.to \in DOMAIN buildings
          /\ e.purpose = "CommuteOutbound" => e.to \in Destinations(e.citizen)
    BY <1>0, <1>3 DEF JourneysMatchWhereabouts
  <2>3. QED
    BY <1>0, <1>5, <2>1, <2>2 DEF JourneysMatchWhereabouts
<1>8. Homebound'
  BY <1>0, <1>3, <1>5 DEF Homebound
<1>9. NothingOverdue'
  BY <1>0, <1>1 DEF NothingOverdue, worldVars, clockVars
<1>10. QED
  BY <1>1, <1>2, <1>6, <1>7, <1>8, <1>9, SameWorld DEF IInv

-----------------------------------------------------------------------------
(* Wakes.                                                                   *)

\* What homes, jobs and rooms depend on.
LEMMA SameResidents ==
  ASSUME IInv, DOMAIN citizens' = DOMAIN citizens,
         \A c \in DOMAIN citizens : /\ citizens'[c].home = citizens[c].home
                                    /\ citizens'[c].shift = citizens[c].shift
                                    /\ citizens'[c].job = citizens[c].job,
         UNCHANGED <<cityVars, jobVars, moveIns>>
  PROVE  /\ Settled' /\ SlotsFilled' /\ MoveInOrigins' /\ WithinRoom'
         /\ \A c \in DOMAIN citizens : Destinations(c)' = Destinations(c)
<1>0. Settled /\ SlotsFilled /\ MoveInOrigins /\ WithinRoom
  BY DEF IInv
<1>1. UNCHANGED <<buildings, placements, rows, unassigned, moveIns>>
  BY DEF cityVars, jobVars
<1>2. \A b : Occupants(b)' = Occupants(b)
  BY DEF Occupants
<1>3. LoadedRows' = LoadedRows /\ LoadedUnassigned' = LoadedUnassigned
  <2>1. \A b : {c \in DOMAIN citizens' : citizens'[c].job = b} = {c \in DOMAIN citizens : citizens[c].job = b}
    OBVIOUS
  <2>2. QED
    BY <1>1, <2>1 DEF LoadedRows, LoadedUnassigned, Workplaces
<1>4. Settled'
  BY <1>0, <1>1, <1>3 DEF Settled
<1>5. SlotsFilled'
  BY <1>0, <1>1, <1>2 DEF SlotsFilled, Residents, OwnRow
<1>6. MoveInOrigins'
  BY <1>0, <1>1, <1>2 DEF MoveInOrigins, Residents, OwnRow, FirstOfItsId
<1>7. WithinRoom'
  BY <1>0, <1>1, <1>2 DEF WithinRoom, Residents, Vacancies
<1>8. \A c \in DOMAIN citizens : Destinations(c)' = Destinations(c)
  BY <1>1 DEF Destinations, Schools
<1>9. QED
  BY <1>4, <1>5, <1>6, <1>7, <1>8

\* The wake that is applied is the citizen's, and it is due now.
LEMMA WakeIsNow ==
  ASSUME IInv, NEW w \in wakes, NextWake(w), w[1] \in DOMAIN citizens
  PROVE  /\ w = <<w[1], now>> /\ w[2] = now
         /\ citizens[w[1]].wake # None /\ citizens[w[1]].wake.due = now
         /\ \A e \in demands \cup trips : e.citizen # w[1]
<1>1. w \in Nat \X Nat /\ w[2] <= now /\ w[2] >= now /\ now \in Nat
  BY DEF IInv, TypeOK, NothingOverdue, NextWake, DueWakes
<1>2. citizens[w[1]].wake # None /\ citizens[w[1]].wake.due = w[2]
  BY DEF IInv, Queued
<1>3. QED
  BY <1>1, <1>2 DEF IInv, Owned

\* The effect of a new wake, or none, for one citizen.
LEMMA NewWake ==
  ASSUME TypeOK, NEW c \in DOMAIN citizens, NEW x \in Wake \cup {None},
         citizens' = [citizens EXCEPT ![c].wake = x]
  PROVE  /\ DOMAIN citizens' = DOMAIN citizens
         /\ citizens' \in [DOMAIN citizens' -> Citizen]
         /\ citizens'[c].wake = x
         /\ \A e \in DOMAIN citizens \ {c} : citizens'[e] = citizens[e]
         /\ \A e \in DOMAIN citizens : /\ citizens'[e].home = citizens[e].home
                                       /\ citizens'[e].shift = citizens[e].shift
                                       /\ citizens'[e].job = citizens[e].job
                                       /\ citizens'[e].away = citizens[e].away
BY DEF TypeOK, Citizen

\* A wake is an activity its citizen may wait for from where they are.
Fitting(c, activity) ==
  /\ activity \in Wake /\ activity.due >= now
  /\ activity.kind = "DailyRoutine" => AtDeparture(activity.due)
  /\ activity.kind \in (IF citizens[c].away THEN Activities \ {"OptionalOuting"}
                        ELSE {"DailyRoutine", "OptionalOuting"})

LEMMA AwaitIInv ==
  ASSUME IInv, NEW w \in wakes, NextWake(w), NEW c \in DOMAIN citizens, c = w[1],
         NEW activity, Fitting(c, activity), Await(c, w, activity),
         UNCHANGED <<clockVars, cityVars, nextOrdinal, jobVars, moveIns, trips>>
  PROVE  IInv'
<1>0. /\ TypeOK /\ Owned /\ Queued /\ JourneysMatchWhereabouts /\ Homebound /\ NothingOverdue
      /\ RoutineTimes
  BY DEF IInv
<1>1. /\ UNCHANGED <<now, phase, buildings, placements, nextOrdinal, rows, unassigned, moveIns,
                     demands, trips>>
      /\ wakes' = (wakes \ {w}) \cup {<<c, activity.due>>}
  BY DEF Await, clockVars, cityVars, jobVars
<1>2. activity \in Wake /\ activity # None /\ activity.due \in Nat /\ activity.due >= now
  BY NoneIsNoActivity DEF Fitting, Wake
<1>3. /\ DOMAIN citizens' = DOMAIN citizens /\ citizens' \in [DOMAIN citizens' -> Citizen]
      /\ citizens'[c].wake = activity
      /\ \A e \in DOMAIN citizens \ {c} : citizens'[e] = citizens[e]
      /\ \A e \in DOMAIN citizens : /\ citizens'[e].home = citizens[e].home
                                    /\ citizens'[e].shift = citizens[e].shift
                                    /\ citizens'[e].job = citizens[e].job
                                    /\ citizens'[e].away = citizens[e].away
  BY <1>0, <1>2, NewWake DEF Await
<1>4. /\ w = <<c, now>> /\ citizens[c].wake # None
      /\ \A e \in demands \cup trips : e.citizen # c
  BY WakeIsNow
<1>5. c \in Nat /\ c < nextOrdinal
  BY <1>0, CitizenFacts
<1>6. TypeOK'
  BY <1>0, <1>1, <1>2, <1>3, <1>5 DEF TypeOK, Workplaces
<1>7. Owned'
  BY <1>0, <1>1, <1>2, <1>3, <1>4 DEF Owned
<1>8. Queued'
  <2>1. \A v \in wakes' : v[1] < nextOrdinal
    BY <1>0, <1>1, <1>5 DEF Queued
  <2>2. \A v \in wakes \ {w} : v[1] \in DOMAIN citizens => v[1] # c
    BY <1>0, <1>4, WakeIsNow DEF Queued, TypeOK
  <2>3. \A v \in wakes' : v[1] \in DOMAIN citizens =>
           citizens'[v[1]].wake # None /\ citizens'[v[1]].wake.due = v[2]
    BY <1>0, <1>1, <1>2, <1>3, <2>2 DEF Queued
  <2>4. \A e \in DOMAIN citizens \ {c} : citizens[e].wake # None => <<e, citizens[e].wake.due>> \in wakes'
    BY <1>0, <1>1, <1>4 DEF Queued
  <2>5. QED
    BY <1>1, <1>3, <2>1, <2>3, <2>4 DEF Queued
<1>9. RoutineTimes'
  BY <1>0, <1>3 DEF RoutineTimes, Fitting
<1>10. NothingOverdue'
  BY <1>0, <1>1, <1>2 DEF NothingOverdue
<1>11. Settled' /\ SlotsFilled' /\ MoveInOrigins' /\ WithinRoom'
       /\ \A e \in DOMAIN citizens : Destinations(e)' = Destinations(e)
  BY <1>3, SameResidents
<1>12. JourneysMatchWhereabouts' /\ Homebound'
  <2>1. \A e \in demands \cup trips : e.citizen \in DOMAIN citizens
    BY <1>0 DEF Owned
  <2>2. Homebound'
    BY <1>0, <1>1, <1>3, <2>1 DEF Homebound
  <2>3. \A e \in DOMAIN citizens : citizens'[e].wake # None => citizens'[e].wake.kind \in
          (IF citizens'[e].away THEN Activities \ {"OptionalOuting"} ELSE {"DailyRoutine", "OptionalOuting"})
    BY <1>0, <1>3 DEF JourneysMatchWhereabouts, Fitting
  <2>4. \A e \in demands \cup trips :
          /\ e.purpose \in (IF citizens'[e.citizen].away THEN Purposes \ Outbound ELSE Outbound)
          /\ e.to \in DOMAIN buildings
          /\ e.purpose = "CommuteOutbound" => e.to \in Destinations(e.citizen)'
    BY <1>0, <1>3, <1>11, <2>1 DEF JourneysMatchWhereabouts
  <2>5. QED
    BY <1>1, <1>3, <2>2, <2>3, <2>4 DEF JourneysMatchWhereabouts
<1>13. QED
  BY <1>6, <1>7, <1>8, <1>9, <1>10, <1>11, <1>12 DEF IInv

\* A citizen who leaves has the demand and no wake.
LEMMA LeaveIInv ==
  ASSUME IInv, NEW w \in wakes, NextWake(w), NEW c \in DOMAIN citizens, c = w[1],
         NEW purpose \in Purposes, NEW to \in DOMAIN buildings, Leave(c, w, purpose, to),
         purpose \in (IF citizens[c].away THEN Purposes \ Outbound ELSE Outbound),
         purpose = "CommuteOutbound" => to \in Destinations(c),
         purpose \notin Outbound => to = citizens[c].home,
         UNCHANGED <<clockVars, cityVars, nextOrdinal, jobVars, moveIns, trips>>
  PROVE  IInv'
<1>0. /\ TypeOK /\ Owned /\ Queued /\ JourneysMatchWhereabouts /\ Homebound /\ NothingOverdue
      /\ RoutineTimes
  BY DEF IInv
<1> DEFINE demand == [citizen |-> c, purpose |-> purpose, to |-> to, due |-> w[2]]
<1>1. /\ UNCHANGED <<now, phase, buildings, placements, nextOrdinal, rows, unassigned, moveIns, trips>>
      /\ wakes' = wakes \ {w} /\ demands' = demands \cup {demand} /\ phase = "due"
  BY DEF Leave, NextWake, clockVars, cityVars, jobVars
<1>2. /\ DOMAIN citizens' = DOMAIN citizens /\ citizens' \in [DOMAIN citizens' -> Citizen]
      /\ citizens'[c].wake = None
      /\ \A e \in DOMAIN citizens \ {c} : citizens'[e] = citizens[e]
      /\ \A e \in DOMAIN citizens : /\ citizens'[e].home = citizens[e].home
                                    /\ citizens'[e].shift = citizens[e].shift
                                    /\ citizens'[e].job = citizens[e].job
                                    /\ citizens'[e].away = citizens[e].away
  BY <1>0, NewWake DEF Leave
<1>3. /\ w = <<c, now>> /\ w[2] = now /\ citizens[c].wake # None
      /\ \A e \in demands \cup trips : e.citizen # c
  BY WakeIsNow
<1>4. c \in Nat /\ c < nextOrdinal
  BY <1>0, CitizenFacts
<1>5. /\ demand.citizen = c /\ demand.purpose = purpose /\ demand.to = to /\ demand.due = now
      /\ demand \in Demand
  BY <1>0, <1>3, <1>4, StandingFacts DEF TypeOK, Demand
<1> HIDE DEF demand
<1>6. TypeOK'
  BY <1>0, <1>1, <1>2, <1>5 DEF TypeOK, Workplaces
<1>7. Owned'
  BY <1>0, <1>1, <1>2, <1>3, <1>5 DEF Owned
<1>8. Queued'
  <2>1. \A v \in wakes \ {w} : v[1] \in DOMAIN citizens => v[1] # c
    BY <1>0, <1>3, WakeIsNow DEF Queued, TypeOK
  <2>2. \A e \in DOMAIN citizens \ {c} : citizens[e].wake # None => <<e, citizens[e].wake.due>> \in wakes'
    BY <1>0, <1>1, <1>3 DEF Queued
  <2>3. QED
    BY <1>0, <1>1, <1>2, <2>1, <2>2 DEF Queued
<1>9. RoutineTimes'
  BY <1>0, <1>2 DEF RoutineTimes
<1>10. NothingOverdue'
  BY <1>0, <1>1, <1>5 DEF NothingOverdue
<1>11. Settled' /\ SlotsFilled' /\ MoveInOrigins' /\ WithinRoom'
       /\ \A e \in DOMAIN citizens : Destinations(e)' = Destinations(e)
  BY <1>2, SameResidents
<1>12. JourneysMatchWhereabouts' /\ Homebound'
  <2>1. \A e \in demands' \cup trips' : e.citizen \in DOMAIN citizens
    BY <1>0, <1>1, <1>5 DEF Owned
  <2>2. Homebound'
    BY <1>0, <1>1, <1>2, <1>5, <2>1 DEF Homebound
  <2>3. \A e \in DOMAIN citizens : citizens'[e].wake # None => citizens'[e].wake.kind \in
          (IF citizens'[e].away THEN Activities \ {"OptionalOuting"} ELSE {"DailyRoutine", "OptionalOuting"})
    BY <1>0, <1>2 DEF JourneysMatchWhereabouts
  <2>4. \A e \in demands' \cup trips' :
          /\ e.purpose \in (IF citizens'[e.citizen].away THEN Purposes \ Outbound ELSE Outbound)
          /\ e.to \in DOMAIN buildings
          /\ e.purpose = "CommuteOutbound" => e.to \in Destinations(e.citizen)'
    BY <1>0, <1>1, <1>2, <1>5, <1>11, <2>1 DEF JourneysMatchWhereabouts
  <2>5. QED
    BY <1>1, <1>2, <2>2, <2>3, <2>4 DEF JourneysMatchWhereabouts
<1>13. QED
  BY <1>6, <1>7, <1>8, <1>9, <1>10, <1>11, <1>12 DEF IInv

\* The outing of a day off starts at some time (optional_departure_minute).
OutingTimes == \A c, day \in Nat : OutingDepart(c, day) \in Nat

\* Places to go to are buildings that stand.
LEMMA DestinationsStand ==
  ASSUME IInv, NEW c \in DOMAIN citizens
  PROVE  Destinations(c) \subseteq DOMAIN buildings /\ Sites \subseteq DOMAIN buildings
<1>1. DOMAIN rows = Workplaces(buildings)
  BY DEF IInv, TypeOK
<1>2. citizens[c].job \in Workplaces(buildings) \cup {None}
  BY <1>1 DEF IInv, Settled
<1>3. QED
  BY <1>2 DEF Destinations, Schools, Workplaces, Sites

LEMMA DayOffIInv ==
  ASSUME OutingTimes, IInv, NEW w \in wakes, NextWake(w), NEW c \in DOMAIN citizens, c = w[1],
         ~citizens[c].away, DayOff(c, w),
         UNCHANGED <<clockVars, cityVars, nextOrdinal, jobVars, moveIns, trips>>
  PROVE  IInv'
<1>1. c \in Nat /\ citizens[c].shift \in Shifts /\ now \in Nat /\ w[2] = now
  BY CitizenFacts, WakeIsNow DEF IInv, TypeOK, Citizen
<1> DEFINE today == Day(now)
           outing == At(today, OutingDepart(c, today))
<1>2. today \in Nat /\ DayLength \in Nat
  BY <1>1, DayFacts, Constants
<1>3. outing \in Nat
  <2>1. \A day \in Nat : OutingDepart(c, day) \in Nat
    BY <1>1 DEF OutingTimes
  <2>2. OutingDepart(c, today) \in Nat
    BY <1>2, <2>1
  <2>3. \A day, minute \in Nat : At(day, minute) \in Nat
    BY <1>2 DEF At
  <2>4. QED
    BY <1>2, <2>2, <2>3
<1>4. CASE outing > now /\ Await(c, w, Activity("OptionalOuting", outing))
  <2>1. Fitting(c, Activity("OptionalOuting", outing))
    BY <1>1, <1>3, <1>4 DEF Fitting, Activity, Wake, Activities
  <2>2. QED
    BY <1>4, <2>1, AwaitIInv
<1>5. CASE Await(c, w, NextDailyRoutine(citizens[c].shift, today))
  <2>1. Fitting(c, NextDailyRoutine(citizens[c].shift, today))
    BY <1>1, RoutineTypes DEF Fitting
  <2>2. QED
    BY <1>5, <2>1, AwaitIInv
<1>6. CASE \E b \in Sites : Leave(c, w, "OptionalOutbound", b)
  BY <1>6, LeaveIInv, DestinationsStand DEF Purposes, Outbound
<1>7. QED
  BY <1>1, <1>4, <1>5, <1>6 DEF DayOff

LEMMA RoutineIInv ==
  ASSUME OutingTimes, IInv, NEW w \in wakes, NextWake(w), NEW c \in DOMAIN citizens, c = w[1],
         citizens[c].wake.kind \in {"DailyRoutine", "OptionalOuting"}, ApplyDailyRoutine(c, w),
         UNCHANGED <<clockVars, cityVars, nextOrdinal, jobVars, moveIns, trips>>
  PROVE  IInv'
<1>1. /\ c \in Nat /\ citizens[c].shift \in Shifts /\ citizens[c].away \in BOOLEAN
      /\ now \in Nat /\ w[2] = now
      /\ citizens[c].wake # None /\ citizens[c].wake.due = now
  BY CitizenFacts, WakeIsNow DEF IInv, TypeOK, Citizen
<1>2. CASE citizens[c].away
  <2>1. Await(c, w, PrimaryReturn(citizens[c].shift, Day(now)))
    BY <1>1, <1>2 DEF ApplyDailyRoutine
  <2>2. citizens[c].wake.kind = "DailyRoutine"
    BY <1>1, <1>2 DEF IInv, JourneysMatchWhereabouts
  <2>3. AtDeparture(now)
    BY <1>1, <2>2 DEF IInv, RoutineTimes
  <2>4. Fitting(c, PrimaryReturn(citizens[c].shift, Day(now)))
    BY <1>1, <1>2, <2>3, ReturnTypes DEF Fitting, Activities
  <2>5. QED
    BY <2>1, <2>4, AwaitIInv
<1>3. CASE ~citizens[c].away /\ DayOff(c, w)
  BY <1>3, DayOffIInv
<1>4. CASE ~citizens[c].away /\ Await(c, w, NextDailyRoutine(citizens[c].shift, Day(now)))
  <2>1. Fitting(c, NextDailyRoutine(citizens[c].shift, Day(now)))
    BY <1>1, <1>4, RoutineTypes DEF Fitting
  <2>2. QED
    BY <1>4, <2>1, AwaitIInv
<1>5. CASE ~citizens[c].away /\ \E b \in Destinations(c) : Leave(c, w, "CommuteOutbound", b)
  BY <1>5, LeaveIInv, DestinationsStand DEF Purposes, Outbound
<1>6. QED
  BY <1>1, <1>2, <1>3, <1>4, <1>5 DEF ApplyDailyRoutine

LEMMA ActivityIInv ==
  ASSUME OutingTimes, IInv, NEW w \in wakes, ApplyActivity(w)
  PROVE  IInv'
<1> DEFINE c == w[1]
<1>1. /\ NextWake(w) /\ c \in DOMAIN citizens /\ citizens[c].wake # None
      /\ UNCHANGED <<clockVars, cityVars, nextOrdinal, jobVars, moveIns, trips>>
  BY DEF ApplyActivity
<1>2. citizens[c].wake.kind \in Activities /\ citizens[c].away \in BOOLEAN
      /\ citizens[c].home \in DOMAIN buildings
  BY <1>1, CitizenFacts DEF IInv, Settled, Citizen, Wake
<1>3. CASE citizens[c].wake.kind \in {"DailyRoutine", "OptionalOuting"}
  <2>1. ApplyDailyRoutine(c, w)
    BY <1>3 DEF ApplyActivity
  <2>2. QED
    BY <1>1, <1>3, <2>1, RoutineIInv
<1>4. CASE citizens[c].wake.kind \in {"PrimaryReturn", "OptionalReturn"}
  <2>1. citizens[c].away
    BY <1>1, <1>2, <1>4 DEF IInv, JourneysMatchWhereabouts
  <2>2. \/ Leave(c, w, "CommuteReturn", citizens[c].home)
        \/ Leave(c, w, "OptionalReturn", citizens[c].home)
    BY <1>4 DEF ApplyActivity
  <2>3. QED
    BY <1>1, <1>2, <2>1, <2>2, LeaveIInv DEF Purposes, Outbound
<1>5. QED
  BY <1>2, <1>3, <1>4 DEF Activities

-----------------------------------------------------------------------------
(* The end of a trip.                                                       *)

LEMMA ReturnDueFits ==
  ASSUME NEW s \in Shifts, now \in Nat
  PROVE  ReturnDue(s) \in Wake /\ ReturnDue(s).kind = "PrimaryReturn" /\ ReturnDue(s).due >= now
<1>1. PrimaryReturn(s, Day(now)) \in Wake /\ PrimaryReturn(s, Day(now)).kind = "PrimaryReturn"
  BY ReturnTypes
<1>2. CASE PrimaryReturn(s, Day(now)).due < now
  <2>1. ReturnDue(s) = [kind |-> "PrimaryReturn", due |-> now]
    BY <1>2 DEF ReturnDue, Activity
  <2>2. QED
    BY <2>1 DEF Wake, Activities
<1>3. CASE ~(PrimaryReturn(s, Day(now)).due < now)
  <2>1. ReturnDue(s) = PrimaryReturn(s, Day(now))
    BY <1>3 DEF ReturnDue
  <2>2. QED
    BY <1>1, <1>3, <2>1 DEF Wake
<1>4. QED
  BY <1>2, <1>3

\* What is scheduled after a trip fits where the trip has left its traveller.
LEMMA AfterTripFits ==
  ASSUME IInv, NEW trip \in trips, NEW completed \in BOOLEAN
  PROVE  LET next == AfterTrip(trip, completed)
             away == IF completed THEN trip.purpose \in Outbound ELSE citizens[trip.citizen].away
         IN  /\ next \in Wake /\ next.due >= now
             /\ next.kind = "DailyRoutine" => AtDeparture(next.due)
             /\ next.kind \in (IF away THEN Activities \ {"OptionalOuting"}
                               ELSE {"DailyRoutine", "OptionalOuting"})
<1> DEFINE c == trip.citizen
           shift == citizens[c].shift
           next == AfterTrip(trip, completed)
           sameDay == trip.day = Day(now)
<1>1. /\ c \in DOMAIN citizens /\ shift \in Shifts /\ now \in Nat /\ trip.purpose \in Purposes
      /\ citizens[c].away \in BOOLEAN /\ citizens[c].away <=> trip.purpose \notin Outbound
  <2>1. c \in DOMAIN citizens /\ now \in Nat /\ trip.purpose \in Purposes
    BY DEF IInv, TypeOK, Owned, Trip
  <2>2. shift \in Shifts /\ citizens[c].away \in BOOLEAN
    BY <2>1, CitizenFacts DEF IInv, Citizen
  <2>3. trip.purpose \in (IF citizens[c].away THEN Purposes \ Outbound ELSE Outbound)
    BY DEF IInv, JourneysMatchWhereabouts
  <2>4. QED
    BY <2>1, <2>2, <2>3
<1> DEFINE Routine(a) == /\ a \in Wake /\ a.due >= now /\ a.kind = "DailyRoutine" /\ AtDeparture(a.due)
           Back(a) == /\ a \in Wake /\ a.due >= now /\ a.kind \in {"PrimaryReturn", "OptionalReturn"}
<1>2. Routine(RoutineFromNow(shift, now)) /\ Routine(NextDailyRoutine(shift, Day(now)))
  BY <1>1, RoutineTypes
<1>3. Back(ReturnDue(shift))
  BY <1>1, ReturnDueFits
<1>4. Back(Activity("OptionalReturn", now + Dwell))
  BY <1>1, Constants DEF Activity, Wake, Activities
<1>5. CASE trip.purpose = "CommuteOutbound"
  <2>1. next = IF completed /\ sameDay THEN ReturnDue(shift) ELSE RoutineFromNow(shift, now)
    BY <1>5 DEF AfterTrip
  <2>2. Routine(next) \/ (Back(next) /\ completed)
    BY <1>2, <1>3, <2>1
  <2>3. QED
    BY <1>1, <1>5, <2>2 DEF Outbound, Activities
<1>6. CASE trip.purpose = "CommuteReturn"
  <2>1. next = IF sameDay THEN NextDailyRoutine(shift, Day(now))
               ELSE IF completed THEN RoutineFromNow(shift, now) ELSE ReturnDue(shift)
    BY <1>6 DEF AfterTrip
  <2>2. Routine(next) \/ (Back(next) /\ ~completed)
    BY <1>2, <1>3, <2>1
  <2>3. QED
    BY <1>1, <1>6, <2>2 DEF Outbound, Activities
<1>7. CASE trip.purpose = "OptionalOutbound"
  <2>1. next = IF completed THEN Activity("OptionalReturn", now + Dwell) ELSE RoutineFromNow(shift, now)
    BY <1>7 DEF AfterTrip
  <2>2. Routine(next) \/ (Back(next) /\ completed)
    BY <1>2, <1>4, <2>1
  <2>3. QED
    BY <1>1, <1>7, <2>2 DEF Outbound, Activities
<1>8. CASE trip.purpose = "OptionalReturn"
  <2>1. next = IF completed /\ ~sameDay THEN RoutineFromNow(shift, now)
               ELSE NextDailyRoutine(shift, Day(now))
    BY <1>8 DEF AfterTrip
  <2>2. Routine(next)
    BY <1>2, <2>1
  <2>3. QED
    BY <1>1, <1>8, <2>2 DEF Outbound, Activities
<1>9. QED
  BY <1>1, <1>5, <1>6, <1>7, <1>8 DEF Purposes, Outbound

LEMMA ResolveIInv ==
  ASSUME IInv, NEW trip \in trips, NEW completed \in BOOLEAN, Resolve(trip, completed)
  PROVE  IInv'
<1>0. /\ TypeOK /\ Owned /\ Queued /\ JourneysMatchWhereabouts /\ Homebound /\ NothingOverdue
      /\ RoutineTimes
  BY DEF IInv
<1> DEFINE c == trip.citizen
<1>1. PICK next, away :
        /\ next = AfterTrip(trip, completed)
        /\ away = IF completed THEN trip.purpose \in Outbound ELSE citizens[c].away
  OBVIOUS
<1>2. /\ c \in DOMAIN citizens /\ citizens[c].wake = None /\ citizens[c].away \in BOOLEAN
      /\ c \in Nat /\ c < nextOrdinal
  BY <1>0, CitizenFacts DEF Owned, Citizen
<1>3. /\ next \in Wake /\ next.due \in Nat /\ next.due >= now /\ next # None /\ away \in BOOLEAN
      /\ next.kind = "DailyRoutine" => AtDeparture(next.due)
      /\ next.kind \in (IF away THEN Activities \ {"OptionalOuting"}
                        ELSE {"DailyRoutine", "OptionalOuting"})
  <2>1. away \in BOOLEAN
    <3>1. CASE completed = TRUE
      BY <1>1, <3>1
    <3>2. CASE completed = FALSE
      BY <1>1, <1>2, <3>2
    <3>3. QED
      BY <3>1, <3>2
  <2>2. /\ next \in Wake /\ next.due >= now
        /\ next.kind = "DailyRoutine" => AtDeparture(next.due)
        /\ next.kind \in (IF away THEN Activities \ {"OptionalOuting"}
                          ELSE {"DailyRoutine", "OptionalOuting"})
    BY ONLY <1>1, IInv, AfterTripFits
  <2>3. next.due \in Nat /\ next # None
    BY <2>2, NoneIsNoActivity DEF Wake
  <2>4. QED
    BY <2>1, <2>2, <2>3
<1>4. /\ UNCHANGED <<now, phase, buildings, placements, nextOrdinal, rows, unassigned, moveIns, demands>>
      /\ trips' = trips \ {trip} /\ phase = "moved"
  BY DEF Resolve, clockVars, cityVars, jobVars
<1>5. /\ DOMAIN citizens' = DOMAIN citizens /\ citizens' \in [DOMAIN citizens' -> Citizen]
      /\ citizens'[c].wake = next /\ citizens'[c].away = away
      /\ \A e \in DOMAIN citizens \ {c} : citizens'[e] = citizens[e]
      /\ \A e \in DOMAIN citizens : /\ citizens'[e].home = citizens[e].home
                                    /\ citizens'[e].shift = citizens[e].shift
                                    /\ citizens'[e].job = citizens[e].job
  <2>1. citizens' = [citizens EXCEPT ![c] = [citizens[c] EXCEPT !.wake = next, !.away = away]]
    BY <1>0, <1>1, <1>2 DEF Resolve, TypeOK, Citizen
  <2>2. citizens[c] \in Citizen
    BY <1>0, <1>2 DEF TypeOK
  <2>3. [citizens[c] EXCEPT !.wake = next, !.away = away] \in Citizen
    BY <1>3, <2>2 DEF Citizen
  <2>4. QED
    BY <1>0, <1>2, <2>1, <2>2, <2>3 DEF TypeOK, Citizen
<1>6. wakes' = wakes \cup {<<c, next.due>>}
  <2>1. {e \in DOMAIN [e \in {c} |-> next] \cap DOMAIN citizens : citizens[e].wake # None} = {}
    BY <1>2
  <2>2. QED
    BY <1>1, <2>1 DEF Resolve, Rescheduled
<1>7. \A v \in wakes : v[1] # c
  BY <1>0, <1>2 DEF Queued
<1>8. \A e \in trips' : e \in trips /\ e.citizen # c /\ e.citizen \in DOMAIN citizens
  BY <1>0, <1>4 DEF Owned
<1>9. demands = {} /\ demands' = {}
  BY <1>0, <1>4 DEF Owned
<1>10. TypeOK'
  BY <1>0, <1>2, <1>3, <1>4, <1>5, <1>6 DEF TypeOK, Workplaces
<1>11. Owned'
  BY <1>0, <1>3, <1>4, <1>5, <1>8, <1>9 DEF Owned
<1>12. Queued'
  BY <1>0, <1>2, <1>3, <1>4, <1>5, <1>6, <1>7 DEF Queued
<1>13. RoutineTimes'
  BY <1>0, <1>3, <1>5 DEF RoutineTimes
<1>14. NothingOverdue'
  BY <1>0, <1>3, <1>4, <1>6 DEF NothingOverdue
<1>15. Settled' /\ SlotsFilled' /\ MoveInOrigins' /\ WithinRoom'
       /\ \A e \in DOMAIN citizens : Destinations(e)' = Destinations(e)
  BY <1>4, <1>5, SameResidents DEF cityVars, jobVars
<1>16. JourneysMatchWhereabouts' /\ Homebound'
  <2>1. Homebound'
    BY <1>0, <1>4, <1>5, <1>8, <1>9 DEF Homebound
  <2>2. \A e \in DOMAIN citizens : citizens'[e].wake # None => citizens'[e].wake.kind \in
          (IF citizens'[e].away THEN Activities \ {"OptionalOuting"} ELSE {"DailyRoutine", "OptionalOuting"})
    BY <1>0, <1>3, <1>5 DEF JourneysMatchWhereabouts
  <2>3. \A e \in trips' :
          /\ e.purpose \in (IF citizens'[e.citizen].away THEN Purposes \ Outbound ELSE Outbound)
          /\ e.to \in DOMAIN buildings
          /\ e.purpose = "CommuteOutbound" => e.to \in Destinations(e.citizen)'
    BY <1>0, <1>5, <1>8, <1>15 DEF JourneysMatchWhereabouts
  <2>4. QED
    BY <1>4, <1>5, <1>9, <2>1, <2>2, <2>3 DEF JourneysMatchWhereabouts
<1>17. QED
  BY <1>10, <1>11, <1>12, <1>13, <1>14, <1>15, <1>16 DEF IInv

-----------------------------------------------------------------------------
(* Saving and loading.                                                      *)

LEMMA OccupantCount ==
  ASSUME TypeOK, NEW b
  PROVE  IsFiniteSet(Occupants(b)) /\ Cardinality(Occupants(b)) \in Nat
BY CitizenFacts, FS_Subset, FS_CardinalityType DEF Occupants

\* The saved ordinal is never behind the citizens.
LEMMA OrdinalLoads ==
  ASSUME TypeOK
  PROVE  LoadedOrdinal = nextOrdinal
<1>1. nextOrdinal \in Nat \ {0} /\ nextOrdinal - 1 \in Nat /\ DOMAIN citizens \subseteq 1..(nextOrdinal - 1)
  BY DEF TypeOK
<1>2. DerivedOrdinal \in Nat /\ DerivedOrdinal <= nextOrdinal
  <2>1. CASE DOMAIN citizens = {}
    BY <1>1, <2>1 DEF DerivedOrdinal
  <2>2. CASE DOMAIN citizens # {}
    <3>1. \E c \in DOMAIN citizens : \A e \in DOMAIN citizens : e <= c
      BY <1>1, <2>2, GreatestExists
    <3>2. PICK c \in DOMAIN citizens : DerivedOrdinal = 1 + c
      BY <2>2, <3>1 DEF DerivedOrdinal
    <3>3. QED
      BY <1>1, <3>2
  <2>3. QED
    BY <2>1, <2>2
<1>3. LoadedOrdinal \in {nextOrdinal, DerivedOrdinal}
      /\ LoadedOrdinal >= nextOrdinal /\ LoadedOrdinal >= DerivedOrdinal
  BY <1>1, <1>2 DEF LoadedOrdinal
<1>4. QED
  BY <1>1, <1>2, <1>3

\* What a load derives is part of what the running city has.
LEMMA LoadDerives ==
  ASSUME IInv, demands = {}
  PROVE  /\ \A c \in DOMAIN citizens : Travelling(c) <=> citizens[c].wake = None
         /\ \A w : w \in LoadedWakes <=> w \in wakes /\ w[1] \in DOMAIN citizens
         /\ \A w \in LoadedWakes : ~Travelling(w[1])
         /\ \A m : m \in LoadedMoveIns <=> \E b \in DOMAIN buildings :
              \E k \in Cardinality(Occupants(b))..(Residents(b) - 1) : m = OwnRow(b, k)
         /\ LoadedMoveIns \subseteq moveIns
<1>0. TypeOK /\ Owned /\ Queued /\ SlotsFilled
  BY DEF IInv
<1>1. \A c \in DOMAIN citizens : Travelling(c) <=> citizens[c].wake = None
  BY <1>0 DEF Owned, Travelling
<1>2. \A w : w \in LoadedWakes <=> w \in wakes /\ w[1] \in DOMAIN citizens
  <2>1. ASSUME NEW w \in LoadedWakes PROVE w \in wakes /\ w[1] \in DOMAIN citizens
    <3>1. PICK c \in DOMAIN citizens : citizens[c].wake # None /\ w = <<c, citizens[c].wake.due>>
      BY DEF LoadedWakes
    <3>2. QED
      BY <1>0, <3>1 DEF Queued
  <2>2. ASSUME NEW w \in wakes, w[1] \in DOMAIN citizens PROVE w \in LoadedWakes
    <3>1. w = <<w[1], w[2]>> /\ citizens[w[1]].wake # None /\ citizens[w[1]].wake.due = w[2]
      BY <1>0, <2>2 DEF Queued, TypeOK
    <3>2. QED
      BY <2>2, <3>1 DEF LoadedWakes
  <2>3. QED
    BY <2>1, <2>2
<1>3. \A w \in LoadedWakes : ~Travelling(w[1])
  <2>1. ASSUME NEW w \in LoadedWakes PROVE w[1] \in DOMAIN citizens /\ citizens[w[1]].wake # None
    BY DEF LoadedWakes
  <2>2. QED
    BY <1>1, <2>1
<1>4. \A m : m \in LoadedMoveIns <=> \E b \in DOMAIN buildings :
         \E k \in Cardinality(Occupants(b))..(Residents(b) - 1) : m = OwnRow(b, k)
  <2>1. \A b : MoveInRows(b, buildings[b], Cardinality(Occupants(b)))
                 = {OwnRow(b, k) : k \in Cardinality(Occupants(b))..(Residents(b) - 1)}
    BY OwnRows
  <2>2. QED
    BY ONLY <2>1 DEF LoadedMoveIns
<1>5. LoadedMoveIns \subseteq moveIns
  <2>1. ASSUME NEW b \in DOMAIN buildings, NEW k \in Cardinality(Occupants(b))..(Residents(b) - 1)
        PROVE  OwnRow(b, k) \in moveIns
    <3>1. Cardinality(Occupants(b)) \in Nat /\ Residents(b) \in Nat
      BY <1>0, OccupantCount, StandingFacts
    <3>2. k \in 0..(Residents(b) - 1) /\ ~(Cardinality(Occupants(b)) > k)
      BY <3>1
    <3>3. QED
      BY <1>0, <3>2 DEF SlotsFilled
  <2>2. QED
    BY <1>4, <2>1
<1>6. QED
  BY <1>1, <1>2, <1>3, <1>4, <1>5

LEMMA ReloadIInv ==
  ASSUME IInv, Reload
  PROVE  IInv'
<1>0. /\ TypeOK /\ Settled /\ Owned /\ Queued /\ NothingOverdue /\ SlotsFilled /\ MoveInOrigins
  BY DEF IInv
<1>1. demands = {} /\ demands' = demands
  BY <1>0 DEF Owned, Reload
<1>2. citizens' = citizens
  <2>1. \A c \in DOMAIN citizens :
          [citizens[c] EXCEPT !.wake = IF Travelling(c) THEN None ELSE citizens[c].wake] = citizens[c]
    BY <1>0, <1>1, LoadDerives, CitizenFacts DEF Citizen
  <2>2. QED
    BY <1>0, <2>1 DEF Reload, TypeOK
<1>3. nextOrdinal' = nextOrdinal /\ rows' = rows /\ unassigned' = unassigned
  BY <1>0, OrdinalLoads DEF Settled, Reload
<1>4. UNCHANGED <<now, phase, buildings, placements, trips>>
  BY DEF Reload, clockVars, cityVars
<1>5. /\ \A w : w \in wakes' <=> w \in wakes /\ w[1] \in DOMAIN citizens
      /\ \A m : m \in moveIns' <=> \E b \in DOMAIN buildings :
           \E k \in Cardinality(Occupants(b))..(Residents(b) - 1) : m = OwnRow(b, k)
      /\ moveIns' \subseteq moveIns
  BY <1>1, LoadDerives DEF Reload
<1>6. TypeOK'
  BY <1>0, <1>1, <1>2, <1>3, <1>4, <1>5 DEF TypeOK, Workplaces
<1>7. Settled' /\ WithinRoom' /\ RoutineTimes'
  BY <1>2, <1>3, <1>4 DEF IInv, Settled, LoadedRows, LoadedUnassigned, Workplaces, WithinRoom,
     Occupants, Residents, Vacancies, RoutineTimes
<1>8. Owned'
  BY <1>1, <1>2, <1>4, SameOwners
<1>9. Queued'
  BY <1>0, <1>2, <1>3, <1>5 DEF Queued
<1>10. JourneysMatchWhereabouts' /\ Homebound'
  BY <1>1, <1>2, <1>4, SameJourneys
<1>11. NothingOverdue'
  BY <1>0, <1>1, <1>4, <1>5 DEF NothingOverdue
<1>12. SlotsFilled'
  <2>1. ASSUME NEW b \in DOMAIN buildings, NEW k \in 0..(Residents(b) - 1)
        PROVE  OwnRow(b, k) \in moveIns' \/ Cardinality(Occupants(b)) > k
    <3>1. Cardinality(Occupants(b)) \in Nat /\ Residents(b) \in Nat
      BY <1>0, OccupantCount, StandingFacts
    <3>2. QED
      BY <1>5, <3>1
  <2>2. QED
    BY <1>2, <1>4, <2>1 DEF SlotsFilled, Residents, Occupants, OwnRow
<1>13. MoveInOrigins'
  BY <1>0, <1>2, <1>4, <1>5 DEF MoveInOrigins, Residents, Occupants, OwnRow, FirstOfItsId
<1>14. QED
  BY <1>6, <1>7, <1>8, <1>9, <1>10, <1>11, <1>12, <1>13 DEF IInv

-----------------------------------------------------------------------------
(* Moving in.                                                               *)

\* Students go to school and nobody else does.
LEMMA TemplateShift ==
  ASSUME NEW c \in Nat
  PROVE  /\ ShiftTemplateForId(c) \in Shifts
         /\ ShiftTemplateForId(c) = "school" <=> IsStudent(c)
<1>1. /\ Templates \in Seq(Shifts \ {"school"}) /\ Templates # <<>>
      /\ StudentEvery \in Nat \ {0} /\ "school" \in Shifts
  BY PopulationAssumption
<1>2. Len(Templates) \in Nat \ {0} /\ \A i \in 1..Len(Templates) : Templates[i] \in Shifts \ {"school"}
  BY <1>1
<1>3. c - (c \div StudentEvery) - 1 \in Int
  BY <1>1
<1>4. \A x \in Int : (x % Len(Templates)) + 1 \in 1..Len(Templates)
  BY <1>2
<1>5. ((c - (c \div StudentEvery) - 1) % Len(Templates)) + 1 \in 1..Len(Templates)
  BY <1>3, <1>4
<1>6. QED
  BY <1>1, <1>2, <1>5 DEF ShiftTemplateForId

\* The hours of a workplace make nobody a student.
LEMMA ShiftAtWork ==
  ASSUME NEW c \in Nat, NEW kind \in Kinds, NEW shift \in Shifts
  PROVE  /\ ShiftAt(c, kind, shift) \in Shifts
         /\ shift # "school" => ShiftAt(c, kind, shift) # "school"
<1>1. c % 2 \in {0, 1}
  OBVIOUS
<1>2. Catalog[kind].hours[c % 2] \in (Shifts \ {"school"}) \cup {None}
  BY <1>1, KindFacts
<1>3. QED
  BY <1>2 DEF ShiftAt

\* The rows of a building that stands come up slot by slot: when one is applied the
\* slots before it are taken.
LEMMA SlotsInOrder ==
  ASSUME IInv, NEW m \in DueMoveIns, \A e \in DueMoveIns : MoveInBefore(m, e),
         NEW b \in DOMAIN buildings, NEW k \in 0..(Residents(b) - 1), m = OwnRow(b, k)
  PROVE  Cardinality(Occupants(b)) >= k
<1>0. /\ TypeOK /\ SlotsFilled /\ Residents(b) \in Nat /\ MoveInInterval \in Nat \ {0}
      /\ buildings[b].placedAt \in Nat /\ Cardinality(Occupants(b)) \in Nat /\ now \in Nat
  BY StandingFacts, OccupantCount, Constants DEF IInv, TypeOK
<1>1. CASE k = 0
  BY <1>0, <1>1
<1>2. CASE k # 0
  <2>1. k - 1 \in 0..(Residents(b) - 1) /\ k \in Nat /\ k - 1 \in Nat
    BY <1>0, <1>2
  <2>2. (k - 1) * MoveInInterval \in Nat /\ k * MoveInInterval \in Nat
        /\ (k - 1) * MoveInInterval < k * MoveInInterval
    BY <1>0, <2>1
  <2>3. OwnRow(b, k - 1).due \in Nat /\ OwnRow(b, k).due \in Nat
        /\ OwnRow(b, k - 1).due < OwnRow(b, k).due
    BY <1>0, <2>2 DEF OwnRow
  <2>4. ~MoveInBefore(m, OwnRow(b, k - 1))
    BY <2>3 DEF MoveInBefore
  <2>5. OwnRow(b, k - 1) \notin moveIns
    BY <1>0, <2>3, <2>4 DEF DueMoveIns
  <2>6. Cardinality(Occupants(b)) > k - 1
    BY <1>0, <2>1, <2>5 DEF SlotsFilled
  <2>7. QED
    BY <1>0, <2>1, <2>6
<1>3. QED
  BY <1>1, <1>2

\* The first building with a free job, if there is any.
LEMMA FirstVacancyIsVacant ==
  ASSUME TypeOK, Vacancies # {}
  PROVE  FirstVacancy \in Vacancies /\ FirstVacancy \in Workplaces(buildings)
         /\ FirstVacancy \in DOMAIN buildings
<1>1. Vacancies \subseteq Workplaces(buildings) /\ Workplaces(buildings) \subseteq DOMAIN buildings
  BY DEF TypeOK, Vacancies, Workplaces
<1>2. Vacancies \in SUBSET Nat
  BY <1>1, StandingFacts
<1>3. \E b \in Vacancies : \A e \in Vacancies : b <= e
  BY <1>2, LeastExists
<1>4. QED
  BY <1>1, <1>3 DEF FirstVacancy

\* A move-in that finds no room changes nothing but the scheduler.
LEMMA NoRoomIInv ==
  ASSUME IInv, NEW m \in moveIns, ApplyMoveIn(m), ~HasRoom(m)
  PROVE  IInv'
<1>0. TypeOK /\ SlotsFilled /\ MoveInOrigins /\ NothingOverdue
  BY DEF IInv
<1>1. /\ UNCHANGED <<now, phase, buildings, placements, citizens, nextOrdinal, rows, unassigned,
                     wakes, demands, trips>>
      /\ moveIns' = moveIns \ {m} /\ phase = "due"
  BY DEF ApplyMoveIn, clockVars, cityVars, jobVars, travelVars
<1>2. TypeOK'
  BY <1>0, <1>1 DEF TypeOK, Workplaces
<1>3. SlotsFilled'
  <2>1. ASSUME NEW b \in DOMAIN buildings, NEW k \in 0..(Residents(b) - 1)
        PROVE  OwnRow(b, k) \in moveIns' \/ Cardinality(Occupants(b)) > k
    <3>1. CASE m = OwnRow(b, k)
      <4>1. Cardinality(Occupants(b)) \in Nat /\ Residents(b) \in Nat
        BY <1>0, OccupantCount, StandingFacts
      <4>2. m.building = b
        BY <3>1 DEF OwnRow
      <4>3. QED
        BY <4>1, <4>2 DEF HasRoom
    <3>2. CASE m # OwnRow(b, k)
      BY <1>0, <1>1, <3>2 DEF SlotsFilled
    <3>3. QED
      BY <3>1, <3>2
  <2>2. QED
    BY <1>1, <2>1 DEF SlotsFilled, Residents, Occupants, OwnRow
<1>4. MoveInOrigins'
  BY <1>0, <1>1 DEF MoveInOrigins, Residents, Occupants, OwnRow, FirstOfItsId
<1>5. NothingOverdue'
  BY <1>0, <1>1 DEF NothingOverdue
<1>6. Settled' /\ Queued' /\ RoutineTimes' /\ WithinRoom'
  BY <1>1 DEF IInv, Settled, LoadedRows, LoadedUnassigned, Workplaces, Queued, RoutineTimes,
     WithinRoom, Vacancies, Residents, Occupants
<1>7. QED
  BY <1>1, <1>2, <1>3, <1>4, <1>5, <1>6, SameJourneys, SameOwners DEF IInv

\* The citizen who moves in, and what happens to the job that was first vacant.
LEMMA NewCitizen ==
  ASSUME IInv, NEW m \in moveIns, ApplyMoveIn(m), HasRoom(m)
  PROVE  \E citizen \in Citizen :
           /\ citizen.home = m.building /\ ~citizen.away
           /\ citizen.wake # None /\ citizen.wake.kind = "DailyRoutine"
           /\ citizen.wake.due >= now /\ AtDeparture(citizen.wake.due)
           /\ citizen.job # None => /\ citizen.job = FirstVacancy /\ Vacancies # {}
                                    /\ citizen.shift # "school"
           /\ citizen.job = None => /\ Vacancies = {} \/ IsStudent(nextOrdinal)
                                    /\ citizen.shift = "school" <=> IsStudent(nextOrdinal)
           /\ citizens' = [e \in DOMAIN citizens \cup {nextOrdinal} |->
                             IF e = nextOrdinal THEN citizen ELSE citizens[e]]
           /\ rows' = [b \in DOMAIN rows |->
                         IF b = citizen.job THEN rows[b] \cup {nextOrdinal} ELSE rows[b]]
           /\ unassigned' = IF citizen.job = None /\ ~IsStudent(nextOrdinal)
                            THEN unassigned \cup {nextOrdinal} ELSE unassigned
           /\ wakes' = wakes \cup {<<nextOrdinal, citizen.wake.due>>}
<1> DEFINE c == nextOrdinal
           job == IF IsStudent(c) \/ Vacancies = {} THEN None ELSE FirstVacancy
           shift == IF job = None THEN ShiftTemplateForId(c)
                    ELSE ShiftAt(c, buildings[job].kind, ShiftTemplateForId(c))
           wake == RoutineFromNow(shift, now)
           citizen == [home |-> m.building, shift |-> shift, job |-> job, away |-> FALSE, wake |-> wake]
<1>0. TypeOK /\ c \in Nat /\ now \in Nat
  BY DEF IInv, TypeOK
<1>1. ShiftTemplateForId(c) \in Shifts /\ (ShiftTemplateForId(c) = "school" <=> IsStudent(c))
  BY <1>0, TemplateShift
<1>2. /\ job \in Nat \cup {None}
      /\ job # None => /\ job = FirstVacancy /\ Vacancies # {} /\ ~IsStudent(c)
                       /\ buildings[job].kind \in Kinds
      /\ job = None => Vacancies = {} \/ IsStudent(c)
  BY <1>0, FirstVacancyIsVacant, StandingFacts, Constants
<1>3. /\ shift \in Shifts
      /\ job # None => shift # "school"
      /\ job = None => (shift = "school" <=> IsStudent(c))
  <2>1. CASE job = None
    BY <1>1, <2>1
  <2>2. CASE job # None
    BY <1>0, <1>1, <1>2, <2>2, ShiftAtWork
  <2>3. QED
    BY <2>1, <2>2
<1>4. /\ wake \in Wake /\ wake.kind = "DailyRoutine" /\ wake.due >= now /\ AtDeparture(wake.due)
      /\ wake # None
  BY <1>0, <1>3, RoutineTypes, NoneIsNoActivity DEF Wake
<1>5. m.building \in Nat
  BY <1>0 DEF TypeOK, MoveIn
<1>6. /\ citizens' = [e \in DOMAIN citizens \cup {c} |-> IF e = c THEN citizen ELSE citizens[e]]
      /\ rows' = [b \in DOMAIN rows |-> IF b = job THEN rows[b] \cup {c} ELSE rows[b]]
      /\ unassigned' = IF job = None /\ ~IsStudent(c) THEN unassigned \cup {c} ELSE unassigned
      /\ wakes' = wakes \cup {<<c, wake.due>>}
  BY DEF ApplyMoveIn
<1> HIDE DEF job, shift, wake
<1>7. /\ citizen \in Citizen /\ citizen.home = m.building /\ citizen.away = FALSE
      /\ citizen.wake = wake /\ citizen.job = job /\ citizen.shift = shift
  BY <1>2, <1>3, <1>4, <1>5 DEF Citizen
<1> HIDE DEF citizen
<1>8. QED
  BY <1>2, <1>3, <1>4, <1>6, <1>7

\* Who lives in a building after the move-in.
LEMMA NewOccupants ==
  ASSUME IInv, NEW m \in moveIns, NEW citizen \in Citizen, citizen.home = m.building,
         citizens' = [e \in DOMAIN citizens \cup {nextOrdinal} |->
                        IF e = nextOrdinal THEN citizen ELSE citizens[e]]
  PROVE  \A b : Cardinality(Occupants(b))'
                  = IF b = m.building THEN Cardinality(Occupants(b)) + 1 ELSE Cardinality(Occupants(b))
<1>1. nextOrdinal \notin DOMAIN citizens
  BY CitizenFacts DEF IInv
<1>2. ASSUME NEW b
      PROVE  Occupants(b)' = IF b = m.building THEN Occupants(b) \cup {nextOrdinal} ELSE Occupants(b)
  BY <1>1 DEF Occupants
<1>3. ASSUME NEW b
      PROVE  Cardinality(Occupants(b)) \in Nat /\ IsFiniteSet(Occupants(b))
             /\ nextOrdinal \notin Occupants(b)
  BY <1>1, OccupantCount DEF IInv, Occupants
<1>4. ASSUME NEW b
      PROVE  Cardinality(Occupants(b)')
               = IF b = m.building THEN Cardinality(Occupants(b)) + 1 ELSE Cardinality(Occupants(b))
  <2>1. Cardinality(Occupants(b) \cup {nextOrdinal}) = Cardinality(Occupants(b)) + 1
    BY <1>3, FS_AddElement
  <2>2. QED
    BY <1>2, <2>1
<1>5. QED
  BY <1>4

LEMMA RoomIInv ==
  ASSUME IInv, NEW m \in moveIns, ApplyMoveIn(m), HasRoom(m)
  PROVE  IInv'
<1>0. /\ TypeOK /\ Settled /\ Owned /\ Queued /\ JourneysMatchWhereabouts /\ Homebound
      /\ NothingOverdue /\ RoutineTimes /\ SlotsFilled /\ MoveInOrigins /\ WithinRoom
  BY DEF IInv
<1> DEFINE c == nextOrdinal
           home == m.building
<1>1. PICK citizen \in Citizen :
           /\ citizen.home = m.building /\ ~citizen.away
           /\ citizen.wake # None /\ citizen.wake.kind = "DailyRoutine"
           /\ citizen.wake.due >= now /\ AtDeparture(citizen.wake.due)
           /\ citizen.job # None => /\ citizen.job = FirstVacancy /\ Vacancies # {}
                                    /\ citizen.shift # "school"
           /\ citizen.job = None => /\ Vacancies = {} \/ IsStudent(nextOrdinal)
                                    /\ citizen.shift = "school" <=> IsStudent(nextOrdinal)
           /\ citizens' = [e \in DOMAIN citizens \cup {nextOrdinal} |->
                             IF e = nextOrdinal THEN citizen ELSE citizens[e]]
           /\ rows' = [b \in DOMAIN rows |->
                         IF b = citizen.job THEN rows[b] \cup {nextOrdinal} ELSE rows[b]]
           /\ unassigned' = IF citizen.job = None /\ ~IsStudent(nextOrdinal)
                            THEN unassigned \cup {nextOrdinal} ELSE unassigned
           /\ wakes' = wakes \cup {<<nextOrdinal, citizen.wake.due>>}
  BY NewCitizen
<1>2. /\ UNCHANGED <<now, phase, buildings, placements, demands, trips>>
      /\ moveIns' = moveIns \ {m} /\ nextOrdinal' = c + 1 /\ phase = "due"
      /\ m \in DueMoveIns /\ \A e \in DueMoveIns : MoveInBefore(m, e)
      /\ home \in DOMAIN buildings /\ Cardinality(Occupants(home)) < Residents(home)
  BY DEF ApplyMoveIn, HasRoom, clockVars, cityVars, travelVars
<1>3. /\ c \in Nat \ {0} /\ c \notin DOMAIN citizens
      /\ DOMAIN citizens' = DOMAIN citizens \cup {c} /\ citizens'[c] = citizen
      /\ \A e \in DOMAIN citizens : citizens'[e] = citizens[e]
  BY <1>0, <1>1, CitizenFacts DEF TypeOK
<1>4. \A b : Cardinality(Occupants(b))'
               = IF b = home THEN Cardinality(Occupants(b)) + 1 ELSE Cardinality(Occupants(b))
  BY <1>1, NewOccupants
<1>5. citizen.wake \in Wake /\ citizen.wake.due \in Nat
  BY <1>1 DEF Citizen, Wake
<1>6. citizen.job \in DOMAIN rows \cup {None} /\ None \notin DOMAIN rows
      /\ DOMAIN rows = Workplaces(buildings)
      /\ DOMAIN rows \subseteq DOMAIN buildings
  BY <1>0, <1>1, FirstVacancyIsVacant, StandingFacts, Constants DEF TypeOK, Vacancies, Workplaces
<1>7. TypeOK'
  <2>1. citizens' \in [DOMAIN citizens' -> Citizen]
    BY <1>0, <1>1, <1>3 DEF TypeOK
  <2>2. DOMAIN citizens' \subseteq 1..((c + 1) - 1) /\ c + 1 \in Nat \ {0}
    BY <1>0, <1>3 DEF TypeOK
  <2>3. rows' \in [Workplaces(buildings) -> SUBSET Nat] /\ unassigned' \subseteq Nat
    BY <1>0, <1>1, <1>3, <1>6 DEF TypeOK
  <2>4. wakes' \subseteq Nat \X Nat
    BY <1>0, <1>1, <1>3, <1>5 DEF TypeOK
  <2>5. Workplaces(buildings)' = Workplaces(buildings)
    BY <1>2 DEF Workplaces
  <2>6. QED
    BY <1>0, <1>2, <2>1, <2>2, <2>3, <2>4, <2>5 DEF TypeOK
<1>8. Settled'
  <2>1. \A e \in DOMAIN citizens' :
          /\ citizens'[e].home \in DOMAIN buildings
          /\ citizens'[e].job \in DOMAIN rows \cup {None}
          /\ citizens'[e].job # None => citizens'[e].shift # "school"
    BY <1>0, <1>1, <1>2, <1>3, <1>6 DEF Settled
  <2>2. DOMAIN rows' = DOMAIN rows
    BY <1>1
  <2>3. \A b \in Workplaces(buildings) : rows'[b] = {e \in DOMAIN citizens' : citizens'[e].job = b}
    <3>1. \A b \in Workplaces(buildings) : rows[b] = {e \in DOMAIN citizens : citizens[e].job = b}
      BY <1>0 DEF Settled, LoadedRows
    <3>2. QED
      BY <1>1, <1>3, <1>6, <3>1
  <2>4. rows' = [b \in Workplaces(buildings) |-> {e \in DOMAIN citizens' : citizens'[e].job = b}]
    BY <1>1, <1>6, <2>3
  <2>5. unassigned' = {e \in DOMAIN citizens' : citizens'[e].job = None /\ citizens'[e].shift # "school"}
    <3>1. unassigned = {e \in DOMAIN citizens : citizens[e].job = None /\ citizens[e].shift # "school"}
      BY <1>0 DEF Settled, LoadedUnassigned
    <3>2. CASE citizen.job = None /\ ~IsStudent(nextOrdinal)
      BY <1>1, <1>3, <3>1, <3>2
    <3>3. CASE ~(citizen.job = None /\ ~IsStudent(nextOrdinal))
      BY <1>1, <1>3, <3>1, <3>3
    <3>4. QED
      BY <3>2, <3>3
  <2>6. QED
    BY <1>2, <2>1, <2>2, <2>4, <2>5 DEF Settled, LoadedRows, LoadedUnassigned, Workplaces
<1>9. Owned'
  BY <1>0, <1>1, <1>2, <1>3 DEF Owned
<1>10. Queued'
  <2>1. \A v \in wakes : v[1] # c /\ v[1] < c /\ v[1] \in Nat
    BY <1>0 DEF Queued, TypeOK
  <2>2. \A v \in wakes' : v[1] < c + 1
    BY <1>1, <1>3, <2>1
  <2>3. \A v \in wakes' : v[1] \in DOMAIN citizens' =>
           citizens'[v[1]].wake # None /\ citizens'[v[1]].wake.due = v[2]
    BY <1>0, <1>1, <1>3, <2>1 DEF Queued
  <2>4. \A e \in DOMAIN citizens' : citizens'[e].wake # None => <<e, citizens'[e].wake.due>> \in wakes'
    BY <1>0, <1>1, <1>3 DEF Queued
  <2>5. QED
    BY <1>2, <2>2, <2>3, <2>4 DEF Queued
<1>11. RoutineTimes'
  BY <1>0, <1>1, <1>3 DEF RoutineTimes
<1>12. NothingOverdue'
  BY <1>0, <1>1, <1>2 DEF NothingOverdue
<1>13. JourneysMatchWhereabouts' /\ Homebound'
  <2>1. \A e \in demands \cup trips : e.citizen \in DOMAIN citizens
    BY <1>0 DEF Owned
  <2>2. Homebound'
    BY <1>0, <1>2, <1>3, <2>1 DEF Homebound
  <2>3. \A e \in DOMAIN citizens' : citizens'[e].wake # None => citizens'[e].wake.kind \in
          (IF citizens'[e].away THEN Activities \ {"OptionalOuting"} ELSE {"DailyRoutine", "OptionalOuting"})
    BY <1>0, <1>1, <1>3 DEF JourneysMatchWhereabouts
  <2>4. \A e \in DOMAIN citizens : Destinations(e)' = Destinations(e)
    BY <1>2, <1>3 DEF Destinations, Schools
  <2>5. \A e \in demands \cup trips :
          /\ e.purpose \in (IF citizens'[e.citizen].away THEN Purposes \ Outbound ELSE Outbound)
          /\ e.to \in DOMAIN buildings
          /\ e.purpose = "CommuteOutbound" => e.to \in Destinations(e.citizen)'
    BY <1>0, <1>3, <2>1, <2>4 DEF JourneysMatchWhereabouts
  <2>6. QED
    BY <1>2, <2>2, <2>3, <2>5 DEF JourneysMatchWhereabouts
<1>14. SlotsFilled'
  <2>1. ASSUME NEW b \in DOMAIN buildings, NEW k \in 0..(Residents(b) - 1)
        PROVE  OwnRow(b, k) \in moveIns' \/ Cardinality(Occupants(b))' > k
    <3>1. Cardinality(Occupants(b)) \in Nat /\ Residents(b) \in Nat
      BY <1>0, OccupantCount, StandingFacts
    <3>2. CASE m = OwnRow(b, k)
      <4>1. home = b
        BY <3>2 DEF OwnRow
      <4>2. Cardinality(Occupants(b)) >= k
        BY <1>2, <3>2, SlotsInOrder
      <4>3. QED
        BY <1>4, <3>1, <4>1, <4>2
    <3>3. CASE m # OwnRow(b, k)
      <4>1. OwnRow(b, k) \in moveIns' \/ Cardinality(Occupants(b)) > k
        BY <1>0, <1>2, <3>3 DEF SlotsFilled
      <4>2. QED
        BY <1>4, <3>1, <4>1
    <3>4. QED
      BY <3>2, <3>3
  <2>2. \A b, k : Residents(b)' = Residents(b) /\ OwnRow(b, k)' = OwnRow(b, k)
    BY <1>2 DEF Residents, OwnRow
  <2>3. QED
    BY <1>2, <2>1, <2>2 DEF SlotsFilled
<1>15. MoveInOrigins'
  <2>1. ASSUME NEW e \in moveIns', FirstOfItsId(e.building)
        PROVE  e.slot >= Cardinality(Occupants(e.building))'
    <3>1. /\ e \in moveIns /\ e # m /\ e.slot >= Cardinality(Occupants(e.building))
          /\ e.slot \in Nat /\ e.building \in DOMAIN buildings
          /\ Cardinality(Occupants(e.building)) \in Nat
      BY <1>0, <1>2, <2>1, OccupantCount DEF MoveInOrigins, TypeOK, MoveIn, FirstOfItsId
    <3>2. CASE e.building # home
      BY <1>4, <3>1, <3>2
    <3>3. CASE e.building = home
      <4>1. buildings[home].born = home
        BY <2>1, <3>3 DEF FirstOfItsId
      <4>2. m.born = home /\ e.born = home
        BY <1>0, <1>2, <3>1, <3>3, <4>1 DEF MoveInOrigins, TypeOK, MoveIn
      <4>3. /\ m = OwnRow(home, m.slot) /\ e = OwnRow(home, e.slot)
            /\ m.slot < Residents(home) /\ m.slot \in Nat /\ Residents(home) \in Nat
        BY <1>0, <1>2, <3>1, <3>3, <4>1, <4>2, StandingFacts DEF MoveInOrigins, TypeOK, MoveIn
      <4>4. m.slot \in 0..(Residents(home) - 1)
        BY <4>3
      <4>5. Cardinality(Occupants(home)) >= m.slot
        BY <1>2, <4>3, <4>4, SlotsInOrder
      <4>6. m.slot >= Cardinality(Occupants(home))
        BY <1>0, <2>1, <3>3 DEF MoveInOrigins
      <4>7. e.slot # m.slot
        BY <3>1, <4>3
      <4>8. QED
        BY <1>4, <3>1, <3>3, <4>3, <4>5, <4>6, <4>7
    <3>4. QED
      BY <3>2, <3>3
  <2>2. \A b, k : Residents(b)' = Residents(b) /\ OwnRow(b, k)' = OwnRow(b, k)
                  /\ FirstOfItsId(b)' = FirstOfItsId(b)
    BY <1>2 DEF Residents, OwnRow, FirstOfItsId
  <2>3. QED
    BY <1>0, <1>2, <2>1, <2>2 DEF MoveInOrigins
<1>16. WithinRoom'
  <2>1. \A b \in DOMAIN buildings : Cardinality(Occupants(b))' <= Residents(b)
    BY <1>0, <1>2, <1>4, OccupantCount, StandingFacts DEF WithinRoom
  <2>2. ASSUME NEW b \in DOMAIN rows
        PROVE  Cardinality(rows'[b]) <= Catalog[buildings[b].kind].jobs
    <3>1. IsFiniteSet(rows[b]) /\ c \notin rows[b] /\ Cardinality(rows[b]) \in Nat
          /\ Catalog[buildings[b].kind].jobs \in Nat
      <4>1. rows[b] \subseteq DOMAIN citizens
        BY <1>0, <1>6 DEF Settled, LoadedRows
      <4>2. QED
        BY <1>0, <1>3, <1>6, <4>1, CitizenFacts, FS_Subset, FS_CardinalityType, StandingFacts
    <3>2. CASE b = citizen.job
      <4>1. b \in Vacancies
        BY <1>0, <1>1, <1>6, <3>2, FirstVacancyIsVacant
      <4>2. Cardinality(rows[b]) < Catalog[buildings[b].kind].jobs
        BY <4>1 DEF Vacancies
      <4>3. Cardinality(rows[b] \cup {c}) = Cardinality(rows[b]) + 1
        BY <3>1, FS_AddElement
      <4>4. QED
        BY <1>1, <3>1, <3>2, <4>2, <4>3
    <3>3. CASE b # citizen.job
      BY <1>0, <1>1, <3>3 DEF WithinRoom
    <3>4. QED
      BY <3>2, <3>3
  <2>3. unassigned' = {} \/ Vacancies' = {}
    <3>1. CASE citizen.job # None
      BY <1>0, <1>1, <3>1 DEF WithinRoom
    <3>2. CASE citizen.job = None
      <4>1. rows' = rows
        BY <1>0, <1>1, <1>6, <3>2 DEF TypeOK
      <4>2. Vacancies' = Vacancies
        BY <1>2, <4>1 DEF Vacancies
      <4>3. QED
        BY <1>0, <1>1, <3>2, <4>2 DEF WithinRoom
    <3>3. QED
      BY <3>1, <3>2
  <2>4. DOMAIN rows' = DOMAIN rows /\ \A b : Residents(b)' = Residents(b)
    BY <1>1, <1>2 DEF Residents
  <2>5. QED
    BY <1>2, <2>1, <2>2, <2>3, <2>4 DEF WithinRoom
<1>17. QED
  BY <1>7, <1>8, <1>9, <1>10, <1>11, <1>12, <1>13, <1>14, <1>15, <1>16 DEF IInv

-----------------------------------------------------------------------------
(* Hiring: the n-th citizen without work gets the n-th open slot.           *)

StrictOrder(S, R) ==
  /\ \A x \in S : <<x, x>> \notin R
  /\ \A x, y \in S : x # y => <<x, y>> \in R \/ <<y, x>> \in R
  /\ \A x, y, z \in S : <<x, y>> \in R /\ <<y, z>> \in R => <<x, z>> \in R
CountsBelow(S, R, rank) == \A x \in S : rank[x] = Cardinality({e \in S : <<e, x>> \in R})
Numbers(S, rank) ==
  /\ \A x \in S : rank[x] \in 0..(Cardinality(S) - 1)
  /\ \A x, y \in S : rank[x] = rank[y] => x = y
  /\ \A n \in 0..(Cardinality(S) - 1) : \E x \in S : rank[x] = n

\* In a finite set under a strict total order, counting the elements before each one
\* numbers them from 0 on.
LEMMA RankIsBijection ==
  ASSUME NEW S, IsFiniteSet(S), NEW R, StrictOrder(S, R), NEW rank, CountsBelow(S, R, rank)
  PROVE  Numbers(S, rank)
<1> DEFINE below(x) == {e \in S : <<e, x>> \in R}
           f == [x \in S |-> rank[x]]
           T == 0..(Cardinality(S) - 1)
<1>0. Cardinality(S) \in Nat
  BY FS_CardinalityType
<1>1. \A x \in S : IsFiniteSet(below(x)) /\ Cardinality(below(x)) \in Nat
  BY FS_Subset, FS_CardinalityType
<1>2. ASSUME NEW x \in S PROVE Cardinality(below(x)) < Cardinality(S)
  <2>1. below(x) \in SUBSET S /\ below(x) # S
    BY DEF StrictOrder
  <2>2. Cardinality(below(x)) <= Cardinality(S) /\ Cardinality(below(x)) # Cardinality(S)
    BY <2>1, FS_Subset
  <2>4. Cardinality(below(x)) \in Nat
    BY <1>1
  <2> HIDE DEF below
  <2>3. QED
    BY <1>0, <2>4, <2>2
<1>3. ASSUME NEW x \in S, NEW y \in S, <<x, y>> \in R
      PROVE  Cardinality(below(x)) < Cardinality(below(y))
  <2>1. below(x) \in SUBSET below(y) /\ x \in below(y) /\ x \notin below(x)
    BY <1>3 DEF StrictOrder
  <2>2. below(x) # below(y)
    BY <2>1
  <2>3. Cardinality(below(x)) <= Cardinality(below(y))
        /\ Cardinality(below(x)) # Cardinality(below(y))
    BY <1>1, <2>1, <2>2, FS_Subset
  <2>5. Cardinality(below(x)) \in Nat /\ Cardinality(below(y)) \in Nat
    BY <1>1
  <2> HIDE DEF below
  <2>4. QED
    BY <2>5, <2>3
<1>a. \A x \in S : rank[x] = Cardinality(below(x))
  BY DEF CountsBelow
<1> HIDE DEF below
<1>4. \A x \in S : rank[x] \in T
  <2>1. ASSUME NEW x \in S PROVE rank[x] \in T
    <3>1. rank[x] \in Nat /\ rank[x] < Cardinality(S)
      BY <1>a, <1>1, <1>2
    <3>2. QED
      BY <1>0, <3>1
  <2>2. QED
    BY <2>1
<1>5. \A x, y \in S : rank[x] = rank[y] => x = y
  <2>1. ASSUME NEW x \in S, NEW y \in S, x # y PROVE rank[x] # rank[y]
    <3>1. CASE <<x, y>> \in R
      BY <1>a, <1>1, <1>3, <3>1
    <3>2. CASE <<y, x>> \in R
      BY <1>a, <1>1, <1>3, <3>2
    <3>3. QED
      BY <2>1, <3>1, <3>2 DEF StrictOrder
  <2>2. QED
    BY <2>1
<1>6. f \in Injection(S, T)
  BY <1>4, <1>5 DEF Injection, IsInjective
<1>7. IsFiniteSet(T) /\ Cardinality(T) = Cardinality(S)
  <2>1. 0 \in Int /\ Cardinality(S) - 1 \in Int
    BY <1>0
  <2>2. IsFiniteSet(T) /\ Cardinality(T) = IF 0 > Cardinality(S) - 1 THEN 0 ELSE (Cardinality(S) - 1) - 0 + 1
    BY <2>1, FS_Interval
  <2>3. QED
    BY <1>0, <2>2
<1>8. f \in Surjection(S, T)
  BY <1>6, <1>7, FS_Injection
<1>9. \A n \in T : \E x \in S : rank[x] = n
  BY <1>8 DEF Surjection
<1>10. QED
  BY <1>4, <1>5, <1>9 DEF Numbers

\* The bound of the slot numbers is large enough for every kind of building.
LEMMA SlotBound ==
  LET all == UNION {1..Catalog[kind].jobs : kind \in Kinds}
  IN  /\ Cardinality(all) \in Nat
      /\ \A kind \in Kinds : Catalog[kind].jobs <= Cardinality(all)
<1> DEFINE all == UNION {1..Catalog[kind].jobs : kind \in Kinds}
           sets == {1..Catalog[kind].jobs : kind \in Kinds}
           f == [kind \in Kinds |-> 1..Catalog[kind].jobs]
<1>1. ASSUME NEW kind \in Kinds
      PROVE  /\ IsFiniteSet(1..Catalog[kind].jobs) /\ Cardinality(1..Catalog[kind].jobs) = Catalog[kind].jobs
             /\ Catalog[kind].jobs \in Nat
  <2>1. Catalog[kind].jobs \in Nat /\ 1 \in Int /\ Catalog[kind].jobs \in Int
    BY KindFacts
  <2>2. /\ IsFiniteSet(1..Catalog[kind].jobs)
        /\ Cardinality(1..Catalog[kind].jobs)
             = IF 1 > Catalog[kind].jobs THEN 0 ELSE Catalog[kind].jobs - 1 + 1
    BY <2>1, FS_Interval
  <2>3. QED
    BY <2>1, <2>2
<1>2. IsFiniteSet(Kinds)
  BY PopulationAssumption
<1>3. f \in Surjection(Kinds, sets)
  BY DEF Surjection
<1>4. IsFiniteSet(sets)
  BY <1>2, <1>3, FS_Surjection
<1>5. IsFiniteSet(all)
  BY <1>1, <1>4, FS_UNION
<1>6. ASSUME NEW kind \in Kinds PROVE Catalog[kind].jobs <= Cardinality(all)
  <2>1. (1..Catalog[kind].jobs) \in SUBSET all
    OBVIOUS
  <2>2. QED
    BY <1>1, <1>5, <2>1, FS_Subset
<1>7. QED
  BY <1>5, <1>6, FS_CardinalityType

\* A city as a reconciliation sees it, with the staff that stays and those who look
\* for work.
Hirable(city, staff, idle) ==
  /\ IsFiniteSet(DOMAIN city) /\ DOMAIN city \subseteq Nat
  /\ \A b \in DOMAIN city : city[b].kind \in Kinds
  /\ \A b \in Workplaces(city) :
       /\ IsFiniteSet(staff[b]) /\ Cardinality(staff[b]) <= Catalog[city[b].kind].jobs
       /\ staff[b] \cap idle = {}
  /\ idle \subseteq Nat /\ IsFiniteSet(idle)

LEMMA SlotFacts ==
  ASSUME NEW city, NEW staff, NEW idle, Hirable(city, staff, idle)
  PROVE  /\ IsFiniteSet(OpenSlots(city, staff))
         /\ OpenSlots(city, staff) \subseteq Nat \X Nat
         /\ \A s \in OpenSlots(city, staff) :
              s[1] \in Workplaces(city) /\ s[2] \in Nat
              /\ Cardinality(staff[s[1]]) < s[2] /\ s[2] <= Catalog[city[s[1]].kind].jobs
         /\ \A b \in Workplaces(city) :
              \A k \in (Cardinality(staff[b]) + 1)..Catalog[city[b].kind].jobs :
                <<b, k>> \in OpenSlots(city, staff)
<1> DEFINE K == Cardinality(UNION {1..Catalog[kind].jobs : kind \in Kinds})
<1>1. K \in Nat /\ \A kind \in Kinds : Catalog[kind].jobs <= K
  BY SlotBound
<1> HIDE DEF K
<1>2. OpenSlots(city, staff) = {s \in Workplaces(city) \X (1..K) :
         Cardinality(staff[s[1]]) < s[2] /\ s[2] <= Catalog[city[s[1]].kind].jobs}
  BY DEF OpenSlots, K
<1>3. Workplaces(city) \subseteq DOMAIN city /\ IsFiniteSet(Workplaces(city))
  BY FS_Subset DEF Hirable, Workplaces
<1>4. IsFiniteSet(1..K)
  BY <1>1, FS_Interval
<1>5. IsFiniteSet(Workplaces(city) \X (1..K))
  BY <1>3, <1>4, FS_Product
<1>6. IsFiniteSet(OpenSlots(city, staff))
  BY <1>2, <1>5, FS_Subset
<1>7. ASSUME NEW s \in OpenSlots(city, staff)
      PROVE  /\ s \in Nat \X Nat /\ s[1] \in Workplaces(city) /\ s[2] \in Nat
             /\ Cardinality(staff[s[1]]) < s[2] /\ s[2] <= Catalog[city[s[1]].kind].jobs
  BY <1>1, <1>2, <1>3 DEF Hirable
<1>8. ASSUME NEW b \in Workplaces(city),
             NEW k \in (Cardinality(staff[b]) + 1)..Catalog[city[b].kind].jobs
      PROVE  <<b, k>> \in OpenSlots(city, staff)
  <2>1. Catalog[city[b].kind].jobs \in Nat /\ Catalog[city[b].kind].jobs <= K
        /\ Cardinality(staff[b]) \in Nat
    BY <1>1, <1>3, KindFacts, FS_CardinalityType DEF Hirable
  <2>2. k \in 1..K /\ Cardinality(staff[b]) < k /\ k <= Catalog[city[b].kind].jobs
    BY <1>1, <2>1
  <2>3. QED
    BY <1>2, <2>2
<1>9. QED
  BY <1>6, <1>7, <1>8

LEMMA PlacesAndRanks ==
  ASSUME NEW city, NEW staff, NEW idle, Hirable(city, staff, idle)
  PROVE  LET slots == OpenSlots(city, staff)
             PlaceOf(s) == Cardinality({e \in slots : Before(e, s)})
             RankOf(c) == Cardinality({e \in idle : e < c})
         IN  /\ \A s \in slots : PlaceOf(s) \in 0..(Cardinality(slots) - 1)
             /\ \A s, e \in slots : PlaceOf(s) = PlaceOf(e) => s = e
             /\ \A n \in 0..(Cardinality(slots) - 1) : \E s \in slots : PlaceOf(s) = n
             /\ \A c \in idle : RankOf(c) \in 0..(Cardinality(idle) - 1)
             /\ \A c, e \in idle : RankOf(c) = RankOf(e) => c = e
             /\ \A n \in 0..(Cardinality(idle) - 1) : \E c \in idle : RankOf(c) = n
<1> DEFINE slots == OpenSlots(city, staff)
           PlaceOf(s) == Cardinality({e \in slots : Before(e, s)})
           RankOf(c) == Cardinality({e \in idle : e < c})
           RS == {p \in slots \X slots : Before(p[1], p[2])}
           RI == {p \in idle \X idle : p[1] < p[2]}
           place == [s \in slots |-> Cardinality({e \in slots : <<e, s>> \in RS})]
           rank == [c \in idle |-> Cardinality({e \in idle : <<e, c>> \in RI})]
<1>1. IsFiniteSet(slots) /\ slots \subseteq Nat \X Nat
  BY SlotFacts
<1>2. IsFiniteSet(idle) /\ idle \subseteq Nat
  BY DEF Hirable
<1> HIDE DEF slots
<1>3. /\ \A x, y \in slots : <<x, y>> \in RS <=> Before(x, y)
      /\ \A x, y \in idle : <<x, y>> \in RI <=> x < y
  OBVIOUS
<1> HIDE DEF RS, RI
<1>4. StrictOrder(slots, RS)
  BY <1>1, <1>3 DEF Before, StrictOrder
<1>5. StrictOrder(idle, RI)
  BY <1>2, <1>3 DEF StrictOrder
<1>a. CountsBelow(slots, RS, place) /\ CountsBelow(idle, RI, rank)
  BY DEF CountsBelow
<1> HIDE DEF place, rank
<1>6. Numbers(slots, place)
  BY <1>1, <1>4, <1>a, RankIsBijection
<1>7. Numbers(idle, rank)
  BY <1>2, <1>5, <1>a, RankIsBijection
<1>8. ASSUME NEW s \in slots PROVE place[s] = PlaceOf(s)
  <2>1. {e \in slots : <<e, s>> \in RS} = {e \in slots : Before(e, s)}
    BY <1>3
  <2>2. QED
    BY <1>a, <2>1 DEF CountsBelow
<1>9. ASSUME NEW c \in idle PROVE rank[c] = RankOf(c)
  <2>1. {e \in idle : <<e, c>> \in RI} = {e \in idle : e < c}
    BY <1>3
  <2>2. QED
    BY <1>a, <2>1 DEF CountsBelow
<1> HIDE DEF PlaceOf, RankOf
<1>10. /\ \A s \in slots : PlaceOf(s) \in 0..(Cardinality(slots) - 1)
       /\ \A s, e \in slots : PlaceOf(s) = PlaceOf(e) => s = e
       /\ \A n \in 0..(Cardinality(slots) - 1) : \E s \in slots : PlaceOf(s) = n
  BY <1>6, <1>8 DEF Numbers
<1>11. /\ \A c \in idle : RankOf(c) \in 0..(Cardinality(idle) - 1)
       /\ \A c, e \in idle : RankOf(c) = RankOf(e) => c = e
       /\ \A n \in 0..(Cardinality(idle) - 1) : \E c \in idle : RankOf(c) = n
  BY <1>7, <1>9 DEF Numbers
<1>12. QED
  BY <1>10, <1>11 DEF slots, PlaceOf, RankOf

LEMMA HiredFacts ==
  ASSUME NEW city, NEW staff, NEW idle, Hirable(city, staff, idle)
  PROVE  LET hired == Hired(city, staff, idle)
             Team(b) == {c \in DOMAIN hired : hired[c] = b}
         IN  /\ DOMAIN hired \subseteq idle
             /\ \A c \in DOMAIN hired : hired[c] \in Workplaces(city)
             /\ \A b \in Workplaces(city) :
                  Cardinality(staff[b] \cup Team(b)) <= Catalog[city[b].kind].jobs
             /\ idle \ DOMAIN hired = {} \/ \A b \in Workplaces(city) :
                  Cardinality(staff[b] \cup Team(b)) >= Catalog[city[b].kind].jobs
<1> DEFINE slots == OpenSlots(city, staff)
           PlaceOf(s) == Cardinality({e \in slots : Before(e, s)})
           RankOf(c) == Cardinality({e \in idle : e < c})
           hired == Hired(city, staff, idle)
           Team(b) == {c \in DOMAIN hired : hired[c] = b}
           Slot(c) == CHOOSE s \in slots : PlaceOf(s) = RankOf(c)
<1>1. /\ \A s \in slots : PlaceOf(s) \in 0..(Cardinality(slots) - 1)
      /\ \A s, e \in slots : PlaceOf(s) = PlaceOf(e) => s = e
      /\ \A n \in 0..(Cardinality(slots) - 1) : \E s \in slots : PlaceOf(s) = n
      /\ \A c \in idle : RankOf(c) \in 0..(Cardinality(idle) - 1)
      /\ \A c, e \in idle : RankOf(c) = RankOf(e) => c = e
      /\ \A n \in 0..(Cardinality(idle) - 1) : \E c \in idle : RankOf(c) = n
  BY PlacesAndRanks
<1>2. /\ DOMAIN hired = {c \in idle : \E s \in slots : PlaceOf(s) = RankOf(c)}
      /\ \A c \in DOMAIN hired : hired[c] = Slot(c)[1]
  BY DEF Hired
<1>3. /\ IsFiniteSet(slots) /\ Cardinality(slots) \in Nat
      /\ \A s \in slots : s \in Nat \X Nat
      /\ \A s \in slots :
           s[1] \in Workplaces(city) /\ s[2] \in Nat
           /\ Cardinality(staff[s[1]]) < s[2] /\ s[2] <= Catalog[city[s[1]].kind].jobs
      /\ \A b \in Workplaces(city) :
           \A k \in (Cardinality(staff[b]) + 1)..Catalog[city[b].kind].jobs : <<b, k>> \in slots
  BY SlotFacts, FS_CardinalityType
<1>4. IsFiniteSet(idle) /\ Cardinality(idle) \in Nat
  BY FS_CardinalityType DEF Hirable
<1> HIDE DEF slots, PlaceOf, RankOf, hired
<1>5. ASSUME NEW c \in DOMAIN hired
      PROVE  Slot(c) \in slots /\ PlaceOf(Slot(c)) = RankOf(c) /\ hired[c] = Slot(c)[1] /\ c \in idle
  BY <1>2
<1>6. \A c, e \in DOMAIN hired : Slot(c) = Slot(e) => c = e
  BY <1>1, <1>5
<1> HIDE DEF Slot
<1>7. \A c \in DOMAIN hired : hired[c] \in Workplaces(city)
  BY <1>3, <1>5
<1>8. ASSUME NEW b \in Workplaces(city)
      PROVE  /\ Cardinality(staff[b] \cup Team(b)) <= Catalog[city[b].kind].jobs
             /\ idle \ DOMAIN hired # {} =>
                  Cardinality(staff[b] \cup Team(b)) >= Catalog[city[b].kind].jobs
  <2> DEFINE jobs == Catalog[city[b].kind].jobs
             filled == Cardinality(staff[b])
             open == (filled + 1)..jobs
             f == [c \in Team(b) |-> Slot(c)[2]]
  <2>1. /\ IsFiniteSet(staff[b]) /\ filled \in Nat /\ jobs \in Nat /\ filled <= jobs
        /\ staff[b] \cap Team(b) = {}
    <3>1. /\ b \in DOMAIN city /\ city[b].kind \in Kinds /\ IsFiniteSet(staff[b])
          /\ filled <= jobs /\ staff[b] \cap idle = {}
      BY DEF Hirable, Workplaces
    <3>2. QED
      BY <1>5, <3>1, KindFacts, FS_CardinalityType
  <2>2. IsFiniteSet(open) /\ Cardinality(open) = jobs - filled
    <3>1. filled + 1 \in Int /\ jobs \in Int
      BY <2>1
    <3>2. IsFiniteSet(open) /\ Cardinality(open) = IF filled + 1 > jobs THEN 0 ELSE jobs - (filled + 1) + 1
      BY <3>1, FS_Interval
    <3>3. QED
      BY <2>1, <3>2
  <2>3. \A c \in Team(b) : Slot(c) = <<b, Slot(c)[2]>> /\ Slot(c)[2] \in open
    BY <1>3, <1>5, <2>1
  <2>4. f \in Injection(Team(b), open)
    BY <1>6, <2>3 DEF Injection, IsInjective
  <2>5. IsFiniteSet(Team(b)) /\ Cardinality(Team(b)) <= jobs - filled /\ Cardinality(Team(b)) \in Nat
    BY <2>2, <2>4, FS_Injection, FS_CardinalityType
  <2>6. Cardinality(staff[b] \cup Team(b)) = filled + Cardinality(Team(b))
    <3>1. Cardinality(staff[b] \cup Team(b)) = filled + Cardinality(Team(b)) - Cardinality({})
      BY <2>1, <2>5, FS_Union
    <3>2. QED
      BY <2>1, <2>5, <3>1, FS_EmptySet
  <2>7. ASSUME idle \ DOMAIN hired # {} PROVE Cardinality(Team(b)) >= jobs - filled
    <3>1. PICK c0 \in idle : c0 \notin DOMAIN hired
      BY <2>7
    <3>2. Cardinality(slots) <= RankOf(c0) /\ RankOf(c0) < Cardinality(idle) /\ RankOf(c0) \in Nat
      <4>1. \A s \in slots : PlaceOf(s) # RankOf(c0)
        BY <1>2, <3>1
      <4>2. RankOf(c0) \in 0..(Cardinality(idle) - 1) /\ RankOf(c0) \notin 0..(Cardinality(slots) - 1)
        BY <1>1, <4>1
      <4>3. QED
        BY <1>3, <1>4, <4>2
    <3>3. ASSUME NEW k \in open PROVE \E c \in Team(b) : f[c] = k
      <4>1. <<b, k>> \in slots
        BY <1>3
      <4>2. PlaceOf(<<b, k>>) \in 0..(Cardinality(slots) - 1)
        BY <1>1, <4>1
      <4>3. PlaceOf(<<b, k>>) \in 0..(Cardinality(idle) - 1)
        BY <1>3, <1>4, <3>2, <4>2
      <4>4. PICK c \in idle : RankOf(c) = PlaceOf(<<b, k>>)
        BY <1>1, <4>3
      <4>5. c \in DOMAIN hired
        BY <1>2, <4>1, <4>4
      <4>6. Slot(c) = <<b, k>>
        BY <1>1, <1>5, <4>1, <4>4, <4>5
      <4>7. c \in Team(b) /\ Slot(c)[2] = k
        BY <1>5, <4>5, <4>6
      <4>8. QED
        BY <4>7
    <3>4. f \in Surjection(Team(b), open)
      BY <2>4, <3>3 DEF Surjection, Injection
    <3>5. Cardinality(open) <= Cardinality(Team(b))
      BY <2>5, <3>4, FS_Surjection
    <3>6. QED
      BY <2>2, <3>5
  <2>8. QED
    BY <2>1, <2>5, <2>6, <2>7
<1>9. DOMAIN hired \subseteq idle
  BY <1>2
<1>10. QED
  BY <1>7, <1>8, <1>9 DEF hired

-----------------------------------------------------------------------------
(* Building reconciliation: the steps of Reconcile by their names there.    *)

Lost(gone) == {c \in DOMAIN citizens : citizens[c].home \in gone}
Stay(gone) == DOMAIN citizens \ Lost(gone)
Cleared(gone) == {c \in Stay(gone) : citizens[c].job \in gone}
Staff(city, gone) == RowsWithout(city, Lost(gone), Cleared(gone))
Idle(gone) == (unassigned \ Lost(gone)) \cup Cleared(gone)
Hires(city, gone) == Hired(city, Staff(city, gone), Idle(gone))
Left(city, gone) == TripsAfter(gone, Lost(gone), Cleared(gone), Hires(city, gone))
ShiftThen(city, gone, c) ==
  IF c \in DOMAIN Hires(city, gone)
  THEN ShiftAt(c, city[Hires(city, gone)[c]].kind, citizens[c].shift) ELSE citizens[c].shift
JobThen(city, gone, c) ==
  IF c \in DOMAIN Hires(city, gone) THEN Hires(city, gone)[c]
  ELSE IF c \in Cleared(gone) THEN None ELSE citizens[c].job
Moved(city, gone) ==
  {c \in DOMAIN Hires(city, gone) : /\ ~Travelling(c) /\ citizens[c].wake # None
                                    /\ citizens[c].wake.kind = "DailyRoutine"}
Replans(city, gone) ==
  [c \in Moved(city, gone) \cup Stranded(Stay(gone), Left(city, gone)) |->
     IF c \in Moved(city, gone) THEN RoutineFromNow(ShiftThen(city, gone, c), now)
                                ELSE NextDailyRoutine(ShiftThen(city, gone, c), Day(now))]
WakeThen(city, gone, c) ==
  IF c \in DOMAIN Replans(city, gone) THEN Replans(city, gone)[c] ELSE citizens[c].wake

\* What a reconciliation is called with: the buildings that stay are as they were, and
\* the ones that are added stand from now on under ids nobody else has.
CityChange(city, gone, added) ==
  /\ demands = {} /\ now' = now
  /\ phase' \in {"rest", "due", "moved", "grown"}
  /\ gone \subseteq DOMAIN buildings /\ added \cap DOMAIN buildings = {}
  /\ city \in [DOMAIN city -> Building]
  /\ DOMAIN city = (DOMAIN buildings \ gone) \cup added
  /\ \A b \in DOMAIN buildings \ gone : city[b] = buildings[b]
  /\ placements' \in Nat /\ placements <= placements'
  /\ \A b \in added : /\ b \in 1..placements' /\ city[b].placedAt = now
                      /\ city[b].born = placements' /\ placements < placements'

\* The step, by those names.
LEMMA ReconcileStep ==
  ASSUME NEW city, NEW gone, NEW added, Reconcile(city, gone, added)
  PROVE  /\ buildings' = city /\ nextOrdinal' = nextOrdinal /\ demands' = demands
         /\ citizens' = [c \in Stay(gone) |->
              [citizens[c] EXCEPT !.job = JobThen(city, gone, c),
                                  !.shift = ShiftThen(city, gone, c),
                                  !.wake = WakeThen(city, gone, c)]]
         /\ rows' = [b \in DOMAIN Staff(city, gone) |->
              Staff(city, gone)[b] \cup {c \in DOMAIN Hires(city, gone) : Hires(city, gone)[c] = b}]
         /\ unassigned' = Idle(gone) \ DOMAIN Hires(city, gone)
         /\ wakes' = Rescheduled(wakes, Replans(city, gone))
         /\ moveIns' = moveIns \cup UNION {MoveInRows(b, city[b], 0) : b \in added}
         /\ trips' = Left(city, gone)
BY DEF Reconcile, Lost, Stay, Cleared, Staff, Idle, Hires, Left, ShiftThen, JobThen, Moved,
   Replans, WakeThen

\* The buildings that stand afterwards.
LEMMA CityFacts ==
  ASSUME IInv, NEW city, NEW gone, NEW added, CityChange(city, gone, added)
  PROVE  /\ DOMAIN city \subseteq 1..placements' /\ IsFiniteSet(DOMAIN city)
         /\ DOMAIN city \subseteq Nat
         /\ \A b \in DOMAIN city : /\ city[b].kind \in Kinds /\ city[b].placedAt \in Nat
                                   /\ city[b].born \in Nat /\ b \notin gone
                                   /\ Catalog[city[b].kind].jobs \in Nat
                                   /\ Catalog[city[b].kind].residents \in Nat
         /\ Workplaces(city) \subseteq DOMAIN city
         /\ \A b \in DOMAIN buildings : b \in Workplaces(city) <=> b \in Workplaces(buildings) \ gone
<1>0. DOMAIN buildings \subseteq 1..placements /\ placements \in Nat
  BY DEF IInv, TypeOK
<1>1. DOMAIN city \subseteq 1..placements'
  BY <1>0 DEF CityChange
<1>2. 1 \in Int /\ placements' \in Int /\ placements' \in Nat
  BY DEF CityChange
<1>3. IsFiniteSet(DOMAIN city)
  BY <1>1, <1>2, FS_Interval, FS_Subset
<1>4. ASSUME NEW b \in DOMAIN city
      PROVE  /\ city[b].kind \in Kinds /\ city[b].placedAt \in Nat /\ city[b].born \in Nat
             /\ b \notin gone
  BY DEF CityChange, Building
<1>5. Workplaces(city) \subseteq DOMAIN city
  BY DEF Workplaces
<1>6. \A b \in DOMAIN buildings : b \in Workplaces(city) <=> b \in Workplaces(buildings) \ gone
  BY DEF CityChange, Workplaces
<1>7. QED
  BY <1>1, <1>2, <1>3, <1>4, <1>5, <1>6, KindFacts

\* Who stays, who works where and who looks for work.
LEMMA PeopleFacts ==
  ASSUME IInv, NEW city, NEW gone, NEW added, CityChange(city, gone, added)
  PROVE  /\ \A c : c \in Stay(gone) <=> c \in DOMAIN citizens /\ citizens[c].home \notin gone
         /\ Stay(gone) \subseteq DOMAIN citizens
         /\ \A c : c \in Cleared(gone) <=> c \in Stay(gone) /\ citizens[c].job \in gone
         /\ \A c : c \in Idle(gone) <=>
              c \in Stay(gone) /\ citizens[c].shift # "school"
              /\ (citizens[c].job = None \/ citizens[c].job \in gone)
         /\ DOMAIN Staff(city, gone) = Workplaces(city)
         /\ \A b \in Workplaces(city) : Staff(city, gone)[b] = {c \in Stay(gone) : citizens[c].job = b}
<1>0. Settled /\ TypeOK
  BY DEF IInv
<1>1. /\ \A c : c \in Stay(gone) <=> c \in DOMAIN citizens /\ citizens[c].home \notin gone
      /\ \A c : c \in Cleared(gone) <=> c \in Stay(gone) /\ citizens[c].job \in gone
      /\ \A c : c \in Lost(gone) <=> c \in DOMAIN citizens /\ citizens[c].home \in gone
  BY DEF Stay, Lost, Cleared
<1>2. None \notin gone
  BY <1>0, StandingFacts, Constants DEF CityChange
<1>3. unassigned = {c \in DOMAIN citizens : citizens[c].job = None /\ citizens[c].shift # "school"}
  BY <1>0 DEF Settled, LoadedUnassigned
<1>4. \A c : c \in Idle(gone) <=>
              c \in Stay(gone) /\ citizens[c].shift # "school"
              /\ (citizens[c].job = None \/ citizens[c].job \in gone)
  <2>1. \A c \in DOMAIN citizens : citizens[c].job # None => citizens[c].shift # "school"
    BY <1>0 DEF Settled
  <2>2. QED
    BY <1>1, <1>2, <1>3, <2>1 DEF Idle
<1>5. DOMAIN Staff(city, gone) = Workplaces(city)
  BY DEF Staff, RowsWithout
<1>6. ASSUME NEW b \in Workplaces(city)
      PROVE  Staff(city, gone)[b] = {c \in Stay(gone) : citizens[c].job = b}
  <2>1. DOMAIN rows = Workplaces(buildings) /\ Workplaces(buildings) \subseteq DOMAIN buildings
    BY <1>0 DEF TypeOK, Workplaces
  <2>2. None \notin DOMAIN city /\ b \in DOMAIN city /\ b \notin gone /\ b # None
    BY CityFacts, Constants
  <2>3. CASE b \in DOMAIN rows
    <3>1. rows[b] = {c \in DOMAIN citizens : citizens[c].job = b}
      BY <1>0, <2>1, <2>3 DEF Settled, LoadedRows
    <3>2. Staff(city, gone)[b] = rows[b] \ Lost(gone)
      BY <2>3 DEF Staff, RowsWithout
    <3>3. QED
      BY <1>1, <3>1, <3>2
  <2>4. CASE b \notin DOMAIN rows
    <3>1. Staff(city, gone)[b] = {}
      BY <2>4 DEF Staff, RowsWithout
    <3>2. \A c \in DOMAIN citizens : citizens[c].job # b
      BY <1>0, <2>2, <2>4 DEF Settled
    <3>3. QED
      BY <1>1, <3>1, <3>2
  <2>5. QED
    BY <2>3, <2>4
<1>7. Stay(gone) \subseteq DOMAIN citizens
  BY <1>1
<1>8. QED
  BY <1>1, <1>4, <1>5, <1>6, <1>7

\* Whom the open jobs go to.
LEMMA HiresFacts ==
  ASSUME IInv, NEW city, NEW gone, NEW added, CityChange(city, gone, added)
  PROVE  /\ \A c \in DOMAIN Hires(city, gone) :
              /\ c \in Idle(gone) /\ c \in Stay(gone) /\ c \in DOMAIN citizens
              /\ Hires(city, gone)[c] \in Workplaces(city)
              /\ Hires(city, gone)[c] \in DOMAIN city /\ Hires(city, gone)[c] # None
         /\ \A c \in Stay(gone) : /\ ShiftThen(city, gone, c) \in Shifts
                                  /\ ShiftThen(city, gone, c) = "school" <=> citizens[c].shift = "school"
         /\ \A b \in Workplaces(city) :
              Cardinality(Staff(city, gone)[b]
                            \cup {c \in DOMAIN Hires(city, gone) : Hires(city, gone)[c] = b})
                <= Catalog[city[b].kind].jobs
         /\ Idle(gone) \ DOMAIN Hires(city, gone) = {} \/ \A b \in Workplaces(city) :
              Cardinality(Staff(city, gone)[b]
                            \cup {c \in DOMAIN Hires(city, gone) : Hires(city, gone)[c] = b})
                >= Catalog[city[b].kind].jobs
<1>0. TypeOK /\ WithinRoom /\ Settled
  BY DEF IInv
<1>1. /\ Stay(gone) \subseteq DOMAIN citizens
      /\ \A c \in Idle(gone) : c \in Stay(gone) /\ citizens[c].shift # "school"
                               /\ (citizens[c].job = None \/ citizens[c].job \in gone)
      /\ \A b \in Workplaces(city) : Staff(city, gone)[b] = {c \in Stay(gone) : citizens[c].job = b}
  BY PeopleFacts
<1>2. /\ DOMAIN city \subseteq Nat /\ IsFiniteSet(DOMAIN city) /\ Workplaces(city) \subseteq DOMAIN city
      /\ \A b \in DOMAIN city : city[b].kind \in Kinds /\ b \notin gone
                                /\ Catalog[city[b].kind].jobs \in Nat
      /\ \A b \in DOMAIN buildings : b \in Workplaces(city) <=> b \in Workplaces(buildings) \ gone
  BY CityFacts
<1>3. /\ IsFiniteSet(DOMAIN citizens) /\ DOMAIN citizens \subseteq Nat
      /\ \A c \in DOMAIN citizens : citizens[c].shift \in Shifts
  BY <1>0, CitizenFacts DEF Citizen
<1>4. Hirable(city, Staff(city, gone), Idle(gone))
  <2>1. ASSUME NEW b \in Workplaces(city)
        PROVE  /\ IsFiniteSet(Staff(city, gone)[b])
               /\ Cardinality(Staff(city, gone)[b]) <= Catalog[city[b].kind].jobs
               /\ Staff(city, gone)[b] \cap Idle(gone) = {}
    <3>1. IsFiniteSet(Staff(city, gone)[b])
      BY <1>1, <1>3, FS_Subset
    <3>2. Staff(city, gone)[b] \cap Idle(gone) = {}
      BY <1>1, <1>2, Constants
    <3>3. CASE b \in DOMAIN buildings
      <4>1. b \in Workplaces(buildings) /\ city[b] = buildings[b] /\ b \in DOMAIN rows
        BY <1>0, <1>2, <3>3 DEF CityChange, TypeOK
      <4>2. rows[b] = {c \in DOMAIN citizens : citizens[c].job = b}
        BY <1>0, <4>1 DEF Settled, LoadedRows
      <4>3. IsFiniteSet(rows[b]) /\ Staff(city, gone)[b] \subseteq rows[b]
        BY <1>1, <1>3, <4>2, FS_Subset
      <4>4. Cardinality(Staff(city, gone)[b]) <= Cardinality(rows[b])
        BY <4>3, FS_Subset
      <4>5. Cardinality(rows[b]) <= Catalog[city[b].kind].jobs
        BY <1>0, <4>1 DEF WithinRoom
      <4>6. Cardinality(rows[b]) \in Nat /\ Cardinality(Staff(city, gone)[b]) \in Nat
        BY <3>1, <4>3, FS_CardinalityType
      <4>7. QED
        BY <1>2, <3>1, <3>2, <4>4, <4>5, <4>6
    <3>4. CASE b \notin DOMAIN buildings
      <4>1. \A c \in DOMAIN citizens : citizens[c].job # b
        BY <1>0, <1>2, <3>4, Constants DEF Settled, TypeOK, Workplaces
      <4>2. Staff(city, gone)[b] = {}
        BY <1>1, <4>1
      <4>3. QED
        BY <1>2, <3>1, <3>2, <4>2, FS_EmptySet
    <3>5. QED
      BY <3>3, <3>4
  <2>2. Idle(gone) \subseteq DOMAIN citizens
    BY <1>1
  <2>3. Idle(gone) \subseteq Nat /\ IsFiniteSet(Idle(gone))
    BY <1>3, <2>2, FS_Subset
  <2>4. QED
    BY <1>2, <2>1, <2>3 DEF Hirable
<1> DEFINE Team(b) == {c \in DOMAIN Hires(city, gone) : Hires(city, gone)[c] = b}
<1>5. /\ DOMAIN Hires(city, gone) \subseteq Idle(gone)
      /\ \A c \in DOMAIN Hires(city, gone) : Hires(city, gone)[c] \in Workplaces(city)
      /\ \A b \in Workplaces(city) :
           Cardinality(Staff(city, gone)[b] \cup Team(b)) <= Catalog[city[b].kind].jobs
      /\ Idle(gone) \ DOMAIN Hires(city, gone) = {} \/ \A b \in Workplaces(city) :
           Cardinality(Staff(city, gone)[b] \cup Team(b)) >= Catalog[city[b].kind].jobs
  BY <1>4, HiredFacts DEF Hires
<1>6. ASSUME NEW c \in DOMAIN Hires(city, gone)
      PROVE  /\ c \in Idle(gone) /\ c \in Stay(gone) /\ c \in DOMAIN citizens
             /\ Hires(city, gone)[c] \in Workplaces(city)
             /\ Hires(city, gone)[c] \in DOMAIN city /\ Hires(city, gone)[c] # None
  BY <1>1, <1>2, <1>5, Constants
<1>7. ASSUME NEW c \in Stay(gone)
      PROVE  /\ ShiftThen(city, gone, c) \in Shifts
             /\ ShiftThen(city, gone, c) = "school" <=> citizens[c].shift = "school"
  <2>1. c \in DOMAIN citizens /\ c \in Nat /\ citizens[c].shift \in Shifts
    BY <1>1, <1>3
  <2>2. CASE c \in DOMAIN Hires(city, gone)
    <3>1. city[Hires(city, gone)[c]].kind \in Kinds /\ citizens[c].shift # "school"
      BY <1>1, <1>2, <1>6, <2>2
    <3>2. ShiftThen(city, gone, c) = ShiftAt(c, city[Hires(city, gone)[c]].kind, citizens[c].shift)
      BY <2>2 DEF ShiftThen
    <3>3. QED
      BY <2>1, <3>1, <3>2, ShiftAtWork
  <2>3. CASE c \notin DOMAIN Hires(city, gone)
    BY <2>1, <2>3 DEF ShiftThen
  <2>4. QED
    BY <2>2, <2>3
<1>8. QED
  BY <1>5, <1>6, <1>7

\* A trip that goes on belongs to somebody who stays, and goes where it went unless it
\* was on the way to a job that is gone.
LEMMA LeftFacts ==
  ASSUME NEW city, NEW gone, NEW e \in Left(city, gone)
  PROVE  \E trip \in trips :
           /\ trip.citizen \notin Lost(gone)
           /\ \/ /\ trip.purpose = "CommuteOutbound" /\ trip.citizen \in Cleared(gone)
                 /\ trip.citizen \in DOMAIN Hires(city, gone)
                 /\ e = [trip EXCEPT !.to = Hires(city, gone)[trip.citizen]]
              \/ /\ trip.purpose = "CommuteOutbound" => trip.citizen \notin Cleared(gone)
                 /\ trip.purpose \in Outbound => trip.to \notin gone
                 /\ e = trip
<1> DEFINE lost == Lost(gone)
           cleared == Cleared(gone)
           hired == Hires(city, gone)
           Redirected(trip) == trip.purpose = "CommuteOutbound" /\ trip.citizen \in cleared
           Kept(trip) ==
             /\ trip.citizen \notin lost
             /\ IF Redirected(trip) THEN trip.citizen \in DOMAIN hired
                ELSE ~(trip.purpose \in Outbound /\ trip.to \in gone)
<1>1. Left(city, gone) =
        {IF Redirected(trip) THEN [trip EXCEPT !.to = hired[trip.citizen]] ELSE trip :
           trip \in {t \in trips : Kept(t)}}
  BY DEF Left, TripsAfter
<1>2. PICK trip \in {t \in trips : Kept(t)} :
        e = IF Redirected(trip) THEN [trip EXCEPT !.to = hired[trip.citizen]] ELSE trip
  BY <1>1
<1>3. CASE Redirected(trip)
  BY <1>2, <1>3
<1>4. CASE ~Redirected(trip)
  BY <1>2, <1>4
<1>5. QED
  BY <1>3, <1>4

\* Every trip that goes on has its citizen, purpose and day from a trip of before.
LEMMA RerouteFacts ==
  ASSUME IInv, NEW city, NEW gone, NEW added, CityChange(city, gone, added),
         NEW e \in Left(city, gone)
  PROVE  /\ e \in Trip /\ e.citizen \in Stay(gone) /\ citizens[e.citizen].wake = None
         /\ Travelling(e.citizen)
         /\ e.purpose \in (IF citizens[e.citizen].away THEN Purposes \ Outbound ELSE Outbound)
         /\ e.to \in DOMAIN city
         /\ e.purpose \notin Outbound => e.to = citizens[e.citizen].home
         /\ e.purpose = "CommuteOutbound" /\ e.citizen \in Cleared(gone) =>
              e.citizen \in DOMAIN Hires(city, gone) /\ e.to = Hires(city, gone)[e.citizen]
         /\ e.purpose = "CommuteOutbound" /\ e.citizen \notin Cleared(gone) =>
              e.to \in Destinations(e.citizen) /\ e.to \in DOMAIN buildings \ gone
         /\ \A f \in Left(city, gone) : e.citizen = f.citizen => e = f
<1>0. TypeOK /\ Owned /\ JourneysMatchWhereabouts /\ Homebound
  BY DEF IInv
<1> DEFINE From(trip, f) ==
      /\ trip.citizen \notin Lost(gone)
      /\ \/ /\ trip.purpose = "CommuteOutbound" /\ trip.citizen \in Cleared(gone)
            /\ trip.citizen \in DOMAIN Hires(city, gone)
            /\ f = [trip EXCEPT !.to = Hires(city, gone)[trip.citizen]]
         \/ /\ trip.purpose = "CommuteOutbound" => trip.citizen \notin Cleared(gone)
            /\ trip.purpose \in Outbound => trip.to \notin gone
            /\ f = trip
<1>1. PICK trip \in trips : From(trip, e)
  BY LeftFacts
<1>2. /\ trip \in Trip /\ trip.citizen \in DOMAIN citizens /\ citizens[trip.citizen].wake = None
      /\ trip.purpose \in (IF citizens[trip.citizen].away THEN Purposes \ Outbound ELSE Outbound)
      /\ trip.to \in DOMAIN buildings
      /\ trip.purpose = "CommuteOutbound" => trip.to \in Destinations(trip.citizen)
      /\ trip.purpose \notin Outbound => trip.to = citizens[trip.citizen].home
  BY <1>0 DEF TypeOK, Owned, JourneysMatchWhereabouts, Homebound
<1>3. /\ trip.citizen \in Stay(gone) /\ citizens[trip.citizen].home \notin gone
      /\ Travelling(trip.citizen)
  BY <1>1, <1>2 DEF Stay, Lost, Travelling
<1>4. /\ DOMAIN city \subseteq Nat /\ DOMAIN buildings \ gone \subseteq DOMAIN city
      /\ \A c \in DOMAIN Hires(city, gone) : Hires(city, gone)[c] \in DOMAIN city
  BY CityFacts, HiresFacts DEF CityChange
<1>5. \A f \in Left(city, gone) : e.citizen = f.citizen => e = f
  <2>1. ASSUME NEW f \in Left(city, gone), e.citizen = f.citizen PROVE e = f
    <3>1. PICK other \in trips : From(other, f)
      BY LeftFacts
    <3>2. other \in Trip
      BY <1>0 DEF TypeOK
    <3>3. e.citizen = trip.citizen /\ f.citizen = other.citizen
      BY <1>1, <1>2, <3>1, <3>2 DEF Trip
    <3>4. trip = other
      BY <1>0, <2>1, <3>3 DEF Owned
    <3>5. QED
      BY <1>1, <3>1, <3>4
  <2>2. QED
    BY <2>1
<1>6. CASE /\ trip.purpose = "CommuteOutbound" /\ trip.citizen \in Cleared(gone)
           /\ trip.citizen \in DOMAIN Hires(city, gone)
           /\ e = [trip EXCEPT !.to = Hires(city, gone)[trip.citizen]]
  <2>1. Hires(city, gone)[trip.citizen] \in DOMAIN city /\ Hires(city, gone)[trip.citizen] \in Nat
    BY <1>4, <1>6
  <2>2. /\ e.citizen = trip.citizen /\ e.purpose = trip.purpose
        /\ e.to = Hires(city, gone)[trip.citizen] /\ e \in Trip
    BY <1>2, <1>6, <2>1 DEF Trip
  <2>3. QED
    BY <1>2, <1>3, <1>5, <1>6, <2>1, <2>2 DEF Outbound
<1>7. CASE /\ trip.purpose = "CommuteOutbound" => trip.citizen \notin Cleared(gone)
           /\ trip.purpose \in Outbound => trip.to \notin gone
           /\ e = trip
  <2>1. trip.to \in DOMAIN buildings \ gone
    BY <1>2, <1>3, <1>7
  <2>2. QED
    BY <1>2, <1>3, <1>4, <1>5, <1>7, <2>1
<1>8. QED
  BY <1>1, <1>6, <1>7

\* Who gets a new routine, and that nobody is left without a wake or a trip.
LEMMA ReplanFacts ==
  ASSUME IInv, NEW city, NEW gone, NEW added, CityChange(city, gone, added)
  PROVE  /\ \A c \in DOMAIN Replans(city, gone) :
              /\ c \in Stay(gone) /\ \A e \in Left(city, gone) : e.citizen # c
              /\ citizens[c].wake # None => citizens[c].wake.kind = "DailyRoutine"
              /\ Replans(city, gone)[c] \in Wake /\ Replans(city, gone)[c] # None
              /\ Replans(city, gone)[c].kind = "DailyRoutine"
              /\ Replans(city, gone)[c].due \in Nat /\ Replans(city, gone)[c].due >= now
              /\ AtDeparture(Replans(city, gone)[c].due)
         /\ \A c \in Stay(gone) \ DOMAIN Replans(city, gone) :
              citizens[c].wake = None => \E e \in Left(city, gone) : e.citizen = c
<1>0. TypeOK /\ Owned /\ now \in Nat /\ demands = {}
  BY DEF IInv, TypeOK, CityChange
<1>1. DOMAIN Replans(city, gone) = Moved(city, gone) \cup Stranded(Stay(gone), Left(city, gone))
  BY DEF Replans
<1>2. Stay(gone) \subseteq DOMAIN citizens
  BY PeopleFacts
<1>3. ASSUME NEW c \in DOMAIN Replans(city, gone)
      PROVE  /\ c \in Stay(gone) /\ \A e \in Left(city, gone) : e.citizen # c
             /\ citizens[c].wake # None => citizens[c].wake.kind = "DailyRoutine"
  <2>1. CASE c \in Moved(city, gone)
    <3>1. /\ c \in DOMAIN Hires(city, gone) /\ ~Travelling(c) /\ citizens[c].wake # None
          /\ citizens[c].wake.kind = "DailyRoutine"
      BY <2>1 DEF Moved
    <3>2. \A e \in Left(city, gone) : Travelling(e.citizen)
      BY RerouteFacts
    <3>3. QED
      BY <3>1, <3>2, HiresFacts
  <2>2. CASE c \in Stranded(Stay(gone), Left(city, gone))
    BY <2>2 DEF Stranded
  <2>3. QED
    BY <1>1, <2>1, <2>2
<1>4. ASSUME NEW c \in DOMAIN Replans(city, gone)
      PROVE  /\ Replans(city, gone)[c] \in Wake /\ Replans(city, gone)[c] # None
             /\ Replans(city, gone)[c].kind = "DailyRoutine"
             /\ Replans(city, gone)[c].due \in Nat /\ Replans(city, gone)[c].due >= now
             /\ AtDeparture(Replans(city, gone)[c].due)
  <2>1. ShiftThen(city, gone, c) \in Shifts
    BY <1>3, HiresFacts
  <2>2. \/ Replans(city, gone)[c] = RoutineFromNow(ShiftThen(city, gone, c), now)
        \/ Replans(city, gone)[c] = NextDailyRoutine(ShiftThen(city, gone, c), Day(now))
    BY DEF Replans
  <2>3. /\ Replans(city, gone)[c] \in Wake /\ Replans(city, gone)[c].kind = "DailyRoutine"
        /\ Replans(city, gone)[c].due >= now /\ AtDeparture(Replans(city, gone)[c].due)
    BY <1>0, <2>1, <2>2, RoutineTypes
  <2>4. QED
    BY <2>3, NoneIsNoActivity DEF Wake
<1>5. ASSUME NEW c \in Stay(gone), c \notin DOMAIN Replans(city, gone), citizens[c].wake = None
      PROVE  \E e \in Left(city, gone) : e.citizen = c
  <2>1. Travelling(c)
    BY <1>0, <1>2, <1>5 DEF Owned, Travelling
  <2>2. c \notin Stranded(Stay(gone), Left(city, gone))
    BY <1>1, <1>5
  <2>3. QED
    BY <1>5, <2>1, <2>2 DEF Stranded
<1>6. QED
  BY <1>3, <1>4, <1>5

\* Citizens after the reconciliation, field by field.
LEMMA CitizensThen ==
  ASSUME IInv, NEW city, NEW gone, NEW added, CityChange(city, gone, added),
         Reconcile(city, gone, added)
  PROVE  /\ DOMAIN citizens' = Stay(gone) /\ Stay(gone) \subseteq DOMAIN citizens
         /\ citizens' \in [DOMAIN citizens' -> Citizen]
         /\ \A c \in Stay(gone) : /\ citizens'[c].home = citizens[c].home
                                  /\ citizens'[c].away = citizens[c].away
                                  /\ citizens'[c].job = JobThen(city, gone, c)
                                  /\ citizens'[c].shift = ShiftThen(city, gone, c)
                                  /\ citizens'[c].wake = WakeThen(city, gone, c)
<1>0. TypeOK
  BY DEF IInv
<1>1. citizens' = [c \in Stay(gone) |->
        [citizens[c] EXCEPT !.job = JobThen(city, gone, c),
                            !.shift = ShiftThen(city, gone, c),
                            !.wake = WakeThen(city, gone, c)]]
  BY ReconcileStep
<1>2. Stay(gone) \subseteq DOMAIN citizens
  BY PeopleFacts
<1>3. ASSUME NEW c \in Stay(gone)
      PROVE  /\ citizens[c] \in Citizen
             /\ JobThen(city, gone, c) \in Nat \cup {None}
             /\ ShiftThen(city, gone, c) \in Shifts
             /\ WakeThen(city, gone, c) \in Wake \cup {None}
  <2>1. citizens[c] \in Citizen
    BY <1>0, <1>2, CitizenFacts
  <2>2. JobThen(city, gone, c) \in Nat \cup {None}
    <3>1. DOMAIN city \subseteq Nat /\ citizens[c].job \in Nat \cup {None}
      BY <2>1, CityFacts DEF Citizen
    <3>2. QED
      BY <3>1, HiresFacts DEF JobThen
  <2>3. ShiftThen(city, gone, c) \in Shifts
    BY HiresFacts
  <2>4. WakeThen(city, gone, c) \in Wake \cup {None}
    <3>1. citizens[c].wake \in Wake \cup {None}
      BY <2>1 DEF Citizen
    <3>2. QED
      BY <3>1, ReplanFacts DEF WakeThen
  <2>5. QED
    BY <2>1, <2>2, <2>3, <2>4
<1>4. ASSUME NEW c \in Stay(gone)
      PROVE  /\ citizens'[c] \in Citizen
             /\ citizens'[c].home = citizens[c].home
             /\ citizens'[c].away = citizens[c].away
             /\ citizens'[c].job = JobThen(city, gone, c)
             /\ citizens'[c].shift = ShiftThen(city, gone, c)
             /\ citizens'[c].wake = WakeThen(city, gone, c)
  BY <1>1, <1>3 DEF Citizen
<1>5. DOMAIN citizens' = Stay(gone)
  BY <1>1
<1>6. citizens' \in [DOMAIN citizens' -> Citizen]
  BY <1>1, <1>4, <1>5
<1>7. QED
  BY <1>2, <1>4, <1>5, <1>6

\* The wakes of the scheduler after the reconciliation.
LEMMA WakesThen ==
  ASSUME IInv, NEW city, NEW gone, NEW added, CityChange(city, gone, added),
         Reconcile(city, gone, added)
  PROVE  Queued' /\ wakes' \subseteq Nat \X Nat /\ \A w \in wakes' : w[2] >= now
<1>0. TypeOK /\ Queued /\ NothingOverdue
  BY DEF IInv
<1> DEFINE new == Replans(city, gone)
<1>1. /\ DOMAIN citizens' = Stay(gone) /\ Stay(gone) \subseteq DOMAIN citizens
      /\ \A c \in Stay(gone) : citizens'[c].wake = IF c \in DOMAIN new THEN new[c] ELSE citizens[c].wake
      /\ nextOrdinal' = nextOrdinal
  <2>1. /\ DOMAIN citizens' = Stay(gone) /\ Stay(gone) \subseteq DOMAIN citizens
        /\ \A c \in Stay(gone) : citizens'[c].wake = WakeThen(city, gone, c)
    BY CitizensThen
  <2>2. nextOrdinal' = nextOrdinal
    BY ReconcileStep
  <2>3. QED
    BY <2>1, <2>2 DEF WakeThen
<1>2. \A c \in DOMAIN new : /\ c \in Stay(gone) /\ c \in DOMAIN citizens
                            /\ new[c] # None /\ new[c].due \in Nat /\ new[c].due >= now
                            /\ c \in Nat /\ c < nextOrdinal
  BY <1>0, <1>1, ReplanFacts, CitizenFacts
<1>3. \A w : w \in wakes' <=>
        \/ /\ w \in wakes
           /\ ~\E c \in DOMAIN new : citizens[c].wake # None /\ w = <<c, citizens[c].wake.due>>
        \/ \E c \in DOMAIN new : w = <<c, new[c].due>>
  <2>1. wakes' = Rescheduled(wakes, new)
    BY ReconcileStep
  <2> HIDE DEF new
  <2> DEFINE old == {<<c, citizens[c].wake.due>> :
                       c \in {e \in DOMAIN new \cap DOMAIN citizens : citizens[e].wake # None}}
             fresh == {<<c, new[c].due>> : c \in DOMAIN new}
  <2>2. wakes' = (wakes \ old) \cup fresh
    BY <2>1 DEF Rescheduled
  <2>3. \A w : w \in old <=> \E c \in DOMAIN new : citizens[c].wake # None /\ w = <<c, citizens[c].wake.due>>
    BY <1>2
  <2>4. \A w : w \in fresh <=> \E c \in DOMAIN new : w = <<c, new[c].due>>
    OBVIOUS
  <2> HIDE DEF old, fresh
  <2>5. QED
    BY <2>2, <2>3, <2>4
<1> HIDE DEF new
<1>4. wakes' \subseteq Nat \X Nat /\ \A w \in wakes' : w[2] >= now
  BY <1>0, <1>2, <1>3 DEF TypeOK, NothingOverdue
<1>5. ASSUME NEW w \in wakes'
      PROVE  /\ w[1] < nextOrdinal
             /\ w[1] \in Stay(gone) => citizens'[w[1]].wake # None /\ citizens'[w[1]].wake.due = w[2]
  <2>1. CASE \E c \in DOMAIN new : w = <<c, new[c].due>>
    BY <1>1, <1>2, <2>1
  <2>2. CASE /\ w \in wakes
             /\ ~\E c \in DOMAIN new : citizens[c].wake # None /\ w = <<c, citizens[c].wake.due>>
    <3>1. /\ w = <<w[1], w[2]>> /\ w[1] < nextOrdinal
          /\ w[1] \in Stay(gone) => citizens[w[1]].wake # None /\ citizens[w[1]].wake.due = w[2]
      BY <1>0, <1>1, <2>2 DEF TypeOK, Queued
    <3>2. w[1] \in Stay(gone) => w[1] \notin DOMAIN new
      BY <2>2, <3>1
    <3>3. QED
      BY <1>1, <3>1, <3>2
  <2>3. QED
    BY <1>3, <2>1, <2>2
<1>6. ASSUME NEW c \in Stay(gone), citizens'[c].wake # None
      PROVE  <<c, citizens'[c].wake.due>> \in wakes'
  <2>1. CASE c \in DOMAIN new
    BY <1>1, <1>3, <2>1
  <2>2. CASE c \notin DOMAIN new
    <3>1. <<c, citizens[c].wake.due>> \in wakes /\ citizens'[c].wake = citizens[c].wake
      BY <1>0, <1>1, <1>6, <2>2 DEF Queued
    <3>2. ~\E e \in DOMAIN new : citizens[e].wake # None /\ <<c, citizens[c].wake.due>> = <<e, citizens[e].wake.due>>
      BY <2>2
    <3>3. QED
      BY <1>3, <3>1, <3>2
  <2>3. QED
    BY <2>1, <2>2
<1>7. Queued'
  BY <1>1, <1>5, <1>6 DEF Queued
<1>8. QED
  BY <1>4, <1>7

\* Homes, jobs and the unassigned afterwards.
LEMMA SettledThen ==
  ASSUME IInv, NEW city, NEW gone, NEW added, CityChange(city, gone, added),
         Reconcile(city, gone, added)
  PROVE  Settled' /\ rows' \in [Workplaces(city) -> SUBSET Nat] /\ unassigned' \subseteq Nat
<1>0. TypeOK /\ Settled
  BY DEF IInv
<1> DEFINE hired == Hires(city, gone)
           Team(b) == {c \in DOMAIN hired : hired[c] = b}
<1>1. /\ DOMAIN citizens' = Stay(gone) /\ Stay(gone) \subseteq DOMAIN citizens
      /\ \A c \in Stay(gone) : /\ citizens'[c].home = citizens[c].home
                               /\ citizens'[c].job = JobThen(city, gone, c)
                               /\ citizens'[c].shift = ShiftThen(city, gone, c)
  BY CitizensThen
<1>2. /\ \A c : c \in Stay(gone) <=> c \in DOMAIN citizens /\ citizens[c].home \notin gone
      /\ \A c : c \in Cleared(gone) <=> c \in Stay(gone) /\ citizens[c].job \in gone
      /\ \A c : c \in Idle(gone) <=>
           c \in Stay(gone) /\ citizens[c].shift # "school"
           /\ (citizens[c].job = None \/ citizens[c].job \in gone)
      /\ DOMAIN Staff(city, gone) = Workplaces(city)
      /\ \A b \in Workplaces(city) : Staff(city, gone)[b] = {c \in Stay(gone) : citizens[c].job = b}
  BY PeopleFacts
<1>3. /\ \A c \in DOMAIN hired : c \in Idle(gone) /\ c \in Stay(gone)
                                 /\ hired[c] \in Workplaces(city) /\ hired[c] # None
      /\ \A c \in Stay(gone) : ShiftThen(city, gone, c) = "school" <=> citizens[c].shift = "school"
  BY HiresFacts
<1>4. /\ Workplaces(city) \subseteq DOMAIN city
      /\ \A b \in DOMAIN city : b \notin gone /\ b # None
      /\ \A b \in DOMAIN buildings : b \in Workplaces(city) <=> b \in Workplaces(buildings) \ gone
      /\ \A b \in gone : b # None
  <2>1. \A b \in gone : b # None
    BY <1>0, StandingFacts, Constants DEF CityChange
  <2>2. \A b \in DOMAIN city : b \notin gone /\ b # None
    BY CityFacts, Constants
  <2>3. QED
    BY <2>1, <2>2, CityFacts
<1>5. /\ buildings' = city
      /\ rows' = [b \in Workplaces(city) |-> Staff(city, gone)[b] \cup Team(b)]
      /\ unassigned' = Idle(gone) \ DOMAIN hired
  <2>1. rows' = [b \in DOMAIN Staff(city, gone) |-> Staff(city, gone)[b] \cup Team(b)]
    BY ReconcileStep
  <2>2. QED
    BY <1>2, <2>1, ReconcileStep
<1> HIDE DEF hired
<1>6. \A c \in Stay(gone) : JobThen(city, gone, c) =
        IF c \in DOMAIN hired THEN hired[c] ELSE IF c \in Cleared(gone) THEN None ELSE citizens[c].job
  BY DEF JobThen, hired
<1>7. ASSUME NEW c \in Stay(gone)
      PROVE  /\ citizens'[c].home \in DOMAIN city
             /\ citizens'[c].job \in Workplaces(city) \cup {None}
             /\ citizens'[c].job # None => citizens'[c].shift # "school"
  <2>1. /\ citizens[c].home \in DOMAIN buildings /\ citizens[c].home \notin gone
        /\ citizens[c].job \in Workplaces(buildings) \cup {None}
        /\ citizens[c].job # None => citizens[c].shift # "school"
        /\ Workplaces(buildings) \subseteq DOMAIN buildings
    BY <1>0, <1>2 DEF Settled, TypeOK, Workplaces
  <2>2. citizens'[c].home \in DOMAIN city
    BY <1>1, <2>1 DEF CityChange
  <2>3. QED
    BY <1>1, <1>2, <1>3, <1>4, <1>6, <2>1, <2>2
<1>8. ASSUME NEW b \in Workplaces(city)
      PROVE  rows'[b] = {c \in Stay(gone) : citizens'[c].job = b}
  <2>1. b # None /\ b \notin gone
    BY <1>4
  <2>2. \A c \in Stay(gone) : citizens[c].job = b => c \notin Idle(gone) /\ c \notin Cleared(gone)
    BY <1>2, <2>1
  <2>3. \A c \in Stay(gone) : citizens'[c].job = b <=> citizens[c].job = b \/ c \in Team(b)
    BY <1>1, <1>3, <1>6, <2>1, <2>2
  <2>4. rows'[b] = Staff(city, gone)[b] \cup Team(b)
    BY <1>5
  <2>5. QED
    BY <1>2, <1>3, <2>3, <2>4
<1>9. rows' = [b \in Workplaces(city) |-> {c \in Stay(gone) : citizens'[c].job = b}]
  BY <1>5, <1>8
<1>10. unassigned' = {c \in Stay(gone) : citizens'[c].job = None /\ citizens'[c].shift # "school"}
  <2>1. \A c \in Stay(gone) : citizens'[c].job = None /\ citizens'[c].shift # "school" <=>
           c \in Idle(gone) /\ c \notin DOMAIN hired
    BY <1>1, <1>2, <1>3, <1>4, <1>6
  <2>2. QED
    BY <1>2, <1>5, <2>1
<1>11. Settled'
  BY <1>1, <1>5, <1>7, <1>9, <1>10 DEF Settled, LoadedRows, LoadedUnassigned, Workplaces
<1>12. Stay(gone) \subseteq Nat
  BY <1>0, <1>1, CitizenFacts
<1>13. QED
  BY <1>9, <1>10, <1>11, <1>12

\* Who is under way afterwards, and where to.
LEMMA JourneysThen ==
  ASSUME IInv, NEW city, NEW gone, NEW added, CityChange(city, gone, added),
         Reconcile(city, gone, added)
  PROVE  Owned' /\ JourneysMatchWhereabouts' /\ Homebound' /\ RoutineTimes'
<1>0. TypeOK /\ Owned /\ JourneysMatchWhereabouts /\ RoutineTimes /\ Settled
  BY DEF IInv
<1>1. /\ DOMAIN citizens' = Stay(gone) /\ Stay(gone) \subseteq DOMAIN citizens
      /\ \A c \in Stay(gone) : /\ citizens'[c].home = citizens[c].home
                               /\ citizens'[c].away = citizens[c].away
                               /\ citizens'[c].job = JobThen(city, gone, c)
                               /\ citizens'[c].shift = ShiftThen(city, gone, c)
                               /\ citizens'[c].wake = WakeThen(city, gone, c)
  BY CitizensThen
<1>2. /\ buildings' = city /\ demands' = {} /\ trips' = Left(city, gone)
  BY ReconcileStep DEF CityChange
<1>3. /\ \A c \in DOMAIN Replans(city, gone) :
              /\ c \in Stay(gone) /\ \A e \in Left(city, gone) : e.citizen # c
              /\ citizens[c].wake # None => citizens[c].wake.kind = "DailyRoutine"
              /\ Replans(city, gone)[c] # None
              /\ Replans(city, gone)[c].kind = "DailyRoutine"
              /\ AtDeparture(Replans(city, gone)[c].due)
      /\ \A c \in Stay(gone) \ DOMAIN Replans(city, gone) :
              citizens[c].wake = None => \E e \in Left(city, gone) : e.citizen = c
  BY ReplanFacts
<1>4. \A e \in Left(city, gone) :
         /\ e.citizen \in Stay(gone) /\ citizens[e.citizen].wake = None
         /\ e.purpose \in (IF citizens[e.citizen].away THEN Purposes \ Outbound ELSE Outbound)
         /\ e.to \in DOMAIN city
         /\ e.purpose \notin Outbound => e.to = citizens[e.citizen].home
         /\ \A f \in Left(city, gone) : e.citizen = f.citizen => e = f
  BY RerouteFacts
<1>5. Owned'
  <2>1. \A e \in Left(city, gone) : citizens'[e.citizen].wake = None
    BY <1>1, <1>3, <1>4 DEF WakeThen
  <2>2. \A c \in Stay(gone) : citizens'[c].wake = None => \E e \in Left(city, gone) : e.citizen = c
    BY <1>1, <1>3 DEF WakeThen
  <2>3. QED
    BY <1>1, <1>2, <1>4, <2>1, <2>2 DEF Owned
<1>6. Homebound'
  BY <1>1, <1>2, <1>4 DEF Homebound
<1>7. RoutineTimes'
  BY <1>0, <1>1, <1>3 DEF RoutineTimes, WakeThen
<1>8. \A c \in Stay(gone) : citizens'[c].wake # None => citizens'[c].wake.kind \in
        (IF citizens'[c].away THEN Activities \ {"OptionalOuting"} ELSE {"DailyRoutine", "OptionalOuting"})
  <2>1. ASSUME NEW c \in Stay(gone), citizens'[c].wake # None
        PROVE  citizens'[c].wake.kind \in
          (IF citizens'[c].away THEN Activities \ {"OptionalOuting"} ELSE {"DailyRoutine", "OptionalOuting"})
    <3>1. CASE c \in DOMAIN Replans(city, gone)
      BY <1>1, <1>3, <3>1 DEF WakeThen, Activities
    <3>2. CASE c \notin DOMAIN Replans(city, gone)
      BY <1>0, <1>1, <2>1, <3>2 DEF WakeThen, JourneysMatchWhereabouts
    <3>3. QED
      BY <3>1, <3>2
  <2>2. QED
    BY <2>1
<1>9. ASSUME NEW e \in Left(city, gone), e.purpose = "CommuteOutbound"
      PROVE  e.to \in Destinations(e.citizen)'
  <2> DEFINE c == e.citizen
  <2>1. c \in Stay(gone) /\ c \in DOMAIN citizens /\ (citizens[c].job # None => citizens[c].shift # "school")
    BY <1>0, <1>1, <1>4 DEF Settled
  <2>2. /\ \A x : x \in Cleared(gone) <=> x \in Stay(gone) /\ citizens[x].job \in gone
        /\ \A x : x \in Idle(gone) =>
             citizens[x].shift # "school" /\ (citizens[x].job = None \/ citizens[x].job \in gone)
        /\ \A b \in gone : b # None
    <3>1. \A b \in gone : b # None
      BY <1>0, StandingFacts, Constants DEF CityChange
    <3>2. QED
      BY <3>1, PeopleFacts
  <2>3. /\ ShiftThen(city, gone, c) = "school" <=> citizens[c].shift = "school"
        /\ c \in DOMAIN Hires(city, gone) => c \in Idle(gone) /\ Hires(city, gone)[c] # None
    BY <2>1, HiresFacts
  <2>4. Destinations(c)' = IF ShiftThen(city, gone, c) = "school"
                           THEN {b \in DOMAIN city : Catalog[city[b].kind].school}
                           ELSE IF JobThen(city, gone, c) = None THEN {} ELSE {JobThen(city, gone, c)}
    BY <1>1, <1>2, <2>1 DEF Destinations, Schools
  <2>5. CASE c \in Cleared(gone)
    <3>1. c \in DOMAIN Hires(city, gone) /\ e.to = Hires(city, gone)[c]
      BY <1>9, <2>5, RerouteFacts
    <3>2. ShiftThen(city, gone, c) # "school"
      BY <2>1, <2>2, <2>3, <2>5
    <3>3. QED
      BY <2>3, <2>4, <3>1, <3>2 DEF JobThen
  <2>6. CASE c \notin Cleared(gone)
    <3>1. e.to \in Destinations(c) /\ e.to \in DOMAIN buildings \ gone
      BY <1>9, <2>6, RerouteFacts
    <3>2. CASE citizens[c].shift = "school"
      <4>1. Catalog[buildings[e.to].kind].school
        BY <3>1, <3>2 DEF Destinations, Schools
      <4>2. e.to \in DOMAIN city /\ city[e.to] = buildings[e.to]
        BY <3>1 DEF CityChange
      <4>3. QED
        BY <2>3, <2>4, <3>2, <4>1, <4>2
    <3>3. CASE citizens[c].shift # "school"
      <4>1. citizens[c].job # None /\ e.to = citizens[c].job
        BY <3>1, <3>3 DEF Destinations
      <4>2. c \notin DOMAIN Hires(city, gone)
        BY <2>1, <2>2, <2>3, <2>6, <4>1
      <4>3. JobThen(city, gone, c) = citizens[c].job
        BY <2>6, <4>2 DEF JobThen
      <4>4. QED
        BY <2>3, <2>4, <3>3, <4>1, <4>3
    <3>4. QED
      BY <3>2, <3>3
  <2>7. QED
    BY <2>5, <2>6
<1>10. JourneysMatchWhereabouts'
  <2>1. \A e \in Left(city, gone) :
          e.purpose \in (IF citizens'[e.citizen].away THEN Purposes \ Outbound ELSE Outbound)
    BY <1>1, <1>4
  <2>2. QED
    BY <1>1, <1>2, <1>4, <1>8, <1>9, <2>1 DEF JourneysMatchWhereabouts
<1>11. QED
  BY <1>5, <1>6, <1>7, <1>10

\* The slots of a house that was just placed, all of them still to come.
LEMMA SlotsThen ==
  ASSUME IInv, NEW city, NEW gone, NEW added, CityChange(city, gone, added),
         Reconcile(city, gone, added)
  PROVE  /\ SlotsFilled' /\ MoveInOrigins'
         /\ moveIns' \subseteq MoveIn /\ \A m \in moveIns' : m.due >= now
         /\ \A b \in DOMAIN city : Cardinality(Occupants(b))' <= Catalog[city[b].kind].residents
<1>0. TypeOK /\ Settled /\ NothingOverdue /\ SlotsFilled /\ MoveInOrigins /\ WithinRoom /\ now \in Nat
      /\ placements \in Nat
  BY DEF IInv, TypeOK
<1> DEFINE Row(b, k) == [building |-> b, slot |-> k, born |-> city[b].born,
                         due |-> city[b].placedAt + k * MoveInInterval]
           Size(b) == Catalog[city[b].kind].residents
<1>1. /\ buildings' = city
      /\ DOMAIN citizens' = Stay(gone) /\ Stay(gone) \subseteq DOMAIN citizens
      /\ \A c \in Stay(gone) : citizens'[c].home = citizens[c].home
  BY ReconcileStep, CitizensThen
<1>2. /\ gone \subseteq DOMAIN buildings /\ added \cap DOMAIN buildings = {}
      /\ DOMAIN city = (DOMAIN buildings \ gone) \cup added
      /\ \A b \in DOMAIN buildings \ gone : city[b] = buildings[b]
      /\ placements' \in Nat /\ placements <= placements'
      /\ \A b \in added : /\ b \in 1..placements' /\ city[b].placedAt = now
                          /\ city[b].born = placements' /\ placements < placements'
  BY DEF CityChange
<1>3. \A b \in DOMAIN city : /\ Size(b) \in Nat /\ b \in Nat /\ b \notin gone
                             /\ city[b].born \in Nat /\ city[b].placedAt \in Nat
  BY CityFacts
<1>4. \A m : m \in moveIns' <=>
        m \in moveIns \/ \E b \in added : \E k \in 0..(Size(b) - 1) : m = Row(b, k)
  <2>1. moveIns' = moveIns \cup UNION {MoveInRows(b, city[b], 0) : b \in added}
    BY ReconcileStep
  <2>2. \A b : MoveInRows(b, city[b], 0) = {Row(b, k) : k \in 0..(Size(b) - 1)}
    BY DEF MoveInRows
  <2>3. \A m, b : m \in MoveInRows(b, city[b], 0) <=> \E k \in 0..(Size(b) - 1) : m = Row(b, k)
    BY <2>2
  <2> HIDE DEF Row, Size
  <2> DEFINE theirs == UNION {MoveInRows(b, city[b], 0) : b \in added}
  <2>4. \A m : m \in theirs <=> \E b \in added : m \in MoveInRows(b, city[b], 0)
    BY ONLY TRUE
  <2>5. moveIns' = moveIns \cup theirs
    BY <2>1
  <2> HIDE DEF theirs
  <2>6. QED
    BY <2>3, <2>4, <2>5
<1>5. \A b \in added, k \in Nat :
        /\ Row(b, k) \in MoveIn /\ Row(b, k).due >= now /\ Row(b, k).building = b
        /\ Row(b, k).slot = k /\ Row(b, k).born = placements'
  <2>1. \A k \in Nat : k * MoveInInterval \in Nat
    BY Constants
  <2>2. \A b \in added : b \in DOMAIN city /\ b \in Nat /\ city[b].placedAt = now
                         /\ city[b].born = placements' /\ city[b].born \in Nat
    BY <1>2, <1>3
  <2>3. QED
    BY <1>0, <2>1, <2>2 DEF MoveIn
<1>6. \A b \in DOMAIN city : \A k : OwnRow(b, k)' = Row(b, k) /\ Residents(b)' = Size(b)
  BY <1>1 DEF OwnRow, Residents
<1>7. \A b \in DOMAIN buildings \ gone : \A k : Row(b, k) = OwnRow(b, k) /\ Size(b) = Residents(b)
  BY <1>2 DEF OwnRow, Residents
<1>8. \A b \in DOMAIN buildings \ gone : Occupants(b)' = Occupants(b)
  <2>1. \A c : c \in Stay(gone) <=> c \in DOMAIN citizens /\ citizens[c].home \notin gone
    BY PeopleFacts
  <2>2. ASSUME NEW b \in DOMAIN buildings \ gone PROVE Occupants(b)' = Occupants(b)
    BY <1>1, <2>1 DEF Occupants
  <2>3. QED
    BY <2>2
<1>9. \A b \in added : Occupants(b)' = {} /\ Cardinality(Occupants(b)') = 0
  <2>1. ASSUME NEW b \in added PROVE Occupants(b)' = {}
    BY <1>0, <1>1, <1>2 DEF Occupants, Settled
  <2>2. QED
    BY <2>1, FS_EmptySet
<1> HIDE DEF Row, Size
<1>10. SlotsFilled'
  <2>1. ASSUME NEW b \in DOMAIN city, NEW k \in 0..(Size(b) - 1)
        PROVE  Row(b, k) \in moveIns' \/ Cardinality(Occupants(b)') > k
    <3>1. CASE b \in added
      BY <1>4, <3>1
    <3>2. CASE b \in DOMAIN buildings \ gone
      <4>1. OwnRow(b, k) \in moveIns \/ Cardinality(Occupants(b)) > k
        BY <1>0, <1>7, <3>2 DEF SlotsFilled
      <4>2. QED
        BY <1>4, <1>7, <1>8, <3>2, <4>1
    <3>3. QED
      BY <1>2, <3>1, <3>2
  <2>2. QED
    BY <1>1, <1>6, <2>1 DEF SlotsFilled
<1>11. moveIns' \subseteq MoveIn /\ \A m \in moveIns' : m.due >= now
  <2>1. moveIns \subseteq MoveIn /\ \A m \in moveIns : m.due >= now
    BY <1>0 DEF TypeOK, NothingOverdue
  <2>2. \A b \in added : \A k \in 0..(Size(b) - 1) : Row(b, k) \in MoveIn /\ Row(b, k).due >= now
    BY <1>2, <1>3, <1>5
  <2>3. QED
    BY <1>4, <2>1, <2>2
<1>12. MoveInOrigins'
  <2>1. \A b \in DOMAIN city : b <= city[b].born /\ city[b].born <= placements'
    BY <1>0, <1>2, <1>3 DEF MoveInOrigins
  <2>2. \A b : FirstOfItsId(b)' <=> b \in DOMAIN city /\ city[b].born = b
    BY <1>1 DEF FirstOfItsId
  <2>3. ASSUME NEW m \in moveIns'
        PROVE  /\ m.building <= m.born /\ m.born <= placements'
               /\ m.building \in DOMAIN city =>
                    /\ m.born <= city[m.building].born
                    /\ m.born = city[m.building].born =>
                         m.slot < Size(m.building) /\ m = Row(m.building, m.slot)
               /\ m.building \in DOMAIN city /\ city[m.building].born = m.building =>
                    m.slot >= Cardinality(Occupants(m.building)')
    <3>1. CASE m \in moveIns
      <4>1. /\ m.building \in Nat /\ m.born \in Nat /\ m.building <= m.born /\ m.born <= placements
            /\ m.building \in DOMAIN buildings =>
                 /\ m.born <= buildings[m.building].born
                 /\ m.born = buildings[m.building].born =>
                      m.slot < Residents(m.building) /\ m = OwnRow(m.building, m.slot)
                 /\ buildings[m.building].born = m.building =>
                      m.slot >= Cardinality(Occupants(m.building))
        BY <1>0, <3>1 DEF MoveInOrigins, TypeOK, MoveIn, FirstOfItsId
      <4>2. CASE m.building \in added
        <5>1. m.born < city[m.building].born /\ city[m.building].born # m.building
          BY <1>0, <1>2, <4>1, <4>2
        <5>2. m.born \in Nat /\ city[m.building].born \in Nat
          BY <1>2, <4>1, <4>2
        <5>3. m.born <= city[m.building].born /\ m.born # city[m.building].born
          BY <5>1, <5>2
        <5>4. QED
          BY <1>0, <1>2, <4>1, <5>1, <5>3
      <4>3. CASE m.building \in DOMAIN buildings \ gone
        BY <1>0, <1>2, <1>7, <1>8, <4>1, <4>3
      <4>4. CASE m.building \notin DOMAIN city
        BY <1>0, <1>2, <4>1, <4>4
      <4>5. QED
        BY <1>2, <4>2, <4>3, <4>4
    <3>2. CASE \E b \in added : \E k \in 0..(Size(b) - 1) : m = Row(b, k)
      <4>0. PICK b \in added : \E k \in 0..(Size(b) - 1) : m = Row(b, k)
        BY <3>2
      <4>1. PICK k \in 0..(Size(b) - 1) : m = Row(b, k)
        BY <4>0
      <4>2. /\ k \in Nat /\ Size(b) \in Nat /\ k < Size(b)
            /\ m.building = b /\ m.slot = k /\ m.born = placements' /\ b <= placements'
            /\ city[b].born = placements' /\ placements' \in Nat
        BY <1>2, <1>3, <1>5, <4>1
      <4>3. QED
        BY <1>9, <4>1, <4>2
    <3>3. QED
      BY <1>4, <3>1, <3>2
  <2>4. QED
    BY <1>1, <1>6, <2>1, <2>2, <2>3 DEF MoveInOrigins
<1>13. \A b \in DOMAIN city : Cardinality(Occupants(b)') <= Size(b)
  <2>1. ASSUME NEW b \in DOMAIN city PROVE Cardinality(Occupants(b)') <= Size(b)
    <3>1. CASE b \in added
      BY <1>3, <1>9, <3>1
    <3>2. CASE b \in DOMAIN buildings \ gone
      BY <1>0, <1>7, <1>8, <3>2 DEF WithinRoom
    <3>3. QED
      BY <1>2, <3>1, <3>2
  <2>2. QED
    BY <2>1
<1>14. QED
  BY <1>10, <1>11, <1>12, <1>13 DEF Size

LEMMA ReconcileIInv ==
  ASSUME IInv, NEW city, NEW gone, NEW added, CityChange(city, gone, added),
         Reconcile(city, gone, added)
  PROVE  IInv'
<1>0. TypeOK
  BY DEF IInv
<1>1. /\ buildings' = city /\ nextOrdinal' = nextOrdinal /\ demands' = {} /\ now' = now
      /\ trips' = Left(city, gone)
  BY ReconcileStep DEF CityChange
<1>2. DOMAIN citizens' = Stay(gone) /\ Stay(gone) \subseteq DOMAIN citizens
      /\ citizens' \in [DOMAIN citizens' -> Citizen]
  BY CitizensThen
<1>3. Queued' /\ wakes' \subseteq Nat \X Nat /\ \A w \in wakes' : w[2] >= now
  BY WakesThen
<1>4. Settled' /\ rows' \in [Workplaces(city) -> SUBSET Nat] /\ unassigned' \subseteq Nat
  BY SettledThen
<1>5. Owned' /\ JourneysMatchWhereabouts' /\ Homebound' /\ RoutineTimes'
  BY JourneysThen
<1>6. /\ SlotsFilled' /\ MoveInOrigins'
      /\ moveIns' \subseteq MoveIn /\ \A m \in moveIns' : m.due >= now
      /\ \A b \in DOMAIN city : Cardinality(Occupants(b))' <= Catalog[city[b].kind].residents
  BY SlotsThen
<1>7. TypeOK'
  <2>1. DOMAIN city \subseteq 1..placements' /\ city \in [DOMAIN city -> Building]
        /\ placements' \in Nat /\ phase' \in {"rest", "due", "moved", "grown"}
    BY CityFacts DEF CityChange
  <2>2. trips' \subseteq Trip
    BY <1>1, RerouteFacts
  <2>3. DOMAIN citizens' \subseteq 1..(nextOrdinal' - 1)
    BY <1>0, <1>1, <1>2 DEF TypeOK
  <2>4. Workplaces(buildings)' = Workplaces(city)
    BY <1>1 DEF Workplaces
  <2>5. QED
    BY <1>0, <1>1, <1>2, <1>3, <1>4, <1>6, <2>1, <2>2, <2>3, <2>4 DEF TypeOK
<1>8. NothingOverdue'
  BY <1>1, <1>3, <1>6 DEF NothingOverdue
<1>9. WithinRoom'
  <2>1. \A b \in DOMAIN buildings' : Cardinality(Occupants(b))' <= Residents(b)'
    BY <1>1, <1>6 DEF Residents
  <2> DEFINE Team(b) == Staff(city, gone)[b] \cup {c \in DOMAIN Hires(city, gone) : Hires(city, gone)[c] = b}
             idle == Idle(gone) \ DOMAIN Hires(city, gone)
  <2>2. DOMAIN rows' = Workplaces(city)
    BY <1>4
  <2>3. DOMAIN Staff(city, gone) = Workplaces(city)
    BY PeopleFacts
  <2>4. \A b \in Workplaces(city) : rows'[b] = Team(b)
    <3>1. rows' = [b \in DOMAIN Staff(city, gone) |-> Team(b)]
      BY ReconcileStep
    <3> HIDE DEF Team
    <3>2. QED
      BY <2>3, <3>1
  <2>5. unassigned' = idle
    BY ReconcileStep
  <2>6. /\ \A b \in Workplaces(city) : Cardinality(Team(b)) <= Catalog[city[b].kind].jobs
        /\ idle = {} \/ \A b \in Workplaces(city) : Cardinality(Team(b)) >= Catalog[city[b].kind].jobs
    BY HiresFacts
  <2>7. \A b \in Workplaces(city) : Cardinality(Team(b)) \in Nat
    <3>1. ASSUME NEW b \in Workplaces(city) PROVE Cardinality(Team(b)) \in Nat
      <4>1. \A c \in Team(b) : c \in Stay(gone)
        BY HiresFacts, PeopleFacts
      <4>2. Team(b) \subseteq DOMAIN citizens
        BY <1>2, <4>1
      <4>3. QED
        BY <1>0, <4>2, CitizenFacts, FS_Subset, FS_CardinalityType
    <3>2. QED
      BY <3>1
  <2>8. \A b \in Workplaces(city) : Catalog[city[b].kind].jobs \in Nat
    BY CityFacts
  <2> HIDE DEF Team, idle
  <2>9. idle = {} \/ Vacancies' = {}
    BY <1>1, <2>2, <2>4, <2>6, <2>7, <2>8 DEF Vacancies
  <2>10. QED
    BY <1>1, <2>1, <2>2, <2>4, <2>5, <2>6, <2>9 DEF WithinRoom
<1>10. QED
  BY <1>3, <1>4, <1>5, <1>6, <1>7, <1>8, <1>9 DEF IInv

-----------------------------------------------------------------------------
(* Building, demolishing and growing.                                       *)

\* The id of a new building is not the id of one that stands, nor above the number of
\* buildings placed.
LEMMA FreshBuildingId ==
  ASSUME TypeOK
  PROVE  NextBuildingId \in 1..(placements + 1) /\ NextBuildingId \notin DOMAIN buildings
<1>0. placements \in Nat /\ DOMAIN buildings \in SUBSET (1..placements)
  BY DEF TypeOK
<1>1. CASE DOMAIN buildings = {}
  BY <1>0, <1>1 DEF NextBuildingId
<1>2. CASE DOMAIN buildings # {}
  <2>1. \E b \in DOMAIN buildings : \A e \in DOMAIN buildings : e <= b
    BY <1>0, <1>2, GreatestExists
  <2>2. PICK b \in DOMAIN buildings : /\ \A e \in DOMAIN buildings : e <= b
                                      /\ NextBuildingId = 1 + b
    BY <1>2, <2>1 DEF NextBuildingId
  <2>3. b \in Nat /\ 1 <= b /\ b <= placements
    BY <1>0, <2>2
  <2>4. NextBuildingId \notin DOMAIN buildings
    BY <2>2, <2>3
  <2>5. QED
    BY <1>0, <2>2, <2>3, <2>4
<1>3. QED
  BY <1>1, <1>2

LEMMA PlaceIInv ==
  ASSUME IInv, NEW kind \in Kinds, Place(kind), phase # "due", now' = now,
         phase' \in {"rest", "due", "moved", "grown"}
  PROVE  IInv'
<1>0. TypeOK /\ demands = {}
  BY DEF IInv, Owned
<1> DEFINE b == NextBuildingId
           new == [kind |-> kind, placedAt |-> now, born |-> placements + 1]
           city == [e \in DOMAIN buildings \cup {b} |-> IF e = b THEN new ELSE buildings[e]]
<1>1. placements' = placements + 1 /\ Reconcile(city, {}, {b})
  BY DEF Place
<1>2. b \in 1..(placements + 1) /\ b \notin DOMAIN buildings /\ placements \in Nat /\ now \in Nat
  BY <1>0, FreshBuildingId DEF TypeOK
<1> HIDE DEF b
<1>3. new \in Building /\ new.placedAt = now /\ new.born = placements + 1
  BY <1>2 DEF Building
<1> HIDE DEF new
<1>4. /\ DOMAIN city = DOMAIN buildings \cup {b} /\ city[b] = new
      /\ \A e \in DOMAIN buildings : city[e] = buildings[e]
      /\ city \in [DOMAIN city -> Building]
  BY <1>0, <1>2, <1>3 DEF TypeOK
<1> HIDE DEF city
<1>5. CityChange(city, {}, {b})
  BY <1>0, <1>1, <1>2, <1>3, <1>4 DEF CityChange
<1>6. QED
  BY <1>1, <1>5, ReconcileIInv

LEMMA DemolishIInv ==
  ASSUME IInv, NEW gone \in SUBSET DOMAIN buildings, Demolish(gone)
  PROVE  IInv'
<1>0. TypeOK /\ demands = {} /\ placements \in Nat
  BY DEF IInv, Owned, TypeOK, Demolish
<1> DEFINE city == [b \in DOMAIN buildings \ gone |-> buildings[b]]
<1>1. /\ Reconcile(city, gone, {})
      /\ UNCHANGED <<now, phase, placements>> /\ phase = "rest"
  BY DEF Demolish, clockVars
<1>2. /\ DOMAIN city = DOMAIN buildings \ gone
      /\ \A b \in DOMAIN buildings \ gone : city[b] = buildings[b]
      /\ city \in [DOMAIN city -> Building]
  BY <1>0 DEF TypeOK
<1> HIDE DEF city
<1>3. CityChange(city, gone, {})
  BY <1>0, <1>1, <1>2 DEF CityChange
<1>4. QED
  BY <1>1, <1>3, ReconcileIInv

-----------------------------------------------------------------------------
(* Every step keeps the invariant.                                          *)

LEMMA NextIInv ==
  ASSUME OutingTimes, IInv, [Next]_vars
  PROVE  IInv'
<1>1. CASE Player
  <2>1. CASE \E kind \in Kinds : PlaceBuilding(kind)
    <3>1. PICK kind \in Kinds : PlaceBuilding(kind)
      BY <2>1
    <3>2. /\ Place(kind) /\ phase # "due" /\ now' = now
          /\ phase' \in {"rest", "due", "moved", "grown"}
      BY <3>1 DEF PlaceBuilding, clockVars
    <3>3. QED
      BY <3>2, PlaceIInv
  <2>2. CASE \E gone \in (SUBSET DOMAIN buildings) \ {{}} : Demolish(gone)
    BY <2>2, DemolishIInv
  <2>3. CASE Reload
    BY <2>3, ReloadIInv
  <2>4. QED
    BY <1>1, <2>1, <2>2, <2>3 DEF Player
<1>2. CASE Engine
  <2>1. CASE BeginTick \/ EndTick \/ EndSubstep \/ \E t \in (now + 1)..NextGrowth : Advance(t)
    BY <2>1, ClockIInv
  <2>2. CASE DrainAndSpawn
    BY <2>2, SpawnIInv
  <2>3. CASE \E m \in moveIns : ApplyMoveIn(m)
    BY <2>3, NoRoomIInv, RoomIInv
  <2>4. CASE \E w \in wakes : ApplyActivity(w)
    BY <2>4, ActivityIInv
  <2>5. CASE \E w \in wakes : DropWake(w)
    BY <2>5, DropIInv
  <2>6. CASE \E trip \in trips, completed \in BOOLEAN : Resolve(trip, completed)
    BY <2>6, ResolveIInv
  <2>7. CASE \E kind \in GrownKinds : GrowCity(kind)
    <3>1. PICK kind \in GrownKinds : GrowCity(kind)
      BY <2>7
    <3>2. /\ Place(kind) /\ phase # "due" /\ now' = now
          /\ phase' \in {"rest", "due", "moved", "grown"}
      BY <3>1 DEF GrowCity
    <3>3. kind \in Kinds
      BY PopulationAssumption
    <3>4. QED
      BY <3>2, <3>3, PlaceIInv
  <2>8. QED
    BY <1>2, <2>1, <2>2, <2>3, <2>4, <2>5, <2>6, <2>7 DEF Engine
<1>3. CASE UNCHANGED vars
  <2>1. UNCHANGED worldVars /\ UNCHANGED <<now, phase, demands, trips>>
    BY <1>3 DEF vars, worldVars, cityVars, jobVars
  <2>2. TypeOK' /\ NothingOverdue'
    BY <2>1 DEF IInv, TypeOK, NothingOverdue, worldVars, cityVars, jobVars, Workplaces
  <2>3. Owned'
    BY <2>1, SameOwners DEF IInv, Owned, worldVars
  <2>4. QED
    BY <2>1, <2>2, <2>3, SameWorld, SameJourneys DEF IInv, worldVars, cityVars
<1>4. QED
  BY <1>1, <1>2, <1>3 DEF Next

\* The invariant of every behaviour, if the outing of a day off starts at some time
\* (optional_departure_minute returns an unsigned minute).
THEOREM Invariance ==
  ASSUME OutingTimes
  PROVE  Spec => []IInv
<1>1. Init => IInv
  BY InitIInv
<1>2. IInv /\ [Next]_vars => IInv'
  BY NextIInv
<1>3. QED
  BY <1>1, <1>2, PTL DEF Spec

-----------------------------------------------------------------------------
(* What the runs check, for every value of the constants.                   *)

LEMMA OneOwnerFollows == IInv => OneOwner
<1> SUFFICES ASSUME IInv PROVE OneOwner
  OBVIOUS
<1>0. TypeOK /\ Owned /\ Queued
  BY DEF IInv
<1>1. ASSUME NEW c \in DOMAIN citizens PROVE Owners(c) = 1
  <2> DEFINE D == {d \in demands : d.citizen = c}
             T == {trip \in trips : trip.citizen = c}
  <2>1. Owners(c) = Cardinality(D) + Cardinality(T) + (IF citizens[c].wake = None THEN 0 ELSE 1)
    BY DEF Owners
  <2>2. CASE citizens[c].wake # None
    <3>1. D = {} /\ T = {}
      BY <1>0, <2>2 DEF Owned
    <3>2. Cardinality(D) = 0 /\ Cardinality(T) = 0
      BY <3>1, FS_EmptySet
    <3>3. QED
      BY <2>1, <2>2, <3>2
  <2>3. CASE citizens[c].wake = None
    <3>1. PICK e \in demands \cup trips : e.citizen = c
      BY <1>0, <2>3 DEF Owned
    <3>2. CASE e \in demands
      <4>1. D = {e} /\ T = {}
        BY <1>0, <3>1, <3>2 DEF Owned
      <4>2. Cardinality(D) = 1 /\ Cardinality(T) = 0
        BY <4>1, FS_EmptySet, FS_Singleton
      <4>3. QED
        BY <2>1, <2>3, <4>2
    <3>3. CASE e \in trips
      <4>1. D = {} /\ T = {e}
        BY <1>0, <3>1, <3>3 DEF Owned
      <4>2. Cardinality(D) = 0 /\ Cardinality(T) = 1
        BY <4>1, FS_EmptySet, FS_Singleton
      <4>3. QED
        BY <2>1, <2>3, <4>2
    <3>4. QED
      BY <3>1, <3>2, <3>3
  <2>4. QED
    BY <2>2, <2>3
<1>2. {e.citizen : e \in demands \cup trips} \subseteq DOMAIN citizens
  BY <1>0 DEF Owned
<1>3. {w \in wakes : w[1] \in DOMAIN citizens} = LoadedWakes
  <2>1. \A w \in LoadedWakes : \E c \in DOMAIN citizens :
           citizens[c].wake # None /\ w = <<c, citizens[c].wake.due>>
    BY DEF LoadedWakes
  <2>2. \A w \in LoadedWakes : w \in wakes /\ w[1] \in DOMAIN citizens
    BY <1>0, <2>1 DEF Queued
  <2>3. ASSUME NEW w \in wakes, w[1] \in DOMAIN citizens PROVE w \in LoadedWakes
    <3>1. w = <<w[1], w[2]>> /\ citizens[w[1]].wake # None /\ citizens[w[1]].wake.due = w[2]
      BY <1>0, <2>3 DEF Queued, TypeOK
    <3>2. QED
      BY <2>3, <3>1 DEF LoadedWakes
  <2>4. QED
    BY <2>2, <2>3
<1>4. QED
  BY <1>1, <1>2, <1>3 DEF OneOwner

\* A citizen is owned by exactly one of a wake, a demand and a trip, and the scheduler
\* has one row for that wake.
THEOREM EveryCitizenHasOneOwner ==
  ASSUME OutingTimes
  PROVE  Spec => []OneOwner
BY Invariance, OneOwnerFollows, PTL

\* Nothing is due in the past: no wake, no move-in and no demand.
THEOREM NothingIsOverdue ==
  ASSUME OutingTimes
  PROVE  Spec => []NothingOverdue
<1>1. IInv => NothingOverdue
  BY DEF IInv
<1>2. QED
  BY <1>1, Invariance, PTL

\* Jobs, rows and the unassigned agree, no house and no workplace is above its room,
\* and nobody is out of work while a job is open.
THEOREM EveryoneIsHousedAndHired ==
  ASSUME OutingTimes
  PROVE  Spec => []HousedAndHired
<1>1. IInv => HousedAndHired
  BY DEF IInv, Settled, WithinRoom, HousedAndHired
<1>2. QED
  BY <1>1, Invariance, PTL

\* Nobody plans or makes a way out but from home, and all are under way to somewhere
\* that stands and, on the way to work, is theirs.
THEOREM JourneysAreRight ==
  ASSUME OutingTimes
  PROVE  Spec => []JourneysMatchWhereabouts
<1>1. IInv => JourneysMatchWhereabouts
  BY DEF IInv
<1>2. QED
  BY <1>1, Invariance, PTL

LEMMA LoadsAsSavedFollows == IInv => LoadsAsSaved
<1> SUFFICES ASSUME IInv, phase = "rest" PROVE LoadsAsSaved
  BY DEF LoadsAsSaved
<1>0. TypeOK /\ Settled /\ MoveInOrigins /\ demands = {}
  BY DEF IInv, Owned
<1>1. LoadedOrdinal = nextOrdinal /\ LoadedRows = rows /\ LoadedUnassigned = unassigned
  BY <1>0, OrdinalLoads DEF Settled
<1>2. LoadedWakes = {w \in wakes : w[1] \in DOMAIN citizens /\ ~Travelling(w[1])}
  <2>1. /\ \A w : w \in LoadedWakes <=> w \in wakes /\ w[1] \in DOMAIN citizens
        /\ \A w \in LoadedWakes : ~Travelling(w[1])
    BY <1>0, LoadDerives
  <2>2. QED
    BY <2>1
<1>3. ASSUME NEW m, FirstOfItsId(m.building)
      PROVE  m \in moveIns <=> m \in LoadedMoveIns
  <2>1. LoadedMoveIns \subseteq moveIns
    BY <1>0, LoadDerives
  <2>2. ASSUME m \in moveIns PROVE m \in LoadedMoveIns
    <3> DEFINE b == m.building
    <3>1. b \in DOMAIN buildings /\ buildings[b].born = b /\ b \in Nat /\ m.born \in Nat /\ m.slot \in Nat
      BY <1>0, <1>3, <2>2 DEF TypeOK, MoveIn, FirstOfItsId
    <3>2. b <= m.born /\ m.born <= b
      BY <1>0, <2>2, <3>1 DEF MoveInOrigins
    <3>3. m.slot < Residents(b) /\ m = OwnRow(b, m.slot) /\ m.slot >= Cardinality(Occupants(b))
      BY <1>0, <1>3, <2>2, <3>1, <3>2 DEF MoveInOrigins
    <3>4. Residents(b) \in Nat /\ Cardinality(Occupants(b)) \in Nat
      BY <1>0, <3>1, StandingFacts, OccupantCount
    <3>5. m.slot \in Cardinality(Occupants(b))..(Residents(b) - 1)
      BY <3>1, <3>3, <3>4
    <3>6. \A x : x \in LoadedMoveIns <=> \E e \in DOMAIN buildings :
             \E k \in Cardinality(Occupants(e))..(Residents(e) - 1) : x = OwnRow(e, k)
      BY <1>0, LoadDerives
    <3>7. QED
      BY <3>1, <3>3, <3>5, <3>6
  <2>3. QED
    BY <2>1, <2>2
<1>4. {m \in moveIns : FirstOfItsId(m.building)} = {m \in LoadedMoveIns : FirstOfItsId(m.building)}
  BY <1>3
<1>5. QED
  BY <1>1, <1>2, <1>4 DEF LoadsAsSaved

\* Between two ticks, what a load derives is what the running city has.
THEOREM WhatIsLoadedIsWhatWasSaved ==
  ASSUME OutingTimes
  PROVE  Spec => []LoadsAsSaved
BY Invariance, LoadsAsSavedFollows, PTL

\* An ordinal is given to one citizen only, whoever leaves and however often the city is
\* saved and loaded.
THEOREM OrdinalsAreNeverReused ==
  ASSUME OutingTimes
  PROVE  Spec => OrdinalsNeverReused
<1> DEFINE Fresh == /\ nextOrdinal' >= nextOrdinal
                    /\ \A c \in DOMAIN citizens' \ DOMAIN citizens : c >= nextOrdinal
<1>1. ASSUME IInv, Next PROVE Fresh
  <2>0. TypeOK /\ nextOrdinal \in Nat
    BY <1>1 DEF IInv, TypeOK
  <2>1. CASE nextOrdinal' = nextOrdinal /\ DOMAIN citizens' \subseteq DOMAIN citizens
    BY <2>0, <2>1
  <2>2. ASSUME NEW m \in moveIns, ApplyMoveIn(m) PROVE Fresh
    <3>1. \/ UNCHANGED <<citizens, nextOrdinal>>
          \/ /\ nextOrdinal' = nextOrdinal + 1
             /\ DOMAIN citizens' = DOMAIN citizens \cup {nextOrdinal}
      BY <2>2 DEF ApplyMoveIn
    <3>2. QED
      BY <2>0, <3>1
  <2>3. ASSUME NEW city, NEW gone, NEW added, Reconcile(city, gone, added)
        PROVE  nextOrdinal' = nextOrdinal /\ DOMAIN citizens' \subseteq DOMAIN citizens
    BY <2>3, ReconcileStep DEF Stay
  <2>4. ASSUME NEW kind, Place(kind)
        PROVE  nextOrdinal' = nextOrdinal /\ DOMAIN citizens' \subseteq DOMAIN citizens
    BY <2>3, <2>4 DEF Place
  <2>5. CASE Player
    <3>1. CASE Reload
      BY <2>0, <2>1, <3>1, OrdinalLoads DEF Reload
    <3>2. CASE \E kind \in Kinds : PlaceBuilding(kind)
      BY <2>1, <2>4, <3>2 DEF PlaceBuilding
    <3>3. CASE \E gone \in (SUBSET DOMAIN buildings) \ {{}} : Demolish(gone)
      BY <2>1, <2>3, <3>3 DEF Demolish
    <3>4. QED
      BY <2>5, <3>1, <3>2, <3>3 DEF Player
  <2>6. CASE BeginTick \/ EndTick \/ EndSubstep \/ DrainAndSpawn
             \/ \E t \in (now + 1)..NextGrowth : Advance(t)
    BY <2>1, <2>6 DEF BeginTick, EndTick, EndSubstep, DrainAndSpawn, Advance
  <2>7. CASE \E w \in wakes : DropWake(w)
    BY <2>1, <2>7 DEF DropWake
  <2>8. CASE \E w \in wakes : ApplyActivity(w)
    <3>1. PICK w \in wakes : ApplyActivity(w)
      BY <2>8
    <3> DEFINE c == w[1]
               Waits == \E activity : Await(c, w, activity)
               Goes == \E purpose, to : Leave(c, w, purpose, to)
    <3>2. nextOrdinal' = nextOrdinal /\ c \in DOMAIN citizens /\ citizens[c].wake.kind \in Activities
      BY <2>0, <3>1, CitizenFacts DEF ApplyActivity, Citizen, Wake
    <3>a. DayOff(c, w) => Waits \/ Goes
      BY DEF DayOff
    <3>b. ApplyDailyRoutine(c, w) => Waits \/ Goes
      BY <3>a DEF ApplyDailyRoutine
    <3>c. \/ ApplyDailyRoutine(c, w) \/ Leave(c, w, "CommuteReturn", citizens[c].home)
          \/ Leave(c, w, "OptionalReturn", citizens[c].home)
      BY <3>1, <3>2 DEF ApplyActivity, Activities
    <3>3. DOMAIN citizens' = DOMAIN citizens
      BY <3>b, <3>c DEF Await, Leave
    <3>4. QED
      BY <2>1, <3>2, <3>3
  <2>9. CASE \E trip \in trips, completed \in BOOLEAN : Resolve(trip, completed)
    BY <2>1, <2>9 DEF Resolve
  <2>10. CASE \E kind \in GrownKinds : GrowCity(kind)
    BY <2>1, <2>4, <2>10 DEF GrowCity
  <2>11. QED
    BY <1>1, <2>2, <2>5, <2>6, <2>7, <2>8, <2>9, <2>10 DEF Next, Engine
<1>2. IInv /\ [Next]_vars => [Fresh]_vars
  BY <1>1
<1>3. QED
  BY <1>2, Invariance, PTL DEF Spec, OrdinalsNeverReused

=============================================================================
