----------------------------- MODULE Population -----------------------------
(***************************************************************************)
(* The citizens (population/schedule.rs): who lives and works where, when  *)
(* each of them wakes up, and who owns a citizen at any moment - a wake in *)
(* the exact-time scheduler, a trip demand, or an active trip.             *)
(*                                                                         *)
(* A tick alternates between draining what is due at the current instant   *)
(* and a substep that moves the clock, ends some trips and may grow the    *)
(* city; between two ticks the player builds, demolishes, saves and loads. *)
(* How a trip travels is the business of TripTick: here it may end, well   *)
(* or badly, in any substep.                                               *)
(***************************************************************************)
EXTENDS Integers, FiniteSets, Sequences

CONSTANTS
  DayLength,       \* GAME_DAY_SECONDS, in steps of the clock
  Week,            \* a citizen has one day in Week off
  MoveInInterval,  \* MOVE_IN_INTERVAL_SECONDS
  GrowthInterval,  \* GROWTH_INTERVAL_SECONDS
  Dwell,           \* OPTIONAL_DWELL_SECONDS
  StudentEvery,    \* every such ordinal is a student
  Templates,       \* the shifts of the others, by worker ordinal
  Departs, Returns,   \* [shift -> time of day] of the way out and the way back
  OutingDepart(_, _), \* time of day of the outing of a citizen on a day
  Catalog,         \* [kind -> [residents, jobs, hours, school, site]]
  InitialBuildings, \* the kinds of the buildings a new city comes with
  GrownKinds,      \* the kinds that city growth may place
  None,            \* no wake, no workplace, no override
  MaxPlacements,   \* bound: buildings placed, the initial ones included
  Horizon          \* bound: the last instant, by the number of buildings placed

Shifts == DOMAIN Departs
Kinds == DOMAIN Catalog

ASSUME PopulationAssumption ==
  /\ {DayLength, Week, MoveInInterval, GrowthInterval, StudentEvery} \subseteq Nat \ {0}
  /\ {Dwell, MaxPlacements} \subseteq Nat
  /\ Horizon \in [Len(InitialBuildings)..MaxPlacements -> Nat]
  /\ "school" \in Shifts
  /\ Templates \in Seq(Shifts \ {"school"}) /\ Templates # <<>>
  /\ Departs \in [Shifts -> 0..(DayLength - 1)] /\ Returns \in [Shifts -> 0..(DayLength - 1)]
  /\ \A s, r \in Shifts : Departs[s] < Returns[r]
  /\ Catalog \in [Kinds -> [residents : Nat, jobs : Nat, school : BOOLEAN, site : BOOLEAN,
                            hours : [{0, 1} -> (Shifts \ {"school"}) \cup {None}]]]
  /\ IsFiniteSet(Kinds)
  /\ InitialBuildings \in Seq(Kinds) /\ GrownKinds \subseteq Kinds
  /\ None \notin Nat /\ None \notin Shifts

VARIABLES
  now, phase,      \* the clock, and where in a tick the engine is
  buildings,       \* [id -> [kind, placedAt, born]]; born numbers the placements
  placements,      \* buildings placed so far
  citizens,        \* [ordinal -> [home, shift, job, away, wake]]
  nextOrdinal,     \* NextCitizenOrdinal
  rows, unassigned, \* workers_by_building and unassigned_workers
  wakes, moveIns,  \* the scheduler: Activity rows <<ordinal, due>> and MoveIn rows
  demands, trips   \* PendingTripDemands and active_trips

clockVars == <<now, phase>>
cityVars == <<buildings, placements>>
jobVars == <<rows, unassigned>>
travelVars == <<demands, trips>>
vars == <<now, phase, buildings, placements, citizens, nextOrdinal, rows, unassigned,
          wakes, moveIns, demands, trips>>

-----------------------------------------------------------------------------
(* Calendar and routines (clock.rs, commute.rs).                           *)

Day(t) == t \div DayLength
At(day, minute) == day * DayLength + minute

IsStudent(c) == c % StudentEvery = 0
ShiftTemplateForId(c) ==
  IF IsStudent(c) THEN "school"
  ELSE Templates[((c - (c \div StudentEvery) - 1) % Len(Templates)) + 1]
IsDayOff(c, day) == day % Week = c % Week

Activities == {"DailyRoutine", "OptionalOuting", "PrimaryReturn", "OptionalReturn"}
Activity(kind, due) == [kind |-> kind, due |-> due]

ASSUME NoneIsNoActivity == None \notin [kind : Activities, due : Nat]

NextDailyRoutine(shift, day) == Activity("DailyRoutine", At(day + 1, Departs[shift]))

RoutineFromNow(shift, t) ==
  LET departure == At(Day(t), Departs[shift])
  IN  IF t <= departure THEN Activity("DailyRoutine", departure)
      ELSE NextDailyRoutine(shift, Day(t))

PrimaryReturn(shift, day) == Activity("PrimaryReturn", At(day, Returns[shift]))

-----------------------------------------------------------------------------
(* Buildings, homes and jobs.                                              *)

Residents(b) == Catalog[buildings[b].kind].residents
Homes(city) == {b \in DOMAIN city : Catalog[city[b].kind].residents > 0}
Workplaces(city) == {b \in DOMAIN city : Catalog[city[b].kind].jobs > 0}
Schools == {b \in DOMAIN buildings : Catalog[buildings[b].kind].school}
Sites == {b \in DOMAIN buildings : Catalog[buildings[b].kind].site}
Occupants(b) == {c \in DOMAIN citizens : citizens[c].home = b}
NextBuildingId == IF DOMAIN buildings = {} THEN 1
                  ELSE 1 + CHOOSE b \in DOMAIN buildings : \A e \in DOMAIN buildings : e <= b

\* The hours of the workplace, if it has its own, beat the citizen's.
ShiftAt(c, kind, shift) ==
  LET override == Catalog[kind].hours[c % 2] IN IF override = None THEN shift ELSE override

\* Job slots nobody fills, in building-id order.
OpenSlots(city, staff) ==
  {s \in Workplaces(city) \X (1..Cardinality(UNION {1..Catalog[kind].jobs : kind \in Kinds})) :
     Cardinality(staff[s[1]]) < s[2] /\ s[2] <= Catalog[city[s[1]].kind].jobs}
Before(s, e) == s[1] < e[1] \/ (s[1] = e[1] /\ s[2] < e[2])

\* Every open slot goes to the lowest unassigned citizen: the n-th of the ones to
\* the n-th of the others.
Hired(city, staff, idle) ==
  LET slots == OpenSlots(city, staff)
      Place(s) == Cardinality({e \in slots : Before(e, s)})
      Rank(c) == Cardinality({e \in idle : e < c})
      lucky == {c \in idle : \E s \in slots : Place(s) = Rank(c)}
  IN  [c \in lucky |-> (CHOOSE s \in slots : Place(s) = Rank(c))[1]]

\* The move-ins of a house from slot `first` on, each at its own time.
MoveInRows(b, building, first) ==
  {[building |-> b, slot |-> k, born |-> building.born,
    due |-> building.placedAt + k * MoveInInterval] :
      k \in first..(Catalog[building.kind].residents - 1)}

-----------------------------------------------------------------------------
(* schedule_activity: the wake a citizen had is taken out of the scheduler.*)

\* Fault: the old wake stays in the scheduler.
RescheduledTwice(queue, new) == queue \cup {<<c, new[c].due>> : c \in DOMAIN new}

\* The scheduler after each citizen c of `new` is given the activity new[c].
Rescheduled(queue, new) ==
  (queue \ {<<c, citizens[c].wake.due>> :
              c \in {e \in DOMAIN new \cap DOMAIN citizens : citizens[e].wake # None}})
  \cup {<<c, new[c].due>> : c \in DOMAIN new}

-----------------------------------------------------------------------------
(* Building reconciliation: `city` replaces the buildings.                 *)

Outbound == {"CommuteOutbound", "OptionalOutbound"}
Travelling(c) == \E trip \in trips : trip.citizen = c

\* Fault: residents who leave the city keep their job slots.
KeptRows(city, lost, cleared) == [b \in Workplaces(city) |-> IF b \in DOMAIN rows THEN rows[b] ELSE {}]

RowsWithout(city, lost, cleared) ==
  [b \in Workplaces(city) |-> IF b \in DOMAIN rows THEN rows[b] \ lost ELSE {}]

\* Fault: the trip of a cleared worker is left as it is.
TripsLeft(gone, lost, cleared, hired) == {trip \in trips : trip.citizen \notin lost}

\* Trips of those who leave are gone; a cleared worker on the way to work is sent to
\* the new workplace; an outbound trip to a building that is gone is dropped.
TripsAfter(gone, lost, cleared, hired) ==
  LET Redirected(trip) == trip.purpose = "CommuteOutbound" /\ trip.citizen \in cleared
      Kept(trip) ==
        /\ trip.citizen \notin lost
        /\ IF Redirected(trip) THEN trip.citizen \in DOMAIN hired
           ELSE ~(trip.purpose \in Outbound /\ trip.to \in gone)
  IN  {IF Redirected(trip) THEN [trip EXCEPT !.to = hired[trip.citizen]] ELSE trip :
         trip \in {e \in trips : Kept(e)}}

\* Fault: those whose trip was dropped are forgotten.
NobodyStranded(stay, left) == {}

\* Citizens whose trip was dropped and who have nothing else to wait for.
Stranded(stay, left) ==
  {c \in stay : /\ Travelling(c) /\ citizens[c].wake = None
                /\ \A trip \in left : trip.citizen # c}

\* `gone` are the ids that were removed, `added` the ids that are new in `city`.
Reconcile(city, gone, added) ==
  LET lost == {c \in DOMAIN citizens : citizens[c].home \in gone}
      stay == DOMAIN citizens \ lost
      cleared == {c \in stay : citizens[c].job \in gone}
      staff == RowsWithout(city, lost, cleared)
      idle == (unassigned \ lost) \cup cleared
      hired == Hired(city, staff, idle)
      left == TripsAfter(gone, lost, cleared, hired)
      Shift(c) == IF c \in DOMAIN hired
                  THEN ShiftAt(c, city[hired[c]].kind, citizens[c].shift) ELSE citizens[c].shift
      moved == {c \in DOMAIN hired : /\ ~Travelling(c) /\ citizens[c].wake # None
                                     /\ citizens[c].wake.kind = "DailyRoutine"}
      new == [c \in moved \cup Stranded(stay, left) |->
                IF c \in moved THEN RoutineFromNow(Shift(c), now)
                               ELSE NextDailyRoutine(Shift(c), Day(now))]
  IN  /\ buildings' = city
      /\ citizens' = [c \in stay |->
           [citizens[c] EXCEPT
              !.job = IF c \in DOMAIN hired THEN hired[c] ELSE IF c \in cleared THEN None ELSE @,
              !.shift = Shift(c),
              !.wake = IF c \in DOMAIN new THEN new[c] ELSE @]]
      /\ rows' = [b \in DOMAIN staff |-> staff[b] \cup {c \in DOMAIN hired : hired[c] = b}]
      /\ unassigned' = idle \ DOMAIN hired
      /\ wakes' = Rescheduled(wakes, new)
      /\ moveIns' = moveIns \cup
           UNION {MoveInRows(b, city[b], 0) : b \in added}
      /\ trips' = left
      /\ UNCHANGED <<nextOrdinal, demands>>

Place(kind) ==
  LET b == NextBuildingId
      new == [kind |-> kind, placedAt |-> now, born |-> placements + 1]
  IN  /\ placements < MaxPlacements
      /\ placements' = placements + 1
      /\ Reconcile([e \in DOMAIN buildings \cup {b} |-> IF e = b THEN new ELSE buildings[e]], {}, {b})

\* The player places a building between two ticks.
PlaceBuilding(kind) == phase = "rest" /\ Place(kind) /\ UNCHANGED clockVars

\* RemoveAtTiles, or an undo, takes some buildings away at once.
Demolish(gone) ==
  /\ phase = "rest"
  /\ Reconcile([b \in DOMAIN buildings \ gone |-> buildings[b]], gone, {})
  /\ UNCHANGED <<clockVars, placements>>

-----------------------------------------------------------------------------
(* Saving and loading.  What is not in the save is derived from it.        *)

\* Fault: the move-ins that already happened are scheduled again.
LoadedAllMoveIns == UNION {MoveInRows(b, buildings[b], 0) : b \in DOMAIN buildings}

\* The first slots of a house are the occupied ones.
LoadedMoveIns ==
  UNION {MoveInRows(b, buildings[b], Cardinality(Occupants(b))) : b \in DOMAIN buildings}

LoadedWakes ==
  {<<c, citizens[c].wake.due>> : c \in {e \in DOMAIN citizens : citizens[e].wake # None}}
LoadedRows == [b \in Workplaces(buildings) |-> {c \in DOMAIN citizens : citizens[c].job = b}]
LoadedUnassigned ==
  {c \in DOMAIN citizens : citizens[c].job = None /\ citizens[c].shift # "school"}

\* Fault: the ordinal of a save is not used.
DerivedOrdinal ==
  IF DOMAIN citizens = {} THEN 1 ELSE 1 + CHOOSE c \in DOMAIN citizens : \A e \in DOMAIN citizens : e <= c

LoadedOrdinal ==
  CHOOSE n \in {nextOrdinal, DerivedOrdinal} : n >= nextOrdinal /\ n >= DerivedOrdinal

\* The city is saved and opened again; a citizen on a trip has no wake.
Reload ==
  /\ phase = "rest"
  /\ citizens' = [c \in DOMAIN citizens |->
                    [citizens[c] EXCEPT !.wake = IF Travelling(c) THEN None ELSE @]]
  /\ wakes' = {w \in LoadedWakes : ~Travelling(w[1])}
  /\ moveIns' = LoadedMoveIns
  /\ rows' = LoadedRows
  /\ unassigned' = LoadedUnassigned
  /\ nextOrdinal' = LoadedOrdinal
  /\ demands' = {}
  /\ UNCHANGED <<clockVars, cityVars, trips>>

-----------------------------------------------------------------------------
(* run_due: what is due, in the order of time, move-ins first.             *)

DueMoveIns == {m \in moveIns : m.due <= now}
DueWakes == {w \in wakes : w[2] <= now}
NothingDue == DueMoveIns = {} /\ DueWakes = {}

MoveInBefore(m, e) ==
  \/ m.due < e.due
  \/ m.due = e.due /\ m.building < e.building
  \/ m.due = e.due /\ m.building = e.building /\ m.slot < e.slot
  \/ m.due = e.due /\ m.building = e.building /\ m.slot = e.slot /\ m.born <= e.born

\* find_available_workplace: the first building with a free job.
Vacancies == {b \in DOMAIN rows : Cardinality(rows[b]) < Catalog[buildings[b].kind].jobs}
FirstVacancy == CHOOSE b \in Vacancies : \A e \in Vacancies : b <= e

\* Fault: whether the building still has room is not checked.
Settles(m) == m.building \in DOMAIN buildings /\ Residents(m.building) > 0

HasRoom(m) ==
  /\ m.building \in DOMAIN buildings
  /\ Cardinality(Occupants(m.building)) < Residents(m.building)

ApplyMoveIn(m) ==
  LET c == nextOrdinal
      job == IF IsStudent(c) \/ Vacancies = {} THEN None ELSE FirstVacancy
      shift == IF job = None THEN ShiftTemplateForId(c)
               ELSE ShiftAt(c, buildings[job].kind, ShiftTemplateForId(c))
      wake == RoutineFromNow(shift, now)
      citizen == [home |-> m.building, shift |-> shift, job |-> job, away |-> FALSE, wake |-> wake]
  IN  /\ phase = "due" /\ m \in DueMoveIns
      /\ \A e \in DueMoveIns : MoveInBefore(m, e)
      /\ \A w \in DueWakes : m.due <= w[2]
      /\ moveIns' = moveIns \ {m}
      /\ IF HasRoom(m)
         THEN /\ citizens' = [e \in DOMAIN citizens \cup {c} |-> IF e = c THEN citizen ELSE citizens[e]]
              /\ nextOrdinal' = c + 1
              /\ rows' = [b \in DOMAIN rows |-> IF b = job THEN rows[b] \cup {c} ELSE rows[b]]
              /\ unassigned' = IF job = None /\ ~IsStudent(c) THEN unassigned \cup {c} ELSE unassigned
              /\ wakes' = wakes \cup {<<c, wake.due>>}
         ELSE UNCHANGED <<citizens, nextOrdinal, jobVars, wakes>>
      /\ UNCHANGED <<clockVars, cityVars, travelVars>>

\* The wake w is the next event to apply.
NextWake(w) ==
  /\ phase = "due" /\ w \in DueWakes
  /\ \A m \in DueMoveIns : w[2] < m.due
  /\ \A e \in DueWakes : w[2] < e[2] \/ (w[2] = e[2] /\ w[1] <= e[1])

\* Citizen c now waits for `activity`, out of the scheduler until then.
Await(c, w, activity) ==
  /\ citizens' = [citizens EXCEPT ![c].wake = activity]
  /\ wakes' = (wakes \ {w}) \cup {<<c, activity.due>>}
  /\ UNCHANGED demands

\* Citizen c leaves for `to`; the trip owns the citizen until it is resolved.
Leave(c, w, purpose, to) ==
  /\ citizens' = [citizens EXCEPT ![c].wake = None]
  /\ wakes' = wakes \ {w}
  /\ demands' = demands \cup {[citizen |-> c, purpose |-> purpose, to |-> to, due |-> w[2]]}

\* A wake of somebody who is gone, or was taken already, is dropped.
DropWake(w) ==
  /\ NextWake(w)
  /\ w[1] \in DOMAIN citizens => citizens[w[1]].wake = None
  /\ wakes' = wakes \ {w}
  /\ UNCHANGED <<clockVars, cityVars, citizens, nextOrdinal, jobVars, moveIns, travelVars>>

Destinations(c) ==
  IF citizens[c].shift = "school" THEN Schools
  ELSE IF citizens[c].job = None THEN {} ELSE {citizens[c].job}

\* On a day off: later today, now to some site, or not at all.
DayOff(c, w) ==
  LET today == Day(w[2])
      outing == At(today, OutingDepart(c, today))
  IN  IF outing > w[2] THEN Await(c, w, Activity("OptionalOuting", outing))
      ELSE \/ Await(c, w, NextDailyRoutine(citizens[c].shift, today))
           \/ \E b \in Sites : Leave(c, w, "OptionalOutbound", b)

\* Fault: a citizen who is not at home sets out all the same.
StartDay(c, w) ==
  LET today == Day(w[2])
  IN  IF IsDayOff(c, today) THEN DayOff(c, w)
      ELSE IF Destinations(c) = {} THEN Await(c, w, NextDailyRoutine(citizens[c].shift, today))
      ELSE \E b \in Destinations(c) : Leave(c, w, "CommuteOutbound", b)

ApplyDailyRoutine(c, w) ==
  LET today == Day(w[2])
  IN  IF citizens[c].away THEN Await(c, w, PrimaryReturn(citizens[c].shift, today))
      ELSE IF IsDayOff(c, today) THEN DayOff(c, w)
      ELSE IF Destinations(c) = {} THEN Await(c, w, NextDailyRoutine(citizens[c].shift, today))
      ELSE \E b \in Destinations(c) : Leave(c, w, "CommuteOutbound", b)

ApplyActivity(w) ==
  LET c == w[1]
  IN  /\ NextWake(w)
      /\ c \in DOMAIN citizens /\ citizens[c].wake # None
      /\ CASE citizens[c].wake.kind \in {"DailyRoutine", "OptionalOuting"} -> ApplyDailyRoutine(c, w)
           [] citizens[c].wake.kind = "PrimaryReturn" -> Leave(c, w, "CommuteReturn", citizens[c].home)
           [] citizens[c].wake.kind = "OptionalReturn" -> Leave(c, w, "OptionalReturn", citizens[c].home)
      /\ UNCHANGED <<clockVars, cityVars, nextOrdinal, jobVars, moveIns, trips>>

\* Every demand becomes an active trip of the current service day.
DrainAndSpawn ==
  /\ phase = "due" /\ NothingDue /\ demands # {}
  /\ trips' = trips \cup {[citizen |-> d.citizen, purpose |-> d.purpose, to |-> d.to,
                           day |-> Day(now)] : d \in demands}
  /\ demands' = {}
  /\ UNCHANGED <<clockVars, cityVars, citizens, nextOrdinal, jobVars, wakes, moveIns>>

-----------------------------------------------------------------------------
(* Substeps.                                                               *)

BeginTick ==
  /\ phase = "rest"
  /\ phase' = "due"
  /\ UNCHANGED <<now, cityVars, citizens, nextOrdinal, jobVars, wakes, moveIns, travelVars>>

Drained == phase = "due" /\ NothingDue /\ demands = {}

NextGrowth == ((now \div GrowthInterval) + 1) * GrowthInterval

\* A substep never passes a boundary: an event, the next day, the next growth time.
Advance(t) ==
  /\ Drained
  /\ t > now /\ t <= Horizon[placements]
  /\ \A m \in moveIns : t <= m.due
  /\ \A w \in wakes : t <= w[2]
  /\ t <= NextGrowth /\ t <= At(Day(now) + 1, 0)
  /\ now' = t
  /\ phase' = "moved"
  /\ UNCHANGED <<cityVars, citizens, nextOrdinal, jobVars, wakes, moveIns, travelVars>>

\* Fault: the way back may be scheduled in the past.
PlannedReturn(shift) == PrimaryReturn(shift, Day(now))

\* Today's way back, or at once when its time has passed.
ReturnDue(shift) ==
  LET planned == PrimaryReturn(shift, Day(now))
  IN  IF planned.due < now THEN Activity("PrimaryReturn", now) ELSE planned

\* What apply_trip_resolution schedules for the traveller of `trip`.
AfterTrip(trip, completed) ==
  LET shift == citizens[trip.citizen].shift
      today == Day(now)
      sameDay == trip.day = today
  IN  CASE trip.purpose = "CommuteOutbound" ->
             IF completed /\ sameDay THEN ReturnDue(shift) ELSE RoutineFromNow(shift, now)
        [] trip.purpose = "CommuteReturn" ->
             IF sameDay THEN NextDailyRoutine(shift, today)
             ELSE IF completed THEN RoutineFromNow(shift, now) ELSE ReturnDue(shift)
        [] trip.purpose = "OptionalOutbound" ->
             IF completed THEN Activity("OptionalReturn", now + Dwell) ELSE RoutineFromNow(shift, now)
        [] trip.purpose = "OptionalReturn" ->
             IF completed /\ ~sameDay THEN RoutineFromNow(shift, now) ELSE NextDailyRoutine(shift, today)

\* A trip ends in this substep; a completed one has moved its traveller.
Resolve(trip, completed) ==
  LET c == trip.citizen
      next == AfterTrip(trip, completed)
  IN  /\ phase = "moved"
      /\ citizens' = [citizens EXCEPT ![c].wake = next,
                                      ![c].away = IF completed THEN trip.purpose \in Outbound ELSE @]
      /\ wakes' = Rescheduled(wakes, [e \in {c} |-> next])
      /\ trips' = trips \ {trip}
      /\ UNCHANGED <<clockVars, cityVars, nextOrdinal, jobVars, moveIns, demands>>

Capacity(size) == Cardinality(UNION {{b} \X (1..size[buildings[b].kind]) : b \in DOMAIN buildings})
HomesNeeded ==
  Capacity([k \in Kinds |-> Catalog[k].jobs]) >= Capacity([k \in Kinds |-> Catalog[k].residents])

\* At a growth time the city may place buildings itself, each next to some line: homes
\* while the jobs suffice for those there are, workplaces otherwise.
GrowCity(kind) ==
  /\ phase \in {"moved", "grown"} /\ now % GrowthInterval = 0
  /\ HomesNeeded <=> Catalog[kind].residents > 0
  /\ Place(kind)
  /\ phase' = "grown" /\ UNCHANGED now

EndSubstep ==
  /\ phase \in {"moved", "grown"}
  /\ phase' = "due"
  /\ UNCHANGED <<now, cityVars, citizens, nextOrdinal, jobVars, wakes, moveIns, travelVars>>

EndTick ==
  /\ Drained
  /\ phase' = "rest"
  /\ UNCHANGED <<now, cityVars, citizens, nextOrdinal, jobVars, wakes, moveIns, travelVars>>

-----------------------------------------------------------------------------
(* A new city: its buildings stand, nobody has moved in yet.               *)
Init ==
  /\ now = 0 /\ phase = "rest"
  /\ buildings = [b \in DOMAIN InitialBuildings |->
                    [kind |-> InitialBuildings[b], placedAt |-> 0, born |-> b]]
  /\ placements = Len(InitialBuildings)
  /\ citizens = [c \in {} |-> None]
  /\ nextOrdinal = 1
  /\ rows = [b \in Workplaces(buildings) |-> {}]
  /\ unassigned = {}
  /\ wakes = {}
  /\ moveIns = LoadedMoveIns
  /\ demands = {} /\ trips = {}

Player ==
  \/ \E kind \in Kinds : PlaceBuilding(kind)
  \/ \E gone \in (SUBSET DOMAIN buildings) \ {{}} : Demolish(gone)
  \/ Reload

Engine ==
  \/ BeginTick \/ EndTick \/ EndSubstep \/ DrainAndSpawn
  \/ \E m \in moveIns : ApplyMoveIn(m)
  \/ \E w \in wakes : ApplyActivity(w) \/ DropWake(w)
  \/ \E t \in (now + 1)..NextGrowth : Advance(t)
  \/ \E trip \in trips, completed \in BOOLEAN : Resolve(trip, completed)
  \/ \E kind \in GrownKinds : GrowCity(kind)

Next == Player \/ Engine

Spec == Init /\ [][Next]_vars

-----------------------------------------------------------------------------
(* Properties.                                                             *)

Purposes == Outbound \cup {"CommuteReturn", "OptionalReturn"}

\* Every citizen is owned by exactly one of a wake, a demand and a trip, so that none
\* is lost for good and none travels twice; the scheduler has a row for that wake and no
\* other (schedule_activity: a reassigned citizen never keeps two live wakes).
\* validate_sims refuses a save without (ScheduledWhileTraveling, MissingNextActivity).
Owners(c) ==
  Cardinality({d \in demands : d.citizen = c}) + Cardinality({trip \in trips : trip.citizen = c})
  + (IF citizens[c].wake = None THEN 0 ELSE 1)
OneOwner ==
  /\ \A c \in DOMAIN citizens : Owners(c) = 1
  /\ {e.citizen : e \in demands \cup trips} \subseteq DOMAIN citizens
  /\ {w \in wakes : w[1] \in DOMAIN citizens} = LoadedWakes

\* Nothing the scheduler holds is overdue when the clock moves on, so every demand is
\* raised at the time it was scheduled for (apply_trip_resolution clamps to now).
NothingOverdue ==
  /\ \A w \in wakes : w[2] >= now
  /\ \A m \in moveIns : m.due >= now
  /\ \A d \in demands : d.due = now

\* Jobs, rows and the unassigned set say the same; every home and every job is in a
\* building that stands and has room; nobody is out of work while a job is open
\* (reconcile_buildings, apply_move_in).
HousedAndHired ==
  /\ \A c \in DOMAIN citizens :
       citizens[c].home \in DOMAIN buildings /\ citizens[c].job \in DOMAIN rows \cup {None}
  /\ \A b \in DOMAIN buildings : Cardinality(Occupants(b)) <= Residents(b)
  /\ \A b \in DOMAIN rows : Cardinality(rows[b]) <= Catalog[buildings[b].kind].jobs
  /\ rows = LoadedRows /\ unassigned = LoadedUnassigned
  /\ unassigned = {} \/ Vacancies = {}

\* Whoever is out has a way home ahead, and no way out starts or is planned from
\* anywhere but home (the stranded guard of apply_daily_routine); nobody is under way to
\* a building that is gone, or to work in a building where somebody else works (trips are
\* retargeted or dropped by reconcile_buildings).
JourneysMatchWhereabouts ==
  /\ \A c \in DOMAIN citizens : citizens[c].wake # None => citizens[c].wake.kind \in
       (IF citizens[c].away THEN Activities \ {"OptionalOuting"} ELSE {"DailyRoutine", "OptionalOuting"})
  /\ \A e \in demands \cup trips :
       /\ e.purpose \in (IF citizens[e.citizen].away THEN Purposes \ Outbound ELSE Outbound)
       /\ e.to \in DOMAIN buildings
       /\ e.purpose = "CommuteOutbound" => e.to \in Destinations(e.citizen)

\* A citizen's ordinal is never given to another one, whoever leaves and whenever the
\* city is saved and loaded (NextCitizenOrdinal).
OrdinalsNeverReused ==
  [][/\ nextOrdinal' >= nextOrdinal
     /\ \A c \in DOMAIN citizens' \ DOMAIN citizens : c >= nextOrdinal]_vars

\* Saving and loading between two ticks changes nothing: what the load derives is what
\* the running world has (build_world: "the first N slots are always the occupied ones"),
\* but for events of buildings and citizens that are gone.  (A building that has the id
\* of a demolished one inherits the move-ins that wait for it.)
FirstOfItsId(b) == b \in DOMAIN buildings /\ buildings[b].born = b
LoadsAsSaved ==
  phase = "rest" =>
    /\ {m \in moveIns : FirstOfItsId(m.building)} = {m \in LoadedMoveIns : FirstOfItsId(m.building)}
    /\ LoadedOrdinal = nextOrdinal /\ LoadedRows = rows /\ LoadedUnassigned = unassigned
    /\ LoadedWakes = {w \in wakes : w[1] \in DOMAIN citizens /\ ~Travelling(w[1])}
=============================================================================
