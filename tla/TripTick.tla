------------------------------ MODULE TripTick ------------------------------
(***************************************************************************)
(* The simulation core: trips walk, wait, ride and drive across a city     *)
(* whose lines the player pauses, breaks, edits, deletes and staffs between*)
(* two ticks (trips.rs, transit.rs, platforms.rs, route_lifecycle.rs,      *)
(* service_control.rs).                                                    *)
(*                                                                         *)
(* A tick is a function from city to city, as in the code: it is split at  *)
(* every boundary, and each substep moves the vehicles, then the trips.    *)
(* All times are whole seconds and relative to the current instant, so that*)
(* a running city can come back to a state it has been in.  Lines, vehicles*)
(* and trips are numbered in the order of their ids.                       *)
(***************************************************************************)
EXTENDS Router

CONSTANTS
  Access,           \* [stop -> position]: the road tile where a vehicle of the stop parks
  Patterns,         \* the patterns the player may give a line
  InitialLines,     \* the patterns of the lines the city starts with
  PlatformCapacity, \* waiting trips that fit on the platform of a stop
  Seats,            \* capacity of a vehicle
  TargetHeadway,    \* DEFAULT_TARGET_HEADWAY_SECONDS
  Patience,         \* WAIT_PATIENCE_SECONDS
  Grace,            \* DEADLINE_GRACE_SECONDS
  Slack,            \* seconds from the scheduled time of a trip to its deadline
  Tile,             \* WALK_SECONDS_PER_TILE
  Demands,          \* sequence of [due, from, to, drive]; drive = 0: no car path
  Deltas,           \* the tick lengths of the host
  MaxLines, MaxVehicles, MaxIntents  \* bounds of the exploration

ASSUME TripTickAssumption ==
  /\ {Patience, Grace, Slack, Tile, TargetHeadway, Seats} \subseteq Nat \ {0}
  /\ PlatformCapacity \in Nat
  /\ Deltas \subseteq Nat \ {0} /\ \E longest \in Deltas : \A d \in Deltas : longest >= d
  /\ Demands \in Seq([due : Nat, from : Nat \X Nat, to : Nat \X Nat, drive : Nat])
  /\ \A i, j \in DOMAIN Demands : i <= j => Demands[i].due <= Demands[j].due
  /\ \A p \in Patterns : /\ p.kind \in {"loop", "shuttle"}
                         /\ p.stops \in Seq(DOMAIN Where) /\ Len(p.stops) >= 2
                         /\ PathsExist(ServiceItinerary(p))
  /\ InitialLines \in Seq(Patterns)
  /\ \A s \in DOMAIN Where : Access[s] \in Nat \X Nat

VARIABLES
  city,    \* the whole simulation snapshot
  intents, \* structural player intents so far, bounded by MaxIntents
  steady   \* history: no line was broken, edited or deleted so far

vars == <<city, intents, steady>>

Legs == [p \in Patterns |-> ServiceItinerary(p)]
Rides == [p \in Patterns |-> RideEdges(Legs[p])]
MaxDelta == Max(Deltas)
LastDue == IF Demands = <<>> THEN 0 ELSE Demands[Len(Demands)].due
Floor(n) == IF n > 0 THEN n ELSE 0
\* A set of numbers as a sequence: the i-th has i - 1 before it.
Ascending(S) ==
  [i \in 1..Cardinality(S) |-> CHOOSE x \in S : Cardinality({y \in S : y < x}) = i - 1]

-----------------------------------------------------------------------------
(* Reading the city.                                                       *)

LegsOf(c, l) == Legs[c.lines[l].pattern]
IsRouteOperational(c, l) == l \in DOMAIN c.lines /\ c.lines[l].active /\ ~c.lines[l].broken
Fleet(c, l) == {v \in DOMAIN c.vehicles : c.vehicles[v].line = l}
Riders(c) == UNION {c.vehicles[v].riders : v \in DOMAIN c.vehicles}
Serves(c, l, stop) == l \in DOMAIN c.lines /\ stop \in Range(c.lines[l].pattern.stops)

IsWalk(leg) == leg.line = 0
CurrentLeg(trip) == trip.plan[trip.leg]
HasLeg(trip) == trip.leg \in 1..Len(trip.plan)
WalkingOnly(plan) == \A i \in 1..Len(plan) : IsWalk(plan[i])

\* A line without vehicles stays editable but nobody plans to ride it.
ActiveServices(c) ==
  {[line |-> l, rides |-> Rides[c.lines[l].pattern]] :
     l \in {k \in DOMAIN c.lines : IsRouteOperational(c, k) /\ Fleet(c, k) # {}}}

Snap(at) == <<((at[1] + Tile \div 2) \div Tile) * Tile, ((at[2] + Tile \div 2) \div Tile) * Tile>>
PlanFrom(c, at, destination) == FindRoutePlan(ActiveServices(c), Snap(at), destination)

StatusAfterLeg(plan, next) ==
  IF next > Len(plan) THEN "Arrived" ELSE IF IsWalk(plan[next]) THEN "Walking" ELSE "Waiting"

Terminal == {"Arrived", "Late", "Unserved"}

-----------------------------------------------------------------------------
(* Platforms: who waits at a stop, in which order, and who fits.           *)

Waiters(c, stop) ==
  {t \in DOMAIN c.trips :
     /\ c.trips[t].status = "Waiting" /\ HasLeg(c.trips[t])
     /\ Snap(c.trips[t].at) = Where[stop]
     /\ Serves(c, CurrentLeg(c.trips[t]).line, stop)}

\* Fault: waiting trips are taken in the order of their ids alone.
AheadById(c, t, u) == t < u

\* Ascending remaining patience, then trip id.
Ahead(c, t, u) ==
  \/ c.trips[t].patience < c.trips[u].patience
  \/ c.trips[t].patience = c.trips[u].patience /\ t < u

\* The first n trips of S in this order.
FirstOf(n, S, c) == {t \in S : Cardinality({u \in S : Ahead(c, u, t)}) < n}

OnPlatform(c, stop) == FirstOf(PlatformCapacity, Waiters(c, stop), c)

-----------------------------------------------------------------------------
(* Vehicles.  A drive is the vehicle with the trips it may change; the     *)
(* queues are those of the city as the substep found it, for every vehicle.*)

Board(drive, stop, found) ==
  LET v == drive.vehicle
      CanBoard(t) ==
        LET trip == drive.trips[t]
        IN  /\ trip.status = "Waiting" /\ t \notin Riders(found)
            /\ CurrentLeg(trip).line = v.line /\ CurrentLeg(trip).board = v.index
            /\ trip.at = Where[stop]
      able == {t \in OnPlatform(found, stop) : CanBoard(t)}
      taken == FirstOf(Seats - Cardinality(v.riders), able, found)
  IN  [vehicle |-> [v EXCEPT !.riders = @ \cup taken],
       trips |-> [t \in DOMAIN drive.trips |->
                    IF t \in taken THEN [drive.trips[t] EXCEPT !.status = "Riding"]
                                   ELSE drive.trips[t]]]

\* Fault: the completed leg is taken for the one after it.
AlightsNext(ride, v, leg, done) ==
  ride.line = v.line /\ ride.alight = done + 1 /\ ride.to = Where[leg.to]

Alights(ride, v, leg, done) ==
  ride.line = v.line /\ ride.alight = done /\ ride.to = Where[leg.to]

Disembark(drive, leg, done) ==
  LET v == drive.vehicle
      Leaves(t) ==
        LET trip == drive.trips[t]
        IN  t \in v.riders /\ HasLeg(trip) /\ Alights(CurrentLeg(trip), v, leg, done)
      left == {t \in DOMAIN drive.trips : Leaves(t)}
  IN  [vehicle |-> [v EXCEPT !.riders = @ \ left],
       trips |-> [t \in DOMAIN drive.trips |->
                    IF t \in left
                    THEN [drive.trips[t] EXCEPT !.at = Where[leg.to], !.status = "Walking",
                                                !.leg = @ + 1, !.wait = 0]
                    ELSE drive.trips[t]]]

\* A completed leg lets riders off, then those waiting for the next leg on.
CompleteLeg(drive, legs, done, found) ==
  LET after == Disembark(drive, legs[done], done)
      next == legs[after.vehicle.index]
  IN  IF next.kind = "service" THEN Board(after, next.from, found) ELSE after

\* Fault: the progress within a step survives the step.
AdvanceCursorOnly(v, legs) ==
  IF v.step < Len(legs[v.index].steps)
  THEN [v EXCEPT !.step = @ + 1]
  ELSE [v EXCEPT !.index = Around(legs, @ + 1), !.step = 1]

AdvanceCursor(v, legs) ==
  IF v.step < Len(legs[v.index].steps)
  THEN [v EXCEPT !.step = @ + 1, !.progress = 0]
  ELSE [v EXCEPT !.index = Around(legs, @ + 1), !.step = 1, !.progress = 0]

\* One round of the loop over the seconds left.  Empty legs take no time: a run of
\* them longer than the itinerary ends the drive.
DriveOn(run, legs, found) ==
  LET v == run.drive.vehicle
      steps == legs[v.index].steps
      moved == [run.drive EXCEPT !.vehicle = AdvanceCursor(v, legs)]
      arrived == IF moved.vehicle.index = v.index THEN moved
                 ELSE CompleteLeg(moved, legs, v.index, found)
      limit == Max({1, Sum([i \in 1..Len(legs) |-> Len(legs[i].steps)])})
      rest == steps[v.step] - v.progress
  IN  IF run.left = 0 THEN run
      ELSE IF steps = <<>> THEN
        [drive |-> CompleteLeg(moved, legs, v.index, found),
         left |-> IF run.empties + 1 > limit THEN 0 ELSE run.left, empties |-> run.empties + 1]
      ELSE IF run.left < rest THEN
        [drive |-> [run.drive EXCEPT !.vehicle.progress = @ + run.left], left |-> 0, empties |-> 0]
      ELSE [drive |-> arrived, left |-> run.left - rest, empties |-> 0]

\* Every round passes an empty leg or takes a second, and no round passes them all twice.
AdvanceVehicle(drive, legs, found, seconds) ==
  LET rounds == seconds * (1 + Cardinality({i \in DOMAIN legs : legs[i].steps = <<>>}))
      run[n \in 0..rounds] ==
        IF n = 0 THEN [drive |-> drive, left |-> seconds, empties |-> 0]
        ELSE DriveOn(run[n - 1], legs, found)
  IN  run[rounds].drive

\* Fault: a vehicle that stands at the stop is taken for one that has left.
DepartingUnderWay(v, leg) == leg.kind = "service" /\ v.step = 1 /\ v.progress > 0

Departing(v, leg) == leg.kind = "service" /\ v.step = 1 /\ v.progress = 0

\* The city after the drive of vehicle `id`.
Driven(c, id, drive) ==
  [c EXCEPT !.vehicles = [@ EXCEPT ![id] = drive.vehicle], !.trips = drive.trips]

TickVehicle(c, id, found, seconds) ==
  LET v == c.vehicles[id]
      legs == LegsOf(c, v.line)
      leg == legs[v.index]
      start == [vehicle |-> v, trips |-> c.trips]
      ready == IF Departing(v, leg) THEN Board(start, leg.from, found) ELSE start
  IN  IF IsRouteOperational(c, v.line)
      THEN Driven(c, id, AdvanceVehicle(ready, legs, found, seconds))
      ELSE c

\* One vehicle after the other, in the order of their ids.
TickVehicles(c, seconds) ==
  LET ids == Ascending(DOMAIN c.vehicles)
      after[n \in 0..Len(ids)] ==
        IF n = 0 THEN c ELSE TickVehicle(after[n - 1], ids[n], c, seconds)
  IN  after[Len(ids)]

\* The remaining seconds of the first leg ahead that has a step.
SecondsUntilStop(c, id) ==
  LET v == c.vehicles[id]
      legs == LegsOf(c, v.line)
      Coming(k) == legs[Around(legs, v.index + k)].steps
      real == {k \in 0..(Len(legs) - 1) : Coming(k) # <<>>}
      passed == IF 0 \in real THEN SumsOf(Coming(0))[v.step - 1] + v.progress ELSE 0
  IN  IF ~IsRouteOperational(c, v.line) \/ real = {} THEN {}
      ELSE {Sum(Coming(Min(real))) - passed}

-----------------------------------------------------------------------------
(* Trips over one substep that ends now and lasted `seconds`.              *)

MarkUnserved(trip) == [trip EXCEPT !.status = "Unserved", !.drive = 0]
ScoreArrival(trip) ==
  [trip EXCEPT !.status = IF trip.left < 0 THEN "Late" ELSE "Arrived", !.drive = 0]

\* A trip whose vehicle is gone starts over, and a trip without a plan gets one.
Replanned(c, t) ==
  LET trip == c.trips[t]
      Start(plan) ==
        [trip EXCEPT !.plan = plan, !.leg = 1, !.wait = 0, !.status = StatusAfterLeg(plan, 1)]
  IN  IF trip.plan = <<>> \/ trip.status = "Riding"
      THEN Start(PlanFrom(c, trip.at, trip.to).legs)
      ELSE trip

\* Walks to where the trip already stands are passed over in the same instant.
Collapsed(trip) ==
  LET standing(i) == IsWalk(trip.plan[i]) /\ trip.plan[i].to = trip.at
      next == Min({i \in trip.leg..(Len(trip.plan) + 1) : i > Len(trip.plan) \/ ~standing(i)})
  IN  IF next = trip.leg THEN trip
      ELSE [trip EXCEPT !.leg = next, !.wait = 0, !.status = StatusAfterLeg(trip.plan, next)]

Step(from, to, seconds) ==
  IF Distance(from, to) <= seconds THEN to ELSE IF from < to THEN from + seconds ELSE from - seconds

MoveToward(at, to, seconds) ==
  IF at[1] # to[1] THEN <<Step(at[1], to[1], seconds), at[2]>>
                   ELSE <<at[1], Step(at[2], to[2], seconds)>>

Walked(trip, seconds) ==
  LET goal == CurrentLeg(trip).to
      at == MoveToward(trip.at, goal, seconds)
      status == StatusAfterLeg(trip.plan, trip.leg + 1)
      there == [trip EXCEPT !.at = at, !.leg = @ + 1, !.wait = 0, !.status = status]
  IN  IF at # goal THEN [trip EXCEPT !.at = at, !.status = "Walking"]
      ELSE IF status = "Arrived" THEN ScoreArrival(there) ELSE there

\* Patience, or the grace after the deadline, may have run out within the substep.
Waited(trip, seconds) ==
  LET remaining == trip.left + Grace
      ends == (IF trip.patience <= seconds THEN {trip.patience} ELSE {})
              \cup (IF remaining <= 0 THEN {Floor(remaining + seconds)} ELSE {})
      spent == Min(ends \cup {seconds})
      after == [trip EXCEPT !.status = "Waiting", !.patience = Floor(@ - spent), !.wait = @ + spent]
  IN  IF ends = {} THEN after ELSE MarkUnserved(after)

OnLeg(trip, seconds) ==
  IF ~HasLeg(trip) THEN IF trip.at = trip.to THEN ScoreArrival(trip) ELSE MarkUnserved(trip)
  ELSE IF IsWalk(CurrentLeg(trip)) THEN Walked(trip, seconds)
  ELSE Waited(trip, seconds)

\* The estimate of a walk is not negative: one that is overdue can only be later still.
OnPlan(trip, seconds) ==
  IF WalkingOnly(trip.plan) /\ trip.left < 0 THEN MarkUnserved(trip)
  ELSE OnLeg(Collapsed(trip), seconds)

TickTrip(c, t, seconds) ==
  LET trip == c.trips[t]
  IN  IF trip.status = "Driving"
        THEN IF trip.drive > 0 THEN trip ELSE ScoreArrival([trip EXCEPT !.at = trip.to])
      ELSE IF trip.status = "Riding" /\ t \in Riders(c) THEN trip
      ELSE OnPlan(Replanned(c, t), seconds)

\* Riders who alighted in this substep start their next leg at its end.
JustDisembarked(before, after) ==
  {t \in DOMAIN after.trips :
     /\ before.trips[t].status \in {"Riding", "Waiting"} /\ after.trips[t].status = "Walking"
     /\ after.trips[t].leg > before.trips[t].leg /\ t \notin Riders(after)}

\* The seconds that all trips together waited.
WaitedIn(c, result) ==
  LET ids == Ascending(DOMAIN result)
  IN  Sum([i \in 1..Len(ids) |-> c.trips[ids[i]].patience - result[ids[i]].patience])

\* What became of the trips: those that are over leave, and are counted and reported.
Resolved(c, result) ==
  LET Over(statuses) == {t \in DOMAIN result : result[t].status \in statuses}
      over == Ascending(Over(Terminal))
      tally == c.tally
  IN  [c EXCEPT
        !.trips = Restrict(result, DOMAIN result \ Over(Terminal)),
        !.resolutions = @ \o [i \in 1..Len(over) |->
                                [trip |-> over[i], completed |-> result[over[i]].status # "Unserved"]],
        !.tally = [completed |-> tally.completed + Cardinality(Over({"Arrived", "Late"})),
                   late |-> tally.late + Cardinality(Over({"Late"})),
                   unserved |-> tally.unserved + Cardinality(Over({"Unserved"})),
                   waited |-> tally.waited + WaitedIn(c, result),
                   fares |-> tally.fares
                     + Cardinality({t \in Over({"Arrived", "Late"}) : ~WalkingOnly(result[t].plan)})]]

AdvanceActiveTrips(c, alighted, seconds) ==
  Resolved(c, [t \in DOMAIN c.trips |-> TickTrip(c, t, IF t \in alighted THEN 0 ELSE seconds)])

\* The clock moves first; a deadline long past need not be remembered exactly.
AdvanceClock(c, seconds) ==
  LET Later(trip) ==
        [trip EXCEPT !.left = Max({@ - seconds, -(Grace + MaxDelta)}), !.drive = Floor(@ - seconds)]
  IN  [c EXCEPT !.clock = Min({@ + seconds, LastDue}), !.trips = [t \in DOMAIN @ |-> Later(@[t])]]

\* The vehicles took the city from `before` to `after`.
AfterVehicles(before, after, seconds) ==
  AdvanceActiveTrips(after, JustDisembarked(before, after), seconds)

AdvanceTickSubstep(c, seconds) ==
  LET before == AdvanceClock(c, seconds)
  IN  AfterVehicles(before, TickVehicles(before, seconds), seconds)

-----------------------------------------------------------------------------
(* The tick: demands that are due, then substeps from boundary to boundary.*)

ChosenTrip(c, demand, plan) ==
  LET byCar == demand.drive > 0 /\ demand.drive < plan.seconds
  IN  [at |-> demand.from, to |-> demand.to, left |-> Slack - (c.clock - demand.due),
       status |-> IF byCar THEN "Driving" ELSE StatusAfterLeg(plan.legs, 1),
       plan |-> IF byCar THEN <<>> ELSE plan.legs, leg |-> 1,
       patience |-> Patience, wait |-> 0, drive |-> IF byCar THEN demand.drive ELSE 0]

BuildTrip(c, demand) == ChosenTrip(c, demand, PlanFrom(c, demand.from, demand.to))

\* Fault: one demand is taken off the queue, however many were spawned.
DrainOne(c) ==
  LET due == {i \in (c.spawned + 1)..Len(Demands) : Demands[i].due <= c.clock}
  IN  [c EXCEPT !.spawned = @ + Min({1, Cardinality(due)}),
                !.trips = [t \in DOMAIN @ \cup due |->
                             IF t \in due THEN BuildTrip(c, Demands[t]) ELSE @[t]]]

DrainAndSpawn(c) ==
  LET due == {i \in (c.spawned + 1)..Len(Demands) : Demands[i].due <= c.clock}
  IN  [c EXCEPT !.spawned = @ + Cardinality(due),
                !.trips = [t \in DOMAIN @ \cup due |->
                             IF t \in due THEN BuildTrip(c, Demands[t]) ELSE @[t]]]

\* The next leg of `plan` from leg `first` on that is not a walk to where the trip stands.
PlanBoundaries(trip, plan, first) ==
  LET ahead == {i \in first..Len(plan) : ~(IsWalk(plan[i]) /\ plan[i].to = trip.at)}
      leg == plan[Min(ahead)]
  IN  IF ahead = {} THEN {}
      ELSE IF ~IsWalk(leg) THEN {trip.patience, trip.left + Grace}
      ELSE IF leg.to[1] # trip.at[1] THEN {Distance(leg.to[1], trip.at[1])}
      ELSE {Distance(leg.to[2], trip.at[2])}

TripBoundaries(c, t) ==
  LET trip == c.trips[t]
  IN  IF trip.status = "Driving" THEN {trip.drive}
      ELSE IF trip.status = "Riding" /\ t \in Riders(c) THEN {}
      ELSE IF trip.plan = <<>> \/ trip.status = "Riding"
        THEN PlanBoundaries(trip, PlanFrom(c, trip.at, trip.to).legs, 1)
      ELSE PlanBoundaries(trip, trip.plan, trip.leg)

DemandBoundaries(c) == {Demands[i].due - c.clock : i \in (c.spawned + 1)..Len(Demands)}
ActiveTripBoundaries(c) == UNION {TripBoundaries(c, t) : t \in DOMAIN c.trips}
StopBoundaries(c) == UNION {SecondsUntilStop(c, v) : v \in DOMAIN c.vehicles}

\* Fault: the tick is not split when a vehicle reaches a stop.
TripBoundariesOnly(c) == {s \in DemandBoundaries(c) \cup ActiveTripBoundaries(c) : s > 0}

Boundaries(c) ==
  {s \in DemandBoundaries(c) \cup ActiveTripBoundaries(c) \cup StopBoundaries(c) : s > 0}

\* A substep takes at least a second, so as many as there are seconds are enough.
TickTrips(c, seconds) ==
  LET Substep(run) ==
        LET spawned == DrainAndSpawn(run.city)
            substep == Min(Boundaries(spawned) \cup {run.left})
        IN  IF run.left = 0 THEN run
            ELSE [city |-> AdvanceTickSubstep(spawned, substep), left |-> run.left - substep]
      run[n \in 0..seconds] ==
        IF n = 0 THEN [city |-> c, left |-> seconds] ELSE Substep(run[n - 1])
  IN  DrainAndSpawn(run[seconds].city)

Tick(seconds) ==
  /\ city' = TickTrips(city, seconds)
  /\ UNCHANGED <<intents, steady>>

-----------------------------------------------------------------------------
(* The player's intents between two ticks.  Each is one dispatch; what it  *)
(* costs and the revision it expects are not modelled here.                *)

\* Fault: only the leg a trip is on counts.
ReferencesNow(trip, l) == HasLeg(trip) /\ CurrentLeg(trip).line = l

References(trip, l) == \E i \in trip.leg..Len(trip.plan) : trip.plan[i].line = l

\* Fault: a trip that starts over keeps its seat.
InvalidateKeepingSeats(c, l, parkedAt) ==
  [c EXCEPT !.trips = [t \in DOMAIN @ |->
     IF References(@[t], l)
     THEN [@[t] EXCEPT !.status = "Idle", !.plan = <<>>, !.leg = 1, !.wait = 0,
                       !.at = IF t \in DOMAIN parkedAt THEN parkedAt[t] ELSE @]
     ELSE @[t]]]

\* Trips with line l ahead of them start over, out of whatever vehicle they ride;
\* those of a parked vehicle stand where it parked.
InvalidateTripsForLine(c, l, parkedAt) ==
  LET hit == {t \in DOMAIN c.trips : References(c.trips[t], l)}
      Reset(t) ==
        [c.trips[t] EXCEPT !.status = "Idle", !.plan = <<>>, !.leg = 1, !.wait = 0,
                           !.at = IF t \in DOMAIN parkedAt THEN parkedAt[t] ELSE @]
      LetOut(v) == [c.vehicles[v] EXCEPT !.riders = @ \ hit]
  IN  [c EXCEPT !.trips = [t \in DOMAIN @ |-> IF t \in hit THEN Reset(t) ELSE @[t]],
                !.vehicles = [v \in DOMAIN @ |-> LetOut(v)]]

\* Every vehicle of l stops at the departure `visit[v]` of its itinerary; the
\* geometry that picks the nearest one is left open.
Park(c, l, visit) ==
  LET fleet == Fleet(c, l)
      stopped == [v \in DOMAIN c.vehicles |->
                    IF v \in fleet THEN [line |-> l, index |-> visit[v], step |-> 1,
                                         progress |-> 0, riders |-> {}]
                                   ELSE c.vehicles[v]]
      parkedAt == [t \in UNION {c.vehicles[v].riders : v \in fleet} |->
                     LET v == CHOOSE v \in fleet : t \in c.vehicles[v].riders
                     IN  Access[LegsOf(c, l)[visit[v]].from]]
  IN  InvalidateTripsForLine([c EXCEPT !.vehicles = stopped], l, parkedAt)

ParkChoices(c, l) == [Fleet(c, l) -> ServiceVisits(LegsOf(c, l))]

Intent == intents < MaxIntents /\ intents' = intents + 1 /\ UNCHANGED steady
\* An intent that takes a line away from the trips that count on it.
Disruption == intents < MaxIntents /\ intents' = intents + 1 /\ steady' = FALSE

SetRouteActive(l) ==
  /\ Intent
  /\ city' = [city EXCEPT !.lines[l].active = ~@]

\* A road or track the line needs disappears, or comes back as it was.
BreakService(l) ==
  /\ Disruption
  /\ ~city.lines[l].broken
  /\ \E visit \in ParkChoices(city, l) :
       city' = Park([city EXCEPT !.lines[l].broken = TRUE], l, visit)

RestoreService(l) ==
  /\ Disruption
  /\ city.lines[l].broken
  /\ city' = [city EXCEPT !.lines[l].broken = FALSE]

\* An edit may only keep a line broken that already was.
UpdateRoute(l) ==
  /\ Disruption
  /\ \E pattern \in Patterns, broken \in {FALSE, city.lines[l].broken} :
       /\ [city.lines[l] EXCEPT !.pattern = pattern, !.broken = broken] # city.lines[l]
       /\ LET edited == [city EXCEPT !.lines[l].pattern = pattern, !.lines[l].broken = broken]
          IN  \E visit \in ParkChoices(edited, l) : city' = Park(edited, l, visit)

NextLine(c) == Max(DOMAIN c.lines \cup {0}) + 1
NextVehicle(c) == Max(DOMAIN c.vehicles \cup {0}) + 1

CreateRoute(pattern) ==
  /\ Intent
  /\ NextLine(city) <= MaxLines
  /\ city' = [city EXCEPT !.lines = [l \in DOMAIN @ \cup {NextLine(city)} |->
       IF l \in DOMAIN @ THEN @[l] ELSE [pattern |-> pattern, active |-> TRUE, broken |-> FALSE]]]

DeleteRoute(l) ==
  /\ Disruption
  /\ LET rest == [city EXCEPT !.lines = Restrict(@, DOMAIN @ \ {l}),
                              !.vehicles = Restrict(@, DOMAIN @ \ Fleet(city, l))]
     IN  city' = InvalidateTripsForLine(rest, l, <<>>)

-----------------------------------------------------------------------------
(* The fleet.  Offsets are seconds along the itinerary, rounded down.      *)

LegSeconds(legs) == [i \in 1..Len(legs) |-> Sum(legs[i].steps)]
RoundTripSeconds(legs) == Sum(LegSeconds(legs))
RequiredFleet(legs) == Max({1, (RoundTripSeconds(legs) + TargetHeadway - 1) \div TargetHeadway})

\* An empty leg is a place to stand only for the offset that falls exactly on it.
VehicleAt(l, legs, offset) ==
  LET end == SumsOf(LegSeconds(legs))
      leg == Min({i \in DOMAIN legs :
                    offset < end[i] \/ (legs[i].steps = <<>> /\ offset = end[i - 1])})
      rest == offset - end[leg - 1]
      sums == SumsOf(legs[leg].steps)
      step == IF legs[leg].steps = <<>> THEN 1
              ELSE Min({k \in DOMAIN legs[leg].steps : rest < sums[k]})
  IN  [line |-> l, index |-> leg, step |-> step, progress |-> rest - sums[step - 1], riders |-> {}]

CycleOffset(v, legs) ==
  SumsOf(LegSeconds(legs))[v.index - 1] + SumsOf(legs[v.index].steps)[v.step - 1] + v.progress

LargestGapMidpoint(offsets, cycle) ==
  LET places == {o % cycle : o \in offsets}
      After(o) == Min({p \in places \cup {Min(places) + cycle} : p > o})
      widest == Max({After(o) - o : o \in places})
      start == Min({o \in places : After(o) - o = widest})
  IN  (start + widest \div 2) % cycle

\* The city with vehicle v where there was none.
WithVehicles(c, ids, New(_)) ==
  [c EXCEPT !.vehicles = [v \in DOMAIN @ \cup ids |-> IF v \in DOMAIN @ THEN @[v] ELSE New(v)]]

Deployed(c, l) ==
  LET legs == LegsOf(c, l)
      required == RequiredFleet(legs)
      Spread(v) == VehicleAt(l, legs, (RoundTripSeconds(legs) * (v - NextVehicle(c))) \div required)
  IN  WithVehicles(c, NextVehicle(c)..(NextVehicle(c) + required - 1), Spread)

DeployInitialFleet(l) ==
  /\ Intent
  /\ Fleet(city, l) = {} /\ IsRouteOperational(city, l)
  /\ NextVehicle(city) + RequiredFleet(LegsOf(city, l)) - 1 <= MaxVehicles
  /\ city' = Deployed(city, l)

AddServiceVehicle(l) ==
  LET legs == LegsOf(city, l)
      offsets == {CycleOffset(city.vehicles[v], legs) : v \in Fleet(city, l)}
      Between(v) == VehicleAt(l, legs, LargestGapMidpoint(offsets, RoundTripSeconds(legs)))
  IN  /\ Intent
      /\ Fleet(city, l) # {} /\ IsRouteOperational(city, l)
      /\ NextVehicle(city) <= MaxVehicles
      /\ city' = WithVehicles(city, {NextVehicle(city)}, Between)

\* The newest empty vehicle leaves; the last one never does.
RetireServiceVehicle(l) ==
  LET empty == {v \in Fleet(city, l) : city.vehicles[v].riders = {}}
  IN  /\ Intent
      /\ Cardinality(Fleet(city, l)) >= 2 /\ IsRouteOperational(city, l) /\ empty # {}
      /\ city' = [city EXCEPT !.vehicles = Restrict(@, DOMAIN @ \ {Max(empty)})]

-----------------------------------------------------------------------------
(* A city with its first lines deployed, before the first demand.          *)
Init ==
  /\ intents = 0 /\ steady = TRUE
  /\ LET empty == [clock |-> 0, spawned |-> 0, trips |-> <<>>, vehicles |-> <<>>,
                   lines |-> [l \in 1..Len(InitialLines) |->
                                [pattern |-> InitialLines[l], active |-> TRUE, broken |-> FALSE]],
                   resolutions |-> <<>>,
                   tally |-> [completed |-> 0, late |-> 0, unserved |-> 0, waited |-> 0, fares |-> 0]]
         first[n \in 0..Len(InitialLines)] == IF n = 0 THEN empty ELSE Deployed(first[n - 1], n)
     IN  city = first[Len(InitialLines)]

\* Pausing and resuming, and the fleet: no trip loses its plan.
Operate(l) ==
  SetRouteActive(l) \/ DeployInitialFleet(l) \/ AddServiceVehicle(l) \/ RetireServiceVehicle(l)

\* Intents that take a line away from the trips that count on it.
Restructure(l) == BreakService(l) \/ RestoreService(l) \/ UpdateRoute(l) \/ DeleteRoute(l)

Ticking == \E seconds \in Deltas : Tick(seconds)

Next ==
  \/ Ticking
  \/ \E l \in DOMAIN city.lines : Operate(l) \/ Restructure(l)
  \/ \E pattern \in Patterns : CreateRoute(pattern)

Spec == Init /\ [][Next]_vars

\* The host keeps calling the engine while the game is not paused: WF_vars(Ticking),
\* with "a tick would change something" said directly, and a tick known by the number
\* of intents, which every other step raises.
AtRest == \A seconds \in Deltas : TickTrips(city, seconds) = city
FairSpec == Spec /\ ([]<>AtRest \/ []<><<intents' = intents>>_vars)

-----------------------------------------------------------------------------
(* Properties.                                                             *)

\* A save made between two ticks loads again.  Vehicles stand on a step of their line's
\* itinerary and carry no more than they seat (validate_vehicles); a trip rides exactly
\* when one vehicle carries it, of the line its plan has it on, so no ghost holds a seat;
\* plan, leg and status of every trip are what validate_route_plan accepts.
CursorLoads(v) ==
  LET legs == LegsOf(city, v.line)
  IN  /\ v.index \in DOMAIN legs
      /\ LET steps == legs[v.index].steps
         IN  IF steps = <<>> THEN v.step = 1 /\ v.progress = 0
             ELSE v.step \in DOMAIN steps /\ v.progress \in 0..(steps[v.step] - 1)
RidersLoad(v) ==
  /\ Cardinality(v.riders) <= Seats
  /\ \A t \in v.riders : /\ t \in DOMAIN city.trips /\ HasLeg(city.trips[t])
                         /\ CurrentLeg(city.trips[t]).line = v.line
TripLoads(trip) == LET plan == trip.plan IN
  \/ trip.status = "Driving" /\ trip.drive >= 0
  \/ plan = <<>> /\ trip.leg = 1 /\ trip.status = "Idle"
  \/ /\ HasLeg(trip) /\ plan[Len(plan)].to = trip.to
     /\ \A i \in 2..Len(plan) : plan[i - 1].to = plan[i].from
     /\ trip.status \in (IF IsWalk(CurrentLeg(trip)) THEN {"Walking"} ELSE {"Waiting", "Riding"})
SavesLoad ==
  /\ \A v \in DOMAIN city.vehicles :
       LET w == city.vehicles[v] IN w.line \in DOMAIN city.lines /\ CursorLoads(w) /\ RidersLoad(w)
  /\ \A v, w \in DOMAIN city.vehicles :
       v # w => city.vehicles[v].riders \cap city.vehicles[w].riders = {}
  /\ {t \in DOMAIN city.trips : city.trips[t].status = "Riding"} = Riders(city)
  /\ \A t \in DOMAIN city.trips : TripLoads(city.trips[t])

\* Every trip that was spawned is either on its way or was resolved once, and the
\* counters the player sees agree with the resolutions the population receives.
TripsAccounted ==
  LET over == {r.trip : r \in Range(city.resolutions)}
  IN  /\ Len(city.resolutions) = Cardinality(over)
      /\ over \cap DOMAIN city.trips = {} /\ over \cup DOMAIN city.trips = 1..city.spawned
      /\ city.tally.completed = Cardinality({r \in Range(city.resolutions) : r.completed})
      /\ city.tally.completed + city.tally.unserved = Cardinality(over)

\* Whatever ride a trip still counts on exists: its line is there, departs from the
\* boarding point on that leg and arrives at the alighting point on the other
\* (route edits, deletions and reused route ids leave no stale plan behind).
PlansMatchNetwork ==
  \A t \in DOMAIN city.trips : LET trip == city.trips[t] IN
    \A i \in trip.leg..Len(trip.plan) : LET ride == trip.plan[i] IN
      IsWalk(ride) \/
        /\ ride.line \in DOMAIN city.lines
        /\ LET legs == LegsOf(city, ride.line) IN
           /\ {ride.board, ride.alight} \subseteq ServiceVisits(legs)
           /\ Where[legs[ride.board].from] = ride.from /\ Where[legs[ride.alight].to] = ride.to

\* Coarse and fine ticks produce the same state (tick_trips): a tick of d seconds
\* does what d ticks of one second do, but for the order of resolutions inside it.
\* Not for buses that run in bunches, as they do after a line was parked or where a
\* loop has several: one that arrives within the tick boards ahead of one that stands
\* at the stop, because tick_vehicles drives each through the whole substep in turn.
Stepped(c, seconds) ==
  LET after[n \in 0..seconds] == IF n = 0 THEN c ELSE TickTrips(after[n - 1], 1)
  IN  after[seconds]
Unordered(c) == [c EXCEPT !.resolutions = Range(@)]
GranularityIndependent ==
  steady => \A d \in Deltas : Unordered(TickTrips(city, d)) = Unordered(Stepped(city, d))

WaitsFor(c, t, stop, line, board) ==
  /\ t \in Waiters(c, stop)
  /\ CurrentLeg(c.trips[t]).line = line /\ CurrentLeg(c.trips[t]).board = board
StillWaits(t) ==
  /\ t \in DOMAIN city'.trips /\ city'.trips[t].status = "Waiting"
  /\ city'.trips[t].plan = city.trips[t].plan /\ city'.trips[t].leg = city.trips[t].leg
Boarded(t) == t \in Riders(city') \ Riders(city)

\* Of two trips that wait for the same departure, the one with less patience left is
\* never passed over for the other, whichever vehicle or platform slot comes free.
NoQueueJumping ==
  [][\A stop \in DOMAIN Where, t, u \in DOMAIN city.trips :
       /\ t \in Waiters(city, stop) /\ Boarded(u)
       /\ city.trips[t].patience < city.trips[u].patience
       /\ WaitsFor(city, u, stop, CurrentLeg(city.trips[t]).line, CurrentLeg(city.trips[t]).board)
       => ~StillWaits(t)]_vars

\* A vehicle leaves a stop without somebody on its platform only when it is full.
NobodyLeftBehind ==
  [][\A v \in DOMAIN city.vehicles \cap DOMAIN city'.vehicles, stop \in DOMAIN Where :
       LET w == city.vehicles[v] IN
       /\ w.step = 1 /\ w.progress = 0
       /\ city'.vehicles[v].index = w.index /\ city'.vehicles[v] # w
       /\ \E t \in OnPlatform(city, stop) :
             WaitsFor(city, t, stop, w.line, w.index) /\ StillWaits(t)
       => Cardinality(city'.vehicles[v].riders) = Seats]_vars

\* Every trip is resolved in the end, if every line ends up running for good or gone.
\* (Riders of a line that stays paused wait aboard without limit.)
EveryoneGetsThere ==
  <>[](\A l \in DOMAIN city.lines : IsRouteOperational(city, l))
    => <>[](city.spawned = Len(Demands) /\ DOMAIN city.trips = {})
=============================================================================
