------------------------------ MODULE BusLines ------------------------------
(***************************************************************************)
(* Bus lines in a city whose stops and roads change under them: how a line  *)
(* is created, edited under the revision its editor opened, moved between   *)
(* platforms and deleted (route_editor.rs, platforms.rs, transit.rs), how   *)
(* every line is worked out again after a change of the network             *)
(* (route_lifecycle.rs, network.rs), what becomes of a stop that a line     *)
(* still names (transit_nodes.rs), where the buses then stand               *)
(* (stop_access.rs), and what a save must satisfy to be opened again        *)
(* (persistence/entities.rs).                                               *)
(*                                                                         *)
(* What the roads offer is an input: a network gives each stop the road it  *)
(* is reached by and each pair of stops the way between them (RoadNetwork   *)
(* models how tiles make one).  Geometry is left out: of several stops at a *)
(* distance any may be the nearest, and a bus that is moved onto another    *)
(* way may find itself at any step of it.                                   *)
(***************************************************************************)
EXTENDS Integers, SequencesExt, FiniteSetsExt

CONSTANTS
  Stops,            \* the places where the player puts a bus terminal
  Networks,         \* what the roads offer, one of them at a time
  OpenNetwork,      \* ... and at the start
  Platforms,        \* the platforms of a stop
  WaypointLists,    \* the stops, in order, that a line may be given
  MaxRevision,      \* the largest revision (u32::MAX)
  MaxRoutes, MaxBuses, MaxEdits      \* bounds of the model

None == [absent |-> TRUE]
NoAccess == [at |-> "nowhere", heading |-> "none"]
NoWay == [via |-> "none", steps |-> 0, departs |-> "none", arrives |-> "none"]
Stay == [NoWay EXCEPT !.via = "here"]
Patterns == {"loop", "shuttle"}
RouteIds == 1..MaxRoutes
BusIds == 1..MaxBuses

\* The same sequence; TLC works each of its elements out once.
Tuple(seq) == <<>> \o seq

\* A stop is reached at some place of the road; a way on it has steps.
ASSUME BusLinesAssumption ==
  /\ OpenNetwork \in Networks
  /\ \A n \in Networks, s \in Stops :
       n.access[s] # NoAccess => n.access[s].at \notin {"nowhere", "driving", "roadside"}
  /\ \A n \in Networks, s, t \in Stops : s # t /\ n.way[<<s, t>>] # NoWay => n.way[<<s, t>>].steps \in Nat \ {0}
  /\ \A n \in Networks, s \in Stops : n.turn[s] # NoWay => n.turn[s].steps \in Nat \ {0}
  /\ Platforms \in Nat \ {0} /\ MaxRevision \in Nat /\ MaxRoutes \in Nat \ {0}
  /\ MaxBuses \in Nat \ {0} /\ MaxEdits \in Nat
  /\ WaypointLists \subseteq Seq(Stops)

VARIABLES
  city,             \* [network, stops, platforms, routes, buses]
  draft,            \* the open editor: the line, its revision, and what it looked like
  edits             \* bound: changes made so far

vars == <<city, draft, edits>>

-----------------------------------------------------------------------------
(* network.rs: the legs of a line on the present network                    *)

Present(c, s) == c.stops[s] = "present"

\* resolve_stop_access: the road by which a stop is reached, if it is there.
StopAccess(c, s) == IF Present(c, s) THEN c.network.access[s] ELSE NoAccess

\* build_service_itinerary
Specs(pattern, ids) ==
  LET n == Len(ids)
      Service(s, t, d) == [from |-> s, to |-> t, direction |-> d, kind |-> "service"]
      Reversal(s, d) == [from |-> s, to |-> s, direction |-> d, kind |-> "reversal"]
  IN  IF pattern = "loop"
      THEN [i \in 1..n |-> Service(ids[i], ids[(i % n) + 1], "loop")]
      ELSE [i \in 1..(n - 1) |-> Service(ids[i], ids[i + 1], "out")] \o <<Reversal(ids[n], "back")>>
           \o [i \in 1..(n - 1) |-> Service(ids[n + 1 - i], ids[n - i], "back")]
           \o <<Reversal(ids[1], "out")>>

\* Two stops that are reached from the same place of the road have no steps between them.
ServicePath(c, spec) ==
  IF NoAccess \in {StopAccess(c, spec.from), StopAccess(c, spec.to)} THEN NoWay
  ELSE IF StopAccess(c, spec.from).at = StopAccess(c, spec.to).at THEN Stay
  ELSE c.network.way[<<spec.from, spec.to>>]

\* The way to leave a terminal by the heading the next leg departs with, after
\* arriving by the previous leg's; a leg without steps counts as the stop's own road.
TerminalReversal(c, specs, i) ==
  LET n == Len(specs)
      stop == specs[i].from
      arriving == ServicePath(c, specs[((i + n - 2) % n) + 1])
      departing == ServicePath(c, specs[(i % n) + 1])
      own == StopAccess(c, stop).heading
      exit == IF arriving.steps = 0 THEN own ELSE arriving.arrives
      entry == IF departing.steps = 0 THEN own ELSE departing.departs
  IN  IF StopAccess(c, stop) = NoAccess THEN NoWay
      ELSE IF exit = entry THEN Stay ELSE c.network.turn[stop]

ResolveLeg(c, specs, i) ==
  LET spec == specs[i]
      path == IF spec.kind = "service" THEN ServicePath(c, spec) ELSE TerminalReversal(c, specs, i)
      status == IF ~Present(c, spec.from) \/ ~Present(c, spec.to) THEN "missing"
                ELSE IF path = NoWay THEN "disconnected" ELSE "connected"
  IN  [key |-> spec, status |-> status,
       path |-> IF status = "connected" THEN path ELSE NoWay, last |-> NoWay]

ResolveRouteLegs(c, pattern, ids) ==
  LET specs == Specs(pattern, ids) IN Tuple([i \in 1..Len(specs) |-> ResolveLeg(c, specs, i)])

\* Fault: a broken leg remembers the way it had before this change only.
MergeCurrentPaths(old, resolved) ==
  LET Remembered(leg) == LET same == {i \in 1..Len(old) : old[i].key = leg.key}
                         IN  IF same = {} THEN NoWay ELSE old[Min(same)].path
  IN  Tuple([i \in 1..Len(resolved) |->
         [resolved[i] EXCEPT !.last = IF resolved[i].status = "connected"
                                      THEN resolved[i].path ELSE Remembered(resolved[i])]])

\* merge_resolved_legs: a connected leg remembers its way, a broken one the last it had.
MergeResolvedLegs(old, resolved) ==
  LET Remembered(leg) == LET same == {i \in 1..Len(old) : old[i].key = leg.key}
                         IN  IF same = {} THEN NoWay ELSE old[Min(same)].last
  IN  Tuple([i \in 1..Len(resolved) |->
         [resolved[i] EXCEPT !.last = IF resolved[i].status = "connected"
                                      THEN resolved[i].path ELSE Remembered(resolved[i])]])

IsBroken(legs) == \E i \in 1..Len(legs) : legs[i].status # "connected"
IsOperational(route) == route.active /\ ~IsBroken(route.legs)

-----------------------------------------------------------------------------
(* platforms.rs and transit_nodes.rs                                        *)

Lines(c) == {r \in RouteIds : c.routes[r] # None}
Through(c, s) == {r \in Lines(c) : s \in Range(c.routes[r].waypoints)}
BareStop == [p \in 1..Platforms |-> {}]

Assignments(c, r) == {a \in Stops \X (1..Platforms) : r \in c.platforms[a[1]][a[2]]}

\* assign_waypoint_to_least_loaded: the first of the platforms with the fewest lines.
AssignLeastLoaded(platforms, r) ==
  LET load == [p \in 1..Platforms |-> Cardinality(platforms[p])]
      best == Min({p \in 1..Platforms : \A q \in 1..Platforms : load[p] <= load[q]})
  IN  [platforms EXCEPT ![best] = @ \cup {r}]

Strip(platforms, r) == [p \in 1..Platforms |-> platforms[p] \ {r}]

\* assign_route_to_platform: the line leaves its platform of the stop for another.
OnPlatform(platforms, r, p) == [Strip(platforms, r) EXCEPT ![p] = @ \cup {r}]

\* Fault: the platforms of the stops that leave the line keep it.
AddedPlatforms(c, r, old, new) ==
  [s \in Stops |-> IF s \in new \ old THEN AssignLeastLoaded(c.platforms[s], r) ELSE c.platforms[s]]

\* apply_route_platform_delta
PlatformDelta(c, r, old, new) ==
  [s \in Stops |-> IF s \in old \ new THEN Strip(c.platforms[s], r)
                   ELSE IF s \in new \ old THEN AssignLeastLoaded(c.platforms[s], r)
                   ELSE c.platforms[s]]

\* garbage_collect_missing_nodes: a missing stop goes with the last line that names it.
GarbageCollect(c) ==
  LET gone == {s \in Stops : c.stops[s] = "missing" /\ Through(c, s) = {}}
  IN  [c EXCEPT !.stops = [s \in Stops |-> IF s \in gone THEN "none" ELSE @[s]],
                !.platforms = [s \in Stops |-> IF s \in gone THEN BareStop ELSE @[s]]]

-----------------------------------------------------------------------------
(* Where a bus stands.  Its cursor is a leg and a step; "driving" is no     *)
(* parked position, "roadside" one that is at no stop.  A bus is stray when *)
(* its step has been left behind by a way without steps (Project) and it    *)
(* has not moved or been moved since: a history variable.                   *)

\* vehicle_world_position, before the change; "nowhere" when it cannot be told.
WorldOf(c, v) ==
  LET leg == c.routes[v.route].legs[v.leg]
      path == IF leg.path # NoWay THEN leg.path ELSE leg.last
  IN  IF v.parked # "driving" THEN v.parked
      ELSE IF v.step < path.steps THEN "roadside"
      ELSE IF path = Stay THEN StopAccess(c, leg.key.from).at
      ELSE "nowhere"

\* nearest_service_visit among the stops in only: a stop the bus stands at is nearest.
NearestVisits(c, route, world, only) ==
  LET legs == route.legs
      live == {i \in 1..Len(legs) : /\ legs[i].key.kind = "service" /\ legs[i].key.from \in only
                                    /\ StopAccess(c, legs[i].key.from) # NoAccess}
      here == {i \in live : StopAccess(c, legs[i].key.from).at = world}
  IN  IF here # {} THEN here ELSE live

ParkAt(c, route, v, i) ==
  [v EXCEPT !.leg = i, !.step = 0, !.parked = StopAccess(c, route.legs[i].key.from).at, !.stray = FALSE]

\* break_service: the bus stops where it is when no stop of the line is left.
BreakService(prev, c, route, v, was) ==
  LET world == WorldOf(prev, was)
      visits == NearestVisits(c, route, world, Stops)
  IN  IF world = "nowhere" THEN {[v EXCEPT !.step = 0]}
      ELSE IF visits = {} THEN {[v EXCEPT !.step = 0, !.parked = world]}
      ELSE {ParkAt(c, route, v, i) : i \in visits}

\* rebase_parked_vehicles: to the nearest stop, and off again if the line resumes.
RebaseParked(prev, c, route, v, resume) ==
  LET world == WorldOf(prev, v)
      visits == IF world = "nowhere" THEN {} ELSE NearestVisits(c, route, world, Stops)
      Parked(i) == ParkAt(c, route, v, i)
  IN  IF visits = {} THEN {v}
      ELSE {IF resume THEN [Parked(i) EXCEPT !.parked = "driving"] ELSE Parked(i) : i \in visits}

\* project_line_vehicles: onto the new way of the leg, unless that has no steps.
Project(old, new, v) ==
  LET was == old.legs[v.leg].path
      now == new.legs[v.leg].path
  IN  IF IsBroken(new.legs) \/ was = NoWay \/ was = now \/ v.step >= was.steps THEN {v}
      ELSE IF now.steps = 0 THEN {[v EXCEPT !.stray = (v.step > 0)]}
      ELSE {[v EXCEPT !.step = k, !.stray = FALSE] : k \in 0..(now.steps - 1)}

\* Fault: on a line that stays broken nobody moves to the stop that is reached again.
TransitionOnChange(prev, c, old, new, v, was) ==
  CASE ~IsBroken(old.legs) /\ IsBroken(new.legs) -> BreakService(prev, c, new, v, was)
    [] IsBroken(old.legs) /\ ~IsBroken(new.legs) -> RebaseParked(prev, c, new, v, new.active)
    [] OTHER -> {v}

\* transition_route_service
Transition(prev, c, old, new, v, was) ==
  LET gained == \E s \in Range(new.waypoints) :
                   StopAccess(prev, s) = NoAccess /\ StopAccess(c, s) # NoAccess
  IN  CASE ~IsBroken(old.legs) /\ IsBroken(new.legs) -> BreakService(prev, c, new, v, was)
        [] IsBroken(old.legs) /\ ~IsBroken(new.legs) -> RebaseParked(prev, c, new, v, new.active)
        [] IsBroken(old.legs) /\ IsBroken(new.legs) /\ gained -> RebaseParked(prev, c, new, v, FALSE)
        [] OTHER -> {v}

\* rebase_parked_bus_access_to_live_stop: a bus parked where a stop was reached before.
FollowAccess(prev, c, new, v) ==
  LET left == {StopAccess(prev, s).at :
                 s \in {s \in Range(new.waypoints) : /\ StopAccess(prev, s) # NoAccess
                                                     /\ StopAccess(c, s).at # StopAccess(prev, s).at}}
      visits == NearestVisits(c, new, v.parked, Stops)
  IN  IF v.parked \notin left \/ visits = {} THEN {v} ELSE {ParkAt(c, new, v, i) : i \in visits}

\* rebase_parked_bus_positions (stop_access.rs): a parked bus moves with the road of the
\* stop it departs from, or of the only stop of its line it can be standing at.
MoveWithItsStop(prev, c, v) ==
  LET route == c.routes[v.route]
      StandsAt(s) == StopAccess(c, s) # NoAccess /\ v.parked \in {StopAccess(prev, s).at, StopAccess(c, s).at}
      stop == route.legs[v.leg].key.from
      all == {s \in Range(route.waypoints) : StandsAt(s)}
  IN  IF v.parked = "driving" THEN v
      ELSE IF route.legs[v.leg].key.kind = "service" /\ StandsAt(stop)
           THEN [v EXCEPT !.parked = StopAccess(c, stop).at]
      ELSE IF Cardinality(all) = 1
           THEN [v EXCEPT !.parked = StopAccess(c, CHOOSE s \in all : TRUE).at]
      ELSE v

-----------------------------------------------------------------------------
(* route_lifecycle.rs: every line is worked out again                       *)

\* route_structure_changed compares these.
Structure(c, r) == <<c.routes[r].waypoints, c.routes[r].pattern, c.routes[r].legs, Assignments(c, r)>>

NextRevision(revision) == Min({revision + 1, MaxRevision})

\* recompute_all_routes without the buses
Recomputed(prev, c) ==
  LET Resolved(r) ==
        LET route == c.routes[r]
            legs == ResolveRouteLegs(c, route.pattern, route.waypoints)
        IN  [route EXCEPT !.legs = MergeResolvedLegs(prev.routes[r].legs, legs)]
      resolved == [c EXCEPT !.routes =
                     Tuple([r \in RouteIds |-> IF r \in Lines(c) THEN Resolved(r) ELSE None])]
      Counted(r) == IF r \in Lines(c) /\ Structure(prev, r) # Structure(resolved, r)
                    THEN [resolved.routes[r] EXCEPT !.revision = NextRevision(prev.routes[r].revision)]
                    ELSE resolved.routes[r]
  IN  [resolved EXCEPT !.routes = Tuple([r \in RouteIds |-> Counted(r)])]

BusChoices(prev, c, b) ==
  IF c.buses[b] = None THEN {None}
  ELSE LET v == c.buses[b]
           old == prev.routes[v.route]
           new == c.routes[v.route]
           moved == UNION {Transition(prev, c, old, new, w, prev.buses[b]) : w \in Project(old, new, v)}
       IN  UNION {FollowAccess(prev, c, new, w) : w \in moved}

\* commit_network_mutation: the outcomes of changing the network of prev to that of c.
NetworkMutation(prev, c) ==
  LET next == Recomputed(prev, c)
      choices == Tuple([b \in BusIds |-> BusChoices(prev, next, b)])
  IN  {[next EXCEPT !.buses = f] :
         f \in {f \in [BusIds -> UNION Range(choices)] : \A b \in BusIds : f[b] \in choices[b]}}


-----------------------------------------------------------------------------
(* What the player does: roads and stops                                    *)

MayEdit == edits < MaxEdits
Edited == edits' = edits + 1

\* A stroke, a tap or an undo on the roads that goes through.
ChangeRoads ==
  /\ MayEdit /\ Edited
  /\ \E n \in Networks \ {city.network} :
       LET moved == [city EXCEPT !.network = n]
           candidate == [moved EXCEPT !.buses = [b \in BusIds |->
                           IF @[b] = None THEN None ELSE MoveWithItsStop(city, moved, @[b])]]
       IN  city' \in NetworkMutation(city, candidate)
  /\ UNCHANGED draft

\* add_bus_stop, and place_building for a terminal: where a missing stop was, it is there
\* again with its lines (restore_or_create_node).
AddBusStop(s) ==
  /\ MayEdit /\ Edited
  /\ ~Present(city, s) /\ city.network.access[s] # NoAccess
  /\ city' \in NetworkMutation(city, [city EXCEPT !.stops[s] = "present"])
  /\ UNCHANGED draft

\* remove_or_tombstone_node: a stop that a line names stays, as missing.
RemovedStop(c, s) ==
  [c EXCEPT !.stops[s] = IF Through(c, s) = {} THEN "none" ELSE "missing"]

RemoveStop(s) ==
  /\ MayEdit /\ Edited
  /\ Present(city, s)
  /\ city' \in NetworkMutation(city, RemovedStop(city, s))
  /\ UNCHANGED draft

-----------------------------------------------------------------------------
(* What the player does: lines and buses                                    *)

\* validate_waypoints: an edit may keep a missing stop that the line already has.
RetainedMissing(c, old, ids) == {s \in Range(ids) \cap old : c.stops[s] = "missing"}

ValidWaypoints(c, old, ids) ==
  /\ Len(ids) >= 2 /\ IsInjective(ids)
  /\ \A s \in Range(ids) : Present(c, s) \/ s \in RetainedMissing(c, old, ids)

CreateRoute(pattern, ids) ==
  LET legs == ResolveRouteLegs(city, pattern, ids)
      r == 1 + Max({0} \cup Lines(city))
  IN  /\ MayEdit /\ Edited
      /\ r <= MaxRoutes
      /\ ValidWaypoints(city, {}, ids)
      /\ ~IsBroken(legs)
      /\ city' = [city EXCEPT
           !.routes[r] = [waypoints |-> ids, pattern |-> pattern, revision |-> 0, active |-> TRUE,
                          legs |-> MergeResolvedLegs(<<>>, legs)],
           !.platforms = PlatformDelta(city, r, {}, Range(ids))]
      /\ draft' = None       \* a new line is drawn in the editor that was open

\* openRouteEdit and reloadRouteDraft: the editor shows the line as it is now.
OpenRouteEdit(r) ==
  /\ r \in Lines(city)
  /\ draft' = [line |-> r, revision |-> city.routes[r].revision, seen |-> Structure(city, r)]
  /\ UNCHANGED <<city, edits>>

\* validate_edit_legs: a leg may be broken if it was, or by a missing stop that stays.
ValidEditLegs(old, new, retained) ==
  \A leg \in Range(new) :
     \/ leg.status = "connected"
     \/ \E o \in Range(old) : o.status # "connected" /\ o.key = leg.key
     \/ leg.status = "missing" /\ {leg.key.from, leg.key.to} \cap retained # {}

\* rebase_edited_route_vehicles_and_riders: to the nearest stop that stays on the line, or
\* to the nearest of the new ones.
RebaseEdited(prev, c, r, kept, v) ==
  LET world == WorldOf(prev, v)
      route == c.routes[r]
      near == IF world = "nowhere" THEN {} ELSE NearestVisits(c, route, world, kept)
      visits == IF near # {} \/ world = "nowhere" THEN near ELSE NearestVisits(c, route, world, Stops)
  IN  IF visits # {} THEN {ParkAt(c, route, v, i) : i \in visits}
      ELSE {[v EXCEPT !.leg = 1, !.step = 0, !.parked = IF world = "nowhere" THEN "driving" ELSE world]}

RebasedBuses(prev, c, r, kept) ==
  LET Places(b) == IF c.buses[b] = None THEN {None}
                    ELSE IF c.buses[b].route = r THEN RebaseEdited(prev, c, r, kept, c.buses[b])
                    ELSE {c.buses[b]}
  IN  {f \in [BusIds -> UNION {Places(b) : b \in BusIds}] : \A b \in BusIds : f[b] \in Places(b)}

\* Fault: an edit saturates the revision, as the network's changes do.
MayStructurallyEditAgain(revision) == TRUE
\* checked_add: an edit that changes the line is refused at the largest revision.
MayStructurallyEdit(revision) == revision < MaxRevision

UpdateRoute(pattern, ids) ==
  /\ MayEdit
  /\ draft # None /\ draft.line \in Lines(city)
  /\ LET r == draft.line
         route == city.routes[r]
         old == Range(route.waypoints)
         legs == MergeResolvedLegs(route.legs, ResolveRouteLegs(city, pattern, ids))
         candidate == [city EXCEPT !.routes[r].waypoints = ids, !.routes[r].pattern = pattern,
                                   !.routes[r].legs = legs,
                                   !.platforms = PlatformDelta(city, r, old, Range(ids))]
         changed == Structure(candidate, r) # Structure(city, r)
     IN  /\ route.revision = draft.revision
         /\ ValidWaypoints(city, old, ids)
         /\ ValidEditLegs(route.legs, legs, RetainedMissing(city, old, ids))
         /\ changed => MayStructurallyEdit(route.revision)
         /\ \E f \in IF changed THEN RebasedBuses(city, candidate, r, Range(ids) \cap old) ELSE {city.buses} :
              city' = GarbageCollect([candidate EXCEPT !.buses = f,
                        !.routes[r].revision = IF changed THEN NextRevision(@) ELSE @])
  /\ draft' = None
  /\ Edited

DeleteRoute(r) ==
  /\ MayEdit /\ Edited
  /\ r \in Lines(city)
  /\ city' = GarbageCollect([city EXCEPT
       !.routes[r] = None,
       !.platforms = [s \in Stops |-> Strip(@[s], r)],
       !.buses = [b \in BusIds |-> IF @[b] # None /\ @[b].route = r THEN None ELSE @[b]]])
  /\ UNCHANGED draft

SetRouteActive(r) ==
  /\ MayEdit /\ Edited
  /\ r \in Lines(city)
  /\ city' = [city EXCEPT !.routes[r].active = ~@]
  /\ UNCHANGED draft

AssignRouteToPlatform(s, r, p) ==
  /\ MayEdit /\ Edited
  /\ city.stops[s] = "present" /\ r \in Lines(city)
  /\ r \notin city.platforms[s][p] /\ \E q \in 1..Platforms : r \in city.platforms[s][q]
  /\ city.routes[r].revision < MaxRevision
  /\ city' = [city EXCEPT !.platforms[s] = OnPlatform(@, r, p),
                          !.routes[r].revision = @ + 1]
  /\ UNCHANGED draft

AssignVehicle(r, b) ==
  /\ MayEdit /\ Edited
  /\ r \in Lines(city) /\ IsOperational(city.routes[r])
  /\ city.buses[b] = None
  /\ city' = [city EXCEPT !.buses[b] = [route |-> r, leg |-> 1, step |-> 0, parked |-> "driving", stray |-> FALSE]]
  /\ UNCHANGED draft

-----------------------------------------------------------------------------
(* The tick, as far as it moves a cursor                                    *)

\* advance_vehicle_by_seconds to the end of a step; a cursor past its way starts again.
AdvanceCursor(legs, v) ==
  LET steps == legs[v.leg].path.steps
      moves == [v EXCEPT !.stray = FALSE]
  IN  IF steps > 0 /\ v.step >= steps THEN [moves EXCEPT !.step = 0]
      ELSE IF v.step + 1 < steps THEN [moves EXCEPT !.step = @ + 1]
      ELSE [moves EXCEPT !.step = 0, !.leg = (@ % Len(legs)) + 1]

\* tick_vehicles: buses of lines in service leave, and some come to the next step.
TickVehicles ==
  LET running == {b \in BusIds : city.buses[b] # None /\ IsOperational(city.routes[city.buses[b].route])}
      Driven(b) == [AdvanceCursor(city.routes[city.buses[b].route].legs, city.buses[b]) EXCEPT !.parked = "driving"]
  IN  /\ \E moved \in (SUBSET running) \ {{}} :
           city' = [city EXCEPT !.buses = [b \in BusIds |->
                      IF b \in moved THEN Driven(b)
                      ELSE IF b \in running THEN [@[b] EXCEPT !.parked = "driving"] ELSE @[b]]]
      /\ UNCHANGED <<draft, edits>>

-----------------------------------------------------------------------------

\* A city with all its stops and one line there and back, with one bus.
Init ==
  \E ids \in WaypointLists :
    LET bare == [network |-> OpenNetwork, stops |-> [s \in Stops |-> "present"],
                 platforms |-> [s \in Stops |-> BareStop],
                 routes |-> [r \in RouteIds |-> None], buses |-> [b \in BusIds |-> None]]
        legs == ResolveRouteLegs(bare, "shuttle", ids)
    IN  /\ Range(ids) = Stops /\ ValidWaypoints(bare, {}, ids) /\ ~IsBroken(legs)
        /\ city = [bare EXCEPT
             !.routes[1] = [waypoints |-> ids, pattern |-> "shuttle", revision |-> 0, active |-> TRUE,
                            legs |-> MergeResolvedLegs(<<>>, legs)],
             !.platforms = PlatformDelta(bare, 1, {}, Stops),
             !.buses[1] = [route |-> 1, leg |-> 1, step |-> 0, parked |-> "driving", stray |-> FALSE]]
        /\ draft = None /\ edits = 0

Next ==
  \/ ChangeRoads
  \/ \E s \in Stops : AddBusStop(s) \/ RemoveStop(s)
  \/ \E pattern \in Patterns, ids \in WaypointLists : CreateRoute(pattern, ids) \/ UpdateRoute(pattern, ids)
  \/ \E r \in RouteIds : OpenRouteEdit(r) \/ DeleteRoute(r) \/ SetRouteActive(r)
  \/ \E s \in Stops, r \in RouteIds, p \in 1..Platforms : AssignRouteToPlatform(s, r, p)
  \/ \E r \in RouteIds, b \in BusIds : AssignVehicle(r, b)
  \/ TickVehicles

Spec == Init /\ [][Next]_vars

-----------------------------------------------------------------------------
(* What the loader demands of a save (persistence/entities.rs)              *)

\* validate_route_waypoint_references
WaypointsLoad(c, r) ==
  LET ids == c.routes[r].waypoints
  IN  Len(ids) >= 2 /\ IsInjective(ids) /\ \A s \in Range(ids) : c.stops[s] # "none"

\* validate_node_lifetime: a missing stop is one that some line names.
NodeLifetimeLoads(c, s) == c.stops[s] = "missing" => Through(c, s) # {}

\* validate_platform_assignments
PlatformsLoad(c, s) ==
  /\ \A p, q \in 1..Platforms : p # q => c.platforms[s][p] \cap c.platforms[s][q] = {}
  /\ UNION Range(c.platforms[s]) = Through(c, s)

\* validate_vehicles: the bus has its line and is on one of its legs, and its cursor is
\* at a step of the leg's way.
LegLoads(c, v) == v.route \in Lines(c) /\ v.leg \in 1..Len(c.routes[v.route].legs)
StepLoads(c, v) == LET steps == c.routes[v.route].legs[v.leg].path.steps
                   IN  IF steps = 0 THEN v.step = 0 ELSE v.step < steps
CursorLoads(c, b) == LegLoads(c, c.buses[b]) /\ StepLoads(c, c.buses[b])

-----------------------------------------------------------------------------
(* Properties                                                               *)

\* Whatever happens to stops, lines and roads, the lines of a save can be opened again:
\* a missing stop stays while a line names it and no longer, a stop's platforms hold each
\* line through it once and no other, and every bus is on a leg of its line, with its
\* cursor at a step of the way.  (A stray bus is excepted: it was half-way along a leg when
\* the network changed so that this leg has no steps any more, and its cursor stays as it
\* was until the bus moves: see SavedCursorsFit.)
SavedLinesLoad ==
  /\ \A r \in Lines(city) : WaypointsLoad(city, r)
  /\ \A s \in Stops : NodeLifetimeLoads(city, s) /\ PlatformsLoad(city, s)
  /\ \A b \in BusIds : city.buses[b] # None =>
       LegLoads(city, city.buses[b]) /\ (StepLoads(city, city.buses[b]) \/ city.buses[b].stray)

\* Every cursor of a save is at a step of its way, as the loader demands.
SavedCursorsFit == \A b \in BusIds : city.buses[b] # None => CursorLoads(city, b)

\* What a line says of its legs is what the present stops and roads offer, so opening a
\* save, which works every line out again, changes nothing; and a leg that is broken
\* takes up service when the network offers a way again.
LinesFollowTheNetwork ==
  \A r \in Lines(city) :
    LET route == city.routes[r]
    IN  route.legs = MergeResolvedLegs(route.legs, ResolveRouteLegs(city, route.pattern, route.waypoints))

\* On a line that is broken no bus drives, but for a stray one, whose place could not be
\* told; and a bus that is parked stands where the stop its next leg departs from is
\* reached now, while the line has a stop that is reached at all: whichever stops went,
\* came back or were reached from another road since.  (On a broken line it may be another
\* stop of the line, if both were reached from one place and then only one of them is.)
ParkedBusesStandAtTheirStop ==
  \A b \in BusIds : city.buses[b] # None =>
    LET v == city.buses[b]
        route == city.routes[v.route]
        leg == route.legs[v.leg]
        reached == {s \in Range(route.waypoints) : StopAccess(city, s) # NoAccess}
    IN  /\ IsBroken(route.legs) => v.step = 0 /\ (v.parked # "driving" \/ v.stray)
        /\ v.parked # "driving" /\ reached # {} =>
             /\ leg.key.kind = "service"
             /\ \/ v.parked = StopAccess(city, leg.key.from).at
                \/ IsBroken(route.legs) /\ \E s \in reached : v.parked = StopAccess(city, s).at

\* An edit lands only on the line its editor opened: the same stops, pattern, ways and
\* platforms.  At the largest revision, where the network's changes no longer count up,
\* an edit that would change the line is refused.
EditsLandOnWhatTheyOpened ==
  [][draft # None /\ draft' = None /\ draft.line \in Lines(city) /\ draft.line \in Lines(city')
       /\ Structure(city', draft.line) # Structure(city, draft.line)
     => Structure(city, draft.line) = draft.seen]_vars

=============================================================================
