------------------------------ MODULE Economy ------------------------------
(***************************************************************************)
(* The player's city as GameEngine keeps it: what is built and painted,    *)
(* which lines run on it, the budget that pays for it, the clock that      *)
(* charges, earns and grows, and the one build that can be taken back.     *)
(*                                                                         *)
(* Geometry is data: a line is driven along any of its corridors, a stop   *)
(* is reached from the tiles beside it and covers a list of tiles, nearest *)
(* first.  A building stands on one tile and holds one home or one job.    *)
(* Metro (track, stations) repeats the bus code and is left out, as are    *)
(* roundabouts and platforms.  What a tick earns is chosen freely.         *)
(***************************************************************************)
EXTENDS Integers, Sequences, FiniteSets, SequencesExt

CONSTANTS
  Tiles, Adjacent,            \* the map; the tiles next to a tile
  Nodes, NodeAt, Terminals,   \* bus stops and terminals: the tile of each
  Beside, Coverage,           \* per node: tiles of access, tiles it develops
  NodeOrder,                  \* the nodes in build order
  Lines, LineStops, Corridors,\* per line: its nodes, the ways between them
  Price, DailyCost, Required, \* construction, upkeep of a bus, first fleet
  Creative, StartBudget, MinMoney, MaxMoney,
  Window, GrowthEvery, DayLength,
  Strokes, Presets,           \* what the player drags: sequences of tiles, their heading
  Rectangles,                 \* and sets of tiles
  MaxFare, MaxFleet,          \* bounds: income of one tick, buses of a line
  None

ZoneOf == [smallHouse |-> "residential", supermarket |-> "commercial"]
GrownTypes == DOMAIN ZoneOf
BuildingTypes == GrownTypes \cup {"busTerminal"}
Headings == {"there", "back"}

ASSUME EconomyAssumption ==
  /\ NodeAt \in [Nodes -> Tiles] /\ Terminals \subseteq Nodes
  /\ NodeOrder \in Seq(Nodes) /\ Coverage \in [Nodes -> Seq(Tiles)]
  /\ Strokes \subseteq Seq(Tiles) /\ Presets \subseteq Headings \cup {"both"}
  /\ Rectangles \subseteq SUBSET Tiles
  /\ \A n \in Nodes : NodeAt[n] \notin Beside[n]
  /\ LineStops \in [Lines -> SUBSET Nodes]
  /\ {MinMoney, MaxMoney, StartBudget} \subseteq Int /\ StartBudget \in 0..MaxMoney /\ MinMoney <= 0
  /\ Price \in [BuildingTypes \cup {"road", "busStop", "bus"} -> Nat]
  /\ DailyCost \in Nat /\ Required \in Nat \ {0} /\ Window \in Nat
  /\ GrowthEvery \in Nat \ {0} /\ DayLength \in Nat \ {0}
  /\ Creative \in BOOLEAN

\* None is the value of nothing in particular.
ASSUME NoneIsNoStatus ==
  None \notin {"present", "missing", "active", "idle", "both"} \cup Headings \cup BuildingTypes

VARIABLES
  city,       \* GameSnapshot: [roads, zone, nodes, buildings, lines, budget]
  clock,      \* time of day
  lastBuild,  \* GameEngine.last_build: [age, refund, inverse], or None
  answer,     \* how the last intent was answered, as far as undo is concerned
  built       \* history: what the last build that counts changed, {} if none does

vars == <<city, clock, lastBuild, answer, built>>

-----------------------------------------------------------------------------
(* Reading the city.                                                       *)

HasBuilding(c, t) == c.buildings[t] # None
NodesAt(c, t) == {n \in Nodes : NodeAt[n] = t /\ c.nodes[n] = "present"}

\* Land on which something may be built or painted.
Bare(c, t) == c.roads[t] = None /\ ~HasBuilding(c, t) /\ NodesAt(c, t) = {}

Drivable(c, corridor, heading) == \A t \in corridor : c.roads[t] \in {"both", heading}

\* Every leg of the line has a path: resolve_route_legs, round trip.
Connected(c, l) ==
  /\ \A n \in LineStops[l] : c.nodes[n] = "present"
  /\ \A heading \in Headings : \E k \in Corridors[l] : Drivable(c, k, heading)

Exists(c, l) == c.lines[l].status # None
Operational(c, l) == c.lines[l].status = "active" /\ ~c.lines[l].broken
Served(c, l) == Operational(c, l) /\ c.lines[l].fleet > 0

Referenced(c, n) == \E l \in Lines : Exists(c, l) /\ n \in LineStops[l]

-----------------------------------------------------------------------------
(* Money: an i32 that purchases may not overdraw.                          *)

Charge(cost) == IF Creative THEN 0 ELSE cost
CanPay(c, cost) == (Creative \/ c.budget >= cost) /\ c.budget >= Charge(cost)
Paid(c, cost) == [c EXCEPT !.budget = @ - Charge(cost)]

Saturated(money) == IF money > MaxMoney THEN MaxMoney ELSE IF money < MinMoney THEN MinMoney ELSE money

\* The day boundary: every bus of a line that runs is paid for, even into debt.
CityOperatingCost(c) ==
  DailyCost * SumFunctionOnSet([l \in Lines |-> c.lines[l].fleet], {l \in Lines : Served(c, l)})
DayCharged(c) ==
  IF Creative THEN c ELSE [c EXCEPT !.budget = Saturated(@ - CityOperatingCost(c))]
Earned(c, fare) == IF Creative THEN c ELSE [c EXCEPT !.budget = Saturated(@ + fare)]

-----------------------------------------------------------------------------
(* What dispatch does with a candidate city.                               *)

\* Fault: the lines are kept as they were.
LinesKept(c) == c

\* prepare_network_candidate: every line is derived again from the network.
Recomputed(c) ==
  [c EXCEPT !.lines = [l \in Lines |->
     IF Exists(c, l) THEN [c.lines[l] EXCEPT !.broken = ~Connected(c, l)] ELSE c.lines[l]]]

\* What the player can see of a build, with the tiles' buildings apart.
View(c) == [roads |-> c.roads, zone |-> c.zone, buildings |-> c.buildings,
            stops |-> {n \in Nodes : c.nodes[n] = "present"}]

RestoreMap == [kind |-> "restoreMap", roads |-> city.roads, zone |-> city.zone]
DemolishAt(t) == [kind |-> "demolish", tile |-> t]

\* note_build_record after an applied build: it can be undone, and no earlier one.
NoteBuild(inverse) ==
  /\ lastBuild' = [age |-> 0, refund |-> city.budget - city'.budget, inverse |-> inverse]
  /\ built' = {[before |-> View(city), after |-> View(city'), paid |-> city.budget - city'.budget]}
\* Fault: a record outlives what should consume it.
KeepRecord == lastBuild' = lastBuild /\ built' = {}
ForgetBuild == lastBuild' = None /\ built' = {}

\* An intent that changes nothing is not applied and leaves no trace.
Apply(next) == next # city /\ city' = next /\ answer' = "other" /\ UNCHANGED clock
ApplyBuild(next, inverse) == Apply(next) /\ NoteBuild(inverse)
ApplyOther(next) == Apply(next) /\ UNCHANGED <<lastBuild, built>>

-----------------------------------------------------------------------------
(* Building on the map.                                                    *)

\* One tile of a stroke: a road that is there takes the heading of the stroke for
\* nothing, bare land is paid from what the tiles before have left.
RoadTileLaid(c, t, preset) ==
  CASE c.roads[t] # None -> [c EXCEPT !.roads[t] = preset]
    [] Bare(c, t) /\ CanPay(c, Price["road"]) -> Paid([c EXCEPT !.roads[t] = preset], Price["road"])
    [] OTHER -> c

RoadLineLaid(c, stroke, preset) ==
  LET laid[i \in 0..Len(stroke)] ==
        IF i = 0 THEN c ELSE RoadTileLaid(laid[i - 1], stroke[i], preset)
      last == laid[Len(stroke)]
  IN  [c EXCEPT !.roads = last.roads, !.budget = last.budget]

LayRoadLine(stroke, preset) ==
  LET next == RoadLineLaid(city, stroke, preset)
  IN  /\ next.roads # city.roads
      /\ ApplyBuild(Recomputed(next), RestoreMap)

\* A lone tile is paid for before its place is looked at, and never re-headed.
LayRoad(t) ==
  /\ CanPay(city, Price["road"]) /\ Bare(city, t)
  /\ ApplyBuild(Recomputed(Paid([city EXCEPT !.roads[t] = "both"], Price["road"])), RestoreMap)

NextHeading == [both |-> "there", there |-> "back", back |-> "both"]
CycleRoadDirection(t) ==
  /\ city.roads[t] # None
  /\ \E u \in Adjacent[t] : city.roads[u] # None
  /\ ApplyBuild(Recomputed([city EXCEPT !.roads[t] = NextHeading[@]]), RestoreMap)

PaintAreaRectangle(area, tiles) ==
  ApplyBuild([city EXCEPT !.zone = [t \in Tiles |->
                IF t \in tiles /\ Bare(city, t) THEN area ELSE city.zone[t]]],
             RestoreMap)

-----------------------------------------------------------------------------
(* Stops and buildings.                                                    *)

\* restore_or_create_node: the node a line still refers to comes back as itself.
NodePlaced(c, n) == [c EXCEPT !.nodes[n] = "present"]
HasAccess(c, n) == \E t \in Beside[n] : c.roads[t] # None

AddBusStop(n) ==
  /\ n \notin Terminals
  /\ CanPay(city, Price["busStop"])
  /\ Bare(city, NodeAt[n]) /\ HasAccess(city, n)
  /\ ApplyBuild(Recomputed(Paid(NodePlaced(city, n), Price["busStop"])), DemolishAt(NodeAt[n]))

BuildingPlaced(c, t, type) == [c EXCEPT !.buildings[t] = type]
CanPlaceBuilding(c, t, type) == Bare(c, t) /\ (type \in GrownTypes => c.zone[t] = ZoneOf[type])

PlaceZonedBuilding(t, type) ==
  /\ CanPay(city, Price[type])
  /\ CanPlaceBuilding(city, t, type)
  /\ ApplyBuild(Recomputed(Paid(BuildingPlaced(city, t, type), Price[type])), DemolishAt(t))

PlaceBusTerminal(n) ==
  LET t == NodeAt[n]
      placed == NodePlaced(BuildingPlaced(city, t, "busTerminal"), n)
  IN  /\ n \in Terminals
      /\ CanPay(city, Price["busTerminal"])
      /\ CanPlaceBuilding(city, t, "busTerminal") /\ HasAccess(city, n)
      /\ ApplyBuild(Recomputed(Paid(placed, Price["busTerminal"])), DemolishAt(t))

PlaceBuilding ==
  \/ \E t \in Tiles, type \in GrownTypes : PlaceZonedBuilding(t, type)
  \/ \E n \in Nodes : PlaceBusTerminal(n)

\* remove_or_tombstone_node: a node a line refers to stays as missing.
NodesRemoved(c, gone) ==
  [c EXCEPT !.nodes = [n \in Nodes |->
     IF n \notin gone THEN c.nodes[n] ELSE IF Referenced(c, n) THEN "missing" ELSE None]]

\* remove_at_tile on each tile: a building with its node, else a stop, else the road.
CanRemoveAt(c, t) == ~Bare(c, t)
Removed(c, tiles) ==
  LET housed == {t \in tiles : HasBuilding(c, t)}
      stopped == {t \in tiles : NodesAt(c, t) # {}}
  IN  [NodesRemoved(c, UNION {NodesAt(c, t) : t \in tiles}) EXCEPT
         !.buildings = [t \in Tiles |-> IF t \in housed THEN None ELSE c.buildings[t]],
         !.roads = [t \in Tiles |-> IF t \in tiles \ (housed \cup stopped) THEN None ELSE c.roads[t]]]

RemoveAtTiles(tiles) == Apply(Recomputed(Removed(city, tiles))) /\ ForgetBuild

-----------------------------------------------------------------------------
(* Lines: what they cost is their buses.                                   *)

NoLine == [status |-> None, broken |-> FALSE, fleet |-> 0]
NewLine == [status |-> "active", broken |-> FALSE, fleet |-> 0]

CreateRoute(l) ==
  /\ ~Exists(city, l) /\ Connected(city, l)
  /\ ApplyOther([city EXCEPT !.lines[l] = NewLine])

SetRouteActive(l, status) ==
  /\ Exists(city, l)
  /\ ApplyOther([city EXCEPT !.lines[l].status = status])

\* The buses go with the line, and the missing nodes nobody refers to any more.
DeleteRoute(l) ==
  LET without == [city EXCEPT !.lines[l] = NoLine]
  IN  /\ Exists(city, l)
      /\ ApplyOther([without EXCEPT !.nodes = [n \in Nodes |->
           IF city.nodes[n] = "missing" /\ ~Referenced(without, n) THEN None ELSE city.nodes[n]]])

\* Buses are bought all at once or not at all, for a line that runs.
BuyVehicles(l, count) ==
  /\ Operational(city, l) /\ CanPay(city, count * Price["bus"])
  /\ city.lines[l].fleet + count <= MaxFleet                       \* bound
  /\ ApplyOther(Paid([city EXCEPT !.lines[l].fleet = @ + count], count * Price["bus"]))

DeployInitialFleet(l) == city.lines[l].fleet = 0 /\ BuyVehicles(l, Required)
AssignVehicle(l) == BuyVehicles(l, 1)
AddServiceVehicle(l) == city.lines[l].fleet > 0 /\ BuyVehicles(l, 1)

\* The last bus stays; which of the others is empty is up to the trips.
RetireServiceVehicle(l) ==
  /\ city.lines[l].fleet > 1 /\ Operational(city, l)
  /\ ApplyOther([city EXCEPT !.lines[l].fleet = @ - 1])

-----------------------------------------------------------------------------
(* Time: charges, fares and growth.                                        *)

Standing(c, types) == Cardinality({t \in Tiles : c.buildings[t] \in types})
\* Homes are wanted while there are as many jobs as homes.
TypeWanted(c) ==
  IF Standing(c, {"supermarket"}) >= Standing(c, {"smallHouse"}) THEN "smallHouse" ELSE "supermarket"

\* One served node: the wanted building on the nearest tile that takes it.
Developed(c, n) ==
  LET sites == {i \in 1..Len(Coverage[n]) : CanPlaceBuilding(c, Coverage[n][i], TypeWanted(c))}
  IN  IF sites = {} THEN c ELSE BuildingPlaced(c, Coverage[n][Min(sites)], TypeWanted(c))

ServedNode(c, n) == c.nodes[n] = "present" /\ \E l \in Lines : Served(c, l) /\ n \in LineStops[l]
Grown(c) ==
  LET after[i \in 0..Len(NodeOrder)] ==
        IF i = 0 THEN c
        ELSE IF ServedNode(c, NodeOrder[i]) THEN Developed(after[i - 1], NodeOrder[i]) ELSE after[i - 1]
  IN  [c EXCEPT !.buildings = after[Len(NodeOrder)].buildings]

\* One step of the clock; the trip tick cuts every step at the next boundary.
Tick(fare) ==
  LET charged == IF clock' = 0 THEN DayCharged(city) ELSE city
      earned == Earned(charged, fare)
  IN  /\ clock' = (clock + 1) % DayLength
      /\ city' = IF clock' % GrowthEvery = 0 THEN Grown(earned) ELSE earned
      /\ lastBuild' = IF lastBuild = None THEN None
                      ELSE [lastBuild EXCEPT !.age = IF @ > Window THEN @ ELSE @ + 1]
      /\ answer' = "other" /\ UNCHANGED built

-----------------------------------------------------------------------------
(* Undo.                                                                   *)

Refuse(reply) == answer' = reply /\ UNCHANGED <<city, clock>>

NothingToUndo == lastBuild = None /\ Refuse("other") /\ UNCHANGED <<lastBuild, built>>
UndoExpired == lastBuild # None /\ lastBuild.age > Window /\ Refuse("expired") /\ ForgetBuild

Inverted(c, inverse) ==
  IF inverse.kind = "demolish" THEN Removed(c, {inverse.tile})
  ELSE [c EXCEPT !.roads = inverse.roads, !.zone = inverse.zone]

\* Fault: the zones under the buildings are not compared.
SiteGoneOnly(c, inverse) == inverse.kind = "demolish" /\ ~CanRemoveAt(c, inverse.tile)

\* A building stands where the map to come back had another zone, or has gone.
SiteConflict(c, inverse) ==
  IF inverse.kind = "demolish" THEN ~CanRemoveAt(c, inverse.tile)
  ELSE \E t \in Tiles : HasBuilding(c, t) /\ c.zone[t] # inverse.zone[t]

\* Fault: only lines in service are looked at.
BrokenInService(live, prepared) ==
  \E l \in Lines : Operational(live, l) /\ prepared.lines[l].broken

NewlyBroken(live, prepared) ==
  \E l \in Lines : Exists(live, l) /\ ~live.lines[l].broken /\ prepared.lines[l].broken

UndoLastBuild ==
  LET inverse == lastBuild.inverse
      refunded == [Inverted(city, inverse) EXCEPT !.budget = @ + lastBuild.refund]
      prepared == Recomputed(refunded)
      conflict == \/ SiteConflict(city, inverse)
                  \/ refunded.budget \notin MinMoney..MaxMoney
                  \/ NewlyBroken(city, prepared)
  IN  /\ lastBuild # None /\ lastBuild.age <= Window
      /\ \/ conflict /\ Refuse("conflict") /\ UNCHANGED <<lastBuild, built>>
         \/ ~conflict /\ city' = prepared /\ answer' = "undone" /\ ForgetBuild /\ UNCHANGED clock

-----------------------------------------------------------------------------
(* A new city, a save and a reset.                                         *)

NewCity == [roads |-> [t \in Tiles |-> None], zone |-> [t \in Tiles |-> None],
            nodes |-> [n \in Nodes |-> None], buildings |-> [t \in Tiles |-> None],
            lines |-> [l \in Lines |-> NoLine], budget |-> StartBudget]

Init == city = NewCity /\ clock = 0 /\ lastBuild = None /\ answer = "other" /\ built = {}

SnapshotForSave == ForgetBuild /\ answer' = "other" /\ UNCHANGED <<city, clock>>
Reset == ForgetBuild /\ answer' = "other" /\ city' = NewCity /\ clock' = 0

Player ==
  \/ \E stroke \in Strokes, preset \in Presets : LayRoadLine(stroke, preset)
  \/ \E t \in Tiles : LayRoad(t) \/ CycleRoadDirection(t) \/ RemoveAtTiles({t})
  \/ \E tiles \in Rectangles :
       RemoveAtTiles(tiles) \/ \E type \in GrownTypes : PaintAreaRectangle(ZoneOf[type], tiles)
  \/ \E n \in Nodes : AddBusStop(n)
  \/ PlaceBuilding
  \/ \E l \in Lines :
       \/ CreateRoute(l) \/ DeleteRoute(l) \/ \E s \in {"active", "idle"} : SetRouteActive(l, s)
       \/ DeployInitialFleet(l) \/ AssignVehicle(l) \/ AddServiceVehicle(l) \/ RetireServiceVehicle(l)
  \/ NothingToUndo \/ UndoExpired \/ UndoLastBuild

Next == Player \/ SnapshotForSave \/ Reset \/ \E fare \in 0..MaxFare : Tick(fare)

Spec == Init /\ [][Next]_vars

-----------------------------------------------------------------------------
(* Properties.                                                             *)

\* Whatever is painted, laid, grown or undone, a house or a shop stands on bare land of
\* its own zone (grown_building_conflict, is_area_paintable, can_place_building).
BuildingsKeepTheirZone ==
  \A t \in Tiles : HasBuilding(city, t) =>
    /\ city.roads[t] = None
    /\ city.buildings[t] \in GrownTypes => city.zone[t] = ZoneOf[city.buildings[t]]

\* What a line says of itself is what the network says: no commit forgets to derive
\* the lines again (prepare_network_candidate), and no line refers to a collected node.
LinesFollowRoads ==
  \A l \in Lines : Exists(city, l) =>
    /\ city.lines[l].broken = ~Connected(city, l)
    /\ \A n \in LineStops[l] : city.nodes[n] # None

\* An undo takes back the last build, all of it and nothing else, for what it had cost
\* and within the integer the budget is kept in;
\* or it changes nothing, and after a conflict it can be tried again (undo_last_build).
TakenBack(b) ==
  [View(city) EXCEPT !.roads = b.before.roads, !.zone = b.before.zone, !.stops = b.before.stops,
     !.buildings = [t \in Tiles |-> IF b.before.buildings[t] # b.after.buildings[t]
                                    THEN b.before.buildings[t] ELSE city.buildings[t]]]
UndoAllOrNothing ==
  [][/\ answer' = "undone" =>
          \E b \in built : /\ View(city') = TakenBack(b)
                           /\ city'.budget = city.budget + b.paid /\ city'.budget <= MaxMoney
     /\ answer' \in {"conflict", "expired"} => city' = city
     /\ answer' = "conflict" => lastBuild' = lastBuild]_vars

\* An undo never breaks a line that is connected, in service or not, whatever was built
\* and demolished since (newly_broken_route).
UndoBreaksNoLine ==
  [][answer' = "undone" =>
       \A l \in Lines : Exists(city, l) /\ Connected(city, l) => Connected(city', l)]_vars
=============================================================================
