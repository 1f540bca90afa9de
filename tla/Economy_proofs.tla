--------------------------- MODULE Economy_proofs ---------------------------
(***************************************************************************)
(* For every map, every set of lines and corridors and every price: the    *)
(* lines of the city follow its network, and an undo breaks none of them;  *)
(* its buildings stand on land of their own; an undo takes back its build, *)
(* all of it and nothing else.                                             *)
(*                                                                         *)
(* A stroke of road and the growth of a tick are loops.  What holds after  *)
(* each of their steps is shown by the smallest counterexample there could *)
(* be: LeastNumber, UpTo.                                                  *)
(***************************************************************************)
EXTENDS Economy, WellFoundedInduction, TLAPS

LineRecords == [status : {None, "active", "idle"}, broken : BOOLEAN, fleet : Int]

\* What the proofs need of the type of a city: its fields and its lines.
CityShape(c) ==
  /\ c = [roads |-> c.roads, zone |-> c.zone, nodes |-> c.nodes,
          buildings |-> c.buildings, lines |-> c.lines, budget |-> c.budget]
  /\ c.lines \in [Lines -> LineRecords]
  /\ c.nodes \in [Nodes -> {None, "present", "missing"}]

\* LinesFollowRoads of any city.
FollowRoads(c) ==
  \A l \in Lines : Exists(c, l) =>
    /\ c.lines[l].broken = ~Connected(c, l)
    /\ \A n \in LineStops[l] : c.nodes[n] # None

\* The part of it that a commit to the network does not restore by itself.
KeepsReferred(c) == \A l \in Lines : Exists(c, l) => \A n \in LineStops[l] : c.nodes[n] # None

IInv == CityShape(city) /\ FollowRoads(city)

\* Deriving the lines again makes them follow the network, whatever was done to it.
LEMMA RecomputedFollows ==
  ASSUME NEW c, CityShape(c), KeepsReferred(c)
  PROVE  CityShape(Recomputed(c)) /\ FollowRoads(Recomputed(c))
PROOF
  <1> DEFINE d == Recomputed(c)
  <1>1. /\ d.roads = c.roads /\ d.zone = c.zone /\ d.nodes = c.nodes
        /\ d.buildings = c.buildings /\ d.budget = c.budget
        /\ d.lines = [l \in Lines |-> IF Exists(c, l) THEN [c.lines[l] EXCEPT !.broken = ~Connected(c, l)]
                                      ELSE c.lines[l]]
    BY DEF CityShape, Recomputed
  <1>2. d = [roads |-> d.roads, zone |-> d.zone, nodes |-> d.nodes,
             buildings |-> d.buildings, lines |-> d.lines, budget |-> d.budget]
    BY DEF CityShape, Recomputed
  <1>3. ASSUME NEW l \in Lines
        PROVE  /\ d.lines[l] \in LineRecords
               /\ Exists(d, l) = Exists(c, l)
               /\ Exists(c, l) => d.lines[l].broken = ~Connected(c, l)
    <2>1. c.lines[l] \in LineRecords
      BY DEF CityShape
    <2>2. (~Connected(c, l)) \in BOOLEAN
      BY DEF Connected
    <2>3. CASE Exists(c, l)
      <3>1. d.lines[l] = [c.lines[l] EXCEPT !.broken = ~Connected(c, l)]
        BY <1>1, <2>3
      <3>2. /\ d.lines[l].status = c.lines[l].status /\ d.lines[l].broken = ~Connected(c, l)
            /\ d.lines[l] \in LineRecords
        BY <3>1, <2>1, <2>2 DEF LineRecords
      <3> QED BY <3>2, <2>3 DEF Exists
    <2>4. CASE ~Exists(c, l)
      BY <1>1, <2>1, <2>4 DEF Exists
    <2> QED BY <2>3, <2>4
  <1>4. CityShape(d)
    <2>1. d.lines \in [Lines -> LineRecords]
      BY <1>1, <1>3
    <2> QED BY <1>1, <1>2, <2>1 DEF CityShape
  <1>5. ASSUME NEW l \in Lines
        PROVE  Connected(d, l) = Connected(c, l)
    BY <1>1 DEF Connected, Drivable
  <1>6. FollowRoads(d)
    BY <1>1, <1>3, <1>5 DEF FollowRoads, KeepsReferred
  <1> QED BY <1>4, <1>6

\* The lines are kept by whatever leaves roads, nodes and lines alone.
LEMMA SameNetworkFollows ==
  ASSUME NEW c, NEW d, CityShape(c), FollowRoads(c), CityShape(d),
         d.roads = c.roads, d.nodes = c.nodes, d.lines = c.lines
  PROVE  FollowRoads(d)
PROOF
  BY DEF FollowRoads, Exists, Connected, Drivable

LEMMA FollowsRefers ==
  ASSUME NEW c, FollowRoads(c)
  PROVE  KeepsReferred(c)
PROOF
  BY DEF FollowRoads, KeepsReferred

\* A candidate of the network mutations: other roads, zones, buildings or nodes, but a
\* node a line refers to is not lost.
Candidate(c) ==
  /\ c = [roads |-> c.roads, zone |-> c.zone, nodes |-> c.nodes,
          buildings |-> c.buildings, lines |-> c.lines, budget |-> c.budget]
  /\ c.lines = city.lines
  /\ c.nodes \in [Nodes -> {None, "present", "missing"}]
  /\ \A n \in Nodes : c.nodes[n] = None => city.nodes[n] = None \/ ~Referenced(city, n)

LEMMA CandidateCommitted ==
  ASSUME IInv, NEW c, Candidate(c)
  PROVE  CityShape(Recomputed(c)) /\ FollowRoads(Recomputed(c))
PROOF
  <1>1. CityShape(c)
    BY DEF IInv, CityShape, Candidate
  <1>2. ASSUME NEW l \in Lines, Exists(c, l), NEW n \in LineStops[l]
        PROVE  c.nodes[n] # None
    <2>1. n \in Nodes
      BY EconomyAssumption DEF EconomyAssumption
    <2>2. Exists(city, l)
      BY <1>2 DEF Candidate, Exists
    <2>3. city.nodes[n] # None /\ Referenced(city, n)
      BY <2>2 DEF IInv, FollowRoads, Referenced
    <2> QED BY <2>1, <2>3 DEF Candidate
  <1> QED BY <1>1, <1>2, RecomputedFollows DEF KeepsReferred

\* Other roads, zones, buildings and money make a candidate.
LEMMA MapCandidate ==
  ASSUME IInv, NEW c, NEW roads, NEW zone, NEW blds, NEW money,
         c = [roads |-> roads, zone |-> zone, nodes |-> city.nodes,
              buildings |-> blds, lines |-> city.lines, budget |-> money]
  PROVE  Candidate(c)
PROOF
  BY DEF IInv, CityShape, Candidate

\* So does a node that is placed, and so do the nodes and buildings a demolition removes.
LEMMA PlacedCandidate ==
  ASSUME IInv, NEW c, NEW n \in Nodes, NEW blds, NEW money,
         c = [roads |-> city.roads, zone |-> city.zone, nodes |-> [city.nodes EXCEPT ![n] = "present"],
              buildings |-> blds, lines |-> city.lines, budget |-> money]
  PROVE  Candidate(c)
PROOF
  <1>1. city.nodes \in [Nodes -> {None, "present", "missing"}]
    BY DEF IInv, CityShape
  <1>2. ASSUME NEW m \in Nodes, c.nodes[m] = None
        PROVE  city.nodes[m] = None \/ ~Referenced(city, m)
    <2>1. CASE m = n
      <3>1. c.nodes[m] = "present"
        BY <1>1, <2>1
      <3> QED BY <3>1, <1>2, NoneIsNoStatus
    <2>2. CASE m # n
      BY <1>1, <1>2, <2>2
    <2> QED BY <2>1, <2>2
  <1> QED BY <1>1, <1>2 DEF Candidate

LEMMA RemovedCandidate ==
  ASSUME IInv, NEW tiles, NEW money, NEW c, c = [Removed(city, tiles) EXCEPT !.budget = money]
  PROVE  Candidate(c)
PROOF
  <1> DEFINE gone == UNION {NodesAt(city, t) : t \in tiles}
             left == [n \in Nodes |-> IF n \notin gone THEN city.nodes[n]
                                      ELSE IF Referenced(city, n) THEN "missing" ELSE None]
             blds == [t \in Tiles |-> IF t \in {u \in tiles : HasBuilding(city, u)} THEN None
                                      ELSE city.buildings[t]]
             roads == [t \in Tiles |->
                         IF t \in tiles \ ({u \in tiles : HasBuilding(city, u)}
                                           \cup {u \in tiles : NodesAt(city, u) # {}})
                         THEN None ELSE city.roads[t]]
  <1>1. left \in [Nodes -> {None, "present", "missing"}]
    BY DEF IInv, CityShape
  <1>2. ASSUME NEW n \in Nodes, left[n] = None
        PROVE  city.nodes[n] = None \/ ~Referenced(city, n)
    <2>1. CASE n \notin gone
      BY <1>2, <2>1
    <2>2. CASE n \in gone /\ Referenced(city, n)
      <3>1. left[n] = "missing"
        BY <2>2
      <3> QED BY <3>1, <1>2, NoneIsNoStatus
    <2> QED BY <2>1, <2>2
  <1>3. Removed(city, tiles) = [[city EXCEPT !.nodes = left] EXCEPT !.buildings = blds, !.roads = roads]
    BY Zenon DEF Removed, NodesRemoved
  <1> HIDE DEF left, blds, roads
  <1>4. [city EXCEPT !.nodes = left] =
          [roads |-> city.roads, zone |-> city.zone, nodes |-> left,
           buildings |-> city.buildings, lines |-> city.lines, budget |-> city.budget]
    BY DEF IInv, CityShape
  <1>5. Removed(city, tiles) =
          [roads |-> roads, zone |-> city.zone, nodes |-> left,
           buildings |-> blds, lines |-> city.lines, budget |-> city.budget]
    BY <1>3, <1>4
  <1>6. c = [roads |-> roads, zone |-> city.zone, nodes |-> left,
             buildings |-> blds, lines |-> city.lines, budget |-> money]
    BY <1>5
  <1>7. c.lines = city.lines /\ c.nodes = left
    BY <1>6
  <1>8. c = [roads |-> c.roads, zone |-> c.zone, nodes |-> c.nodes,
             buildings |-> c.buildings, lines |-> c.lines, budget |-> c.budget]
    BY <1>6
  <1> QED BY <1>1, <1>2, <1>7, <1>8 DEF Candidate

\* Purchases, charges, fares and growth leave the network and its lines alone.
SameNetwork(c) ==
  c = [roads |-> city.roads, zone |-> c.zone, nodes |-> city.nodes,
       buildings |-> c.buildings, lines |-> city.lines, budget |-> c.budget]

LEMMA SameNetworkKept ==
  ASSUME IInv, NEW c, SameNetwork(c)
  PROVE  CityShape(c) /\ FollowRoads(c)
PROOF
  <1>1. c.roads = city.roads /\ c.nodes = city.nodes /\ c.lines = city.lines
    BY DEF SameNetwork
  <1>2. CityShape(c)
    BY <1>1 DEF SameNetwork, IInv, CityShape
  <1> QED BY <1>1, <1>2, SameNetworkFollows DEF IInv

\* A line that is entered, switched or given buses.
LEMMA LineEdited ==
  ASSUME IInv, NEW c, NEW l \in Lines, NEW line \in LineRecords, NEW money,
         c = [roads |-> city.roads, zone |-> city.zone, nodes |-> city.nodes, buildings |-> city.buildings,
              lines |-> [city.lines EXCEPT ![l] = line], budget |-> money],
         line.broken = ~Connected(city, l),
         \A n \in LineStops[l] : city.nodes[n] # None
  PROVE  CityShape(c) /\ FollowRoads(c)
PROOF
  <1>1. CityShape(c)
    BY DEF IInv, CityShape
  <1>2. ASSUME NEW k \in Lines
        PROVE  Connected(c, k) = Connected(city, k)
    BY DEF Connected, Drivable
  <1>3. ASSUME NEW k \in Lines, Exists(c, k)
        PROVE  c.lines[k].broken = ~Connected(c, k) /\ \A n \in LineStops[k] : c.nodes[n] # None
    <2>1. c.lines[k] = IF k = l THEN line ELSE city.lines[k]
      BY DEF IInv, CityShape
    <2>2. CASE k = l
      BY <2>1, <2>2, <1>2
    <2>3. CASE k # l
      <3>1. Exists(city, k)
        BY <1>3, <2>1, <2>3 DEF Exists
      <3> QED BY <3>1, <2>1, <2>3, <1>2 DEF IInv, FollowRoads
    <2> QED BY <2>2, <2>3
  <1> QED BY <1>1, <1>3 DEF FollowRoads

LEMMA NewCityFollows == CityShape(NewCity) /\ FollowRoads(NewCity)
PROOF
  <1>1. CityShape(NewCity)
    BY DEF NewCity, NoLine, CityShape, LineRecords
  <1>2. \A l \in Lines : ~Exists(NewCity, l)
    BY DEF NewCity, NoLine, Exists
  <1> QED BY <1>1, <1>2 DEF FollowRoads

LEMMA InitIInv == Init => IInv
PROOF
  BY NewCityFollows DEF Init, IInv

\* A payment changes the budget and nothing else.
LEMMA PaidCity ==
  ASSUME NEW cost, NEW c, NEW roads, NEW zone, NEW nodes, NEW blds, NEW lines, NEW money,
         c = [roads |-> roads, zone |-> zone, nodes |-> nodes,
              buildings |-> blds, lines |-> lines, budget |-> money]
  PROVE  Paid(c, cost) = [roads |-> roads, zone |-> zone, nodes |-> nodes,
                          buildings |-> blds, lines |-> lines, budget |-> money - Charge(cost)]
PROOF
  BY DEF Paid

\* What is built on the map.
LEMMA MapStep ==
  ASSUME IInv, NEW stroke, NEW preset, NEW t, NEW tiles, NEW area,
         \/ LayRoadLine(stroke, preset) \/ LayRoad(t) \/ CycleRoadDirection(t)
         \/ PaintAreaRectangle(area, tiles)
  PROVE  IInv'
PROOF
  <1> USE DEF ApplyBuild, Apply
  <1>1. CASE LayRoadLine(stroke, preset)
    <2> DEFINE next == RoadLineLaid(city, stroke, preset)
    <2>1. PICK roads, money : next = [city EXCEPT !.roads = roads, !.budget = money]
      BY DEF RoadLineLaid
    <2>2. next = [roads |-> roads, zone |-> city.zone, nodes |-> city.nodes,
                  buildings |-> city.buildings, lines |-> city.lines, budget |-> money]
      BY <2>1 DEF IInv, CityShape
    <2>3. Candidate(next)
      BY <2>2, MapCandidate
    <2>4. city' = Recomputed(next)
      BY <1>1 DEF LayRoadLine
    <2> QED BY <2>3, <2>4, CandidateCommitted DEF IInv
  <1>2. CASE LayRoad(t)
    <2> DEFINE next == Paid([city EXCEPT !.roads[t] = "both"], Price["road"])
    <2>0. [city EXCEPT !.roads[t] = "both"] =
            [roads |-> [city.roads EXCEPT ![t] = "both"], zone |-> city.zone, nodes |-> city.nodes,
             buildings |-> city.buildings, lines |-> city.lines, budget |-> city.budget]
      BY DEF IInv, CityShape
    <2>1. next = [roads |-> [city.roads EXCEPT ![t] = "both"], zone |-> city.zone, nodes |-> city.nodes,
                  buildings |-> city.buildings, lines |-> city.lines,
                  budget |-> city.budget - Charge(Price["road"])]
      BY <2>0, PaidCity
    <2>2. Candidate(next)
      BY <2>1, MapCandidate
    <2>3. city' = Recomputed(next)
      BY <1>2 DEF LayRoad
    <2> QED BY <2>2, <2>3, CandidateCommitted DEF IInv
  <1>3. CASE CycleRoadDirection(t)
    <2> DEFINE next == [city EXCEPT !.roads[t] = NextHeading[@]]
    <2>1. next = [roads |-> [city.roads EXCEPT ![t] = NextHeading[city.roads[t]]],
                  zone |-> city.zone, nodes |-> city.nodes,
                  buildings |-> city.buildings, lines |-> city.lines, budget |-> city.budget]
      BY DEF IInv, CityShape
    <2>2. Candidate(next)
      BY <2>1, MapCandidate
    <2>3. city' = Recomputed(next)
      BY <1>3 DEF CycleRoadDirection
    <2> QED BY <2>2, <2>3, CandidateCommitted DEF IInv
  <1>4. CASE PaintAreaRectangle(area, tiles)
    <2>1. PICK zone : city' = [city EXCEPT !.zone = zone]
      BY <1>4 DEF PaintAreaRectangle
    <2>2. city' = [roads |-> city.roads, zone |-> zone, nodes |-> city.nodes,
                   buildings |-> city.buildings, lines |-> city.lines, budget |-> city.budget]
      BY <2>1 DEF IInv, CityShape
    <2>3. SameNetwork(city')
      BY <2>2 DEF SameNetwork
    <2> QED BY <2>3, SameNetworkKept DEF IInv
  <1> QED BY <1>1, <1>2, <1>3, <1>4

\* Stops and terminals.
LEMMA NodeStep ==
  ASSUME IInv, NEW n \in Nodes, AddBusStop(n) \/ PlaceBusTerminal(n)
  PROVE  IInv'
PROOF
  <1> USE DEF ApplyBuild, Apply
  <1>1. CASE AddBusStop(n)
    <2> DEFINE next == Paid(NodePlaced(city, n), Price["busStop"])
    <2>0. NodePlaced(city, n) =
            [roads |-> city.roads, zone |-> city.zone, nodes |-> [city.nodes EXCEPT ![n] = "present"],
             buildings |-> city.buildings, lines |-> city.lines, budget |-> city.budget]
      BY DEF IInv, CityShape, NodePlaced
    <2>1. next = [roads |-> city.roads, zone |-> city.zone, nodes |-> [city.nodes EXCEPT ![n] = "present"],
                  buildings |-> city.buildings, lines |-> city.lines,
                  budget |-> city.budget - Charge(Price["busStop"])]
      BY <2>0, PaidCity
    <2>2. Candidate(next)
      BY <2>1, PlacedCandidate
    <2>3. city' = Recomputed(next)
      BY <1>1 DEF AddBusStop
    <2> QED BY <2>2, <2>3, CandidateCommitted DEF IInv
  <1>2. CASE PlaceBusTerminal(n)
    <2> DEFINE placed == NodePlaced(BuildingPlaced(city, NodeAt[n], "busTerminal"), n)
               next == Paid(placed, Price["busTerminal"])
    <2>0. placed =
            [roads |-> city.roads, zone |-> city.zone, nodes |-> [city.nodes EXCEPT ![n] = "present"],
             buildings |-> [city.buildings EXCEPT ![NodeAt[n]] = "busTerminal"], lines |-> city.lines, budget |-> city.budget]
      <3>1. BuildingPlaced(city, NodeAt[n], "busTerminal") =
              [roads |-> city.roads, zone |-> city.zone, nodes |-> city.nodes,
               buildings |-> [city.buildings EXCEPT ![NodeAt[n]] = "busTerminal"],
               lines |-> city.lines, budget |-> city.budget]
        BY DEF IInv, CityShape, BuildingPlaced
      <3> QED BY <3>1 DEF NodePlaced
    <2>1. next = [roads |-> city.roads, zone |-> city.zone, nodes |-> [city.nodes EXCEPT ![n] = "present"],
                  buildings |-> [city.buildings EXCEPT ![NodeAt[n]] = "busTerminal"], lines |-> city.lines,
                  budget |-> city.budget - Charge(Price["busTerminal"])]
      BY <2>0, PaidCity
    <2>2. Candidate(next)
      BY <2>1, PlacedCandidate
    <2>3. city' = Recomputed(next)
      BY <1>2 DEF PlaceBusTerminal
    <2> QED BY <2>2, <2>3, CandidateCommitted DEF IInv
  <1> QED BY <1>1, <1>2

\* Houses and shops, and everything that is cleared away.
LEMMA SiteStep ==
  ASSUME IInv, NEW t, NEW type, NEW tiles, PlaceZonedBuilding(t, type) \/ RemoveAtTiles(tiles)
  PROVE  IInv'
PROOF
  <1> USE DEF ApplyBuild, Apply
  <1>1. CASE PlaceZonedBuilding(t, type)
    <2> DEFINE next == Paid(BuildingPlaced(city, t, type), Price[type])
    <2>0. BuildingPlaced(city, t, type) =
            [roads |-> city.roads, zone |-> city.zone, nodes |-> city.nodes,
             buildings |-> [city.buildings EXCEPT ![t] = type], lines |-> city.lines, budget |-> city.budget]
      BY DEF IInv, CityShape, BuildingPlaced
    <2>1. next = [roads |-> city.roads, zone |-> city.zone, nodes |-> city.nodes,
                  buildings |-> [city.buildings EXCEPT ![t] = type], lines |-> city.lines,
                  budget |-> city.budget - Charge(Price[type])]
      BY <2>0, PaidCity
    <2>2. Candidate(next)
      BY <2>1, MapCandidate
    <2>3. city' = Recomputed(next)
      BY <1>1 DEF PlaceZonedBuilding
    <2> QED BY <2>2, <2>3, CandidateCommitted DEF IInv
  <1>2. CASE RemoveAtTiles(tiles)
    <2> DEFINE next == Removed(city, tiles)
    <2>1. next = [next EXCEPT !.budget = next.budget]
      BY DEF Removed, NodesRemoved
    <2>2. Candidate(next)
      BY <2>1, RemovedCandidate
    <2>3. city' = Recomputed(next)
      BY <1>2 DEF RemoveAtTiles
    <2> QED BY <2>2, <2>3, CandidateCommitted DEF IInv
  <1> QED BY <1>1, <1>2

\* What is done to a line.
LEMMA LineStep ==
  ASSUME IInv, NEW l \in Lines, NEW status \in {"active", "idle"}, NEW count \in Int,
         \/ CreateRoute(l) \/ SetRouteActive(l, status) \/ BuyVehicles(l, count)
         \/ RetireServiceVehicle(l)
  PROVE  IInv'
PROOF
  <1> USE DEF ApplyOther, Apply
  <1> DEFINE old == city.lines[l]
             With(line, money) ==
               [roads |-> city.roads, zone |-> city.zone, nodes |-> city.nodes, buildings |-> city.buildings,
                lines |-> [city.lines EXCEPT ![l] = line], budget |-> money]
  <1>1. old \in LineRecords
    BY DEF IInv, CityShape
  <1>2. Exists(city, l) => /\ old.broken = ~Connected(city, l)
                           /\ \A n \in LineStops[l] : city.nodes[n] # None
    BY DEF IInv, FollowRoads
  <1>3. Operational(city, l) => Exists(city, l)
    BY NoneIsNoStatus DEF Operational, Exists
  <1>8. ASSUME Exists(city, l), NEW line \in LineRecords, line.broken = old.broken, NEW money,
               city' = With(line, money)
        PROVE  IInv'
    <2>1. line.broken = ~Connected(city, l)
      BY <1>2, <1>8
    <2> QED BY <1>2, <1>8, <2>1, LineEdited DEF IInv
  <1>4. CASE CreateRoute(l)
    <2>1. NewLine \in LineRecords
      BY DEF NewLine, LineRecords
    <2>2. NewLine.broken = ~Connected(city, l)
      <3>1. NewLine.broken = FALSE
        BY DEF NewLine
      <3> QED BY <1>4, <3>1 DEF CreateRoute
    <2>3. \A n \in LineStops[l] : city.nodes[n] # None
      BY <1>4, NoneIsNoStatus DEF CreateRoute, Connected
    <2>4. city' = With(NewLine, city.budget)
      BY <1>4 DEF CreateRoute, IInv, CityShape
    <2> QED BY <2>1, <2>2, <2>3, <2>4, LineEdited DEF IInv
  <1>5. CASE SetRouteActive(l, status)
    <2> DEFINE line == [old EXCEPT !.status = status]
    <2>1. line \in LineRecords /\ line.broken = old.broken
      BY <1>1 DEF LineRecords
    <2>2. city' = With(line, city.budget)
      BY <1>5 DEF SetRouteActive, IInv, CityShape
    <2>3. Exists(city, l)
      BY <1>5 DEF SetRouteActive
    <2> HIDE DEF line
    <2> QED BY <2>1, <2>2, <2>3, <1>8
  <1>6. CASE BuyVehicles(l, count)
    <2> DEFINE line == [old EXCEPT !.fleet = old.fleet + count]
    <2>1. line \in LineRecords /\ line.broken = old.broken
      BY <1>1 DEF LineRecords
    <2>2. [city EXCEPT !.lines[l].fleet = @ + count] = With(line, city.budget)
      BY DEF IInv, CityShape
    <2>3. city' = With(line, city.budget - Charge(count * Price["bus"]))
      BY <1>6, <2>2, PaidCity DEF BuyVehicles
    <2>4. Exists(city, l)
      BY <1>3, <1>6 DEF BuyVehicles
    <2> HIDE DEF line
    <2> QED BY <2>1, <2>3, <2>4, <1>8
  <1>7. CASE RetireServiceVehicle(l)
    <2> DEFINE line == [old EXCEPT !.fleet = old.fleet - 1]
    <2>1. line \in LineRecords /\ line.broken = old.broken
      BY <1>1 DEF LineRecords
    <2>2. city' = With(line, city.budget)
      BY <1>7 DEF RetireServiceVehicle, IInv, CityShape
    <2>3. Exists(city, l)
      BY <1>3, <1>7 DEF RetireServiceVehicle
    <2> HIDE DEF line
    <2> QED BY <2>1, <2>2, <2>3, <1>8
  <1> QED BY <1>4, <1>5, <1>6, <1>7

\* The nodes that go with a deleted line are those no other line refers to.
LEMMA DeleteStep ==
  ASSUME IInv, NEW l \in Lines, DeleteRoute(l)
  PROVE  IInv'
PROOF
  <1> DEFINE without == [city EXCEPT !.lines[l] = NoLine]
             left == [n \in Nodes |-> IF city.nodes[n] = "missing" /\ ~Referenced(without, n)
                                      THEN None ELSE city.nodes[n]]
             lines == [city.lines EXCEPT ![l] = NoLine]
  <1>1. without = [roads |-> city.roads, zone |-> city.zone, nodes |-> city.nodes,
                   buildings |-> city.buildings, lines |-> lines, budget |-> city.budget]
    BY DEF IInv, CityShape
  <1>2. city' = [without EXCEPT !.nodes = left]
    BY Zenon DEF DeleteRoute, ApplyOther, Apply
  <1>3. left \in [Nodes -> {None, "present", "missing"}]
    BY DEF IInv, CityShape
  <1>4. NoLine \in LineRecords /\ NoLine.status = None
    BY DEF NoLine, LineRecords
  <1>5. lines \in [Lines -> LineRecords]
    BY <1>4 DEF IInv, CityShape
  <1>6. ASSUME NEW n \in Nodes
        PROVE  /\ left[n] = "present" <=> city.nodes[n] = "present"
               /\ Referenced(without, n) /\ city.nodes[n] # None => left[n] # None
    BY NoneIsNoStatus
  <1>7. ASSUME NEW k \in Lines, lines[k].status # None
        PROVE  k # l /\ lines[k] = city.lines[k] /\ Exists(city, k)
    <2>1. k # l
      BY <1>4, <1>7 DEF IInv, CityShape
    <2> QED BY <1>7, <2>1 DEF IInv, CityShape, Exists
  <1>8. ASSUME NEW k \in Lines, lines[k].status # None, NEW n \in LineStops[k]
        PROVE  n \in Nodes /\ left[n] # None
    <2>1. n \in Nodes
      BY EconomyAssumption DEF EconomyAssumption
    <2>2. Referenced(without, n)
      BY <1>1, <1>8 DEF Referenced, Exists
    <2>3. city.nodes[n] # None
      BY <1>7, <1>8 DEF IInv, FollowRoads
    <2> QED BY <1>6, <2>1, <2>2, <2>3
  <1> HIDE DEF left, lines
  <1>9. city' = [roads |-> city.roads, zone |-> city.zone, nodes |-> left,
                 buildings |-> city.buildings, lines |-> lines, budget |-> city.budget]
    BY <1>1, <1>2
  <1>10. city'.roads = city.roads /\ city'.nodes = left /\ city'.lines = lines
    BY <1>9
  <1>11. CityShape(city')
    BY <1>3, <1>5, <1>9 DEF CityShape
  <1>12. ASSUME NEW k \in Lines
         PROVE  Connected(city', k) = Connected(city, k)
    <2>1. \A n \in LineStops[k] : n \in Nodes
      BY EconomyAssumption DEF EconomyAssumption
    <2> QED BY <1>6, <1>10, <2>1 DEF Connected, Drivable
  <1>13. ASSUME NEW k \in Lines, Exists(city', k)
         PROVE  /\ city'.lines[k].broken = ~Connected(city', k)
                /\ \A n \in LineStops[k] : city'.nodes[n] # None
    <2>1. lines[k].status # None
      BY <1>10, <1>13 DEF Exists
    <2>2. city.lines[k].broken = ~Connected(city, k)
      BY <1>7, <2>1 DEF IInv, FollowRoads
    <2> QED BY <1>7, <1>8, <1>10, <1>12, <2>1, <2>2
  <1> QED BY <1>11, <1>13 DEF IInv, FollowRoads

\* Time passes: money and buildings change.
LEMMA TickStep ==
  ASSUME IInv, NEW fare, Tick(fare)
  PROVE  IInv'
PROOF
  <1> DEFINE charged == IF clock' = 0 THEN DayCharged(city) ELSE city
             earned == Earned(charged, fare)
  <1>1. SameNetwork(city)
    BY DEF IInv, CityShape, SameNetwork
  <1>2. SameNetwork(charged)
    BY <1>1 DEF DayCharged, SameNetwork
  <1>3. SameNetwork(earned)
    <2> HIDE DEF charged
    <2> QED BY <1>2 DEF Earned, SameNetwork
  <1>4. SameNetwork(Grown(earned))
    <2> HIDE DEF earned
    <2>1. PICK blds : Grown(earned) = [earned EXCEPT !.buildings = blds]
      BY Zenon DEF Grown
    <2> QED BY <1>3, <2>1 DEF SameNetwork
  <1>5. city' = Grown(earned) \/ city' = earned
    BY Zenon DEF Tick
  <1> HIDE DEF earned
  <1>6. SameNetwork(city')
    BY <1>3, <1>4, <1>5
  <1> QED BY <1>6, SameNetworkKept DEF IInv

\* What an undo puts back is a candidate like any other.
LEMMA UndoCandidate ==
  ASSUME IInv, UndoLastBuild, city' # city
  PROVE  \E c : Candidate(c) /\ city' = Recomputed(c) /\ ~NewlyBroken(city, city')
PROOF
  <1> DEFINE inverse == lastBuild.inverse
             refunded == [Inverted(city, inverse) EXCEPT !.budget = @ + lastBuild.refund]
  <1>1. city' = Recomputed(refunded) /\ ~NewlyBroken(city, Recomputed(refunded))
    BY Zenon DEF UndoLastBuild, Refuse
  <1>2. Candidate(refunded)
    <2>1. CASE inverse.kind = "demolish"
      <3>1. PICK money : refunded = [Removed(city, {inverse.tile}) EXCEPT !.budget = money]
        BY <2>1 DEF Inverted
      <3> QED BY <3>1, RemovedCandidate
    <2>2. CASE inverse.kind # "demolish"
      <3>1. Inverted(city, inverse) =
              [roads |-> inverse.roads, zone |-> inverse.zone, nodes |-> city.nodes,
               buildings |-> city.buildings, lines |-> city.lines, budget |-> city.budget]
        BY <2>2 DEF Inverted, IInv, CityShape
      <3>2. PICK money : refunded = [Inverted(city, inverse) EXCEPT !.budget = money]
        OBVIOUS
      <3>3. refunded =
              [roads |-> inverse.roads, zone |-> inverse.zone, nodes |-> city.nodes,
               buildings |-> city.buildings, lines |-> city.lines, budget |-> money]
        BY <3>1, <3>2
      <3> QED BY <3>3, MapCandidate
    <2> QED BY <2>1, <2>2
  <1> QED BY <1>1, <1>2

LEMMA UndoStep ==
  ASSUME IInv, UndoLastBuild
  PROVE  IInv'
PROOF
  <1>1. CASE city' = city
    BY <1>1 DEF IInv
  <1>2. CASE city' # city
    BY <1>2, UndoCandidate, CandidateCommitted DEF IInv
  <1> QED BY <1>1, <1>2

\* Every intent of the player keeps the lines on the network.
LEMMA PlayerStep ==
  ASSUME IInv, Player
  PROVE  IInv'
PROOF
  <1>1. CASE \E stroke \in Strokes, preset \in Presets : LayRoadLine(stroke, preset)
    BY <1>1, MapStep
  <1>2. CASE \E t \in Tiles : LayRoad(t) \/ CycleRoadDirection(t) \/ RemoveAtTiles({t})
    BY <1>2, MapStep, SiteStep
  <1>3. CASE \E tiles \in Rectangles :
               RemoveAtTiles(tiles) \/ \E type \in GrownTypes : PaintAreaRectangle(ZoneOf[type], tiles)
    BY <1>3, MapStep, SiteStep
  <1>4. CASE \E n \in Nodes : AddBusStop(n)
    BY <1>4, NodeStep
  <1>5. CASE PlaceBuilding
    BY <1>5, SiteStep, NodeStep DEF PlaceBuilding
  <1>6. CASE \E l \in Lines : \/ CreateRoute(l) \/ \E s \in {"active", "idle"} : SetRouteActive(l, s)
                              \/ RetireServiceVehicle(l)
    BY <1>6, LineStep
  <1>7. CASE \E l \in Lines : DeployInitialFleet(l) \/ AssignVehicle(l) \/ AddServiceVehicle(l)
    BY <1>7, LineStep, EconomyAssumption
    DEF DeployInitialFleet, AssignVehicle, AddServiceVehicle, EconomyAssumption
  <1>8. CASE \E l \in Lines : DeleteRoute(l)
    BY <1>8, DeleteStep
  <1>9. CASE NothingToUndo \/ UndoExpired
    BY <1>9 DEF NothingToUndo, UndoExpired, Refuse, IInv
  <1>10. CASE UndoLastBuild
    BY <1>10, UndoStep
  <1> QED BY <1>1, <1>2, <1>3, <1>4, <1>5, <1>6, <1>7, <1>8, <1>9, <1>10 DEF Player

LEMMA StepIInv == IInv /\ [Next]_vars => IInv'
PROOF
  <1> SUFFICES ASSUME IInv, [Next]_vars PROVE IInv'
    OBVIOUS
  <1>1. CASE Player
    BY <1>1, PlayerStep
  <1>2. CASE SnapshotForSave \/ UNCHANGED vars
    BY <1>2 DEF SnapshotForSave, vars, IInv
  <1>3. CASE Reset
    BY <1>3, NewCityFollows DEF Reset, IInv
  <1>4. CASE \E fare \in 0..MaxFare : Tick(fare)
    BY <1>4, TickStep
  <1> QED BY <1>1, <1>2, <1>3, <1>4 DEF Next

LEMMA Invariance == Spec => []IInv
PROOF
  BY InitIInv, StepIInv, PTL DEF Spec

\* What a line says of itself is what the network says, on every map and after every
\* sequence of builds, demolitions, undos and ticks.
THEOREM LinesAlwaysFollowRoads == Spec => []LinesFollowRoads
PROOF
  <1>1. IInv => LinesFollowRoads
    BY DEF IInv, FollowRoads, LinesFollowRoads
  <1> QED BY <1>1, Invariance, PTL

\* Nothing but undo is answered as a conflict, as expired or as undone.
LEMMA AnsweredByUndo ==
  ASSUME Next, answer' # "other"
  PROVE  UndoLastBuild \/ UndoExpired
PROOF
  <1>1. \A next : ~Apply(next)
    BY DEF Apply
  <1>2. ~\E stroke, preset : LayRoadLine(stroke, preset)
    BY <1>1 DEF LayRoadLine, ApplyBuild
  <1>3. ~\E t : LayRoad(t) \/ CycleRoadDirection(t)
    BY <1>1 DEF LayRoad, CycleRoadDirection, ApplyBuild
  <1>4. ~\E area, tiles : RemoveAtTiles(tiles) \/ PaintAreaRectangle(area, tiles)
    BY <1>1 DEF RemoveAtTiles, PaintAreaRectangle, ApplyBuild
  <1>5. ~\E n : AddBusStop(n)
    BY <1>1 DEF AddBusStop, ApplyBuild
  <1>6. ~PlaceBuilding
    BY <1>1 DEF PlaceBuilding, PlaceZonedBuilding, PlaceBusTerminal, ApplyBuild
  <1>7. ~\E l, s : CreateRoute(l) \/ DeleteRoute(l) \/ SetRouteActive(l, s)
    BY <1>1 DEF CreateRoute, DeleteRoute, SetRouteActive, ApplyOther
  <1>8. ~\E l, count : BuyVehicles(l, count)
    BY <1>1 DEF BuyVehicles, ApplyOther
  <1>9. ~\E l : \/ DeployInitialFleet(l) \/ AssignVehicle(l) \/ AddServiceVehicle(l)
               \/ RetireServiceVehicle(l)
    BY <1>1, <1>8
    DEF DeployInitialFleet, AssignVehicle, AddServiceVehicle, RetireServiceVehicle, ApplyOther
  <1>10. ~NothingToUndo /\ ~SnapshotForSave /\ ~Reset /\ ~\E fare : Tick(fare)
    BY DEF NothingToUndo, SnapshotForSave, Reset, Tick, Refuse
  <1>11. Player
    BY <1>10 DEF Next
  <1> QED BY <1>2, <1>3, <1>4, <1>5, <1>6, <1>7, <1>9, <1>10, <1>11 DEF Player

\* Only an undo that goes through is answered as one.
LEMMA UndoneByUndo ==
  ASSUME Next, answer' = "undone"
  PROVE  UndoLastBuild
PROOF
  BY AnsweredByUndo DEF UndoExpired, Refuse

\* An undo that would break a connected line is refused, whatever was built, demolished
\* or painted since the build it takes back.
THEOREM UndoNeverBreaksALine == Spec => UndoBreaksNoLine
PROOF
  <1>1. ASSUME IInv, [Next]_vars, vars' # vars, answer' = "undone",
               NEW l \in Lines, Exists(city, l), Connected(city, l)
        PROVE  Connected(city', l)
    <2>1. UndoLastBuild
      BY <1>1, UndoneByUndo DEF vars
    <2>2. CASE city' = city
      BY <1>1, <2>2 DEF Connected, Drivable
    <2>3. CASE city' # city
      <3>1. PICK c : Candidate(c) /\ city' = Recomputed(c) /\ ~NewlyBroken(city, city')
        BY <1>1, <2>1, <2>3, UndoCandidate
      <3>2. CityShape(city') /\ FollowRoads(city')
        BY <1>1, <3>1, CandidateCommitted
      <3>3. ~city.lines[l].broken
        BY <1>1 DEF IInv, FollowRoads
      <3>4. ~city'.lines[l].broken
        BY <1>1, <3>1, <3>3 DEF NewlyBroken
      <3>5. Exists(city', l)
        <4>1. c.lines = city.lines
          BY <3>1 DEF Candidate
        <4>2. city'.lines[l] = IF Exists(c, l) THEN [c.lines[l] EXCEPT !.broken = ~Connected(c, l)]
                               ELSE c.lines[l]
          BY <3>1 DEF Candidate, Recomputed
        <4>3. city'.lines[l].status = city.lines[l].status
          <5>1. city.lines[l] \in LineRecords
            BY <1>1 DEF IInv, CityShape
          <5> QED BY <4>1, <4>2, <5>1 DEF LineRecords
        <4> QED BY <1>1, <4>3 DEF Exists
      <3> QED BY <3>2, <3>4, <3>5 DEF FollowRoads
    <2> QED BY <2>2, <2>3
  <1>2. IInv /\ [Next]_vars =>
          [answer' = "undone" =>
             \A l \in Lines : Exists(city, l) /\ Connected(city, l) => Connected(city', l)]_vars
    BY <1>1 DEF vars
  <1> QED BY <1>2, Invariance, PTL DEF Spec, UndoBreaksNoLine

-----------------------------------------------------------------------------
(* Counting up: the smallest counterexample is reached from the one before. *)

\* A set of naturals that is not empty has a smallest member.
LEMMA LeastNumber ==
  ASSUME NEW T \in SUBSET Nat, T # {}
  PROVE  \E x \in T : \A y \in T : x <= y
PROOF
  <1>1. PICK x \in T : \A y \in T : <<y, x>> \notin OpToRel(<, Nat)
    BY NatLessThanWellFounded, WFMin
  <1>2. ASSUME NEW y \in T
        PROVE  x <= y
    <2>1. <<y, x>> \in Nat \X Nat
      OBVIOUS
    <2>2. ~(y < x)
      BY <1>1, <2>1 DEF OpToRel
    <2> QED BY <2>2
  <1> QED BY <1>2

\* What holds of 0, and of each number if it holds of the one before, holds up to n.
LEMMA UpTo ==
  ASSUME NEW n \in Nat, NEW T, 0 \in T, \A i \in 1..n : i - 1 \in T => i \in T
  PROVE  \A i \in 0..n : i \in T
PROOF
  <1> DEFINE U == {i \in 0..n : i \notin T}
  <1>1. CASE U = {}
    BY <1>1
  <1>2. CASE U # {}
    <2>1. U \in SUBSET Nat
      OBVIOUS
    <2>2. PICK x \in U : \A y \in U : x <= y
      BY <1>2, <2>1, LeastNumber
    <2>3. x # 0 /\ x \in 1..n
      OBVIOUS
    <2>4. x - 1 \in 0..n /\ ~(x <= x - 1)
      BY <2>3
    <2>5. x - 1 \in T
      BY <2>2, <2>4
    <2> QED BY <2>3, <2>5
  <1> QED BY <1>1, <1>2

-----------------------------------------------------------------------------
(* A stroke, tile by tile, and growth, node by node.                        *)

\* The cities a stroke goes through.
LaidAlong(c, stroke, preset, n, g) ==
  g = [i \in 0..n |-> IF i = 0 THEN c ELSE RoadTileLaid(g[i - 1], stroke[i], preset)]

LEMMA StrokeIsLaid ==
  ASSUME NEW c, NEW stroke, NEW preset, NEW n \in Nat
  PROVE  \E g : LaidAlong(c, stroke, preset, n, g)
PROOF
  <1> DEFINE T == {m \in 0..n : \E g : LaidAlong(c, stroke, preset, m, g)}
  <1>1. 0 \in T
    <2>1. LaidAlong(c, stroke, preset, 0, [i \in 0..0 |-> c])
      BY DEF LaidAlong
    <2> QED BY <2>1
  <1>2. ASSUME NEW m \in 1..n, m - 1 \in T
        PROVE  m \in T
    <2>1. PICK g : LaidAlong(c, stroke, preset, m - 1, g)
      BY <1>2
    <2> DEFINE h == [i \in 0..m |-> IF i = m THEN RoadTileLaid(g[m - 1], stroke[m], preset) ELSE g[i]]
    <2>2. h[m] = RoadTileLaid(g[m - 1], stroke[m], preset) /\ \A i \in 0..m : i # m => h[i] = g[i]
      OBVIOUS
    <2>3. /\ \A i \in 0..(m - 1) :
                g[i] = IF i = 0 THEN c ELSE RoadTileLaid(g[i - 1], stroke[i], preset)
          /\ m - 1 # m
      BY <2>1 DEF LaidAlong
    <2>4. ASSUME NEW i \in 0..m
          PROVE  h[i] = IF i = 0 THEN c ELSE RoadTileLaid(h[i - 1], stroke[i], preset)
      <3>0. /\ i # m => i \in 0..(m - 1)
            /\ i # 0 => i - 1 \in 0..m /\ i - 1 # m
            /\ m # 0 /\ m - 1 \in 0..m /\ m - 1 # m
        OBVIOUS
      <3> HIDE DEF h
      <3>1. CASE i = m
        BY <2>2, <3>0, <3>1
      <3>2. CASE i # m
        BY <2>2, <2>3, <3>0, <3>2
      <3> QED BY <3>1, <3>2
    <2>5. h = [i \in 0..m |-> h[i]]
      OBVIOUS
    <2>6. LaidAlong(c, stroke, preset, m, h)
      <3> HIDE DEF h
      <3>1. [i \in 0..m |-> h[i]] =
              [i \in 0..m |-> IF i = 0 THEN c ELSE RoadTileLaid(h[i - 1], stroke[i], preset)]
        BY <2>4
      <3> QED BY <2>5, <3>1 DEF LaidAlong
    <2> QED BY <2>6
  <1> HIDE DEF T
  <1>3. \A i \in 0..n : i \in T
    BY <1>1, <1>2, UpTo
  <1> QED BY <1>3 DEF T

\* What has grown, node by node.
GrownAlong(c, n, g) ==
  g = [i \in 0..n |->
         IF i = 0 THEN c
         ELSE IF ServedNode(c, NodeOrder[i]) THEN Developed(g[i - 1], NodeOrder[i]) ELSE g[i - 1]]

LEMMA GrowthIsDone ==
  ASSUME NEW c, NEW n \in Nat
  PROVE  \E g : GrownAlong(c, n, g)
PROOF
  <1> DEFINE Next1(v, i) == IF ServedNode(c, NodeOrder[i]) THEN Developed(v, NodeOrder[i]) ELSE v
             T == {m \in 0..n : \E g : GrownAlong(c, m, g)}
  <1>1. 0 \in T
    <2>1. GrownAlong(c, 0, [i \in 0..0 |-> c])
      BY DEF GrownAlong
    <2> QED BY <2>1
  <1>2. ASSUME NEW m \in 1..n, m - 1 \in T
        PROVE  m \in T
    <2>1. PICK g : GrownAlong(c, m - 1, g)
      BY <1>2
    <2> DEFINE h == [i \in 0..m |-> IF i = m THEN Next1(g[m - 1], m) ELSE g[i]]
    <2>2. h[m] = Next1(g[m - 1], m) /\ \A i \in 0..m : i # m => h[i] = g[i]
      <3> HIDE DEF Next1
      <3> QED OBVIOUS
    <2>3. /\ \A i \in 0..(m - 1) : g[i] = IF i = 0 THEN c ELSE Next1(g[i - 1], i)
          /\ m - 1 # m
      BY <2>1 DEF GrownAlong
    <2>5. h = [i \in 0..m |-> h[i]]
      OBVIOUS
    <2> HIDE DEF h, Next1
    <2>4. ASSUME NEW i \in 0..m
          PROVE  h[i] = IF i = 0 THEN c ELSE Next1(h[i - 1], i)
      <3>0. /\ i # m => i \in 0..(m - 1)
            /\ i # 0 => i - 1 \in 0..m /\ i - 1 # m
            /\ m # 0 /\ m - 1 \in 0..m /\ m - 1 # m
        OBVIOUS
      <3>1. CASE i = m
        BY <2>2, <3>0, <3>1
      <3>2. CASE i # m
        BY <2>2, <2>3, <3>0, <3>2
      <3> QED BY <3>1, <3>2
    <2>6. GrownAlong(c, m, h)
      <3>1. [i \in 0..m |-> h[i]] = [i \in 0..m |-> IF i = 0 THEN c ELSE Next1(h[i - 1], i)]
        BY <2>4
      <3> QED BY <2>5, <3>1 DEF GrownAlong, Next1
    <2> QED BY <2>6
  <1> HIDE DEF T
  <1>3. \A i \in 0..n : i \in T
    BY <1>1, <1>2, UpTo
  <1> QED BY <1>3 DEF T

\* A city has the fields of GameSnapshot and no others.
IsCity(c) ==
  c = [roads |-> c.roads, zone |-> c.zone, nodes |-> c.nodes,
       buildings |-> c.buildings, lines |-> c.lines, budget |-> c.budget]

-----------------------------------------------------------------------------
(* What stands where, and what a build can be taken back to.                *)

RoadValues == Headings \cup {"both", None}
Zones == {"residential", "commercial", None}

\* The rest of the type of a city.
CityTypes(c) ==
  /\ c.roads \in [Tiles -> RoadValues] /\ c.zone \in [Tiles -> Zones]
  /\ c.buildings \in [Tiles -> BuildingTypes \cup {None}]

\* BuildingsKeepTheirZone of any city.
KeepZone(c) ==
  \A t \in Tiles : HasBuilding(c, t) =>
    /\ c.roads[t] = None
    /\ c.buildings[t] \in GrownTypes => c.zone[t] = ZoneOf[c.buildings[t]]

Stops(c) == {n \in Nodes : c.nodes[n] = "present"}

\* Since the build nothing has moved but the lines, and what has grown on bare land.
SinceTheBuild(c, b) ==
  /\ c.roads = b.after.roads /\ c.zone = b.after.zone /\ Stops(c) = b.after.stops
  /\ \A t \in Tiles : b.after.buildings[t] # None => c.buildings[t] = b.after.buildings[t]

\* A change of the map is taken back with the map it was made to, and took no road away.
MapChanged(b, inverse) ==
  /\ inverse.kind = "restoreMap"
  /\ inverse.roads = b.before.roads /\ inverse.zone = b.before.zone
  /\ inverse.roads \in [Tiles -> RoadValues] /\ inverse.zone \in [Tiles -> Zones]
  /\ b.before.stops = b.after.stops /\ b.before.buildings = b.after.buildings
  /\ \A t \in Tiles : b.before.roads[t] # None => b.after.roads[t] # None

\* What was placed stands on one tile, which was bare and has held nothing else since.
SitePlaced(c, b, inverse) ==
  /\ inverse.kind = "demolish" /\ inverse.tile \in Tiles
  /\ b.before.roads = b.after.roads /\ b.before.zone = b.after.zone
  /\ c.roads[inverse.tile] = None
  /\ b.before.buildings = [b.after.buildings EXCEPT ![inverse.tile] = None]
  /\ b.before.stops = {n \in b.after.stops : NodeAt[n] # inverse.tile}
  /\ c.buildings[inverse.tile] = b.after.buildings[inverse.tile]
  /\ b.after.buildings[inverse.tile] # None \/ \E n \in b.after.stops : NodeAt[n] = inverse.tile

\* The record undo works from tells what the build changed, and for how much.
Recorded(c, last, b) ==
  /\ last = [age |-> last.age, refund |-> b.paid, inverse |-> last.inverse]
  /\ b.after.buildings \in [Tiles -> BuildingTypes \cup {None}]
  /\ SinceTheBuild(c, b)
  /\ MapChanged(b, last.inverse) \/ SitePlaced(c, b, last.inverse)

RecordInv == lastBuild # None => \E b \in built : Recorded(city, lastBuild, b)

ZoneInv == CityTypes(city) /\ KeepZone(city) /\ RecordInv

\* A stroke lays roads where there was one, or no building.
RoadsLaid(c, d) ==
  /\ IsCity(d) /\ d.zone = c.zone /\ d.nodes = c.nodes /\ d.buildings = c.buildings /\ d.lines = c.lines
  /\ d.roads \in [Tiles -> RoadValues]
  /\ \A t \in Tiles : /\ c.roads[t] # None => d.roads[t] # None
                      /\ d.roads[t] # None => c.roads[t] # None \/ ~HasBuilding(c, t)

LEMMA PresetsAreRoads == Headings \cup {"both"} \subseteq RoadValues /\ None \notin Headings \cup {"both"}
PROOF
  BY NoneIsNoStatus DEF RoadValues

LEMMA RoadTileIsLaid ==
  ASSUME NEW c, NEW d, RoadsLaid(c, d), NEW t \in Tiles, NEW preset \in Headings \cup {"both"}
  PROVE  RoadsLaid(c, RoadTileLaid(d, t, preset))
PROOF
  <1> DEFINE e == [d EXCEPT !.roads[t] = preset]
             r == [d.roads EXCEPT ![t] = preset]
  <1>1. preset \in RoadValues /\ preset # None
    BY PresetsAreRoads
  <1>2. e = [roads |-> r, zone |-> d.zone, nodes |-> d.nodes,
             buildings |-> d.buildings, lines |-> d.lines, budget |-> d.budget]
    BY DEF RoadsLaid, IsCity
  <1>3. r \in [Tiles -> RoadValues] /\ r[t] = preset /\ \A u \in Tiles : u # t => r[u] = d.roads[u]
    BY <1>1 DEF RoadsLaid
  <1> HIDE DEF e, r
  <1>4. ASSUME NEW x, NEW money,
               x = [roads |-> r, zone |-> d.zone, nodes |-> d.nodes,
                    buildings |-> d.buildings, lines |-> d.lines, budget |-> money],
               d.roads[t] # None \/ ~HasBuilding(d, t)
        PROVE  RoadsLaid(c, x)
    <2>1. /\ IsCity(x) /\ x.roads = r /\ x.zone = c.zone /\ x.nodes = c.nodes
          /\ x.buildings = c.buildings /\ x.lines = c.lines
      BY <1>4 DEF IsCity, RoadsLaid
    <2>2. d.buildings = c.buildings
      BY DEF RoadsLaid
    <2>3. c.roads[t] # None \/ ~HasBuilding(c, t)
      BY <1>4, <2>2 DEF RoadsLaid, HasBuilding
    <2>4. ASSUME NEW u \in Tiles
          PROVE  /\ c.roads[u] # None => r[u] # None
                 /\ r[u] # None => c.roads[u] # None \/ ~HasBuilding(c, u)
      BY <1>1, <1>3, <2>3 DEF RoadsLaid
    <2> QED BY <1>3, <2>1, <2>4 DEF RoadsLaid
  <1>5. CASE d.roads[t] # None
    <2>0. ~Bare(d, t)
      BY <1>5 DEF Bare
    <2>1. RoadTileLaid(d, t, preset) = e
      BY <1>5, <2>0 DEF RoadTileLaid, e
    <2> QED BY <1>2, <1>4, <1>5, <2>1
  <1>6. CASE d.roads[t] = None /\ Bare(d, t) /\ CanPay(d, Price["road"])
    <2>1. RoadTileLaid(d, t, preset) = Paid(e, Price["road"])
      BY <1>6 DEF RoadTileLaid, e
    <2>2. Paid(e, Price["road"]) =
            [roads |-> r, zone |-> d.zone, nodes |-> d.nodes, buildings |-> d.buildings,
             lines |-> d.lines, budget |-> d.budget - Charge(Price["road"])]
      BY <1>2, PaidCity
    <2>3. ~HasBuilding(d, t)
      BY <1>6 DEF Bare
    <2> QED BY <1>4, <2>1, <2>2, <2>3
  <1>7. CASE d.roads[t] = None /\ ~(Bare(d, t) /\ CanPay(d, Price["road"]))
    BY <1>7 DEF RoadTileLaid
  <1> QED BY <1>5, <1>6, <1>7

LEMMA StrokeLaysRoads ==
  ASSUME NEW c, IsCity(c), CityTypes(c), NEW stroke \in Seq(Tiles), NEW preset \in Headings \cup {"both"}
  PROVE  RoadsLaid(c, RoadLineLaid(c, stroke, preset))
PROOF
  <1> DEFINE n == Len(stroke)
             laid == CHOOSE g : g = [i \in 0..Len(stroke) |->
                                       IF i = 0 THEN c ELSE RoadTileLaid(g[i - 1], stroke[i], preset)]
             T == {i \in 0..n : RoadsLaid(c, laid[i])}
  <1>1. n \in Nat /\ \A i \in 1..n : stroke[i] \in Tiles
    OBVIOUS
  <1>2. laid = [i \in 0..n |-> IF i = 0 THEN c ELSE RoadTileLaid(laid[i - 1], stroke[i], preset)]
    <2>1. PICK g : LaidAlong(c, stroke, preset, n, g)
      BY <1>1, StrokeIsLaid
    <2> QED BY <2>1 DEF LaidAlong
  <1>3. RoadLineLaid(c, stroke, preset) = [c EXCEPT !.roads = laid[n].roads, !.budget = laid[n].budget]
    BY DEF RoadLineLaid
  <1> HIDE DEF laid, n
  <1>4. laid[0] = c /\ \A i \in 1..n : laid[i] = RoadTileLaid(laid[i - 1], stroke[i], preset)
    BY <1>1, <1>2
  <1>5. RoadsLaid(c, c)
    BY DEF RoadsLaid, CityTypes
  <1>6. 0 \in T
    BY <1>1, <1>4, <1>5
  <1>7. ASSUME NEW i \in 1..n, i - 1 \in T
        PROVE  i \in T
    BY <1>1, <1>4, <1>7, RoadTileIsLaid
  <1> HIDE DEF T
  <1>8. n \in T
    <2>1. \A i \in 0..n : i \in T
      BY <1>1, <1>6, <1>7, UpTo
    <2> QED BY <1>1, <2>1
  <1>9. RoadsLaid(c, laid[n])
    BY <1>8 DEF T
  <1>10. RoadLineLaid(c, stroke, preset) = laid[n]
    BY <1>3, <1>9 DEF RoadsLaid, IsCity
  <1> QED BY <1>9, <1>10

\* Growth adds houses and shops on bare land of their zone.
Grew(c, d) ==
  /\ IsCity(d) /\ d.roads = c.roads /\ d.zone = c.zone /\ d.nodes = c.nodes /\ d.lines = c.lines
  /\ d.buildings \in [Tiles -> BuildingTypes \cup {None}]
  /\ \A t \in Tiles :
       /\ HasBuilding(c, t) => d.buildings[t] = c.buildings[t]
       /\ ~HasBuilding(c, t) /\ HasBuilding(d, t) =>
            /\ Bare(c, t) /\ d.buildings[t] \in GrownTypes
            /\ c.zone[t] = ZoneOf[d.buildings[t]]

LEMMA NodeDevelops ==
  ASSUME NEW c, NEW d, Grew(c, d), NEW n \in Nodes
  PROVE  Grew(c, Developed(d, n))
PROOF
  <1> DEFINE type == TypeWanted(d)
             sites == {i \in 1..Len(Coverage[n]) : CanPlaceBuilding(d, Coverage[n][i], type)}
  <1>1. type \in GrownTypes /\ type \in BuildingTypes /\ type # None
    BY NoneIsNoStatus DEF TypeWanted, GrownTypes, ZoneOf, BuildingTypes
  <1>2. CASE sites = {}
    BY <1>2 DEF Developed
  <1>3. CASE sites # {}
    <2> DEFINE t == Coverage[n][Min(sites)]
               b == [d.buildings EXCEPT ![t] = type]
               e == Developed(d, n)
    <2>1. Min(sites) \in sites
      <3>1. sites \in SUBSET Nat
        OBVIOUS
      <3>2. \E x \in sites : \A y \in sites : x <= y
        BY <1>3, <3>1, LeastNumber
      <3> HIDE DEF sites
      <3> QED BY <3>2 DEF Min
    <2>2. \A i \in 1..Len(Coverage[n]) : Coverage[n][i] \in Tiles
      BY EconomyAssumption DEF EconomyAssumption
    <2>3. t \in Tiles /\ CanPlaceBuilding(d, t, type)
      <3>1. Min(sites) \in 1..Len(Coverage[n]) /\ CanPlaceBuilding(d, Coverage[n][Min(sites)], type)
        BY <2>1
      <3> HIDE DEF sites, type
      <3> QED BY <2>2, <3>1
    <2>4. e = BuildingPlaced(d, t, type)
      BY <1>3 DEF Developed
    <2> HIDE DEF t, sites, type, e
    <2>5. e = [roads |-> d.roads, zone |-> d.zone, nodes |-> d.nodes,
               buildings |-> b, lines |-> d.lines, budget |-> d.budget]
      BY <2>4 DEF BuildingPlaced, Grew, IsCity
    <2>6. /\ b \in [Tiles -> BuildingTypes \cup {None}] /\ b[t] = type
          /\ \A u \in Tiles : u # t => b[u] = d.buildings[u]
      BY <1>1, <2>3 DEF Grew
    <2> HIDE DEF b
    <2>7. /\ IsCity(e) /\ e.buildings = b /\ e.roads = c.roads /\ e.zone = c.zone
          /\ e.nodes = c.nodes /\ e.lines = c.lines
      BY <2>5 DEF IsCity, Grew
    <2>8. Bare(d, t) /\ d.zone[t] = ZoneOf[type]
      BY <1>1, <2>3 DEF CanPlaceBuilding
    <2>9. ~HasBuilding(c, t)
      BY <2>3, <2>8 DEF Bare, HasBuilding, Grew
    <2>10. Bare(c, t) /\ c.zone[t] = ZoneOf[type]
      BY <2>8, <2>9 DEF Bare, NodesAt, Grew
    <2>11. ASSUME NEW u \in Tiles
           PROVE  /\ HasBuilding(c, u) => b[u] = c.buildings[u]
                  /\ ~HasBuilding(c, u) /\ b[u] # None =>
                        Bare(c, u) /\ b[u] \in GrownTypes /\ c.zone[u] = ZoneOf[b[u]]
      <3>1. CASE u = t
        BY <1>1, <2>6, <2>9, <2>10, <3>1
      <3>2. CASE u # t
        BY <2>6, <3>2 DEF Grew, HasBuilding
      <3> QED BY <3>1, <3>2
    <2>12. Grew(c, e)
      BY <2>6, <2>7, <2>11 DEF Grew, HasBuilding
    <2> QED BY <2>12 DEF e
  <1> QED BY <1>2, <1>3

LEMMA CityGrows ==
  ASSUME NEW c, IsCity(c), CityTypes(c)
  PROVE  Grew(c, Grown(c))
PROOF
  <1> DEFINE n == Len(NodeOrder)
             after == CHOOSE g : g = [i \in 0..Len(NodeOrder) |->
                        IF i = 0 THEN c
                        ELSE IF ServedNode(c, NodeOrder[i]) THEN Developed(g[i - 1], NodeOrder[i])
                             ELSE g[i - 1]]
             T == {i \in 0..n : Grew(c, after[i])}
  <1>1. n \in Nat /\ \A i \in 1..n : NodeOrder[i] \in Nodes
    BY EconomyAssumption DEF EconomyAssumption
  <1>2. after = [i \in 0..n |->
                   IF i = 0 THEN c
                   ELSE IF ServedNode(c, NodeOrder[i]) THEN Developed(after[i - 1], NodeOrder[i])
                        ELSE after[i - 1]]
    <2>1. PICK g : GrownAlong(c, n, g)
      BY <1>1, GrowthIsDone
    <2> QED BY <2>1 DEF GrownAlong
  <1>3. Grown(c) = [c EXCEPT !.buildings = after[n].buildings]
    BY DEF Grown
  <1> HIDE DEF after, n
  <1>4. after[0] = c /\ \A i \in 1..n : \/ after[i] = Developed(after[i - 1], NodeOrder[i])
                                        \/ after[i] = after[i - 1]
    BY <1>1, <1>2
  <1>5. Grew(c, c)
    BY DEF Grew, CityTypes
  <1>6. 0 \in T
    BY <1>1, <1>4, <1>5
  <1>7. ASSUME NEW i \in 1..n, i - 1 \in T
        PROVE  i \in T
    BY <1>1, <1>4, <1>7, NodeDevelops
  <1> HIDE DEF T
  <1>8. n \in T
    BY <1>1, <1>6, <1>7, UpTo
  <1>9. Grew(c, after[n])
    BY <1>8 DEF T
  <1>10. IsCity(Grown(c)) /\ Grown(c).buildings = after[n].buildings
         /\ Grown(c).roads = c.roads /\ Grown(c).zone = c.zone /\ Grown(c).nodes = c.nodes
         /\ Grown(c).lines = c.lines
    BY <1>3 DEF IsCity
  <1> QED BY <1>9, <1>10 DEF Grew, HasBuilding

-----------------------------------------------------------------------------
(* The builds, and what undo remembers of them.                             *)

LEMMA RecomputedKeeps ==
  ASSUME NEW c, IsCity(c)
  PROVE  /\ Recomputed(c).roads = c.roads /\ Recomputed(c).zone = c.zone
         /\ Recomputed(c).nodes = c.nodes /\ Recomputed(c).buildings = c.buildings
         /\ Recomputed(c).budget = c.budget
PROOF
  BY DEF IsCity, Recomputed

\* A change of the map leaves buildings and stops where they are, and takes no road.
MapOf(c, d) ==
  /\ d.nodes = c.nodes /\ d.buildings = c.buildings
  /\ d.roads \in [Tiles -> RoadValues] /\ d.zone \in [Tiles -> Zones]
  /\ \A t \in Tiles : c.roads[t] # None => d.roads[t] # None

LEMMA MapBuilt ==
  ASSUME ZoneInv, MapOf(city, city'), KeepZone(city'), NoteBuild(RestoreMap)
  PROVE  ZoneInv'
PROOF
  <1> DEFINE b == [before |-> View(city), after |-> View(city'), paid |-> city.budget - city'.budget]
  <1>1. /\ built' = {b}
        /\ lastBuild' = [age |-> 0, refund |-> city.budget - city'.budget, inverse |-> RestoreMap]
    BY DEF NoteBuild
  <1>2. /\ b.before.roads = city.roads /\ b.before.zone = city.zone
        /\ b.before.buildings = city.buildings /\ b.before.stops = Stops(city)
        /\ b.after.roads = city'.roads /\ b.after.zone = city'.zone
        /\ b.after.buildings = city'.buildings /\ b.after.stops = Stops(city')
        /\ b.paid = city.budget - city'.budget
    BY DEF View, Stops
  <1>3. /\ lastBuild'.inverse = RestoreMap /\ lastBuild'.refund = b.paid
        /\ lastBuild' = [age |-> lastBuild'.age, refund |-> b.paid, inverse |-> lastBuild'.inverse]
    BY <1>1, <1>2
  <1>4. RestoreMap.kind = "restoreMap" /\ RestoreMap.roads = city.roads /\ RestoreMap.zone = city.zone
    BY DEF RestoreMap
  <1> HIDE DEF b
  <1>5. CityTypes(city')
    BY DEF MapOf, ZoneInv, CityTypes
  <1>6. Stops(city') = Stops(city)
    BY DEF MapOf, Stops
  <1>7. MapChanged(b, RestoreMap)
    BY <1>2, <1>4, <1>6 DEF MapChanged, MapOf, ZoneInv, CityTypes
  <1>8. SinceTheBuild(city', b)
    BY <1>2 DEF SinceTheBuild
  <1>9. Recorded(city', lastBuild', b)
    BY <1>2, <1>3, <1>5, <1>7, <1>8 DEF Recorded, CityTypes
  <1> QED BY <1>1, <1>5, <1>9 DEF ZoneInv, RecordInv

\* A building or a node comes to stand on one bare tile.
SiteOf(c, d, t) ==
  /\ d.roads = c.roads /\ d.zone = c.zone
  /\ d.buildings \in [Tiles -> BuildingTypes \cup {None}]
  /\ \A u \in Tiles : u # t => d.buildings[u] = c.buildings[u]
  /\ \A n \in Nodes : NodeAt[n] # t => d.nodes[n] = c.nodes[n]
  /\ HasBuilding(d, t) \/ NodesAt(d, t) # {}
  /\ d.buildings[t] \in GrownTypes => d.zone[t] = ZoneOf[d.buildings[t]]

LEMMA SiteBuilt ==
  ASSUME ZoneInv, NEW t \in Tiles, Bare(city, t), SiteOf(city, city', t), NoteBuild(DemolishAt(t))
  PROVE  ZoneInv'
PROOF
  <1> DEFINE b == [before |-> View(city), after |-> View(city'), paid |-> city.budget - city'.budget]
  <1>1. /\ built' = {b}
        /\ lastBuild' = [age |-> 0, refund |-> city.budget - city'.budget, inverse |-> DemolishAt(t)]
    BY DEF NoteBuild
  <1>2. /\ b.before.roads = city.roads /\ b.before.zone = city.zone
        /\ b.before.buildings = city.buildings /\ b.before.stops = Stops(city)
        /\ b.after.roads = city'.roads /\ b.after.zone = city'.zone
        /\ b.after.buildings = city'.buildings /\ b.after.stops = Stops(city')
        /\ b.paid = city.budget - city'.budget
    BY DEF View, Stops
  <1>3. /\ lastBuild'.inverse = DemolishAt(t) /\ lastBuild'.refund = b.paid
        /\ lastBuild' = [age |-> lastBuild'.age, refund |-> b.paid, inverse |-> lastBuild'.inverse]
    BY <1>1, <1>2
  <1>4. DemolishAt(t).kind = "demolish" /\ DemolishAt(t).tile = t
    BY DEF DemolishAt
  <1> HIDE DEF b
  <1>5. CityTypes(city')
    BY DEF SiteOf, ZoneInv, CityTypes
  <1>6. city.roads[t] = None /\ city.buildings[t] = None /\ NodesAt(city, t) = {}
    BY DEF Bare, HasBuilding
  <1>7. KeepZone(city')
    <2>1. ASSUME NEW u \in Tiles, HasBuilding(city', u)
          PROVE  /\ city'.roads[u] = None
                 /\ city'.buildings[u] \in GrownTypes => city'.zone[u] = ZoneOf[city'.buildings[u]]
      <3>1. CASE u = t
        BY <1>6, <3>1 DEF SiteOf
      <3>2. CASE u # t
        BY <2>1, <3>2 DEF SiteOf, ZoneInv, KeepZone, HasBuilding
      <3> QED BY <3>1, <3>2
    <2> QED BY <2>1 DEF KeepZone
  <1>8. city.buildings = [city'.buildings EXCEPT ![t] = None]
    BY <1>6 DEF SiteOf, ZoneInv, CityTypes
  <1>9. Stops(city) = {n \in Stops(city') : NodeAt[n] # t}
    BY <1>6 DEF SiteOf, Stops, NodesAt
  <1>10. city'.buildings[t] # None \/ \E n \in Stops(city') : NodeAt[n] = t
    BY DEF SiteOf, HasBuilding, NodesAt, Stops
  <1>11. SitePlaced(city', b, DemolishAt(t))
    BY <1>2, <1>4, <1>6, <1>8, <1>9, <1>10 DEF SitePlaced, SiteOf
  <1>12. SinceTheBuild(city', b)
    BY <1>2 DEF SinceTheBuild
  <1>13. Recorded(city', lastBuild', b)
    BY <1>2, <1>3, <1>5, <1>11, <1>12 DEF Recorded, CityTypes
  <1> QED BY <1>1, <1>5, <1>7, <1>13 DEF ZoneInv, RecordInv

\* Nothing moves but the lines, and houses and shops grow: the record stays.
SameSites(c, d) ==
  /\ d.roads = c.roads /\ d.zone = c.zone /\ Stops(d) = Stops(c)
  /\ d.buildings \in [Tiles -> BuildingTypes \cup {None}]
  /\ \A t \in Tiles :
       /\ HasBuilding(c, t) => d.buildings[t] = c.buildings[t]
       /\ ~HasBuilding(c, t) /\ HasBuilding(d, t) =>
            /\ Bare(c, t) /\ d.buildings[t] \in GrownTypes
            /\ c.zone[t] = ZoneOf[d.buildings[t]]

LEMMA RecordKept ==
  ASSUME ZoneInv, SameSites(city, city'), built' = built,
         \/ lastBuild' = lastBuild
         \/ lastBuild # None /\ \E age : lastBuild' = [lastBuild EXCEPT !.age = age]
  PROVE  ZoneInv'
PROOF
  <1>1. CityTypes(city')
    BY DEF SameSites, ZoneInv, CityTypes
  <1>2. KeepZone(city')
    <2>1. ASSUME NEW t \in Tiles, HasBuilding(city', t)
          PROVE  /\ city'.roads[t] = None
                 /\ city'.buildings[t] \in GrownTypes => city'.zone[t] = ZoneOf[city'.buildings[t]]
      <3>1. CASE HasBuilding(city, t)
        BY <3>1 DEF SameSites, ZoneInv, KeepZone
      <3>2. CASE ~HasBuilding(city, t)
        BY <2>1, <3>2 DEF SameSites, Bare
      <3> QED BY <3>1, <3>2
    <2> QED BY <2>1 DEF KeepZone
  <1>3. ASSUME NEW b \in built, Recorded(city, lastBuild, b)
        PROVE  Recorded(city', lastBuild', b)
    <2>1. lastBuild = [age |-> lastBuild.age, refund |-> b.paid, inverse |-> lastBuild.inverse]
      BY <1>3 DEF Recorded
    <2>2. /\ lastBuild' = [age |-> lastBuild'.age, refund |-> b.paid, inverse |-> lastBuild'.inverse]
          /\ lastBuild'.inverse = lastBuild.inverse
      BY <2>1
    <2>3. SinceTheBuild(city', b)
      BY <1>3 DEF Recorded, SinceTheBuild, SameSites, HasBuilding
    <2>4. ASSUME NEW inverse, SitePlaced(city, b, inverse)
          PROVE  SitePlaced(city', b, inverse)
      <3> DEFINE t == inverse.tile
      <3>1. t \in Tiles /\ city.roads[t] = None /\ city.buildings[t] = b.after.buildings[t]
        BY <2>4 DEF SitePlaced
      <3>2. b.after.stops = Stops(city)
        BY <1>3 DEF Recorded, SinceTheBuild
      <3>3. city'.buildings[t] = b.after.buildings[t]
        <4>1. CASE HasBuilding(city, t)
          BY <3>1, <4>1 DEF SameSites
        <4>2. CASE ~HasBuilding(city, t)
          <5>1. \E n \in Stops(city) : NodeAt[n] = t
            BY <2>4, <3>1, <3>2, <4>2 DEF SitePlaced, HasBuilding
          <5>2. ~Bare(city, t)
            BY <5>1 DEF Bare, NodesAt, Stops
          <5>3. ~HasBuilding(city', t)
            BY <3>1, <4>2, <5>2 DEF SameSites
          <5> QED BY <3>1, <4>2, <5>3 DEF HasBuilding
        <4> QED BY <4>1, <4>2
      <3>4. city'.roads = city.roads
        BY DEF SameSites
      <3> QED BY <2>4, <3>3, <3>4 DEF SitePlaced
    <2> QED BY <1>3, <2>2, <2>3, <2>4 DEF Recorded
  <1>4. lastBuild' # None => lastBuild # None
    OBVIOUS
  <1> QED BY <1>1, <1>2, <1>3, <1>4 DEF ZoneInv, RecordInv

\* Without a record only the city counts.
LEMMA RecordGone ==
  ASSUME CityTypes(city'), KeepZone(city'), ForgetBuild
  PROVE  ZoneInv'
PROOF
  BY DEF ZoneInv, RecordInv, ForgetBuild

-----------------------------------------------------------------------------
(* One step at a time.                                                      *)

LEMMA LayLineZone ==
  ASSUME IInv, ZoneInv, NEW stroke \in Strokes, NEW preset \in Presets, LayRoadLine(stroke, preset)
  PROVE  ZoneInv'
PROOF
  <1> DEFINE next == RoadLineLaid(city, stroke, preset)
  <1>1. city' = Recomputed(next) /\ NoteBuild(RestoreMap)
    BY DEF LayRoadLine, ApplyBuild, Apply
  <1>2. IsCity(city)
    BY DEF IInv, CityShape, IsCity
  <1>3. stroke \in Seq(Tiles) /\ preset \in Headings \cup {"both"}
    BY EconomyAssumption DEF EconomyAssumption
  <1>4. RoadsLaid(city, next)
    BY <1>2, <1>3, StrokeLaysRoads DEF ZoneInv
  <1> HIDE DEF next
  <1>5. IsCity(next)
    BY <1>4 DEF RoadsLaid
  <1>6. /\ city'.roads = next.roads /\ city'.zone = city.zone
        /\ city'.nodes = city.nodes /\ city'.buildings = city.buildings
    BY <1>1, <1>4, <1>5, RecomputedKeeps DEF RoadsLaid
  <1>7. MapOf(city, city')
    BY <1>4, <1>6 DEF MapOf, RoadsLaid, ZoneInv, CityTypes
  <1>8. KeepZone(city')
    BY <1>4, <1>6 DEF KeepZone, HasBuilding, RoadsLaid, ZoneInv
  <1> QED BY <1>1, <1>7, <1>8, MapBuilt

LEMMA LayRoadZone ==
  ASSUME IInv, ZoneInv, NEW t \in Tiles, LayRoad(t)
  PROVE  ZoneInv'
PROOF
  <1> DEFINE next == Paid([city EXCEPT !.roads[t] = "both"], Price["road"])
             r == [city.roads EXCEPT ![t] = "both"]
  <1>1. city' = Recomputed(next) /\ NoteBuild(RestoreMap) /\ Bare(city, t)
    BY DEF LayRoad, ApplyBuild, Apply
  <1>2. [city EXCEPT !.roads[t] = "both"] =
          [roads |-> r, zone |-> city.zone, nodes |-> city.nodes,
           buildings |-> city.buildings, lines |-> city.lines, budget |-> city.budget]
    BY DEF IInv, CityShape
  <1>3. next = [roads |-> r, zone |-> city.zone, nodes |-> city.nodes, buildings |-> city.buildings,
                lines |-> city.lines, budget |-> city.budget - Charge(Price["road"])]
    BY <1>2, PaidCity
  <1>4. /\ r \in [Tiles -> RoadValues] /\ r[t] # None
        /\ \A u \in Tiles : u # t => r[u] = city.roads[u]
    BY PresetsAreRoads DEF ZoneInv, CityTypes
  <1> HIDE DEF next, r
  <1>5. IsCity(next)
    BY <1>3 DEF IsCity
  <1>6. /\ city'.roads = r /\ city'.zone = city.zone
        /\ city'.nodes = city.nodes /\ city'.buildings = city.buildings
    BY <1>1, <1>3, <1>5, RecomputedKeeps
  <1>7. MapOf(city, city')
    BY <1>4, <1>6 DEF MapOf, ZoneInv, CityTypes
  <1>8. KeepZone(city')
    BY <1>1, <1>4, <1>6 DEF KeepZone, HasBuilding, Bare, ZoneInv
  <1> QED BY <1>1, <1>7, <1>8, MapBuilt

LEMMA CycleZone ==
  ASSUME IInv, ZoneInv, NEW t \in Tiles, CycleRoadDirection(t)
  PROVE  ZoneInv'
PROOF
  <1> DEFINE next == [city EXCEPT !.roads[t] = NextHeading[@]]
             r == [city.roads EXCEPT ![t] = NextHeading[city.roads[t]]]
  <1>1. city' = Recomputed(next) /\ NoteBuild(RestoreMap) /\ city.roads[t] # None
    BY DEF CycleRoadDirection, ApplyBuild, Apply
  <1>2. next = [roads |-> r, zone |-> city.zone, nodes |-> city.nodes, buildings |-> city.buildings,
                lines |-> city.lines, budget |-> city.budget]
    BY DEF IInv, CityShape
  <1>3. city.roads[t] \in Headings \cup {"both"}
    BY <1>1 DEF ZoneInv, CityTypes, RoadValues
  <1>4. NextHeading[city.roads[t]] \in Headings \cup {"both"}
    BY <1>3 DEF NextHeading, Headings
  <1>5. /\ r \in [Tiles -> RoadValues] /\ r[t] # None
        /\ \A u \in Tiles : u # t => r[u] = city.roads[u]
    BY <1>4, PresetsAreRoads DEF ZoneInv, CityTypes
  <1> HIDE DEF next, r
  <1>6. IsCity(next)
    BY <1>2 DEF IsCity
  <1>7. /\ city'.roads = r /\ city'.zone = city.zone
        /\ city'.nodes = city.nodes /\ city'.buildings = city.buildings
    BY <1>1, <1>2, <1>6, RecomputedKeeps
  <1>8. MapOf(city, city')
    BY <1>5, <1>7 DEF MapOf, ZoneInv, CityTypes
  <1>9. KeepZone(city')
    BY <1>1, <1>5, <1>7 DEF KeepZone, HasBuilding, ZoneInv
  <1> QED BY <1>1, <1>8, <1>9, MapBuilt

LEMMA PaintZone ==
  ASSUME IInv, ZoneInv, NEW type \in GrownTypes, NEW tiles, PaintAreaRectangle(ZoneOf[type], tiles)
  PROVE  ZoneInv'
PROOF
  <1> DEFINE area == ZoneOf[type]
             z == [t \in Tiles |-> IF t \in tiles /\ Bare(city, t) THEN area ELSE city.zone[t]]
  <1>1. city' = [city EXCEPT !.zone = z] /\ NoteBuild(RestoreMap)
    BY DEF PaintAreaRectangle, ApplyBuild, Apply
  <1>2. area \in Zones
    BY DEF GrownTypes, ZoneOf, Zones
  <1> HIDE DEF area
  <1>3. /\ z \in [Tiles -> Zones]
        /\ \A t \in Tiles : ~Bare(city, t) => z[t] = city.zone[t]
    BY <1>2 DEF ZoneInv, CityTypes
  <1> HIDE DEF z
  <1>4. /\ city'.roads = city.roads /\ city'.zone = z
        /\ city'.nodes = city.nodes /\ city'.buildings = city.buildings
    BY <1>1 DEF IInv, CityShape
  <1>5. MapOf(city, city')
    BY <1>3, <1>4 DEF MapOf, ZoneInv, CityTypes
  <1>6. KeepZone(city')
    <2>1. ASSUME NEW t \in Tiles, HasBuilding(city', t)
          PROVE  HasBuilding(city, t) /\ city'.zone[t] = city.zone[t]
      BY <1>3, <1>4, <2>1 DEF Bare, HasBuilding
    <2> QED BY <1>4, <2>1 DEF KeepZone, ZoneInv
  <1> QED BY <1>1, <1>5, <1>6, MapBuilt

LEMMA StopZone ==
  ASSUME IInv, ZoneInv, NEW n \in Nodes, AddBusStop(n)
  PROVE  ZoneInv'
PROOF
  <1> DEFINE next == Paid(NodePlaced(city, n), Price["busStop"])
             nodes == [city.nodes EXCEPT ![n] = "present"]
             t == NodeAt[n]
  <1>1. city' = Recomputed(next) /\ NoteBuild(DemolishAt(t)) /\ Bare(city, t)
    BY DEF AddBusStop, ApplyBuild, Apply
  <1>2. t \in Tiles
    BY EconomyAssumption DEF EconomyAssumption
  <1>3. NodePlaced(city, n) =
          [roads |-> city.roads, zone |-> city.zone, nodes |-> nodes,
           buildings |-> city.buildings, lines |-> city.lines, budget |-> city.budget]
    BY DEF IInv, CityShape, NodePlaced
  <1>4. next = [roads |-> city.roads, zone |-> city.zone, nodes |-> nodes,
                buildings |-> city.buildings, lines |-> city.lines,
                budget |-> city.budget - Charge(Price["busStop"])]
    BY <1>3, PaidCity
  <1>5. nodes[n] = "present" /\ \A m \in Nodes : m # n => nodes[m] = city.nodes[m]
    BY DEF IInv, CityShape
  <1> HIDE DEF next, nodes
  <1>6. IsCity(next)
    BY <1>4 DEF IsCity
  <1>7. /\ city'.roads = city.roads /\ city'.zone = city.zone
        /\ city'.nodes = nodes /\ city'.buildings = city.buildings
    BY <1>1, <1>4, <1>6, RecomputedKeeps
  <1>8. NodesAt(city', t) # {}
    BY <1>5, <1>7 DEF NodesAt
  <1>9. city'.buildings[t] = None
    BY <1>1, <1>7 DEF Bare, HasBuilding
  <1>10. city'.buildings[t] \notin GrownTypes
    BY <1>9, NoneIsNoStatus DEF BuildingTypes
  <1>11. city'.buildings \in [Tiles -> BuildingTypes \cup {None}]
    BY <1>7 DEF ZoneInv, CityTypes
  <1>12. \A m \in Nodes : NodeAt[m] # t => city'.nodes[m] = city.nodes[m]
    BY <1>5, <1>7
  <1> HIDE DEF t
  <1>13. SiteOf(city, city', t)
    BY <1>7, <1>8, <1>10, <1>11, <1>12 DEF SiteOf
  <1> QED BY <1>1, <1>2, <1>13, SiteBuilt

LEMMA HouseZone ==
  ASSUME IInv, ZoneInv, NEW t \in Tiles, NEW type \in GrownTypes, PlaceZonedBuilding(t, type)
  PROVE  ZoneInv'
PROOF
  <1> DEFINE next == Paid(BuildingPlaced(city, t, type), Price[type])
             blds == [city.buildings EXCEPT ![t] = type]
  <1>1. /\ city' = Recomputed(next) /\ NoteBuild(DemolishAt(t))
        /\ Bare(city, t) /\ city.zone[t] = ZoneOf[type]
    BY DEF PlaceZonedBuilding, CanPlaceBuilding, ApplyBuild, Apply
  <1>2. type \in BuildingTypes /\ type # None
    BY NoneIsNoStatus DEF BuildingTypes
  <1>3. BuildingPlaced(city, t, type) =
          [roads |-> city.roads, zone |-> city.zone, nodes |-> city.nodes,
           buildings |-> blds, lines |-> city.lines, budget |-> city.budget]
    BY DEF IInv, CityShape, BuildingPlaced
  <1>4. next = [roads |-> city.roads, zone |-> city.zone, nodes |-> city.nodes,
                buildings |-> blds, lines |-> city.lines,
                budget |-> city.budget - Charge(Price[type])]
    BY <1>3, PaidCity
  <1>5. /\ blds \in [Tiles -> BuildingTypes \cup {None}] /\ blds[t] = type
        /\ \A u \in Tiles : u # t => blds[u] = city.buildings[u]
    BY <1>2 DEF ZoneInv, CityTypes
  <1> HIDE DEF next, blds
  <1>6. IsCity(next)
    BY <1>4 DEF IsCity
  <1>7. /\ city'.roads = city.roads /\ city'.zone = city.zone
        /\ city'.nodes = city.nodes /\ city'.buildings = blds
    BY <1>1, <1>4, <1>6, RecomputedKeeps
  <1>8. SiteOf(city, city', t)
    BY <1>1, <1>2, <1>5, <1>7 DEF SiteOf, HasBuilding
  <1> QED BY <1>1, <1>8, SiteBuilt

LEMMA TerminalZone ==
  ASSUME IInv, ZoneInv, NEW n \in Nodes, PlaceBusTerminal(n)
  PROVE  ZoneInv'
PROOF
  <1> DEFINE t == NodeAt[n]
             placed == NodePlaced(BuildingPlaced(city, t, "busTerminal"), n)
             next == Paid(placed, Price["busTerminal"])
             nodes == [city.nodes EXCEPT ![n] = "present"]
             blds == [city.buildings EXCEPT ![t] = "busTerminal"]
  <1>1. city' = Recomputed(next) /\ NoteBuild(DemolishAt(t)) /\ Bare(city, t)
    BY DEF PlaceBusTerminal, CanPlaceBuilding, ApplyBuild, Apply
  <1>2. t \in Tiles
    BY EconomyAssumption DEF EconomyAssumption
  <1>3. /\ "busTerminal" \in BuildingTypes /\ "busTerminal" # None
        /\ "busTerminal" \notin GrownTypes
    BY NoneIsNoStatus DEF BuildingTypes, GrownTypes, ZoneOf
  <1>4. BuildingPlaced(city, t, "busTerminal") =
          [roads |-> city.roads, zone |-> city.zone, nodes |-> city.nodes,
           buildings |-> blds, lines |-> city.lines, budget |-> city.budget]
    BY DEF IInv, CityShape, BuildingPlaced
  <1>5. placed = [roads |-> city.roads, zone |-> city.zone, nodes |-> nodes,
                  buildings |-> blds, lines |-> city.lines, budget |-> city.budget]
    BY <1>4 DEF NodePlaced
  <1>6. next = [roads |-> city.roads, zone |-> city.zone, nodes |-> nodes,
                buildings |-> blds, lines |-> city.lines,
                budget |-> city.budget - Charge(Price["busTerminal"])]
    BY <1>5, PaidCity
  <1>7. /\ blds \in [Tiles -> BuildingTypes \cup {None}] /\ blds[t] = "busTerminal"
        /\ \A u \in Tiles : u # t => blds[u] = city.buildings[u]
    BY <1>2, <1>3 DEF ZoneInv, CityTypes
  <1>8. \A m \in Nodes : m # n => nodes[m] = city.nodes[m]
    BY DEF IInv, CityShape
  <1> HIDE DEF next, nodes, blds, placed
  <1>9. IsCity(next)
    BY <1>6 DEF IsCity
  <1>10. /\ city'.roads = city.roads /\ city'.zone = city.zone
         /\ city'.nodes = nodes /\ city'.buildings = blds
    BY <1>1, <1>6, <1>9, RecomputedKeeps
  <1>11. \A m \in Nodes : NodeAt[m] # t => city'.nodes[m] = city.nodes[m]
    BY <1>8, <1>10
  <1> HIDE DEF t
  <1>12. SiteOf(city, city', t)
    BY <1>3, <1>7, <1>10, <1>11 DEF SiteOf, HasBuilding
  <1> QED BY <1>1, <1>2, <1>12, SiteBuilt

\* What a demolition leaves.
LEMMA RemovedKeeps ==
  ASSUME IsCity(city), CityTypes(city), NEW tiles
  PROVE  /\ IsCity(Removed(city, tiles)) /\ CityTypes(Removed(city, tiles))
         /\ Removed(city, tiles).zone = city.zone /\ Removed(city, tiles).budget = city.budget
         /\ \A t \in Tiles :
              /\ Removed(city, tiles).buildings[t] = IF t \in tiles THEN None ELSE city.buildings[t]
              /\ Removed(city, tiles).roads[t] \in {None, city.roads[t]}
              /\ t \notin tiles => Removed(city, tiles).roads[t] = city.roads[t]
         /\ Stops(Removed(city, tiles)) = {n \in Stops(city) : NodeAt[n] \notin tiles}
PROOF
  <1> DEFINE gone == UNION {NodesAt(city, t) : t \in tiles}
             left == [n \in Nodes |-> IF n \notin gone THEN city.nodes[n]
                                      ELSE IF Referenced(city, n) THEN "missing" ELSE None]
             housed == {u \in tiles : HasBuilding(city, u)}
             stopped == {u \in tiles : NodesAt(city, u) # {}}
             blds == [t \in Tiles |-> IF t \in housed THEN None ELSE city.buildings[t]]
             roads == [t \in Tiles |-> IF t \in tiles \ (housed \cup stopped)
                                       THEN None ELSE city.roads[t]]
             d == Removed(city, tiles)
  <1>1. d = [[city EXCEPT !.nodes = left] EXCEPT !.buildings = blds, !.roads = roads]
    BY Zenon DEF Removed, NodesRemoved
  <1>2. \A t \in Tiles : blds[t] = IF t \in tiles THEN None ELSE city.buildings[t]
    BY DEF HasBuilding
  <1>3. \A t \in Tiles : /\ roads[t] \in {None, city.roads[t]}
                         /\ t \notin tiles => roads[t] = city.roads[t]
    OBVIOUS
  <1>4. blds \in [Tiles -> BuildingTypes \cup {None}] /\ roads \in [Tiles -> RoadValues]
    <2>1. None \in RoadValues
      BY DEF RoadValues
    <2> HIDE DEF housed, stopped
    <2> QED BY <2>1 DEF CityTypes
  <1>5. ASSUME NEW n \in Nodes
        PROVE  left[n] = "present" <=> city.nodes[n] = "present" /\ NodeAt[n] \notin tiles
    <2>1. city.nodes[n] = "present" => (n \in gone <=> NodeAt[n] \in tiles)
      BY DEF NodesAt
    <2>2. n \in gone => city.nodes[n] = "present"
      BY DEF NodesAt
    <2>3. "present" # None /\ "present" # "missing"
      BY NoneIsNoStatus
    <2> HIDE DEF gone
    <2> QED BY <2>1, <2>2, <2>3
  <1> HIDE DEF left, blds, roads, d
  <1>6. d = [roads |-> roads, zone |-> city.zone, nodes |-> left,
             buildings |-> blds, lines |-> city.lines, budget |-> city.budget]
    BY <1>1 DEF IsCity
  <1>7. /\ d.roads = roads /\ d.zone = city.zone /\ d.nodes = left
        /\ d.buildings = blds /\ d.budget = city.budget
    BY <1>6
  <1>8. IsCity(d)
    BY <1>6 DEF IsCity
  <1>9. Stops(d) = {n \in Stops(city) : NodeAt[n] \notin tiles}
    BY <1>5, <1>7 DEF Stops
  <1>10. CityTypes(d)
    BY <1>4, <1>7 DEF CityTypes
  <1> QED BY <1>2, <1>3, <1>7, <1>8, <1>9, <1>10 DEF d

LEMMA RemoveZone ==
  ASSUME IInv, ZoneInv, NEW tiles, RemoveAtTiles(tiles)
  PROVE  ZoneInv'
PROOF
  <1> DEFINE d == Removed(city, tiles)
  <1>1. city' = Recomputed(d) /\ ForgetBuild
    BY DEF RemoveAtTiles, Apply
  <1>2. IsCity(city) /\ CityTypes(city)
    BY DEF IInv, CityShape, IsCity, ZoneInv
  <1>3. /\ IsCity(d) /\ CityTypes(d) /\ d.zone = city.zone
        /\ \A t \in Tiles : /\ d.buildings[t] = IF t \in tiles THEN None ELSE city.buildings[t]
                            /\ d.roads[t] \in {None, city.roads[t]}
    BY <1>2, RemovedKeeps
  <1> HIDE DEF d
  <1>4. city'.roads = d.roads /\ city'.zone = d.zone /\ city'.buildings = d.buildings
    BY <1>1, <1>3, RecomputedKeeps
  <1>5. CityTypes(city')
    BY <1>3, <1>4 DEF CityTypes
  <1>6. KeepZone(city')
    BY <1>3, <1>4 DEF KeepZone, HasBuilding, ZoneInv
  <1> QED BY <1>1, <1>5, <1>6, RecordGone

\* What is done to a line is done to nothing else.
LEMMA LineZone ==
  ASSUME IInv, ZoneInv, NEW l \in Lines, NEW status, NEW count,
         \/ CreateRoute(l) \/ SetRouteActive(l, status) \/ BuyVehicles(l, count)
         \/ RetireServiceVehicle(l) \/ DeleteRoute(l)
  PROVE  ZoneInv'
PROOF
  <1> USE DEF ApplyOther, Apply
  <1>1. lastBuild' = lastBuild /\ built' = built
    BY DEF CreateRoute, SetRouteActive, BuyVehicles, RetireServiceVehicle, DeleteRoute
  <1>2. ASSUME city'.roads = city.roads, city'.zone = city.zone, Stops(city') = Stops(city),
               city'.buildings = city.buildings
        PROVE  ZoneInv'
    <2>1. SameSites(city, city')
      BY <1>2 DEF SameSites, HasBuilding, ZoneInv, CityTypes
    <2> QED BY <1>1, <2>1, RecordKept
  <1>3. ASSUME NEW lines, NEW money,
               city' = [roads |-> city.roads, zone |-> city.zone, nodes |-> city.nodes,
                        buildings |-> city.buildings, lines |-> lines, budget |-> money]
        PROVE  ZoneInv'
    BY <1>2, <1>3 DEF Stops
  <1>4. CASE CreateRoute(l)
    BY <1>3, <1>4 DEF CreateRoute, IInv, CityShape
  <1>5. CASE SetRouteActive(l, status)
    BY <1>3, <1>5 DEF SetRouteActive, IInv, CityShape
  <1>6. CASE BuyVehicles(l, count)
    BY <1>3, <1>6 DEF BuyVehicles, Paid, IInv, CityShape
  <1>7. CASE RetireServiceVehicle(l)
    BY <1>3, <1>7 DEF RetireServiceVehicle, IInv, CityShape
  <1>8. CASE DeleteRoute(l)
    <2> DEFINE without == [city EXCEPT !.lines[l] = NoLine]
               left == [n \in Nodes |-> IF city.nodes[n] = "missing" /\ ~Referenced(without, n)
                                        THEN None ELSE city.nodes[n]]
    <2>1. city' = [without EXCEPT !.nodes = left]
      BY <1>8, Zenon DEF DeleteRoute
    <2>2. \A n \in Nodes : left[n] = "present" <=> city.nodes[n] = "present"
      BY NoneIsNoStatus
    <2> HIDE DEF left
    <2>3. /\ city'.roads = city.roads /\ city'.zone = city.zone
          /\ city'.nodes = left /\ city'.buildings = city.buildings
      BY <2>1 DEF IInv, CityShape
    <2>4. Stops(city') = Stops(city)
      BY <2>2, <2>3 DEF Stops
    <2> QED BY <1>2, <2>3, <2>4
  <1> QED BY <1>4, <1>5, <1>6, <1>7, <1>8

\* Time passes: houses and shops grow where nothing stands.
LEMMA TickZone ==
  ASSUME IInv, ZoneInv, NEW fare, Tick(fare)
  PROVE  ZoneInv'
PROOF
  <1> DEFINE charged == IF clock' = 0 THEN DayCharged(city) ELSE city
             earned == Earned(charged, fare)
             Money(c) == /\ IsCity(c) /\ c.roads = city.roads /\ c.zone = city.zone
                         /\ c.nodes = city.nodes /\ c.buildings = city.buildings
  <1>1. Money(city)
    BY DEF IInv, CityShape, IsCity
  <1>2. Money(charged)
    BY <1>1 DEF DayCharged, IsCity
  <1>3. Money(earned)
    <2> HIDE DEF charged
    <2> QED BY <1>2 DEF Earned, IsCity
  <1>4. city' = Grown(earned) \/ city' = earned
    BY Zenon DEF Tick
  <1>5. CityTypes(earned)
    <2> HIDE DEF earned
    <2> QED BY <1>3 DEF ZoneInv, CityTypes
  <1>6. Grew(earned, Grown(earned)) /\ Grew(earned, earned)
    <2> HIDE DEF earned
    <2>1. Grew(earned, earned)
      BY <1>3, <1>5 DEF Grew, CityTypes
    <2> QED BY <1>3, <1>5, <2>1, CityGrows
  <1> HIDE DEF earned
  <1>7. Grew(earned, city')
    BY <1>4, <1>6
  <1>8. SameSites(city, city')
    <2>1. /\ city'.roads = city.roads /\ city'.zone = city.zone /\ city'.nodes = city.nodes
          /\ city'.buildings \in [Tiles -> BuildingTypes \cup {None}]
      BY <1>3, <1>7 DEF Grew
    <2>2. ASSUME NEW t \in Tiles
          PROVE  /\ HasBuilding(earned, t) <=> HasBuilding(city, t)
                 /\ Bare(earned, t) <=> Bare(city, t)
      BY <1>3 DEF HasBuilding, Bare, NodesAt
    <2>3. Stops(city') = Stops(city)
      BY <2>1 DEF Stops
    <2>4. earned.buildings = city.buildings /\ earned.zone = city.zone
      BY <1>3
    <2> QED BY <1>7, <2>1, <2>2, <2>3, <2>4 DEF SameSites, Grew
  <1>9. /\ built' = built
        /\ \/ lastBuild' = lastBuild
           \/ lastBuild # None /\ \E age : lastBuild' = [lastBuild EXCEPT !.age = age]
    <2>1. built' = built
      BY DEF Tick
    <2>2. lastBuild = None => lastBuild' = lastBuild
      BY DEF Tick
    <2>3. lastBuild # None => \E age : lastBuild' = [lastBuild EXCEPT !.age = age]
      BY DEF Tick
    <2> QED BY <2>1, <2>2, <2>3
  <1> QED BY <1>8, <1>9, RecordKept

\* An undo that goes through takes back what its record says, all of it and nothing else.
LEMMA UndoTakesBack ==
  ASSUME IInv, ZoneInv, UndoLastBuild, answer' # "conflict"
  PROVE  /\ ZoneInv' /\ answer' = "undone"
         /\ \E b \in built : /\ View(city') = TakenBack(b)
                             /\ city'.budget = city.budget + b.paid /\ city'.budget <= MaxMoney
PROOF
  <1> DEFINE inverse == lastBuild.inverse
             back == Inverted(city, inverse)
             refunded == [back EXCEPT !.budget = @ + lastBuild.refund]
  <1>1. /\ city' = Recomputed(refunded) /\ answer' = "undone" /\ ForgetBuild
        /\ lastBuild # None /\ ~SiteConflict(city, inverse)
        /\ refunded.budget \in MinMoney..MaxMoney
    BY Zenon DEF UndoLastBuild, Refuse
  <1>2. PICK b \in built : Recorded(city, lastBuild, b)
    BY <1>1 DEF ZoneInv, RecordInv
  <1>3. /\ lastBuild.refund = b.paid /\ SinceTheBuild(city, b)
        /\ b.after.buildings \in [Tiles -> BuildingTypes \cup {None}]
        /\ MapChanged(b, inverse) \/ SitePlaced(city, b, inverse)
    <2>1. lastBuild = [age |-> lastBuild.age, refund |-> b.paid, inverse |-> lastBuild.inverse]
      BY <1>2 DEF Recorded
    <2>2. lastBuild.refund = b.paid
      BY <2>1
    <2> QED BY <1>2, <2>2 DEF Recorded
  <1>4. IsCity(city) /\ CityTypes(city)
    BY DEF IInv, CityShape, IsCity, ZoneInv
  <1>5. View(city) = [roads |-> city.roads, zone |-> city.zone, buildings |-> city.buildings,
                      stops |-> Stops(city)]
    BY DEF View, Stops
  <1> DEFINE blds == [t \in Tiles |-> IF b.before.buildings[t] # b.after.buildings[t]
                                      THEN b.before.buildings[t] ELSE city.buildings[t]]
  <1>16. TakenBack(b) = [View(city) EXCEPT !.roads = b.before.roads, !.zone = b.before.zone,
                                           !.stops = b.before.stops, !.buildings = blds]
    BY Zenon DEF TakenBack
  <1> HIDE DEF blds
  <1>6. TakenBack(b) = [roads |-> b.before.roads, zone |-> b.before.zone, buildings |-> blds,
                        stops |-> b.before.stops]
    BY <1>5, <1>16
  <1>7. /\ IsCity(back) /\ CityTypes(back) /\ KeepZone(back) /\ back.budget = city.budget
        /\ back.roads = b.before.roads /\ back.zone = b.before.zone
        /\ back.buildings = blds /\ Stops(back) = b.before.stops
    <2>1. CASE MapChanged(b, inverse)
      <3>1. back = [city EXCEPT !.roads = inverse.roads, !.zone = inverse.zone]
        BY <2>1 DEF MapChanged, Inverted
      <3>2. /\ IsCity(back) /\ back.roads = inverse.roads /\ back.zone = inverse.zone
            /\ back.nodes = city.nodes /\ back.buildings = city.buildings
            /\ back.budget = city.budget
        BY <1>4, <3>1 DEF IsCity
      <3> HIDE DEF back
      <3>3. CityTypes(back)
        BY <1>4, <2>1, <3>2 DEF CityTypes, MapChanged
      <3>4. ASSUME NEW t \in Tiles, HasBuilding(city, t)
            PROVE  inverse.roads[t] = None /\ inverse.zone[t] = city.zone[t]
        <4>1. city.roads[t] = None
          BY <3>4 DEF ZoneInv, KeepZone
        <4>2. inverse.roads[t] = None
          BY <1>3, <2>1, <4>1 DEF MapChanged, SinceTheBuild
        <4>3. inverse.zone[t] = city.zone[t]
          BY <1>1, <2>1, <3>4 DEF SiteConflict, MapChanged
        <4> QED BY <4>2, <4>3
      <3>5. KeepZone(back)
        BY <3>2, <3>4 DEF KeepZone, HasBuilding, ZoneInv
      <3>6. b.before.buildings = b.after.buildings
        BY <2>1 DEF MapChanged
      <3>7. blds = city.buildings
        BY <1>4, <3>6 DEF blds, CityTypes
      <3>8. Stops(back) = Stops(city)
        BY <3>2 DEF Stops
      <3> QED BY <1>3, <2>1, <3>2, <3>3, <3>5, <3>7, <3>8 DEF MapChanged, SinceTheBuild
    <2>2. CASE SitePlaced(city, b, inverse)
      <3> DEFINE site == inverse.tile
      <3>1. back = Removed(city, {site}) /\ site \in Tiles
        BY <2>2 DEF SitePlaced, Inverted
      <3>2. /\ IsCity(back) /\ CityTypes(back) /\ back.zone = city.zone /\ back.budget = city.budget
            /\ \A t \in Tiles :
                 /\ back.buildings[t] = IF t \in {site} THEN None ELSE city.buildings[t]
                 /\ back.roads[t] \in {None, city.roads[t]}
                 /\ t \notin {site} => back.roads[t] = city.roads[t]
            /\ Stops(back) = {n \in Stops(city) : NodeAt[n] \notin {site}}
        BY <1>4, <3>1, RemovedKeeps
      <3> HIDE DEF back
      <3>3. back.roads = city.roads
        <4>1. \A t \in Tiles : back.roads[t] = city.roads[t]
          BY <2>2, <3>2 DEF SitePlaced
        <4>2. back.roads \in [Tiles -> RoadValues] /\ city.roads \in [Tiles -> RoadValues]
          BY <1>4, <3>2 DEF CityTypes
        <4> QED BY <4>1, <4>2
      <3>4. KeepZone(back)
        BY <3>2, <3>3 DEF KeepZone, HasBuilding, ZoneInv
      <3>5. back.buildings = blds
        <4>1. ASSUME NEW t \in Tiles
              PROVE  back.buildings[t] = blds[t]
          <5>1. b.before.buildings[t] = IF t = site THEN None ELSE b.after.buildings[t]
            BY <1>3, <2>2 DEF SitePlaced
          <5>2. city.buildings[site] = b.after.buildings[site]
            BY <2>2 DEF SitePlaced
          <5> QED BY <3>2, <5>1, <5>2 DEF blds
        <4>2. back.buildings \in [Tiles -> BuildingTypes \cup {None}]
          BY <3>2 DEF CityTypes
        <4>3. back.buildings = [t \in Tiles |-> back.buildings[t]]
          BY <4>2
        <4>4. blds = [t \in Tiles |-> blds[t]]
          BY DEF blds
        <4> HIDE DEF blds
        <4> QED BY <4>1, <4>3, <4>4
      <3>6. Stops(back) = b.before.stops
        <4>1. b.before.stops = {n \in b.after.stops : NodeAt[n] # site}
          BY <2>2 DEF SitePlaced
        <4>2. b.after.stops = Stops(city)
          BY <1>3 DEF SinceTheBuild
        <4> QED BY <3>2, <4>1, <4>2
      <3> QED BY <1>3, <2>2, <3>2, <3>3, <3>4, <3>5, <3>6 DEF SitePlaced, SinceTheBuild
    <2> QED BY <1>3, <2>1, <2>2
  <1> HIDE DEF back
  <1>8. /\ IsCity(refunded) /\ refunded.roads = back.roads /\ refunded.zone = back.zone
        /\ refunded.nodes = back.nodes /\ refunded.buildings = back.buildings
        /\ refunded.budget = back.budget + lastBuild.refund
    BY <1>7 DEF IsCity
  <1> HIDE DEF refunded
  <1>9. /\ city'.roads = back.roads /\ city'.zone = back.zone
        /\ city'.nodes = back.nodes /\ city'.buildings = back.buildings
        /\ city'.budget = refunded.budget
    BY <1>1, <1>8, RecomputedKeeps
  <1>10. CityTypes(city') /\ KeepZone(city')
    BY <1>7, <1>9 DEF CityTypes, KeepZone, HasBuilding
  <1>11. ZoneInv'
    BY <1>1, <1>10, RecordGone
  <1>12. Stops(city') = Stops(back)
    BY <1>9 DEF Stops
  <1>13. View(city') = [roads |-> city'.roads, zone |-> city'.zone, buildings |-> city'.buildings,
                        stops |-> Stops(city')]
    BY DEF View, Stops
  <1>14. View(city') = TakenBack(b)
    BY <1>6, <1>7, <1>9, <1>12, <1>13
  <1>15. city'.budget = city.budget + b.paid /\ city'.budget <= MaxMoney
    BY <1>1, <1>3, <1>7, <1>8, <1>9
  <1> QED BY <1>1, <1>11, <1>14, <1>15

LEMMA UndoZone ==
  ASSUME IInv, ZoneInv, UndoLastBuild
  PROVE  ZoneInv'
PROOF
  <1>1. CASE answer' = "conflict"
    <2>1. city' = city /\ lastBuild' = lastBuild /\ built' = built
      BY <1>1, Zenon DEF UndoLastBuild, Refuse
    <2> QED BY <2>1 DEF ZoneInv, RecordInv
  <1>2. CASE answer' # "conflict"
    BY <1>2, UndoTakesBack
  <1> QED BY <1>1, <1>2

LEMMA PlayerZone ==
  ASSUME IInv, ZoneInv, Player
  PROVE  ZoneInv'
PROOF
  <1>1. CASE \E stroke \in Strokes, preset \in Presets : LayRoadLine(stroke, preset)
    BY <1>1, LayLineZone
  <1>2. CASE \E t \in Tiles : LayRoad(t) \/ CycleRoadDirection(t) \/ RemoveAtTiles({t})
    <2>1. PICK t \in Tiles : LayRoad(t) \/ CycleRoadDirection(t) \/ RemoveAtTiles({t})
      BY <1>2
    <2>2. CASE LayRoad(t)
      BY <2>2, LayRoadZone
    <2>3. CASE CycleRoadDirection(t)
      BY <2>3, CycleZone
    <2>4. CASE RemoveAtTiles({t})
      BY <2>4, RemoveZone
    <2> QED BY <2>1, <2>2, <2>3, <2>4
  <1>3. CASE \E tiles \in Rectangles :
               RemoveAtTiles(tiles) \/ \E type \in GrownTypes : PaintAreaRectangle(ZoneOf[type], tiles)
    BY <1>3, RemoveZone, PaintZone
  <1>4. CASE \E n \in Nodes : AddBusStop(n)
    BY <1>4, StopZone
  <1>5. CASE PlaceBuilding
    BY <1>5, HouseZone, TerminalZone DEF PlaceBuilding
  <1>6. CASE \E l \in Lines : \/ CreateRoute(l) \/ \E s \in {"active", "idle"} : SetRouteActive(l, s)
                              \/ RetireServiceVehicle(l) \/ DeleteRoute(l)
    BY <1>6, LineZone
  <1>7. CASE \E l \in Lines : DeployInitialFleet(l) \/ AssignVehicle(l) \/ AddServiceVehicle(l)
    <2>1. \E l \in Lines : \E count : BuyVehicles(l, count)
      BY <1>7 DEF DeployInitialFleet, AssignVehicle, AddServiceVehicle
    <2> QED BY <2>1, LineZone
  <1>8. CASE NothingToUndo
    BY <1>8 DEF NothingToUndo, Refuse, ZoneInv, RecordInv
  <1>9. CASE UndoExpired
    BY <1>9 DEF UndoExpired, Refuse, ForgetBuild, ZoneInv, RecordInv
  <1>10. CASE UndoLastBuild
    BY <1>10, UndoZone
  <1> QED BY <1>1, <1>2, <1>3, <1>4, <1>5, <1>6, <1>7, <1>8, <1>9, <1>10 DEF Player

LEMMA NewCityZone == CityTypes(NewCity) /\ KeepZone(NewCity)
PROOF
  BY DEF NewCity, CityTypes, KeepZone, HasBuilding, RoadValues, Zones

LEMMA StepZone ==
  ASSUME IInv, ZoneInv, [Next]_vars
  PROVE  ZoneInv'
PROOF
  <1>1. CASE Player
    BY <1>1, PlayerZone
  <1>2. CASE SnapshotForSave \/ UNCHANGED vars
    BY <1>2 DEF SnapshotForSave, ForgetBuild, vars, ZoneInv, RecordInv
  <1>3. CASE Reset
    BY <1>3, NewCityZone, RecordGone DEF Reset
  <1>4. CASE \E fare \in 0..MaxFare : Tick(fare)
    BY <1>4, TickZone
  <1> QED BY <1>1, <1>2, <1>3, <1>4 DEF Next

\* Every city is typed, its houses and shops stand on bare land of their zone, and what
\* undo holds is the record of the last build and of nothing that has moved since.
THEOREM ZoneInvariance == Spec => []ZoneInv
PROOF
  <1>1. Init => ZoneInv
    BY NewCityZone DEF Init, ZoneInv, RecordInv
  <1>2. IInv /\ ZoneInv /\ [Next]_vars => ZoneInv'
    BY StepZone
  <1> QED BY <1>1, <1>2, Invariance, PTL DEF Spec

\* Whatever is painted, laid, grown, demolished or undone, a house or a shop stands on
\* land without a road and of its own zone.
THEOREM BuildingsStandOnTheirLand == Spec => []BuildingsKeepTheirZone
PROOF
  <1>1. ZoneInv => BuildingsKeepTheirZone
    BY DEF ZoneInv, KeepZone, BuildingsKeepTheirZone
  <1> QED BY <1>1, ZoneInvariance, PTL

\* An undo takes back the last build, all of it and nothing else, for what it cost; or it
\* changes nothing and, after a conflict, keeps its record.
THEOREM UndoTakesBackExactlyTheBuild == Spec => UndoAllOrNothing
PROOF
  <1>1. ASSUME IInv, ZoneInv, [Next]_vars, vars' # vars
        PROVE  /\ answer' = "undone" =>
                    \E b \in built : /\ View(city') = TakenBack(b)
                                     /\ city'.budget = city.budget + b.paid /\ city'.budget <= MaxMoney
               /\ answer' \in {"conflict", "expired"} => city' = city
               /\ answer' = "conflict" => lastBuild' = lastBuild
    <2>1. CASE answer' = "other"
      BY <2>1
    <2>2. CASE UndoExpired
      BY <2>2 DEF UndoExpired, Refuse
    <2>3. CASE UndoLastBuild /\ answer' = "conflict"
      BY <2>3, Zenon DEF UndoLastBuild, Refuse
    <2>4. CASE UndoLastBuild /\ answer' # "conflict"
      BY <1>1, <2>4, UndoTakesBack
    <2> QED BY <1>1, <2>1, <2>2, <2>3, <2>4, AnsweredByUndo DEF vars
  <1>2. IInv /\ ZoneInv /\ [Next]_vars =>
          [/\ answer' = "undone" =>
                \E b \in built : /\ View(city') = TakenBack(b)
                                 /\ city'.budget = city.budget + b.paid /\ city'.budget <= MaxMoney
           /\ answer' \in {"conflict", "expired"} => city' = city
           /\ answer' = "conflict" => lastBuild' = lastBuild]_vars
    BY <1>1 DEF vars
  <1> QED BY <1>2, Invariance, ZoneInvariance, PTL DEF Spec, UndoAllOrNothing

=============================================================================
