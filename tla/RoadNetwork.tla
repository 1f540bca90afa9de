---------------------------- MODULE RoadNetwork ----------------------------
(***************************************************************************)
(* The road layer of the map: road.rs, roundabouts.rs, road_topology.rs,   *)
(* the removals of transit.rs and the checks of persistence/map.rs.        *)
(*                                                                         *)
(* A map is one value, as GameMap is: which tiles are road or carry track, *)
(* the arrow of a one-way tile, the links of a tile to its neighbours, the *)
(* structure that owns a tile, and the structures. Money is in Economy;    *)
(* here every tile can be paid for.                                        *)
(***************************************************************************)
EXTENDS Integers, FiniteSets, Sequences

CONSTANTS
    Width, Height,   \* of the grid
    Occupied,        \* tiles under a building or a stop
    Taps,            \* tiles the player taps with the road, track or remove tool
    Strokes,         \* straight lines of two or more tiles, in drawing order
    Presets,         \* of {"twoWay", "oneWay", "dual"}
    Areas,           \* rectangles of two or more tiles, in row order
    Roundabouts,     \* <<size, origin>> the player may place
    Lines,           \* straight lines of track
    MaxEdits,        \* bound: edits of a run
    None

VARIABLES map, edits

vars == <<map, edits>>

Tiles == (0..(Width - 1)) \X (0..(Height - 1))
Headings == {"N", "E", "S", "W"}
Opposite == [N |-> "S", E |-> "W", S |-> "N", W |-> "E"]
HeadingRank == [N |-> 0, E |-> 1, S |-> 2, W |-> 3]

\* offset: the tile `steps` away in a heading.
Ahead(p, h, steps) ==
    CASE h = "N" -> <<p[1], p[2] - steps>>
      [] h = "E" -> <<p[1] + steps, p[2]>>
      [] h = "S" -> <<p[1], p[2] + steps>>
      [] h = "W" -> <<p[1] - steps, p[2]>>
Offset(p, h) == Ahead(p, h, 1)

HeadingBetween(p, q) ==
    IF \E h \in Headings : Offset(p, h) = q THEN CHOOSE h \in Headings : Offset(p, h) = q
    ELSE None

Horizontal == {"E", "W"}
Vertical == {"N", "S"}
Axis(h) == IF h \in Horizontal THEN Horizontal ELSE Vertical
Across(h) == Headings \ Axis(h)

\* How a structure is named: a junction by its tiles and the links that leave
\* them, a roundabout by its size and place.
Ids == ({"junction"} \X (SUBSET Tiles) \X (SUBSET (Tiles \X Headings)))
         \cup ({"roundabout"} \X {"compact", "standard"} \X (Int \X Int))

ASSUME RoadConstants ==
    /\ Width \in Nat \ {0} /\ Height \in Nat \ {0} /\ MaxEdits \in Nat
    /\ Occupied \subseteq Tiles /\ Taps \subseteq Tiles
    /\ Presets \subseteq {"twoWay", "oneWay", "dual"}
    /\ Roundabouts \subseteq {"compact", "standard"} \X (Int \X Int)
    /\ Areas \subseteq Seq(Tiles) /\ Lines \subseteq Seq(Tiles)
    /\ \A s \in Strokes : s \in Seq(Tiles) /\ Len(s) >= 2 /\ \E h \in Headings :
          \A i \in 1..Len(s) : s[i] = Ahead(s[1], h, i - 1)
    /\ None \notin Headings /\ None \notin Ids /\ None \notin {"twoWay", "inbound", "outbound"}

-----------------------------------------------------------------------------
(* Roundabout templates.                                                    *)

RingOffsets ==
    [compact  |-> <<<<1, 1>>, <<1, 0>>, <<0, 0>>, <<0, 1>>>>,
     standard |-> <<<<2, 2>>, <<2, 1>>, <<2, 0>>, <<1, 0>>,
                    <<0, 0>>, <<0, 1>>, <<0, 2>>, <<1, 2>>>>]

\* The tiles a vehicle circulates on, counter-clockwise.
Ring(size, origin) ==
    [i \in DOMAIN RingOffsets[size] |->
        <<origin[1] + RingOffsets[size][i][1], origin[2] + RingOffsets[size][i][2]>>]

\* The square with its island.
Footprint(size, origin) ==
    LET width == IF size = "compact" THEN 2 ELSE 3
    IN  {<<origin[1] + dx, origin[2] + dy>> : dx, dy \in 0..(width - 1)}

-----------------------------------------------------------------------------
(* Reading a map.                                                           *)

RoundaboutsOf(m) == {s \in m.structures : s.kind = "roundabout"}
JunctionsOf(m) == {s \in m.structures : s.kind = "junction"}

IsRoundaboutOwned(m, p) == \E s \in RoundaboutsOf(m) : s.id = m.owner[p]

ReciprocalConnection(m, p, h) ==
    Offset(p, h) \in m.road /\ Opposite[h] \in m.links[Offset(p, h)]

\* The neighbour is a parallel one-way lane: both arrows lie on one axis and
\* the heading between them does not. `continued` asks in addition that both
\* lanes go on along their arrows.
IsLateralParallelOneWayLink(m, p, h, continued) ==
    LET q == Offset(p, h)
        a == m.oneWay[p]
        b == m.oneWay[q]
    IN  /\ a # None /\ b # None
        /\ Axis(a) = Axis(b) /\ h \notin Axis(a)
        /\ m.links[p] \cap Axis(a) # {} /\ m.links[q] \cap Axis(b) # {}
        /\ continued => a \in m.links[p] /\ b \in m.links[q]

IsValidRoadPlacement(m, p) ==
    /\ p \in Tiles \ m.road
    /\ m.owner[p] = None
    /\ p \notin Occupied

\* Links that leave a set of tiles and are answered from outside.
Boundary(m, F) ==
    {e \in F \X Headings : /\ e[2] \in m.links[e[1]]
                           /\ Offset(e[1], e[2]) \notin F
                           /\ ReciprocalConnection(m, e[1], e[2])}

Internal(m, F) ==
    {e \in F \X Headings : e[2] \in m.links[e[1]] /\ Offset(e[1], e[2]) \in F}

-----------------------------------------------------------------------------
(* canonicalize_authored_roads. The code goes tile by tile over a copy of   *)
(* the links; a link goes at one end when it goes at the other, and what is *)
(* already dropped only makes fewer links lateral, so one look is the same. *)

Canonicalize(m) ==
    [m EXCEPT
        !.oneWay = [p \in Tiles |-> IF p \in m.road THEN m.oneWay[p] ELSE None],
        !.links = [p \in Tiles |->
            IF p \notin m.road THEN {}
            ELSE {h \in m.links[p] : /\ ReciprocalConnection(m, p, h)
                                     /\ ~IsLateralParallelOneWayLink(m, p, h, TRUE)}]]

-----------------------------------------------------------------------------
(* Roundabout ports.                                                        *)

\* Fault: a lane that leads away from the roundabout is taken for one into it.
PortDirectionSwapped(edge, arrow) ==
    CASE arrow = None -> "twoWay"
      [] arrow = Opposite[edge] -> "outbound"
      [] arrow = edge -> "inbound"
      [] OTHER -> None

PortDirection(edge, arrow) ==
    CASE arrow = None -> "twoWay"
      [] arrow = Opposite[edge] -> "inbound"
      [] arrow = edge -> "outbound"
      [] OTHER -> None

\* scan_boundary_port_candidates with the direction of each; every boundary
\* edge of the ring has a slot.
BoundaryPorts(m, F) ==
    {[point |-> e[1], edge |-> e[2],
      direction |-> PortDirection(e[2], m.oneWay[Offset(e[1], e[2])])]
        : e \in Boundary(m, F)}

RecaptureBoundaryPorts(m, F) == {port \in BoundaryPorts(m, F) : port.direction # None}

SyncRoundaboutPorts(m) ==
    [m EXCEPT !.structures =
        {IF s.kind = "roundabout"
         THEN [s EXCEPT !.ports = RecaptureBoundaryPorts(m, s.footprint)] ELSE s : s \in @}]

PortMatchesCurrentMap(m, port) ==
    /\ port.point \in m.road /\ port.edge \in m.links[port.point]
    /\ ReciprocalConnection(m, port.point, port.edge)
    /\ port.direction = PortDirection(port.edge, m.oneWay[Offset(port.point, port.edge)])

-----------------------------------------------------------------------------
(* refresh_automatic_junctions: forget the automatic junctions and find     *)
(* them again.                                                              *)

HasBothAxes(L) == L \cap Horizontal # {} /\ L \cap Vertical # {}

Candidates(m) == {p \in m.road : m.owner[p] = None /\ HasBothAxes(m.links[p])}

\* The candidates linked to p, one ring of neighbours after the other.
Component(m, C, p) ==
    LET grown[S \in SUBSET C] ==
          LET wider == S \cup {q \in C : \E h \in m.links[q] : Offset(q, h) \in S}
          IN  IF wider = S THEN S ELSE grown[wider]
    IN  grown[{p}]

Components(m) == LET C == Candidates(m) IN {Component(m, C, p) : p \in C}

PortAxes(m, F) == UNION {Axis(e[2]) : e \in Boundary(m, F)}

\* A component open on one axis only is the rest of a junction, or a chance
\* link between parallel roads: its links on the other axis go. Loops and the
\* joint of two stroke ends stay, unless a junction was there.
PrunedEdges(m, F, former) ==
    LET axes == PortAxes(m, F)
        inner == Internal(m, F)
        cycle == Cardinality(inner) >= 2 * Cardinality(F)
        joint == /\ Cardinality(F) = 2 /\ Cardinality(inner) = 2
                 /\ \A p \in F : Cardinality(m.links[p]) >= 2
    IN  IF \/ axes \in {{}, Headings}
           \/ (cycle \/ joint) /\ F \cap former = {}
        THEN {}
        ELSE {e \in inner : e[2] \notin axes}

Disconnect(m, E) ==
    [m EXCEPT !.links = [p \in Tiles |->
        {h \in m.links[p] : /\ <<p, h>> \notin E
                            /\ <<Offset(p, h), Opposite[h]>> \notin E}]]

\* The loop: prune until nothing is left to prune, at most once per tile.
Settled(m, former) ==
    LET round[n \in 0..(Cardinality(Tiles) + 1)] ==
          IF n = 0 THEN [map |-> m, done |-> FALSE]
          ELSE LET before == round[n - 1]
                   E == UNION {PrunedEdges(before.map, F, former) : F \in Components(before.map)}
               IN  IF before.done THEN before
                   ELSE IF E = {} THEN [before EXCEPT !.done = TRUE]
                   ELSE CHOOSE pruned \in {[map |-> Canonicalize(m2), done |-> FALSE] :
                                            m2 \in {Disconnect(before.map, E)}} : TRUE
    IN  round[Cardinality(Tiles) + 1].map

JunctionOn(m, F) ==
    [id |-> <<"junction", F, Boundary(m, F)>>, kind |-> "junction", footprint |-> F,
     ports |-> {[point |-> e[1], edge |-> e[2], direction |-> None] : e \in Boundary(m, F)}]

\* find_lane_direction: the first arrow on the axis met by driving straight on.
LaneDirections(m, p, h) ==
    LET Straight(k) == /\ Ahead(p, h, k) \in Tiles
                       /\ \A j \in 1..(k - 1) : /\ h \in m.links[Ahead(p, h, j)]
                                                /\ m.oneWay[Ahead(p, h, j)] \notin Axis(h)
    IN  {m.oneWay[Ahead(p, h, k)] : k \in {k \in 1..(Width + Height) :
            Straight(k) /\ m.oneWay[Ahead(p, h, k)] \in Axis(h)}}

\* Fault: every tile that left a junction takes an arrow, the one of any lane it meets.
RestoreAnyDirection(m, former) ==
    LET inferred(p) == UNION {LaneDirections(m, p, h) : h \in m.links[p]}
    IN  [m EXCEPT !.oneWay = [p \in Tiles |->
            IF p \in former \cap m.road /\ m.owner[p] = None /\ inferred(p) # {}
            THEN CHOOSE h \in inferred(p) : TRUE ELSE m.oneWay[p]]]

\* A tile that left a junction takes the arrow of its lane again, when its
\* links are on one axis and the lane has one arrow.
RestoreLaneDirections(m, former) ==
    LET inferred(p) == UNION {LaneDirections(m, p, h) : h \in m.links[p]}
        restored(p) == /\ p \in former \cap m.road
                       /\ m.owner[p] = None /\ m.oneWay[p] = None
                       /\ m.links[p] # {} /\ ~HasBothAxes(m.links[p])
                       /\ Cardinality(inferred(p)) = 1
    IN  [m EXCEPT !.oneWay = [p \in Tiles |->
            IF restored(p) THEN CHOOSE h \in inferred(p) : TRUE ELSE m.oneWay[p]]]

\* The old junctions are forgotten.
Forgotten(m) ==
    [m EXCEPT !.owner = [p \in Tiles |->
                  IF \E s \in JunctionsOf(m) : s.id = m.owner[p] THEN None ELSE m.owner[p]],
              !.structures = @ \ JunctionsOf(m)]

\* The junctions of a settled map, and their tiles: no tile of one has an arrow.
WithJunctions(m) ==
    LET found == {JunctionOn(m, F) : F \in
                    {F \in Components(m) : /\ PortAxes(m, F) = Headings
                                           /\ Cardinality(Boundary(m, F)) >= 3}}
        covered == UNION {s.footprint : s \in found}
    IN  [m EXCEPT
            !.owner = [p \in Tiles |->
                IF p \in covered THEN (CHOOSE s \in found : p \in s.footprint).id ELSE @[p]],
            !.oneWay = [p \in Tiles |-> IF p \in covered THEN None ELSE @[p]],
            !.structures = @ \cup found]

\* The steps of the refresh, one on the result of the other: the sets hold one
\* map each, and TLC computes it once.
RefreshAutomaticJunctions(m) ==
    LET former == UNION {s.footprint : s \in JunctionsOf(m)}
        cleared == {Forgotten(m1) : m1 \in {Canonicalize(m)}}
        owned == {WithJunctions(m2) : m2 \in {Settled(m1, former) : m1 \in cleared}}
    IN  CHOOSE refreshed \in {RestoreLaneDirections(m3, former) : m3 \in owned} : TRUE

\* What apply_road_mutation does after every change of tiles.
Finished(m) ==
    LET refreshed == {RefreshAutomaticJunctions(m2) : m2 \in {SyncRoundaboutPorts(m1) : m1 \in {m}}}
    IN  CHOOSE finished \in {Canonicalize(m3) : m3 \in refreshed} : TRUE

-----------------------------------------------------------------------------
(* Laying roads.                                                            *)

\* connect_neighbor_endpoints: a new tile is linked to the roads around it,
\* but for a parallel one-way lane and the flank of a road that runs past.
EndpointLinks(m, p) ==
    {h \in Headings :
        LET q == Offset(p, h) IN
        /\ q \in m.road
        /\ \/ m.owner[q] # None
           \/ /\ ~IsLateralParallelOneWayLink(m, p, h, FALSE)
              /\ Cardinality(m.links[q]) >= 2 => m.links[q] \cap Axis(h) # {}}

\* connect: both ends get the link.
Connect(m, p, H) ==
    [m EXCEPT !.links = [q \in Tiles |->
        @[q] \cup (IF q = p THEN H ELSE {})
             \cup {h \in Headings : Offset(q, h) = p /\ Opposite[h] \in H}]]

ConnectNeighborEndpoints(m, p) == Connect(m, p, EndpointLinks(m, p))

InitializeRoadTile(m, p, arrow) ==
    [m EXCEPT !.road = @ \cup {p}, !.oneWay[p] = arrow, !.links[p] = {}, !.owner[p] = None]

\* merge_lane_direction: a stroke over a road that crosses it takes its arrow.
MergeLaneDirection(m, p, arrow) ==
    [m EXCEPT !.oneWay[p] =
        IF m.owner[p] # None \/ (arrow # None /\ m.links[p] \cap Across(arrow) # {})
        THEN None ELSE arrow]

\* One tile of a lane; one off the map, occupied or of a roundabout is skipped.
LayTile(lane, original, p, arrow) ==
    IF p \notin Tiles \/ (p \in Tiles /\ IsRoundaboutOwned(lane.map, p)) THEN lane
    ELSE IF p \in lane.map.road
    THEN [map |-> MergeLaneDirection(lane.map, p, arrow), laid |-> Append(lane.laid, p)]
    ELSE IF IsValidRoadPlacement(original, p)
    THEN [map |-> InitializeRoadTile(lane.map, p, arrow), laid |-> Append(lane.laid, p)]
    ELSE lane

\* author_lane_tiles: the tiles in the order of the stroke.
LaneTiles(m, original, points, arrow) ==
    LET after[i \in 0..Len(points)] ==
          IF i = 0 THEN [map |-> m, laid |-> <<>>]
          ELSE LayTile(after[i - 1], original, points[i], arrow)
    IN  after[Len(points)]

LinkPair(m, p, q) ==
    LET h == HeadingBetween(p, q) IN IF h = None THEN m ELSE Connect(m, p, {h})

\* connect_authored_sequence: the tiles laid are linked in their order.
ConnectAuthoredSequence(m, laid) ==
    LET after[i \in 0..Len(laid)] ==
          IF i <= 1 THEN m ELSE LinkPair(after[i - 1], laid[i - 1], laid[i])
    IN  after[Len(laid)]

\* connect_neighbor_endpoints of each tile laid.
ConnectLaneEndpoints(m, laid) ==
    LET after[i \in 0..Len(laid)] ==
          IF i = 0 THEN m ELSE ConnectNeighborEndpoints(after[i - 1], laid[i])
    IN  after[Len(laid)]

AuthorLane(m, original, points, arrow) ==
    LET lane == LaneTiles(m, original, points, arrow)
    IN  [map |-> ConnectLaneEndpoints(ConnectAuthoredSequence(lane.map, lane.laid), lane.laid),
         laid |-> lane.laid]

\* record_line_results: some tile the lane authored is not what it was.
Changed(m, original, laid) ==
    \E i \in DOMAIN laid :
        \/ laid[i] \notin original.road
        \/ m.oneWay[laid[i]] # original.oneWay[laid[i]]
        \/ m.links[laid[i]] # original.links[laid[i]]

CanonicalDirection(points) ==
    IF HeadingBetween(points[1], points[2]) \in Horizontal THEN "E" ELSE "S"

\* The second carriageway of a dual road: the tiles north or east of the first.
ReverseLane(points) ==
    [i \in DOMAIN points |->
        Offset(points[i], IF CanonicalDirection(points) = "E" THEN "N" ELSE "E")]

\* validate_road_line_contacts: the stroke meets existing roads only across.
ContactsOk(m, F, h) ==
    \A p \in F \cap m.road :
        /\ m.owner[p] = None
        /\ m.links[p] \cap Axis(h) = {} /\ m.links[p] # {}

\* validate_one_way_parallel_spacing: three tiles between one-way roads.
SpacingOk(m, points, h) ==
    \A i \in DOMAIN points, side \in Across(h), distance \in 1..2 :
        LET q == Ahead(points[i], side, distance)
        IN  q \in m.road => m.oneWay[q] \notin Axis(h)

\* lay_road_line: the new map, or the old one for a stroke that is refused.
RoadLineLaid(m, points, preset) ==
    LET drawn == HeadingBetween(points[1], points[2])
        lanes == IF preset = "dual" THEN points \o ReverseLane(points) ELSE points
        arrow == CASE preset = "twoWay" -> None
                   [] preset = "oneWay" -> drawn
                   [] preset = "dual"   -> CanonicalDirection(points)
        forth == AuthorLane(m, m, points, arrow)
        back == AuthorLane(forth.map, m, ReverseLane(points), Opposite[CanonicalDirection(points)])
        laid == IF preset = "dual" THEN back ELSE forth
        refused ==
            \/ ~ContactsOk(m, {lanes[i] : i \in DOMAIN lanes} \cap Tiles, drawn)
            \/ preset = "oneWay" /\ ~SpacingOk(m, points, drawn)
            \/ /\ ~Changed(forth.map, m, forth.laid)
               /\ ~Changed(laid.map, m, laid.laid)
    IN  IF refused THEN m ELSE Finished(laid.map)

\* lay_single_road
RoadLaid(m, p) ==
    IF IsValidRoadPlacement(m, p)
    THEN Finished(ConnectNeighborEndpoints(InitializeRoadTile(m, p, None), p)) ELSE m

\* cycle_road_direction: two-way, one heading of the axis, the other, two-way.
DirectionCycled(m, p) ==
    LET first == IF m.links[p] \subseteq Horizontal THEN "E" ELSE "N"
        second == IF first = "E" THEN "W" ELSE "S"
        next == CASE m.oneWay[p] = None -> first
                  [] m.oneWay[p] = first -> second
                  [] OTHER -> None
        straight == m.links[p] # {} /\ ~HasBothAxes(m.links[p])
    IN  CASE p \in m.road /\ m.owner[p] # None -> Finished(m)
          [] p \in m.road /\ m.owner[p] = None /\ straight ->
                Finished([m EXCEPT !.oneWay[p] = next])
          [] OTHER -> m

\* Track is a layer of its own: it crosses roads, but no structure.
TrackLaid(m, points) ==
    [m EXCEPT !.track = @ \cup {p \in points : m.owner[p] = None /\ p \notin Occupied}]

-----------------------------------------------------------------------------
(* Roundabouts.                                                             *)

\* place_roundabout: on free land and roads, over whole junctions only, and
\* with no perpendicular one-way road at its edge.
RoundaboutFits(m, F) ==
    /\ F \subseteq Tiles
    /\ F \cap Occupied = {} /\ F \cap m.track = {}
    /\ \A s \in m.structures : s.footprint \cap F # {} =>
          s.kind = "junction" /\ s.footprint \subseteq F
    /\ \A port \in BoundaryPorts(m, F) : port.direction # None

\* Fault: the junctions under the roundabout stay in the list.
RoundaboutOverJunctions(m, size, origin) ==
    LET F == Footprint(size, origin)
        ring == {Ring(size, origin)[i] : i \in DOMAIN RingOffsets[size]}
        id == <<"roundabout", size, origin>>
    IN  [m EXCEPT
            !.road = (@ \ F) \cup ring,
            !.oneWay = [p \in Tiles |-> IF p \in F THEN None ELSE @[p]],
            !.links = [p \in Tiles |->
                IF p \in F THEN {x.edge : x \in {x \in BoundaryPorts(m, F) : x.point = p}} ELSE @[p]],
            !.owner = [p \in Tiles |-> IF p \in F THEN id ELSE @[p]],
            !.structures = @ \cup
                {[id |-> id, kind |-> "roundabout", footprint |-> F, ports |-> BoundaryPorts(m, F)]}]

RoundaboutInstalled(m, size, origin) ==
    LET F == Footprint(size, origin)
        ring == {Ring(size, origin)[i] : i \in DOMAIN RingOffsets[size]}
        id == <<"roundabout", size, origin>>
        ports == BoundaryPorts(m, F)
    IN  [m EXCEPT
            !.road = (@ \ F) \cup ring,
            !.oneWay = [p \in Tiles |-> IF p \in F THEN None ELSE @[p]],
            !.links = [p \in Tiles |->
                IF p \in F THEN {port.edge : port \in {x \in ports : x.point = p}} ELSE @[p]],
            !.owner = [p \in Tiles |-> IF p \in F THEN id ELSE @[p]],
            !.structures = {s \in @ : ~(s.kind = "junction" /\ s.footprint \subseteq F)}
                \cup {[id |-> id, kind |-> "roundabout", footprint |-> F, ports |-> ports]}]

RoundaboutPlaced(m, size, origin) ==
    IF RoundaboutFits(m, Footprint(size, origin))
    THEN RoundaboutInstalled(m, size, origin) ELSE m

-----------------------------------------------------------------------------
(* Removing.                                                                *)

\* Tiles become empty and their neighbours lose the links to them.
Cleared(m, F) ==
    [m EXCEPT
        !.road = @ \ F,
        !.oneWay = [p \in Tiles |-> IF p \in F THEN None ELSE @[p]],
        !.links = [p \in Tiles |-> IF p \in F THEN {} ELSE {h \in @[p] : Offset(p, h) \notin F}],
        !.owner = [p \in Tiles |-> IF p \in F THEN None ELSE @[p]]]

\* remove_owned_roundabouts: whole, whichever of its tiles are hit.
RoundaboutsHit(m, points) == {s \in RoundaboutsOf(m) : \E p \in points : m.owner[p] = s.id}

WithoutRoundabouts(m, hit) ==
    IF hit = {} THEN m
    ELSE LET bare == [Cleared(m, UNION {s.footprint : s \in hit}) EXCEPT !.structures = @ \ hit]
         IN  CHOOSE removed \in {RefreshAutomaticJunctions(m1) : m1 \in {SyncRoundaboutPorts(bare)}} : TRUE

\* Fault: a tap takes one tile out of a roundabout.
RemovedTileOnly(m, p) ==
    IF p \in m.track THEN [m EXCEPT !.track = @ \ {p}]
    ELSE IF p \in m.road THEN Finished(Cleared(m, {p}))
    ELSE m

\* remove_at_tile: the roundabout, else the track, else the road.
RemovedAtTile(m, p) ==
    IF IsRoundaboutOwned(m, p) THEN WithoutRoundabouts(m, RoundaboutsHit(m, {p}))
    ELSE IF p \in m.track THEN [m EXCEPT !.track = @ \ {p}]
    ELSE IF p \in m.road THEN Finished(Cleared(m, {p}))
    ELSE m

\* remove_at_tiles: first the roundabouts, then tile by tile.
RemovedAtTiles(m, points) ==
    LET hit == RoundaboutsHit(m, {points[i] : i \in DOMAIN points})
        members == UNION {s.footprint : s \in hit}
        after[i \in 0..Len(points)] ==
          IF i = 0 THEN WithoutRoundabouts(m, hit)
          ELSE IF points[i] \in members THEN after[i - 1]
          ELSE RemovedAtTile(after[i - 1], points[i])
    IN  after[Len(points)]

-----------------------------------------------------------------------------
(* The player's edits. One that leaves the map as it is counts for nothing. *)

Edit(next) ==
    /\ edits < MaxEdits
    /\ \E m \in {next} : m # map /\ map' = m
    /\ edits' = edits + 1

Init ==
    /\ map = [road |-> {}, track |-> {}, oneWay |-> [p \in Tiles |-> None],
              links |-> [p \in Tiles |-> {}], owner |-> [p \in Tiles |-> None], structures |-> {}]
    /\ edits = 0

\* A tap lays a road on free land and turns the arrow of a road.
LayRoad == \E p \in Taps \ map.road : Edit(RoadLaid(map, p))
LayRoadLine == \E s \in Strokes, preset \in Presets : Edit(RoadLineLaid(map, s, preset))
CycleRoadDirection == \E p \in Taps \cap map.road : Edit(DirectionCycled(map, p))
PlaceRoundabout == \E r \in Roundabouts : Edit(RoundaboutPlaced(map, r[1], r[2]))
LayTrack == \E p \in Taps : Edit(TrackLaid(map, {p}))
LayTrackLine == \E l \in Lines : Edit(TrackLaid(map, {l[i] : i \in DOMAIN l}))
RemoveAtTile == \E p \in Taps \ Occupied : Edit(RemovedAtTile(map, p))
RemoveAtTiles == \E a \in Areas : Edit(RemovedAtTiles(map, a))

Next ==
    \/ LayRoad \/ LayRoadLine \/ CycleRoadDirection \/ PlaceRoundabout
    \/ LayTrack \/ LayTrackLine \/ RemoveAtTile \/ RemoveAtTiles

Spec == Init /\ [][Next]_vars

-----------------------------------------------------------------------------
(* road_topology.rs: what can be driven. A state is a tile with the heading *)
(* a vehicle enters it by.                                                  *)

LaneAccepts(arrow, h) == arrow = None \/ arrow = h

\* Thousandths of a second on top of a tile: straight, right, back, left.
TurnMillis(from, to) ==
    <<0, 500, 2000, 1000>>[((HeadingRank[to] + 4 - HeadingRank[from]) % 4) + 1]
BusTileMillis == 1250
RoundaboutEntryMillis == 750

OrdinaryTransitions(m) ==
    UNION {{[from |-> <<p, i>>, to |-> <<Offset(p, o), o>>, millis |-> BusTileMillis + TurnMillis(i, o)]
              : i \in {i \in Headings : LaneAccepts(m.oneWay[p], i)},
                o \in {o \in m.links[p] : /\ LaneAccepts(m.oneWay[p], o)
                                          /\ ReciprocalConnection(m, p, o)
                                          /\ LaneAccepts(m.oneWay[Offset(p, o)], o)}}
             : p \in {p \in m.road : m.owner[p] = None}}

\* A junction is crossed in one step, from one port to another or back out.
JunctionTransitions(m, s) ==
    LET live == {x \in s.ports : /\ x.point \in m.road /\ x.edge \in m.links[x.point]
                                 /\ ReciprocalConnection(m, x.point, x.edge)}
        Beyond(x) == Offset(x.point, x.edge)
        Gap(a, b) == IF a < b THEN b - a ELSE a - b
        crossing(a, b) == Gap(a.point[1], b.point[1]) + Gap(a.point[2], b.point[2]) + 1
    IN  {[from |-> <<a.point, Opposite[a.edge]>>, to |-> <<Beyond(b), b.edge>>,
          millis |-> BusTileMillis * crossing(a, b) + TurnMillis(Opposite[a.edge], b.edge)]
            : a \in {a \in live : LaneAccepts(m.oneWay[Beyond(a)], Opposite[a.edge])},
              b \in {b \in live : LaneAccepts(m.oneWay[Beyond(b)], b.edge)}}

RoundaboutTransitions(m, s) ==
    LET ring == Ring(s.id[2], s.id[3])
        n == Len(ring)
        Succ(i) == (i % n) + 1
        Pred(i) == ((i + n - 2) % n) + 1
        At(p) == CHOOSE i \in 1..n : ring[i] = p
        Outgoing(i) == HeadingBetween(ring[i], ring[Succ(i)])
        Incoming(i) == HeadingBetween(ring[Pred(i)], ring[i])
        live == {x \in s.ports : PortMatchesCurrentMap(m, x)}
    IN  {[from |-> <<ring[i], Incoming(i)>>, to |-> <<ring[Succ(i)], Outgoing(i)>>,
          millis |-> BusTileMillis] : i \in 1..n}
        \cup {[from |-> <<x.point, Opposite[x.edge]>>,
               to |-> <<ring[Succ(At(x.point))], Outgoing(At(x.point))>>,
               millis |-> BusTileMillis + RoundaboutEntryMillis]
                 : x \in {x \in live : x.direction \in {"inbound", "twoWay"}}}
        \cup {[from |-> <<x.point, Incoming(At(x.point))>>,
               to |-> <<Offset(x.point, x.edge), x.edge>>, millis |-> BusTileMillis]
                 : x \in {x \in live : x.direction \in {"outbound", "twoWay"}}}

Transitions(m) ==
    OrdinaryTransitions(m)
        \cup (UNION {JunctionTransitions(m, s) : s \in JunctionsOf(m)})
        \cup (UNION {RoundaboutTransitions(m, s) : s \in RoundaboutsOf(m)})

-----------------------------------------------------------------------------
(* Searches over the topology. Both are Dijkstra's; ties, which the code     *)
(* breaks by preferred headings and by keys, are left open.                 *)

\* The states driven to from one, by some moves.
DrivenFrom(moves, start) ==
    LET driven[S \in SUBSET (Tiles \X Headings)] ==
          LET further == S \cup {move[2] : move \in {move \in moves : move[1] \in S}}
          IN  IF further = S THEN S ELSE driven[further]
    IN  driven[{start}]

\* <<state, milliseconds>> of every state driven to, on the quickest way.
QuickestFrom(T, start) ==
    LET relaxed[D \in SUBSET ((Tiles \X Headings) \X Nat)] ==
          LET all == D \cup UNION {{<<t.to, d[2] + t.millis>> : t \in {t \in T : t.from = d[1]}} : d \in D}
              best == {d \in all : \A e \in all : e[1] = d[1] => d[2] <= e[2]}
          IN  IF best = D THEN D ELSE relaxed[best]
    IN  relaxed[{<<start, 0>>}]

\* A bus starts on a tile by a heading it can keep, if there is one.
RoadStartStates(T, p) ==
    LET here == {t.from : t \in {t \in T : t.from[1] = p}}
        onward == {s \in here : \E t \in T : t.from = s /\ t.to[2] = s[2]}
    IN  IF onward # {} THEN onward ELSE here

\* find_path_between_access_tiles: the quickest ways from p to q, each with the
\* heading it starts by and the one it arrives by.
Paths(T, p, q) ==
    LET all == UNION {{[departs |-> s[2], arrives |-> d[1][2], millis |-> d[2]] :
                         d \in {d \in QuickestFrom(T, s) : d[1][1] = q}} : s \in RoadStartStates(T, p)}
    IN  {w \in all : \A v \in all : w.millis <= v.millis}

\* Fault: a bus turns round only by driving around.
CanReverseByDriving(T, p, arrives, departs) ==
    \/ arrives = departs
    \/ <<p, departs>> \in DrivenFrom({<<t.from, t.to>> : t \in T}, <<p, arrives>>)

\* find_terminal_reversal: a bus that arrives by one heading can leave by the
\* other, at once, by turning on the spot, or by driving around.
CanReverse(T, p, arrives, departs) ==
    \/ arrives = departs
    \/ /\ departs = Opposite[arrives]
       /\ \E t \in T : t.from = <<p, arrives>> /\ t.to[2] = departs
    \/ <<p, departs>> \in DrivenFrom({<<t.from, t.to>> : t \in T}, <<p, arrives>>)

-----------------------------------------------------------------------------
(* persistence/map.rs: what a snapshot must satisfy to be opened again.     *)

\* validate_map: roads have reciprocal links, nothing else has road state.
LinksLoad(m) ==
    \A p \in Tiles :
        /\ p \notin m.road => m.oneWay[p] = None /\ m.links[p] = {}
        /\ \A h \in m.links[p] : ReciprocalConnection(m, p, h)

\* validate_map: InvalidOneWayAxis and InvalidInfrastructureCoexistence.
LayersLoad(m) ==
    /\ m.road \cap m.track = {}
    /\ \A p \in m.road : m.oneWay[p] # None => m.links[p] \subseteq Axis(m.oneWay[p])

\* validate_structures: structures and the tiles they own agree.
StructuresLoad(m) ==
    /\ \A s \in m.structures :
          /\ s.footprint # {}
          /\ s.kind = "junction" => s.footprint \subseteq m.road
          /\ \A p \in s.footprint : m.owner[p] = s.id
          /\ \A x \in s.ports : x.point \in s.footprint
          /\ \A x, y \in s.ports : x.point # y.point \/ x.edge # y.edge \/ x = y
          /\ \A t \in m.structures \ {s} : s.id # t.id /\ s.footprint \cap t.footprint = {}
    /\ \A p \in Tiles : m.owner[p] # None =>
          \E s \in m.structures : s.id = m.owner[p] /\ p \in s.footprint

-----------------------------------------------------------------------------
(* Properties.                                                              *)

\* Whatever roads, junctions and roundabouts are laid over each other and torn
\* down in parts, the links stay reciprocal and every structure agrees with
\* the tiles it owns, as the loader demands.
LinksAndStructuresLoad == LinksLoad(map) /\ StructuresLoad(map)

\* The round-trip test of persistence_construction.rs: "save must load".
SavedMapLoads == LinksLoad(map) /\ StructuresLoad(map) /\ LayersLoad(map)

\* The junctions are found anew on every change of roads, wherever it is. After
\* a change another search would find the same: no later edit elsewhere cuts a
\* link here, turns an arrow or renames a junction. (Placing a roundabout does
\* not search, nor does laying or removing track.)
JunctionsAreFoundAtOnce ==
    [][/\ {s.id : s \in RoundaboutsOf(map')} \subseteq {s.id : s \in RoundaboutsOf(map)}
       /\ map'.track = map.track
       => \A m \in {map'} : Canonicalize(RefreshAutomaticJunctions(m)) = m]_map

\* The compiled topology serves every movement the map shows: across a link
\* from every heading the arrows accept, and through a junction or around a
\* roundabout from every road that leads in to every road that leads out.
\* Ports are read as the next edit would store them (apply_road_mutation
\* reads them before it finds the junctions, so the stored ones may be an edit behind).
EveryMovementIsCompiled ==
    LET m == SyncRoundaboutPorts(map)
        T == {<<t.from, t.to>> : t \in Transitions(m)}
        Inward(p, h) == LaneAccepts(m.oneWay[Offset(p, h)], Opposite[h])
        Outward(p, h) == LaneAccepts(m.oneWay[Offset(p, h)], h)
    IN  /\ \A p \in m.road, i \in Headings : \A h \in m.links[p] :
              (/\ m.owner[p] = None /\ LaneAccepts(m.oneWay[p], i)
               /\ LaneAccepts(m.oneWay[p], h) /\ Outward(p, h))
              => <<<<p, i>>, <<Offset(p, h), h>>>> \in T
        /\ \A s \in m.structures :
              LET edges == Boundary(m, s.footprint)
                  crossing == {t \in T : t[1][1] \in s.footprint}
              IN  \A e \in edges : Inward(e[1], e[2]) =>
                      {<<Offset(x[1], x[2]), x[2]>> : x \in {x \in edges : Outward(x[1], x[2])}}
                          \subseteq DrivenFrom(crossing, <<e[1], Opposite[e[2]]>>)

\* Tiles linked to p, through structures too.
Linked(m, p) ==
    LET linked[S \in SUBSET Tiles] ==
          LET wider == S \cup (UNION {{Offset(q, h) : h \in m.links[q]} : q \in S})
                         \cup (UNION {s.footprint \cap m.road : s \in {s \in m.structures : s.footprint \cap S # {}}})
          IN  IF wider = S THEN S ELSE linked[wider]
    IN  linked[{p}]

\* Where no road has an arrow, a bus line between two linked tiles runs there
\* and back: both ways are found, and the bus can turn round at either end,
\* whichever of the quickest ways it came and goes. (Not at the corner of a
\* loop: the quickest way back may start there by a heading that no road enters
\* the corner by, and find_terminal_reversal then refuses the line.)
LinesRunThereAndBack ==
    LET m == SyncRoundaboutPorts(map)
        T == Transitions(m)
        ends == {p \in Taps \cap m.road : m.owner[p] = None /\ ~HasBothAxes(m.links[p])}
    IN  (\A p \in m.road : m.oneWay[p] = None) =>
        \A p \in ends : \A q \in (ends \cap Linked(m, p)) \ {p} :
            /\ Paths(T, p, q) # {}
            /\ \A there \in Paths(T, p, q), back \in Paths(T, q, p) :
                  CanReverse(T, q, there.arrives, back.departs)

\* A roundabout stands whole or goes whole, whichever of its tiles a stroke,
\* a tap or a rectangle touches.
RoundaboutsWhole ==
    [][\A s \in RoundaboutsOf(map) :
          \/ /\ s.id \in {t.id : t \in RoundaboutsOf(map')}
             /\ s.footprint \cap map'.road = s.footprint \cap map.road
          \/ s.footprint \cap map'.road = {}]_map

=============================================================================
