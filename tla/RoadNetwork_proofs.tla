------------------------ MODULE RoadNetwork_proofs ------------------------
(***************************************************************************)
(* Proofs about RoadNetwork, for every grid, every set of strokes, taps,   *)
(* rectangles and roundabouts: after every edit the map satisfies what the *)
(* loader demands of links and structures, no edit leaves a part of a      *)
(* roundabout, and the compiled topology serves every movement.            *)
(***************************************************************************)
EXTENDS RoadNetwork, FiniteSetTheorems, SequenceTheorems, WellFoundedInduction, TLAPS

-----------------------------------------------------------------------------
(* What a map is made of.                                                   *)

Directions == {"twoWay", "inbound", "outbound", None}
Ports == [point : Tiles, edge : Headings, direction : Directions]
Structures == [id : Ids, kind : {"junction", "roundabout"}, footprint : SUBSET Tiles,
               ports : SUBSET Ports]
Maps == [road : SUBSET Tiles, track : SUBSET Tiles, oneWay : [Tiles -> Headings \cup {None}],
         links : [Tiles -> SUBSET Headings], owner : [Tiles -> Ids \cup {None}],
         structures : SUBSET Structures]

\* Tiles are finitely many.
LEMMA TilesFinite == IsFiniteSet(Tiles)
<1>1. IsFiniteSet(0..(Width - 1)) /\ IsFiniteSet(0..(Height - 1))
  BY FS_Interval, RoadConstants
<1>2. QED
  BY <1>1, FS_Product DEF Tiles

\* What the four headings are to one another.
LEMMA HeadingFacts ==
  ASSUME NEW h \in Headings
  PROVE  /\ Opposite[h] \in Headings /\ Opposite[Opposite[h]] = h
         /\ Axis(h) \subseteq Headings /\ Axis(Opposite[h]) = Axis(h) /\ h \in Axis(h)
         /\ Axis(h) \in {Horizontal, Vertical}
BY DEF Headings, Opposite, Axis, Horizontal, Vertical

\* A tile is a pair of numbers, and so is every tile beside it.
LEMMA OffsetFacts ==
  ASSUME NEW p \in Int \X Int, NEW h \in Headings
  PROVE  /\ Offset(p, h) \in Int \X Int
         /\ Offset(Offset(p, h), Opposite[h]) = p
         /\ \A g \in Headings : Offset(p, g) = Offset(p, h) => g = h
         /\ Offset(p, h) # p
<1>1. PICK x \in Int, y \in Int : p = <<x, y>>
  OBVIOUS
<1>2. \A a, b \in Int, g \in Headings :
        Offset(<<a, b>>, g) = CASE g = "N" -> <<a, b - 1>>
                           [] g = "E" -> <<a + 1, b>>
                           [] g = "S" -> <<a, b + 1>>
                           [] g = "W" -> <<a - 1, b>>
  BY DEF Offset, Ahead, Headings
<1>3. Offset(p, h) \in Int \X Int
  BY <1>1, <1>2 DEF Headings
<1>4. Offset(Offset(p, h), Opposite[h]) = p
  <2>0. Opposite["N"] = "S" /\ Opposite["E"] = "W" /\ Opposite["S"] = "N" /\ Opposite["W"] = "E"
    BY DEF Opposite
  <2>1. CASE h = "N"
    BY <1>1, <1>2, <2>0, <2>1 DEF Headings
  <2>2. CASE h = "E"
    <3>1. PICK z \in Int : z = x + 1
      OBVIOUS
    <3>2. Offset(p, h) = <<z, y>>
      BY <1>1, <2>2, <3>1 DEF Offset, Ahead
    <3>3. Offset(<<z, y>>, "W") = <<z - 1, y>>
      BY <3>1 DEF Offset, Ahead
    <3>4. QED
      BY <1>1, <2>0, <2>2, <3>1, <3>2, <3>3
  <2>3. CASE h = "S"
    BY <1>1, <1>2, <2>0, <2>3 DEF Headings
  <2>4. CASE h = "W"
    <3>1. PICK z \in Int : z = x - 1
      OBVIOUS
    <3>2. Offset(p, h) = <<z, y>>
      BY <1>1, <2>4, <3>1 DEF Offset, Ahead
    <3>3. Offset(<<z, y>>, "E") = <<z + 1, y>>
      BY <3>1 DEF Offset, Ahead
    <3>4. QED
      BY <1>1, <2>0, <2>4, <3>1, <3>2, <3>3
  <2>5. QED
    BY <2>1, <2>2, <2>3, <2>4 DEF Headings
<1>5. \A g \in Headings : Offset(p, g) = Offset(p, h) => g = h
  BY <1>1, <1>2 DEF Headings
<1>6. Offset(p, h) # p
  BY <1>1, <1>2 DEF Headings
<1>7. QED
  BY <1>3, <1>4, <1>5, <1>6

\* The grid is a part of the plane.
LEMMA TilesArePairs == Tiles \subseteq Int \X Int
BY RoadConstants DEF Tiles

-----------------------------------------------------------------------------
(* Induction along numbers. The library's theorems take an operator, which  *)
(* no prover here instantiates; these take a set.                           *)

\* A set of naturals has a smallest one.
LEMMA LeastNumber ==
  ASSUME NEW T \in SUBSET Nat, T # {}
  PROVE  \E x \in T : \A y \in T : x <= y
<1>1. PICK x \in T : \A y \in T : <<y, x>> \notin OpToRel(<, Nat)
  BY NatLessThanWellFounded, WFMin
<1>2. ASSUME NEW y \in T
      PROVE  x <= y
  <2>1. <<y, x>> \in Nat \X Nat
    OBVIOUS
  <2>2. ~(y < x)
    BY <1>1, <2>1 DEF OpToRel
  <2>3. QED
    BY <2>2
<1>3. QED
  BY <1>2

\* A set that holds 0 and with every number the next one holds them all.
LEMMA StepByStep ==
  ASSUME NEW N \in Nat, NEW T \in SUBSET (0..N), 0 \in T,
         \A n \in 1..N : n - 1 \in T => n \in T
  PROVE  \A n \in 0..N : n \in T
<1> SUFFICES ASSUME (0..N) \ T # {}
             PROVE  FALSE
  OBVIOUS
<1>1. PICK x \in (0..N) \ T : \A y \in (0..N) \ T : x <= y
  <2>1. (0..N) \ T \in SUBSET Nat
    OBVIOUS
  <2>2. QED
    BY <2>1, LeastNumber
<1>2. x \in 1..N /\ x - 1 \in 0..N
  BY <1>1
<1>3. x - 1 \in T
  BY <1>1, <1>2
<1>4. QED
  BY <1>1, <1>2, <1>3

\* A function over 0..N that goes on from a start in steps.
Iterates(g, N, base, step) ==
  \A n \in 0..N : g[n] = IF n = 0 THEN base ELSE step[<<n, g[n - 1]>>]
StepsOf(N, M) == [(1..N) \X M -> M]

\* There is one.
LEMMA Iteration ==
  ASSUME NEW M, NEW N \in Nat, NEW base \in M, NEW step \in StepsOf(N, M)
  PROVE  \E g \in [0..N -> M] : Iterates(g, N, base, step)
<1> DEFINE Goes(k, g) == \A n \in 0..k : g[n] = IF n = 0 THEN base ELSE step[<<n, g[n - 1]>>]
           T == {k \in 0..N : \E g \in [0..k -> M] : Goes(k, g)}
<1>1. 0 \in T
  <2>1. PICK g : g = [n \in 0..0 |-> base]
    OBVIOUS
  <2>2. g \in [0..0 -> M] /\ Goes(0, g)
    BY <2>1
  <2>3. QED
    BY <2>2
<1>2. ASSUME NEW n \in 1..N, n - 1 \in T
      PROVE  n \in T
  <2>1. PICK g \in [0..(n - 1) -> M] : Goes(n - 1, g)
    BY <1>2
  <2>2. PICK f : f = [i \in 0..n |-> IF i = n THEN step[<<n, g[n - 1]>>] ELSE g[i]]
    OBVIOUS
  <2>3. g[n - 1] \in M
    OBVIOUS
  <2>4. step[<<n, g[n - 1]>>] \in M
    BY <2>3 DEF StepsOf
  <2>5. \A i \in 0..n : f[i] \in M
    <3>1. TAKE i \in 0..n
    <3>2. CASE i = n
      BY <3>2, <2>2, <2>4
    <3>3. CASE i # n
      BY <3>3, <2>2
    <3>4. QED
      BY <3>2, <3>3
  <2>6. f \in [0..n -> M]
    BY <2>2, <2>5
  <2>7. Goes(n, f)
    <3>1. TAKE i \in 0..n
    <3>2. CASE i = n
      <4>1. n # 0 /\ n - 1 \in 0..n /\ n - 1 # n
        OBVIOUS
      <4>2. f[n - 1] = g[n - 1]
        BY <2>2, <4>1
      <4>3. QED
        BY <3>2, <2>2, <4>1, <4>2
    <3>3. CASE i # n
      <4>1. i \in 0..(n - 1)
        BY <3>3
      <4>2. f[i] = g[i]
        BY <2>2, <3>3
      <4>3. i # 0 => f[i - 1] = g[i - 1]
        BY <2>2, <4>1
      <4>4. QED
        BY <2>1, <4>1, <4>2, <4>3
    <3>4. QED
      BY <3>2, <3>3
  <2>8. n \in 0..N
    OBVIOUS
  <2>9. QED
    BY <2>6, <2>7, <2>8
<1>3. \A n \in 0..N : n \in T
  <2>1. T \in SUBSET (0..N)
    OBVIOUS
  <2> HIDE DEF T
  <2>2. QED
    BY <1>1, <1>2, <2>1, StepByStep
<1>4. QED
  BY <1>3 DEF Iterates

\* Whatever goes on in these steps as long as it stays in the set, stays in it.
LEMMA Recursion ==
  ASSUME NEW M, NEW N \in Nat, NEW base \in M, NEW step \in StepsOf(N, M), NEW f,
         f[0] = base, \A n \in 1..N : f[n - 1] \in M => f[n] = step[<<n, f[n - 1]>>]
  PROVE  f[N] \in M
<1> DEFINE T == {n \in 0..N : f[n] \in M}
<1>1. T \in SUBSET (0..N) /\ 0 \in T
  OBVIOUS
<1>2. ASSUME NEW n \in 1..N, n - 1 \in T
      PROVE  n \in T
  <2>1. f[n] = step[<<n, f[n - 1]>>]
    BY <1>2
  <2>2. QED
    BY <1>2, <2>1 DEF StepsOf
<1> HIDE DEF T
<1>3. \A n \in 0..N : n \in T
  BY <1>1, <1>2, StepByStep
<1>4. N \in 0..N
  OBVIOUS
<1>5. QED
  BY <1>3, <1>4 DEF T

-----------------------------------------------------------------------------
(* The invariant. Between two steps of an edit the junctions are behind the *)
(* tiles, until they are found anew; the roundabouts never are.             *)

Stands(m, s) ==
    /\ s.footprint # {}
    /\ \A p \in s.footprint : m.owner[p] = s.id
    /\ \A x \in s.ports : x.point \in s.footprint
    /\ \A x, y \in s.ports : x.point # y.point \/ x.edge # y.edge \/ x = y

Alone(S) == \A s, t \in S : s.id = t.id => s = t

OwnersKnown(m) ==
    \A p \in Tiles : m.owner[p] # None => \E s \in m.structures : s.id = m.owner[p] /\ p \in s.footprint

Shaped(s) == s.id[1] = s.kind /\ (s.kind = "roundabout" => s.footprint = Footprint(s.id[2], s.id[3]))

\* What holds of a map in the middle of an edit.
Between(m) ==
    /\ m \in Maps /\ OwnersKnown(m)
    /\ \A s \in m.structures : Shaped(s)
    /\ \A s \in RoundaboutsOf(m) : Stands(m, s)
    /\ Alone(RoundaboutsOf(m))

\* Every link over the edge of a junction has a port.
PortsCover(m) ==
    \A s \in JunctionsOf(m) : \A e \in Boundary(m, s.footprint) :
        \E x \in s.ports : x.point = e[1] /\ x.edge = e[2]

\* What holds of a map after it.
Whole(m) ==
    /\ Between(m) /\ LinksLoad(m) /\ PortsCover(m)
    /\ \A s \in m.structures : Stands(m, s) /\ (s.kind = "junction" => s.footprint \subseteq m.road)
    /\ Alone(m.structures)

MapInv == Whole(map) /\ edits \in 0..MaxEdits

\* Two structures with tiles of their own are apart.
LEMMA WholeLoads ==
  ASSUME NEW m, Whole(m)
  PROVE  LinksLoad(m) /\ StructuresLoad(m)
<1>1. ASSUME NEW s \in m.structures, NEW t \in m.structures \ {s}
      PROVE  s.id # t.id /\ s.footprint \cap t.footprint = {}
  <2>1. s.id # t.id
    BY DEF Whole, Alone
  <2>2. QED
    BY <2>1 DEF Whole, Stands
<1>2. QED
  BY <1>1 DEF Whole, Between, Stands, StructuresLoad, OwnersKnown

\* Only links and arrows differ.
Repainted(m, n) ==
    /\ n \in Maps /\ n.road = m.road /\ n.track = m.track /\ n.owner = m.owner
    /\ n.structures = m.structures

\* Other links and arrows leave structures and owners as they were.
LEMMA RepaintedBetween ==
  ASSUME NEW m, NEW n, Between(m), Repainted(m, n)
  PROVE  Between(n) /\ RoundaboutsOf(n) = RoundaboutsOf(m) /\ JunctionsOf(n) = JunctionsOf(m)
<1>1. RoundaboutsOf(n) = RoundaboutsOf(m) /\ JunctionsOf(n) = JunctionsOf(m)
  BY DEF Repainted, RoundaboutsOf, JunctionsOf
<1>2. QED
  BY <1>1 DEF Between, Repainted, OwnersKnown, Stands

\* With no more links, fewer lead over an edge.
LEMMA BoundaryShrinks ==
  ASSUME NEW m, NEW n, NEW F \in SUBSET Tiles, n.road = m.road, m.road \subseteq Tiles,
         \A p \in Tiles : n.links[p] \subseteq m.links[p]
  PROVE  Boundary(n, F) \subseteq Boundary(m, F)
BY DEF Boundary, ReciprocalConnection

\* With no more links, the ports of the junctions still cover them.
LEMMA FewerLinksCovered ==
  ASSUME NEW m, NEW n, m \in Maps, PortsCover(m), n.road = m.road, n.structures = m.structures,
         \A p \in Tiles : n.links[p] \subseteq m.links[p]
  PROVE  PortsCover(n)
<1>1. JunctionsOf(n) = JunctionsOf(m)
  BY DEF JunctionsOf
<1>2. \A s \in JunctionsOf(m) : s.footprint \in SUBSET Tiles
  BY DEF JunctionsOf, Maps, Structures
<1>3. m.road \subseteq Tiles
  BY DEF Maps
<1>4. \A s \in JunctionsOf(m) : Boundary(n, s.footprint) \subseteq Boundary(m, s.footprint)
  BY <1>2, <1>3, BoundaryShrinks
<1>5. QED
  BY <1>1, <1>4 DEF PortsCover

\* With fewer links that load, they leave a whole map whole.
LEMMA RepaintedWhole ==
  ASSUME NEW m, NEW n, Whole(m), Repainted(m, n), LinksLoad(n),
         \A p \in Tiles : n.links[p] \subseteq m.links[p]
  PROVE  Whole(n)
<1>1. Between(n)
  BY RepaintedBetween DEF Whole
<1>2. PortsCover(n)
  BY FewerLinksCovered DEF Whole, Between, Repainted
<1>3. QED
  BY <1>1, <1>2 DEF Whole, Repainted, Stands

\* Repainting twice is repainting.
LEMMA RepaintedTwice ==
  ASSUME NEW m, NEW n, NEW o, Repainted(m, n), Repainted(n, o)
  PROVE  Repainted(m, o)
BY DEF Repainted

-----------------------------------------------------------------------------
(* canonicalize_authored_roads makes the links load.                        *)

\* Each part of a map is of its kind.
LEMMA MapParts ==
  ASSUME NEW m \in Maps
  PROVE  /\ m.road \subseteq Tiles /\ m.track \subseteq Tiles
         /\ \A p \in Tiles : /\ m.oneWay[p] \in Headings \cup {None}
                             /\ m.links[p] \subseteq Headings
                             /\ m.owner[p] \in Ids \cup {None}
         /\ m.structures \subseteq Structures
         /\ m.oneWay \in [Tiles -> Headings \cup {None}]
         /\ m.links \in [Tiles -> SUBSET Headings]
         /\ m.owner \in [Tiles -> Ids \cup {None}]
BY DEF Maps

\* A link that is answered leads to a tile, and is answered there.
LEMMA AnsweredLink ==
  ASSUME NEW m \in Maps, NEW p \in Tiles, NEW h \in m.links[p], ReciprocalConnection(m, p, h), p \in m.road
  PROVE  /\ h \in Headings /\ Opposite[h] \in Headings /\ Offset(p, h) \in Tiles
         /\ Offset(Offset(p, h), Opposite[h]) = p /\ Opposite[Opposite[h]] = h
         /\ Opposite[h] \in m.links[Offset(p, h)]
         /\ ReciprocalConnection(m, Offset(p, h), Opposite[h])
<1>1. h \in Headings /\ Offset(p, h) \in Tiles /\ Opposite[h] \in m.links[Offset(p, h)]
  BY MapParts DEF ReciprocalConnection
<1>2. /\ Offset(Offset(p, h), Opposite[h]) = p
      /\ Opposite[Opposite[h]] = h /\ Opposite[h] \in Headings
  BY <1>1, TilesArePairs, OffsetFacts, HeadingFacts
<1>3. ReciprocalConnection(m, Offset(p, h), Opposite[h])
  BY <1>2 DEF ReciprocalConnection
<1>4. QED
  BY <1>1, <1>2, <1>3

\* Whether a link is lateral does not depend on the end it is looked at from.
LEMMA LateralFromBothEnds ==
  ASSUME NEW m \in Maps, NEW p \in Tiles, NEW h \in Headings, Offset(p, h) \in Tiles,
         NEW c \in BOOLEAN,
         IsLateralParallelOneWayLink(m, Offset(p, h), Opposite[h], c)
  PROVE  IsLateralParallelOneWayLink(m, p, h, c)
<1> DEFINE q == Offset(p, h)
           a == m.oneWay[p]
           b == m.oneWay[q]
<1>1. Offset(q, Opposite[h]) = p
  BY TilesArePairs, OffsetFacts
<1>2. /\ b # None /\ a # None
      /\ Axis(b) = Axis(a) /\ Opposite[h] \notin Axis(b)
      /\ m.links[q] \cap Axis(b) # {} /\ m.links[p] \cap Axis(a) # {}
      /\ c => b \in m.links[q] /\ a \in m.links[p]
  BY <1>1 DEF IsLateralParallelOneWayLink
<1>3. a \in Headings
  BY <1>2, MapParts
<1>4. h \notin Axis(a)
  <2>1. Axis(a) \in {Horizontal, Vertical}
    BY <1>3, HeadingFacts
  <2>2. \A A \in {Horizontal, Vertical} : h \in A => Opposite[h] \in A
    BY DEF Horizontal, Vertical, Headings, Opposite
  <2>3. QED
    BY <1>2, <2>1, <2>2
<1>5. QED
  BY <1>2, <1>4 DEF IsLateralParallelOneWayLink

\* After canonicalize_authored_roads every link is answered, whatever was
\* there.
LEMMA CanonicalizeLoads ==
  ASSUME NEW m \in Maps
  PROVE  /\ Repainted(m, Canonicalize(m)) /\ LinksLoad(Canonicalize(m))
         /\ \A p \in Tiles : Canonicalize(m).links[p] \subseteq m.links[p]
<1> DEFINE arrows == [p \in Tiles |-> IF p \in m.road THEN m.oneWay[p] ELSE None]
           links == [p \in Tiles |->
             IF p \notin m.road THEN {}
             ELSE {h \in m.links[p] : /\ ReciprocalConnection(m, p, h)
                                      /\ ~IsLateralParallelOneWayLink(m, p, h, TRUE)}]
           n == [m EXCEPT !.oneWay = arrows, !.links = links]
<1>0. n = Canonicalize(m)
  BY DEF Canonicalize
<1>1. arrows \in [Tiles -> Headings \cup {None}]
  BY MapParts
<1>2. links \in [Tiles -> SUBSET Headings]
  BY MapParts
<1> HIDE DEF arrows, links
<1>3. /\ n \in Maps /\ n.road = m.road /\ n.track = m.track /\ n.owner = m.owner
      /\ n.structures = m.structures /\ n.oneWay = arrows /\ n.links = links
  BY <1>1, <1>2 DEF Maps
<1> HIDE DEF n
<1>4. ASSUME NEW p \in Tiles, p \notin n.road
      PROVE  n.oneWay[p] = None /\ n.links[p] = {}
  BY <1>3, <1>4 DEF arrows, links
<1>5. ASSUME NEW p \in Tiles, NEW h \in n.links[p]
      PROVE  ReciprocalConnection(n, p, h)
  <2>1. /\ p \in m.road /\ h \in m.links[p] /\ ReciprocalConnection(m, p, h)
        /\ ~IsLateralParallelOneWayLink(m, p, h, TRUE)
    BY <1>3, <1>5 DEF links
  <2>2. /\ h \in Headings /\ Offset(p, h) \in Tiles /\ Opposite[h] \in m.links[Offset(p, h)]
        /\ ReciprocalConnection(m, Offset(p, h), Opposite[h])
    BY <2>1, AnsweredLink
  <2>3. ~IsLateralParallelOneWayLink(m, Offset(p, h), Opposite[h], TRUE)
    BY <2>1, <2>2, LateralFromBothEnds
  <2>4. Offset(p, h) \in m.road
    BY <2>1 DEF ReciprocalConnection
  <2>5. Opposite[h] \in links[Offset(p, h)]
    BY <2>2, <2>3, <2>4 DEF links
  <2>6. QED
    BY <1>3, <2>4, <2>5 DEF ReciprocalConnection
<1>6. LinksLoad(n)
  BY <1>4, <1>5 DEF LinksLoad
<1>7. Repainted(m, n)
  BY <1>3 DEF Repainted
<1>8. \A p \in Tiles : n.links[p] \subseteq m.links[p]
  BY <1>3 DEF links
<1>9. QED
  BY <1>0, <1>6, <1>7, <1>8

\* It touches links and arrows only.
LEMMA CanonicalizeKeeps ==
  ASSUME NEW m, Between(m)
  PROVE  /\ Between(Canonicalize(m)) /\ LinksLoad(Canonicalize(m)) /\ Repainted(m, Canonicalize(m))
         /\ \A p \in Tiles : Canonicalize(m).links[p] \subseteq m.links[p]
<1>1. m \in Maps
  BY DEF Between
<1>2. QED
  BY <1>1, CanonicalizeLoads, RepaintedBetween

-----------------------------------------------------------------------------
(* sync_roundabout_ports: the ports of a roundabout are read anew.          *)

\* A link over the edge of a footprint is answered by a road outside it.
LEMMA BoundaryType ==
  ASSUME NEW m \in Maps, NEW F \in SUBSET Tiles
  PROVE  /\ Boundary(m, F) \in SUBSET (Tiles \X Headings)
         /\ \A e \in Boundary(m, F) : /\ e[1] \in F /\ e[2] \in Headings /\ e[2] \in m.links[e[1]]
                                      /\ Offset(e[1], e[2]) \in m.road /\ Offset(e[1], e[2]) \in Tiles
                                      /\ Opposite[e[2]] \in m.links[Offset(e[1], e[2])]
                                      /\ Offset(e[1], e[2]) \notin F
BY MapParts DEF Boundary, ReciprocalConnection

\* A port has one of the directions.
LEMMA PortDirectionType ==
  ASSUME NEW edge, NEW arrow
  PROVE  PortDirection(edge, arrow) \in Directions
BY DEF PortDirection, Directions

\* Ports stand on the footprint, one for each edge.
LEMMA PortsStand ==
  ASSUME NEW m \in Maps, NEW F \in SUBSET Tiles
  PROVE  /\ BoundaryPorts(m, F) \in SUBSET Ports
         /\ \A x \in BoundaryPorts(m, F) : x.point \in F
         /\ \A x, y \in BoundaryPorts(m, F) : x.point # y.point \/ x.edge # y.edge \/ x = y
         /\ RecaptureBoundaryPorts(m, F) \subseteq BoundaryPorts(m, F)
<1> DEFINE port(e) == [point |-> e[1], edge |-> e[2],
                       direction |-> PortDirection(e[2], m.oneWay[Offset(e[1], e[2])])]
<1>1. BoundaryPorts(m, F) = {port(e) : e \in Boundary(m, F)}
  BY DEF BoundaryPorts
<1>2. \A e \in Boundary(m, F) : e = <<e[1], e[2]>> /\ e[1] \in F /\ e[1] \in Tiles /\ e[2] \in Headings
  BY BoundaryType
<1>3. \A e \in Boundary(m, F) : port(e) \in Ports
  BY <1>2, PortDirectionType DEF Ports
<1>4. \A e \in Boundary(m, F) : port(e).point = e[1] /\ port(e).edge = e[2]
  OBVIOUS
<1> HIDE DEF port
<1>5. \A x, y \in BoundaryPorts(m, F) : x.point # y.point \/ x.edge # y.edge \/ x = y
  <2>1. SUFFICES ASSUME NEW x \in BoundaryPorts(m, F), NEW y \in BoundaryPorts(m, F),
                        x.point = y.point, x.edge = y.edge
                 PROVE  x = y
    OBVIOUS
  <2>2. PICK d \in Boundary(m, F), e \in Boundary(m, F) : x = port(d) /\ y = port(e)
    BY <1>1
  <2>3. d = e
    BY <2>1, <2>2, <1>2, <1>4
  <2>4. QED
    BY <2>2, <2>3
<1>6. QED
  BY <1>1, <1>2, <1>3, <1>4, <1>5 DEF RecaptureBoundaryPorts

Synced(m, s) ==
  IF s.kind = "roundabout"
  THEN [s EXCEPT !.ports = RecaptureBoundaryPorts(m, s.footprint)] ELSE s

\* A structure keeps all but its ports.
LEMMA SyncedStructure ==
  ASSUME NEW m \in Maps, NEW s \in Structures
  PROVE  /\ Synced(m, s) \in Structures
         /\ Synced(m, s).id = s.id /\ Synced(m, s).kind = s.kind
         /\ Synced(m, s).footprint = s.footprint
         /\ s.kind = "roundabout" => Synced(m, s).ports = RecaptureBoundaryPorts(m, s.footprint)
         /\ s.kind # "roundabout" => Synced(m, s) = s
<1>1. s.footprint \in SUBSET Tiles
  BY DEF Structures
<1>2. RecaptureBoundaryPorts(m, s.footprint) \in SUBSET Ports
  BY <1>1, PortsStand
<1>3. QED
  BY <1>2 DEF Synced, Structures

\* What two maps have in common when the same roundabouts stand in both.
Marks(m) == {<<s.id, s.footprint>> : s \in RoundaboutsOf(m)}

\* The structures with their ports read anew.
LEMMA SyncKeeps ==
  ASSUME NEW m, Between(m)
  PROVE  /\ Between(SyncRoundaboutPorts(m)) /\ Marks(SyncRoundaboutPorts(m)) = Marks(m)
         /\ SyncRoundaboutPorts(m).road = m.road
<1> DEFINE n == SyncRoundaboutPorts(m)
<1>1. m \in Maps
  BY DEF Between
<1>2. n = [m EXCEPT !.structures = {Synced(m, s) : s \in m.structures}]
  BY DEF SyncRoundaboutPorts, Synced
<1>3. {Synced(m, s) : s \in m.structures} \in SUBSET Structures
  BY <1>1, MapParts, SyncedStructure
<1>4. /\ n \in Maps /\ n.structures = {Synced(m, s) : s \in m.structures} /\ n.owner = m.owner
      /\ n.road = m.road
  BY <1>1, <1>2, <1>3 DEF Maps
<1> HIDE DEF n
<1>5. \A s \in m.structures : /\ Synced(m, s).id = s.id /\ Synced(m, s).kind = s.kind
                              /\ Synced(m, s).footprint = s.footprint
  BY <1>1, MapParts, SyncedStructure
<1>6. RoundaboutsOf(n) = {Synced(m, s) : s \in RoundaboutsOf(m)}
  BY <1>4, <1>5 DEF RoundaboutsOf
<1>7. OwnersKnown(n)
  BY <1>4, <1>5 DEF Between, OwnersKnown
<1>8. \A s \in n.structures : Shaped(s)
  BY <1>4, <1>5 DEF Between, Shaped
<1>9. ASSUME NEW s \in RoundaboutsOf(m)
      PROVE  Stands(n, Synced(m, s))
  <2>1. s \in m.structures /\ s.kind = "roundabout" /\ s \in Structures /\ Stands(m, s)
    BY <1>1, MapParts DEF RoundaboutsOf, Between
  <2>2. Synced(m, s).ports = RecaptureBoundaryPorts(m, s.footprint) /\ s.footprint \in SUBSET Tiles
    BY <1>1, <2>1, SyncedStructure DEF Structures
  <2>3. QED
    BY <1>1, <1>4, <1>5, <2>1, <2>2, PortsStand DEF Stands
<1>10. Alone(RoundaboutsOf(n))
  <2>1. \A s \in RoundaboutsOf(m) : s \in m.structures
    BY DEF RoundaboutsOf
  <2>2. QED
    BY <1>5, <1>6, <2>1 DEF Between, Alone
<1>11. Marks(n) = Marks(m)
  <2>1. \A s \in RoundaboutsOf(m) : s \in m.structures
    BY DEF RoundaboutsOf
  <2>2. QED
    BY <1>5, <1>6, <2>1 DEF Marks
<1>12. QED
  BY <1>4, <1>6, <1>7, <1>8, <1>9, <1>10, <1>11 DEF Between, n

-----------------------------------------------------------------------------
(* The old junctions are forgotten.                                         *)

\* Without its junctions a map has no owners but roundabouts.
LEMMA ForgottenBare ==
  ASSUME NEW m, Between(m), LinksLoad(m)
  PROVE  /\ Between(Forgotten(m)) /\ LinksLoad(Forgotten(m))
         /\ Forgotten(m).structures = RoundaboutsOf(m) /\ RoundaboutsOf(Forgotten(m)) = RoundaboutsOf(m)
         /\ Forgotten(m).road = m.road
<1> DEFINE owner == [p \in Tiles |->
                  IF \E s \in JunctionsOf(m) : s.id = m.owner[p] THEN None ELSE m.owner[p]]
           n == Forgotten(m)
<1>1. m \in Maps
  BY DEF Between
<1>2. owner \in [Tiles -> Ids \cup {None}]
  BY <1>1, MapParts
<1>3. m.structures \ JunctionsOf(m) = RoundaboutsOf(m)
  BY <1>1, MapParts DEF JunctionsOf, RoundaboutsOf, Structures
<1>4. n = [m EXCEPT !.owner = owner, !.structures = m.structures \ JunctionsOf(m)]
  BY DEF Forgotten
<1> HIDE DEF owner
<1>5. /\ n \in Maps /\ n.owner = owner /\ n.structures = RoundaboutsOf(m)
      /\ n.road = m.road /\ n.links = m.links /\ n.oneWay = m.oneWay
  BY <1>1, <1>2, <1>3, <1>4 DEF Maps
<1> HIDE DEF n
<1>6. RoundaboutsOf(n) = RoundaboutsOf(m)
  BY <1>5 DEF RoundaboutsOf
<1>7. LinksLoad(n)
  BY <1>5 DEF LinksLoad, ReciprocalConnection
<1>8. \A s \in RoundaboutsOf(m) : s.id[1] = "roundabout"
  BY DEF Between, RoundaboutsOf, Shaped
<1>9. \A s \in JunctionsOf(m) : s.id[1] = "junction"
  BY DEF Between, JunctionsOf, Shaped
<1>10. ASSUME NEW s \in RoundaboutsOf(m)
       PROVE  Stands(n, s)
  <2>1. Stands(m, s)
    BY DEF Between
  <2>2. s.footprint \subseteq Tiles
    BY <1>1, MapParts DEF RoundaboutsOf, Structures
  <2>3. \A p \in s.footprint : n.owner[p] = s.id
    <3>1. TAKE p \in s.footprint
    <3>2. m.owner[p] = s.id
      BY <2>1 DEF Stands
    <3>3. ~\E t \in JunctionsOf(m) : t.id = m.owner[p]
      BY <1>8, <1>9, <3>2
    <3>4. QED
      BY <1>5, <2>2, <3>2, <3>3 DEF owner
  <2>4. QED
    BY <2>1, <2>3 DEF Stands
<1>11. OwnersKnown(n)
  <2>1. SUFFICES ASSUME NEW p \in Tiles, n.owner[p] # None
                 PROVE  \E s \in RoundaboutsOf(m) : s.id = n.owner[p] /\ p \in s.footprint
    BY <1>5 DEF OwnersKnown
  <2>2. n.owner[p] = m.owner[p] /\ m.owner[p] # None /\ ~\E s \in JunctionsOf(m) : s.id = m.owner[p]
    BY <1>5, <2>1 DEF owner
  <2>3. PICK s \in m.structures : s.id = m.owner[p] /\ p \in s.footprint
    BY <2>2 DEF Between, OwnersKnown
  <2>4. s \in RoundaboutsOf(m)
    BY <1>3, <2>2, <2>3
  <2>5. QED
    BY <2>2, <2>3, <2>4
<1>12. \A s \in n.structures : Shaped(s)
  BY <1>5 DEF Between, RoundaboutsOf
<1>13. Between(n)
  BY <1>5, <1>6, <1>10, <1>11, <1>12 DEF Between
<1>14. QED
  BY <1>5, <1>6, <1>7, <1>13 DEF n

-----------------------------------------------------------------------------
(* The pruning changes links and arrows only.                               *)

\* Cutting links repaints.
LEMMA DisconnectRepaints ==
  ASSUME NEW m \in Maps, NEW E
  PROVE  Repainted(m, Disconnect(m, E))
<1> DEFINE links == [p \in Tiles |->
             {h \in m.links[p] : /\ <<p, h>> \notin E
                                 /\ <<Offset(p, h), Opposite[h]>> \notin E}]
<1>1. links \in [Tiles -> SUBSET Headings]
  BY MapParts
<1>2. Disconnect(m, E) = [m EXCEPT !.links = links]
  BY DEF Disconnect
<1> HIDE DEF links
<1>3. QED
  BY <1>1, <1>2 DEF Repainted, Maps

Rounds(m) == [map : {n \in Maps : Repainted(m, n) /\ LinksLoad(n)}, done : BOOLEAN]

NextRound(before, former) ==
  LET E == UNION {PrunedEdges(before.map, F, former) : F \in Components(before.map)}
  IN  IF before.done THEN before
      ELSE IF E = {} THEN [before EXCEPT !.done = TRUE]
      ELSE CHOOSE pruned \in {[map |-> Canonicalize(m2), done |-> FALSE] :
                               m2 \in {Disconnect(before.map, E)}} : TRUE

\* A round of pruning repaints.
LEMMA NextRoundType ==
  ASSUME NEW m \in Maps, NEW former, NEW before \in Rounds(m)
  PROVE  NextRound(before, former) \in Rounds(m)
<1> DEFINE E == UNION {PrunedEdges(before.map, F, former) : F \in Components(before.map)}
           d == Disconnect(before.map, E)
           pruned == [map |-> Canonicalize(d), done |-> FALSE]
<1>1. before.map \in Maps /\ Repainted(m, before.map)
  BY DEF Rounds
<1>2. NextRound(before, former) \in {before, [before EXCEPT !.done = TRUE], pruned}
  <2>1. NextRound(before, former) =
          IF before.done THEN before
          ELSE IF E = {} THEN [before EXCEPT !.done = TRUE]
          ELSE CHOOSE x \in {[map |-> Canonicalize(m2), done |-> FALSE] : m2 \in {d}} : TRUE
    BY DEF NextRound
  <2> HIDE DEF E, d
  <2>2. {[map |-> Canonicalize(m2), done |-> FALSE] : m2 \in {d}} = {pruned}
    OBVIOUS
  <2> HIDE DEF pruned
  <2>3. (CHOOSE x \in {pruned} : TRUE) = pruned
    OBVIOUS
  <2>4. QED
    BY <2>1, <2>2, <2>3
<1> HIDE DEF E
<1>3. Repainted(before.map, d)
  BY <1>1, DisconnectRepaints
<1> HIDE DEF d
<1>4. d \in Maps /\ Repainted(m, d)
  BY <1>1, <1>3, RepaintedTwice DEF Repainted
<1>5. Repainted(d, Canonicalize(d)) /\ LinksLoad(Canonicalize(d))
  BY <1>4, CanonicalizeLoads
<1>6. Repainted(m, Canonicalize(d)) /\ Canonicalize(d) \in Maps
  BY <1>4, <1>5, RepaintedTwice DEF Repainted
<1>7. pruned \in Rounds(m)
  BY <1>5, <1>6 DEF Rounds
<1>8. [before EXCEPT !.done = TRUE] \in Rounds(m)
  BY DEF Rounds
<1>9. QED
  BY <1>2, <1>7, <1>8

\* All rounds of it do.
LEMMA SettledRepaints ==
  ASSUME NEW m \in Maps, LinksLoad(m), NEW former
  PROVE  Repainted(m, Settled(m, former)) /\ LinksLoad(Settled(m, former))
<1> DEFINE N == Cardinality(Tiles) + 1
           base == [map |-> m, done |-> FALSE]
           round == CHOOSE f : f = [n \in 0..N |-> IF n = 0 THEN base ELSE NextRound(f[n - 1], former)]
<1>1. N \in Nat /\ N \in 0..N
  BY TilesFinite, FS_CardinalityType
<1>2. Settled(m, former) = round[N].map
  BY DEF Settled, NextRound
<1> HIDE DEF N
<1>3. base \in Rounds(m)
  BY DEF Rounds, Repainted
<1> HIDE DEF base
<1>4. PICK step : step = [x \in (1..N) \X Rounds(m) |-> NextRound(x[2], former)]
  OBVIOUS
<1>5. step \in StepsOf(N, Rounds(m))
  BY <1>4, NextRoundType DEF StepsOf
<1>6. PICK g \in [0..N -> Rounds(m)] : Iterates(g, N, base, step)
  BY <1>1, <1>3, <1>5, Iteration
<1>7. g = [n \in 0..N |-> IF n = 0 THEN base ELSE NextRound(g[n - 1], former)]
  <2>1. ASSUME NEW n \in 0..N, n # 0
        PROVE  step[<<n, g[n - 1]>>] = NextRound(g[n - 1], former)
    <3>1. n \in 1..N /\ n - 1 \in 0..N
      BY <1>1, <2>1
    <3>2. g[n - 1] \in Rounds(m)
      BY <3>1
    <3>3. QED
      BY <1>4, <3>1, <3>2
  <2>2. QED
    BY <1>6, <2>1 DEF Iterates
<1>8. round = [n \in 0..N |-> IF n = 0 THEN base ELSE NextRound(round[n - 1], former)]
  BY <1>7
<1> HIDE DEF round
<1>9. round[0] = base
  BY <1>1, <1>8
<1>10. \A n \in 1..N : round[n - 1] \in Rounds(m) => round[n] = step[<<n, round[n - 1]>>]
  <2>1. TAKE n \in 1..N
  <2>2. HAVE round[n - 1] \in Rounds(m)
  <2>3. n \in 0..N /\ n # 0
    OBVIOUS
  <2>4. round[n] = NextRound(round[n - 1], former)
    BY <1>8, <2>3
  <2>5. QED
    BY <1>4, <2>2, <2>4
<1>11. round[N] \in Rounds(m)
  BY <1>1, <1>3, <1>5, <1>9, <1>10, Recursion
<1>12. QED
  BY <1>2, <1>11 DEF Rounds

-----------------------------------------------------------------------------
(* Components: the search by rings finds the least set that is closed under *)
(* links, and two of them have no tile in common.                           *)

Wider(m, C, S) == S \cup {q \in C : \E h \in m.links[q] : Offset(q, h) \in S}

Closed(m, C, T) == T \in SUBSET C /\ Wider(m, C, T) = T

Hull(m, C, S) == {q \in C : \A T \in SUBSET C : S \subseteq T /\ Closed(m, C, T) => q \in T}

\* The hull of a set holds it, is closed, and is in every closed set that holds
\* it.
LEMMA HullFacts ==
  ASSUME NEW m, NEW C, NEW S \in SUBSET C
  PROVE  /\ S \subseteq Hull(m, C, S) /\ Closed(m, C, Hull(m, C, S)) /\ Hull(m, C, S) \in SUBSET C
         /\ Closed(m, C, S) => Hull(m, C, S) = S
         /\ Wider(m, C, S) \in SUBSET C
         /\ Hull(m, C, Wider(m, C, S)) = Hull(m, C, S)
<1>1. S \subseteq Hull(m, C, S)
  BY DEF Hull
<1>2. Hull(m, C, S) \in SUBSET C
  BY DEF Hull
<1>3. Wider(m, C, Hull(m, C, S)) \subseteq Hull(m, C, S)
  <2>1. SUFFICES ASSUME NEW q \in C, NEW h \in m.links[q], Offset(q, h) \in Hull(m, C, S)
                 PROVE  q \in Hull(m, C, S)
    BY DEF Wider
  <2>2. SUFFICES ASSUME NEW T \in SUBSET C, S \subseteq T, Closed(m, C, T)
                 PROVE  q \in T
    BY DEF Hull
  <2>3. Offset(q, h) \in T
    BY <2>1, <2>2 DEF Hull
  <2>4. q \in Wider(m, C, T)
    BY <2>3 DEF Wider
  <2>5. QED
    BY <2>2, <2>4 DEF Closed
<1>4. Closed(m, C, Hull(m, C, S))
  BY <1>2, <1>3 DEF Closed, Wider
<1>5. Closed(m, C, S) => Hull(m, C, S) = S
  BY <1>1 DEF Hull
<1>6. Wider(m, C, S) \in SUBSET C
  BY DEF Wider
<1>7. \A T \in SUBSET C : Closed(m, C, T) => (S \subseteq T <=> Wider(m, C, S) \subseteq T)
  BY DEF Closed, Wider
<1>8. Hull(m, C, Wider(m, C, S)) = Hull(m, C, S)
  BY <1>7 DEF Hull
<1>9. QED
  BY <1>1, <1>2, <1>4, <1>5, <1>6, <1>8

\* A function that goes on as long as the set grows ends in the hull.
LEMMA GrowsToHull ==
  ASSUME NEW m, NEW C, IsFiniteSet(C), NEW f,
         f = [S \in SUBSET C |-> IF Wider(m, C, S) = S THEN S ELSE f[Wider(m, C, S)]]
  PROVE  \A S \in SUBSET C : f[S] = Hull(m, C, S)
<1> DEFINE Wrong == {S \in SUBSET C : f[S] # Hull(m, C, S)}
           left == {Cardinality(C \ S) : S \in Wrong}
<1> SUFFICES ASSUME Wrong # {}
             PROVE  FALSE
  OBVIOUS
<1>1. \A S \in SUBSET C : IsFiniteSet(C \ S) /\ Cardinality(C \ S) \in Nat
  BY FS_Subset, FS_CardinalityType
<1>2. left \in SUBSET Nat /\ left # {}
  BY <1>1
<1>3. PICK S \in Wrong : \A n \in left : Cardinality(C \ S) <= n
  <2> HIDE DEF Wrong
  <2>1. PICK k \in left : \A n \in left : k <= n
    BY <1>2, LeastNumber
  <2>2. QED
    BY <2>1
<1> DEFINE W == Wider(m, C, S)
<1>4. S \in SUBSET C /\ f[S] # Hull(m, C, S) /\ W \in SUBSET C /\ S \subseteq W
  BY HullFacts DEF Wider
<1>5. f[S] = IF W = S THEN S ELSE f[W]
  BY <1>4
<1> HIDE DEF W
<1>6. CASE W = S
  <2>1. Closed(m, C, S)
    BY <1>4, <1>6 DEF Closed, W
  <2>2. QED
    BY <1>4, <1>5, <1>6, <2>1, HullFacts
<1>7. CASE W # S
  <2>1. PICK q \in W : q \notin S
    BY <1>4, <1>7
  <2>2. /\ C \ W \subseteq C \ S /\ q \in C \ S /\ q \notin C \ W
    BY <1>4, <2>1
  <2>3. Cardinality(C \ W) < Cardinality(C \ S)
    <3>1. C \ W # C \ S
      BY <2>2
    <3>2. Cardinality(C \ W) <= Cardinality(C \ S) /\ (Cardinality(C \ W) = Cardinality(C \ S) => C \ W = C \ S)
      BY <1>1, <1>4, <2>2, FS_Subset
    <3>3. Cardinality(C \ W) \in Nat /\ Cardinality(C \ S) \in Nat
      BY <1>1, <1>4
    <3>4. QED
      BY <3>1, <3>2, <3>3
  <2>4. W \notin Wrong
    <3>1. SUFFICES ASSUME W \in Wrong
                   PROVE  FALSE
      OBVIOUS
    <3>2. Cardinality(C \ W) \in left
      BY <3>1
    <3>3. Cardinality(C \ W) \in Nat /\ Cardinality(C \ S) \in Nat
      BY <1>1, <1>4
    <3>4. Cardinality(C \ S) <= Cardinality(C \ W)
      BY <1>3, <3>2
    <3>5. QED
      BY <2>3, <3>3, <3>4
  <2>5. f[W] = Hull(m, C, W)
    BY <1>4, <2>4
  <2>6. Hull(m, C, W) = Hull(m, C, S)
    BY <1>4, HullFacts DEF W
  <2>7. QED
    BY <1>4, <1>5, <1>7, <2>5, <2>6
<1>8. QED
  BY <1>6, <1>7

\* A component is all that a candidate is linked to through candidates.
LEMMA ComponentIsHull ==
  ASSUME NEW m, NEW C, IsFiniteSet(C), NEW p \in C
  PROVE  Component(m, C, p) = Hull(m, C, {p})
<1> DEFINE grown == CHOOSE f : f = [S \in SUBSET C |->
                      IF Wider(m, C, S) = S THEN S ELSE f[Wider(m, C, S)]]
<1>1. Component(m, C, p) = grown[{p}]
  BY DEF Component, Wider
<1>2. PICK g : g = [S \in SUBSET C |-> Hull(m, C, S)]
  OBVIOUS
<1>3. g = [S \in SUBSET C |-> IF Wider(m, C, S) = S THEN S ELSE g[Wider(m, C, S)]]
  <2>1. ASSUME NEW S \in SUBSET C
        PROVE  g[S] = IF Wider(m, C, S) = S THEN S ELSE g[Wider(m, C, S)]
    <3>1. g[S] = Hull(m, C, S) /\ g[Wider(m, C, S)] = Hull(m, C, Wider(m, C, S))
      BY <1>2, HullFacts
    <3>2. Wider(m, C, S) = S => Closed(m, C, S)
      BY DEF Closed
    <3>3. QED
      BY <3>1, <3>2, HullFacts
  <2>2. QED
    BY <1>2, <2>1
<1>4. grown = [S \in SUBSET C |-> IF Wider(m, C, S) = S THEN S ELSE grown[Wider(m, C, S)]]
  BY <1>3
<1> HIDE DEF grown
<1>5. \A S \in SUBSET C : grown[S] = Hull(m, C, S)
  BY <1>4, GrowsToHull
<1>6. QED
  BY <1>1, <1>5

\* Links go both ways, so two hulls that meet are one.
LEMMA HullsMeet ==
  ASSUME NEW m \in Maps, LinksLoad(m), NEW C \in SUBSET m.road, NEW p \in C, NEW q \in C,
         Hull(m, C, {p}) \cap Hull(m, C, {q}) # {}
  PROVE  Hull(m, C, {p}) \subseteq Hull(m, C, {q})
<1> DEFINE H == Hull(m, C, {q})
           D == C \ H
<1>1. Closed(m, C, H) /\ H \in SUBSET C /\ {q} \subseteq H
  <2>1. {q} \in SUBSET C
    OBVIOUS
  <2>2. QED
    BY <2>1, HullFacts
<1>2. Closed(m, C, D)
  <2>1. SUFFICES ASSUME NEW r \in C, NEW h \in m.links[r], Offset(r, h) \in D
                 PROVE  r \in D
    BY DEF Closed, Wider
  <2>2. r \in Tiles /\ r \in m.road /\ Offset(r, h) \in C
    BY <2>1, MapParts
  <2>3. ReciprocalConnection(m, r, h)
    BY <2>2 DEF LinksLoad
  <2>4. Offset(Offset(r, h), Opposite[h]) = r /\ Opposite[h] \in m.links[Offset(r, h)]
    BY <2>2, <2>3, AnsweredLink
  <2>5. r \in H => Offset(r, h) \in Wider(m, C, H)
    BY <2>2, <2>4 DEF Wider
  <2>6. QED
    BY <1>1, <2>1, <2>5 DEF Closed
<1>3. p \in H
  <2>1. SUFFICES ASSUME p \in D
                 PROVE  FALSE
    OBVIOUS
  <2>2. Hull(m, C, {p}) \subseteq D
    BY <1>2, <2>1 DEF Hull, Closed
  <2>3. QED
    BY <2>2
<1>4. QED
  BY <1>1, <1>3 DEF Hull

\* Two components are the same or apart.
LEMMA ComponentsApart ==
  ASSUME NEW m \in Maps, LinksLoad(m)
  PROVE  /\ \A F \in Components(m) : F # {} /\ F \subseteq Candidates(m)
         /\ \A F, G \in Components(m) : F \cap G # {} => F = G
         /\ Candidates(m) \subseteq m.road /\ Candidates(m) \in SUBSET Tiles
         /\ IsFiniteSet(Candidates(m))
<1> DEFINE C == Candidates(m)
<1>1. C \in SUBSET m.road /\ C \in SUBSET Tiles
  BY MapParts DEF Candidates
<1>2. IsFiniteSet(C)
  BY <1>1, TilesFinite, FS_Subset
<1>3. Components(m) = {Component(m, C, p) : p \in C}
  BY DEF Components
<1> HIDE DEF C
<1>4. \A p \in C : Component(m, C, p) = Hull(m, C, {p})
  BY <1>2, ComponentIsHull
<1>5. \A F \in Components(m) : F # {} /\ F \subseteq C
  <2>1. TAKE F \in Components(m)
  <2>2. PICK p \in C : F = Hull(m, C, {p})
    BY <1>3, <1>4
  <2>3. {p} \subseteq F /\ F \subseteq C
    <3>1. {p} \in SUBSET C
      OBVIOUS
    <3>2. QED
      BY <2>2, <3>1, HullFacts
  <2>4. QED
    BY <2>3
<1>6. \A F, G \in Components(m) : F \cap G # {} => F = G
  <2>1. SUFFICES ASSUME NEW F \in Components(m), NEW G \in Components(m), F \cap G # {}
                 PROVE  F = G
    OBVIOUS
  <2>2. PICK p \in C, q \in C : F = Hull(m, C, {p}) /\ G = Hull(m, C, {q})
    BY <1>3, <1>4
  <2>3. F \subseteq G /\ G \subseteq F
    BY <1>1, <2>1, <2>2, HullsMeet
  <2>4. QED
    BY <2>3
<1>7. QED
  BY <1>1, <1>2, <1>5, <1>6 DEF C

-----------------------------------------------------------------------------
(* The junctions that are found stand on tiles nobody owned.                *)

Found(m) ==
  {JunctionOn(m, F) : F \in {F \in Components(m) : /\ PortAxes(m, F) = Headings
                                                   /\ Cardinality(Boundary(m, F)) >= 3}}
Covered(m) == UNION {s.footprint : s \in Found(m)}
JunctionAt(m, p) == CHOOSE s \in Found(m) : p \in s.footprint

\* A junction stands on its component, with its ports on the edge.
LEMMA JunctionStands ==
  ASSUME NEW m \in Maps, NEW F \in SUBSET Tiles
  PROVE  /\ JunctionOn(m, F) \in Structures /\ JunctionOn(m, F).footprint = F
         /\ JunctionOn(m, F).id = <<"junction", F, Boundary(m, F)>>
         /\ JunctionOn(m, F).kind = "junction" /\ Shaped(JunctionOn(m, F))
         /\ \A x \in JunctionOn(m, F).ports : x.point \in F
         /\ \A e \in Boundary(m, F) : \E x \in JunctionOn(m, F).ports : x.point = e[1] /\ x.edge = e[2]
         /\ \A x, y \in JunctionOn(m, F).ports : x.point # y.point \/ x.edge # y.edge \/ x = y
<1> DEFINE s == JunctionOn(m, F)
           port(e) == [point |-> e[1], edge |-> e[2], direction |-> None]
<1>1. s = [id |-> <<"junction", F, Boundary(m, F)>>, kind |-> "junction", footprint |-> F,
           ports |-> {port(e) : e \in Boundary(m, F)}]
  BY DEF JunctionOn
<1>2. \A e \in Boundary(m, F) : e = <<e[1], e[2]>> /\ e[1] \in F /\ e[1] \in Tiles /\ e[2] \in Headings
  BY BoundaryType
<1>3. \A e \in Boundary(m, F) : /\ port(e) \in Ports /\ port(e).point \in F
                                /\ port(e).point = e[1] /\ port(e).edge = e[2]
  BY <1>2 DEF Ports, Directions
<1> HIDE DEF s, port
<1>4. \A x, y \in {port(e) : e \in Boundary(m, F)} : x.point # y.point \/ x.edge # y.edge \/ x = y
  BY <1>2, <1>3
<1>5. <<"junction", F, Boundary(m, F)>> \in Ids
  BY BoundaryType DEF Ids
<1>6. s \in Structures
  BY <1>1, <1>3, <1>5 DEF Structures
<1>7. Shaped(s)
  BY <1>1 DEF Shaped
<1>8. \A e \in Boundary(m, F) : \E x \in s.ports : x.point = e[1] /\ x.edge = e[2]
  <2>1. TAKE e \in Boundary(m, F)
  <2>2. port(e) \in s.ports
    BY <1>1
  <2>3. QED
    BY <1>3, <2>2
<1>9. QED
  BY <1>1, <1>3, <1>4, <1>6, <1>7, <1>8 DEF s

\* The junctions found have names and tiles of their own.
LEMMA FoundApart ==
  ASSUME NEW m \in Maps, LinksLoad(m)
  PROVE  /\ \A s \in Found(m) : /\ s \in Structures /\ s.kind = "junction" /\ Shaped(s)
                                /\ s.footprint # {} /\ s.footprint \subseteq Candidates(m)
                                /\ s.id[1] = "junction"
                                /\ \A x \in s.ports : x.point \in s.footprint
                                /\ \A x, y \in s.ports : x.point # y.point \/ x.edge # y.edge \/ x = y
                                /\ \A e \in Boundary(m, s.footprint) :
                                      \E x \in s.ports : x.point = e[1] /\ x.edge = e[2]
         /\ Alone(Found(m))
         /\ \A s \in Found(m) : \A p \in s.footprint : JunctionAt(m, p) = s
         /\ Covered(m) \subseteq Candidates(m)
<1>1. \A s \in Found(m) : \E F \in Components(m) : s = JunctionOn(m, F)
  BY DEF Found
<1>2. \A F \in Components(m) : F # {} /\ F \subseteq Candidates(m) /\ F \in SUBSET Tiles
  BY ComponentsApart
<1>3. \A s \in Found(m) : /\ s \in Structures /\ s.kind = "junction" /\ Shaped(s)
                          /\ s.footprint # {} /\ s.footprint \subseteq Candidates(m)
                          /\ s.id[1] = "junction"
                          /\ \A x \in s.ports : x.point \in s.footprint
                          /\ \A x, y \in s.ports : x.point # y.point \/ x.edge # y.edge \/ x = y
                          /\ \A e \in Boundary(m, s.footprint) :
                                \E x \in s.ports : x.point = e[1] /\ x.edge = e[2]
                          /\ s.footprint \in Components(m) /\ s = JunctionOn(m, s.footprint)
                          /\ s.id = <<"junction", s.footprint, Boundary(m, s.footprint)>>
  <2>1. TAKE s \in Found(m)
  <2>2. PICK F \in Components(m) : s = JunctionOn(m, F)
    BY <1>1
  <2>3. QED
    BY <1>2, <2>2, JunctionStands
<1>4. Alone(Found(m))
  <2>1. SUFFICES ASSUME NEW s \in Found(m), NEW t \in Found(m), s.id = t.id
                 PROVE  s = t
    BY DEF Alone
  <2>2. s.footprint = t.footprint
    BY <1>3, <2>1
  <2>3. QED
    BY <1>3, <2>2
<1>5. \A s, t \in Found(m) : s.footprint \cap t.footprint # {} => s = t
  BY <1>3, ComponentsApart
<1>6. \A s \in Found(m) : \A p \in s.footprint : JunctionAt(m, p) = s
  <2>1. TAKE s \in Found(m)
  <2>2. TAKE p \in s.footprint
  <2>3. JunctionAt(m, p) \in Found(m) /\ p \in JunctionAt(m, p).footprint
    BY DEF JunctionAt
  <2>4. QED
    BY <1>5, <2>3
<1>7. Covered(m) \subseteq Candidates(m)
  BY <1>3 DEF Covered
<1>8. QED
  BY <1>3, <1>4, <1>6, <1>7

\* A settled map with its junctions is whole.
LEMMA WithJunctionsWhole ==
  ASSUME NEW m, Between(m), LinksLoad(m), m.structures = RoundaboutsOf(m)
  PROVE  /\ Whole(WithJunctions(m)) /\ RoundaboutsOf(WithJunctions(m)) = RoundaboutsOf(m)
         /\ WithJunctions(m).road = m.road
<1> DEFINE owner == [p \in Tiles |-> IF p \in Covered(m) THEN JunctionAt(m, p).id ELSE m.owner[p]]
           arrows == [p \in Tiles |-> IF p \in Covered(m) THEN None ELSE m.oneWay[p]]
           w == WithJunctions(m)
<1>1. m \in Maps
  BY DEF Between
<1>2. w = [m EXCEPT !.owner = owner, !.oneWay = arrows, !.structures = m.structures \cup Found(m)]
  BY DEF WithJunctions, Found, Covered, JunctionAt
<1>3. \A p \in Covered(m) : JunctionAt(m, p) \in Found(m) /\ p \in JunctionAt(m, p).footprint
  BY DEF Covered, JunctionAt
<1>4. Found(m) \subseteq Structures
  BY <1>1, FoundApart
<1>5. owner \in [Tiles -> Ids \cup {None}]
  BY <1>1, <1>3, <1>4, MapParts DEF Structures
<1>6. arrows \in [Tiles -> Headings \cup {None}]
  BY <1>1, MapParts
<1> HIDE DEF owner, arrows
<1>7. m.structures \cup Found(m) \in SUBSET Structures
  BY <1>1, <1>4, MapParts
<1>8. /\ w \in Maps /\ w.owner = owner /\ w.oneWay = arrows /\ w.structures = m.structures \cup Found(m)
      /\ w.road = m.road /\ w.links = m.links
  BY <1>1, <1>2, <1>5, <1>6, <1>7 DEF Maps
<1> HIDE DEF w
<1>9. RoundaboutsOf(w) = RoundaboutsOf(m)
  <2>1. \A s \in Found(m) : s.kind # "roundabout"
    BY <1>1, FoundApart
  <2>2. QED
    BY <1>8, <2>1 DEF RoundaboutsOf
<1>10. Covered(m) \subseteq Candidates(m) /\ Candidates(m) \subseteq m.road /\ Candidates(m) \subseteq Tiles
  BY <1>1, FoundApart, ComponentsApart
<1>11. \A p \in Covered(m) : m.owner[p] = None
  BY <1>10 DEF Candidates
<1>12. ASSUME NEW s \in RoundaboutsOf(m)
       PROVE  Stands(w, s)
  <2>1. Stands(m, s) /\ s \in Structures
    BY <1>1, MapParts DEF Between, RoundaboutsOf
  <2>2. \A p \in s.footprint : p \in Tiles /\ p \notin Covered(m)
    BY <1>11, <2>1, RoadConstants DEF Stands, Structures
  <2>3. QED
    BY <1>8, <2>1, <2>2 DEF Stands, owner
<1>13. ASSUME NEW s \in Found(m)
       PROVE  Stands(w, s)
  <2>1. \A p \in s.footprint : w.owner[p] = s.id
    <3>1. TAKE p \in s.footprint
    <3>2. p \in Covered(m) /\ p \in Tiles
      BY <1>10 DEF Covered
    <3>3. JunctionAt(m, p) = s
      BY <1>1, FoundApart
    <3>4. QED
      BY <1>8, <3>2, <3>3 DEF owner
  <2>2. QED
    BY <1>1, <2>1, FoundApart DEF Stands
<1>14. OwnersKnown(w)
  <2>1. SUFFICES ASSUME NEW p \in Tiles, w.owner[p] # None
                 PROVE  \E s \in m.structures \cup Found(m) : s.id = w.owner[p] /\ p \in s.footprint
    BY <1>8 DEF OwnersKnown
  <2>2. CASE p \in Covered(m)
    BY <1>3, <1>8, <2>2 DEF owner
  <2>3. CASE p \notin Covered(m)
    <3>1. w.owner[p] = m.owner[p]
      BY <1>8, <2>3 DEF owner
    <3>2. QED
      BY <2>1, <3>1 DEF Between, OwnersKnown
  <2>4. QED
    BY <2>2, <2>3
<1>15. \A s \in w.structures : Shaped(s)
  BY <1>1, <1>8, FoundApart DEF Between
<1>16. Between(w)
  BY <1>8, <1>9, <1>12, <1>14, <1>15 DEF Between
<1>17. LinksLoad(w)
  <2>1. \A p \in Tiles : p \notin m.road => arrows[p] = m.oneWay[p]
    BY <1>10 DEF arrows
  <2>2. QED
    BY <1>8, <2>1 DEF LinksLoad, ReciprocalConnection
<1>18. Alone(w.structures)
  <2>1. \A s \in RoundaboutsOf(m) : s.id[1] = "roundabout"
    BY DEF Between, RoundaboutsOf, Shaped
  <2>2. \A s \in Found(m) : s.id[1] = "junction"
    BY <1>1, FoundApart
  <2>3. Alone(Found(m)) /\ Alone(RoundaboutsOf(m))
    BY <1>1, FoundApart DEF Between
  <2>4. QED
    BY <1>8, <2>1, <2>2, <2>3 DEF Alone
<1>19. \A s \in w.structures : Stands(w, s) /\ (s.kind = "junction" => s.footprint \subseteq w.road)
  <2>1. \A s \in RoundaboutsOf(m) : s.kind # "junction"
    BY DEF RoundaboutsOf
  <2>2. \A s \in Found(m) : s.footprint \subseteq m.road
    BY <1>1, <1>10, FoundApart
  <2>3. QED
    BY <1>8, <1>12, <1>13, <2>1, <2>2
<1>20. PortsCover(w)
  <2>1. \A s \in JunctionsOf(w) : s \in Found(m)
    BY <1>8 DEF JunctionsOf, RoundaboutsOf
  <2>2. \A s \in JunctionsOf(w) : Boundary(w, s.footprint) = Boundary(m, s.footprint)
    BY <1>8 DEF Boundary, ReciprocalConnection
  <2>3. QED
    BY <1>1, <2>1, <2>2, FoundApart DEF PortsCover
<1>21. Whole(w)
  BY <1>16, <1>17, <1>18, <1>19, <1>20 DEF Whole
<1>22. QED
  BY <1>8, <1>9, <1>21 DEF w

-----------------------------------------------------------------------------
(* restore_unowned_lane_directions turns arrows of roads only.              *)

\* What a lane restores is a heading.
LEMMA LaneDirectionsType ==
  ASSUME NEW m, NEW p, NEW h \in Headings
  PROVE  LaneDirections(m, p, h) \subseteq Headings
<1>1. Axis(h) \subseteq Headings
  BY HeadingFacts
<1>2. QED
  BY <1>1 DEF LaneDirections

\* Restoring arrows touches arrows of roads only.
LEMMA RestoreKeeps ==
  ASSUME NEW m, Whole(m), NEW former
  PROVE  Whole(RestoreLaneDirections(m, former)) /\ Repainted(m, RestoreLaneDirections(m, former))
<1> DEFINE inferred(p) == UNION {LaneDirections(m, p, h) : h \in m.links[p]}
           restored(p) == /\ p \in former \cap m.road
                          /\ m.owner[p] = None /\ m.oneWay[p] = None
                          /\ m.links[p] # {} /\ ~HasBothAxes(m.links[p])
                          /\ Cardinality(inferred(p)) = 1
           arrow(p) == IF restored(p) THEN CHOOSE h \in inferred(p) : TRUE ELSE m.oneWay[p]
           arrows == [p \in Tiles |-> arrow(p)]
           n == RestoreLaneDirections(m, former)
<1>1. m \in Maps
  BY DEF Whole, Between
<1>2. n = [m EXCEPT !.oneWay = arrows]
  BY DEF RestoreLaneDirections
<1>3. ASSUME NEW p \in Tiles
      PROVE  arrow(p) \in Headings \cup {None}
  <2>1. m.links[p] \subseteq Headings /\ m.oneWay[p] \in Headings \cup {None}
    BY <1>1, MapParts
  <2>2. inferred(p) \subseteq Headings
    BY <2>1, LaneDirectionsType
  <2>3. CASE restored(p)
    <3>1. Cardinality(inferred(p)) = 1
      BY <2>3
    <3> HIDE DEF inferred
    <3>2. inferred(p) # {}
      BY <3>1, FS_EmptySet
    <3>3. (CHOOSE h \in inferred(p) : TRUE) \in inferred(p)
      BY <3>2
    <3>4. QED
      BY <2>2, <2>3, <3>3
  <2>4. CASE ~restored(p)
    BY <2>1, <2>4
  <2>5. QED
    BY <2>3, <2>4
<1>4. \A p \in Tiles : p \notin m.road => arrow(p) = m.oneWay[p]
  OBVIOUS
<1> HIDE DEF arrow
<1>5. arrows \in [Tiles -> Headings \cup {None}]
  BY <1>3
<1>6. \A p \in Tiles : p \notin m.road => arrows[p] = m.oneWay[p]
  BY <1>4
<1> HIDE DEF arrows
<1>7. /\ Repainted(m, n) /\ n.oneWay = arrows /\ n.links = m.links /\ n.road = m.road
  BY <1>1, <1>2, <1>5 DEF Maps, Repainted
<1> HIDE DEF n
<1>8. LinksLoad(n)
  BY <1>6, <1>7 DEF Whole, LinksLoad, ReciprocalConnection
<1>9. Whole(n)
  BY <1>7, <1>8, RepaintedWhole
<1>10. QED
  BY <1>7, <1>9 DEF n

-----------------------------------------------------------------------------
(* The refresh makes the map whole.                                         *)

\* The refresh is its steps, one after the other.
LEMMA RefreshInSteps ==
  ASSUME NEW m
  PROVE  \E former :
           RefreshAutomaticJunctions(m) =
             RestoreLaneDirections(WithJunctions(Settled(Forgotten(Canonicalize(m)), former)), former)
<1> DEFINE former == UNION {s.footprint : s \in JunctionsOf(m)}
<1>1. RefreshAutomaticJunctions(m) =
        CHOOSE refreshed \in {RestoreLaneDirections(m3, former) :
                 m3 \in {WithJunctions(m2) : m2 \in {Settled(m1, former) :
                   m1 \in {Forgotten(m0) : m0 \in {Canonicalize(m)}}}}} : TRUE
  BY DEF RefreshAutomaticJunctions
<1> HIDE DEF former
<1>2. {Forgotten(m0) : m0 \in {Canonicalize(m)}} = {Forgotten(Canonicalize(m))}
  OBVIOUS
<1>3. PICK f : f = Forgotten(Canonicalize(m))
  OBVIOUS
<1>4. {Settled(m1, former) : m1 \in {f}} = {Settled(f, former)}
  OBVIOUS
<1>5. PICK g : g = Settled(f, former)
  OBVIOUS
<1>6. {WithJunctions(m2) : m2 \in {g}} = {WithJunctions(g)}
  OBVIOUS
<1>7. PICK w : w = WithJunctions(g)
  OBVIOUS
<1>8. {RestoreLaneDirections(m3, former) : m3 \in {w}} = {RestoreLaneDirections(w, former)}
  OBVIOUS
<1>9. \A x : (CHOOSE y \in {x} : TRUE) = x
  OBVIOUS
<1>10. RefreshAutomaticJunctions(m) = RestoreLaneDirections(w, former)
  BY <1>1, <1>2, <1>3, <1>4, <1>5, <1>6, <1>7, <1>8, <1>9
<1>11. QED
  BY <1>3, <1>5, <1>7, <1>10

\* The refresh makes a whole map of one whose junctions are behind.
LEMMA RefreshWhole ==
  ASSUME NEW m, Between(m)
  PROVE  /\ Whole(RefreshAutomaticJunctions(m)) /\ RefreshAutomaticJunctions(m).road = m.road
         /\ Marks(RefreshAutomaticJunctions(m)) = Marks(m)
<1>1. PICK former : RefreshAutomaticJunctions(m) =
        RestoreLaneDirections(WithJunctions(Settled(Forgotten(Canonicalize(m)), former)), former)
  BY RefreshInSteps
<1>2. PICK c : c = Canonicalize(m)
  OBVIOUS
<1>3. Between(c) /\ LinksLoad(c) /\ Repainted(m, c) /\ RoundaboutsOf(c) = RoundaboutsOf(m)
  BY <1>2, CanonicalizeKeeps, RepaintedBetween
<1>4. PICK f : f = Forgotten(c)
  OBVIOUS
<1>5. /\ Between(f) /\ LinksLoad(f) /\ f.structures = RoundaboutsOf(m) /\ RoundaboutsOf(f) = RoundaboutsOf(m)
      /\ f.road = m.road
  BY <1>3, <1>4, ForgottenBare DEF Repainted
<1>6. PICK g : g = Settled(f, former)
  OBVIOUS
<1>7. f \in Maps
  BY <1>5 DEF Between
<1>8. Repainted(f, g) /\ LinksLoad(g)
  BY <1>5, <1>6, <1>7, SettledRepaints
<1>9. /\ Between(g) /\ RoundaboutsOf(g) = RoundaboutsOf(m) /\ g.structures = RoundaboutsOf(g)
      /\ g.road = m.road
  BY <1>5, <1>8, RepaintedBetween DEF Repainted
<1>10. PICK w : w = WithJunctions(g)
  OBVIOUS
<1>11. Whole(w) /\ RoundaboutsOf(w) = RoundaboutsOf(m) /\ w.road = m.road
  BY <1>8, <1>9, <1>10, WithJunctionsWhole
<1>12. PICK r : r = RestoreLaneDirections(w, former)
  OBVIOUS
<1>13. Whole(r) /\ Repainted(w, r)
  BY <1>11, <1>12, RestoreKeeps
<1>14. RoundaboutsOf(r) = RoundaboutsOf(m) /\ r.road = m.road
  BY <1>11, <1>13 DEF Repainted, RoundaboutsOf
<1>15. r = RefreshAutomaticJunctions(m)
  BY <1>1, <1>2, <1>4, <1>6, <1>10, <1>12
<1>16. QED
  BY <1>13, <1>14, <1>15 DEF Marks

\* So does the whole end of an edit.
LEMMA FinishedWhole ==
  ASSUME NEW m, Between(m)
  PROVE  Whole(Finished(m)) /\ Finished(m).road = m.road /\ Marks(Finished(m)) = Marks(m)
<1>1. PICK s : s = SyncRoundaboutPorts(m)
  OBVIOUS
<1>2. PICK r : r = RefreshAutomaticJunctions(s)
  OBVIOUS
<1>3. Finished(m) = Canonicalize(r)
  <2>1. Finished(m) = CHOOSE finished \in {Canonicalize(m3) :
          m3 \in {RefreshAutomaticJunctions(m2) : m2 \in {SyncRoundaboutPorts(m1) : m1 \in {m}}}} : TRUE
    BY DEF Finished
  <2>2. {SyncRoundaboutPorts(m1) : m1 \in {m}} = {s}
    BY <1>1
  <2>3. {RefreshAutomaticJunctions(m2) : m2 \in {s}} = {r}
    BY <1>2
  <2>4. {Canonicalize(m3) : m3 \in {r}} = {Canonicalize(r)}
    OBVIOUS
  <2>5. \A x : (CHOOSE y \in {x} : TRUE) = x
    OBVIOUS
  <2>6. QED
    BY <2>1, <2>2, <2>3, <2>4, <2>5
<1>4. Between(s) /\ Marks(s) = Marks(m) /\ s.road = m.road
  BY <1>1, SyncKeeps
<1>5. Whole(r) /\ r.road = m.road /\ Marks(r) = Marks(m)
  BY <1>2, <1>4, RefreshWhole
<1>6. PICK c : c = Canonicalize(r)
  OBVIOUS
<1>7. LinksLoad(c) /\ Repainted(r, c) /\ \A p \in Tiles : c.links[p] \subseteq r.links[p]
  BY <1>5, <1>6, CanonicalizeKeeps DEF Whole
<1>8. Whole(c) /\ RoundaboutsOf(c) = RoundaboutsOf(r) /\ c.road = m.road
  BY <1>5, <1>7, RepaintedWhole, RepaintedBetween DEF Whole, Repainted
<1>9. QED
  BY <1>3, <1>5, <1>6, <1>8 DEF Marks

-----------------------------------------------------------------------------
(* What an edit does to the roundabouts.                                    *)

\* They all stay, and the roads on their tiles.
Spared(m, n) ==
    /\ Marks(n) = Marks(m)
    /\ \A s \in RoundaboutsOf(m) : s.footprint \cap n.road = s.footprint \cap m.road

\* Each stays whole or goes whole.
WholeOrGone(m, n) ==
    \A s \in RoundaboutsOf(m) :
        \/ /\ s.id \in {t.id : t \in RoundaboutsOf(n)}
           /\ s.footprint \cap n.road = s.footprint \cap m.road
        \/ s.footprint \cap n.road = {}

\* An edit that spares every roundabout leaves each whole.
LEMMA SparedIsWhole ==
  ASSUME NEW m, NEW n, Spared(m, n)
  PROVE  WholeOrGone(m, n)
<1>1. ASSUME NEW s \in RoundaboutsOf(m)
      PROVE  s.id \in {t.id : t \in RoundaboutsOf(n)}
  <2>1. <<s.id, s.footprint>> \in Marks(n)
    BY DEF Spared, Marks
  <2>2. PICK t \in RoundaboutsOf(n) : <<s.id, s.footprint>> = <<t.id, t.footprint>>
    BY <2>1 DEF Marks
  <2>3. QED
    BY <2>2
<1>2. QED
  BY <1>1 DEF Spared, WholeOrGone

\* One map after the other, when the second has only tiles of the first.
LEMMA WholeOrGoneTwice ==
  ASSUME NEW m, NEW n, NEW o, Between(m), Between(n), o.road \subseteq n.road,
         WholeOrGone(m, n), WholeOrGone(n, o)
  PROVE  WholeOrGone(m, o)
<1>1. SUFFICES ASSUME NEW s \in RoundaboutsOf(m), s.footprint \cap o.road # {}
               PROVE  /\ s.id \in {t.id : t \in RoundaboutsOf(o)}
                      /\ s.footprint \cap o.road = s.footprint \cap m.road
  BY DEF WholeOrGone
<1>2. s.id \in {t.id : t \in RoundaboutsOf(n)} /\ s.footprint \cap n.road = s.footprint \cap m.road
  BY <1>1 DEF WholeOrGone
<1>3. PICK t \in RoundaboutsOf(n) : t.id = s.id
  BY <1>2
<1>4. t.footprint = s.footprint
  BY <1>3 DEF Between, RoundaboutsOf, Shaped
<1>5. QED
  BY <1>1, <1>2, <1>3, <1>4 DEF WholeOrGone

-----------------------------------------------------------------------------
(* Laying roads: they come on tiles nobody owns.                            *)

Laid(m, n) ==
    /\ n \in Maps /\ n.owner = m.owner /\ n.structures = m.structures
    /\ m.road \subseteq n.road
    /\ \A p \in n.road \ m.road : m.owner[p] = None

\* Laying roads twice is laying roads.
LEMMA LaidTwice ==
  ASSUME NEW m, NEW n, NEW o, Laid(m, n), Laid(n, o)
  PROVE  Laid(m, o)
BY DEF Laid

\* Repainting lays nothing.
LEMMA RepaintedIsLaid ==
  ASSUME NEW m, NEW n, Repainted(m, n)
  PROVE  Laid(m, n)
BY DEF Laid, Repainted

\* Roads laid outside roundabouts leave these as they were.
LEMMA LaidBetween ==
  ASSUME NEW m, NEW n, Between(m), Laid(m, n)
  PROVE  Between(n) /\ Spared(m, n)
<1>1. RoundaboutsOf(n) = RoundaboutsOf(m)
  BY DEF Laid, RoundaboutsOf
<1>2. Between(n)
  BY <1>1 DEF Between, Laid, OwnersKnown, Stands
<1>3. Marks(n) = Marks(m)
  BY <1>1 DEF Marks
<1>4. ASSUME NEW s \in RoundaboutsOf(m)
      PROVE  s.footprint \cap n.road = s.footprint \cap m.road
  <2>1. s \in Structures /\ Stands(m, s)
    BY MapParts DEF Between, RoundaboutsOf
  <2>2. \A p \in s.footprint : m.owner[p] # None
    BY <2>1, RoadConstants DEF Stands, Structures
  <2>3. QED
    BY <2>2 DEF Laid
<1>5. QED
  BY <1>2, <1>3, <1>4 DEF Spared

\* An edit that lays roads and then finds the junctions anew.
LEMMA LaidFinished ==
  ASSUME NEW m, NEW n, Between(m), Laid(m, n)
  PROVE  Whole(Finished(n)) /\ WholeOrGone(m, Finished(n))
<1>1. Between(n) /\ Spared(m, n)
  BY LaidBetween
<1>2. Whole(Finished(n)) /\ Finished(n).road = n.road /\ Marks(Finished(n)) = Marks(n)
  BY <1>1, FinishedWhole
<1>3. Spared(m, Finished(n))
  BY <1>1, <1>2 DEF Spared
<1>4. QED
  BY <1>2, <1>3, SparedIsWhole

\* A new road tile is laid on a tile of no structure.
LEMMA InitializeLays ==
  ASSUME NEW m \in Maps, NEW p \in Tiles, m.owner[p] = None, NEW arrow \in Headings \cup {None}
  PROVE  Laid(m, InitializeRoadTile(m, p, arrow))
<1> DEFINE n == InitializeRoadTile(m, p, arrow)
<1>1. n = [m EXCEPT !.road = m.road \cup {p}, !.oneWay = [m.oneWay EXCEPT ![p] = arrow],
                    !.links = [m.links EXCEPT ![p] = {}], !.owner = [m.owner EXCEPT ![p] = None]]
  BY DEF InitializeRoadTile, Maps
<1>2. [m.owner EXCEPT ![p] = None] = m.owner
  BY MapParts
<1>3. /\ [m.oneWay EXCEPT ![p] = arrow] \in [Tiles -> Headings \cup {None}]
      /\ [m.links EXCEPT ![p] = {}] \in [Tiles -> SUBSET Headings]
  BY MapParts
<1>4. m.road \cup {p} \in SUBSET Tiles
  BY MapParts
<1>5. n \in Maps /\ n.owner = m.owner /\ n.structures = m.structures /\ n.road = m.road \cup {p}
  BY <1>1, <1>2, <1>3, <1>4 DEF Maps
<1> HIDE DEF n
<1>6. Laid(m, n)
  BY <1>5 DEF Laid
<1>7. QED
  BY <1>6 DEF n

\* A merged arrow repaints.
LEMMA MergeRepaints ==
  ASSUME NEW m \in Maps, NEW p \in Tiles, NEW arrow \in Headings \cup {None}
  PROVE  Repainted(m, MergeLaneDirection(m, p, arrow))
<1> DEFINE a == IF m.owner[p] # None \/ (arrow # None /\ m.links[p] \cap Across(arrow) # {})
                THEN None ELSE arrow
<1>1. MergeLaneDirection(m, p, arrow) = [m EXCEPT !.oneWay = [m.oneWay EXCEPT ![p] = a]]
  BY DEF MergeLaneDirection
<1>2. a \in Headings \cup {None}
  OBVIOUS
<1> HIDE DEF a
<1>3. [m.oneWay EXCEPT ![p] = a] \in [Tiles -> Headings \cup {None}]
  BY <1>2, MapParts
<1>4. QED
  BY <1>1, <1>3 DEF Repainted, Maps

\* A new link repaints.
LEMMA ConnectRepaints ==
  ASSUME NEW m \in Maps, NEW p, NEW H \in SUBSET Headings
  PROVE  Repainted(m, Connect(m, p, H))
<1> DEFINE links == [q \in Tiles |->
             m.links[q] \cup (IF q = p THEN H ELSE {})
               \cup {h \in Headings : Offset(q, h) = p /\ Opposite[h] \in H}]
<1>1. Connect(m, p, H) = [m EXCEPT !.links = links]
  BY DEF Connect
<1>2. links \in [Tiles -> SUBSET Headings]
  BY MapParts
<1> HIDE DEF links
<1>3. QED
  BY <1>1, <1>2 DEF Repainted, Maps

\* The heading between two tiles is a heading or none.
LEMMA HeadingBetweenType ==
  ASSUME NEW p, NEW q
  PROVE  HeadingBetween(p, q) \in Headings \cup {None}
BY DEF HeadingBetween

\* Linking two tiles repaints.
LEMMA PairsRepaint ==
  ASSUME NEW m \in Maps, NEW p, NEW q
  PROVE  Repainted(m, LinkPair(m, p, q)) /\ Repainted(m, ConnectNeighborEndpoints(m, p))
<1>1. Repainted(m, m)
  BY DEF Repainted
<1>2. HeadingBetween(p, q) # None => {HeadingBetween(p, q)} \in SUBSET Headings
  BY HeadingBetweenType
<1>3. EndpointLinks(m, p) \in SUBSET Headings
  BY DEF EndpointLinks
<1>4. QED
  BY <1>1, <1>2, <1>3, ConnectRepaints DEF LinkPair, ConnectNeighborEndpoints

-----------------------------------------------------------------------------
(* A lane, tile by tile.                                                    *)

LaneOver(o) == [map : {n \in Maps : Laid(o, n)}, laid : Seq(Tiles)]

\* One tile of a lane is laid, repainted or skipped.
LEMMA LayTileType ==
  ASSUME NEW o \in Maps, NEW lane \in LaneOver(o), NEW p, NEW arrow \in Headings \cup {None}
  PROVE  LayTile(lane, o, p, arrow) \in LaneOver(o)
<1>1. lane.map \in Maps /\ Laid(o, lane.map) /\ lane.laid \in Seq(Tiles)
  BY DEF LaneOver
<1>2. CASE p \notin Tiles \/ IsRoundaboutOwned(lane.map, p)
  BY <1>2 DEF LayTile
<1>3. CASE p \in Tiles /\ ~IsRoundaboutOwned(lane.map, p)
  <2>1. Append(lane.laid, p) \in Seq(Tiles)
    BY <1>1, <1>3
  <2>2. CASE p \in lane.map.road
    <3>1. Repainted(lane.map, MergeLaneDirection(lane.map, p, arrow))
      BY <1>1, <1>3, MergeRepaints
    <3>2. Laid(o, MergeLaneDirection(lane.map, p, arrow))
      BY <1>1, <3>1, RepaintedIsLaid, LaidTwice
    <3>3. QED
      BY <1>3, <2>1, <2>2, <3>1, <3>2 DEF LayTile, LaneOver, Repainted
  <2>3. CASE p \notin lane.map.road /\ IsValidRoadPlacement(o, p)
    <3>1. lane.map.owner[p] = None
      BY <1>1, <2>3 DEF IsValidRoadPlacement, Laid
    <3>2. Laid(lane.map, InitializeRoadTile(lane.map, p, arrow))
      BY <1>1, <1>3, <3>1, InitializeLays
    <3>3. Laid(o, InitializeRoadTile(lane.map, p, arrow))
      BY <1>1, <3>2, LaidTwice
    <3>4. QED
      BY <1>3, <2>1, <2>3, <3>3 DEF LayTile, LaneOver, Laid
  <2>4. CASE p \notin lane.map.road /\ ~IsValidRoadPlacement(o, p)
    BY <1>3, <2>4 DEF LayTile
  <2>5. QED
    BY <2>2, <2>3, <2>4
<1>4. QED
  BY <1>2, <1>3

\* A lane is laid tile by tile.
LEMMA LaneTilesType ==
  ASSUME NEW o \in Maps, NEW m \in Maps, Laid(o, m), NEW points, Len(points) \in Nat,
         NEW arrow \in Headings \cup {None}
  PROVE  LaneTiles(m, o, points, arrow) \in LaneOver(o)
<1> DEFINE N == Len(points)
           M == LaneOver(o)
           base == [map |-> m, laid |-> <<>>]
           Op(n, x) == LayTile(x, o, points[n], arrow)
           after == CHOOSE f : f = [n \in 0..N |-> IF n = 0 THEN base ELSE Op(n, f[n - 1])]
<1>1. LaneTiles(m, o, points, arrow) = after[N]
  BY DEF LaneTiles
<1>2. N \in Nat /\ N \in 0..N
  OBVIOUS
<1>3. base \in M
  <2>1. <<>> \in Seq(Tiles)
    OBVIOUS
  <2>2. QED
    BY <2>1 DEF LaneOver
<1>4. \A n \in 1..N, x \in M : Op(n, x) \in M
  BY LayTileType
<1> HIDE DEF N, M, base, Op
<1>5. PICK step : step = [x \in (1..N) \X M |-> Op(x[1], x[2])]
  OBVIOUS
<1>6. step \in StepsOf(N, M)
  BY <1>4, <1>5 DEF StepsOf
<1>7. PICK g \in [0..N -> M] : Iterates(g, N, base, step)
  BY <1>2, <1>3, <1>6, Iteration
<1>8. g = [n \in 0..N |-> IF n = 0 THEN base ELSE Op(n, g[n - 1])]
  <2>1. ASSUME NEW n \in 0..N, n # 0
        PROVE  step[<<n, g[n - 1]>>] = Op(n, g[n - 1])
    <3>1. n \in 1..N /\ n - 1 \in 0..N
      BY <1>2, <2>1
    <3>2. g[n - 1] \in M
      BY <3>1
    <3>3. QED
      BY <1>5, <3>1, <3>2
  <2>2. QED
    BY <1>7, <2>1 DEF Iterates
<1>9. after = [n \in 0..N |-> IF n = 0 THEN base ELSE Op(n, after[n - 1])]
  BY <1>8
<1> HIDE DEF after
<1>10. after[0] = base
  BY <1>2, <1>9
<1>11. \A n \in 1..N : after[n - 1] \in M => after[n] = step[<<n, after[n - 1]>>]
  <2>1. TAKE n \in 1..N
  <2>2. HAVE after[n - 1] \in M
  <2>3. n \in 0..N /\ n # 0
    BY <1>2
  <2>4. after[n] = Op(n, after[n - 1])
    BY <1>9, <2>3
  <2>5. QED
    BY <1>5, <2>2, <2>4
<1>12. after[N] \in M
  BY <1>2, <1>3, <1>6, <1>10, <1>11, Recursion
<1>13. QED
  BY <1>1, <1>12 DEF M

\* The maps that differ from one in links and arrows only.
RepaintsOf(m) == {n \in Maps : Repainted(m, n)}

\* Linking the lane in order repaints.
LEMMA SequenceRepaints ==
  ASSUME NEW m \in Maps, NEW laid \in Seq(Tiles)
  PROVE  ConnectAuthoredSequence(m, laid) \in RepaintsOf(m)
<1> DEFINE N == Len(laid)
           M == RepaintsOf(m)
           Op(n, x) == IF n <= 1 THEN m ELSE LinkPair(x, laid[n - 1], laid[n])
           after == CHOOSE f : f = [n \in 0..N |-> IF n <= 1 THEN m ELSE LinkPair(f[n - 1], laid[n - 1], laid[n])]
<1>1. ConnectAuthoredSequence(m, laid) = after[N]
  BY DEF ConnectAuthoredSequence
<1>2. N \in Nat /\ N \in 0..N
  OBVIOUS
<1>3. m \in M
  BY DEF RepaintsOf, Repainted
<1>4. \A n \in 1..N, x \in M : Op(n, x) \in M
  <2>1. TAKE n \in 1..N, x \in M
  <2>2. x \in Maps /\ Repainted(m, x)
    BY DEF RepaintsOf
  <2>3. Repainted(x, LinkPair(x, laid[n - 1], laid[n]))
    BY <2>2, PairsRepaint
  <2>4. Repainted(m, LinkPair(x, laid[n - 1], laid[n]))
    BY <2>2, <2>3, RepaintedTwice
  <2>5. QED
    BY <1>3, <2>4 DEF RepaintsOf, Repainted
<1>5. after = CHOOSE f : f = [n \in 0..N |-> IF n = 0 THEN m ELSE Op(n, f[n - 1])]
  <2>1. \A f : [n \in 0..N |-> IF n <= 1 THEN m ELSE LinkPair(f[n - 1], laid[n - 1], laid[n])]
                = [n \in 0..N |-> IF n = 0 THEN m ELSE Op(n, f[n - 1])]
    OBVIOUS
  <2> HIDE DEF Op
  <2>2. QED
    BY <2>1
<1> HIDE DEF N, M, Op
<1>6. PICK step : step = [x \in (1..N) \X M |-> Op(x[1], x[2])]
  OBVIOUS
<1>7. step \in StepsOf(N, M)
  BY <1>4, <1>6 DEF StepsOf
<1>8. PICK g \in [0..N -> M] : Iterates(g, N, m, step)
  BY <1>2, <1>3, <1>7, Iteration
<1>9. g = [n \in 0..N |-> IF n = 0 THEN m ELSE Op(n, g[n - 1])]
  <2>1. ASSUME NEW n \in 0..N, n # 0
        PROVE  step[<<n, g[n - 1]>>] = Op(n, g[n - 1])
    <3>1. n \in 1..N /\ n - 1 \in 0..N
      BY <1>2, <2>1
    <3>2. g[n - 1] \in M
      BY <3>1
    <3>3. QED
      BY <1>6, <3>1, <3>2
  <2>2. QED
    BY <1>8, <2>1 DEF Iterates
<1>10. after = [n \in 0..N |-> IF n = 0 THEN m ELSE Op(n, after[n - 1])]
  <2>1. PICK h : h = CHOOSE f : f = [n \in 0..N |-> IF n = 0 THEN m ELSE Op(n, f[n - 1])]
    OBVIOUS
  <2>2. h = [n \in 0..N |-> IF n = 0 THEN m ELSE Op(n, h[n - 1])]
    BY <1>9, <2>1
  <2> HIDE DEF after
  <2>3. QED
    BY <1>5, <2>1, <2>2
<1> HIDE DEF after
<1>11. after[0] = m
  BY <1>2, <1>10
<1>12. \A n \in 1..N : after[n - 1] \in M => after[n] = step[<<n, after[n - 1]>>]
  <2>1. TAKE n \in 1..N
  <2>2. HAVE after[n - 1] \in M
  <2>3. n \in 0..N /\ n # 0
    BY <1>2
  <2>4. after[n] = Op(n, after[n - 1])
    BY <1>10, <2>3
  <2>5. QED
    BY <1>6, <2>2, <2>4
<1>13. after[N] \in M
  BY <1>2, <1>3, <1>7, <1>11, <1>12, Recursion
<1>14. QED
  BY <1>1, <1>13 DEF M

\* Linking it to its neighbours repaints.
LEMMA EndpointsRepaint ==
  ASSUME NEW m \in Maps, NEW laid \in Seq(Tiles)
  PROVE  ConnectLaneEndpoints(m, laid) \in RepaintsOf(m)
<1> DEFINE N == Len(laid)
           M == RepaintsOf(m)
           Op(n, x) == ConnectNeighborEndpoints(x, laid[n])
           after == CHOOSE f : f = [n \in 0..N |-> IF n = 0 THEN m ELSE Op(n, f[n - 1])]
<1>1. ConnectLaneEndpoints(m, laid) = after[N]
  BY DEF ConnectLaneEndpoints
<1>2. N \in Nat /\ N \in 0..N
  OBVIOUS
<1>3. m \in M
  BY DEF RepaintsOf, Repainted
<1>4. \A n \in 1..N, x \in M : Op(n, x) \in M
  <2>1. TAKE n \in 1..N, x \in M
  <2>2. x \in Maps /\ Repainted(m, x)
    BY DEF RepaintsOf
  <2>3. Repainted(x, ConnectNeighborEndpoints(x, laid[n]))
    BY <2>2, PairsRepaint
  <2>4. Repainted(m, ConnectNeighborEndpoints(x, laid[n]))
    BY <2>2, <2>3, RepaintedTwice
  <2>5. QED
    BY <1>3, <2>4 DEF RepaintsOf, Repainted
<1> HIDE DEF N, M, Op
<1>5. PICK step : step = [x \in (1..N) \X M |-> Op(x[1], x[2])]
  OBVIOUS
<1>6. step \in StepsOf(N, M)
  BY <1>4, <1>5 DEF StepsOf
<1>7. PICK g \in [0..N -> M] : Iterates(g, N, m, step)
  BY <1>2, <1>3, <1>6, Iteration
<1>8. g = [n \in 0..N |-> IF n = 0 THEN m ELSE Op(n, g[n - 1])]
  <2>1. ASSUME NEW n \in 0..N, n # 0
        PROVE  step[<<n, g[n - 1]>>] = Op(n, g[n - 1])
    <3>1. n \in 1..N /\ n - 1 \in 0..N
      BY <1>2, <2>1
    <3>2. g[n - 1] \in M
      BY <3>1
    <3>3. QED
      BY <1>5, <3>1, <3>2
  <2>2. QED
    BY <1>7, <2>1 DEF Iterates
<1>9. after = [n \in 0..N |-> IF n = 0 THEN m ELSE Op(n, after[n - 1])]
  BY <1>8
<1> HIDE DEF after
<1>10. after[0] = m
  BY <1>2, <1>9
<1>11. \A n \in 1..N : after[n - 1] \in M => after[n] = step[<<n, after[n - 1]>>]
  <2>1. TAKE n \in 1..N
  <2>2. HAVE after[n - 1] \in M
  <2>3. n \in 0..N /\ n # 0
    BY <1>2
  <2>4. after[n] = Op(n, after[n - 1])
    BY <1>9, <2>3
  <2>5. QED
    BY <1>5, <2>2, <2>4
<1>12. after[N] \in M
  BY <1>2, <1>3, <1>6, <1>10, <1>11, Recursion
<1>13. QED
  BY <1>1, <1>12 DEF M

\* A lane is laid.
LEMMA AuthorLaneType ==
  ASSUME NEW o \in Maps, NEW m \in Maps, Laid(o, m), NEW points, Len(points) \in Nat,
         NEW arrow \in Headings \cup {None}
  PROVE  Laid(o, AuthorLane(m, o, points, arrow).map)
<1>1. PICK lane : lane = LaneTiles(m, o, points, arrow)
  OBVIOUS
<1>2. lane.map \in Maps /\ Laid(o, lane.map) /\ lane.laid \in Seq(Tiles)
  BY <1>1, LaneTilesType DEF LaneOver
<1>3. PICK joined : joined = ConnectAuthoredSequence(lane.map, lane.laid)
  OBVIOUS
<1>4. joined \in Maps /\ Repainted(lane.map, joined)
  BY <1>2, <1>3, SequenceRepaints DEF RepaintsOf
<1>5. PICK ended : ended = ConnectLaneEndpoints(joined, lane.laid)
  OBVIOUS
<1>6. Repainted(joined, ended)
  BY <1>2, <1>4, <1>5, EndpointsRepaint DEF RepaintsOf
<1>7. Laid(o, ended)
  BY <1>2, <1>4, <1>6, RepaintedTwice, RepaintedIsLaid, LaidTwice
<1>8. AuthorLane(m, o, points, arrow).map = ended
  BY <1>1, <1>3, <1>5 DEF AuthorLane
<1>9. QED
  BY <1>7, <1>8

-----------------------------------------------------------------------------
(* The edits that lay roads or turn an arrow.                               *)

\* What is shown of every edit.
Good(m, n) == Whole(n) /\ WholeOrGone(m, n)

\* A refused edit leaves all as it was.
LEMMA NoEditIsGood ==
  ASSUME NEW m, Whole(m)
  PROVE  Good(m, m)
BY DEF Good, WholeOrGone

\* A single road.
LEMMA RoadLaidGood ==
  ASSUME NEW m, Whole(m), NEW p
  PROVE  Good(m, RoadLaid(m, p))
<1>1. Between(m) /\ m \in Maps
  BY DEF Whole, Between
<1>2. CASE IsValidRoadPlacement(m, p)
  <2>1. p \in Tiles /\ m.owner[p] = None
    BY <1>2 DEF IsValidRoadPlacement
  <2>2. PICK n : n = InitializeRoadTile(m, p, None)
    OBVIOUS
  <2>3. Laid(m, n)
    BY <1>1, <2>1, <2>2, InitializeLays
  <2>4. PICK c : c = ConnectNeighborEndpoints(n, p)
    OBVIOUS
  <2>5. Repainted(n, c)
    BY <2>3, <2>4, PairsRepaint DEF Laid
  <2>6. Laid(m, c)
    BY <2>3, <2>5, RepaintedIsLaid, LaidTwice
  <2>7. RoadLaid(m, p) = Finished(c)
    BY <1>2, <2>2, <2>4 DEF RoadLaid
  <2>8. QED
    BY <1>1, <2>6, <2>7, LaidFinished DEF Good
<1>3. CASE ~IsValidRoadPlacement(m, p)
  BY <1>3, NoEditIsGood DEF RoadLaid
<1>4. QED
  BY <1>2, <1>3

\* A stroke, refused or laid on one side or both.
LEMMA RoadLineLaidGood ==
  ASSUME NEW m, Whole(m), NEW points \in Strokes, NEW preset \in Presets
  PROVE  Good(m, RoadLineLaid(m, points, preset))
<1> DEFINE drawn == HeadingBetween(points[1], points[2])
           canonical == CanonicalDirection(points)
           arrow == CASE preset = "twoWay" -> None
                      [] preset = "oneWay" -> drawn
                      [] preset = "dual"   -> canonical
           forth == AuthorLane(m, m, points, arrow)
           back == AuthorLane(forth.map, m, ReverseLane(points), Opposite[canonical])
           laid == IF preset = "dual" THEN back ELSE forth
<1>1. Between(m) /\ m \in Maps
  BY DEF Whole, Between
<1>2. points \in Seq(Tiles) /\ Len(points) \in Nat
  BY RoadConstants
<1>3. canonical \in Headings /\ Opposite[canonical] \in Headings
  <2>1. canonical \in {"E", "S"}
    BY DEF CanonicalDirection
  <2>2. canonical \in Headings
    BY <2>1 DEF Headings
  <2>3. QED
    BY <2>2, HeadingFacts
<1>4. drawn \in Headings \cup {None}
  BY HeadingBetweenType
<1>5. Len(ReverseLane(points)) \in Nat
  <2>1. PICK f : f = ReverseLane(points)
    OBVIOUS
  <2>2. f = [i \in 1..Len(points) |-> f[i]]
    BY <1>2, <2>1 DEF ReverseLane
  <2>3. Len(f) = Len(points)
    BY <1>2, <2>2
  <2>4. QED
    BY <1>2, <2>1, <2>3
<1>6. arrow \in Headings \cup {None}
  <2>1. preset \in {"twoWay", "oneWay", "dual"}
    BY RoadConstants
  <2>2. QED
    BY <1>3, <1>4, <2>1
<1>7. RoadLineLaid(m, points, preset) \in {m, Finished(laid.map)}
  BY DEF RoadLineLaid
<1> HIDE DEF arrow, canonical
<1>8. Laid(m, m)
  BY <1>1 DEF Laid
<1>9. Laid(m, forth.map)
  BY <1>1, <1>2, <1>6, <1>8, AuthorLaneType
<1> HIDE DEF forth
<1>10. Laid(m, back.map)
  BY <1>1, <1>3, <1>5, <1>9, AuthorLaneType DEF Laid
<1> HIDE DEF back
<1>11. Laid(m, laid.map)
  BY <1>9, <1>10
<1> HIDE DEF laid
<1>12. QED
  BY <1>1, <1>7, <1>11, LaidFinished, NoEditIsGood DEF Good

\* An arrow that is cycled.
LEMMA DirectionCycledGood ==
  ASSUME NEW m, Whole(m), NEW p
  PROVE  Good(m, DirectionCycled(m, p))
<1> DEFINE first == IF m.links[p] \subseteq Horizontal THEN "E" ELSE "N"
           second == IF first = "E" THEN "W" ELSE "S"
           next == CASE m.oneWay[p] = None -> first
                     [] m.oneWay[p] = first -> second
                     [] OTHER -> None
           n == [m EXCEPT !.oneWay = [m.oneWay EXCEPT ![p] = next]]
<1>1. Between(m) /\ m \in Maps
  BY DEF Whole, Between
<1>2. next \in Headings \cup {None}
  BY DEF Headings
<1>3. DirectionCycled(m, p) \in {m, Finished(m), Finished(n)}
  BY DEF DirectionCycled
<1> HIDE DEF next
<1>4. [m.oneWay EXCEPT ![p] = next] \in [Tiles -> Headings \cup {None}]
  BY <1>1, <1>2, MapParts
<1>5. Repainted(m, n)
  BY <1>1, <1>4 DEF Repainted, Maps
<1> HIDE DEF n
<1>6. Laid(m, m) /\ Laid(m, n)
  BY <1>1, <1>5, RepaintedIsLaid DEF Laid
<1>7. QED
  BY <1>1, <1>3, <1>6, LaidFinished, NoEditIsGood DEF Good

\* Track, which no road or structure depends on.
LEMMA TrackLaidGood ==
  ASSUME NEW m, Whole(m), NEW points \in SUBSET Tiles
  PROVE  Good(m, TrackLaid(m, points))
<1> DEFINE track == m.track \cup {p \in points : m.owner[p] = None /\ p \notin Occupied}
           n == TrackLaid(m, points)
<1>1. m \in Maps
  BY DEF Whole, Between
<1>2. n = [m EXCEPT !.track = track]
  BY DEF TrackLaid
<1>3. track \in SUBSET Tiles
  BY <1>1, MapParts
<1> HIDE DEF track
<1>4. /\ n \in Maps /\ n.road = m.road /\ n.oneWay = m.oneWay /\ n.links = m.links
      /\ n.owner = m.owner /\ n.structures = m.structures
  BY <1>1, <1>2, <1>3 DEF Maps
<1> HIDE DEF n
<1>5. RoundaboutsOf(n) = RoundaboutsOf(m)
  BY <1>4 DEF RoundaboutsOf
<1>6. LinksLoad(n)
  BY <1>4 DEF Whole, LinksLoad, ReciprocalConnection
<1>7. Between(n)
  BY <1>4, <1>5 DEF Whole, Between, OwnersKnown, Stands
<1>8. PortsCover(n)
  BY <1>1, <1>4, FewerLinksCovered DEF Whole
<1>9. Whole(n)
  BY <1>4, <1>6, <1>7, <1>8 DEF Whole, Stands
<1>10. WholeOrGone(m, n)
  BY <1>4, <1>5 DEF WholeOrGone
<1>11. QED
  BY <1>9, <1>10 DEF Good, n

-----------------------------------------------------------------------------
(* Placing a roundabout.                                                    *)

RingTiles(size, origin) == {Ring(size, origin)[i] : i \in DOMAIN RingOffsets[size]}

\* The ring is in the square, and the square opens to the outside on the ring.
LEMMA RingIsTheEdge ==
  ASSUME NEW size \in {"compact", "standard"}, NEW origin \in Int \X Int
  PROVE  /\ RingTiles(size, origin) \subseteq Footprint(size, origin)
         /\ RingTiles(size, origin) # {}
         /\ \A p \in Footprint(size, origin), h \in Headings :
               Offset(p, h) \notin Footprint(size, origin) => p \in RingTiles(size, origin)
<1> DEFINE at(dx, dy) == <<origin[1] + dx, origin[2] + dy>>
<1>1. origin[1] \in Int /\ origin[2] \in Int
  OBVIOUS
<1>2. ASSUME size = "compact"
      PROVE  /\ RingTiles(size, origin) = {at(1, 1), at(1, 0), at(0, 0), at(0, 1)}
             /\ Footprint(size, origin) = {at(0, 0), at(0, 1), at(1, 0), at(1, 1)}
  <2>1. RingOffsets[size] = <<<<1, 1>>, <<1, 0>>, <<0, 0>>, <<0, 1>>>>
    BY <1>2 DEF RingOffsets
  <2>2. DOMAIN RingOffsets[size] = {1, 2, 3, 4}
    BY <2>1
  <2>3. RingTiles(size, origin) = {at(RingOffsets[size][i][1], RingOffsets[size][i][2]) : i \in {1, 2, 3, 4}}
    BY <2>2 DEF RingTiles, Ring
  <2>4. RingTiles(size, origin) = {at(1, 1), at(1, 0), at(0, 0), at(0, 1)}
    BY <2>1, <2>3
  <2>5. Footprint(size, origin) = {at(dx, dy) : dx \in 0..1, dy \in 0..1}
    BY <1>2 DEF Footprint
  <2>6. 0..1 = {0, 1}
    OBVIOUS
  <2> HIDE DEF at
  <2>7. Footprint(size, origin) = {at(0, 0), at(0, 1), at(1, 0), at(1, 1)}
    BY <2>5, <2>6
  <2>8. QED
    BY <2>4, <2>7
<1>3. ASSUME size = "standard"
      PROVE  /\ RingTiles(size, origin) = {at(2, 2), at(2, 1), at(2, 0), at(1, 0), at(0, 0), at(0, 1), at(0, 2), at(1, 2)}
             /\ Footprint(size, origin) =
                  {at(0, 0), at(0, 1), at(0, 2), at(1, 0), at(1, 1), at(1, 2), at(2, 0), at(2, 1), at(2, 2)}
  <2>1. RingOffsets[size] = <<<<2, 2>>, <<2, 1>>, <<2, 0>>, <<1, 0>>, <<0, 0>>, <<0, 1>>, <<0, 2>>, <<1, 2>>>>
    BY <1>3 DEF RingOffsets
  <2>2. DOMAIN RingOffsets[size] = {1, 2, 3, 4, 5, 6, 7, 8}
    BY <2>1
  <2>3. RingTiles(size, origin) =
          {at(RingOffsets[size][i][1], RingOffsets[size][i][2]) : i \in {1, 2, 3, 4, 5, 6, 7, 8}}
    BY <2>2 DEF RingTiles, Ring
  <2>4. RingTiles(size, origin) = {at(2, 2), at(2, 1), at(2, 0), at(1, 0), at(0, 0), at(0, 1), at(0, 2), at(1, 2)}
    BY <2>1, <2>3
  <2>5. Footprint(size, origin) = {at(dx, dy) : dx \in 0..2, dy \in 0..2}
    BY <1>3 DEF Footprint
  <2>6. 0..2 = {0, 1, 2}
    OBVIOUS
  <2> HIDE DEF at
  <2>7. Footprint(size, origin) =
          {at(0, 0), at(0, 1), at(0, 2), at(1, 0), at(1, 1), at(1, 2), at(2, 0), at(2, 1), at(2, 2)}
    BY <2>5, <2>6
  <2>8. QED
    BY <2>4, <2>7
<1>4. CASE size = "compact"
  <2> HIDE DEF at
  <2>1. QED
    BY <1>2, <1>4
<1>5. CASE size = "standard"
  <2>1. /\ Offset(at(1, 1), "N") = at(1, 0) /\ Offset(at(1, 1), "E") = at(2, 1)
        /\ Offset(at(1, 1), "S") = at(1, 2) /\ Offset(at(1, 1), "W") = at(0, 1)
    BY <1>1 DEF Offset, Ahead
  <2> HIDE DEF at
  <2>2. \A h \in Headings : Offset(at(1, 1), h) \in Footprint(size, origin)
    BY <1>3, <1>5, <2>1 DEF Headings
  <2>3. \A p \in Footprint(size, origin) : p = at(1, 1) \/ p \in RingTiles(size, origin)
    BY <1>3, <1>5
  <2>4. RingTiles(size, origin) \subseteq Footprint(size, origin) /\ RingTiles(size, origin) # {}
    BY <1>3, <1>5
  <2>5. QED
    BY <2>2, <2>3, <2>4
<1>6. QED
  BY <1>4, <1>5

\* A roundabout takes over the tiles of its square with the junctions in it;
\* the roads that met the square are answered by its ring.
LEMMA InstalledGood ==
  ASSUME NEW m, Whole(m), NEW size \in {"compact", "standard"}, NEW origin \in Int \X Int,
         RoundaboutFits(m, Footprint(size, origin))
  PROVE  Good(m, RoundaboutInstalled(m, size, origin))
<1> DEFINE F == Footprint(size, origin)
           ring == RingTiles(size, origin)
           id == <<"roundabout", size, origin>>
           ports == BoundaryPorts(m, F)
           new == [id |-> id, kind |-> "roundabout", footprint |-> F, ports |-> ports]
           rest == {s \in m.structures : ~(s.kind = "junction" /\ s.footprint \subseteq F)}
           road == (m.road \ F) \cup ring
           arrows == [p \in Tiles |-> IF p \in F THEN None ELSE m.oneWay[p]]
           links == [p \in Tiles |->
                      IF p \in F THEN {port.edge : port \in {x \in ports : x.point = p}} ELSE m.links[p]]
           owner == [p \in Tiles |-> IF p \in F THEN id ELSE m.owner[p]]
           n == RoundaboutInstalled(m, size, origin)
<1>1. m \in Maps /\ LinksLoad(m) /\ Between(m)
  BY DEF Whole, Between
<1>2. /\ F \in SUBSET Tiles /\ ring \subseteq F /\ F # {}
      /\ \A p \in F, h \in Headings : Offset(p, h) \notin F => p \in ring
  BY RingIsTheEdge DEF RoundaboutFits
<1>3. \A s \in m.structures : s.footprint \cap F # {} => s.kind = "junction" /\ s.footprint \subseteq F
  BY DEF RoundaboutFits
<1>4. n = [m EXCEPT !.road = road, !.oneWay = arrows, !.links = links, !.owner = owner,
                    !.structures = rest \cup {new}]
  BY DEF RoundaboutInstalled, RingTiles
<1>5. /\ ports \in SUBSET Ports
      /\ \A x \in ports : x.point \in F
      /\ \A x, y \in ports : x.point # y.point \/ x.edge # y.edge \/ x = y
  BY <1>1, <1>2, PortsStand
<1>6. \A p \in Tiles, h \in Headings :
        (\E x \in ports : x.point = p /\ x.edge = h) <=> <<p, h>> \in Boundary(m, F)
  <2> DEFINE port(e) == [point |-> e[1], edge |-> e[2],
                         direction |-> PortDirection(e[2], m.oneWay[Offset(e[1], e[2])])]
  <2>1. \A e \in Boundary(m, F) : e = <<e[1], e[2]>>
    BY <1>1, <1>2, BoundaryType
  <2>2. ports = {port(e) : e \in Boundary(m, F)}
    BY DEF BoundaryPorts
  <2>3. \A e : port(e).point = e[1] /\ port(e).edge = e[2]
    OBVIOUS
  <2> HIDE DEF port, ports
  <2>4. ASSUME NEW p \in Tiles, NEW h \in Headings, NEW x \in ports, x.point = p, x.edge = h
        PROVE  <<p, h>> \in Boundary(m, F)
    <3>1. PICK e \in Boundary(m, F) : x = port(e)
      BY <2>2
    <3>2. QED
      BY <2>1, <2>3, <2>4, <3>1
  <2>5. ASSUME NEW p \in Tiles, NEW h \in Headings, <<p, h>> \in Boundary(m, F)
        PROVE  \E x \in ports : x.point = p /\ x.edge = h
    <3>1. port(<<p, h>>) \in ports
      BY <2>2, <2>5
    <3>2. QED
      BY <2>3, <3>1
  <2>6. QED
    BY <2>4, <2>5
<1>7. id \in Ids
  BY DEF Ids
<1> HIDE DEF F, ring, ports, id
<1>8. new \in Structures
  BY <1>2, <1>5, <1>7 DEF Structures
<1>9. road \in SUBSET Tiles
  BY <1>1, <1>2, MapParts
<1>10. arrows \in [Tiles -> Headings \cup {None}]
  BY <1>1, MapParts
<1>11. links \in [Tiles -> SUBSET Headings]
  <2>1. \A x \in ports : x.edge \in Headings
    BY <1>5 DEF Ports
  <2>2. QED
    BY <1>1, <2>1, MapParts
<1>12. owner \in [Tiles -> Ids \cup {None}]
  BY <1>1, <1>7, MapParts
<1>13. rest \cup {new} \in SUBSET Structures
  BY <1>1, <1>8, MapParts
<1>14. /\ new.id = id /\ new.kind = "roundabout" /\ new.footprint = F /\ new.ports = ports
  OBVIOUS
<1>15. \A p \in Tiles : /\ p \in F => arrows[p] = None /\ owner[p] = id
                        /\ p \notin F => arrows[p] = m.oneWay[p] /\ owner[p] = m.owner[p] /\ links[p] = m.links[p]
  OBVIOUS
<1>16. \A p \in F, h \in Headings : h \in links[p] <=> <<p, h>> \in Boundary(m, F)
  <2>1. TAKE p \in F, h \in Headings
  <2>2. p \in Tiles /\ links[p] = {port.edge : port \in {x \in ports : x.point = p}}
    BY <1>2
  <2>3. h \in links[p] <=> \E x \in ports : x.point = p /\ x.edge = h
    BY <2>2
  <2>4. QED
    BY <1>6, <2>2, <2>3
<1> HIDE DEF new, arrows, links, owner
<1>17. /\ n \in Maps /\ n.road = road /\ n.oneWay = arrows /\ n.links = links /\ n.owner = owner
       /\ n.structures = rest \cup {new}
  BY <1>1, <1>4, <1>9, <1>10, <1>11, <1>12, <1>13 DEF Maps
<1> HIDE DEF n
<1>18. \A s \in rest : s \in m.structures /\ s.footprint \cap F = {}
  BY <1>3
<1>19. \A s \in RoundaboutsOf(m) : s \in rest
  BY DEF RoundaboutsOf
<1>20. \A s \in rest : s.id # id
  <2>1. SUFFICES ASSUME NEW s \in rest, s.id = id
                 PROVE  FALSE
    OBVIOUS
  <2>2. Shaped(s) /\ s \in Structures
    BY <1>1, <2>1, MapParts DEF Between
  <2>3. s.kind = "roundabout" /\ s.footprint = F
    BY <2>1, <2>2 DEF Shaped, id, F
  <2>4. QED
    BY <1>2, <1>18, <2>3
<1>21. ASSUME NEW s \in rest
       PROVE  Stands(n, s) /\ (s.kind = "junction" => s.footprint \subseteq n.road)
  <2>1. Stands(m, s) /\ (s.kind = "junction" => s.footprint \subseteq m.road) /\ s.footprint \subseteq Tiles
    BY <1>1, MapParts DEF Whole, Structures
  <2>2. \A p \in s.footprint : p \in Tiles /\ p \notin F
    BY <1>18, <2>1
  <2>3. Stands(n, s)
    BY <1>15, <1>17, <2>1, <2>2 DEF Stands
  <2>4. QED
    BY <1>17, <2>1, <2>2, <2>3
<1>22. Stands(n, new)
  BY <1>2, <1>5, <1>14, <1>15, <1>17 DEF Stands
<1>23. Shaped(new)
  BY <1>14 DEF Shaped, id, F
<1>24. OwnersKnown(n)
  <2>1. SUFFICES ASSUME NEW p \in Tiles, owner[p] # None
                 PROVE  \E s \in rest \cup {new} : s.id = owner[p] /\ p \in s.footprint
    BY <1>17 DEF OwnersKnown
  <2>2. CASE p \in F
    BY <1>14, <1>15, <2>2
  <2>3. CASE p \notin F
    <3>1. PICK s \in m.structures : s.id = m.owner[p] /\ p \in s.footprint
      BY <1>1, <1>15, <2>1, <2>3 DEF Between, OwnersKnown
    <3>2. s \in rest
      BY <2>3, <3>1
    <3>3. QED
      BY <1>15, <2>3, <3>1, <3>2
  <2>4. QED
    BY <2>2, <2>3
<1>25. Alone(n.structures)
  <2>1. Alone(rest)
    BY DEF Whole, Alone
  <2>2. QED
    BY <1>14, <1>17, <1>20, <2>1 DEF Alone
<1>26. LinksLoad(n)
  <2>1. ASSUME NEW p \in Tiles, p \notin road
        PROVE  arrows[p] = None /\ links[p] = {}
    <3>1. CASE p \in F
      <4>1. \A h \in Headings : <<p, h>> \notin Boundary(m, F)
        BY <1>2, <2>1, <3>1 DEF Boundary
      <4>2. QED
        BY <1>11, <1>15, <1>16, <3>1, <4>1
    <3>2. CASE p \notin F
      BY <1>1, <1>15, <2>1, <3>2 DEF LinksLoad
    <3>3. QED
      BY <3>1, <3>2
  <2>2. ASSUME NEW p \in Tiles, NEW h \in links[p]
        PROVE  Offset(p, h) \in road /\ Opposite[h] \in links[Offset(p, h)]
    <3>1. h \in Headings
      BY <1>11
    <3>2. CASE p \in F
      <4>1. <<p, h>> \in Boundary(m, F)
        BY <1>16, <3>1, <3>2
      <4>2. /\ Offset(p, h) \in m.road /\ Offset(p, h) \notin F /\ Offset(p, h) \in Tiles
            /\ Opposite[h] \in m.links[Offset(p, h)]
        BY <1>1, <1>2, <4>1, BoundaryType
      <4>3. QED
        BY <1>15, <4>2
    <3>3. CASE p \notin F
      <4>1. h \in m.links[p] /\ p \in m.road /\ ReciprocalConnection(m, p, h)
        BY <1>1, <1>15, <3>3 DEF LinksLoad
      <4>2. /\ Offset(p, h) \in Tiles /\ Opposite[h] \in Headings
            /\ Offset(Offset(p, h), Opposite[h]) = p
            /\ Opposite[h] \in m.links[Offset(p, h)]
            /\ ReciprocalConnection(m, Offset(p, h), Opposite[h])
        BY <1>1, <4>1, AnsweredLink
      <4>3. CASE Offset(p, h) \in F
        <5>1. <<Offset(p, h), Opposite[h]>> \in Boundary(m, F)
          BY <3>3, <4>2, <4>3 DEF Boundary
        <5>2. Offset(p, h) \in ring
          BY <1>2, <3>3, <4>2, <4>3
        <5>3. QED
          BY <1>16, <4>2, <4>3, <5>1, <5>2
      <4>4. CASE Offset(p, h) \notin F
        BY <1>15, <4>1, <4>2, <4>4 DEF ReciprocalConnection
      <4>5. QED
        BY <4>3, <4>4
    <3>4. QED
      BY <3>2, <3>3
  <2>3. QED
    BY <1>17, <2>1, <2>2 DEF LinksLoad, ReciprocalConnection
<1>27. \A s \in n.structures : Shaped(s)
  BY <1>1, <1>17, <1>18, <1>23 DEF Between
<1>28. \A s \in n.structures : Stands(n, s) /\ (s.kind = "junction" => s.footprint \subseteq n.road)
  BY <1>14, <1>17, <1>21, <1>22
<1>29. PortsCover(n)
  <2>1. SUFFICES ASSUME NEW s \in JunctionsOf(n), NEW e \in Boundary(n, s.footprint)
                 PROVE  \E x \in s.ports : x.point = e[1] /\ x.edge = e[2]
    BY DEF PortsCover
  <2>2. s \in rest /\ s \in JunctionsOf(m) /\ s.footprint \in SUBSET Tiles
    BY <1>1, <1>14, <1>17, MapParts DEF JunctionsOf, Structures
  <2>3. /\ e = <<e[1], e[2]>> /\ e[1] \in s.footprint /\ e[1] \in Tiles /\ e[2] \in Headings
        /\ e[2] \in n.links[e[1]] /\ Offset(e[1], e[2]) \notin s.footprint
    BY <1>17, <2>2, BoundaryType
  <2>4. e[1] \notin F
    BY <1>18, <2>2, <2>3
  <2>5. e[2] \in m.links[e[1]]
    BY <1>15, <1>17, <2>3, <2>4
  <2>6. ReciprocalConnection(m, e[1], e[2])
    BY <1>1, <2>3, <2>5 DEF LinksLoad
  <2>7. <<e[1], e[2]>> \in Boundary(m, s.footprint)
    BY <2>3, <2>5, <2>6 DEF Boundary
  <2>8. QED
    BY <2>2, <2>3, <2>7 DEF Whole, PortsCover
<1>30. Whole(n)
  <2>1. RoundaboutsOf(n) \subseteq n.structures
    BY DEF RoundaboutsOf
  <2>2. QED
    BY <1>17, <1>24, <1>25, <1>26, <1>27, <1>28, <1>29, <2>1 DEF Whole, Between, Alone
<1>31. WholeOrGone(m, n)
  <2>1. SUFFICES ASSUME NEW s \in RoundaboutsOf(m)
                 PROVE  /\ s.id \in {t.id : t \in RoundaboutsOf(n)}
                        /\ s.footprint \cap n.road = s.footprint \cap m.road
    BY DEF WholeOrGone
  <2>2. s \in rest /\ s.footprint \cap F = {}
    BY <1>18, <1>19
  <2>3. s \in RoundaboutsOf(n)
    BY <1>17, <2>2 DEF RoundaboutsOf
  <2>4. QED
    BY <1>2, <1>17, <2>2, <2>3
<1>32. QED
  BY <1>30, <1>31 DEF Good, n

\* A roundabout that fits or is refused.
LEMMA RoundaboutPlacedGood ==
  ASSUME NEW m, Whole(m), NEW r \in Roundabouts
  PROVE  Good(m, RoundaboutPlaced(m, r[1], r[2]))
<1>1. r[1] \in {"compact", "standard"} /\ r[2] \in Int \X Int
  BY RoadConstants
<1>2. QED
  BY <1>1, InstalledGood, NoEditIsGood DEF RoundaboutPlaced

-----------------------------------------------------------------------------
(* Removing.                                                                *)

\* Tiles become empty and these structures are left.
Stripped(m, F, S) == [Cleared(m, F) EXCEPT !.structures = S]

\* n is m without the tiles of F, and S are its structures.
StrippedTo(n, m, F, S) ==
  /\ n \in Maps /\ n.road = m.road \ F /\ n.structures = S
  /\ \A p \in Tiles : n.owner[p] = IF p \in F THEN None ELSE m.owner[p]

\* What is left of a map.
LEMMA StrippedParts ==
  ASSUME NEW m, m \in Maps, NEW F, F \subseteq Tiles, NEW S, S \subseteq m.structures
  PROVE  StrippedTo(Stripped(m, F, S), m, F, S)
<1> DEFINE n == Stripped(m, F, S)
           arrows == [p \in Tiles |-> IF p \in F THEN None ELSE m.oneWay[p]]
           links == [p \in Tiles |-> IF p \in F THEN {} ELSE {h \in m.links[p] : Offset(p, h) \notin F}]
           owner == [p \in Tiles |-> IF p \in F THEN None ELSE m.owner[p]]
<1>1. n = [m EXCEPT !.road = m.road \ F, !.oneWay = arrows, !.links = links, !.owner = owner,
                    !.structures = S]
  BY DEF Stripped, Cleared, Maps
<1>2. arrows \in [Tiles -> Headings \cup {None}]
  BY MapParts
<1>3. links \in [Tiles -> SUBSET Headings]
  BY MapParts
<1>4. owner \in [Tiles -> Ids \cup {None}]
  BY MapParts
<1>5. \A p \in Tiles : owner[p] = IF p \in F THEN None ELSE m.owner[p]
  OBVIOUS
<1> HIDE DEF arrows, links, owner
<1>6. m.road \ F \in SUBSET Tiles /\ S \in SUBSET Structures
  BY MapParts
<1>7. n \in Maps /\ n.road = m.road \ F /\ n.structures = S /\ n.owner = owner
  BY <1>1, <1>2, <1>3, <1>4, <1>6 DEF Maps
<1>8. QED
  BY <1>5, <1>7 DEF StrippedTo

\* A tile of no roundabout goes: the junctions are behind, the roundabouts stay.
LEMMA RoadRemovedGood ==
  ASSUME NEW m, Whole(m), NEW p \in Tiles, ~IsRoundaboutOwned(m, p)
  PROVE  Good(m, Finished(Cleared(m, {p}))) /\ Finished(Cleared(m, {p})).road \subseteq m.road
<1> DEFINE n == Cleared(m, {p})
<1>1. Between(m) /\ m \in Maps
  BY DEF Whole, Between
<1>2. n = Stripped(m, {p}, m.structures)
  BY <1>1 DEF Stripped, Cleared, Maps
<1>3. /\ n \in Maps /\ n.road = m.road \ {p} /\ n.structures = m.structures
      /\ \A q \in Tiles : n.owner[q] = IF q \in {p} THEN None ELSE m.owner[q]
  <2>1. {p} \subseteq Tiles /\ m.structures \subseteq m.structures
    OBVIOUS
  <2>2. StrippedTo(Stripped(m, {p}, m.structures), m, {p}, m.structures)
    BY <1>1, <2>1, StrippedParts
  <2> HIDE DEF n
  <2>3. QED
    BY <1>2, <2>2 DEF StrippedTo
<1> HIDE DEF n
<1>4. RoundaboutsOf(n) = RoundaboutsOf(m)
  BY <1>3 DEF RoundaboutsOf
<1>5. \A s \in RoundaboutsOf(m) : Stands(m, s) /\ s.footprint \subseteq Tiles /\ p \notin s.footprint
  <2>1. TAKE s \in RoundaboutsOf(m)
  <2>2. Stands(m, s) /\ s \in Structures
    BY <1>1, MapParts DEF Between, RoundaboutsOf
  <2>3. p \notin s.footprint
    BY <2>2 DEF Stands, IsRoundaboutOwned
  <2>4. QED
    BY <2>2, <2>3 DEF Structures
<1>6. \A s \in RoundaboutsOf(n) : Stands(n, s)
  BY <1>3, <1>4, <1>5 DEF Stands
<1>7. OwnersKnown(n)
  BY <1>1, <1>3 DEF Between, OwnersKnown
<1>8. Between(n)
  BY <1>1, <1>3, <1>4, <1>6, <1>7 DEF Between
<1>9. Spared(m, n)
  BY <1>3, <1>4, <1>5 DEF Spared, Marks
<1>10. Whole(Finished(n)) /\ Finished(n).road = n.road /\ Marks(Finished(n)) = Marks(n)
  BY <1>8, FinishedWhole
<1>11. Spared(m, Finished(n))
  BY <1>9, <1>10 DEF Spared
<1>12. QED
  BY <1>3, <1>10, <1>11, SparedIsWhole DEF Good, n

\* Roundabouts go with all their tiles, and the others stay.
LEMMA RoundaboutsRemovedGood ==
  ASSUME NEW m, Whole(m), NEW hit \in SUBSET RoundaboutsOf(m)
  PROVE  Good(m, WithoutRoundabouts(m, hit)) /\ WithoutRoundabouts(m, hit).road \subseteq m.road
<1> DEFINE U == UNION {s.footprint : s \in hit}
           n == Stripped(m, U, m.structures \ hit)
<1>1. Between(m) /\ m \in Maps
  BY DEF Whole, Between
<1>2. CASE hit = {}
  BY <1>2, NoEditIsGood DEF WithoutRoundabouts
<1>3. CASE hit # {}
  <2>1. PICK s : s = SyncRoundaboutPorts(n)
    OBVIOUS
  <2>2. PICK r : r = RefreshAutomaticJunctions(s)
    OBVIOUS
  <2>3. n = [Cleared(m, U) EXCEPT !.structures = @ \ hit]
    BY DEF Stripped, Cleared
  <2>4. WithoutRoundabouts(m, hit) = r
    <3>1. WithoutRoundabouts(m, hit) =
            CHOOSE removed \in {RefreshAutomaticJunctions(m1) : m1 \in {SyncRoundaboutPorts(n)}} : TRUE
      BY <1>3, <2>3 DEF WithoutRoundabouts
    <3>2. {RefreshAutomaticJunctions(m1) : m1 \in {s}} = {r}
      BY <2>2
    <3>3. \A x : (CHOOSE y \in {x} : TRUE) = x
      OBVIOUS
    <3>4. QED
      BY <2>1, <3>1, <3>2, <3>3
  <2>5. \A t \in RoundaboutsOf(m) : /\ t \in m.structures /\ t \in Structures /\ Stands(m, t)
                                    /\ t.footprint \subseteq Tiles
    BY <1>1, MapParts DEF Between, RoundaboutsOf, Structures
  <2>6. U \in SUBSET Tiles
    BY <2>5
  <2>7. \A t \in RoundaboutsOf(m) \ hit : t.footprint \cap U = {}
    BY <1>1, <2>5 DEF Between, Alone, Stands
  <2>8. \A t \in hit : t.footprint \subseteq U
    OBVIOUS
  <2> HIDE DEF U
  <2>9. /\ n \in Maps /\ n.road = m.road \ U /\ n.structures = m.structures \ hit
        /\ \A q \in Tiles : n.owner[q] = IF q \in U THEN None ELSE m.owner[q]
    <3>1. PICK S : S = m.structures \ hit
      OBVIOUS
    <3>2. S \subseteq m.structures /\ U \subseteq Tiles
      BY <2>6, <3>1
    <3>3. StrippedTo(Stripped(m, U, S), m, U, S)
      BY <1>1, <3>2, StrippedParts
    <3>4. n = Stripped(m, U, S)
      BY <3>1
    <3> HIDE DEF n
    <3>5. QED
      BY <3>1, <3>3, <3>4 DEF StrippedTo
  <2> HIDE DEF n
  <2>10. RoundaboutsOf(n) = RoundaboutsOf(m) \ hit
    BY <2>9 DEF RoundaboutsOf
  <2>11. \A t \in RoundaboutsOf(n) : Stands(n, t)
    BY <2>5, <2>7, <2>9, <2>10 DEF Stands
  <2>12. OwnersKnown(n)
    <3>1. SUFFICES ASSUME NEW q \in Tiles, n.owner[q] # None
                   PROVE  \E t \in m.structures \ hit : t.id = n.owner[q] /\ q \in t.footprint
      BY <2>9 DEF OwnersKnown
    <3>2. q \notin U /\ n.owner[q] = m.owner[q]
      BY <2>9, <3>1
    <3>3. PICK t \in m.structures : t.id = m.owner[q] /\ q \in t.footprint
      BY <1>1, <3>1, <3>2 DEF Between, OwnersKnown
    <3>4. t \notin hit
      BY <2>8, <3>2, <3>3
    <3>5. QED
      BY <3>2, <3>3, <3>4
  <2>13. Between(n)
    BY <1>1, <2>9, <2>10, <2>11, <2>12 DEF Between, Alone
  <2>14. Between(s) /\ Marks(s) = Marks(n) /\ s.road = n.road
    BY <2>1, <2>13, SyncKeeps
  <2>15. Whole(r) /\ r.road = n.road /\ Marks(r) = Marks(n)
    BY <2>2, <2>14, RefreshWhole
  <2>16. WholeOrGone(m, n)
    <3>1. SUFFICES ASSUME NEW t \in RoundaboutsOf(m)
                   PROVE  \/ /\ t.id \in {x.id : x \in RoundaboutsOf(n)}
                             /\ t.footprint \cap n.road = t.footprint \cap m.road
                          \/ t.footprint \cap n.road = {}
      BY DEF WholeOrGone
    <3>2. CASE t \in hit
      BY <2>8, <2>9, <3>2
    <3>3. CASE t \notin hit
      BY <2>7, <2>9, <2>10, <3>3
    <3>4. QED
      BY <3>2, <3>3
  <2>17. WholeOrGone(n, r)
    BY <2>15, SparedIsWhole DEF Spared
  <2>18. WholeOrGone(m, r)
    BY <1>1, <2>13, <2>15, <2>16, <2>17, WholeOrGoneTwice
  <2>19. QED
    BY <2>4, <2>9, <2>15, <2>18 DEF Good
<1>4. QED
  BY <1>2, <1>3

\* A tapped tile: its roundabout, its track or its road goes.
LEMMA RemovedAtTileGood ==
  ASSUME NEW m, Whole(m), NEW p \in Tiles
  PROVE  Good(m, RemovedAtTile(m, p)) /\ RemovedAtTile(m, p).road \subseteq m.road
<1>1. m \in Maps
  BY DEF Whole, Between
<1>2. CASE IsRoundaboutOwned(m, p)
  <2>1. RoundaboutsHit(m, {p}) \in SUBSET RoundaboutsOf(m)
    BY DEF RoundaboutsHit
  <2>2. QED
    BY <1>2, <2>1, RoundaboutsRemovedGood DEF RemovedAtTile
<1>3. CASE ~IsRoundaboutOwned(m, p) /\ p \in m.track
  <2> DEFINE n == [m EXCEPT !.track = m.track \ {p}]
  <2>1. RemovedAtTile(m, p) = n
    BY <1>3 DEF RemovedAtTile
  <2>2. /\ n \in Maps /\ n.road = m.road /\ n.oneWay = m.oneWay /\ n.links = m.links
        /\ n.owner = m.owner /\ n.structures = m.structures
    BY <1>1 DEF Maps
  <2> HIDE DEF n
  <2>3. RoundaboutsOf(n) = RoundaboutsOf(m)
    BY <2>2 DEF RoundaboutsOf
  <2>4. LinksLoad(n)
    BY <2>2 DEF Whole, LinksLoad, ReciprocalConnection
  <2>5. Between(n)
    BY <2>2, <2>3 DEF Whole, Between, OwnersKnown, Stands
  <2>6. PortsCover(n)
    BY <1>1, <2>2, FewerLinksCovered DEF Whole
  <2>7. Whole(n)
    BY <2>2, <2>4, <2>5, <2>6 DEF Whole, Stands
  <2>8. WholeOrGone(m, n)
    BY <2>2, <2>3 DEF WholeOrGone
  <2>9. QED
    BY <2>1, <2>2, <2>7, <2>8 DEF Good
<1>4. CASE ~IsRoundaboutOwned(m, p) /\ p \notin m.track /\ p \in m.road
  BY <1>4, RoadRemovedGood DEF RemovedAtTile
<1>5. CASE ~IsRoundaboutOwned(m, p) /\ p \notin m.track /\ p \notin m.road
  BY <1>5, NoEditIsGood DEF RemovedAtTile
<1>6. QED
  BY <1>2, <1>3, <1>4, <1>5

\* The maps a removal may lead to.
LeftOf(m) == {n \in Maps : Good(m, n) /\ n.road \subseteq m.road}

\* A rectangle: its roundabouts first, then one tile after the other.
LEMMA RemovedAtTilesGood ==
  ASSUME NEW m, Whole(m), NEW points \in Areas
  PROVE  Good(m, RemovedAtTiles(m, points))
<1> DEFINE N == Len(points)
           M == LeftOf(m)
           hit == RoundaboutsHit(m, {points[i] : i \in DOMAIN points})
           members == UNION {s.footprint : s \in hit}
           base == WithoutRoundabouts(m, hit)
           Op(n, x) == IF points[n] \in members THEN x ELSE RemovedAtTile(x, points[n])
           after == CHOOSE f : f = [n \in 0..N |->
                      IF n = 0 THEN base
                      ELSE IF points[n] \in members THEN f[n - 1] ELSE RemovedAtTile(f[n - 1], points[n])]
<1>1. RemovedAtTiles(m, points) = after[N]
  BY DEF RemovedAtTiles
<1>2. N \in Nat /\ N \in 0..N /\ \A n \in 1..N : points[n] \in Tiles
  BY RoadConstants
<1>3. base \in M
  <2>1. hit \in SUBSET RoundaboutsOf(m)
    BY DEF RoundaboutsHit
  <2> HIDE DEF hit
  <2>2. Good(m, base) /\ base.road \subseteq m.road
    BY <2>1, RoundaboutsRemovedGood
  <2>3. QED
    BY <2>2 DEF LeftOf, Good, Whole, Between
<1> HIDE DEF base, members
<1>4. \A n \in 1..N, x \in M : Op(n, x) \in M
  <2>1. TAKE n \in 1..N, x \in M
  <2>2. Whole(x) /\ WholeOrGone(m, x) /\ x.road \subseteq m.road
    BY DEF LeftOf, Good
  <2>3. PICK y : y = RemovedAtTile(x, points[n])
    OBVIOUS
  <2>4. Whole(y) /\ WholeOrGone(x, y) /\ y.road \subseteq x.road
    BY <1>2, <2>2, <2>3, RemovedAtTileGood DEF Good
  <2>5. WholeOrGone(m, y)
    BY <2>2, <2>4, WholeOrGoneTwice DEF Whole
  <2>6. y \in M
    BY <2>2, <2>4, <2>5 DEF LeftOf, Good, Whole, Between
  <2>7. QED
    BY <2>3, <2>6
<1>5. after = CHOOSE f : f = [n \in 0..N |-> IF n = 0 THEN base ELSE Op(n, f[n - 1])]
  OBVIOUS
<1> HIDE DEF N, M, Op
<1>6. PICK step : step = [x \in (1..N) \X M |-> Op(x[1], x[2])]
  OBVIOUS
<1>7. step \in StepsOf(N, M)
  BY <1>4, <1>6 DEF StepsOf
<1>8. PICK g \in [0..N -> M] : Iterates(g, N, base, step)
  BY <1>2, <1>3, <1>7, Iteration
<1>9. g = [n \in 0..N |-> IF n = 0 THEN base ELSE Op(n, g[n - 1])]
  <2>1. ASSUME NEW n \in 0..N, n # 0
        PROVE  step[<<n, g[n - 1]>>] = Op(n, g[n - 1])
    <3>1. n \in 1..N /\ n - 1 \in 0..N
      BY <1>2, <2>1
    <3>2. g[n - 1] \in M
      BY <3>1
    <3>3. QED
      BY <1>6, <3>1, <3>2
  <2>2. QED
    BY <1>8, <2>1 DEF Iterates
<1>10. after = [n \in 0..N |-> IF n = 0 THEN base ELSE Op(n, after[n - 1])]
  <2>1. PICK h : h = CHOOSE f : f = [n \in 0..N |-> IF n = 0 THEN base ELSE Op(n, f[n - 1])]
    OBVIOUS
  <2>2. h = [n \in 0..N |-> IF n = 0 THEN base ELSE Op(n, h[n - 1])]
    BY <1>9, <2>1
  <2> HIDE DEF after
  <2>3. QED
    BY <1>5, <2>1, <2>2
<1> HIDE DEF after
<1>11. after[0] = base
  BY <1>2, <1>10
<1>12. \A n \in 1..N : after[n - 1] \in M => after[n] = step[<<n, after[n - 1]>>]
  <2>1. TAKE n \in 1..N
  <2>2. HAVE after[n - 1] \in M
  <2>3. n \in 0..N /\ n # 0
    BY <1>2
  <2>4. after[n] = Op(n, after[n - 1])
    BY <1>10, <2>3
  <2>5. QED
    BY <1>6, <2>2, <2>4
<1>13. after[N] \in M
  BY <1>2, <1>3, <1>7, <1>11, <1>12, Recursion
<1>14. QED
  BY <1>1, <1>13 DEF M, LeftOf

-----------------------------------------------------------------------------
(* Every edit.                                                              *)

\* An empty map is whole.
LEMMA InitialMapIsWhole == Init => MapInv
<1> SUFFICES ASSUME Init
             PROVE  MapInv
  OBVIOUS
<1>1. map = [road |-> {}, track |-> {}, oneWay |-> [p \in Tiles |-> None],
             links |-> [p \in Tiles |-> {}], owner |-> [p \in Tiles |-> None], structures |-> {}]
  BY DEF Init
<1>2. map \in Maps
  BY <1>1 DEF Maps
<1>3. map.structures = {} /\ \A p \in Tiles : map.owner[p] = None /\ map.oneWay[p] = None /\ map.links[p] = {}
  BY <1>1
<1>4. Between(map)
  BY <1>2, <1>3 DEF Between, OwnersKnown, RoundaboutsOf, Alone
<1>5. LinksLoad(map)
  BY <1>3 DEF LinksLoad
<1>6. edits \in 0..MaxEdits
  BY RoadConstants DEF Init
<1>7. PortsCover(map)
  BY <1>3 DEF PortsCover, JunctionsOf
<1>8. QED
  BY <1>3, <1>4, <1>5, <1>6, <1>7 DEF MapInv, Whole, Alone

\* What is tapped or drawn as track is on the map.
LEMMA StrokesAreTiles ==
  /\ \A p \in Taps : p \in Tiles /\ {p} \in SUBSET Tiles
  /\ \A l \in Lines : {l[i] : i \in DOMAIN l} \in SUBSET Tiles
<1>1. \A l \in Lines : l \in Seq(Tiles)
  BY RoadConstants
<1>2. \A l \in Lines : \A i \in DOMAIN l : l[i] \in Tiles
  BY <1>1
<1>3. QED
  BY <1>2, RoadConstants

\* A good edit keeps the invariant.
LEMMA EditIsGood ==
  ASSUME MapInv, NEW next, Good(map, next), Edit(next)
  PROVE  MapInv' /\ WholeOrGone(map, map')
<1>1. map' = next /\ edits' = edits + 1 /\ edits < MaxEdits
  BY DEF Edit
<1>2. Whole(map') /\ WholeOrGone(map, map')
  BY <1>1 DEF Good
<1>3. edits' \in 0..MaxEdits
  BY <1>1, RoadConstants DEF MapInv
<1>4. QED
  BY <1>2, <1>3 DEF MapInv

\* Every edit is a good one.
LEMMA NextIsGood ==
  ASSUME MapInv, Next
  PROVE  MapInv' /\ WholeOrGone(map, map')
<1>0. Whole(map)
  BY DEF MapInv
<1>1. CASE LayRoad
  BY <1>0, <1>1, RoadLaidGood, EditIsGood DEF LayRoad
<1>2. CASE LayRoadLine
  BY <1>0, <1>2, RoadLineLaidGood, EditIsGood DEF LayRoadLine
<1>3. CASE CycleRoadDirection
  BY <1>0, <1>3, DirectionCycledGood, EditIsGood DEF CycleRoadDirection
<1>4. CASE PlaceRoundabout
  BY <1>0, <1>4, RoundaboutPlacedGood, EditIsGood DEF PlaceRoundabout
<1>5. CASE LayTrack
  BY <1>0, <1>5, StrokesAreTiles, TrackLaidGood, EditIsGood DEF LayTrack
<1>6. CASE LayTrackLine
  BY <1>0, <1>6, StrokesAreTiles, TrackLaidGood, EditIsGood DEF LayTrackLine
<1>7. CASE RemoveAtTile
  BY <1>0, <1>7, StrokesAreTiles, RemovedAtTileGood, EditIsGood DEF RemoveAtTile
<1>8. CASE RemoveAtTiles
  BY <1>0, <1>8, RemovedAtTilesGood, EditIsGood DEF RemoveAtTiles
<1>9. QED
  BY <1>1, <1>2, <1>3, <1>4, <1>5, <1>6, <1>7, <1>8 DEF Next

\* After every edit the map is whole: links are answered, every structure stands
\* on tiles of its own that name it, and every owner named by a tile is there
\* (road.rs, roundabouts.rs; validate_map and validate_structures of persistence/map.rs).
THEOREM Invariance == Spec => []MapInv
<1>1. MapInv /\ [Next]_vars => MapInv'
  <2>1. SUFFICES ASSUME MapInv, [Next]_vars
                 PROVE  MapInv'
    OBVIOUS
  <2>2. CASE Next
    BY <2>1, <2>2, NextIsGood
  <2>3. CASE UNCHANGED vars
    BY <2>1, <2>3 DEF vars, MapInv
  <2>4. QED
    BY <2>1, <2>2, <2>3
<1>2. QED
  BY InitialMapIsWhole, <1>1, PTL DEF Spec

\* Whatever roads, junctions and roundabouts are laid over each other and torn
\* down in parts, the loader takes the links and the structures of the map
\* (validate_map, validate_structures).
THEOREM LinksAndStructuresAlwaysLoad == Spec => []LinksAndStructuresLoad
<1>1. MapInv => LinksAndStructuresLoad
  BY WholeLoads DEF MapInv, LinksAndStructuresLoad
<1>2. QED
  BY <1>1, Invariance, PTL

\* No stroke, tap or rectangle leaves a part of a roundabout (is_roundabout_owned,
\* remove_owned_roundabouts, place_roundabout).
THEOREM RoundaboutsStayWhole == Spec => RoundaboutsWhole
<1>1. MapInv /\ [Next]_vars =>
        [\A s \in RoundaboutsOf(map) :
          \/ /\ s.id \in {t.id : t \in RoundaboutsOf(map')}
             /\ s.footprint \cap map'.road = s.footprint \cap map.road
          \/ s.footprint \cap map'.road = {}]_map
  <2>1. SUFFICES ASSUME MapInv, Next
                 PROVE  WholeOrGone(map, map')
    BY DEF vars, WholeOrGone
  <2>2. QED
    BY <2>1, NextIsGood
<1>2. QED
  BY Invariance, <1>1, PTL DEF Spec, RoundaboutsWhole

-----------------------------------------------------------------------------
(* Driving: the search ends in all that can be driven to.                   *)

DrivingStates == Tiles \X Headings

\* The states after one more move.
Further(moves, S) == S \cup {move[2] : move \in {move \in moves : move[1] \in S}}

\* What every set closed under moves holds that holds these.
Reach(moves, S) ==
    {q \in DrivingStates :
        \A T \in SUBSET DrivingStates : S \subseteq T /\ Further(moves, T) = T => q \in T}

\* There are finitely many states, so a set of states cannot grow for ever.
LEMMA DrivingStatesFinite == IsFiniteSet(DrivingStates)
<1>1. IsFiniteSet(Headings)
  <2>1. IsFiniteSet({"N", "E", "S"}) /\ IsFiniteSet({"W"})
    <3>1. IsFiniteSet({"N"}) /\ IsFiniteSet({"E"}) /\ IsFiniteSet({"S"}) /\ IsFiniteSet({"W"})
      BY FS_Singleton
    <3>2. IsFiniteSet({"N"} \cup {"E"})
      BY <3>1, FS_Union
    <3>3. IsFiniteSet(({"N"} \cup {"E"}) \cup {"S"})
      BY <3>1, <3>2, FS_Union
    <3>4. ({"N"} \cup {"E"}) \cup {"S"} = {"N", "E", "S"}
      OBVIOUS
    <3>5. QED
      BY <3>1, <3>3, <3>4
  <2>2. IsFiniteSet({"N", "E", "S"} \cup {"W"})
    BY <2>1, FS_Union
  <2>3. {"N", "E", "S"} \cup {"W"} = Headings
    BY DEF Headings
  <2>4. QED
    BY <2>2, <2>3
<1>2. QED
  BY <1>1, TilesFinite, FS_Product DEF DrivingStates

\* The states within reach hold the first ones and are closed under moves.
LEMMA ReachFacts ==
  ASSUME NEW moves, \A move \in moves : move[2] \in DrivingStates, NEW S \in SUBSET DrivingStates
  PROVE  /\ S \subseteq Reach(moves, S) /\ Reach(moves, S) \in SUBSET DrivingStates
         /\ Further(moves, Reach(moves, S)) = Reach(moves, S)
         /\ Further(moves, S) = S => Reach(moves, S) = S
         /\ Further(moves, S) \in SUBSET DrivingStates
         /\ Reach(moves, Further(moves, S)) = Reach(moves, S)
<1>1. S \subseteq Reach(moves, S) /\ Reach(moves, S) \in SUBSET DrivingStates
  BY DEF Reach
<1>2. \A move \in moves : move[1] \in Reach(moves, S) => move[2] \in Reach(moves, S)
  <2>1. SUFFICES ASSUME NEW move \in moves, move[1] \in Reach(moves, S),
                        NEW T \in SUBSET DrivingStates, S \subseteq T, Further(moves, T) = T
                 PROVE  move[2] \in T
    BY DEF Reach
  <2>2. move[1] \in T
    BY <2>1 DEF Reach
  <2>3. move[2] \in Further(moves, T)
    BY <2>2 DEF Further
  <2>4. QED
    BY <2>1, <2>3
<1>3. Further(moves, Reach(moves, S)) = Reach(moves, S)
  BY <1>2 DEF Further
<1>4. Further(moves, S) = S => Reach(moves, S) = S
  BY <1>1 DEF Reach
<1>5. Further(moves, S) \in SUBSET DrivingStates
  BY DEF Further
<1>6. \A T \in SUBSET DrivingStates :
        Further(moves, T) = T => (S \subseteq T <=> Further(moves, S) \subseteq T)
  BY DEF Further
<1>7. Reach(moves, Further(moves, S)) = Reach(moves, S)
  BY <1>6 DEF Reach
<1>8. QED
  BY <1>1, <1>3, <1>4, <1>5, <1>7

\* A function that goes on as long as the set grows ends in all that is within
\* reach.
LEMMA DrivesAsFarAsItGets ==
  ASSUME NEW moves, \A move \in moves : move[2] \in DrivingStates, NEW f,
         f = [S \in SUBSET DrivingStates |->
                IF Further(moves, S) = S THEN S ELSE f[Further(moves, S)]]
  PROVE  \A S \in SUBSET DrivingStates : f[S] = Reach(moves, S)
<1> DEFINE C == DrivingStates
           Wrong == {S \in SUBSET C : f[S] # Reach(moves, S)}
           left == {Cardinality(C \ S) : S \in Wrong}
<1> SUFFICES ASSUME Wrong # {}
             PROVE  FALSE
  OBVIOUS
<1>1. \A S \in SUBSET C : IsFiniteSet(C \ S) /\ Cardinality(C \ S) \in Nat
  BY DrivingStatesFinite, FS_Subset, FS_CardinalityType
<1>2. left \in SUBSET Nat /\ left # {}
  BY <1>1
<1>3. PICK S \in Wrong : \A n \in left : Cardinality(C \ S) <= n
  <2> HIDE DEF Wrong
  <2>1. PICK k \in left : \A n \in left : k <= n
    BY <1>2, LeastNumber
  <2>2. QED
    BY <2>1
<1> DEFINE W == Further(moves, S)
<1>4. S \in SUBSET C /\ f[S] # Reach(moves, S) /\ W \in SUBSET C /\ S \subseteq W
  BY ReachFacts DEF Further
<1>5. f[S] = IF W = S THEN S ELSE f[W]
  BY <1>4
<1> HIDE DEF W
<1>6. CASE W = S
  BY <1>4, <1>5, <1>6, ReachFacts DEF W
<1>7. CASE W # S
  <2>1. C \ W \subseteq C \ S /\ C \ W # C \ S
    BY <1>4, <1>7
  <2>2. Cardinality(C \ W) < Cardinality(C \ S)
    <3>1. Cardinality(C \ W) <= Cardinality(C \ S) /\ (Cardinality(C \ W) = Cardinality(C \ S) => C \ W = C \ S)
      BY <1>1, <1>4, <2>1, FS_Subset
    <3>2. Cardinality(C \ W) \in Nat /\ Cardinality(C \ S) \in Nat
      BY <1>1, <1>4
    <3>3. QED
      BY <2>1, <3>1, <3>2
  <2>3. W \notin Wrong
    <3>1. SUFFICES ASSUME W \in Wrong
                   PROVE  FALSE
      OBVIOUS
    <3>2. Cardinality(C \ W) \in left
      BY <3>1
    <3>3. Cardinality(C \ W) \in Nat /\ Cardinality(C \ S) \in Nat
      BY <1>1, <1>4
    <3>4. Cardinality(C \ S) <= Cardinality(C \ W)
      BY <1>3, <3>2
    <3>5. QED
      BY <2>2, <3>3, <3>4
  <2>4. f[W] = Reach(moves, W)
    BY <1>4, <2>3
  <2>5. Reach(moves, W) = Reach(moves, S)
    BY <1>4, ReachFacts DEF W
  <2>6. QED
    BY <1>4, <1>5, <1>7, <2>4, <2>5
<1>8. QED
  BY <1>6, <1>7

\* The search finds all that is within reach.
LEMMA DrivenIsReach ==
  ASSUME NEW moves, \A move \in moves : move[2] \in DrivingStates, NEW start \in DrivingStates
  PROVE  DrivenFrom(moves, start) = Reach(moves, {start})
<1> DEFINE driven == CHOOSE f : f = [S \in SUBSET DrivingStates |->
                       IF Further(moves, S) = S THEN S ELSE f[Further(moves, S)]]
<1>1. DrivenFrom(moves, start) = driven[{start}]
  BY DEF DrivenFrom, Further, DrivingStates
<1>2. PICK g : g = [S \in SUBSET DrivingStates |-> Reach(moves, S)]
  OBVIOUS
<1>3. g = [S \in SUBSET DrivingStates |->
             IF Further(moves, S) = S THEN S ELSE g[Further(moves, S)]]
  <2>1. ASSUME NEW S \in SUBSET DrivingStates
        PROVE  g[S] = IF Further(moves, S) = S THEN S ELSE g[Further(moves, S)]
    BY <1>2, ReachFacts
  <2>2. QED
    BY <1>2, <2>1
<1>4. driven = [S \in SUBSET DrivingStates |->
                  IF Further(moves, S) = S THEN S ELSE driven[Further(moves, S)]]
  BY <1>3
<1> HIDE DEF driven
<1>5. \A S \in SUBSET DrivingStates : driven[S] = Reach(moves, S)
  BY <1>4, DrivesAsFarAsItGets
<1>6. QED
  BY <1>1, <1>5

\* From where it starts the search goes on by every move.
LEMMA DrivenGoesOn ==
  ASSUME NEW moves, \A move \in moves : move[2] \in DrivingStates, NEW start \in DrivingStates
  PROVE  /\ start \in DrivenFrom(moves, start)
         /\ \A p, q : p \in DrivenFrom(moves, start) /\ <<p, q>> \in moves => q \in DrivenFrom(moves, start)
<1>1. {start} \in SUBSET DrivingStates
  OBVIOUS
<1>2. PICK R : R = Reach(moves, {start})
  OBVIOUS
<1>3. {start} \subseteq R /\ Further(moves, R) = R
  BY <1>1, <1>2, ReachFacts
<1>4. \A p, q : p \in R /\ <<p, q>> \in moves => q \in Further(moves, R)
  <2>1. TAKE p, q
  <2>2. HAVE p \in R /\ <<p, q>> \in moves
  <2>3. PICK move \in moves : move = <<p, q>>
    BY <2>2
  <2>4. move[1] \in R /\ move[2] = q
    BY <2>2, <2>3
  <2>5. QED
    BY <2>4 DEF Further
<1>5. QED
  BY <1>2, <1>3, <1>4, DrivenIsReach

-----------------------------------------------------------------------------
(* The ring of a roundabout closes on itself.                               *)

After(n, i) == (i % n) + 1
Before(n, i) == ((i + n - 2) % n) + 1

\* Which tiles these are.
LEMMA NextAndLast ==
  ASSUME NEW n \in {4, 8}
  PROVE  \A i \in 1..n : /\ After(n, i) = IF i = n THEN 1 ELSE i + 1
                        /\ Before(n, i) = IF i = 1 THEN n ELSE i - 1
BY DEF After, Before

\* After and Before take each other back, within the ring.
LEMMA AroundAndBack ==
  ASSUME NEW n \in {4, 8}, NEW i \in 1..n
  PROVE  After(n, i) \in 1..n /\ Before(n, i) \in 1..n /\ Before(n, After(n, i)) = i /\ After(n, Before(n, i)) = i
BY NextAndLast

\* Who goes on around comes by every tile.
LEMMA AllTheWayAround ==
  ASSUME NEW n \in {4, 8}, NEW J \in SUBSET (1..n), NEW k \in J, \A j \in J : After(n, j) \in J
  PROVE  1..n \subseteq J
<1>1. \A j \in 1..n : After(n, j) = IF j = n THEN 1 ELSE j + 1
  BY NextAndLast
<1>2. \A j \in J : (j < n => j + 1 \in J) /\ (j = n => 1 \in J)
  BY <1>1
<1>3. CASE n = 4
  <2>1. k \in {1, 2, 3, 4}
    BY <1>3
  <2>2. 4 \in J
    BY <1>2, <1>3, <2>1
  <2>3. 1 \in J /\ 2 \in J /\ 3 \in J
    BY <1>2, <1>3, <2>2
  <2>4. QED
    BY <1>3, <2>2, <2>3
<1>4. CASE n = 8
  <2>1. k \in {1, 2, 3, 4, 5, 6, 7, 8}
    BY <1>4
  <2>2. 8 \in J
    BY <1>2, <1>4, <2>1
  <2>3. 1 \in J /\ 2 \in J /\ 3 \in J /\ 4 \in J /\ 5 \in J /\ 6 \in J /\ 7 \in J
    BY <1>2, <1>4, <2>2
  <2>4. QED
    BY <1>4, <2>2, <2>3
<1>5. QED
  BY <1>3, <1>4

\* The tiles of a ring: each is beside the next.
LEMMA RingFacts ==
  ASSUME NEW size \in {"compact", "standard"}, NEW origin \in Int \X Int
  PROVE  LET ring == Ring(size, origin)
             n == Len(ring)
         IN  /\ n \in {4, 8} /\ DOMAIN ring = 1..n
             /\ \A i \in 1..n : ring[i] \in RingTiles(size, origin)
             /\ \A p \in RingTiles(size, origin) : \E i \in 1..n : ring[i] = p
             /\ \A i \in 1..n : HeadingBetween(ring[i], ring[After(n, i)]) \in Headings
<1> DEFINE ring == Ring(size, origin)
           n == Len(ring)
           at(dx, dy) == <<origin[1] + dx, origin[2] + dy>>
<1>1. origin[1] \in Int /\ origin[2] \in Int
  OBVIOUS
<1>2. \A p, q : (\E h \in Headings : Offset(p, h) = q) => HeadingBetween(p, q) \in Headings
  BY DEF HeadingBetween
<1>3. ring = [i \in DOMAIN RingOffsets[size] |-> at(RingOffsets[size][i][1], RingOffsets[size][i][2])]
  BY DEF Ring
<1>4. \A dx, dy \in {0, 1, 2} :
        /\ dy > 0 => Offset(at(dx, dy), "N") = at(dx, dy - 1)
        /\ dx > 0 => Offset(at(dx, dy), "W") = at(dx - 1, dy)
        /\ Offset(at(dx, dy), "E") = at(dx + 1, dy)
        /\ Offset(at(dx, dy), "S") = at(dx, dy + 1)
  BY <1>1 DEF Offset, Ahead
<1>5. CASE size = "compact"
  <2>1. RingOffsets[size] = <<<<1, 1>>, <<1, 0>>, <<0, 0>>, <<0, 1>>>>
    BY <1>5 DEF RingOffsets
  <2> HIDE DEF at
  <2>2. ring = <<at(1, 1), at(1, 0), at(0, 0), at(0, 1)>>
    BY <1>3, <2>1
  <2>3. n = 4 /\ DOMAIN ring = 1..4 /\ 1..4 = {1, 2, 3, 4}
    BY <2>2
  <2>4. After(4, 1) = 2 /\ After(4, 2) = 3 /\ After(4, 3) = 4 /\ After(4, 4) = 1
    BY DEF After
  <2>5. /\ Offset(ring[1], "N") = ring[2] /\ Offset(ring[2], "W") = ring[3]
        /\ Offset(ring[3], "S") = ring[4] /\ Offset(ring[4], "E") = ring[1]
    BY <1>4, <2>2
  <2> HIDE DEF ring
  <2>6. \A i \in 1..4 : \E h \in Headings : Offset(ring[i], h) = ring[After(4, i)]
    BY <2>3, <2>4, <2>5 DEF Headings
  <2>7. RingTiles(size, origin) = {ring[i] : i \in 1..4}
    BY <2>1 DEF RingTiles, ring
  <2>8. QED
    BY <1>2, <2>3, <2>6, <2>7 DEF ring
<1>6. CASE size = "standard"
  <2>1. RingOffsets[size] = <<<<2, 2>>, <<2, 1>>, <<2, 0>>, <<1, 0>>, <<0, 0>>, <<0, 1>>, <<0, 2>>, <<1, 2>>>>
    BY <1>6 DEF RingOffsets
  <2> HIDE DEF at
  <2>2. ring = <<at(2, 2), at(2, 1), at(2, 0), at(1, 0), at(0, 0), at(0, 1), at(0, 2), at(1, 2)>>
    BY <1>3, <2>1
  <2>3. n = 8 /\ DOMAIN ring = 1..8 /\ 1..8 = {1, 2, 3, 4, 5, 6, 7, 8}
    BY <2>2
  <2>4. /\ After(8, 1) = 2 /\ After(8, 2) = 3 /\ After(8, 3) = 4 /\ After(8, 4) = 5
        /\ After(8, 5) = 6 /\ After(8, 6) = 7 /\ After(8, 7) = 8 /\ After(8, 8) = 1
    BY DEF After
  <2>5. /\ Offset(ring[1], "N") = ring[2] /\ Offset(ring[2], "N") = ring[3]
        /\ Offset(ring[3], "W") = ring[4] /\ Offset(ring[4], "W") = ring[5]
        /\ Offset(ring[5], "S") = ring[6] /\ Offset(ring[6], "S") = ring[7]
        /\ Offset(ring[7], "E") = ring[8] /\ Offset(ring[8], "E") = ring[1]
    BY <1>4, <2>2
  <2> HIDE DEF ring
  <2>6. \A i \in 1..8 : \E h \in Headings : Offset(ring[i], h) = ring[After(8, i)]
    BY <2>3, <2>4, <2>5 DEF Headings
  <2>7. RingTiles(size, origin) = {ring[i] : i \in 1..8}
    BY <2>1 DEF RingTiles, ring
  <2>8. QED
    BY <1>2, <2>3, <2>6, <2>7 DEF ring
<1>7. QED
  BY <1>5, <1>6

-----------------------------------------------------------------------------
(* The topology compiled of a map whose ports have just been read.          *)

Ready(m) ==
    /\ m \in Maps /\ LinksLoad(m) /\ PortsCover(m)
    /\ \A s \in m.structures : Shaped(s)
    /\ \A s \in RoundaboutsOf(m) : s.ports = RecaptureBoundaryPorts(m, s.footprint)

\* Reading the ports anew makes it so.
LEMMA SyncedIsReady ==
  ASSUME NEW m, Whole(m)
  PROVE  Ready(SyncRoundaboutPorts(m))
<1> DEFINE n == SyncRoundaboutPorts(m)
<1>1. m \in Maps /\ Between(m) /\ LinksLoad(m) /\ PortsCover(m)
  BY DEF Whole, Between
<1>2. n = [m EXCEPT !.structures = {Synced(m, s) : s \in m.structures}]
  BY DEF SyncRoundaboutPorts, Synced
<1>3. n \in Maps /\ \A s \in n.structures : Shaped(s)
  BY <1>1, SyncKeeps DEF Between
<1>4. /\ n.structures = {Synced(m, s) : s \in m.structures} /\ n.road = m.road
      /\ n.oneWay = m.oneWay /\ n.links = m.links
  BY <1>1, <1>2 DEF Maps
<1> HIDE DEF n
<1>5. LinksLoad(n)
  BY <1>1, <1>4 DEF LinksLoad, ReciprocalConnection
<1>6. \A s \in m.structures : /\ Synced(m, s).kind = s.kind /\ Synced(m, s).footprint = s.footprint
                              /\ s.kind = "roundabout" =>
                                   Synced(m, s).ports = RecaptureBoundaryPorts(m, s.footprint)
                              /\ s.kind # "roundabout" => Synced(m, s) = s
  BY <1>1, MapParts, SyncedStructure
<1>7. \A F : Boundary(n, F) = Boundary(m, F)
  BY <1>4 DEF Boundary, ReciprocalConnection
<1>8. \A F : RecaptureBoundaryPorts(n, F) = RecaptureBoundaryPorts(m, F)
  BY <1>4, <1>7 DEF RecaptureBoundaryPorts, BoundaryPorts
<1>9. PortsCover(n)
  <2>1. \A s \in JunctionsOf(n) : s \in JunctionsOf(m)
    BY <1>4, <1>6 DEF JunctionsOf
  <2>2. QED
    BY <1>1, <1>7, <2>1 DEF PortsCover
<1>10. \A s \in RoundaboutsOf(n) : s.ports = RecaptureBoundaryPorts(n, s.footprint)
  <2>1. TAKE s \in RoundaboutsOf(n)
  <2>2. PICK t \in m.structures : s = Synced(m, t) /\ s.kind = "roundabout"
    BY <1>4 DEF RoundaboutsOf
  <2>3. QED
    BY <1>6, <1>8, <2>2
<1>11. QED
  BY <1>3, <1>5, <1>9, <1>10 DEF Ready, n

Leads(T, p, q) == \E t \in T : t.from = p /\ t.to = q

\* What a port is, in a map that is ready.
LEMMA PortParts ==
  ASSUME NEW m, Ready(m), NEW s \in m.structures, NEW x \in s.ports
  PROVE  x.point \in Tiles /\ x.edge \in Headings /\ s.footprint \in SUBSET Tiles /\ s.id \in Ids
BY MapParts DEF Ready, Structures, Ports

\* A link that is answered leads to a tile.
LEMMA AnsweredOnMap ==
  ASSUME NEW m, Ready(m), NEW p, NEW h, ReciprocalConnection(m, p, h)
  PROVE  Offset(p, h) \in Tiles
BY MapParts DEF Ready, ReciprocalConnection

\* From a road that no structure owns.
LEMMA OrdinaryRoads ==
  ASSUME NEW m, Ready(m)
  PROVE  /\ \A t \in OrdinaryTransitions(m) : t.to \in DrivingStates
         /\ \A p \in m.road, i \in Headings : \A h \in m.links[p] :
              (/\ m.owner[p] = None /\ LaneAccepts(m.oneWay[p], i)
               /\ LaneAccepts(m.oneWay[p], h) /\ LaneAccepts(m.oneWay[Offset(p, h)], h))
              => Leads(OrdinaryTransitions(m), <<p, i>>, <<Offset(p, h), h>>)
<1> DEFINE In(p) == {i \in Headings : LaneAccepts(m.oneWay[p], i)}
           Out(p) == {o \in m.links[p] : /\ LaneAccepts(m.oneWay[p], o)
                                         /\ ReciprocalConnection(m, p, o)
                                         /\ LaneAccepts(m.oneWay[Offset(p, o)], o)}
           move(p, i, o) == [from |-> <<p, i>>, to |-> <<Offset(p, o), o>>,
                             millis |-> BusTileMillis + TurnMillis(i, o)]
           P == {p \in m.road : m.owner[p] = None}
<1>1. OrdinaryTransitions(m) = UNION {{move(p, i, o) : i \in In(p), o \in Out(p)} : p \in P}
  BY DEF OrdinaryTransitions
<1>2. \A p, i, o : move(p, i, o).from = <<p, i>> /\ move(p, i, o).to = <<Offset(p, o), o>>
  OBVIOUS
<1>3. \A p \in P : \A o \in Out(p) : <<Offset(p, o), o>> \in DrivingStates
  <2>1. TAKE p \in P
  <2>2. TAKE o \in Out(p)
  <2>3. p \in Tiles /\ o \in m.links[p] /\ o \in Headings
    BY MapParts DEF Ready
  <2>4. Offset(p, o) \in Tiles
    BY AnsweredOnMap
  <2>5. QED
    BY <2>3, <2>4 DEF DrivingStates
<1>4. \A p \in m.road : \A h \in m.links[p] : ReciprocalConnection(m, p, h)
  BY MapParts DEF Ready, LinksLoad
<1> HIDE DEF move
<1>5. \A t \in OrdinaryTransitions(m) : t.to \in DrivingStates
  <2>1. TAKE t \in OrdinaryTransitions(m)
  <2>2. PICK p \in P : t \in {move(p, i, o) : i \in In(p), o \in Out(p)}
    BY <1>1
  <2>3. PICK i \in In(p), o \in Out(p) : t = move(p, i, o)
    BY <2>2
  <2> HIDE DEF In, Out, P
  <2>4. p \in P /\ o \in Out(p)
    BY <2>2, <2>3
  <2>5. <<Offset(p, o), o>> \in DrivingStates
    BY <1>3, <2>4
  <2>6. t.to = <<Offset(p, o), o>>
    BY <1>2, <2>3
  <2>7. QED
    BY <2>5, <2>6
<1>6. ASSUME NEW p \in m.road, NEW i \in Headings, NEW h \in m.links[p],
             m.owner[p] = None, LaneAccepts(m.oneWay[p], i),
             LaneAccepts(m.oneWay[p], h), LaneAccepts(m.oneWay[Offset(p, h)], h)
      PROVE  Leads(OrdinaryTransitions(m), <<p, i>>, <<Offset(p, h), h>>)
  <2>1. p \in P /\ i \in In(p) /\ h \in Out(p)
    BY <1>4, <1>6
  <2> HIDE DEF In, Out, P
  <2>2. move(p, i, h) \in OrdinaryTransitions(m)
    BY <1>1, <2>1
  <2>3. QED
    BY <1>2, <2>2 DEF Leads
<1>7. QED
  BY <1>5, <1>6

\* Through a junction, from any link over its edge to any other.
LEMMA JunctionCrossed ==
  ASSUME NEW m, Ready(m), NEW s \in JunctionsOf(m)
  PROVE  /\ \A t \in JunctionTransitions(m, s) : t.to \in DrivingStates
         /\ \A e, x \in Boundary(m, s.footprint) :
              (/\ LaneAccepts(m.oneWay[Offset(e[1], e[2])], Opposite[e[2]])
               /\ LaneAccepts(m.oneWay[Offset(x[1], x[2])], x[2]))
              => Leads(JunctionTransitions(m, s), <<e[1], Opposite[e[2]]>>, <<Offset(x[1], x[2]), x[2]>>)
<1> DEFINE live == {x \in s.ports : /\ x.point \in m.road /\ x.edge \in m.links[x.point]
                                    /\ ReciprocalConnection(m, x.point, x.edge)}
           Beyond(x) == Offset(x.point, x.edge)
           Gap(a, b) == IF a < b THEN b - a ELSE a - b
           crossing(a, b) == Gap(a.point[1], b.point[1]) + Gap(a.point[2], b.point[2]) + 1
           In == {a \in live : LaneAccepts(m.oneWay[Beyond(a)], Opposite[a.edge])}
           Out == {b \in live : LaneAccepts(m.oneWay[Beyond(b)], b.edge)}
           move(a, b) == [from |-> <<a.point, Opposite[a.edge]>>, to |-> <<Beyond(b), b.edge>>,
                          millis |-> BusTileMillis * crossing(a, b) + TurnMillis(Opposite[a.edge], b.edge)]
<1>1. JunctionTransitions(m, s) = {move(a, b) : a \in In, b \in Out}
  BY DEF JunctionTransitions
<1>2. \A a, b : move(a, b).from = <<a.point, Opposite[a.edge]>> /\ move(a, b).to = <<Beyond(b), b.edge>>
  OBVIOUS
<1>3. s \in m.structures
  BY DEF JunctionsOf
<1>4. \A b \in Out : <<Beyond(b), b.edge>> \in DrivingStates
  <2>1. TAKE b \in Out
  <2>2. b \in s.ports /\ ReciprocalConnection(m, b.point, b.edge)
    OBVIOUS
  <2>3. b.edge \in Headings /\ Offset(b.point, b.edge) \in Tiles
    BY <1>3, <2>2, PortParts, AnsweredOnMap
  <2>4. QED
    BY <2>3 DEF DrivingStates
<1>5. ASSUME NEW e \in Boundary(m, s.footprint)
      PROVE  \E x \in live : x.point = e[1] /\ x.edge = e[2]
  <2>1. PICK x \in s.ports : x.point = e[1] /\ x.edge = e[2]
    BY DEF Ready, PortsCover
  <2>2. s.footprint \in SUBSET Tiles
    BY <1>3, <2>1, PortParts
  <2>3. e[1] \in Tiles /\ e[2] \in m.links[e[1]] /\ ReciprocalConnection(m, e[1], e[2])
    BY <2>2 DEF Boundary
  <2>4. e[1] \in m.road
    BY <2>3 DEF Ready, LinksLoad
  <2>5. QED
    BY <2>1, <2>3, <2>4
<1> HIDE DEF move, live
<1>6. \A t \in JunctionTransitions(m, s) : t.to \in DrivingStates
  <2>1. TAKE t \in JunctionTransitions(m, s)
  <2>2. PICK a \in In, b \in Out : t = move(a, b)
    BY <1>1
  <2> HIDE DEF In, Out
  <2>3. b \in Out /\ t.to = <<Beyond(b), b.edge>>
    BY <1>2, <2>2
  <2>4. QED
    BY <1>4, <2>3
<1>7. ASSUME NEW e \in Boundary(m, s.footprint), NEW x \in Boundary(m, s.footprint),
             LaneAccepts(m.oneWay[Offset(e[1], e[2])], Opposite[e[2]]),
             LaneAccepts(m.oneWay[Offset(x[1], x[2])], x[2])
      PROVE  Leads(JunctionTransitions(m, s), <<e[1], Opposite[e[2]]>>, <<Offset(x[1], x[2]), x[2]>>)
  <2>1. PICK a \in live : a.point = e[1] /\ a.edge = e[2]
    BY <1>5
  <2>2. PICK b \in live : b.point = x[1] /\ b.edge = x[2]
    BY <1>5
  <2>3. a \in In /\ b \in Out
    BY <1>7, <2>1, <2>2
  <2>4. move(a, b) \in JunctionTransitions(m, s)
    BY <1>1, <2>3
  <2>5. QED
    BY <1>2, <2>1, <2>2, <2>4 DEF Leads
<1>8. QED
  BY <1>6, <1>7

-----------------------------------------------------------------------------
(* Around a roundabout.                                                     *)

RingOf(s) == Ring(s.id[2], s.id[3])
Around(s) == Len(RingOf(s))
OutOf(s, i) == HeadingBetween(RingOf(s)[i], RingOf(s)[After(Around(s), i)])
InOf(s, i) == HeadingBetween(RingOf(s)[Before(Around(s), i)], RingOf(s)[i])
PlaceOf(s, p) == CHOOSE i \in 1..Around(s) : RingOf(s)[i] = p
LivePorts(m, s) == {x \in s.ports : PortMatchesCurrentMap(m, x)}

Circulating(s) ==
    {[from |-> <<RingOf(s)[i], InOf(s, i)>>, to |-> <<RingOf(s)[After(Around(s), i)], OutOf(s, i)>>,
      millis |-> BusTileMillis] : i \in 1..Around(s)}

Entering(m, s) ==
    {[from |-> <<x.point, Opposite[x.edge]>>,
      to |-> <<RingOf(s)[After(Around(s), PlaceOf(s, x.point))], OutOf(s, PlaceOf(s, x.point))>>,
      millis |-> BusTileMillis + RoundaboutEntryMillis]
        : x \in {x \in LivePorts(m, s) : x.direction \in {"inbound", "twoWay"}}}

Leaving(m, s) ==
    {[from |-> <<x.point, InOf(s, PlaceOf(s, x.point))>>,
      to |-> <<Offset(x.point, x.edge), x.edge>>, millis |-> BusTileMillis]
        : x \in {x \in LivePorts(m, s) : x.direction \in {"outbound", "twoWay"}}}

\* A vehicle goes on around, comes in or leaves.
LEMMA RoundaboutInParts ==
  ASSUME NEW m, NEW s
  PROVE  RoundaboutTransitions(m, s) = Circulating(s) \cup Entering(m, s) \cup Leaving(m, s)
BY DEF RoundaboutTransitions, Circulating, Entering, Leaving, RingOf, Around, OutOf, InOf, PlaceOf,
       LivePorts, After, Before

\* The ring of a roundabout that stands on the map.
LEMMA RoundaboutRing ==
  ASSUME NEW m, Ready(m), NEW s \in RoundaboutsOf(m)
  PROVE  /\ Around(s) \in {4, 8} /\ s.footprint \in SUBSET Tiles
         /\ \A i \in 1..Around(s) : /\ RingOf(s)[i] \in s.footprint
                                    /\ After(Around(s), i) \in 1..Around(s)
                                    /\ OutOf(s, i) \in Headings
                                    /\ InOf(s, After(Around(s), i)) = OutOf(s, i)
         /\ \A e \in Boundary(m, s.footprint) : /\ PlaceOf(s, e[1]) \in 1..Around(s)
                                                /\ RingOf(s)[PlaceOf(s, e[1])] = e[1]
<1>1. s \in m.structures /\ s.kind = "roundabout" /\ s \in Structures /\ m \in Maps /\ Shaped(s)
  BY MapParts DEF RoundaboutsOf, Ready
<1>2. s.id \in Ids /\ s.id[1] = "roundabout" /\ s.footprint \in SUBSET Tiles
  BY <1>1 DEF Structures, Shaped
<1>3. s.id \in {"roundabout"} \X {"compact", "standard"} \X (Int \X Int)
  BY <1>2 DEF Ids
<1>4. PICK size \in {"compact", "standard"}, origin \in Int \X Int : s.id[2] = size /\ s.id[3] = origin
  BY <1>3
<1>5. s.footprint = Footprint(size, origin) /\ RingOf(s) = Ring(size, origin)
  BY <1>1, <1>4 DEF Shaped, RingOf
<1>6. PICK ring : ring = Ring(size, origin)
  OBVIOUS
<1>7. PICK n : n = Len(ring)
  OBVIOUS
<1>8. /\ n \in {4, 8}
      /\ \A i \in 1..n : ring[i] \in RingTiles(size, origin)
      /\ \A p \in RingTiles(size, origin) : \E i \in 1..n : ring[i] = p
      /\ \A i \in 1..n : HeadingBetween(ring[i], ring[After(n, i)]) \in Headings
  BY <1>6, <1>7, RingFacts
<1>9. RingOf(s) = ring /\ Around(s) = n
  BY <1>5, <1>6, <1>7 DEF Around
<1>10. \A i \in 1..n : After(n, i) \in 1..n /\ Before(n, After(n, i)) = i
  BY <1>8, AroundAndBack
<1>11. RingTiles(size, origin) \subseteq s.footprint
  BY <1>5, RingIsTheEdge
<1>12. ASSUME NEW e \in Boundary(m, s.footprint)
       PROVE  PlaceOf(s, e[1]) \in 1..n /\ ring[PlaceOf(s, e[1])] = e[1]
  <2>1. e[1] \in s.footprint /\ e[2] \in Headings /\ Offset(e[1], e[2]) \notin s.footprint
    BY <1>1, <1>2, BoundaryType
  <2>2. e[1] \in RingTiles(size, origin)
    BY <1>5, <2>1, RingIsTheEdge
  <2>3. \E i \in 1..n : ring[i] = e[1]
    BY <1>8, <2>2
  <2>4. QED
    BY <1>9, <2>3 DEF PlaceOf
<1>13. QED
  BY <1>2, <1>8, <1>9, <1>10, <1>11, <1>12 DEF OutOf, InOf

\* A road that meets the ring has a port that serves the directions its arrow
\* allows.
LEMMA PortOfTheRoad ==
  ASSUME NEW m, Ready(m), NEW s \in RoundaboutsOf(m), NEW e \in Boundary(m, s.footprint)
  PROVE  \A d \in {"inbound", "outbound"} :
           LaneAccepts(m.oneWay[Offset(e[1], e[2])], IF d = "inbound" THEN Opposite[e[2]] ELSE e[2])
           => \E x \in LivePorts(m, s) : x.point = e[1] /\ x.edge = e[2] /\ x.direction \in {d, "twoWay"}
<1>1. m \in Maps /\ s.footprint \in SUBSET Tiles /\ LinksLoad(m)
  BY RoundaboutRing DEF Ready
<1>2. /\ e[1] \in Tiles /\ e[2] \in Headings /\ e[2] \in m.links[e[1]] /\ ReciprocalConnection(m, e[1], e[2])
  BY <1>1, BoundaryType DEF Boundary
<1>3. e[1] \in m.road
  BY <1>1, <1>2 DEF LinksLoad
<1>4. PICK arrow : arrow = m.oneWay[Offset(e[1], e[2])]
  OBVIOUS
<1>5. PICK x : x = [point |-> e[1], edge |-> e[2], direction |-> PortDirection(e[2], arrow)]
  OBVIOUS
<1>6. x.point = e[1] /\ x.edge = e[2] /\ x.direction = PortDirection(e[2], arrow)
  BY <1>5
<1>7. x \in BoundaryPorts(m, s.footprint)
  BY <1>4, <1>5 DEF BoundaryPorts
<1>8. PortMatchesCurrentMap(m, x)
  BY <1>2, <1>3, <1>4, <1>6 DEF PortMatchesCurrentMap
<1>9. x.direction # None => x \in LivePorts(m, s)
  BY <1>7, <1>8 DEF Ready, RecaptureBoundaryPorts, LivePorts
<1>10. None \notin {"twoWay", "inbound", "outbound"} /\ None \notin Headings
  BY RoadConstants
<1>11. Opposite[e[2]] # e[2] /\ Opposite[e[2]] \in Headings
  BY <1>2 DEF Headings, Opposite
<1>12. /\ arrow = None => PortDirection(e[2], arrow) = "twoWay"
       /\ arrow = Opposite[e[2]] => PortDirection(e[2], arrow) = "inbound"
       /\ arrow = e[2] => PortDirection(e[2], arrow) = "outbound"
  BY <1>2, <1>10, <1>11 DEF PortDirection
<1>13. QED
  BY <1>4, <1>6, <1>9, <1>10, <1>12 DEF LaneAccepts

\* What leads where around a roundabout.
LEMMA RoundaboutLeads ==
  ASSUME NEW m, Ready(m), NEW s \in RoundaboutsOf(m)
  PROVE  /\ \A i \in 1..Around(s) :
              Leads(RoundaboutTransitions(m, s), <<RingOf(s)[i], InOf(s, i)>>,
                    <<RingOf(s)[After(Around(s), i)], OutOf(s, i)>>)
         /\ \A e \in Boundary(m, s.footprint) :
              /\ LaneAccepts(m.oneWay[Offset(e[1], e[2])], Opposite[e[2]]) =>
                   Leads(RoundaboutTransitions(m, s), <<e[1], Opposite[e[2]]>>,
                         <<RingOf(s)[After(Around(s), PlaceOf(s, e[1]))], OutOf(s, PlaceOf(s, e[1]))>>)
              /\ LaneAccepts(m.oneWay[Offset(e[1], e[2])], e[2]) =>
                   Leads(RoundaboutTransitions(m, s), <<e[1], InOf(s, PlaceOf(s, e[1]))>>,
                         <<Offset(e[1], e[2]), e[2]>>)
<1>1. ASSUME NEW i \in 1..Around(s)
      PROVE  Leads(Circulating(s), <<RingOf(s)[i], InOf(s, i)>>,
                   <<RingOf(s)[After(Around(s), i)], OutOf(s, i)>>)
  <2>1. PICK t : t = [from |-> <<RingOf(s)[i], InOf(s, i)>>,
                      to |-> <<RingOf(s)[After(Around(s), i)], OutOf(s, i)>>, millis |-> BusTileMillis]
    OBVIOUS
  <2>2. t \in Circulating(s)
    BY <2>1 DEF Circulating
  <2>3. QED
    BY <2>1, <2>2 DEF Leads
<1>2. ASSUME NEW e \in Boundary(m, s.footprint),
             LaneAccepts(m.oneWay[Offset(e[1], e[2])], Opposite[e[2]])
      PROVE  Leads(Entering(m, s), <<e[1], Opposite[e[2]]>>,
                   <<RingOf(s)[After(Around(s), PlaceOf(s, e[1]))], OutOf(s, PlaceOf(s, e[1]))>>)
  <2>1. PICK x \in LivePorts(m, s) :
          x.point = e[1] /\ x.edge = e[2] /\ x.direction \in {"inbound", "twoWay"}
    BY <1>2, PortOfTheRoad
  <2>2. PICK t : t = [from |-> <<x.point, Opposite[x.edge]>>,
                      to |-> <<RingOf(s)[After(Around(s), PlaceOf(s, x.point))], OutOf(s, PlaceOf(s, x.point))>>,
                      millis |-> BusTileMillis + RoundaboutEntryMillis]
    OBVIOUS
  <2>3. t \in Entering(m, s)
    BY <2>1, <2>2 DEF Entering
  <2>4. QED
    BY <2>1, <2>2, <2>3 DEF Leads
<1>3. ASSUME NEW e \in Boundary(m, s.footprint), LaneAccepts(m.oneWay[Offset(e[1], e[2])], e[2])
      PROVE  Leads(Leaving(m, s), <<e[1], InOf(s, PlaceOf(s, e[1]))>>, <<Offset(e[1], e[2]), e[2]>>)
  <2>1. PICK x \in LivePorts(m, s) :
          x.point = e[1] /\ x.edge = e[2] /\ x.direction \in {"outbound", "twoWay"}
    BY <1>3, PortOfTheRoad
  <2>2. PICK t : t = [from |-> <<x.point, InOf(s, PlaceOf(s, x.point))>>,
                      to |-> <<Offset(x.point, x.edge), x.edge>>, millis |-> BusTileMillis]
    OBVIOUS
  <2>3. t \in Leaving(m, s)
    BY <2>1, <2>2 DEF Leaving
  <2>4. QED
    BY <2>1, <2>2, <2>3 DEF Leads
<1>4. QED
  BY <1>1, <1>2, <1>3, RoundaboutInParts DEF Leads

\* Wherever it leads is on the map.
LEMMA RoundaboutStaysOnMap ==
  ASSUME NEW m, Ready(m), NEW s \in RoundaboutsOf(m), NEW t \in RoundaboutTransitions(m, s)
  PROVE  t.to \in DrivingStates
<1>1. \A i \in 1..Around(s) : <<RingOf(s)[After(Around(s), i)], OutOf(s, i)>> \in DrivingStates
  BY RoundaboutRing DEF DrivingStates
<1>2. ASSUME t \in Circulating(s)
      PROVE  t.to \in DrivingStates
  <2>1. PICK i \in 1..Around(s) : t.to = <<RingOf(s)[After(Around(s), i)], OutOf(s, i)>>
    BY <1>2 DEF Circulating
  <2>2. QED
    BY <1>1, <2>1
<1>3. \A x \in LivePorts(m, s) : /\ x.point \in Tiles /\ x.edge \in Headings
                                 /\ Offset(x.point, x.edge) \in Tiles
                                 /\ PlaceOf(s, x.point) \in 1..Around(s)
  <2>1. TAKE x \in LivePorts(m, s)
  <2>2. x \in s.ports /\ PortMatchesCurrentMap(m, x) /\ s \in m.structures
    BY DEF LivePorts, RoundaboutsOf
  <2>3. ReciprocalConnection(m, x.point, x.edge)
    BY <2>2 DEF PortMatchesCurrentMap
  <2>4. x \in BoundaryPorts(m, s.footprint)
    BY <2>2 DEF Ready, RecaptureBoundaryPorts
  <2>5. PICK e \in Boundary(m, s.footprint) : x.point = e[1]
    BY <2>4 DEF BoundaryPorts
  <2>6. QED
    BY <2>2, <2>3, <2>5, PortParts, AnsweredOnMap, RoundaboutRing
<1>4. ASSUME t \in Entering(m, s)
      PROVE  t.to \in DrivingStates
  <2>1. PICK x \in LivePorts(m, s) :
          t.to = <<RingOf(s)[After(Around(s), PlaceOf(s, x.point))], OutOf(s, PlaceOf(s, x.point))>>
    BY <1>4 DEF Entering
  <2>2. QED
    BY <1>1, <1>3, <2>1
<1>5. ASSUME t \in Leaving(m, s)
      PROVE  t.to \in DrivingStates
  <2>1. PICK x \in LivePorts(m, s) : t.to = <<Offset(x.point, x.edge), x.edge>>
    BY <1>5 DEF Leaving
  <2>2. QED
    BY <1>3, <2>1 DEF DrivingStates
<1>6. QED
  BY <1>2, <1>4, <1>5, RoundaboutInParts

-----------------------------------------------------------------------------
(* Every movement.                                                          *)

\* A transition is one of a road, of a junction or of a roundabout.
LEMMA TransitionsFrom ==
  ASSUME NEW m, NEW t
  PROVE  t \in Transitions(m) <=>
           \/ t \in OrdinaryTransitions(m)
           \/ \E s \in JunctionsOf(m) : t \in JunctionTransitions(m, s)
           \/ \E s \in RoundaboutsOf(m) : t \in RoundaboutTransitions(m, s)
<1> DEFINE J == UNION {JunctionTransitions(m, s) : s \in JunctionsOf(m)}
           R == UNION {RoundaboutTransitions(m, s) : s \in RoundaboutsOf(m)}
<1>1. t \in J <=> \E s \in JunctionsOf(m) : t \in JunctionTransitions(m, s)
  OBVIOUS
<1>2. t \in R <=> \E s \in RoundaboutsOf(m) : t \in RoundaboutTransitions(m, s)
  OBVIOUS
<1>3. Transitions(m) = OrdinaryTransitions(m) \cup J \cup R
  BY DEF Transitions
<1> HIDE DEF J, R
<1>4. QED
  BY <1>1, <1>2, <1>3

\* Every transition leads to a tile of the map.
LEMMA AllOnMap ==
  ASSUME NEW m, Ready(m), NEW t \in Transitions(m)
  PROVE  t.to \in DrivingStates
<1>1. CASE t \in OrdinaryTransitions(m)
  BY <1>1, OrdinaryRoads
<1>2. ASSUME NEW s \in JunctionsOf(m), t \in JunctionTransitions(m, s)
      PROVE  t.to \in DrivingStates
  BY <1>2, JunctionCrossed
<1>3. ASSUME NEW s \in RoundaboutsOf(m), t \in RoundaboutTransitions(m, s)
      PROVE  t.to \in DrivingStates
  BY <1>3, RoundaboutStaysOnMap
<1>4. QED
  BY <1>1, <1>2, <1>3, TransitionsFrom

\* The moves of a compiled map.
Moves(m) == {<<t.from, t.to>> : t \in Transitions(m)}
Crossing(m, F) == {move \in Moves(m) : move[1][1] \in F}

\* A way of a structure is among the moves that cross it.
LEMMA LeadsAcross ==
  ASSUME NEW m, NEW s, NEW p, NEW i, NEW q,
         \/ s \in JunctionsOf(m) /\ Leads(JunctionTransitions(m, s), <<p, i>>, q)
         \/ s \in RoundaboutsOf(m) /\ Leads(RoundaboutTransitions(m, s), <<p, i>>, q),
         p \in s.footprint
  PROVE  <<<<p, i>>, q>> \in Crossing(m, s.footprint)
<1>1. PICK t \in Transitions(m) : t.from = <<p, i>> /\ t.to = q
  BY TransitionsFrom DEF Leads
<1>2. <<<<p, i>>, q>> \in Moves(m)
  BY <1>1 DEF Moves
<1>3. QED
  BY <1>2 DEF Crossing

\* Every road that leads in leads to every road that leads out.
LEMMA CrossedFromEverySide ==
  ASSUME NEW m, Ready(m), NEW s \in m.structures,
         NEW e \in Boundary(m, s.footprint), NEW x \in Boundary(m, s.footprint),
         LaneAccepts(m.oneWay[Offset(e[1], e[2])], Opposite[e[2]]),
         LaneAccepts(m.oneWay[Offset(x[1], x[2])], x[2])
  PROVE  <<Offset(x[1], x[2]), x[2]>> \in DrivenFrom(Crossing(m, s.footprint), <<e[1], Opposite[e[2]]>>)
<1>1. m \in Maps /\ s.footprint \in SUBSET Tiles
  BY MapParts DEF Ready, Structures
<1>2. /\ e[1] \in s.footprint /\ x[1] \in s.footprint /\ e[2] \in Headings
      /\ <<e[1], Opposite[e[2]]>> \in DrivingStates
  <2>1. e[1] \in s.footprint /\ x[1] \in s.footprint /\ e[2] \in Headings
    BY <1>1, BoundaryType
  <2>2. QED
    BY <1>1, <2>1, HeadingFacts DEF DrivingStates
<1>3. \A move \in Crossing(m, s.footprint) : move[2] \in DrivingStates
  <2>1. \A t \in Transitions(m) : t.to \in DrivingStates
    BY AllOnMap
  <2>2. QED
    BY <2>1 DEF Crossing, Moves
<1>4. PICK start : start = <<e[1], Opposite[e[2]]>>
  OBVIOUS
<1>5. PICK R : R = DrivenFrom(Crossing(m, s.footprint), start)
  OBVIOUS
<1>6. start \in R /\ \A p, q : p \in R /\ <<p, q>> \in Crossing(m, s.footprint) => q \in R
  BY <1>2, <1>3, <1>4, <1>5, DrivenGoesOn
<1>7. CASE s.kind = "junction"
  <2>1. s \in JunctionsOf(m)
    BY <1>7 DEF JunctionsOf
  <2>2. <<start, <<Offset(x[1], x[2]), x[2]>>>> \in Crossing(m, s.footprint)
    BY <1>2, <1>4, <2>1, JunctionCrossed, LeadsAcross
  <2>3. QED
    BY <1>4, <1>5, <1>6, <2>2
<1>8. CASE s.kind = "roundabout"
  <2>1. s \in RoundaboutsOf(m)
    BY <1>8 DEF RoundaboutsOf
  <2> DEFINE n == Around(s)
             J == {i \in 1..n : <<RingOf(s)[i], InOf(s, i)>> \in R}
  <2>2. /\ n \in {4, 8}
        /\ \A i \in 1..n : /\ RingOf(s)[i] \in s.footprint /\ After(n, i) \in 1..n
                           /\ InOf(s, After(n, i)) = OutOf(s, i)
        /\ PlaceOf(s, e[1]) \in 1..n /\ PlaceOf(s, x[1]) \in 1..n
        /\ RingOf(s)[PlaceOf(s, x[1])] = x[1]
    BY <2>1, RoundaboutRing
  <2>3. After(n, PlaceOf(s, e[1])) \in J
    <3>1. PICK q : q = <<RingOf(s)[After(n, PlaceOf(s, e[1]))], OutOf(s, PlaceOf(s, e[1]))>>
      OBVIOUS
    <3>2. <<start, q>> \in Crossing(m, s.footprint)
      BY <1>2, <1>4, <2>1, <3>1, RoundaboutLeads, LeadsAcross
    <3>3. q \in R
      BY <1>6, <3>2
    <3>4. QED
      BY <2>2, <3>1, <3>3
  <2>4. ASSUME NEW i \in J
        PROVE  After(n, i) \in J
    <3>1. PICK p : p = <<RingOf(s)[i], InOf(s, i)>>
      OBVIOUS
    <3>2. PICK q : q = <<RingOf(s)[After(n, i)], OutOf(s, i)>>
      OBVIOUS
    <3>3. i \in 1..n /\ p \in R
      BY <3>1
    <3>4. <<p, q>> \in Crossing(m, s.footprint)
      BY <2>1, <2>2, <3>1, <3>2, <3>3, RoundaboutLeads, LeadsAcross
    <3>5. q \in R
      BY <1>6, <3>3, <3>4
    <3>6. QED
      BY <2>2, <3>2, <3>3, <3>5
  <2>5. PlaceOf(s, x[1]) \in J
    <3>1. J \in SUBSET (1..n)
      OBVIOUS
    <3> HIDE DEF J, n
    <3>2. 1..n \subseteq J
      BY <2>2, <2>3, <2>4, <3>1, AllTheWayAround
    <3>3. QED
      BY <2>2, <3>2
  <2>6. PICK p : p = <<x[1], InOf(s, PlaceOf(s, x[1]))>>
    OBVIOUS
  <2>7. p \in R
    BY <2>2, <2>5, <2>6
  <2>8. <<p, <<Offset(x[1], x[2]), x[2]>>>> \in Crossing(m, s.footprint)
    BY <1>2, <2>1, <2>6, RoundaboutLeads, LeadsAcross
  <2>9. QED
    BY <1>4, <1>5, <1>6, <2>7, <2>8
<1>9. s.kind \in {"junction", "roundabout"}
  BY MapParts DEF Ready, Structures
<1>10. QED
  BY <1>7, <1>8, <1>9

\* The topology compiled of the map serves every movement the map shows: across
\* every link an arrow allows, and through every junction and roundabout from
\* each road that leads in to each that leads out (road_topology.rs).
THEOREM EveryMovementIsServed == Spec => []EveryMovementIsCompiled
<1>1. ASSUME MapInv
      PROVE  EveryMovementIsCompiled
  <2>1. PICK m : m = SyncRoundaboutPorts(map)
    OBVIOUS
  <2>2. Ready(m)
    BY <1>1, <2>1, SyncedIsReady DEF MapInv
  <2>3. ASSUME NEW p \in m.road, NEW i \in Headings, NEW h \in m.links[p],
               m.owner[p] = None, LaneAccepts(m.oneWay[p], i),
               LaneAccepts(m.oneWay[p], h), LaneAccepts(m.oneWay[Offset(p, h)], h)
        PROVE  <<<<p, i>>, <<Offset(p, h), h>>>> \in Moves(m)
    <3>1. Leads(OrdinaryTransitions(m), <<p, i>>, <<Offset(p, h), h>>)
      BY <2>2, <2>3, OrdinaryRoads
    <3>2. PICK t \in Transitions(m) : t.from = <<p, i>> /\ t.to = <<Offset(p, h), h>>
      BY <3>1, TransitionsFrom DEF Leads
    <3>3. QED
      BY <3>2 DEF Moves
  <2>4. ASSUME NEW s \in m.structures, NEW e \in Boundary(m, s.footprint),
               LaneAccepts(m.oneWay[Offset(e[1], e[2])], Opposite[e[2]])
        PROVE  {<<Offset(x[1], x[2]), x[2]>> :
                  x \in {x \in Boundary(m, s.footprint) : LaneAccepts(m.oneWay[Offset(x[1], x[2])], x[2])}}
                 \subseteq DrivenFrom(Crossing(m, s.footprint), <<e[1], Opposite[e[2]]>>)
    BY <2>2, <2>4, CrossedFromEverySide
  <2>5. QED
    BY <2>1, <2>3, <2>4 DEF EveryMovementIsCompiled, Moves, Crossing
<1>2. MapInv => EveryMovementIsCompiled
  BY <1>1
<1>3. QED
  BY <1>2, Invariance, PTL
=============================================================================
