---------------------------- MODULE BusLines_proofs ----------------------------
(***************************************************************************)
(* For any stops, networks, lines, platforms and buses: a line says of its  *)
(* legs what the network offers, a city with its lines and buses can be     *)
(* saved and opened again, parked buses stand at a stop, and an edit lands  *)
(* on the line its editor opened.                                           *)
(***************************************************************************)
EXTENDS BusLines, SequenceTheorems, FiniteSetTheorems, WellFoundedInduction, TLAPS

Directions == {"loop", "out", "back"}
Kinds == {"service", "reversal"}
Statuses == {"missing", "disconnected", "connected"}
Pairs == {p \in Stops \X Stops : p[1] # p[2]}
Ways == {NoWay, Stay} \cup {n.way[p] : n \in Networks, p \in Pairs}
                      \cup {n.turn[s] : n \in Networks, s \in Stops}
Access == {NoAccess} \cup {n.access[s] : n \in Networks, s \in Stops}
Places == {"driving", "roadside"} \cup {a.at : a \in Access \ {NoAccess}}

Visit == [from : Stops, to : Stops, direction : Directions, kind : Kinds]
Leg == [key : Visit, status : Statuses, path : Ways, last : Ways]
Route == [waypoints : Seq(Stops), pattern : Patterns, revision : Nat, active : BOOLEAN,
          legs : Seq(Leg)]
Bus == [route : RouteIds, leg : Nat \ {0}, step : Nat, parked : Places, stray : BOOLEAN]
City == [network : Networks, stops : [Stops -> {"present", "missing", "none"}],
         platforms : [Stops -> [1..Platforms -> SUBSET RouteIds]],
         routes : [RouteIds -> Route \cup {None}], buses : [BusIds -> Bus \cup {None}]]

\* The waypoints of a line: two or more, and none twice.
Itinerary(ids) == ids \in Seq(Stops) /\ Len(ids) >= 2 /\ IsInjective(ids)

\* The legs of a line are what the network offers.
FollowsNetwork(c, r) ==
  LET route == c.routes[r]
  IN  route.legs = MergeResolvedLegs(route.legs, ResolveRouteLegs(c, route.pattern, route.waypoints))

LinesFit(c) == \A r \in Lines(c) : /\ Itinerary(c.routes[r].waypoints)
                                   /\ c.routes[r].revision <= MaxRevision
                                   /\ FollowsNetwork(c, r)

\* Stops and platforms are what the loader demands.
StopsFit(c) == \A r \in Lines(c) : \A s \in Range(c.routes[r].waypoints) : c.stops[s] # "none"
NodesFit(c) == \A s \in Stops : NodeLifetimeLoads(c, s)
PlatformsFit(c) == \A s \in Stops : PlatformsLoad(c, s)

\* The stops of a line that are reached from the road.
Reached(c, r) == {s \in Range(c.routes[r].waypoints) : StopAccess(c, s) # NoAccess}

\* A bus that is parked stands at a stop of its line, and at the one it departs from
\* unless the line is broken.
StandsRight(c, v) ==
  LET route == c.routes[v.route]
      leg == route.legs[v.leg]
  IN  v.parked # "driving" /\ Reached(c, v.route) # {} =>
        /\ leg.key.kind = "service"
        /\ \/ v.parked = StopAccess(c, leg.key.from).at
           \/ IsBroken(route.legs) /\ \E s \in Reached(c, v.route) : v.parked = StopAccess(c, s).at

BusFits(c, v) ==
  /\ LegLoads(c, v)
  /\ StepLoads(c, v) \/ v.stray
  /\ IsBroken(c.routes[v.route].legs) => v.step = 0 /\ (v.parked # "driving" \/ v.stray)
  /\ StandsRight(c, v)

BusesFit(c) == \A b \in BusIds : c.buses[b] # None => BusFits(c, c.buses[b])

\* The editor's line has been counted up since, or is as it was, or counts no further.
DraftFits(c, d) ==
  d # None =>
    /\ d.line \in RouteIds /\ d.revision \in Nat
    /\ d.line \in Lines(c) =>
         /\ d.revision <= c.routes[d.line].revision
         /\ c.routes[d.line].revision = d.revision /\ d.revision < MaxRevision =>
              Structure(c, d.line) = d.seen

CityFits(c) == /\ c \in City
               /\ LinesFit(c)
               /\ StopsFit(c)
               /\ NodesFit(c)
               /\ PlatformsFit(c)
               /\ BusesFit(c)

IInv == CityFits(city) /\ DraftFits(city, draft)

-----------------------------------------------------------------------------
(* Values.                                                                  *)

LEMMA Bounds ==
  /\ Platforms \in Nat \ {0} /\ MaxRevision \in Nat /\ MaxRoutes \in Nat \ {0} /\ MaxBuses \in Nat \ {0}
  /\ RouteIds \subseteq Nat \ {0} /\ 1 \in RouteIds /\ 1 \in BusIds
  /\ WaypointLists \subseteq Seq(Stops) /\ OpenNetwork \in Networks
BY BusLinesAssumption DEF RouteIds, BusIds

LEMMA NoneIsNothing == None \notin Route /\ None \notin Bus
<1>1. DOMAIN None = {"absent"}
  BY DEF None
<1>2. \A r \in Route : "legs" \in DOMAIN r
  BY DEF Route
<1>3. \A v \in Bus : "leg" \in DOMAIN v
  BY DEF Bus
<1>4. QED
  BY <1>1, <1>2, <1>3

LEMMA NoWayFacts ==
  /\ NoWay.steps = 0 /\ Stay.steps = 0 /\ NoWay # Stay
  /\ NoAccess.at = "nowhere"
BY DEF NoWay, Stay, NoAccess

\* A way without steps is none, or leads to where one is.
LEMMA WayFacts ==
  ASSUME NEW w \in Ways
  PROVE  /\ w.steps \in Nat
         /\ w.steps = 0 <=> w = NoWay \/ w = Stay
<1>1. CASE w = NoWay \/ w = Stay
  BY <1>1, NoWayFacts
<1>2. CASE w # NoWay /\ w # Stay /\ \E n \in Networks, p \in Pairs : w = n.way[p]
  <2>1. PICK n \in Networks, p \in Pairs : w = n.way[p]
    BY <1>2
  <2>2. p = <<p[1], p[2]>> /\ p[1] \in Stops /\ p[2] \in Stops /\ p[1] # p[2]
    BY DEF Pairs
  <2>3. n.way[<<p[1], p[2]>>] # NoWay
    BY <1>2, <2>1, <2>2
  <2>4. n.way[<<p[1], p[2]>>].steps \in Nat \ {0}
    BY <2>2, <2>3, BusLinesAssumption
  <2>5. QED
    BY <1>2, <2>1, <2>2, <2>4
<1>3. CASE w # NoWay /\ w # Stay /\ \E n \in Networks, s \in Stops : w = n.turn[s]
  BY <1>3, BusLinesAssumption
<1>4. QED
  BY <1>1, <1>2, <1>3 DEF Ways

LEMMA AccessFacts ==
  ASSUME NEW c \in City, NEW s \in Stops
  PROVE  /\ StopAccess(c, s) \in Access
         /\ StopAccess(c, s) = NoAccess <=> StopAccess(c, s).at = "nowhere"
         /\ StopAccess(c, s) # NoAccess =>
              /\ Present(c, s) /\ StopAccess(c, s).at \in Places
              /\ StopAccess(c, s).at \notin {"driving", "roadside", "nowhere"}
<1>1. c.network \in Networks
  BY DEF City
<1>2. c.network.access[s] \in Access
  BY <1>1 DEF Access
<1>3. StopAccess(c, s) \in Access
  BY <1>2 DEF StopAccess, Access
<1>4. StopAccess(c, s) # NoAccess => StopAccess(c, s).at \notin {"driving", "roadside", "nowhere"} /\ Present(c, s)
  BY <1>1, BusLinesAssumption DEF StopAccess
<1>5. StopAccess(c, s) # NoAccess => StopAccess(c, s).at \in Places
  BY <1>3 DEF Places
<1>6. QED
  BY <1>3, <1>4, <1>5, NoWayFacts

LEMMA NowhereIsNoPlace == "nowhere" \notin Places
<1>1. \A a \in Access \ {NoAccess} : a.at # "nowhere"
  BY BusLinesAssumption DEF Access
<1>2. QED
  BY <1>1 DEF Places

\* A function on 1..n is a sequence, and its own tuple.
LEMMA TupleSame ==
  ASSUME NEW S, NEW n \in Nat, NEW f \in [1..n -> S]
  PROVE  f \in Seq(S) /\ Len(f) = n /\ Tuple(f) = f
<1>1. f \in Seq(S) /\ Len(f) = n
  OBVIOUS
<1>2. QED
  BY <1>1, ConcatEmptySeq DEF Tuple

-----------------------------------------------------------------------------
(* The visits of an itinerary.                                              *)

ServiceVisit(s, t, d) == [from |-> s, to |-> t, direction |-> d, kind |-> "service"]
TurnVisit(s, d) == [from |-> s, to |-> s, direction |-> d, kind |-> "reversal"]

LEMMA LoopSpecs ==
  ASSUME NEW ids, Itinerary(ids)
  PROVE  /\ Specs("loop", ids) \in [1..Len(ids) -> Visit]
         /\ \A i \in 1..Len(ids) :
              Specs("loop", ids)[i] = ServiceVisit(ids[i], ids[(i % Len(ids)) + 1], "loop")
<1>1. Len(ids) \in Nat /\ Len(ids) >= 2 /\ ids \in [1..Len(ids) -> Stops]
  BY DEF Itinerary
<1>2. \A i \in 1..Len(ids) : (i % Len(ids)) + 1 \in 1..Len(ids)
  BY <1>1
<1>3. Specs("loop", ids) = [i \in 1..Len(ids) |-> ServiceVisit(ids[i], ids[(i % Len(ids)) + 1], "loop")]
  BY DEF Specs, ServiceVisit
<1>4. \A i \in 1..Len(ids) : ServiceVisit(ids[i], ids[(i % Len(ids)) + 1], "loop") \in Visit
  <2>1. \A s, t \in Stops : ServiceVisit(s, t, "loop") \in Visit
    BY DEF ServiceVisit, Visit, Directions, Kinds
  <2>2. \A i \in 1..Len(ids) : ids[i] \in Stops
    BY <1>1
  <2>3. QED
    BY <1>2, <2>1, <2>2
<1>5. QED
  BY <1>3, <1>4

\* There and back: out by one leg less than there are stops, a turn, back, and a turn.
LEMMA ShuttleSpecs ==
  ASSUME NEW ids, Itinerary(ids), NEW n, n = Len(ids)
  PROVE  /\ n \in Nat /\ Specs("shuttle", ids) \in [1..(2 * n) -> Visit]
         /\ \A i \in 1..(n - 1) : Specs("shuttle", ids)[i] = ServiceVisit(ids[i], ids[i + 1], "out")
         /\ Specs("shuttle", ids)[n] = TurnVisit(ids[n], "back")
         /\ \A i \in 1..(n - 1) :
              Specs("shuttle", ids)[n + i] = ServiceVisit(ids[n + 1 - i], ids[n - i], "back")
         /\ Specs("shuttle", ids)[2 * n] = TurnVisit(ids[1], "out")
<1>1. n \in Nat /\ n >= 2 /\ ids \in [1..n -> Stops]
  BY DEF Itinerary
<1> DEFINE out == [i \in 1..(n - 1) |-> ServiceVisit(ids[i], ids[i + 1], "out")]
           back == [i \in 1..(n - 1) |-> ServiceVisit(ids[n + 1 - i], ids[n - i], "back")]
           far == <<TurnVisit(ids[n], "back")>>
           near == <<TurnVisit(ids[1], "out")>>
<1>2. Specs("shuttle", ids) = out \o far \o back \o near
  BY DEF Specs, ServiceVisit, TurnVisit
<1>3. out \in [1..(n - 1) -> Visit] /\ back \in [1..(n - 1) -> Visit]
  BY <1>1 DEF ServiceVisit, Visit, Directions, Kinds
<1>4. out \in Seq(Visit) /\ Len(out) = n - 1 /\ back \in Seq(Visit) /\ Len(back) = n - 1
  <2>1. n - 1 \in Nat
    BY <1>1
  <2>2. QED
    BY <1>3, <2>1, TupleSame
<1>5. TurnVisit(ids[n], "back") \in Visit /\ TurnVisit(ids[1], "out") \in Visit
  BY <1>1 DEF TurnVisit, Visit, Directions, Kinds
<1>6. far \in Seq(Visit) /\ Len(far) = 1 /\ far[1] = TurnVisit(ids[n], "back")
      /\ near \in Seq(Visit) /\ Len(near) = 1 /\ near[1] = TurnVisit(ids[1], "out")
  BY <1>5
<1> HIDE DEF out, back, far, near
<1>7. /\ out \o far \in Seq(Visit) /\ Len(out \o far) = n
      /\ \A i \in 1..n : (out \o far)[i] = IF i <= n - 1 THEN out[i] ELSE far[i - (n - 1)]
  <2>1. /\ out \o far \in Seq(Visit) /\ Len(out \o far) = Len(out) + Len(far)
        /\ \A i \in 1..Len(out) + Len(far) :
             (out \o far)[i] = IF i <= Len(out) THEN (out)[i] ELSE far[i - Len(out)]
    BY <1>4, <1>6, ConcatProperties
  <2>2. Len(out) = n - 1 /\ Len(out) + Len(far) = n
    BY <1>1, <1>4, <1>6
  <2>3. QED
    BY <2>1, <2>2
<1>8. /\ out \o far \o back \in Seq(Visit) /\ Len(out \o far \o back) = 2 * n - 1
      /\ \A i \in 1..(2 * n - 1) : (out \o far \o back)[i] = IF i <= n THEN (out \o far)[i] ELSE back[i - n]
  <2>1. /\ (out \o far) \o back \in Seq(Visit) /\ Len((out \o far) \o back) = Len((out \o far)) + Len(back)
        /\ \A i \in 1..Len((out \o far)) + Len(back) :
             ((out \o far) \o back)[i] = IF i <= Len((out \o far)) THEN ((out \o far))[i] ELSE back[i - Len((out \o far))]
    BY <1>4, <1>7, ConcatProperties
  <2>2. Len((out \o far)) = n /\ Len((out \o far)) + Len(back) = 2 * n - 1
    BY <1>1, <1>4, <1>7
  <2>3. QED
    BY <2>1, <2>2
<1>9. /\ out \o far \o back \o near \in Seq(Visit) /\ Len(out \o far \o back \o near) = 2 * n
      /\ \A i \in 1..(2 * n) : (out \o far \o back \o near)[i] =
                                  IF i <= 2 * n - 1 THEN (out \o far \o back)[i] ELSE near[i - (2 * n - 1)]
  <2>1. PICK three : three = out \o far \o back
    OBVIOUS
  <2>2. three \in Seq(Visit) /\ Len(three) = 2 * n - 1
    BY <1>8, <2>1
  <2>3. /\ three \o near \in Seq(Visit) /\ Len(three \o near) = Len(three) + Len(near)
        /\ \A i \in 1..Len(three) + Len(near) :
             (three \o near)[i] = IF i <= Len(three) THEN three[i] ELSE near[i - Len(three)]
    BY <1>6, <2>2, ConcatProperties
  <2>4. Len(three) + Len(near) = 2 * n
    BY <1>1, <1>6, <2>2
  <2>5. QED
    BY <2>1, <2>2, <2>3, <2>4
<1>10. Specs("shuttle", ids) \in [1..(2 * n) -> Visit]
  BY <1>2, <1>9, LenProperties
<1>11. ASSUME NEW i \in 1..(n - 1)
       PROVE  /\ Specs("shuttle", ids)[i] = out[i]
              /\ Specs("shuttle", ids)[n + i] = back[i]
  <2>1. i \in 1..(2 * n) /\ i \in 1..(2 * n - 1) /\ i \in 1..n /\ i <= n /\ i <= n - 1 /\ i <= 2 * n - 1
    BY <1>1
  <2>2. n + i \in 1..(2 * n) /\ n + i \in 1..(2 * n - 1) /\ ~(n + i <= n) /\ n + i - n = i /\ n + i <= 2 * n - 1
    BY <1>1
  <2>3. QED
    BY <1>2, <1>7, <1>8, <1>9, <2>1, <2>2
<1>12. Specs("shuttle", ids)[n] = far[1]
  <2>1. n \in 1..(2 * n) /\ n \in 1..(2 * n - 1) /\ n \in 1..n /\ n <= n /\ ~(n <= n - 1) /\ n <= 2 * n - 1
        /\ n - (n - 1) = 1
    BY <1>1
  <2>2. QED
    BY <1>2, <1>7, <1>8, <1>9, <2>1
<1>13. Specs("shuttle", ids)[2 * n] = near[1]
  <2>1. 2 * n \in 1..(2 * n) /\ ~(2 * n <= 2 * n - 1) /\ 2 * n - (2 * n - 1) = 1
    BY <1>1
  <2>2. QED
    BY <1>2, <1>9, <2>1
<1>14. QED
  BY <1>1, <1>6, <1>10, <1>11, <1>12, <1>13 DEF out, back

\* No visit comes twice; a service leads to another stop; every stop is departed from.
ProperVisits(specs, ids) ==
  /\ specs \in Seq(Visit) /\ specs # <<>>
  /\ \A i, j \in 1..Len(specs) : specs[i] = specs[j] => i = j
  /\ \A i \in 1..Len(specs) : /\ specs[i].from \in Range(ids) /\ specs[i].to \in Range(ids)
                              /\ specs[i].kind = "service" => specs[i].from # specs[i].to
  /\ \A s \in Range(ids) : \E i \in 1..Len(specs) : specs[i].from = s /\ specs[i].kind = "service"

LEMMA StopsOfItinerary ==
  ASSUME NEW ids, Itinerary(ids)
  PROVE  /\ Len(ids) \in Nat /\ Len(ids) >= 2 /\ Range(ids) \subseteq Stops
         /\ \A i \in 1..Len(ids) : ids[i] \in Range(ids) /\ ids[i] \in Stops
         /\ \A i, j \in 1..Len(ids) : ids[i] = ids[j] => i = j
         /\ \A s \in Range(ids) : \E i \in 1..Len(ids) : ids[i] = s
BY DEF Itinerary, Range, IsInjective

LEMMA LoopIsProper ==
  ASSUME NEW ids, Itinerary(ids)
  PROVE  ProperVisits(Specs("loop", ids), ids)
<1> DEFINE n == Len(ids)
           specs == Specs("loop", ids)
<1>1. n \in Nat /\ n >= 2
  BY StopsOfItinerary
<1>2. /\ \A i \in 1..n : ids[i] \in Range(ids)
      /\ \A i, j \in 1..n : ids[i] = ids[j] => i = j
      /\ \A s \in Range(ids) : \E i \in 1..n : ids[i] = s
  BY StopsOfItinerary
<1>3. specs \in [1..n -> Visit]
      /\ \A i \in 1..n : specs[i] = ServiceVisit(ids[i], ids[(i % n) + 1], "loop")
  BY LoopSpecs
<1> HIDE DEF specs
<1>4. specs \in Seq(Visit) /\ Len(specs) = n
  BY <1>1, <1>3, TupleSame
<1>5. \A i \in 1..n : (i % n) + 1 \in 1..n /\ (i % n) + 1 # i
  BY <1>1
<1>6. \A i \in 1..n : /\ specs[i].from = ids[i] /\ specs[i].to = ids[(i % n) + 1]
                      /\ specs[i].kind = "service"
  BY <1>3 DEF ServiceVisit
<1>7. \A i, j \in 1..n : specs[i] = specs[j] => i = j
  BY <1>6, <1>2
<1>8. \A i \in 1..n : /\ specs[i].from \in Range(ids) /\ specs[i].to \in Range(ids)
                      /\ specs[i].from # specs[i].to
  <2>1. ASSUME NEW i \in 1..n, NEW k, k = (i % n) + 1
        PROVE  ids[i] \in Range(ids) /\ ids[k] \in Range(ids) /\ ids[i] # ids[k]
    <3>1. k \in 1..n /\ k # i
      BY <1>5, <2>1
    <3>2. QED
      BY <1>2, <3>1
  <2>2. QED
    BY <1>6, <2>1
<1>9. \A s \in Range(ids) : \E i \in 1..n : specs[i].from = s /\ specs[i].kind = "service"
  BY <1>6, <1>2
<1>10. specs # <<>>
  BY <1>1, <1>4
<1>11. QED
  BY <1>4, <1>7, <1>8, <1>9, <1>10 DEF ProperVisits, specs

LEMMA ShuttleIsProper ==
  ASSUME NEW ids, Itinerary(ids)
  PROVE  ProperVisits(Specs("shuttle", ids), ids)
<1> DEFINE n == Len(ids)
           specs == Specs("shuttle", ids)
<1>1. n \in Nat /\ n >= 2
  BY StopsOfItinerary
<1>2. /\ \A i \in 1..n : ids[i] \in Range(ids)
      /\ \A i, j \in 1..n : ids[i] = ids[j] => i = j
      /\ \A s \in Range(ids) : \E i \in 1..n : ids[i] = s
  BY StopsOfItinerary
<1>3. /\ specs \in [1..(2 * n) -> Visit]
      /\ \A i \in 1..(n - 1) : specs[i] = ServiceVisit(ids[i], ids[i + 1], "out")
      /\ specs[n] = TurnVisit(ids[n], "back")
      /\ \A i \in 1..(n - 1) : specs[n + i] = ServiceVisit(ids[n + 1 - i], ids[n - i], "back")
      /\ specs[2 * n] = TurnVisit(ids[1], "out")
  BY ShuttleSpecs
<1> HIDE DEF specs
<1>4. specs \in Seq(Visit) /\ Len(specs) = 2 * n
  <2>1. 2 * n \in Nat
    BY <1>1
  <2>2. QED
    BY <1>3, <2>1, TupleSame
<1>5. \A x \in 1..(2 * n) : x \in 1..(n - 1) \/ x = n \/ (\E i \in 1..(n - 1) : x = n + i) \/ x = 2 * n
  <2>1. ASSUME NEW x \in 1..(2 * n), x \notin 1..(n - 1), x # n, x # 2 * n
        PROVE  \E i \in 1..(n - 1) : x = n + i
    <3>1. x - n \in 1..(n - 1) /\ x = n + (x - n)
      BY <1>1, <2>1
    <3>2. QED
      BY <3>1
  <2>2. QED
    BY <2>1
<1>6. /\ \A i \in 1..(n - 1) : /\ specs[i].from = ids[i] /\ specs[i].to = ids[i + 1]
                               /\ specs[i].direction = "out" /\ specs[i].kind = "service"
      /\ specs[n].from = ids[n] /\ specs[n].to = ids[n]
      /\ specs[n].direction = "back" /\ specs[n].kind = "reversal"
      /\ \A i \in 1..(n - 1) : /\ specs[n + i].from = ids[n + 1 - i] /\ specs[n + i].to = ids[n - i]
                               /\ specs[n + i].direction = "back" /\ specs[n + i].kind = "service"
      /\ specs[2 * n].from = ids[1] /\ specs[2 * n].to = ids[1]
      /\ specs[2 * n].direction = "out" /\ specs[2 * n].kind = "reversal"
  <2>1. \A s, u, d : /\ ServiceVisit(s, u, d).from = s /\ ServiceVisit(s, u, d).to = u
                     /\ ServiceVisit(s, u, d).direction = d /\ ServiceVisit(s, u, d).kind = "service"
    BY DEF ServiceVisit
  <2>2. \A s, d : /\ TurnVisit(s, d).from = s /\ TurnVisit(s, d).to = s
                  /\ TurnVisit(s, d).direction = d /\ TurnVisit(s, d).kind = "reversal"
    BY DEF TurnVisit
  <2>3. QED
    BY <1>3, <2>1, <2>2
<1>7. \A i \in 1..(n - 1) : i \in 1..n /\ i + 1 \in 1..n /\ n + 1 - i \in 1..n /\ n - i \in 1..n
                            /\ n + i \in 1..(2 * n) /\ i \in 1..(2 * n) /\ i # i + 1 /\ n + 1 - i # n - i
  BY <1>1
<1>8. 1 \in 1..n /\ n \in 1..n /\ n \in 1..(2 * n) /\ 2 * n \in 1..(2 * n)
  BY <1>1
<1>9. ASSUME NEW x \in 1..(2 * n), NEW y \in 1..(2 * n), specs[x] = specs[y]
      PROVE  x = y
  <2>1. CASE x \in 1..(n - 1)
    <3>1. y \in 1..(n - 1)
      BY <1>5, <1>6, <1>9, <2>1
    <3>2. ids[x] = ids[y]
      BY <1>6, <1>9, <2>1, <3>1
    <3>3. QED
      BY <1>7, <2>1, <3>1, <3>2, <1>2
  <2>2. CASE x = n
    BY <1>5, <1>6, <1>9, <2>2
  <2>3. CASE \E i \in 1..(n - 1) : x = n + i
    <3>1. PICK i \in 1..(n - 1) : x = n + i
      BY <2>3
    <3>2. PICK j \in 1..(n - 1) : y = n + j
      BY <1>5, <1>6, <1>9, <3>1
    <3>3. ids[n - i] = ids[n - j]
      <4>1. specs[n + i].to = ids[n - i] /\ specs[n + j].to = ids[n - j]
        BY <1>6
      <4>2. QED
        BY <1>9, <3>1, <3>2, <4>1
    <3>4. n - i = n - j
      BY <1>7, <3>3, <1>2
    <3>5. QED
      BY <1>1, <3>1, <3>2, <3>4
  <2>4. CASE x = 2 * n
    BY <1>5, <1>6, <1>9, <2>4
  <2>5. QED
    BY <1>5, <2>1, <2>2, <2>3, <2>4
<1>10. ASSUME NEW x \in 1..(2 * n)
       PROVE  /\ specs[x].from \in Range(ids) /\ specs[x].to \in Range(ids)
              /\ specs[x].kind = "service" => specs[x].from # specs[x].to
  <2>1. CASE x \in 1..(n - 1)
    BY <1>6, <1>7, <2>1, <1>2
  <2>2. CASE x = n \/ x = 2 * n
    BY <1>6, <1>8, <2>2, <1>2
  <2>3. CASE \E i \in 1..(n - 1) : x = n + i
    <3>1. PICK i \in 1..(n - 1) : x = n + i
      BY <2>3
    <3>2. specs[x].from = ids[n + 1 - i] /\ specs[x].to = ids[n - i]
      BY <1>6, <3>1
    <3>3. n + 1 - i \in 1..n /\ n - i \in 1..n /\ n + 1 - i # n - i
      BY <1>7
    <3>4. ids[n + 1 - i] # ids[n - i] /\ ids[n + 1 - i] \in Range(ids) /\ ids[n - i] \in Range(ids)
      BY <1>2, <3>3
    <3>5. QED
      BY <3>2, <3>4
  <2>4. QED
    BY <1>5, <2>1, <2>2, <2>3
<1>11. ASSUME NEW s \in Range(ids)
       PROVE  \E x \in 1..(2 * n) : specs[x].from = s /\ specs[x].kind = "service"
  <2>1. PICK i \in 1..n : ids[i] = s
    BY <1>2
  <2>2. CASE i = n
    <3>1. 1 \in 1..(n - 1) /\ n + 1 - 1 = n /\ n + 1 \in 1..(2 * n)
      BY <1>1
    <3>2. QED
      BY <1>6, <2>1, <2>2, <3>1
  <2>3. CASE i # n
    <3>1. i \in 1..(n - 1) /\ i \in 1..(2 * n)
      BY <1>1, <2>3
    <3>2. QED
      BY <1>6, <2>1, <3>1
  <2>4. QED
    BY <2>2, <2>3
<1>12. specs # <<>>
  BY <1>1, <1>4
<1>13. QED
  BY <1>4, <1>9, <1>10, <1>11, <1>12 DEF ProperVisits, specs

LEMMA SpecsAreProper ==
  ASSUME NEW pattern \in Patterns, NEW ids, Itinerary(ids)
  PROVE  ProperVisits(Specs(pattern, ids), ids)
BY LoopIsProper, ShuttleIsProper DEF Patterns

-----------------------------------------------------------------------------
(* The legs of a line.                                                      *)

\* A set of naturals that is not empty has a smallest member.
LEMMA LeastNumber ==
  ASSUME NEW T \in SUBSET Nat, T # {}
  PROVE  Min(T) \in T /\ \A y \in T : Min(T) <= y
<1>1. PICK x \in T : \A y \in T : <<y, x>> \notin OpToRel(<, Nat)
  BY NatLessThanWellFounded, WFMin
<1>2. ASSUME NEW y \in T
      PROVE  x <= y
  <2>1. <<y, x>> \in Nat \X Nat
    OBVIOUS
  <2>2. ~(y < x)
    BY <1>1, <2>1 DEF OpToRel
  <2>3. QED
    BY <2>2
<1>3. QED
  BY <1>2 DEF Min

LEMMA LegResolved ==
  ASSUME NEW c \in City, NEW ids, Itinerary(ids), NEW specs, ProperVisits(specs, ids),
         NEW i \in 1..Len(specs)
  PROVE  LET leg == ResolveLeg(c, specs, i)
         IN  /\ leg \in Leg /\ leg.key = specs[i] /\ leg.last = NoWay
             /\ leg.status = "connected" <=> leg.path # NoWay
             /\ leg.status = "connected" => StopAccess(c, specs[i].from) # NoAccess
<1>1. c.network \in Networks
  BY DEF City
<1>2. specs[i] \in Visit
  BY DEF ProperVisits
<1>3. specs[i].from \in Stops /\ specs[i].to \in Stops /\ specs[i].kind \in Kinds
  BY <1>2 DEF Visit
<1>4. specs[i].kind = "service" =>
         /\ ServicePath(c, specs[i]) \in Ways
         /\ ServicePath(c, specs[i]) # NoWay => StopAccess(c, specs[i].from) # NoAccess
  <2>1. SUFFICES ASSUME specs[i].kind = "service"
                 PROVE  /\ ServicePath(c, specs[i]) \in Ways
                        /\ ServicePath(c, specs[i]) # NoWay => StopAccess(c, specs[i].from) # NoAccess
    OBVIOUS
  <2>2. <<specs[i].from, specs[i].to>> \in Pairs
    BY <1>3, <2>1 DEF Pairs, ProperVisits
  <2>3. c.network.way[<<specs[i].from, specs[i].to>>] \in Ways
    BY <1>1, <2>2 DEF Ways
  <2>4. NoWay \in Ways /\ Stay \in Ways
    BY DEF Ways
  <2>5. QED
    BY <2>3, <2>4 DEF ServicePath
<1>5. /\ TerminalReversal(c, specs, i) \in Ways
      /\ TerminalReversal(c, specs, i) # NoWay => StopAccess(c, specs[i].from) # NoAccess
  <2>1. c.network.turn[specs[i].from] \in Ways /\ NoWay \in Ways /\ Stay \in Ways
    BY <1>1, <1>3 DEF Ways
  <2>2. QED
    BY <2>1 DEF TerminalReversal
<1> DEFINE path == IF specs[i].kind = "service" THEN ServicePath(c, specs[i]) ELSE TerminalReversal(c, specs, i)
           status == IF ~Present(c, specs[i].from) \/ ~Present(c, specs[i].to) THEN "missing"
                     ELSE IF path = NoWay THEN "disconnected" ELSE "connected"
<1>6. ResolveLeg(c, specs, i) =
         [key |-> specs[i], status |-> status, path |-> IF status = "connected" THEN path ELSE NoWay,
          last |-> NoWay]
  BY DEF ResolveLeg
<1>7. path \in Ways /\ (path # NoWay => StopAccess(c, specs[i].from) # NoAccess)
  BY <1>4, <1>5
<1>8. status \in Statuses /\ (status = "connected" => path # NoWay)
  BY DEF Statuses
<1>9. NoWay \in Ways
  BY DEF Ways
<1> HIDE DEF path, status
<1>10. QED
  BY <1>2, <1>6, <1>7, <1>8, <1>9 DEF Leg

LEMMA LegsResolved ==
  ASSUME NEW c \in City, NEW pattern \in Patterns, NEW ids, Itinerary(ids)
  PROVE  LET specs == Specs(pattern, ids)
             legs == ResolveRouteLegs(c, pattern, ids)
         IN  /\ legs \in Seq(Leg) /\ Len(legs) = Len(specs)
             /\ \A i \in 1..Len(specs) :
                  /\ legs[i] = ResolveLeg(c, specs, i)
                  /\ legs[i].key = specs[i] /\ legs[i].last = NoWay
                  /\ legs[i].status = "connected" <=> legs[i].path # NoWay
                  /\ legs[i].status = "connected" => StopAccess(c, specs[i].from) # NoAccess
<1> DEFINE specs == Specs(pattern, ids)
<1>1. ProperVisits(specs, ids)
  BY SpecsAreProper
<1> HIDE DEF specs
<1>2. Len(specs) \in Nat
  BY <1>1 DEF ProperVisits
<1> DEFINE f == [i \in 1..Len(specs) |-> ResolveLeg(c, specs, i)]
<1>3. \A i \in 1..Len(specs) : ResolveLeg(c, specs, i) \in Leg
  BY <1>1, LegResolved
<1>4. f \in [1..Len(specs) -> Leg]
  BY <1>3
<1>5. f \in Seq(Leg) /\ Len(f) = Len(specs) /\ Tuple(f) = f
  BY <1>2, <1>4, TupleSame
<1>6. ResolveRouteLegs(c, pattern, ids) = f
  BY <1>5 DEF ResolveRouteLegs, specs
<1>7. \A i \in 1..Len(specs) :
         /\ f[i] = ResolveLeg(c, specs, i)
         /\ f[i].key = specs[i] /\ f[i].last = NoWay
         /\ f[i].status = "connected" <=> f[i].path # NoWay
         /\ f[i].status = "connected" => StopAccess(c, specs[i].from) # NoAccess
  BY <1>1, LegResolved
<1>8. QED
  BY <1>5, <1>6, <1>7 DEF specs

\* Cities that offer the same network and have the same stops there.
SameOffer(c, d) ==
  /\ c.network = d.network
  /\ \A s \in Stops : c.stops[s] = "present" <=> d.stops[s] = "present"

LEMMA SameAccess ==
  ASSUME NEW c, NEW d, SameOffer(c, d), NEW s \in Stops
  PROVE  StopAccess(c, s) = StopAccess(d, s) /\ (Present(c, s) <=> Present(d, s))
BY DEF SameOffer, StopAccess, Present

LEMMA SameResolved ==
  ASSUME NEW c \in City, NEW d \in City, SameOffer(c, d), NEW pattern \in Patterns, NEW ids, Itinerary(ids)
  PROVE  ResolveRouteLegs(c, pattern, ids) = ResolveRouteLegs(d, pattern, ids)
<1> DEFINE specs == Specs(pattern, ids)
<1>1. ProperVisits(specs, ids)
  BY SpecsAreProper
<1> HIDE DEF specs
<1>2. /\ Len(specs) \in Nat /\ Len(specs) > 0
      /\ \A i \in 1..Len(specs) : specs[i].from \in Stops /\ specs[i].to \in Stops
  <2>1. \A i \in 1..Len(specs) : specs[i] \in Visit
    BY <1>1 DEF ProperVisits
  <2>2. QED
    BY <1>1, <2>1 DEF ProperVisits, Visit
<1>3. ASSUME NEW i \in 1..Len(specs)
      PROVE  ServicePath(c, specs[i]) = ServicePath(d, specs[i])
  <2>1. StopAccess(c, specs[i].from) = StopAccess(d, specs[i].from) /\ StopAccess(c, specs[i].to) = StopAccess(d, specs[i].to)
    BY <1>2, SameAccess
  <2>2. c.network = d.network
    BY DEF SameOffer
  <2>3. QED
    BY <2>1, <2>2 DEF ServicePath
<1>4. ASSUME NEW i \in 1..Len(specs)
      PROVE  TerminalReversal(c, specs, i) = TerminalReversal(d, specs, i)
  <2>1. ((i + Len(specs) - 2) % Len(specs)) + 1 \in 1..Len(specs) /\ (i % Len(specs)) + 1 \in 1..Len(specs)
    BY <1>2
  <2>2. StopAccess(c, specs[i].from) = StopAccess(d, specs[i].from)
    BY <1>2, SameAccess
  <2>3. /\ ServicePath(c, specs[((i + Len(specs) - 2) % Len(specs)) + 1]) = ServicePath(d, specs[((i + Len(specs) - 2) % Len(specs)) + 1])
        /\ ServicePath(c, specs[(i % Len(specs)) + 1]) = ServicePath(d, specs[(i % Len(specs)) + 1])
    BY <1>3, <2>1
  <2>4. QED
    BY <2>2, <2>3 DEF TerminalReversal, SameOffer
<1>5. ASSUME NEW i \in 1..Len(specs)
      PROVE  ResolveLeg(c, specs, i) = ResolveLeg(d, specs, i)
  <2>1. (Present(c, specs[i].from) <=> Present(d, specs[i].from)) /\ (Present(c, specs[i].to) <=> Present(d, specs[i].to))
    BY <1>2, SameAccess
  <2>2. QED
    BY <1>3, <1>4, <2>1 DEF ResolveLeg
<1>6. [i \in 1..Len(specs) |-> ResolveLeg(c, specs, i)] = [i \in 1..Len(specs) |-> ResolveLeg(d, specs, i)]
  BY <1>5
<1>7. QED
  BY <1>6 DEF ResolveRouteLegs, specs

\* What a leg that is out of service remembers: the last of the first leg with its key.
Remembered(old, leg) == LET same == {i \in 1..Len(old) : old[i].key = leg.key}
                        IN  IF same = {} THEN NoWay ELSE old[Min(same)].last

LEMMA Merged ==
  ASSUME NEW old \in Seq(Leg), NEW resolved \in Seq(Leg)
  PROVE  LET legs == MergeResolvedLegs(old, resolved)
         IN  /\ legs \in Seq(Leg) /\ Len(legs) = Len(resolved)
             /\ \A i \in 1..Len(resolved) :
                  /\ legs[i].key = resolved[i].key /\ legs[i].status = resolved[i].status
                  /\ legs[i].path = resolved[i].path
                  /\ legs[i].last = IF resolved[i].status = "connected" THEN resolved[i].path
                                    ELSE Remembered(old, resolved[i])
<1> DEFINE last(i) == IF resolved[i].status = "connected" THEN resolved[i].path ELSE Remembered(old, resolved[i])
           f == [i \in 1..Len(resolved) |-> [resolved[i] EXCEPT !.last = last(i)]]
<1>1. ASSUME NEW i \in 1..Len(resolved)
      PROVE  last(i) \in Ways /\ resolved[i] \in Leg
  <2>1. resolved[i] \in Leg
    OBVIOUS
  <2>2. NoWay \in Ways /\ resolved[i].path \in Ways
    BY <2>1 DEF Ways, Leg
  <2>3. ASSUME {j \in 1..Len(old) : old[j].key = resolved[i].key} # {}
        PROVE  old[Min({j \in 1..Len(old) : old[j].key = resolved[i].key})].last \in Ways
    <3> DEFINE same == {j \in 1..Len(old) : old[j].key = resolved[i].key}
    <3>1. same \in SUBSET Nat /\ same \subseteq 1..Len(old) /\ same # {}
      BY <2>3
    <3> HIDE DEF same
    <3>2. Min(same) \in 1..Len(old)
      BY <3>1, LeastNumber
    <3>3. old[Min(same)] \in Leg
      BY <3>2, ElementOfSeq
    <3>4. QED
      BY <3>3 DEF Leg, same
  <2>4. QED
    BY <2>1, <2>2, <2>3 DEF Remembered
<1>2. f = [i \in 1..Len(resolved) |-> [resolved[i] EXCEPT !.last = last(i)]]
  OBVIOUS
<1> HIDE DEF last
<1>3. \A i \in 1..Len(resolved) : /\ [resolved[i] EXCEPT !.last = last(i)] \in Leg
                                  /\ [resolved[i] EXCEPT !.last = last(i)].key = resolved[i].key
                                  /\ [resolved[i] EXCEPT !.last = last(i)].status = resolved[i].status
                                  /\ [resolved[i] EXCEPT !.last = last(i)].path = resolved[i].path
                                  /\ [resolved[i] EXCEPT !.last = last(i)].last = last(i)
  BY <1>1 DEF Leg
<1>4. f \in [1..Len(resolved) -> Leg]
  BY <1>2, <1>3
<1>5. Len(resolved) \in Nat
  OBVIOUS
<1> HIDE DEF f
<1>6. f \in Seq(Leg) /\ Len(f) = Len(resolved) /\ Tuple(f) = f
  BY <1>4, <1>5, TupleSame
<1>7. MergeResolvedLegs(old, resolved) = f
  BY <1>6 DEF MergeResolvedLegs, Remembered, f, last
<1>8. \A i \in 1..Len(resolved) : f[i] = [resolved[i] EXCEPT !.last = last(i)]
  BY <1>2
<1>9. QED
  BY <1>3, <1>6, <1>7, <1>8 DEF last

\* Working a line out again changes nothing more.
LEMMA MergedAgain ==
  ASSUME NEW old \in Seq(Leg), NEW resolved \in Seq(Leg),
         \A i, j \in 1..Len(resolved) : resolved[i].key = resolved[j].key => i = j
  PROVE  MergeResolvedLegs(MergeResolvedLegs(old, resolved), resolved) = MergeResolvedLegs(old, resolved)
<1> DEFINE once == MergeResolvedLegs(old, resolved)
           twice == MergeResolvedLegs(once, resolved)
<1>1. /\ once \in Seq(Leg) /\ Len(once) = Len(resolved)
      /\ \A i \in 1..Len(resolved) :
           /\ once[i].key = resolved[i].key /\ once[i].status = resolved[i].status
           /\ once[i].path = resolved[i].path
           /\ once[i].last = IF resolved[i].status = "connected" THEN resolved[i].path
                             ELSE Remembered(old, resolved[i])
  BY Merged
<1> HIDE DEF once
<1>2. /\ twice \in Seq(Leg) /\ Len(twice) = Len(resolved)
      /\ \A i \in 1..Len(resolved) :
           /\ twice[i].key = resolved[i].key /\ twice[i].status = resolved[i].status
           /\ twice[i].path = resolved[i].path
           /\ twice[i].last = IF resolved[i].status = "connected" THEN resolved[i].path
                              ELSE Remembered(once, resolved[i])
  BY <1>1, Merged
<1> HIDE DEF twice
<1>3. ASSUME NEW i \in 1..Len(resolved)
      PROVE  Remembered(once, resolved[i]) = once[i].last
  <2>1. {j \in 1..Len(once) : once[j].key = resolved[i].key} = {i}
    BY <1>1
  <2>2. Min({i}) = i
    <3>1. {i} \in SUBSET Nat /\ {i} # {}
      OBVIOUS
    <3>2. Min({i}) \in {i}
      BY <3>1, LeastNumber
    <3>3. QED
      BY <3>2
  <2>3. QED
    BY <2>1, <2>2 DEF Remembered
<1>4. ASSUME NEW i \in 1..Len(resolved)
      PROVE  twice[i] = once[i]
  <2>1. twice[i] \in Leg /\ once[i] \in Leg
    BY <1>1, <1>2
  <2>2. /\ twice[i].key = once[i].key /\ twice[i].status = once[i].status
        /\ twice[i].path = once[i].path /\ twice[i].last = once[i].last
    BY <1>1, <1>2, <1>3
  <2>3. QED
    BY <2>1, <2>2 DEF Leg
<1>5. twice = once
  BY <1>1, <1>2, <1>4, SeqEqual
<1>6. QED
  BY <1>5 DEF twice, once

\* A line whose legs are what the network offers, remembering some earlier ones.
Derived(c, route, old) ==
  route.legs = MergeResolvedLegs(old, ResolveRouteLegs(c, route.pattern, route.waypoints))

LEMMA DerivedFollows ==
  ASSUME NEW c \in City, NEW route \in Route, Itinerary(route.waypoints), NEW old \in Seq(Leg), Derived(c, route, old)
  PROVE  /\ route.legs = MergeResolvedLegs(route.legs, ResolveRouteLegs(c, route.pattern, route.waypoints))
         /\ LET specs == Specs(route.pattern, route.waypoints)
            IN  /\ ProperVisits(specs, route.waypoints) /\ Len(route.legs) = Len(specs)
                /\ \A i \in 1..Len(specs) :
                     /\ route.legs[i].key = specs[i]
                     /\ route.legs[i].status = "connected" <=> route.legs[i].path # NoWay
                     /\ route.legs[i].status = "connected" => StopAccess(c, specs[i].from) # NoAccess
<1> DEFINE specs == Specs(route.pattern, route.waypoints)
           legs == ResolveRouteLegs(c, route.pattern, route.waypoints)
<1>1. route.pattern \in Patterns
  BY DEF Route
<1>2. ProperVisits(specs, route.waypoints)
  BY <1>1, SpecsAreProper
<1>3. /\ legs \in Seq(Leg) /\ Len(legs) = Len(specs)
      /\ \A i \in 1..Len(specs) :
           /\ legs[i].key = specs[i]
           /\ legs[i].status = "connected" <=> legs[i].path # NoWay
           /\ legs[i].status = "connected" => StopAccess(c, specs[i].from) # NoAccess
  BY <1>1, LegsResolved
<1>4. route.legs = MergeResolvedLegs(old, legs)
  BY DEF Derived
<1> HIDE DEF specs, legs
<1>5. \A i, j \in 1..Len(legs) : legs[i].key = legs[j].key => i = j
  BY <1>2, <1>3 DEF ProperVisits
<1>6. route.legs = MergeResolvedLegs(route.legs, legs)
  BY <1>3, <1>4, <1>5, MergedAgain
<1>7. /\ Len(route.legs) = Len(specs)
      /\ \A i \in 1..Len(specs) :
           /\ route.legs[i].key = legs[i].key /\ route.legs[i].status = legs[i].status
           /\ route.legs[i].path = legs[i].path
  BY <1>3, <1>4, Merged
<1>8. QED
  BY <1>2, <1>3, <1>6, <1>7 DEF specs, legs

\* The legs of a line that follows the network.
ProperLegs(c, route) ==
  /\ route.legs \in Seq(Leg) /\ route.legs # <<>> /\ Range(route.waypoints) \subseteq Stops
  /\ \A i \in 1..Len(route.legs) :
       LET leg == route.legs[i]
       IN  /\ leg.key.from \in Range(route.waypoints)
           /\ leg.status = "connected" <=> leg.path # NoWay
           /\ leg.status = "connected" => StopAccess(c, leg.key.from) # NoAccess
  /\ \A s \in Range(route.waypoints) : \E i \in 1..Len(route.legs) :
       route.legs[i].key.from = s /\ route.legs[i].key.kind = "service"

LEMMA DerivedIsProper ==
  ASSUME NEW c \in City, NEW route \in Route, Itinerary(route.waypoints), NEW old \in Seq(Leg), Derived(c, route, old)
  PROVE  ProperLegs(c, route)
<1> DEFINE specs == Specs(route.pattern, route.waypoints)
<1>1. /\ ProperVisits(specs, route.waypoints) /\ Len(route.legs) = Len(specs)
      /\ \A i \in 1..Len(specs) :
           /\ route.legs[i].key = specs[i]
           /\ route.legs[i].status = "connected" <=> route.legs[i].path # NoWay
           /\ route.legs[i].status = "connected" => StopAccess(c, specs[i].from) # NoAccess
  BY DerivedFollows
<1> HIDE DEF specs
<1>2. route.legs \in Seq(Leg) /\ Range(route.waypoints) \subseteq Stops
  BY StopsOfItinerary DEF Route
<1>3. route.legs # <<>>
  <2>1. Len(specs) # 0
    BY <1>1 DEF ProperVisits
  <2>2. QED
    BY <1>1, <2>1
<1>4. \A i \in 1..Len(specs) : specs[i].from \in Range(route.waypoints)
  BY <1>1 DEF ProperVisits
<1>5. \A s \in Range(route.waypoints) : \E i \in 1..Len(specs) : specs[i].from = s /\ specs[i].kind = "service"
  BY <1>1 DEF ProperVisits
<1>6. \A i \in 1..Len(route.legs) :
         /\ route.legs[i].key.from \in Range(route.waypoints)
         /\ route.legs[i].status = "connected" <=> route.legs[i].path # NoWay
         /\ route.legs[i].status = "connected" => StopAccess(c, route.legs[i].key.from) # NoAccess
  <2>1. TAKE i \in 1..Len(route.legs)
  <2>2. i \in 1..Len(specs)
    BY <1>1
  <2>3. route.legs[i].key = specs[i]
    BY <1>1, <2>2
  <2>4. QED
    BY <1>1, <1>4, <2>2, <2>3
<1>7. \A s \in Range(route.waypoints) : \E i \in 1..Len(route.legs) :
         route.legs[i].key.from = s /\ route.legs[i].key.kind = "service"
  <2>1. TAKE s \in Range(route.waypoints)
  <2>2. PICK i \in 1..Len(specs) : specs[i].from = s /\ specs[i].kind = "service"
    BY <1>5
  <2>3. i \in 1..Len(route.legs) /\ route.legs[i].key = specs[i]
    BY <1>1, <2>2
  <2>4. QED
    BY <2>2, <2>3
<1>8. QED
  BY <1>2, <1>3, <1>6, <1>7 DEF ProperLegs

LEMMA LineFacts ==
  ASSUME NEW c \in City, LinesFit(c), NEW r \in Lines(c)
  PROVE  /\ r \in RouteIds /\ c.routes[r] \in Route /\ c.routes[r] # None
         /\ Itinerary(c.routes[r].waypoints) /\ c.routes[r].revision <= MaxRevision
         /\ Range(c.routes[r].waypoints) \subseteq Stops
         /\ ProperLegs(c, c.routes[r])
<1>1. r \in RouteIds /\ c.routes[r] \in Route /\ c.routes[r] # None
  BY DEF Lines, City
<1>2. /\ Itinerary(c.routes[r].waypoints) /\ c.routes[r].revision <= MaxRevision
      /\ FollowsNetwork(c, r)
  BY DEF LinesFit
<1>3. c.routes[r].legs \in Seq(Leg)
  BY <1>1 DEF Route
<1>4. Derived(c, c.routes[r], c.routes[r].legs)
  BY <1>2 DEF FollowsNetwork, Derived
<1>5. ProperLegs(c, c.routes[r])
  BY <1>1, <1>2, <1>3, <1>4, DerivedIsProper
<1>6. QED
  BY <1>1, <1>2, <1>5 DEF ProperLegs

\* A line follows the network in every city with the same offer.
LEMMA FollowsSame ==
  ASSUME NEW c \in City, NEW d \in City, SameOffer(c, d), NEW r \in Lines(c), NEW q \in Lines(d),
         Itinerary(c.routes[r].waypoints), FollowsNetwork(c, r),
         d.routes[q].waypoints = c.routes[r].waypoints, d.routes[q].pattern = c.routes[r].pattern,
         d.routes[q].legs = c.routes[r].legs
  PROVE  FollowsNetwork(d, q)
<1>1. c.routes[r].pattern \in Patterns
  BY DEF Lines, City, Route
<1>2. ResolveRouteLegs(c, c.routes[r].pattern, c.routes[r].waypoints) = ResolveRouteLegs(d, c.routes[r].pattern, c.routes[r].waypoints)
  BY <1>1, SameResolved
<1>3. QED
  BY <1>2 DEF FollowsNetwork

-----------------------------------------------------------------------------
(* Where buses may stand.                                                   *)

\* The visits at which a bus may be parked: services that depart from a stop in reach.
ParkingVisit(c, route, i) ==
  /\ i \in 1..Len(route.legs) /\ route.legs[i].key.kind = "service"
  /\ StopAccess(c, route.legs[i].key.from) # NoAccess

LEMMA NearestAreParking ==
  ASSUME NEW c, NEW route, NEW world, NEW only, NEW i \in NearestVisits(c, route, world, only)
  PROVE  ParkingVisit(c, route, i)
BY DEF NearestVisits, ParkingVisit

LEMMA NoVisitNoStop ==
  ASSUME NEW c, NEW route, ProperLegs(c, route), NEW world, NearestVisits(c, route, world, Stops) = {},
         NEW s \in Range(route.waypoints)
  PROVE  StopAccess(c, s) = NoAccess
<1>1. PICK i \in 1..Len(route.legs) : route.legs[i].key.from = s /\ route.legs[i].key.kind = "service"
  BY DEF ProperLegs
<1>2. s \in Stops
  BY DEF ProperLegs
<1>3. QED
  BY <1>1, <1>2 DEF NearestVisits

LEMMA ParkedThere ==
  ASSUME NEW c \in City, NEW v \in Bus, NEW route, ProperLegs(c, route), NEW i, ParkingVisit(c, route, i),
         NEW w, w = ParkAt(c, route, v, i)
  PROVE  /\ w \in Bus /\ w.route = v.route /\ w.leg = i /\ w.step = 0
         /\ w.parked = StopAccess(c, route.legs[i].key.from).at /\ w.parked # "driving"
<1>1. route.legs[i].key.from \in Stops
  BY DEF ProperLegs, ParkingVisit
<1>2. /\ StopAccess(c, route.legs[i].key.from).at \in Places
      /\ StopAccess(c, route.legs[i].key.from).at # "driving"
  BY <1>1, AccessFacts DEF ParkingVisit
<1>3. i \in Nat \ {0}
  BY DEF ParkingVisit, ProperLegs
<1> DEFINE place == StopAccess(c, route.legs[i].key.from).at
<1>4. ParkAt(c, route, v, i) = [v EXCEPT !.leg = i, !.step = 0, !.parked = place, !.stray = FALSE]
  BY DEF ParkAt
<1> HIDE DEF place
<1>5. w = [v EXCEPT !.leg = i, !.step = 0, !.parked = place, !.stray = FALSE]
  BY <1>4
<1>6. place \in Places /\ place # "driving"
  BY <1>2 DEF place
<1>7. w \in Bus
  <2>1. w = [route |-> v.route, leg |-> i, step |-> 0, parked |-> place, stray |-> FALSE]
    BY <1>5 DEF Bus
  <2>2. v.route \in RouteIds /\ 0 \in Nat /\ FALSE \in BOOLEAN
    BY DEF Bus
  <2>3. QED
    BY <1>3, <1>6, <2>1, <2>2 DEF Bus
<1>8. w.route = v.route /\ w.leg = i /\ w.step = 0 /\ w.parked = place
  BY <1>5 DEF Bus
<1>9. QED
  BY <1>6, <1>7, <1>8 DEF place

LEMMA ParkedFits ==
  ASSUME NEW c \in City, NEW v \in Bus, v.route \in Lines(c), ProperLegs(c, c.routes[v.route]),
         NEW i, ParkingVisit(c, c.routes[v.route], i), NEW w, w = ParkAt(c, c.routes[v.route], v, i)
  PROVE  /\ BusFits(c, w)
         /\ ~IsBroken(c.routes[v.route].legs) => BusFits(c, [w EXCEPT !.parked = "driving"])
<1> DEFINE route == c.routes[v.route]
           u == [w EXCEPT !.parked = "driving"]
<1>1. /\ w \in Bus /\ w.route = v.route /\ w.leg = i /\ w.step = 0
      /\ w.parked = StopAccess(c, route.legs[i].key.from).at /\ w.parked # "driving"
  <2>1. ProperLegs(c, route) /\ ParkingVisit(c, route, i) /\ w = ParkAt(c, route, v, i)
    OBVIOUS
  <2> HIDE DEF route
  <2>2. QED
    BY <2>1, ParkedThere
<1>2. u \in Bus /\ u.route = v.route /\ u.leg = i /\ u.step = 0 /\ u.parked = "driving"
  <2>1. "driving" \in Places
    BY DEF Places
  <2>2. QED
    BY <1>1, <2>1 DEF Bus
<1>3. i \in 1..Len(route.legs) /\ route.legs[i].key.kind = "service"
  BY DEF ParkingVisit
<1>4. route.legs[i].path.steps \in Nat
  <2>1. route.legs[i] \in Leg
    BY <1>3 DEF ProperLegs
  <2>2. QED
    BY <2>1, WayFacts DEF Leg
<1> HIDE DEF u
<1>5. BusFits(c, w)
  BY <1>1, <1>3, <1>4 DEF BusFits, LegLoads, StepLoads, StandsRight
<1>6. ~IsBroken(route.legs) => BusFits(c, u)
  BY <1>2, <1>3, <1>4 DEF BusFits, LegLoads, StepLoads, StandsRight
<1>7. QED
  BY <1>5, <1>6 DEF u

\* What a bus does at a stop does not depend on anything but its line and what is offered.
LEMMA BusFitsSame ==
  ASSUME NEW c, NEW d, NEW v, SameOffer(c, d), BusFits(c, v), v.route \in Lines(d),
         ProperLegs(c, c.routes[v.route]),
         d.routes[v.route].waypoints = c.routes[v.route].waypoints,
         d.routes[v.route].legs = c.routes[v.route].legs
  PROVE  BusFits(d, v)
<1> DEFINE route == c.routes[v.route]
           leg == route.legs[v.leg]
<1>1. v.leg \in 1..Len(route.legs)
  BY DEF BusFits, LegLoads
<1>2. \A s \in Stops : StopAccess(c, s) = StopAccess(d, s)
  BY SameAccess
<1>3. Range(route.waypoints) \subseteq Stops /\ leg.key.from \in Stops
  BY <1>1 DEF ProperLegs
<1>4. Reached(d, v.route) = Reached(c, v.route)
  BY <1>2, <1>3 DEF Reached
<1>5. \A s \in Reached(c, v.route) : StopAccess(c, s) = StopAccess(d, s)
  BY <1>2, <1>3 DEF Reached
<1>6. StandsRight(d, v)
  <2>1. StandsRight(c, v)
    BY DEF BusFits
  <2>2. StopAccess(c, leg.key.from) = StopAccess(d, leg.key.from)
    BY <1>2, <1>3
  <2>3. QED
    BY <1>4, <1>5, <2>1, <2>2 DEF StandsRight
<1>7. LegLoads(d, v) /\ (StepLoads(d, v) \/ v.stray)
  BY DEF BusFits, LegLoads, StepLoads
<1>8. QED
  BY <1>6, <1>7 DEF BusFits


-----------------------------------------------------------------------------
(* Every line worked out again.                                             *)

LEMMA RevisionCounts ==
  ASSUME NEW revision \in Nat, revision <= MaxRevision
  PROVE  /\ NextRevision(revision) \in Nat /\ NextRevision(revision) <= MaxRevision
         /\ revision <= NextRevision(revision)
         /\ revision < MaxRevision => NextRevision(revision) = revision + 1
<1> DEFINE T == {revision + 1, MaxRevision}
<1>1. T \in SUBSET Nat /\ T # {}
  BY Bounds
<1>2. Min(T) \in T /\ \A y \in T : Min(T) <= y
  <2> HIDE DEF T
  <2>1. QED
    BY <1>1, LeastNumber
<1>3. Min(T) \in Nat /\ Min(T) <= revision + 1 /\ Min(T) <= MaxRevision /\ (Min(T) = revision + 1 \/ Min(T) = MaxRevision)
  BY <1>2, Bounds
<1>4. QED
  BY <1>3, Bounds DEF NextRevision

ResolvedLine(prev, c, r) ==
  [c.routes[r] EXCEPT !.legs = MergeResolvedLegs(prev.routes[r].legs,
                                 ResolveRouteLegs(c, c.routes[r].pattern, c.routes[r].waypoints))]
ResolvedLines(prev, c) == [r \in RouteIds |-> IF r \in Lines(c) THEN ResolvedLine(prev, c, r) ELSE None]
ResolvedCity(prev, c) == [c EXCEPT !.routes = Tuple(ResolvedLines(prev, c))]
CountedLine(prev, c, r) ==
  IF r \in Lines(c) /\ Structure(prev, r) # Structure(ResolvedCity(prev, c), r)
  THEN [ResolvedCity(prev, c).routes[r] EXCEPT !.revision = NextRevision(prev.routes[r].revision)]
  ELSE ResolvedCity(prev, c).routes[r]
CountedLines(prev, c) == [r \in RouteIds |-> CountedLine(prev, c, r)]

LEMMA RecomputedInTwo ==
  ASSUME NEW prev, NEW c
  PROVE  Recomputed(prev, c) = [ResolvedCity(prev, c) EXCEPT !.routes = Tuple(CountedLines(prev, c))]
BY Zenon DEF Recomputed, ResolvedCity, ResolvedLines, ResolvedLine, CountedLines, CountedLine

\* The line, as far as its editor sees it.
LEMMA SameStructure ==
  ASSUME NEW c, NEW d, NEW r, c.routes[r].waypoints = d.routes[r].waypoints,
         c.routes[r].pattern = d.routes[r].pattern, c.routes[r].legs = d.routes[r].legs,
         c.platforms = d.platforms
  PROVE  Structure(c, r) = Structure(d, r)
BY DEF Structure, Assignments

\* A city with other lines that stop where they did.
LEMMA ResolvedLineFacts ==
  ASSUME NEW prev \in City, LinesFit(prev), NEW c \in City, c.routes = prev.routes, NEW r \in Lines(c),
         NEW route, route = ResolvedLine(prev, c, r)
  PROVE  /\ route \in Route
         /\ route.waypoints = c.routes[r].waypoints /\ route.pattern = c.routes[r].pattern
         /\ route.active = c.routes[r].active /\ route.revision = c.routes[r].revision
         /\ Derived(c, route, prev.routes[r].legs)
<1>1. /\ r \in RouteIds /\ c.routes[r] \in Route /\ Itinerary(c.routes[r].waypoints)
      /\ prev.routes[r].legs \in Seq(Leg)
  <2>1. r \in Lines(prev)
    BY DEF Lines
  <2>2. QED
    BY <2>1, LineFacts DEF Route
<1> DEFINE legs == ResolveRouteLegs(c, c.routes[r].pattern, c.routes[r].waypoints)
           merged == MergeResolvedLegs(prev.routes[r].legs, legs)
<1>2. legs \in Seq(Leg)
  <2>1. c.routes[r].pattern \in Patterns
    BY <1>1 DEF Route
  <2>2. QED
    BY <1>1, <2>1, LegsResolved
<1>3. merged \in Seq(Leg)
  <2> HIDE DEF legs
  <2>1. QED
    BY <1>1, <1>2, Merged
<1>4. route = [c.routes[r] EXCEPT !.legs = merged]
  BY DEF ResolvedLine
<1> HIDE DEF merged
<1>5. /\ route \in Route /\ route.legs = merged
      /\ route.waypoints = c.routes[r].waypoints /\ route.pattern = c.routes[r].pattern
      /\ route.revision = c.routes[r].revision
  BY <1>1, <1>3, <1>4 DEF Route
<1>6. route.active = c.routes[r].active
  BY <1>1, <1>4 DEF Route
<1>7. Derived(c, route, prev.routes[r].legs)
  BY <1>5 DEF Derived, merged
<1>8. QED
  BY <1>5, <1>6, <1>7

LEMMA ResolvedCityFacts ==
  ASSUME NEW prev \in City, LinesFit(prev), NEW c \in City, c.routes = prev.routes,
         NEW d, d = ResolvedCity(prev, c)
  PROVE  /\ d = [c EXCEPT !.routes = ResolvedLines(prev, c)]
         /\ d \in City /\ d.routes = ResolvedLines(prev, c)
         /\ d.network = c.network /\ d.stops = c.stops /\ d.platforms = c.platforms /\ d.buses = c.buses
         /\ Lines(d) = Lines(c)
<1> DEFINE f == ResolvedLines(prev, c)
<1>1. \A r \in Lines(c) : ResolvedLine(prev, c, r) \in Route
  BY ResolvedLineFacts
<1>2. f \in [RouteIds -> Route \cup {None}]
  BY <1>1 DEF ResolvedLines
<1>3. Tuple(f) = f
  BY <1>2, Bounds, TupleSame DEF RouteIds
<1>4. \A r \in RouteIds : f[r] = None <=> r \notin Lines(c)
  BY <1>1, NoneIsNothing DEF ResolvedLines
<1> HIDE DEF f
<1>5. d = [c EXCEPT !.routes = f]
  BY <1>3 DEF ResolvedCity, f
<1>6. d \in City
  BY <1>2, <1>5 DEF City
<1>7. /\ d.network = c.network /\ d.stops = c.stops /\ d.platforms = c.platforms /\ d.buses = c.buses
      /\ d.routes = f
  BY <1>5 DEF City
<1>8. Lines(d) = Lines(c)
  BY <1>4, <1>7 DEF Lines
<1>9. QED
  BY <1>5, <1>6, <1>7, <1>8 DEF f

LEMMA CountedLineFacts ==
  ASSUME NEW prev \in City, LinesFit(prev), NEW c \in City, c.routes = prev.routes, c.platforms = prev.platforms,
         NEW r \in Lines(c), NEW route, route = CountedLine(prev, c, r)
  PROVE  /\ route \in Route
         /\ route.waypoints = prev.routes[r].waypoints /\ route.pattern = prev.routes[r].pattern
         /\ route.active = prev.routes[r].active
         /\ route.legs = ResolvedLine(prev, c, r).legs /\ Derived(c, route, prev.routes[r].legs)
         /\ prev.routes[r].revision <= route.revision /\ route.revision <= MaxRevision
         /\ Structure(prev, r) # Structure(ResolvedCity(prev, c), r) /\ prev.routes[r].revision < MaxRevision =>
              route.revision = prev.routes[r].revision + 1
<1> DEFINE d == ResolvedCity(prev, c)
           line == d.routes[r]
           revision == prev.routes[r].revision
<1>1. /\ r \in RouteIds /\ c.routes[r] = prev.routes[r]
      /\ revision \in Nat /\ revision <= MaxRevision
  <2>1. r \in Lines(prev) /\ r \in RouteIds
    BY DEF Lines
  <2>2. QED
    BY <2>1, LineFacts DEF Route
<1>2. line = ResolvedLine(prev, c, r)
  <2>1. d.routes = ResolvedLines(prev, c)
    BY ResolvedCityFacts
  <2>2. QED
    BY <1>1, <2>1 DEF ResolvedLines
<1>3. /\ line \in Route
      /\ line.waypoints = prev.routes[r].waypoints /\ line.pattern = prev.routes[r].pattern
      /\ line.active = prev.routes[r].active /\ line.revision = revision
      /\ Derived(c, line, prev.routes[r].legs)
  BY <1>1, <1>2, ResolvedLineFacts
<1>4. /\ NextRevision(revision) \in Nat /\ NextRevision(revision) <= MaxRevision
      /\ revision <= NextRevision(revision)
      /\ revision < MaxRevision => NextRevision(revision) = revision + 1
  BY <1>1, RevisionCounts
<1>5. route = IF Structure(prev, r) # Structure(d, r) THEN [line EXCEPT !.revision = NextRevision(revision)] ELSE line
  BY DEF CountedLine
<1> HIDE DEF line, revision
<1>6. CASE Structure(prev, r) = Structure(d, r)
  BY <1>1, <1>2, <1>3, <1>4, <1>5, <1>6 DEF revision
<1>7. CASE Structure(prev, r) # Structure(d, r)
  <2>1. route = [line EXCEPT !.revision = NextRevision(revision)]
    BY <1>5, <1>7
  <2>2. /\ route \in Route /\ route.waypoints = line.waypoints /\ route.pattern = line.pattern
        /\ route.legs = line.legs /\ route.revision = NextRevision(revision)
    BY <1>3, <1>4, <2>1 DEF Route
  <2>3. route.active = line.active
    BY <1>3, <2>1 DEF Route
  <2>4. Derived(c, route, prev.routes[r].legs)
    BY <1>3, <2>2 DEF Derived
  <2>5. QED
    BY <1>2, <1>3, <1>4, <2>2, <2>3, <2>4 DEF revision
<1>8. QED
  BY <1>6, <1>7

\* After every line has been worked out again: the same lines, that stop where they did.
LEMMA RecomputedFacts ==
  ASSUME NEW prev \in City, LinesFit(prev), NEW c \in City, c.routes = prev.routes, c.platforms = prev.platforms,
         NEW next, next = Recomputed(prev, c)
  PROVE  /\ next \in City
         /\ next.network = c.network /\ next.stops = c.stops /\ next.platforms = c.platforms /\ next.buses = c.buses
         /\ Lines(next) = Lines(prev) /\ LinesFit(next) /\ SameOffer(c, next)
         /\ \A r \in Lines(prev) :
              /\ next.routes[r].waypoints = prev.routes[r].waypoints
              /\ next.routes[r].pattern = prev.routes[r].pattern
              /\ next.routes[r].active = prev.routes[r].active
              /\ next.routes[r].revision \in Nat
              /\ prev.routes[r].revision <= next.routes[r].revision
              /\ Structure(next, r) # Structure(prev, r) /\ prev.routes[r].revision < MaxRevision =>
                   next.routes[r].revision = prev.routes[r].revision + 1
<1> DEFINE d == ResolvedCity(prev, c)
           f == CountedLines(prev, c)
<1>1. /\ d \in City /\ d.routes = ResolvedLines(prev, c)
      /\ d.network = c.network /\ d.stops = c.stops /\ d.platforms = c.platforms /\ d.buses = c.buses
      /\ Lines(d) = Lines(c)
  BY ResolvedCityFacts
<1>2. Lines(c) = Lines(prev) /\ Lines(c) \subseteq RouteIds
  BY DEF Lines
<1>3. \A r \in Lines(c) : CountedLine(prev, c, r) \in Route
  BY CountedLineFacts
<1>4. \A r \in RouteIds \ Lines(c) : CountedLine(prev, c, r) = None
  BY <1>1 DEF CountedLine, ResolvedLines
<1>5. f \in [RouteIds -> Route \cup {None}]
  BY <1>3, <1>4 DEF CountedLines
<1>6. Tuple(f) = f
  BY <1>5, Bounds, TupleSame DEF RouteIds
<1>7. next = [d EXCEPT !.routes = f]
  BY <1>6, RecomputedInTwo
<1>8. \A r \in Lines(c) : f[r] = CountedLine(prev, c, r)
  BY <1>2 DEF CountedLines
<1>9. \A r \in RouteIds : f[r] = None <=> r \notin Lines(c)
  BY <1>3, <1>4, NoneIsNothing DEF CountedLines
<1> HIDE DEF d, f
<1>10. next \in City
  BY <1>1, <1>5, <1>7 DEF City
<1>11. /\ next.network = c.network /\ next.stops = c.stops /\ next.platforms = c.platforms /\ next.buses = c.buses
       /\ next.routes = f
  BY <1>1, <1>7 DEF City
<1>12. Lines(next) = Lines(prev)
  BY <1>2, <1>9, <1>11 DEF Lines
<1>13. SameOffer(c, next)
  BY <1>11 DEF SameOffer
<1>14. ASSUME NEW r \in Lines(prev)
       PROVE  /\ next.routes[r] \in Route
              /\ next.routes[r].waypoints = prev.routes[r].waypoints
              /\ next.routes[r].pattern = prev.routes[r].pattern
              /\ next.routes[r].active = prev.routes[r].active
              /\ next.routes[r].revision \in Nat
              /\ prev.routes[r].revision <= next.routes[r].revision
              /\ next.routes[r].revision <= MaxRevision
              /\ Structure(next, r) # Structure(prev, r) /\ prev.routes[r].revision < MaxRevision =>
                   next.routes[r].revision = prev.routes[r].revision + 1
              /\ Derived(c, next.routes[r], prev.routes[r].legs)
  <2>1. PICK route : route = CountedLine(prev, c, r)
    OBVIOUS
  <2>2. r \in Lines(c) /\ next.routes[r] = route
    BY <1>2, <1>8, <1>11, <2>1
  <2>3. /\ route \in Route
        /\ route.waypoints = prev.routes[r].waypoints /\ route.pattern = prev.routes[r].pattern
        /\ route.active = prev.routes[r].active
        /\ route.legs = ResolvedLine(prev, c, r).legs /\ Derived(c, route, prev.routes[r].legs)
        /\ prev.routes[r].revision <= route.revision /\ route.revision <= MaxRevision
        /\ Structure(prev, r) # Structure(ResolvedCity(prev, c), r) /\ prev.routes[r].revision < MaxRevision =>
             route.revision = prev.routes[r].revision + 1
    BY <2>1, <2>2, CountedLineFacts
  <2>4. d.routes[r] = ResolvedLine(prev, c, r)
    BY <1>1, <1>2, <2>2 DEF ResolvedLines
  <2>5. /\ d.routes[r].waypoints = prev.routes[r].waypoints /\ d.routes[r].pattern = prev.routes[r].pattern
        /\ d.routes[r].legs = route.legs
    <3>1. PICK line : line = ResolvedLine(prev, c, r)
      OBVIOUS
    <3>2. line.waypoints = c.routes[r].waypoints /\ line.pattern = c.routes[r].pattern
      BY <2>2, <3>1, ResolvedLineFacts
    <3>3. QED
      BY <2>3, <2>4, <3>1, <3>2
  <2>6. Structure(next, r) = Structure(d, r)
    <3>1. /\ next.routes[r].waypoints = d.routes[r].waypoints /\ next.routes[r].pattern = d.routes[r].pattern
          /\ next.routes[r].legs = d.routes[r].legs /\ next.platforms = d.platforms
      BY <1>1, <1>11, <2>2, <2>3, <2>5
    <3>2. QED
      BY <3>1, SameStructure
  <2>7. route.revision \in Nat
    BY <2>3 DEF Route
  <2>8. QED
    BY <2>2, <2>3, <2>6, <2>7 DEF d
<1>15. LinesFit(next)
  <2>1. SUFFICES ASSUME NEW r \in Lines(next)
                 PROVE  /\ Itinerary(next.routes[r].waypoints) /\ next.routes[r].revision <= MaxRevision
                        /\ FollowsNetwork(next, r)
    BY DEF LinesFit
  <2>2. r \in Lines(prev)
    BY <1>12, <2>1
  <2>3. Itinerary(prev.routes[r].waypoints) /\ prev.routes[r].legs \in Seq(Leg)
    BY <2>2, LineFacts DEF Route
  <2>4. /\ next.routes[r] \in Route /\ next.routes[r].revision <= MaxRevision
        /\ next.routes[r].waypoints = prev.routes[r].waypoints
        /\ Derived(c, next.routes[r], prev.routes[r].legs)
    BY <1>14, <2>2
  <2>5. ResolveRouteLegs(c, next.routes[r].pattern, next.routes[r].waypoints)
          = ResolveRouteLegs(next, next.routes[r].pattern, next.routes[r].waypoints)
    <3>1. next.routes[r].pattern \in Patterns
      BY <2>4 DEF Route
    <3>2. QED
      BY <1>10, <1>13, <2>3, <2>4, <3>1, SameResolved
  <2>6. Derived(next, next.routes[r], prev.routes[r].legs)
    BY <2>4, <2>5 DEF Derived
  <2>7. next.routes[r].legs = MergeResolvedLegs(next.routes[r].legs,
          ResolveRouteLegs(next, next.routes[r].pattern, next.routes[r].waypoints))
    BY <1>10, <2>3, <2>4, <2>6, DerivedFollows
  <2>8. QED
    BY <2>3, <2>4, <2>7 DEF FollowsNetwork
<1>16. QED
  BY <1>10, <1>11, <1>12, <1>13, <1>14, <1>15

-----------------------------------------------------------------------------
(* Where the buses are after a change of the network.                       *)

\* The same lines on another network.
Renewal(prev, next) ==
  /\ prev \in City /\ LinesFit(prev) /\ next \in City /\ LinesFit(next)
  /\ Lines(next) = Lines(prev)
  /\ \A r \in Lines(prev) : /\ next.routes[r].waypoints = prev.routes[r].waypoints
                            /\ next.routes[r].pattern = prev.routes[r].pattern

LEMMA RenewedLine ==
  ASSUME NEW prev, NEW next, Renewal(prev, next), NEW r \in Lines(prev)
  PROVE  /\ prev.routes[r] \in Route /\ next.routes[r] \in Route
         /\ ProperLegs(prev, prev.routes[r]) /\ ProperLegs(next, next.routes[r])
         /\ Len(next.routes[r].legs) = Len(prev.routes[r].legs)
         /\ \A i \in 1..Len(prev.routes[r].legs) : next.routes[r].legs[i].key = prev.routes[r].legs[i].key
<1> DEFINE old == prev.routes[r]
           new == next.routes[r]
           specs == Specs(old.pattern, old.waypoints)
<1>1. prev \in City /\ next \in City /\ LinesFit(prev) /\ LinesFit(next) /\ r \in Lines(next)
  BY DEF Renewal
<1>2. /\ old \in Route /\ Itinerary(old.waypoints) /\ ProperLegs(prev, old)
  BY <1>1, LineFacts
<1>3. /\ new \in Route /\ Itinerary(new.waypoints) /\ ProperLegs(next, new)
  BY <1>1, LineFacts
<1>4. new.waypoints = old.waypoints /\ new.pattern = old.pattern
  BY DEF Renewal
<1>5. Derived(prev, old, old.legs) /\ Derived(next, new, new.legs)
  BY <1>1 DEF LinesFit, FollowsNetwork, Derived
<1>6. old.legs \in Seq(Leg) /\ new.legs \in Seq(Leg)
  BY <1>2, <1>3 DEF Route
<1>7. Len(old.legs) = Len(specs) /\ \A i \in 1..Len(specs) : old.legs[i].key = specs[i]
  <2> HIDE DEF old
  <2>1. QED
    BY <1>1, <1>2, <1>5, <1>6, DerivedFollows
<1>8. Len(new.legs) = Len(specs) /\ \A i \in 1..Len(specs) : new.legs[i].key = specs[i]
  <2>1. specs = Specs(new.pattern, new.waypoints)
    BY <1>4
  <2> HIDE DEF old, new, specs
  <2>2. QED
    BY <1>1, <1>3, <1>5, <1>6, <2>1, DerivedFollows
<1>9. QED
  BY <1>2, <1>3, <1>7, <1>8

\* What may have become of a bus while its line was worked out: a parked one may have
\* been moved with a stop of its line, and with the one it departs from if it stood there.
Carried(prev, next, was, v) ==
  LET leg == prev.routes[was.route].legs[was.leg]
  IN  /\ v \in Bus /\ v.route = was.route /\ v.leg = was.leg /\ v.step = was.step
      /\ v.stray <=> was.stray
      /\ \/ v.parked = was.parked
         \/ /\ was.parked # "driving"
            /\ \E s \in Reached(next, was.route) : v.parked = StopAccess(next, s).at
            /\ leg.key.kind = "service" /\ leg.key.from \in Reached(next, was.route)
                 /\ was.parked = StopAccess(prev, leg.key.from).at =>
                 v.parked = StopAccess(next, leg.key.from).at

\* A bus whose step is kept on the way of its leg, unless its line is broken.
OnItsWay(next, v, w) ==
  /\ w \in Bus /\ w.route = v.route /\ w.leg = v.leg /\ w.parked = v.parked
  /\ LegLoads(next, w)
  /\ IF IsBroken(next.routes[v.route].legs) THEN w = v ELSE StepLoads(next, w) \/ w.stray

LEMMA BusLeg ==
  ASSUME NEW prev, NEW next, Renewal(prev, next), NEW v, LegLoads(prev, v)
  PROVE  LET old == prev.routes[v.route].legs[v.leg]
             new == next.routes[v.route].legs[v.leg]
         IN  /\ v.route \in Lines(prev) /\ LegLoads(next, v) /\ v.leg \in 1..Len(prev.routes[v.route].legs)
             /\ old \in Leg /\ new \in Leg /\ new.key = old.key
             /\ old.path \in Ways /\ old.path.steps \in Nat /\ new.path.steps \in Nat
             /\ old.path = NoWay => IsBroken(prev.routes[v.route].legs)
<1>1. v.route \in Lines(prev) /\ v.leg \in 1..Len(prev.routes[v.route].legs)
  BY DEF LegLoads
<1>2. PICK old, new : old = prev.routes[v.route] /\ new = next.routes[v.route]
  OBVIOUS
<1>3. /\ ProperLegs(prev, old) /\ ProperLegs(next, new) /\ Len(new.legs) = Len(old.legs)
      /\ \A i \in 1..Len(old.legs) : new.legs[i].key = old.legs[i].key
  BY <1>1, <1>2, RenewedLine
<1>4. old.legs[v.leg] \in Leg /\ new.legs[v.leg] \in Leg
  BY <1>1, <1>2, <1>3, ElementOfSeq DEF ProperLegs
<1>5. old.legs[v.leg].path \in Ways /\ new.legs[v.leg].path \in Ways
  BY <1>4 DEF Leg
<1>6. old.legs[v.leg].path.steps \in Nat /\ new.legs[v.leg].path.steps \in Nat
  BY <1>5, WayFacts
<1>7. old.legs[v.leg].path = NoWay => IsBroken(old.legs)
  BY <1>1, <1>2, <1>3 DEF ProperLegs, IsBroken
<1>8. LegLoads(next, v)
  <2>1. v.route \in Lines(next)
    BY <1>1 DEF Renewal
  <2>2. QED
    BY <1>1, <1>2, <1>3, <2>1 DEF LegLoads
<1>9. QED
  BY <1>1, <1>2, <1>3, <1>4, <1>5, <1>6, <1>7, <1>8

LEMMA ProjectedOnItsWay ==
  ASSUME NEW prev, NEW next, Renewal(prev, next), NEW was \in Bus, BusFits(prev, was),
         NEW v, Carried(prev, next, was, v), NEW w \in Project(prev.routes[v.route], next.routes[v.route], v)
  PROVE  OnItsWay(next, v, w)
<1>1. PICK old, new : old = prev.routes[v.route] /\ new = next.routes[v.route]
  OBVIOUS
<1> DEFINE before == old.legs[v.leg].path
           now == new.legs[v.leg].path
<1>2. /\ v \in Bus /\ v.route = was.route /\ v.leg = was.leg /\ v.step = was.step /\ (v.stray <=> was.stray)
  BY DEF Carried
<1>3. LegLoads(prev, v) /\ (StepLoads(prev, v) \/ v.stray) /\ (IsBroken(old.legs) => v.step = 0)
  BY <1>1, <1>2 DEF BusFits, LegLoads, StepLoads
<1>4. /\ LegLoads(next, v) /\ before.steps \in Nat /\ now.steps \in Nat
      /\ before = NoWay => IsBroken(old.legs)
  BY <1>1, <1>3, BusLeg
<1>5. w \in Project(old, new, v)
  BY <1>1
<1>6. v.step \in Nat
  BY <1>2 DEF Bus
<1>7. ~IsBroken(new.legs) /\ (before = NoWay \/ before = now \/ v.step >= before.steps) => StepLoads(next, v) \/ v.stray
  <2> HIDE DEF before, now
  <2>1. now = next.routes[v.route].legs[v.leg].path /\ before = prev.routes[v.route].legs[v.leg].path
    BY <1>1 DEF now, before
  <2>2. QED
    BY <1>3, <1>4, <1>6, <2>1 DEF StepLoads
<1>8. CASE w = v /\ (IsBroken(new.legs) \/ before = NoWay \/ before = now \/ v.step >= before.steps)
  <2> HIDE DEF before, now
  <2>1. QED
    BY <1>1, <1>2, <1>4, <1>7, <1>8 DEF OnItsWay
<1>9. CASE ~IsBroken(new.legs) /\ now.steps = 0 /\ w = [v EXCEPT !.stray = (v.step > 0)]
  <2> PICK left \in BOOLEAN : left <=> v.step > 0
    <3>1. CASE v.step > 0
      BY <3>1
    <3>2. CASE ~(v.step > 0)
      BY <3>2
    <3>3. QED
      BY <3>1, <3>2
  <2>1. w \in Bus /\ w.route = v.route /\ w.leg = v.leg /\ w.parked = v.parked /\ w.step = v.step
    <3>1. w = [v EXCEPT !.stray = left]
      BY <1>9
    <3>2. QED
      BY <1>2, <3>1 DEF Bus
  <2>2. w.stray <=> v.step > 0
    BY <1>2, <1>9 DEF Bus
  <2>3. StepLoads(next, w) \/ w.stray
    BY <1>1, <1>6, <1>9, <2>1, <2>2 DEF StepLoads
  <2>4. LegLoads(next, w)
    BY <1>4, <2>1 DEF LegLoads
  <2>5. QED
    BY <1>1, <1>9, <2>1, <2>3, <2>4 DEF OnItsWay
<1>10. CASE ~IsBroken(new.legs) /\ now.steps # 0 /\ \E k \in 0..(now.steps - 1) : w = [v EXCEPT !.step = k, !.stray = FALSE]
  <2>1. PICK k \in 0..(now.steps - 1) : w = [v EXCEPT !.step = k, !.stray = FALSE]
    BY <1>10
  <2>2. k \in Nat /\ k < now.steps
    BY <1>4, <2>1
  <2>3. w \in Bus /\ w.route = v.route /\ w.leg = v.leg /\ w.parked = v.parked /\ w.step = k
    BY <1>2, <2>1, <2>2 DEF Bus
  <2>4. StepLoads(next, w)
    BY <1>1, <1>10, <2>2, <2>3 DEF StepLoads
  <2>5. LegLoads(next, w)
    BY <1>4, <2>3 DEF LegLoads
  <2>6. QED
    BY <1>1, <1>10, <2>3, <2>4, <2>5 DEF OnItsWay
<1>11. QED
  BY <1>5, <1>8, <1>9, <1>10 DEF Project

\* Where a bus is before the change: at a place of the road, or not known.  On a line in
\* service it is known, unless the bus is stray.
LEMMA WorldFacts ==
  ASSUME NEW c \in City, LinesFit(c), NEW v \in Bus, LegLoads(c, v), NEW world, world = WorldOf(c, v)
  PROVE  /\ world = "nowhere" \/ (world \in Places /\ world # "driving")
         /\ world = "nowhere" => v.parked = "driving"
         /\ world = "nowhere" /\ BusFits(c, v) /\ ~IsBroken(c.routes[v.route].legs) => v.stray
<1> DEFINE leg == c.routes[v.route].legs[v.leg]
           path == IF leg.path # NoWay THEN leg.path ELSE leg.last
           from == leg.key.from
<1>1. ProperLegs(c, c.routes[v.route]) /\ v.leg \in 1..Len(c.routes[v.route].legs)
  BY LineFacts DEF LegLoads
<1>2. leg \in Leg /\ from \in Stops
  BY <1>1, ElementOfSeq DEF ProperLegs
<1>3. /\ StopAccess(c, from) = NoAccess => StopAccess(c, from).at = "nowhere"
      /\ StopAccess(c, from) # NoAccess =>
           /\ StopAccess(c, from).at \in Places
           /\ StopAccess(c, from).at \notin {"driving", "roadside", "nowhere"}
  BY <1>2, AccessFacts, NoWayFacts
<1>4. v.parked \in Places /\ v.parked # "nowhere"
  BY NowhereIsNoPlace DEF Bus
<1>5. world = IF v.parked # "driving" THEN v.parked
              ELSE IF v.step < path.steps THEN "roadside"
              ELSE IF path = Stay THEN StopAccess(c, from).at
              ELSE "nowhere"
  BY DEF WorldOf
<1>6. "roadside" \in Places
  BY DEF Places
<1>7. world = "nowhere" /\ BusFits(c, v) /\ ~IsBroken(c.routes[v.route].legs) => v.stray
  <2>1. SUFFICES ASSUME world = "nowhere", BusFits(c, v), ~IsBroken(c.routes[v.route].legs), ~v.stray
                 PROVE  FALSE
    OBVIOUS
  <2>2. leg.status = "connected"
    BY <1>1, <2>1 DEF IsBroken
  <2>3. leg.path # NoWay /\ StopAccess(c, from) # NoAccess
    BY <1>1, <2>2 DEF ProperLegs
  <2>4. leg.path \in Ways /\ leg.path.steps \in Nat
    BY <1>2, WayFacts DEF Leg
  <2>5. StepLoads(c, v)
    BY <2>1 DEF BusFits
  <2>6. leg.path.steps # 0 => v.step < leg.path.steps
    BY <2>5 DEF StepLoads
  <2>7. leg.path.steps # 0
    BY <1>3, <1>4, <1>5, <2>1, <2>3, <2>4, WayFacts
  <2>8. QED
    BY <1>4, <1>5, <2>1, <2>3, <2>6, <2>7
<1>8. world = "nowhere" => v.parked = "driving"
  BY <1>4, <1>5
<1> HIDE DEF path, from, leg
<1>9. world = "nowhere" \/ (world \in Places /\ world # "driving")
  BY <1>3, <1>4, <1>5, <1>6
<1>10. QED
  BY <1>7, <1>8, <1>9

\* break_service leaves a bus as the broken line asks for.
LEMMA BreakFits ==
  ASSUME NEW prev, NEW next, Renewal(prev, next), NEW was \in Bus, BusFits(prev, was),
         NEW v, Carried(prev, next, was, v),
         ~IsBroken(prev.routes[v.route].legs), IsBroken(next.routes[v.route].legs),
         NEW u \in BreakService(prev, next, next.routes[v.route], v, was)
  PROVE  u \in Bus /\ u.route = v.route /\ BusFits(next, u)
<1>1. PICK new : new = next.routes[v.route]
  OBVIOUS
<1>2. /\ v \in Bus /\ v.route = was.route /\ v.leg = was.leg /\ v.step = was.step /\ (v.stray <=> was.stray)
      /\ was.parked = "driving" => v.parked = "driving"
  BY DEF Carried
<1>3. prev \in City /\ LinesFit(prev) /\ next \in City
  BY DEF Renewal
<1>4. LegLoads(prev, was) /\ LegLoads(prev, v)
  BY <1>2 DEF BusFits, LegLoads
<1>5. v.route \in Lines(next) /\ v.leg \in 1..Len(new.legs) /\ LegLoads(next, v)
  BY <1>1, <1>4, BusLeg DEF LegLoads
<1>6. ProperLegs(next, new)
  <2>1. v.route \in Lines(prev)
    BY <1>4 DEF LegLoads
  <2>2. QED
    BY <1>1, <2>1, RenewedLine
<1>7. PICK world : world = WorldOf(prev, was)
  OBVIOUS
<1>8. /\ world = "nowhere" \/ (world \in Places /\ world # "driving")
      /\ world = "nowhere" => was.parked = "driving" /\ was.stray
  BY <1>2, <1>3, <1>4, <1>7, WorldFacts
<1>9. 0 \in Nat
  OBVIOUS
<1>10. CASE world = "nowhere" /\ u = [v EXCEPT !.step = 0]
  <2>1. u \in Bus /\ u.route = v.route /\ u.leg = v.leg /\ u.step = 0 /\ u.parked = v.parked
    BY <1>2, <1>9, <1>10 DEF Bus
  <2>2. u.stray <=> v.stray
    BY <1>2, <1>10 DEF Bus
  <2>3. u.parked = "driving" /\ u.stray
    BY <1>2, <1>8, <1>10, <2>1, <2>2
  <2>4. QED
    BY <1>5, <2>1, <2>3 DEF BusFits, LegLoads, StandsRight
<1>11. CASE world # "nowhere" /\ NearestVisits(next, new, world, Stops) = {} /\ u = [v EXCEPT !.step = 0, !.parked = world]
  <2>1. u \in Bus /\ u.route = v.route /\ u.leg = v.leg /\ u.step = 0 /\ u.parked = world
    BY <1>2, <1>8, <1>9, <1>11 DEF Bus
  <2>2. Reached(next, v.route) = {}
    BY <1>1, <1>6, <1>11, NoVisitNoStop DEF Reached
  <2>3. StepLoads(next, u)
    <3>1. next.routes[v.route].legs[v.leg].path.steps \in Nat
      BY <1>4, BusLeg
    <3>2. QED
      BY <2>1, <3>1 DEF StepLoads
  <2>4. QED
    BY <1>1, <1>5, <1>8, <1>11, <2>1, <2>2, <2>3 DEF BusFits, LegLoads, StandsRight
<1>12. CASE \E i \in NearestVisits(next, new, world, Stops) : u = ParkAt(next, new, v, i)
  <2>1. PICK i \in NearestVisits(next, new, world, Stops) : u = ParkAt(next, new, v, i)
    BY <1>12
  <2>2. ParkingVisit(next, new, i)
    BY NearestAreParking
  <2>3. u \in Bus /\ u.route = v.route
    BY <1>2, <1>3, <1>6, <2>1, <2>2, ParkedThere
  <2>4. BusFits(next, u)
    BY <1>1, <1>2, <1>3, <1>5, <1>6, <2>1, <2>2, ParkedFits
  <2>5. QED
    BY <2>3, <2>4
<1>13. u \in BreakService(prev, next, new, v, was)
  BY <1>1
<1>14. QED
  BY <1>7, <1>10, <1>11, <1>12, <1>13 DEF BreakService

\* rebase_parked_vehicles leaves a bus at a stop in reach, or as it was if there is none.
LEMMA RebaseFits ==
  ASSUME NEW prev, NEW next, Renewal(prev, next), NEW w \in Bus, LegLoads(prev, w),
         NEW resume \in BOOLEAN, resume => ~IsBroken(next.routes[w.route].legs),
         NEW u \in RebaseParked(prev, next, next.routes[w.route], w, resume)
  PROVE  /\ u \in Bus /\ u.route = w.route
         /\ BusFits(next, u) \/ (u = w /\ (w.parked = "driving" \/ Reached(next, w.route) = {}))
<1>1. PICK new : new = next.routes[w.route]
  OBVIOUS
<1>2. prev \in City /\ LinesFit(prev) /\ next \in City
  BY DEF Renewal
<1>3. w.route \in Lines(prev) /\ w.route \in Lines(next)
  BY DEF LegLoads, Renewal
<1>4. ProperLegs(next, new)
  BY <1>1, <1>3, RenewedLine
<1>5. PICK world : world = WorldOf(prev, w)
  OBVIOUS
<1>6. world = "nowhere" => w.parked = "driving"
  BY <1>2, <1>5, WorldFacts
<1>7. u \in RebaseParked(prev, next, new, w, resume)
  BY <1>1
<1>8. CASE u = w /\ world = "nowhere"
  BY <1>6, <1>8
<1>9. CASE u = w /\ world # "nowhere" /\ NearestVisits(next, new, world, Stops) = {}
  <2>1. Reached(next, w.route) = {}
    BY <1>1, <1>4, <1>9, NoVisitNoStop DEF Reached
  <2>2. QED
    BY <1>9, <2>1
<1>10. CASE \E i \in NearestVisits(next, new, world, Stops) :
              u = IF resume THEN [ParkAt(next, new, w, i) EXCEPT !.parked = "driving"] ELSE ParkAt(next, new, w, i)
  <2>1. PICK i \in NearestVisits(next, new, world, Stops) :
              u = IF resume THEN [ParkAt(next, new, w, i) EXCEPT !.parked = "driving"] ELSE ParkAt(next, new, w, i)
    BY <1>10
  <2>2. ParkingVisit(next, new, i)
    BY NearestAreParking
  <2>3. PICK p : p = ParkAt(next, new, w, i)
    OBVIOUS
  <2>4. p \in Bus /\ p.route = w.route
    BY <1>2, <1>4, <2>2, <2>3, ParkedThere
  <2>5. BusFits(next, p) /\ (~IsBroken(new.legs) => BusFits(next, [p EXCEPT !.parked = "driving"]))
    BY <1>1, <1>2, <1>3, <1>4, <2>2, <2>3, ParkedFits
  <2>6. CASE resume
    <3>1. u = [p EXCEPT !.parked = "driving"]
      BY <2>1, <2>3, <2>6
    <3>2. "driving" \in Places
      BY DEF Places
    <3>3. u \in Bus /\ u.route = w.route
      BY <2>4, <3>1, <3>2 DEF Bus
    <3>4. BusFits(next, u)
      BY <1>1, <2>5, <2>6, <3>1
    <3>5. QED
      BY <3>3, <3>4
  <2>7. CASE ~resume
    BY <2>1, <2>3, <2>4, <2>5, <2>7
  <2>8. QED
    BY <2>6, <2>7
<1>11. QED
  BY <1>5, <1>7, <1>8, <1>9, <1>10 DEF RebaseParked

\* The places where a stop of the line was reached, and is no longer.
LeftPlaces(prev, next, r) ==
  {StopAccess(prev, s).at : s \in {s \in Range(next.routes[r].waypoints) :
      StopAccess(prev, s) # NoAccess /\ StopAccess(next, s).at # StopAccess(prev, s).at}}

\* rebase_parked_bus_access_to_live_stop moves a bus to a stop in reach, or leaves it.
LEMMA FollowFits ==
  ASSUME NEW prev, NEW next, Renewal(prev, next), NEW w \in Bus, w.route \in Lines(prev),
         NEW u \in FollowAccess(prev, next, next.routes[w.route], w)
  PROVE  /\ u \in Bus /\ u.route = w.route
         /\ BusFits(next, u)
            \/ (u = w /\ (w.parked \notin LeftPlaces(prev, next, w.route) \/ Reached(next, w.route) = {}))
<1>1. PICK new : new = next.routes[w.route]
  OBVIOUS
<1>2. prev \in City /\ LinesFit(prev) /\ next \in City /\ w.route \in Lines(next)
  BY DEF Renewal
<1>3. ProperLegs(next, new)
  BY <1>1, RenewedLine
<1>4. u \in FollowAccess(prev, next, new, w)
  BY <1>1
<1>5. CASE u = w /\ w.parked \notin LeftPlaces(prev, next, w.route)
  BY <1>5
<1>6. CASE u = w /\ NearestVisits(next, new, w.parked, Stops) = {}
  <2>1. Reached(next, w.route) = {}
    BY <1>1, <1>3, <1>6, NoVisitNoStop DEF Reached
  <2>2. QED
    BY <1>6, <2>1
<1>7. CASE \E i \in NearestVisits(next, new, w.parked, Stops) : u = ParkAt(next, new, w, i)
  <2>1. PICK i \in NearestVisits(next, new, w.parked, Stops) : u = ParkAt(next, new, w, i)
    BY <1>7
  <2>2. ParkingVisit(next, new, i)
    BY NearestAreParking
  <2>3. u \in Bus /\ u.route = w.route
    BY <1>2, <1>3, <2>1, <2>2, ParkedThere
  <2>4. BusFits(next, u)
    BY <1>1, <1>2, <1>3, <2>1, <2>2, ParkedFits
  <2>5. QED
    BY <2>3, <2>4
<1>8. LeftPlaces(prev, next, w.route) =
        {StopAccess(prev, s).at : s \in {s \in Range(new.waypoints) :
           StopAccess(prev, s) # NoAccess /\ StopAccess(next, s).at # StopAccess(prev, s).at}}
  BY <1>1 DEF LeftPlaces
<1>9. QED
  BY <1>4, <1>5, <1>6, <1>7, <1>8 DEF FollowAccess

\* Some stop of the line is reached again.
Gained(prev, next, r) ==
  \E s \in Range(next.routes[r].waypoints) : StopAccess(prev, s) = NoAccess /\ StopAccess(next, s) # NoAccess

\* A bus that stays with a line in service, or with a broken one of which no stop is
\* reached again, still stands at a stop, unless it stood where one was reached before.
LEMMA StillStands ==
  ASSUME NEW prev, NEW next, Renewal(prev, next), NEW was \in Bus, BusFits(prev, was),
         NEW v, Carried(prev, next, was, v), NEW w, OnItsWay(next, v, w),
         \/ ~IsBroken(prev.routes[v.route].legs) /\ ~IsBroken(next.routes[v.route].legs)
         \/ /\ IsBroken(prev.routes[v.route].legs) /\ IsBroken(next.routes[v.route].legs)
            /\ ~Gained(prev, next, v.route),
         w.parked \notin LeftPlaces(prev, next, v.route) \/ Reached(next, v.route) = {}
  PROVE  StandsRight(next, w)
<1>1. PICK r : r = v.route
  OBVIOUS
<1>2. PICK old, new : old = prev.routes[r] /\ new = next.routes[r]
  OBVIOUS
<1> DEFINE leg == old.legs[v.leg]
           from == leg.key.from
           At(c, s) == StopAccess(c, s).at
<1>3. /\ was.route = r /\ was.leg = v.leg /\ w.route = r /\ w.leg = v.leg /\ w.parked = v.parked
      /\ w \in Bus /\ v \in Bus
  BY <1>1 DEF Carried, OnItsWay
<1>4. LegLoads(prev, was)
  BY DEF BusFits
<1>5. /\ r \in Lines(prev) /\ v.leg \in 1..Len(old.legs) /\ new.legs[v.leg].key = leg.key
  <2>1. /\ was.route \in Lines(prev) /\ was.leg \in 1..Len(prev.routes[was.route].legs)
        /\ next.routes[was.route].legs[was.leg].key = prev.routes[was.route].legs[was.leg].key
    BY <1>4, BusLeg
  <2>2. QED
    BY <1>2, <1>3, <2>1
<1>6. /\ ProperLegs(prev, old) /\ ProperLegs(next, new) /\ Len(new.legs) = Len(old.legs)
      /\ new.waypoints = old.waypoints
  BY <1>2, <1>5, RenewedLine DEF Renewal
<1>7. from \in Range(old.waypoints) /\ Range(old.waypoints) \subseteq Stops
  BY <1>5, <1>6 DEF ProperLegs
<1>8. prev \in City /\ next \in City
  BY DEF Renewal
<1>9. \A c \in {prev, next}, s \in Range(old.waypoints) :
        /\ StopAccess(c, s) = NoAccess <=> At(c, s) = "nowhere"
        /\ StopAccess(c, s) # NoAccess => At(c, s) # "driving"
  BY <1>7, <1>8, AccessFacts
<1>10. /\ Reached(prev, r) = {s \in Range(old.waypoints) : StopAccess(prev, s) # NoAccess}
       /\ Reached(next, r) = {s \in Range(old.waypoints) : StopAccess(next, s) # NoAccess}
  BY <1>2, <1>6 DEF Reached
<1>11. SUFFICES ASSUME w.parked # "driving", Reached(next, r) # {}
                PROVE  /\ leg.key.kind = "service"
                       /\ \/ w.parked = At(next, from)
                          \/ IsBroken(new.legs) /\ \E s \in Reached(next, r) : w.parked = At(next, s)
  BY <1>2, <1>3, <1>5 DEF StandsRight
<1>12. \A s \in Reached(prev, r) : w.parked = At(prev, s) => At(next, s) = At(prev, s)
  BY <1>1, <1>2, <1>6, <1>10, <1>11 DEF LeftPlaces
<1>13. was.parked # "driving"
  BY <1>3, <1>11 DEF Carried
<1>14. Reached(prev, r) # {} =>
         /\ leg.key.kind = "service"
         /\ \/ was.parked = At(prev, from)
            \/ IsBroken(old.legs) /\ \E s \in Reached(prev, r) : was.parked = At(prev, s)
  <2>1. StandsRight(prev, was)
    BY DEF BusFits
  <2>2. QED
    BY <1>2, <1>3, <1>13, <2>1 DEF StandsRight
<1>15. \/ v.parked = was.parked
       \/ /\ \E s \in Reached(next, r) : v.parked = At(next, s)
          /\ leg.key.kind = "service" /\ from \in Reached(next, r) /\ was.parked = At(prev, from) =>
               v.parked = At(next, from)
  BY <1>2, <1>3 DEF Carried
<1>16. CASE ~IsBroken(old.legs) /\ ~IsBroken(new.legs)
  <2>1. old.legs[v.leg].status = "connected" /\ new.legs[v.leg].status = "connected"
    BY <1>5, <1>6, <1>16 DEF IsBroken
  <2>2. StopAccess(prev, from) # NoAccess /\ StopAccess(next, from) # NoAccess
    BY <1>5, <1>6, <2>1 DEF ProperLegs
  <2>3. from \in Reached(prev, r) /\ from \in Reached(next, r)
    BY <1>7, <1>10, <2>2
  <2>4. leg.key.kind = "service" /\ was.parked = At(prev, from)
    BY <1>14, <1>16, <2>3
  <2>5. w.parked = At(next, from)
    BY <1>3, <1>12, <1>15, <2>3, <2>4
  <2>6. QED
    BY <2>4, <2>5
<1>17. CASE IsBroken(old.legs) /\ IsBroken(new.legs) /\ ~Gained(prev, next, r)
  <2>1. Reached(next, r) \subseteq Reached(prev, r)
    BY <1>2, <1>6, <1>10, <1>17 DEF Gained
  <2>2. leg.key.kind = "service"
    BY <1>11, <1>14, <2>1
  <2>3. \E s \in Reached(prev, r) : was.parked = At(prev, s)
    <3>1. CASE was.parked = At(prev, from)
      <4>1. was.parked # "nowhere"
        BY NowhereIsNoPlace DEF Bus
      <4>2. from \in Reached(prev, r)
        BY <1>7, <1>9, <1>10, <3>1, <4>1
      <4>3. QED
        BY <3>1, <4>2
    <3>2. QED
      BY <1>11, <1>14, <2>1, <3>1
  <2>4. CASE v.parked = was.parked
    <3>1. PICK s \in Reached(prev, r) : was.parked = At(prev, s)
      BY <2>3
    <3>2. At(next, s) = At(prev, s)
      BY <1>3, <1>12, <2>4, <3>1
    <3>3. s \in Reached(next, r)
      BY <1>9, <1>10, <3>1, <3>2
    <3>4. QED
      BY <1>3, <1>17, <2>2, <2>4, <3>1, <3>2, <3>3
  <2>5. QED
    BY <1>3, <1>15, <1>17, <2>2, <2>4
<1>18. QED
  BY <1>1, <1>2, <1>16, <1>17

\* Whatever the network became: each bus fits its line.
LEMMA ChoicesFit ==
  ASSUME NEW prev, NEW next, Renewal(prev, next), NEW b, prev.buses[b] \in Bus, BusFits(prev, prev.buses[b]),
         next.buses[b] \in Bus, next.buses[b] # None, Carried(prev, next, prev.buses[b], next.buses[b]),
         NEW u \in BusChoices(prev, next, b)
  PROVE  u \in Bus /\ u.route = prev.buses[b].route /\ BusFits(next, u)
<1>1. PICK was, v : was = prev.buses[b] /\ v = next.buses[b]
  OBVIOUS
<1>2. PICK r : r = v.route
  OBVIOUS
<1>3. PICK old, new : old = prev.routes[r] /\ new = next.routes[r]
  OBVIOUS
<1>4. PICK w \in Project(old, new, v) :
         \E x \in Transition(prev, next, old, new, w, was) : u \in FollowAccess(prev, next, new, x)
  BY <1>1, <1>2, <1>3 DEF BusChoices
<1>5. PICK x \in Transition(prev, next, old, new, w, was) : u \in FollowAccess(prev, next, new, x)
  BY <1>4
<1>6. /\ was \in Bus /\ v \in Bus /\ BusFits(prev, was) /\ Carried(prev, next, was, v)
      /\ was.route = r
  BY <1>1, <1>2 DEF Carried
<1>7. OnItsWay(next, v, w)
  BY <1>2, <1>3, <1>5, <1>6, ProjectedOnItsWay
<1>8. /\ w \in Bus /\ w.route = r /\ w.leg = v.leg /\ w.parked = v.parked /\ LegLoads(next, w)
      /\ IsBroken(new.legs) => w = v
      /\ ~IsBroken(new.legs) => StepLoads(next, w) \/ w.stray
  BY <1>2, <1>3, <1>7 DEF OnItsWay
<1>9. LegLoads(prev, was) /\ LegLoads(prev, w) /\ r \in Lines(prev)
  BY <1>6, <1>8 DEF BusFits, LegLoads, Carried
<1>10. IsBroken(old.legs) => v.step = 0 /\ (was.parked # "driving" \/ was.stray)
  BY <1>3, <1>6 DEF BusFits, Carried
<1>11. /\ v.stray <=> was.stray
       /\ was.parked # "driving" => v.parked # "driving"
  <2>1. v.stray <=> was.stray
    BY <1>6 DEF Carried
  <2>2. ASSUME was.parked # "driving"
        PROVE  v.parked # "driving"
    <3>1. \A s \in Reached(next, r) : StopAccess(next, s).at # "driving"
      <4>1. TAKE s \in Reached(next, r)
      <4>2. next \in City /\ ProperLegs(next, new) /\ new = next.routes[r]
        BY <1>3, <1>9, RenewedLine DEF Renewal
      <4>3. s \in Stops /\ StopAccess(next, s) # NoAccess
        BY <4>2 DEF Reached, ProperLegs
      <4>4. QED
        BY <4>2, <4>3, AccessFacts
    <3>2. QED
      BY <1>6, <2>2, <3>1 DEF Carried
  <2>3. QED
    BY <2>1, <2>2
<1> DEFINE stays == \/ ~IsBroken(old.legs) /\ ~IsBroken(new.legs)
                    \/ IsBroken(old.legs) /\ IsBroken(new.legs) /\ ~Gained(prev, next, r)
           known == /\ StepLoads(next, w) \/ w.stray
                    /\ IsBroken(new.legs) => w.step = 0 /\ (w.parked # "driving" \/ w.stray)
<1>12. IsBroken(old.legs) \/ ~IsBroken(new.legs) => known
  <2>1. CASE ~IsBroken(new.legs)
    BY <1>8, <2>1
  <2>2. CASE IsBroken(old.legs) /\ IsBroken(new.legs)
    <3>1. w = v /\ w.step = 0
      BY <1>8, <1>10, <2>2
    <3>2. w.parked # "driving" \/ w.stray
      BY <1>10, <1>11, <2>2, <3>1
    <3>3. StepLoads(next, w)
      <4>1. next.routes[w.route].legs[w.leg].path.steps \in Nat
        BY <1>9, BusLeg
      <4>2. QED
        BY <3>1, <4>1 DEF StepLoads
    <3>4. QED
      BY <3>1, <3>2, <3>3
  <2>3. QED
    BY <2>1, <2>2
<1>13. known /\ StandsRight(next, w) => BusFits(next, w)
  BY <1>3, <1>8 DEF BusFits
<1> HIDE DEF known
<1>14. x \in Bus /\ x.route = r /\ (BusFits(next, x) \/ (x = w /\ stays))
  <2>1. CASE x = w /\ stays
    BY <1>8, <2>1
  <2>2. CASE ~IsBroken(old.legs) /\ IsBroken(new.legs) /\ x \in BreakService(prev, next, new, w, was)
    <3>1. x \in BreakService(prev, next, next.routes[v.route], v, was)
      BY <1>2, <1>3, <1>8, <2>2
    <3>2. ~IsBroken(prev.routes[v.route].legs) /\ IsBroken(next.routes[v.route].legs)
      BY <1>2, <1>3, <2>2
    <3>3. QED
      BY <1>2, <1>6, <3>1, <3>2, BreakFits
  <2>3. CASE IsBroken(old.legs) /\ ~IsBroken(new.legs) /\ x \in RebaseParked(prev, next, new, w, new.active)
    <3>1. new.active \in BOOLEAN
      BY <1>3, <1>9, RenewedLine DEF Route
    <3>2. x \in Bus /\ x.route = r
      BY <1>3, <1>8, <1>9, <2>3, <3>1, RebaseFits
    <3>3. BusFits(next, x) \/ (x = w /\ (w.parked = "driving" \/ Reached(next, r) = {}))
      BY <1>3, <1>8, <1>9, <2>3, <3>1, RebaseFits
    <3>4. w.parked = "driving" \/ Reached(next, r) = {} => StandsRight(next, w)
      BY <1>8 DEF StandsRight
    <3>5. QED
      BY <1>12, <1>13, <2>3, <3>2, <3>3, <3>4
  <2>4. CASE IsBroken(old.legs) /\ IsBroken(new.legs) /\ x \in RebaseParked(prev, next, new, w, FALSE)
    <3> DEFINE resume == FALSE
    <3>1. resume \in BOOLEAN /\ ~resume /\ x \in RebaseParked(prev, next, next.routes[w.route], w, resume)
      BY <1>3, <1>8, <2>4
    <3> HIDE DEF resume
    <3>2. x \in Bus /\ x.route = r
      BY <1>8, <1>9, <3>1, RebaseFits
    <3>3. BusFits(next, x) \/ (x = w /\ (w.parked = "driving" \/ Reached(next, r) = {}))
      BY <1>8, <1>9, <3>1, RebaseFits
    <3>4. w.parked = "driving" \/ Reached(next, r) = {} => StandsRight(next, w)
      BY <1>8 DEF StandsRight
    <3>5. QED
      BY <1>12, <1>13, <2>4, <3>2, <3>3, <3>4
  <2>5. Gained(prev, next, r) =
          (\E s \in Range(new.waypoints) : StopAccess(prev, s) = NoAccess /\ StopAccess(next, s) # NoAccess)
    BY <1>3 DEF Gained
  <2>6. QED
    BY <1>5, <2>1, <2>2, <2>3, <2>4, <2>5 DEF Transition
<1>15. /\ u \in Bus /\ u.route = r
       /\ BusFits(next, u) \/ (u = x /\ (x.parked \notin LeftPlaces(prev, next, r) \/ Reached(next, r) = {}))
  BY <1>3, <1>5, <1>9, <1>14, FollowFits
<1>16. ASSUME stays, w.parked \notin LeftPlaces(prev, next, r) \/ Reached(next, r) = {}
       PROVE  BusFits(next, w)
  <2>1. StandsRight(next, w)
    BY <1>2, <1>3, <1>6, <1>7, <1>16, StillStands
  <2>2. QED
    BY <1>12, <1>13, <1>16, <2>1
<1>17. BusFits(next, u)
  <2> HIDE DEF stays
  <2>1. QED
    BY <1>14, <1>15, <1>16
<1>18. QED
  BY <1>1, <1>6, <1>15, <1>17

\* No line is there that was not, and one that changed is counted up while it can be.
CountedUp(prev, c) ==
  /\ Lines(c) \subseteq Lines(prev)
  /\ \A r \in Lines(c) :
       /\ c.routes[r].revision \in Nat /\ prev.routes[r].revision <= c.routes[r].revision
       /\ Structure(c, r) # Structure(prev, r) /\ prev.routes[r].revision < MaxRevision =>
            prev.routes[r].revision < c.routes[r].revision

LEMMA DraftStays ==
  ASSUME NEW prev, prev \in City, NEW c, CountedUp(prev, c), NEW d, DraftFits(prev, d)
  PROVE  DraftFits(c, d)
<1>1. SUFFICES ASSUME d # None
               PROVE  /\ d.line \in RouteIds /\ d.revision \in Nat
                      /\ d.line \in Lines(c) =>
                           /\ d.revision <= c.routes[d.line].revision
                           /\ c.routes[d.line].revision = d.revision /\ d.revision < MaxRevision =>
                                Structure(c, d.line) = d.seen
  BY DEF DraftFits
<1>2. d.line \in RouteIds /\ d.revision \in Nat
  BY <1>1 DEF DraftFits
<1>3. SUFFICES ASSUME d.line \in Lines(c)
               PROVE  /\ d.revision <= c.routes[d.line].revision
                      /\ c.routes[d.line].revision = d.revision /\ d.revision < MaxRevision =>
                           Structure(c, d.line) = d.seen
  BY <1>2
<1>4. PICK r : r = d.line
  OBVIOUS
<1>5. /\ r \in Lines(prev) /\ c.routes[r].revision \in Nat
      /\ prev.routes[r].revision <= c.routes[r].revision
      /\ Structure(c, r) # Structure(prev, r) /\ prev.routes[r].revision < MaxRevision =>
           prev.routes[r].revision < c.routes[r].revision
  BY <1>3, <1>4 DEF CountedUp
<1>6. prev.routes[r].revision \in Nat
  BY <1>5 DEF Lines, City, Route
<1>7. /\ d.revision <= prev.routes[r].revision
      /\ prev.routes[r].revision = d.revision /\ d.revision < MaxRevision => Structure(prev, r) = d.seen
  BY <1>1, <1>4, <1>5 DEF DraftFits
<1>8. QED
  BY <1>2, <1>4, <1>5, <1>6, <1>7, Bounds

\* The city with the change in it, before its lines are worked out again.
Candidate(prev, c) ==
  /\ CityFits(prev) /\ c \in City /\ c.routes = prev.routes /\ c.platforms = prev.platforms
  /\ StopsFit(c) /\ NodesFit(c)
  /\ \A b \in BusIds : IF prev.buses[b] = None THEN c.buses[b] = None
                       ELSE c.buses[b] # None /\ Carried(prev, c, prev.buses[b], c.buses[b])

LEMMA SameLines ==
  ASSUME NEW c, NEW d, Lines(c) = Lines(d),
         \A r \in Lines(c) : c.routes[r].waypoints = d.routes[r].waypoints
  PROVE  /\ \A s : Through(c, s) = Through(d, s)
         /\ c.stops = d.stops /\ StopsFit(c) => StopsFit(d)
         /\ c.stops = d.stops /\ NodesFit(c) => NodesFit(d)
         /\ c.platforms = d.platforms /\ PlatformsFit(c) => PlatformsFit(d)
<1>1. \A s : Through(c, s) = Through(d, s)
  BY DEF Through
<1>2. c.stops = d.stops /\ StopsFit(c) => StopsFit(d)
  BY DEF StopsFit
<1>3. c.stops = d.stops /\ NodesFit(c) => NodesFit(d)
  BY <1>1 DEF NodesFit, NodeLifetimeLoads
<1>4. c.platforms = d.platforms /\ PlatformsFit(c) => PlatformsFit(d)
  BY <1>1 DEF PlatformsFit, PlatformsLoad
<1>5. QED
  BY <1>1, <1>2, <1>3, <1>4

\* A line follows the network whatever becomes of the buses, stops no line is on, and
\* platforms.
LEMMA LinesFitSame ==
  ASSUME NEW c \in City, NEW d \in City, SameOffer(c, d), LinesFit(c), d.routes = c.routes
  PROVE  LinesFit(d) /\ Lines(d) = Lines(c)
<1>1. Lines(d) = Lines(c)
  BY DEF Lines
<1>2. ASSUME NEW r \in Lines(d)
      PROVE  /\ Itinerary(d.routes[r].waypoints) /\ d.routes[r].revision <= MaxRevision
             /\ FollowsNetwork(d, r)
  <2>1. r \in Lines(c) /\ Itinerary(c.routes[r].waypoints) /\ FollowsNetwork(c, r) /\ c.routes[r].revision <= MaxRevision
    BY <1>1, <1>2 DEF LinesFit
  <2>2. FollowsNetwork(d, r)
    BY <1>2, <2>1, FollowsSame
  <2>3. QED
    BY <2>1, <2>2
<1>3. QED
  BY <1>1, <1>2 DEF LinesFit

LEMMA MutationFits ==
  ASSUME NEW prev, NEW c, Candidate(prev, c), NEW after \in NetworkMutation(prev, c)
  PROVE  CityFits(after) /\ CountedUp(prev, after)
<1>1. PICK next : next = Recomputed(prev, c)
  OBVIOUS
<1>2. /\ prev \in City /\ LinesFit(prev) /\ StopsFit(prev) /\ NodesFit(prev) /\ PlatformsFit(prev) /\ BusesFit(prev)
      /\ c \in City /\ c.routes = prev.routes /\ c.platforms = prev.platforms
  BY DEF Candidate, CityFits
<1>3. /\ next \in City
      /\ next.network = c.network /\ next.stops = c.stops /\ next.platforms = c.platforms /\ next.buses = c.buses
      /\ Lines(next) = Lines(prev) /\ LinesFit(next) /\ SameOffer(c, next)
      /\ \A r \in Lines(prev) :
           /\ next.routes[r].waypoints = prev.routes[r].waypoints
           /\ next.routes[r].pattern = prev.routes[r].pattern
           /\ next.routes[r].active = prev.routes[r].active
           /\ next.routes[r].revision \in Nat
           /\ prev.routes[r].revision <= next.routes[r].revision
           /\ Structure(next, r) # Structure(prev, r) /\ prev.routes[r].revision < MaxRevision =>
                next.routes[r].revision = prev.routes[r].revision + 1
  BY <1>1, <1>2, RecomputedFacts
<1>4. Renewal(prev, next)
  BY <1>2, <1>3 DEF Renewal
<1> DEFINE choices == Tuple([b \in BusIds |-> BusChoices(prev, next, b)])
<1>5. /\ choices \in [BusIds -> {BusChoices(prev, next, b) : b \in BusIds}]
      /\ \A b \in BusIds : choices[b] = BusChoices(prev, next, b)
  <2> DEFINE f == [b \in BusIds |-> BusChoices(prev, next, b)]
             S == {BusChoices(prev, next, b) : b \in BusIds}
  <2>1. f \in [1..MaxBuses -> S] /\ MaxBuses \in Nat
    BY Bounds DEF BusIds
  <2>2. Tuple(f) = f
    <3> HIDE DEF f, S
    <3>1. QED
      BY <2>1, TupleSame
  <2>3. QED
    BY <2>1, <2>2 DEF BusIds
<1>6. PICK f : /\ after = [next EXCEPT !.buses = f] /\ f \in [BusIds -> UNION Range(choices)]
               /\ \A b \in BusIds : f[b] \in choices[b]
  BY <1>1 DEF NetworkMutation
<1>7. \A b \in BusIds : f[b] \in BusChoices(prev, next, b)
  BY <1>5, <1>6
<1> HIDE DEF choices
<1>8. ASSUME NEW b \in BusIds, prev.buses[b] # None
      PROVE  f[b] \in Bus /\ f[b].route = prev.buses[b].route /\ BusFits(next, f[b])
  <2>1. prev.buses[b] \in Bus /\ BusFits(prev, prev.buses[b])
    BY <1>2, <1>8 DEF City, BusesFit
  <2>2. next.buses[b] # None /\ next.buses[b] \in Bus
    BY <1>3, <1>8 DEF City, Candidate
  <2>3. Carried(prev, c, prev.buses[b], next.buses[b])
    BY <1>3, <1>8 DEF Candidate
  <2>4. PICK r : r = prev.buses[b].route
    OBVIOUS
  <2>5. r \in Lines(prev) /\ c.routes[r].waypoints = next.routes[r].waypoints
    BY <1>2, <1>3, <2>1, <2>4 DEF BusFits, LegLoads
  <2>6. Range(c.routes[r].waypoints) \subseteq Stops
    BY <1>2, <2>5, LineFacts
  <2>7. Reached(next, r) = Reached(c, r) /\ \A s \in Reached(c, r) : StopAccess(next, s) = StopAccess(c, s)
    BY <1>3, <2>5, <2>6, SameAccess DEF Reached
  <2>8. Carried(prev, next, prev.buses[b], next.buses[b])
    BY <2>3, <2>4, <2>7 DEF Carried
  <2>9. QED
    BY <1>4, <1>7, <2>1, <2>2, <2>8, ChoicesFit
<1>9. ASSUME NEW b \in BusIds, prev.buses[b] = None
      PROVE  f[b] = None
  <2>1. next.buses[b] = None
    BY <1>3, <1>9 DEF Candidate
  <2>2. QED
    BY <1>7, <2>1 DEF BusChoices
<1>10. f \in [BusIds -> Bus \cup {None}]
  BY <1>6, <1>8, <1>9
<1>11. /\ after \in City
       /\ after.network = next.network /\ after.stops = next.stops /\ after.platforms = next.platforms
       /\ after.routes = next.routes /\ after.buses = f
  BY <1>3, <1>6, <1>10 DEF City
<1>12. SameOffer(next, after)
  BY <1>11 DEF SameOffer
<1>13. LinesFit(after) /\ Lines(after) = Lines(next)
  BY <1>3, <1>11, <1>12, LinesFitSame
<1>14. StopsFit(after) /\ NodesFit(after)
  <2>1. Lines(c) = Lines(prev)
    BY <1>2 DEF Lines
  <2>2. Lines(c) = Lines(after) /\ \A r \in Lines(c) : c.routes[r].waypoints = after.routes[r].waypoints
    BY <1>2, <1>3, <1>11, <1>13, <2>1
  <2>3. c.stops = after.stops /\ StopsFit(c) /\ NodesFit(c)
    BY <1>3, <1>11 DEF Candidate
  <2>4. QED
    BY <2>2, <2>3, SameLines
<1>15. PlatformsFit(after)
  <2>1. Lines(prev) = Lines(after) /\ \A r \in Lines(prev) : prev.routes[r].waypoints = after.routes[r].waypoints
    BY <1>3, <1>11, <1>13
  <2>2. prev.platforms = after.platforms
    BY <1>2, <1>3, <1>11
  <2>3. QED
    BY <1>2, <2>1, <2>2, SameLines
<1>16. BusesFit(after)
  <2>1. SUFFICES ASSUME NEW b \in BusIds, f[b] # None
                 PROVE  BusFits(after, f[b])
    BY <1>11 DEF BusesFit
  <2>2. prev.buses[b] # None
    BY <1>9, <2>1
  <2>3. PICK v : v = f[b]
    OBVIOUS
  <2>4. BusFits(next, v) /\ v.route \in Lines(next)
    BY <1>8, <2>2, <2>3 DEF BusFits, LegLoads
  <2>5. ProperLegs(next, next.routes[v.route])
    BY <1>3, <2>4, LineFacts
  <2>6. /\ v.route \in Lines(after)
        /\ after.routes[v.route].waypoints = next.routes[v.route].waypoints
        /\ after.routes[v.route].legs = next.routes[v.route].legs
    BY <1>11, <1>13, <2>4
  <2>7. QED
    BY <1>12, <2>3, <2>4, <2>5, <2>6, BusFitsSame
<1>17. CityFits(after)
  BY <1>11, <1>13, <1>14, <1>15, <1>16 DEF CityFits
<1>18. CountedUp(prev, after)
  <2>1. SUFFICES ASSUME NEW r \in Lines(prev)
                 PROVE  /\ after.routes[r].revision \in Nat /\ prev.routes[r].revision <= after.routes[r].revision
                        /\ Structure(after, r) # Structure(prev, r) /\ prev.routes[r].revision < MaxRevision =>
                             prev.routes[r].revision < after.routes[r].revision
    BY <1>3, <1>13 DEF CountedUp
  <2>2. Structure(after, r) = Structure(next, r)
    <3>1. after.routes[r] = next.routes[r] /\ after.platforms = next.platforms
      BY <1>11
    <3>2. QED
      BY <3>1, SameStructure
  <2>3. prev.routes[r].revision \in Nat
    BY <1>2, LineFacts DEF Route
  <2>4. QED
    BY <1>3, <1>11, <2>2, <2>3
<1>19. QED
  BY <1>17, <1>18

-----------------------------------------------------------------------------
(* Roads and stops change.                                                  *)

LEMMA StaysCarried ==
  ASSUME NEW prev, NEW c, NEW v \in Bus
  PROVE  Carried(prev, c, v, v)
BY DEF Carried

LEMMA CarriedSame ==
  ASSUME NEW prev, NEW c, NEW d, NEW was, NEW v, Carried(prev, c, was, v),
         \A s : StopAccess(d, s) = StopAccess(c, s), Reached(d, was.route) = Reached(c, was.route)
  PROVE  Carried(prev, d, was, v)
BY DEF Carried

\* rebase_parked_bus_positions carries a bus with a stop of its line.
LEMMA MovedIsCarried ==
  ASSUME NEW prev \in City, LinesFit(prev), NEW c \in City, c.routes = prev.routes,
         NEW was \in Bus, LegLoads(prev, was), NEW v, v = MoveWithItsStop(prev, c, was)
  PROVE  Carried(prev, c, was, v)
<1>1. PICK r, route : r = was.route /\ route = c.routes[r]
  OBVIOUS
<1> DEFINE At(d, s) == StopAccess(d, s).at
           StandsAt(s) == StopAccess(c, s) # NoAccess /\ was.parked \in {At(prev, s), At(c, s)}
           leg == route.legs[was.leg]
           all == {s \in Range(route.waypoints) : StandsAt(s)}
<1>2. /\ r \in Lines(prev) /\ was.leg \in 1..Len(route.legs) /\ route = prev.routes[r]
  BY <1>1 DEF LegLoads
<1>3. ProperLegs(prev, route)
  BY <1>2, LineFacts
<1>4. leg.key.from \in Range(route.waypoints) /\ Range(route.waypoints) \subseteq Stops
  BY <1>2, <1>3 DEF ProperLegs
<1>5. Reached(c, r) = {s \in Range(route.waypoints) : StopAccess(c, s) # NoAccess}
  BY <1>1 DEF Reached
<1>6. \A s \in Reached(c, r) : At(c, s) \in Places
  <2>1. \A s \in Reached(c, r) : s \in Stops /\ StopAccess(c, s) # NoAccess
    BY <1>4, <1>5
  <2>2. QED
    BY <2>1, AccessFacts
<1>7. ASSUME NEW s \in Reached(c, r), was.parked # "driving", v = [was EXCEPT !.parked = At(c, s)],
             leg.key.kind = "service" /\ leg.key.from \in Reached(c, r) /\ was.parked = At(prev, leg.key.from) =>
               s = leg.key.from
      PROVE  Carried(prev, c, was, v)
  <2>1. PICK place \in Places : place = At(c, s)
    BY <1>6, <1>7
  <2>2. v = [was EXCEPT !.parked = place]
    BY <1>7, <2>1
  <2>3. v \in Bus /\ v.route = was.route /\ v.leg = was.leg /\ v.step = was.step /\ v.parked = place
    BY <2>2 DEF Bus
  <2>4. v.stray <=> was.stray
    BY <2>2 DEF Bus
  <2>5. leg = prev.routes[was.route].legs[was.leg]
    BY <1>1, <1>2
  <2>6. QED
    BY <1>1, <1>7, <2>1, <2>3, <2>4, <2>5 DEF Carried
<1>8. CASE v = was
  BY <1>8, StaysCarried
<1>9. CASE was.parked # "driving" /\ leg.key.kind = "service" /\ StandsAt(leg.key.from)
           /\ v = [was EXCEPT !.parked = At(c, leg.key.from)]
  BY <1>4, <1>5, <1>7, <1>9
<1>10. CASE /\ was.parked # "driving" /\ ~(leg.key.kind = "service" /\ StandsAt(leg.key.from))
            /\ Cardinality(all) = 1 /\ v = [was EXCEPT !.parked = At(c, CHOOSE s \in all : TRUE)]
  <2>1. all # {}
    <3>1. Cardinality(all) = 1
      BY <1>10
    <3> HIDE DEF all
    <3>2. QED
      BY <3>1, FS_EmptySet
  <2>2. PICK s \in all : s = CHOOSE x \in all : TRUE
    BY <2>1
  <2>3. s \in Reached(c, r)
    BY <1>5, <2>2
  <2>4. v = [was EXCEPT !.parked = At(c, s)]
    BY <1>10, <2>2
  <2>5. ~(leg.key.kind = "service" /\ leg.key.from \in Reached(c, r) /\ was.parked = At(prev, leg.key.from))
    BY <1>5, <1>10
  <2>6. QED
    BY <1>7, <1>10, <2>3, <2>4, <2>5
<1>11. \/ v = was
       \/ was.parked # "driving" /\ leg.key.kind = "service" /\ StandsAt(leg.key.from)
            /\ v = [was EXCEPT !.parked = At(c, leg.key.from)]
       \/ /\ was.parked # "driving" /\ ~(leg.key.kind = "service" /\ StandsAt(leg.key.from))
          /\ Cardinality(all) = 1 /\ v = [was EXCEPT !.parked = At(c, CHOOSE s \in all : TRUE)]
  BY <1>1 DEF MoveWithItsStop
<1>12. QED
  BY <1>8, <1>9, <1>10, <1>11

LEMMA RoadsCandidate ==
  ASSUME NEW prev, CityFits(prev), NEW n \in Networks, NEW moved, moved = [prev EXCEPT !.network = n],
         NEW f, f = [b \in BusIds |-> IF moved.buses[b] = None THEN None
                                     ELSE MoveWithItsStop(prev, moved, moved.buses[b])],
         NEW c, c = [moved EXCEPT !.buses = f]
  PROVE  Candidate(prev, c)
<1>1. /\ prev \in City /\ LinesFit(prev) /\ StopsFit(prev) /\ NodesFit(prev) /\ BusesFit(prev)
  BY DEF CityFits
<1>2. /\ moved \in City /\ moved.network = n /\ moved.stops = prev.stops /\ moved.platforms = prev.platforms
      /\ moved.routes = prev.routes /\ moved.buses = prev.buses
  BY <1>1 DEF City
<1>3. f = [b \in BusIds |-> IF prev.buses[b] = None THEN None ELSE MoveWithItsStop(prev, moved, prev.buses[b])]
  BY <1>2
<1>4. ASSUME NEW b \in BusIds, prev.buses[b] # None
      PROVE  f[b] \in Bus /\ f[b] # None /\ Carried(prev, moved, prev.buses[b], f[b])
  <2>1. prev.buses[b] \in Bus /\ BusFits(prev, prev.buses[b])
    BY <1>1, <1>4 DEF City, BusesFit
  <2>2. LegLoads(prev, prev.buses[b])
    BY <2>1 DEF BusFits
  <2>3. f[b] = MoveWithItsStop(prev, moved, prev.buses[b])
    BY <1>3, <1>4
  <2>4. Carried(prev, moved, prev.buses[b], f[b])
    BY <1>1, <1>2, <2>1, <2>2, <2>3, MovedIsCarried
  <2>5. QED
    BY <2>4, NoneIsNothing DEF Carried
<1>5. \A b \in BusIds : prev.buses[b] = None => f[b] = None
  BY <1>3
<1>6. f \in [BusIds -> Bus \cup {None}]
  <2>1. \A b \in BusIds : f[b] \in Bus \cup {None}
    BY <1>4, <1>5
  <2>2. QED
    BY <1>3, <2>1
<1>7. /\ c \in City /\ c.network = moved.network /\ c.stops = moved.stops /\ c.platforms = moved.platforms
      /\ c.routes = moved.routes /\ c.buses = f
  BY <1>2, <1>6 DEF City
<1>8. StopsFit(c) /\ NodesFit(c)
  <2>1. Lines(c) = Lines(prev) /\ c.routes = prev.routes /\ c.stops = prev.stops
    BY <1>2, <1>7 DEF Lines
  <2>2. QED
    BY <1>1, <2>1, SameLines
<1>9. ASSUME NEW b \in BusIds, prev.buses[b] # None
      PROVE  Carried(prev, c, prev.buses[b], f[b])
  <2>1. SameOffer(moved, c) /\ c.routes = moved.routes
    BY <1>7 DEF SameOffer
  <2>2. \A s : StopAccess(c, s) = StopAccess(moved, s)
    BY <1>7 DEF StopAccess, Present
  <2>3. \A r : Reached(c, r) = Reached(moved, r)
    BY <2>1, <2>2 DEF Reached
  <2>4. PICK was, v : was = prev.buses[b] /\ v = f[b]
    OBVIOUS
  <2>5. Carried(prev, moved, was, v)
    BY <1>4, <1>9, <2>4
  <2>6. Reached(c, was.route) = Reached(moved, was.route)
    BY <2>3
  <2>7. Carried(prev, c, was, v)
    BY <2>2, <2>5, <2>6, CarriedSame
  <2>8. QED
    BY <2>4, <2>7
<1>10. QED
  BY <1>2, <1>4, <1>5, <1>7, <1>8, <1>9 DEF Candidate

LEMMA StopsCandidate ==
  ASSUME NEW prev, CityFits(prev), NEW s \in Stops, NEW state \in {"present", "missing", "none"},
         state = "none" => Through(prev, s) = {}, state = "missing" => Through(prev, s) # {},
         NEW c, c = [prev EXCEPT !.stops[s] = state]
  PROVE  Candidate(prev, c)
<1>1. prev \in City /\ LinesFit(prev) /\ StopsFit(prev) /\ NodesFit(prev)
  BY DEF CityFits
<1>2. /\ c \in City /\ c.platforms = prev.platforms /\ c.routes = prev.routes /\ c.buses = prev.buses
      /\ c.stops = [prev.stops EXCEPT ![s] = state]
  BY <1>1 DEF City
<1>3. /\ c.stops[s] = state /\ \A t \in Stops \ {s} : c.stops[t] = prev.stops[t]
  BY <1>1, <1>2 DEF City
<1>4. Lines(c) = Lines(prev) /\ \A t : Through(c, t) = Through(prev, t)
  BY <1>2 DEF Lines, Through
<1>5. StopsFit(c)
  <2>1. SUFFICES ASSUME NEW r \in Lines(prev), NEW t \in Range(prev.routes[r].waypoints)
                 PROVE  c.stops[t] # "none"
    BY <1>2, <1>4 DEF StopsFit
  <2>2. t \in Stops /\ prev.stops[t] # "none" /\ r \in Through(prev, t)
    BY <1>1, LineFacts DEF StopsFit, Through
  <2>3. QED
    BY <1>3, <2>2
<1>6. NodesFit(c)
  BY <1>1, <1>3, <1>4 DEF NodesFit, NodeLifetimeLoads
<1>7. ASSUME NEW b \in BusIds, prev.buses[b] # None
      PROVE  c.buses[b] # None /\ Carried(prev, c, prev.buses[b], c.buses[b])
  <2>1. PICK v : v = prev.buses[b]
    OBVIOUS
  <2>2. v \in Bus
    BY <1>1, <1>7, <2>1 DEF City
  <2>3. Carried(prev, c, v, v)
    BY <2>2, StaysCarried
  <2>4. QED
    BY <1>2, <1>7, <2>1, <2>3
<1>8. \A b \in BusIds : prev.buses[b] = None => c.buses[b] = None
  BY <1>2
<1>9. QED
  BY <1>2, <1>5, <1>6, <1>7, <1>8 DEF Candidate

\* What every change of the network has in common.
LEMMA NetworkChangeFits ==
  ASSUME IInv, NEW c, Candidate(city, c), city' \in NetworkMutation(city, c), UNCHANGED draft
  PROVE  IInv'
<1>1. PICK prev : prev = city
  OBVIOUS
<1>2. prev \in City /\ DraftFits(prev, draft)
  BY <1>1 DEF IInv, CityFits
<1>3. CityFits(city') /\ CountedUp(prev, city')
  BY <1>1, MutationFits
<1>4. DraftFits(city', draft')
  BY <1>2, <1>3, DraftStays
<1>5. QED
  BY <1>3, <1>4 DEF IInv

LEMMA ChangeRoadsFits ==
  ASSUME IInv, ChangeRoads
  PROVE  IInv'
<1>1. PICK n \in Networks \ {city.network} :
        LET moved == [city EXCEPT !.network = n]
            candidate == [moved EXCEPT !.buses = [b \in BusIds |->
                            IF @[b] = None THEN None ELSE MoveWithItsStop(city, moved, @[b])]]
        IN  city' \in NetworkMutation(city, candidate)
  BY DEF ChangeRoads
<1>2. PICK prev, moved : prev = city /\ moved = [prev EXCEPT !.network = n]
  OBVIOUS
<1>3. PICK f, c : /\ f = [b \in BusIds |-> IF moved.buses[b] = None THEN None
                                          ELSE MoveWithItsStop(prev, moved, moved.buses[b])]
                  /\ c = [moved EXCEPT !.buses = f]
  OBVIOUS
<1>4. city' \in NetworkMutation(prev, c)
  BY <1>1, <1>2, <1>3
<1>5. CityFits(prev) /\ prev \in City /\ DraftFits(prev, draft)
  BY <1>2 DEF IInv, CityFits
<1>6. Candidate(prev, c)
  <2>1. n \in Networks
    OBVIOUS
  <2>2. QED
    BY <1>2, <1>3, <1>5, <2>1, RoadsCandidate
<1>7. UNCHANGED draft
  BY DEF ChangeRoads
<1>8. QED
  BY <1>2, <1>4, <1>6, <1>7, NetworkChangeFits

LEMMA AddBusStopFits ==
  ASSUME IInv, NEW s \in Stops, AddBusStop(s)
  PROVE  IInv'
<1>1. PICK prev, c : prev = city /\ c = [prev EXCEPT !.stops[s] = "present"]
  OBVIOUS
<1>2. CityFits(prev)
  BY <1>1 DEF IInv
<1>3. Candidate(prev, c)
  BY <1>1, <1>2, StopsCandidate
<1>4. city' \in NetworkMutation(city, c) /\ UNCHANGED draft
  BY <1>1 DEF AddBusStop
<1>5. QED
  BY <1>1, <1>3, <1>4, NetworkChangeFits

LEMMA RemoveStopFits ==
  ASSUME IInv, NEW s \in Stops, RemoveStop(s)
  PROVE  IInv'
<1>1. PICK prev, c : prev = city /\ c = RemovedStop(prev, s)
  OBVIOUS
<1>2. CityFits(prev)
  BY <1>1 DEF IInv
<1>3. PICK state : state = IF Through(prev, s) = {} THEN "none" ELSE "missing"
  OBVIOUS
<1>4. /\ state \in {"present", "missing", "none"}
      /\ state = "none" => Through(prev, s) = {}
      /\ state = "missing" => Through(prev, s) # {}
      /\ c = [prev EXCEPT !.stops[s] = state]
  BY <1>1, <1>3 DEF RemovedStop
<1>5. Candidate(prev, c)
  BY <1>2, <1>4, StopsCandidate
<1>6. city' \in NetworkMutation(city, c) /\ UNCHANGED draft
  BY <1>1 DEF RemoveStop
<1>7. QED
  BY <1>1, <1>5, <1>6, NetworkChangeFits

-----------------------------------------------------------------------------
(* Platforms.                                                               *)

\* The platforms of a stop hold each of these lines once, and no other.
HoldsOnce(platforms, lines) ==
  /\ platforms \in [1..Platforms -> SUBSET RouteIds]
  /\ \A p, q \in 1..Platforms : p # q => platforms[p] \cap platforms[q] = {}
  /\ \A r \in RouteIds : r \in lines <=> \E p \in 1..Platforms : r \in platforms[p]
  /\ lines \subseteq RouteIds

\* The other lines are where they were.
OthersStay(before, after, r) ==
  \A p \in 1..Platforms, q \in RouteIds \ {r} : q \in after[p] <=> q \in before[p]

LEMMA LoadedAndHeld ==
  ASSUME NEW c \in City, NEW s \in Stops
  PROVE  PlatformsLoad(c, s) <=> HoldsOnce(c.platforms[s], Through(c, s))
<1> DEFINE f == c.platforms[s]
           T == Through(c, s)
<1>1. f \in [1..Platforms -> SUBSET RouteIds]
  BY DEF City
<1>2. T \subseteq RouteIds
  BY DEF Through, Lines
<1>3. Range(f) = {f[p] : p \in 1..Platforms}
  BY <1>1 DEF Range
<1> HIDE DEF f, T
<1>4. UNION Range(f) = T <=> \A r \in RouteIds : r \in T <=> \E p \in 1..Platforms : r \in f[p]
  BY <1>1, <1>2, <1>3
<1>5. HoldsOnce(f, T) <=> /\ \A p, q \in 1..Platforms : p # q => f[p] \cap f[q] = {}
                          /\ UNION Range(f) = T
  BY <1>1, <1>2, <1>4 DEF HoldsOnce
<1>6. QED
  BY <1>5 DEF PlatformsLoad, f, T

LEMMA SomeLeastLoaded ==
  ASSUME NEW platforms \in [1..Platforms -> SUBSET RouteIds],
         NEW load, load = [p \in 1..Platforms |-> Cardinality(platforms[p])]
  PROVE  Min({p \in 1..Platforms : \A q \in 1..Platforms : load[p] <= load[q]}) \in 1..Platforms
<1>1. \A p \in 1..Platforms : load[p] \in Nat
  <2>1. IsFiniteSet(RouteIds)
    BY Bounds, FS_Interval DEF RouteIds
  <2>2. TAKE p \in 1..Platforms
  <2>3. IsFiniteSet(platforms[p])
    BY <2>1, FS_Subset
  <2>4. QED
    BY <2>3, FS_CardinalityType
<1> DEFINE loads == {load[p] : p \in 1..Platforms}
           best == {p \in 1..Platforms : \A q \in 1..Platforms : load[p] <= load[q]}
<1>2. loads \in SUBSET Nat /\ loads # {}
  <2>1. 1 \in 1..Platforms
    BY Bounds
  <2>2. QED
    BY <1>1, <2>1
<1>3. Min(loads) \in loads /\ \A y \in loads : Min(loads) <= y
  <2> HIDE DEF loads
  <2>1. QED
    BY <1>2, LeastNumber
<1>4. PICK p \in 1..Platforms : load[p] = Min(loads)
  BY <1>3
<1>5. p \in best
  BY <1>3, <1>4
<1>6. best \in SUBSET Nat /\ best # {} /\ best \subseteq 1..Platforms
  BY <1>5, Bounds
<1> HIDE DEF best
<1>7. Min(best) \in best
  BY <1>6, LeastNumber
<1>8. QED
  BY <1>6, <1>7 DEF best

LEMMA LeastLoadedHolds ==
  ASSUME NEW platforms, NEW lines, HoldsOnce(platforms, lines), NEW r \in RouteIds, r \notin lines
  PROVE  /\ HoldsOnce(AssignLeastLoaded(platforms, r), lines \cup {r})
         /\ OthersStay(platforms, AssignLeastLoaded(platforms, r), r)
<1>1. PICK load : load = [p \in 1..Platforms |-> Cardinality(platforms[p])]
  OBVIOUS
<1>2. PICK best : best = Min({p \in 1..Platforms : \A q \in 1..Platforms : load[p] <= load[q]})
  OBVIOUS
<1>3. best \in 1..Platforms
  BY <1>1, <1>2, SomeLeastLoaded DEF HoldsOnce
<1>4. PICK after : after = AssignLeastLoaded(platforms, r)
  OBVIOUS
<1>5. after = [platforms EXCEPT ![best] = @ \cup {r}]
  BY <1>1, <1>2, <1>4 DEF AssignLeastLoaded
<1>6. /\ after \in [1..Platforms -> SUBSET RouteIds]
      /\ \A p \in 1..Platforms : after[p] = IF p = best THEN platforms[p] \cup {r} ELSE platforms[p]
  BY <1>3, <1>5 DEF HoldsOnce
<1>7. \A p \in 1..Platforms : r \notin platforms[p]
  BY DEF HoldsOnce
<1>8. \A p, q \in 1..Platforms : p # q => after[p] \cap after[q] = {}
  BY <1>6, <1>7 DEF HoldsOnce
<1>9. \A q \in RouteIds : q \in lines \cup {r} <=> \E p \in 1..Platforms : q \in after[p]
  BY <1>3, <1>6 DEF HoldsOnce
<1>10. HoldsOnce(after, lines \cup {r})
  BY <1>6, <1>8, <1>9 DEF HoldsOnce
<1>11. OthersStay(platforms, after, r)
  BY <1>6 DEF OthersStay
<1>12. QED
  BY <1>4, <1>10, <1>11

LEMMA StripHolds ==
  ASSUME NEW platforms, NEW lines, HoldsOnce(platforms, lines), NEW r \in RouteIds
  PROVE  /\ HoldsOnce(Strip(platforms, r), lines \ {r})
         /\ OthersStay(platforms, Strip(platforms, r), r)
<1>1. PICK after : after = Strip(platforms, r)
  OBVIOUS
<1>2. /\ after \in [1..Platforms -> SUBSET RouteIds]
      /\ \A p \in 1..Platforms : after[p] = platforms[p] \ {r}
  BY <1>1 DEF Strip, HoldsOnce
<1>3. \A p, q \in 1..Platforms : p # q => after[p] \cap after[q] = {}
  BY <1>2 DEF HoldsOnce
<1>4. \A q \in RouteIds : q \in lines \ {r} <=> \E p \in 1..Platforms : q \in after[p]
  BY <1>2 DEF HoldsOnce
<1>5. HoldsOnce(after, lines \ {r})
  BY <1>2, <1>3, <1>4 DEF HoldsOnce
<1>6. OthersStay(platforms, after, r)
  BY <1>2 DEF OthersStay
<1>7. QED
  BY <1>1, <1>5, <1>6

LEMMA MovedHolds ==
  ASSUME NEW platforms, NEW lines, HoldsOnce(platforms, lines), NEW r \in lines, NEW p \in 1..Platforms,
         NEW after, after = OnPlatform(platforms, r, p)
  PROVE  HoldsOnce(after, lines) /\ OthersStay(platforms, after, r)
<1>1. r \in RouteIds
  BY DEF HoldsOnce
<1>2. PICK stripped : stripped = Strip(platforms, r)
  OBVIOUS
<1>3. HoldsOnce(stripped, lines \ {r}) /\ OthersStay(platforms, stripped, r)
  BY <1>1, <1>2, StripHolds
<1>4. /\ after \in [1..Platforms -> SUBSET RouteIds]
      /\ \A q \in 1..Platforms : after[q] = IF q = p THEN stripped[q] \cup {r} ELSE stripped[q]
  BY <1>1, <1>2, <1>3 DEF HoldsOnce, OnPlatform
<1>5. \A q \in 1..Platforms : r \notin stripped[q]
  BY <1>1, <1>3 DEF HoldsOnce
<1>6. \A q, x \in 1..Platforms : q # x => after[q] \cap after[x] = {}
  BY <1>3, <1>4, <1>5 DEF HoldsOnce
<1>7. \A q \in RouteIds : q \in lines <=> \E x \in 1..Platforms : q \in after[x]
  <2>1. TAKE q \in RouteIds
  <2>2. CASE q = r
    BY <1>4, <2>2
  <2>3. CASE q # r
    <3>1. q \in lines <=> \E x \in 1..Platforms : q \in stripped[x]
      BY <1>3, <2>3 DEF HoldsOnce
    <3>2. \A x \in 1..Platforms : q \in after[x] <=> q \in stripped[x]
      BY <1>4, <2>3
    <3>3. QED
      BY <3>1, <3>2
  <2>4. QED
    BY <2>2, <2>3
<1>8. OthersStay(platforms, after, r)
  BY <1>3, <1>4 DEF OthersStay
<1>9. lines \subseteq RouteIds
  BY DEF HoldsOnce
<1>10. QED
  BY <1>4, <1>6, <1>7, <1>8, <1>9 DEF HoldsOnce

\* apply_route_platform_delta: the stops of the line hold it once, the others not at all.
LEMMA DeltaHolds ==
  ASSUME NEW c \in City, PlatformsFit(c), NEW r \in RouteIds, NEW old \in SUBSET Stops, NEW new \in SUBSET Stops,
         \A s \in Stops : r \in Through(c, s) <=> s \in old,
         NEW f, f = PlatformDelta(c, r, old, new)
  PROVE  /\ f \in [Stops -> [1..Platforms -> SUBSET RouteIds]]
         /\ \A s \in Stops : /\ HoldsOnce(f[s], IF s \in new THEN Through(c, s) \cup {r} ELSE Through(c, s) \ {r})
                             /\ OthersStay(c.platforms[s], f[s], r)
<1>1. ASSUME NEW s \in Stops
      PROVE  /\ HoldsOnce(f[s], IF s \in new THEN Through(c, s) \cup {r} ELSE Through(c, s) \ {r})
             /\ OthersStay(c.platforms[s], f[s], r)
  <2>1. PICK before, lines : before = c.platforms[s] /\ lines = Through(c, s)
    OBVIOUS
  <2>2. HoldsOnce(before, lines) /\ (r \in lines <=> s \in old)
    BY <2>1, LoadedAndHeld DEF PlatformsFit
  <2>3. f[s] = IF s \in old \ new THEN Strip(before, r)
               ELSE IF s \in new \ old THEN AssignLeastLoaded(before, r) ELSE before
    BY <2>1 DEF PlatformDelta
  <2>4. CASE s \in old \ new
    BY <2>1, <2>2, <2>3, <2>4, StripHolds
  <2>5. CASE s \in new \ old
    BY <2>1, <2>2, <2>3, <2>5, LeastLoadedHolds
  <2>6. CASE s \notin old \ new /\ s \notin new \ old
    <3>1. f[s] = before
      BY <2>3, <2>6
    <3>2. lines = IF s \in new THEN lines \cup {r} ELSE lines \ {r}
      BY <2>2, <2>6
    <3>3. OthersStay(before, before, r)
      BY DEF OthersStay
    <3>4. QED
      BY <2>1, <2>2, <3>1, <3>2, <3>3
  <2>7. QED
    BY <2>4, <2>5, <2>6
<1>2. \A s \in Stops : f[s] \in [1..Platforms -> SUBSET RouteIds]
  BY <1>1 DEF HoldsOnce
<1>3. f = [s \in Stops |-> f[s]]
  BY DEF PlatformDelta
<1>4. QED
  BY <1>1, <1>2, <1>3

OthersStayPut(c, d, r) == \A s \in Stops : OthersStay(c.platforms[s], d.platforms[s], r)

LEMMA AssignmentsStay ==
  ASSUME NEW c, NEW d, NEW r, OthersStayPut(c, d, r),
         NEW q \in RouteIds, q # r
  PROVE  Assignments(d, q) = Assignments(c, q)
<1>1. \A s \in Stops, p \in 1..Platforms : q \in d.platforms[s][p] <=> q \in c.platforms[s][p]
  BY DEF OthersStay, OthersStayPut
<1>2. \A a \in Stops \X (1..Platforms) : q \in d.platforms[a[1]][a[2]] <=> q \in c.platforms[a[1]][a[2]]
  BY <1>1
<1>3. QED
  BY <1>2 DEF Assignments

\* garbage_collect_missing_nodes leaves lines and platforms alone.
LEMMA CollectFits ==
  ASSUME NEW c \in City, LinesFit(c), StopsFit(c), PlatformsFit(c), BusesFit(c),
         NEW d, d = GarbageCollect(c)
  PROVE  CityFits(d) /\ d.routes = c.routes /\ d.platforms = c.platforms
<1> DEFINE gone == {s \in Stops : c.stops[s] = "missing" /\ Through(c, s) = {}}
           stops == [s \in Stops |-> IF s \in gone THEN "none" ELSE c.stops[s]]
           platforms == [s \in Stops |-> IF s \in gone THEN BareStop ELSE c.platforms[s]]
<1>1. d = [c EXCEPT !.stops = stops, !.platforms = platforms]
  BY DEF GarbageCollect
<1>2. stops \in [Stops -> {"present", "missing", "none"}]
  BY DEF City
<1>3. platforms = c.platforms
  <2>1. ASSUME NEW s \in gone
        PROVE  c.platforms[s] = BareStop
    <3>1. PICK f : f = c.platforms[s]
      OBVIOUS
    <3>2. HoldsOnce(f, {})
      <4>1. Through(c, s) = {} /\ s \in Stops
        OBVIOUS
      <4>2. HoldsOnce(f, Through(c, s))
        BY <3>1, <4>1, LoadedAndHeld DEF PlatformsFit
      <4>3. QED
        BY <4>1, <4>2
    <3>3. f \in [1..Platforms -> SUBSET RouteIds] /\ \A p \in 1..Platforms : f[p] = {}
      BY <3>2 DEF HoldsOnce
    <3>4. QED
      BY <3>1, <3>3 DEF BareStop
  <2>2. c.platforms \in [Stops -> [1..Platforms -> SUBSET RouteIds]]
    BY DEF City
  <2>3. \A s \in Stops : platforms[s] = c.platforms[s]
    BY <2>1
  <2> HIDE DEF gone
  <2>4. QED
    BY <2>2, <2>3
<1>4. \A s \in Stops : stops[s] = IF s \in gone THEN "none" ELSE c.stops[s]
  OBVIOUS
<1>5. \A s \in Stops : s \in gone <=> c.stops[s] = "missing" /\ Through(c, s) = {}
  OBVIOUS
<1> HIDE DEF stops, platforms, gone
<1>6. /\ d \in City /\ d.routes = c.routes /\ d.buses = c.buses /\ d.network = c.network
      /\ d.stops = stops /\ d.platforms = c.platforms
  BY <1>1, <1>2, <1>3 DEF City
<1>7. SameOffer(c, d)
  BY <1>4, <1>5, <1>6 DEF SameOffer
<1>8. LinesFit(d) /\ Lines(d) = Lines(c)
  BY <1>6, <1>7, LinesFitSame
<1>9. \A s : Through(d, s) = Through(c, s)
  BY <1>6, <1>8 DEF Through
<1>10. StopsFit(d)
  <2>1. SUFFICES ASSUME NEW r \in Lines(c), NEW s \in Range(c.routes[r].waypoints)
                 PROVE  stops[s] # "none"
    BY <1>6, <1>8 DEF StopsFit
  <2>2. s \in Stops /\ c.stops[s] # "none" /\ r \in Through(c, s)
    BY LineFacts DEF StopsFit, Through
  <2>3. QED
    BY <1>4, <1>5, <2>2
<1>11. NodesFit(d)
  BY <1>4, <1>5, <1>6, <1>9 DEF NodesFit, NodeLifetimeLoads
<1>12. PlatformsFit(d)
  BY <1>6, <1>9 DEF PlatformsFit, PlatformsLoad
<1>13. BusesFit(d)
  <2>1. SUFFICES ASSUME NEW b \in BusIds, c.buses[b] # None
                 PROVE  BusFits(d, c.buses[b])
    BY <1>6 DEF BusesFit
  <2>2. PICK v : v = c.buses[b]
    OBVIOUS
  <2>3. BusFits(c, v) /\ v.route \in Lines(c)
    BY <2>1, <2>2 DEF BusesFit, BusFits, LegLoads
  <2>4. ProperLegs(c, c.routes[v.route])
    BY <2>3, LineFacts
  <2>5. v.route \in Lines(d) /\ d.routes[v.route] = c.routes[v.route]
    BY <1>6, <1>8, <2>3
  <2>6. QED
    BY <1>7, <2>2, <2>3, <2>4, <2>5, BusFitsSame
<1>14. QED
  BY <1>6, <1>8, <1>10, <1>11, <1>12, <1>13 DEF CityFits

-----------------------------------------------------------------------------
(* A line is put in place.                                                  *)

\* The city with this line, on these platforms.
WithLine(prev, c, r, route) ==
  /\ prev \in City /\ c \in City /\ r \in RouteIds /\ route \in Route
  /\ c.network = prev.network /\ c.stops = prev.stops
  /\ c.routes = [prev.routes EXCEPT ![r] = route]

LEMMA WithLineFacts ==
  ASSUME NEW prev, NEW c, NEW r, NEW route, WithLine(prev, c, r, route)
  PROVE  /\ SameOffer(prev, c) /\ Lines(c) = Lines(prev) \cup {r}
         /\ c.routes[r] = route /\ \A q \in RouteIds \ {r} : c.routes[q] = prev.routes[q]
         /\ \A s : Through(c, s) = IF s \in Range(route.waypoints) THEN Through(prev, s) \cup {r}
                                   ELSE Through(prev, s) \ {r}
<1>1. SameOffer(prev, c)
  BY DEF WithLine, SameOffer
<1>2. c.routes[r] = route /\ \A q \in RouteIds \ {r} : c.routes[q] = prev.routes[q]
  BY DEF WithLine, City
<1>3. route # None /\ r \in RouteIds
  BY NoneIsNothing DEF WithLine
<1>4. Lines(c) = Lines(prev) \cup {r}
  BY <1>2, <1>3 DEF Lines
<1>5. ASSUME NEW s
      PROVE  Through(c, s) = IF s \in Range(route.waypoints) THEN Through(prev, s) \cup {r}
                             ELSE Through(prev, s) \ {r}
  <2>1. \A q \in RouteIds : q \in Through(c, s) <=> q \in Lines(c) /\ s \in Range(c.routes[q].waypoints)
    BY DEF Through
  <2>2. \A q \in RouteIds : q \in Through(prev, s) <=> q \in Lines(prev) /\ s \in Range(prev.routes[q].waypoints)
    BY DEF Through
  <2>3. Through(c, s) \subseteq RouteIds /\ Through(prev, s) \subseteq RouteIds
    BY DEF Through, Lines
  <2>4. QED
    BY <1>2, <1>3, <1>4, <2>1, <2>2, <2>3
<1>6. QED
  BY <1>1, <1>2, <1>4, <1>5

LEMMA WithLineFits ==
  ASSUME NEW prev, NEW c, NEW r, NEW route, WithLine(prev, c, r, route), LinesFit(prev), StopsFit(prev),
         Itinerary(route.waypoints), route.revision <= MaxRevision,
         NEW old \in Seq(Leg), Derived(prev, route, old),
         \A s \in Range(route.waypoints) : prev.stops[s] # "none"
  PROVE  LinesFit(c) /\ StopsFit(c)
<1>1. /\ prev \in City /\ c \in City /\ r \in RouteIds /\ route \in Route /\ c.stops = prev.stops
  BY DEF WithLine
<1>2. /\ SameOffer(prev, c) /\ Lines(c) = Lines(prev) \cup {r}
      /\ c.routes[r] = route /\ \A q \in RouteIds \ {r} : c.routes[q] = prev.routes[q]
  BY WithLineFacts
<1>3. FollowsNetwork(c, r)
  <2>1. route.pattern \in Patterns
    BY <1>1 DEF Route
  <2>2. ResolveRouteLegs(prev, route.pattern, route.waypoints) = ResolveRouteLegs(c, route.pattern, route.waypoints)
    BY <1>1, <1>2, <2>1, SameResolved
  <2>3. route.legs = MergeResolvedLegs(route.legs, ResolveRouteLegs(prev, route.pattern, route.waypoints))
    BY <1>1, DerivedFollows
  <2>4. QED
    BY <1>2, <2>2, <2>3 DEF FollowsNetwork
<1>4. ASSUME NEW q \in Lines(c), q # r
      PROVE  /\ Itinerary(c.routes[q].waypoints) /\ c.routes[q].revision <= MaxRevision /\ FollowsNetwork(c, q)
             /\ \A s \in Range(c.routes[q].waypoints) : c.stops[s] # "none"
  <2>1. q \in Lines(prev) /\ c.routes[q] = prev.routes[q]
    BY <1>2, <1>4 DEF Lines
  <2>2. /\ Itinerary(prev.routes[q].waypoints) /\ prev.routes[q].revision <= MaxRevision
        /\ FollowsNetwork(prev, q) /\ \A s \in Range(prev.routes[q].waypoints) : prev.stops[s] # "none"
    BY <2>1 DEF LinesFit, StopsFit
  <2>3. FollowsNetwork(c, q)
    BY <1>1, <1>2, <1>4, <2>1, <2>2, FollowsSame
  <2>4. QED
    BY <1>1, <2>1, <2>2, <2>3
<1>5. LinesFit(c)
  BY <1>2, <1>3, <1>4 DEF LinesFit
<1>6. StopsFit(c)
  BY <1>1, <1>2, <1>4 DEF StopsFit
<1>7. QED
  BY <1>5, <1>6

\* A bus of another line is not concerned.
LEMMA OtherBusFits ==
  ASSUME NEW prev, NEW c, NEW r, NEW route, WithLine(prev, c, r, route), LinesFit(prev),
         NEW v \in Bus, BusFits(prev, v), v.route # r
  PROVE  BusFits(c, v)
<1>1. v.route \in Lines(prev) /\ prev \in City
  BY DEF BusFits, LegLoads, WithLine
<1>2. ProperLegs(prev, prev.routes[v.route])
  BY <1>1, LineFacts
<1>3. SameOffer(prev, c) /\ v.route \in Lines(c) /\ c.routes[v.route] = prev.routes[v.route]
  <2>1. v.route \in RouteIds
    BY DEF Bus
  <2>2. QED
    BY <1>1, <2>1, WithLineFacts
<1>4. QED
  BY <1>2, <1>3, BusFitsSame

LEMMA GreatestNumber ==
  ASSUME NEW n \in Nat, NEW T \in SUBSET (0..n), T # {}
  PROVE  Max(T) \in T /\ \A y \in T : Max(T) >= y
<1> DEFINE below == {n - x : x \in T}
<1>1. below \in SUBSET Nat /\ below # {}
  <2>1. \A x \in T : x \in Int /\ x <= n
    OBVIOUS
  <2>2. \A x \in T : n - x \in Nat
    BY <2>1
  <2>3. QED
    BY <2>2
<1>2. Min(below) \in below /\ \A y \in below : Min(below) <= y
  <2> HIDE DEF below
  <2>1. QED
    BY <1>1, LeastNumber
<1>3. PICK x \in T : Min(below) = n - x
  BY <1>2
<1>4. \A y \in T : x >= y
  <2>1. TAKE y \in T
  <2>2. n - y \in below
    OBVIOUS
  <2>3. n - x <= n - y
    BY <1>2, <1>3, <2>2
  <2>4. x \in Int /\ y \in Int
    OBVIOUS
  <2>5. QED
    BY <2>3, <2>4
<1>5. QED
  BY <1>3, <1>4 DEF Max

\* The buses are what a save asks for, and the rest is as it was.
LEMMA OnlyBusesFit ==
  ASSUME NEW prev, CityFits(prev), NEW g \in [BusIds -> Bus \cup {None}],
         \A b \in BusIds : g[b] # None => BusFits(prev, g[b]),
         NEW c, c = [prev EXCEPT !.buses = g]
  PROVE  CityFits(c) /\ CountedUp(prev, c)
<1>1. /\ prev \in City /\ LinesFit(prev) /\ StopsFit(prev) /\ NodesFit(prev) /\ PlatformsFit(prev)
  BY DEF CityFits
<1>2. /\ c \in City /\ c.network = prev.network /\ c.stops = prev.stops /\ c.platforms = prev.platforms
      /\ c.routes = prev.routes /\ c.buses = g
  BY <1>1 DEF City
<1>3. SameOffer(prev, c)
  BY <1>2 DEF SameOffer
<1>4. LinesFit(c) /\ Lines(c) = Lines(prev)
  BY <1>1, <1>2, <1>3, LinesFitSame
<1>5. StopsFit(c) /\ NodesFit(c) /\ PlatformsFit(c)
  BY <1>1, <1>2, <1>4, SameLines
<1>6. BusesFit(c)
  <2>1. SUFFICES ASSUME NEW b \in BusIds, g[b] # None
                 PROVE  BusFits(c, g[b])
    BY <1>2 DEF BusesFit
  <2>2. PICK v : v = g[b]
    OBVIOUS
  <2>3. BusFits(prev, v) /\ v.route \in Lines(prev)
    BY <2>1, <2>2 DEF BusFits, LegLoads
  <2>4. ProperLegs(prev, prev.routes[v.route])
    BY <1>1, <2>3, LineFacts
  <2>5. QED
    BY <1>2, <1>3, <1>4, <2>2, <2>3, <2>4, BusFitsSame
<1>7. CountedUp(prev, c)
  <2>1. \A r \in Lines(prev) : prev.routes[r].revision \in Nat
    BY <1>1, LineFacts DEF Route
  <2>2. \A r : Structure(c, r) = Structure(prev, r)
    BY <1>2, SameStructure
  <2>3. QED
    BY <1>2, <1>4, <2>1, <2>2 DEF CountedUp
<1>8. QED
  BY <1>2, <1>4, <1>5, <1>6, <1>7 DEF CityFits

\* A line that keeps its stops and legs: what a bus does there does not change.
LEMMA SameVisitsFit ==
  ASSUME NEW prev, CityFits(prev), NEW c, NEW r \in Lines(prev), NEW route, WithLine(prev, c, r, route),
         route.waypoints = prev.routes[r].waypoints, route.pattern = prev.routes[r].pattern,
         route.legs = prev.routes[r].legs, route.revision <= MaxRevision,
         c.buses = prev.buses, PlatformsFit(c)
  PROVE  CityFits(c) /\ Lines(c) = Lines(prev)
<1>1. /\ prev \in City /\ LinesFit(prev) /\ StopsFit(prev) /\ NodesFit(prev) /\ BusesFit(prev)
  BY DEF CityFits
<1>2. /\ c \in City /\ route \in Route /\ c.stops = prev.stops
  BY DEF WithLine
<1>3. /\ SameOffer(prev, c) /\ Lines(c) = Lines(prev)
      /\ c.routes[r] = route /\ \A q \in RouteIds \ {r} : c.routes[q] = prev.routes[q]
  BY WithLineFacts
<1>4. \A q \in Lines(prev) : /\ c.routes[q].waypoints = prev.routes[q].waypoints
                            /\ c.routes[q].legs = prev.routes[q].legs
  BY <1>3 DEF Lines
<1>5. /\ Itinerary(prev.routes[r].waypoints) /\ prev.routes[r] \in Route
      /\ FollowsNetwork(prev, r) /\ \A s \in Range(prev.routes[r].waypoints) : prev.stops[s] # "none"
  BY <1>1, LineFacts DEF LinesFit, StopsFit
<1>6. LinesFit(c) /\ StopsFit(c)
  <2>1. prev.routes[r].legs \in Seq(Leg)
    BY <1>5 DEF Route
  <2>2. Derived(prev, route, prev.routes[r].legs)
    BY <1>5 DEF Derived, FollowsNetwork
  <2>3. QED
    BY <1>1, <1>5, <2>1, <2>2, WithLineFits
<1>7. NodesFit(c)
  BY <1>1, <1>2, <1>3, <1>4, SameLines
<1>8. BusesFit(c)
  <2>1. SUFFICES ASSUME NEW b \in BusIds, prev.buses[b] # None
                 PROVE  BusFits(c, prev.buses[b])
    BY DEF BusesFit
  <2>2. PICK v : v = prev.buses[b]
    OBVIOUS
  <2>3. BusFits(prev, v) /\ v.route \in Lines(prev)
    BY <1>1, <2>1, <2>2 DEF BusesFit, BusFits, LegLoads
  <2>4. ProperLegs(prev, prev.routes[v.route])
    BY <1>1, <2>3, LineFacts
  <2>5. QED
    BY <1>3, <1>4, <2>2, <2>3, <2>4, BusFitsSame
<1>9. QED
  BY <1>2, <1>3, <1>6, <1>7, <1>8 DEF CityFits

-----------------------------------------------------------------------------
(* What the player does to a line.                                          *)

LEMMA SetRouteActiveFits ==
  ASSUME IInv, NEW r \in RouteIds, SetRouteActive(r)
  PROVE  IInv'
<1>1. PICK prev : prev = city
  OBVIOUS
<1>2. CityFits(prev) /\ DraftFits(prev, draft) /\ prev \in City /\ LinesFit(prev) /\ r \in Lines(prev)
  BY <1>1 DEF IInv, CityFits, SetRouteActive
<1>3. PICK active \in BOOLEAN : active = ~prev.routes[r].active
  <2>1. prev.routes[r].active \in BOOLEAN
    BY <1>2, LineFacts DEF Route
  <2>2. CASE prev.routes[r].active = TRUE
    BY <2>2
  <2>3. CASE prev.routes[r].active = FALSE
    BY <2>3
  <2>4. QED
    BY <2>1, <2>2, <2>3
<1>4. PICK c, route : /\ route = [prev.routes[r] EXCEPT !.active = active]
                      /\ c = [prev EXCEPT !.routes = [@ EXCEPT ![r] = route]]
  OBVIOUS
<1>5. city' = c /\ draft' = draft
  BY <1>1, <1>3, <1>4 DEF SetRouteActive
<1>6. prev.routes[r] \in Route
  BY <1>2, LineFacts
<1>7. /\ route \in Route /\ route.waypoints = prev.routes[r].waypoints /\ route.pattern = prev.routes[r].pattern
      /\ route.legs = prev.routes[r].legs /\ route.revision = prev.routes[r].revision
  BY <1>4, <1>6 DEF Route
<1>8. /\ c \in City /\ c.routes = [prev.routes EXCEPT ![r] = route] /\ c.network = prev.network
      /\ c.stops = prev.stops /\ c.platforms = prev.platforms /\ c.buses = prev.buses
  BY <1>2, <1>4, <1>7 DEF City
<1>9. WithLine(prev, c, r, route)
  BY <1>2, <1>7, <1>8 DEF WithLine
<1>10. /\ Lines(c) = Lines(prev) /\ c.routes[r] = route
       /\ \A q \in RouteIds \ {r} : c.routes[q] = prev.routes[q]
  <2>1. /\ Lines(c) = Lines(prev) \cup {r} /\ c.routes[r] = route
        /\ \A q \in RouteIds \ {r} : c.routes[q] = prev.routes[q]
    BY <1>9, WithLineFacts
  <2>2. QED
    BY <1>2, <2>1
<1>11. PlatformsFit(c)
  <2>1. \A q \in Lines(prev) : prev.routes[q].waypoints = c.routes[q].waypoints
    BY <1>7, <1>10 DEF Lines
  <2>2. PlatformsFit(prev)
    BY <1>2 DEF CityFits
  <2>3. QED
    BY <1>8, <1>10, <2>1, <2>2, SameLines
<1>12. CityFits(c)
  <2>1. route.revision <= MaxRevision
    BY <1>2, <1>7, LineFacts
  <2>2. QED
    BY <1>2, <1>7, <1>8, <1>9, <1>11, <2>1, SameVisitsFit
<1>13. CountedUp(prev, c)
  <2>1. SUFFICES ASSUME NEW q \in Lines(prev)
                 PROVE  /\ c.routes[q].revision \in Nat /\ prev.routes[q].revision <= c.routes[q].revision
                        /\ Structure(c, q) = Structure(prev, q)
    BY <1>10 DEF CountedUp
  <2>2. /\ c.routes[q].waypoints = prev.routes[q].waypoints /\ c.routes[q].pattern = prev.routes[q].pattern
        /\ c.routes[q].legs = prev.routes[q].legs /\ c.routes[q].revision = prev.routes[q].revision
    BY <1>7, <1>10, <2>1 DEF Lines
  <2>3. prev.routes[q].revision \in Nat
    BY <1>2, LineFacts DEF Route
  <2>4. Structure(c, q) = Structure(prev, q)
    BY <1>8, <2>2, SameStructure
  <2>5. QED
    BY <2>2, <2>3, <2>4
<1>14. DraftFits(c, draft)
  BY <1>2, <1>13, DraftStays
<1>15. QED
  BY <1>5, <1>12, <1>14 DEF IInv

LEMMA AssignRouteToPlatformFits ==
  ASSUME IInv, NEW s \in Stops, NEW r \in RouteIds, NEW p \in 1..Platforms, AssignRouteToPlatform(s, r, p)
  PROVE  IInv'
<1>1. PICK prev : prev = city
  OBVIOUS
<1>2. /\ CityFits(prev) /\ DraftFits(prev, draft) /\ prev \in City /\ LinesFit(prev) /\ PlatformsFit(prev)
      /\ r \in Lines(prev) /\ prev.routes[r].revision < MaxRevision
      /\ \E q \in 1..Platforms : r \in prev.platforms[s][q]
  BY <1>1 DEF IInv, CityFits, AssignRouteToPlatform
<1>3. /\ prev.routes[r] \in Route /\ prev.routes[r].revision \in Nat
      /\ prev.platforms \in [Stops -> [1..Platforms -> SUBSET RouteIds]]
  <2>1. prev.routes[r] \in Route
    BY <1>2, LineFacts
  <2>2. QED
    BY <1>2, <2>1 DEF City, Route
<1>4. PICK at : at = OnPlatform(prev.platforms[s], r, p)
  OBVIOUS
<1>5. PICK f, route, c : /\ f = [prev.platforms EXCEPT ![s] = at]
                         /\ route = [prev.routes[r] EXCEPT !.revision = prev.routes[r].revision + 1]
                         /\ c = [prev EXCEPT !.platforms = f, !.routes = [@ EXCEPT ![r] = route]]
  OBVIOUS
<1>6. city' = c /\ draft' = draft
  <2>1. city' = [prev EXCEPT !.platforms[s] = at, !.routes[r].revision = @ + 1]
    BY <1>1, <1>4 DEF AssignRouteToPlatform
  <2>2. city' = [prev EXCEPT !.platforms = f, !.routes = [@ EXCEPT ![r] = route]]
    BY <1>2, <1>5, <2>1 DEF City
  <2>3. QED
    BY <1>5, <2>2 DEF AssignRouteToPlatform
<1>7. HoldsOnce(at, Through(prev, s)) /\ OthersStay(prev.platforms[s], at, r)
  <2>1. PICK before, lines : before = prev.platforms[s] /\ lines = Through(prev, s)
    OBVIOUS
  <2>2. HoldsOnce(before, lines)
    BY <1>2, <2>1, LoadedAndHeld DEF PlatformsFit
  <2>3. r \in lines
    BY <1>2, <2>1, <2>2 DEF HoldsOnce
  <2>4. at = OnPlatform(before, r, p)
    BY <1>4, <2>1
  <2>5. HoldsOnce(at, lines) /\ OthersStay(before, at, r)
    BY <2>2, <2>3, <2>4, MovedHolds
  <2>6. QED
    BY <2>1, <2>5
<1>8. /\ f \in [Stops -> [1..Platforms -> SUBSET RouteIds]]
      /\ f[s] = at /\ \A t \in Stops \ {s} : f[t] = prev.platforms[t]
  <2>1. at \in [1..Platforms -> SUBSET RouteIds]
    BY <1>7 DEF HoldsOnce
  <2>2. QED
    BY <1>3, <1>5, <2>1
<1>9. /\ route \in Route /\ route.waypoints = prev.routes[r].waypoints /\ route.pattern = prev.routes[r].pattern
      /\ route.legs = prev.routes[r].legs /\ route.revision = prev.routes[r].revision + 1
  <2>1. PICK n \in Nat : n = prev.routes[r].revision + 1
    BY <1>3
  <2>2. route = [prev.routes[r] EXCEPT !.revision = n]
    BY <1>5, <2>1
  <2>3. QED
    BY <1>3, <2>1, <2>2 DEF Route
<1>10. /\ c \in City /\ c.routes = [prev.routes EXCEPT ![r] = route] /\ c.network = prev.network
       /\ c.stops = prev.stops /\ c.platforms = f /\ c.buses = prev.buses
  BY <1>2, <1>5, <1>8, <1>9 DEF City
<1>11. WithLine(prev, c, r, route)
  BY <1>2, <1>9, <1>10 DEF WithLine
<1>12. /\ Lines(c) = Lines(prev) /\ c.routes[r] = route
       /\ \A q \in RouteIds \ {r} : c.routes[q] = prev.routes[q]
  <2>1. /\ Lines(c) = Lines(prev) \cup {r} /\ c.routes[r] = route
        /\ \A q \in RouteIds \ {r} : c.routes[q] = prev.routes[q]
    BY <1>11, WithLineFacts
  <2>2. QED
    BY <1>2, <2>1
<1>13. \A t : Through(c, t) = Through(prev, t)
  <2>1. \A q \in Lines(prev) : prev.routes[q].waypoints = c.routes[q].waypoints
    BY <1>9, <1>12 DEF Lines
  <2>2. QED
    BY <1>12, <2>1, SameLines
<1>14. PlatformsFit(c)
  <2>1. SUFFICES ASSUME NEW t \in Stops
                 PROVE  PlatformsLoad(c, t)
    BY DEF PlatformsFit
  <2>2. CASE t = s
    <3>1. HoldsOnce(c.platforms[t], Through(c, t))
      BY <1>7, <1>8, <1>10, <1>13, <2>2
    <3>2. QED
      BY <1>10, <3>1, LoadedAndHeld
  <2>3. CASE t # s
    <3>1. c.platforms[t] = prev.platforms[t] /\ Through(c, t) = Through(prev, t)
      BY <1>8, <1>10, <1>13, <2>3
    <3>2. PlatformsLoad(prev, t)
      BY <1>2 DEF PlatformsFit
    <3>3. QED
      BY <3>1, <3>2 DEF PlatformsLoad
  <2>4. QED
    BY <2>2, <2>3
<1>15. CityFits(c)
  <2>1. route.revision <= MaxRevision
    BY <1>2, <1>3, <1>9, Bounds
  <2>2. QED
    BY <1>2, <1>9, <1>10, <1>11, <1>14, <2>1, SameVisitsFit
<1>16. CountedUp(prev, c)
  <2>1. ASSUME NEW q \in Lines(prev)
        PROVE  /\ c.routes[q].revision \in Nat /\ prev.routes[q].revision <= c.routes[q].revision
               /\ Structure(c, q) # Structure(prev, q) => prev.routes[q].revision < c.routes[q].revision
    <3>1. CASE q = r
      BY <1>3, <1>9, <1>12, <3>1
    <3>2. CASE q # r
      <4>1. q \in RouteIds /\ c.routes[q] = prev.routes[q]
        BY <1>12, <3>2 DEF Lines
      <4>2. OthersStayPut(prev, c, r)
        <5>1. \A t \in Stops \ {s} : c.platforms[t] = prev.platforms[t]
          BY <1>8, <1>10
        <5>2. c.platforms[s] = at
          BY <1>8, <1>10
        <5>3. QED
          BY <1>7, <5>1, <5>2 DEF OthersStay, OthersStayPut
      <4>3. Assignments(c, q) = Assignments(prev, q)
        BY <3>2, <4>1, <4>2, AssignmentsStay
      <4>4. Structure(c, q) = Structure(prev, q)
        BY <4>1, <4>3 DEF Structure
      <4>5. prev.routes[q].revision \in Nat
        BY <1>2, LineFacts DEF Route
      <4>6. QED
        BY <4>1, <4>4, <4>5
    <3>3. QED
      BY <3>1, <3>2
  <2>2. QED
    BY <1>12, <2>1 DEF CountedUp
<1>17. DraftFits(c, draft)
  BY <1>2, <1>16, DraftStays
<1>18. QED
  BY <1>6, <1>15, <1>17 DEF IInv

LEMMA OpenRouteEditFits ==
  ASSUME IInv, NEW r \in RouteIds, OpenRouteEdit(r)
  PROVE  IInv'
<1>1. PICK c, d : c = city /\ d = [line |-> r, revision |-> c.routes[r].revision, seen |-> Structure(c, r)]
  OBVIOUS
<1>2. city' = c /\ draft' = d /\ r \in Lines(c) /\ CityFits(c)
  BY <1>1 DEF OpenRouteEdit, IInv
<1>3. c.routes[r].revision \in Nat
  BY <1>2, LineFacts DEF CityFits, Route
<1>4. DraftFits(c, d)
  BY <1>1, <1>3 DEF DraftFits
<1>5. QED
  BY <1>2, <1>4 DEF IInv

\* What every change of the buses alone has in common.
LEMMA OnlyBusesChange ==
  ASSUME IInv, NEW g \in [BusIds -> Bus \cup {None}], \A b \in BusIds : g[b] # None => BusFits(city, g[b]),
         city' = [city EXCEPT !.buses = g], UNCHANGED draft
  PROVE  IInv'
<1>1. PICK prev, c : prev = city /\ c = [prev EXCEPT !.buses = g]
  OBVIOUS
<1>2. CityFits(prev) /\ DraftFits(prev, draft) /\ prev \in City
  BY <1>1 DEF IInv, CityFits
<1>3. CityFits(c) /\ CountedUp(prev, c)
  BY <1>1, <1>2, OnlyBusesFit
<1>4. DraftFits(c, draft)
  BY <1>2, <1>3, DraftStays
<1>5. city' = c /\ draft' = draft
  BY <1>1
<1>6. QED
  BY <1>3, <1>4, <1>5 DEF IInv

LEMMA AssignVehicleFits ==
  ASSUME IInv, NEW r \in RouteIds, NEW b \in BusIds, AssignVehicle(r, b)
  PROVE  IInv'
<1>1. PICK prev, v : /\ prev = city
                     /\ v = [route |-> r, leg |-> 1, step |-> 0, parked |-> "driving", stray |-> FALSE]
  OBVIOUS
<1>2. /\ prev \in City /\ LinesFit(prev) /\ BusesFit(prev) /\ r \in Lines(prev)
      /\ ~IsBroken(prev.routes[r].legs)
  BY <1>1 DEF IInv, CityFits, AssignVehicle, IsOperational
<1>3. PICK g : g = [prev.buses EXCEPT ![b] = v]
  OBVIOUS
<1>4. city' = [city EXCEPT !.buses = g] /\ UNCHANGED draft
  BY <1>1, <1>3 DEF AssignVehicle
<1>5. v \in Bus
  BY <1>1 DEF Bus, Places
<1>6. BusFits(prev, v)
  <2>1. ProperLegs(prev, prev.routes[r])
    BY <1>2, LineFacts
  <2>2. 1 \in 1..Len(prev.routes[r].legs) /\ prev.routes[r].legs[1] \in Leg
    <3>1. PICK legs : legs = prev.routes[r].legs
      OBVIOUS
    <3>2. legs \in Seq(Leg) /\ legs # <<>>
      BY <2>1, <3>1 DEF ProperLegs
    <3>3. 1 \in 1..Len(legs)
      BY <3>2
    <3>4. QED
      BY <3>1, <3>2, <3>3, ElementOfSeq
  <2>3. prev.routes[r].legs[1].path.steps \in Nat
    BY <2>2, WayFacts DEF Leg
  <2>4. v.route = r /\ v.leg = 1 /\ v.step = 0 /\ v.parked = "driving"
    BY <1>1
  <2>5. QED
    BY <1>2, <2>2, <2>3, <2>4 DEF BusFits, LegLoads, StepLoads, StandsRight
<1>7. /\ g \in [BusIds -> Bus \cup {None}]
      /\ \A a \in BusIds : g[a] # None => BusFits(prev, g[a])
  BY <1>2, <1>3, <1>5, <1>6 DEF City, BusesFit
<1>8. QED
  BY <1>1, <1>4, <1>7, OnlyBusesChange

\* advance_vehicle_by_seconds leaves the cursor at a step of a way of the line.
LEMMA AdvancedFits ==
  ASSUME NEW c \in City, LinesFit(c), NEW v \in Bus, BusFits(c, v), ~IsBroken(c.routes[v.route].legs),
         NEW w, w = [AdvanceCursor(c.routes[v.route].legs, v) EXCEPT !.parked = "driving"]
  PROVE  w \in Bus /\ BusFits(c, w)
<1>1. PICK r, legs : r = v.route /\ legs = c.routes[r].legs
  OBVIOUS
<1>2. r \in Lines(c) /\ v.leg \in 1..Len(legs) /\ v.step \in Nat /\ r \in RouteIds
  BY <1>1 DEF BusFits, LegLoads, Bus
<1>3. legs \in Seq(Leg)
  BY <1>1, <1>2, LineFacts DEF ProperLegs
<1>4. Len(legs) \in Nat /\ v.leg \in Nat /\ \A i \in 1..Len(legs) : legs[i].path.steps \in Nat
  <2>1. \A i \in 1..Len(legs) : legs[i] \in Leg
    BY <1>3, ElementOfSeq
  <2>2. \A i \in 1..Len(legs) : legs[i].path \in Ways
    BY <2>1 DEF Leg
  <2>3. QED
    BY <1>2, <1>3, <2>2, WayFacts
<1>5. PICK steps : steps = legs[v.leg].path.steps
  OBVIOUS
<1>6. "driving" \in Places
  BY DEF Places
<1>7. ASSUME NEW leg \in 1..Len(legs), NEW step \in Nat, step = 0 \/ step < legs[leg].path.steps,
             w = [v EXCEPT !.stray = FALSE, !.step = step, !.leg = leg, !.parked = "driving"]
      PROVE  w \in Bus /\ BusFits(c, w)
  <2>1. legs[leg].path.steps \in Nat /\ leg \in Nat \ {0}
    BY <1>4
  <2>2. w \in Bus /\ w.route = r /\ w.leg = leg /\ w.step = step /\ w.parked = "driving"
    BY <1>1, <1>6, <1>7, <2>1 DEF Bus
  <2>3. LegLoads(c, w)
    BY <1>1, <1>2, <2>2 DEF LegLoads
  <2>4. StepLoads(c, w)
    <3>1. c.routes[w.route].legs[w.leg].path.steps = legs[leg].path.steps
      BY <1>1, <2>2
    <3>2. PICK k \in Nat : k = legs[leg].path.steps
      BY <2>1
    <3>3. k = 0 => step = 0
      BY <1>7, <3>2
    <3>4. k # 0 => step < k
      BY <1>7, <3>2
    <3>5. QED
      BY <2>2, <3>1, <3>2, <3>3, <3>4 DEF StepLoads
  <2>5. QED
    BY <1>1, <2>2, <2>3, <2>4 DEF BusFits, StandsRight
<1>8. w = [(IF steps > 0 /\ v.step >= steps THEN [v EXCEPT !.stray = FALSE, !.step = 0]
            ELSE IF v.step + 1 < steps THEN [v EXCEPT !.stray = FALSE, !.step = v.step + 1]
            ELSE [v EXCEPT !.stray = FALSE, !.step = 0, !.leg = (v.leg % Len(legs)) + 1]) EXCEPT !.parked = "driving"]
  BY <1>1, <1>5 DEF AdvanceCursor, Bus
<1>9. CASE steps > 0 /\ v.step >= steps
  <2>1. w = [v EXCEPT !.stray = FALSE, !.step = 0, !.leg = v.leg, !.parked = "driving"]
    BY <1>8, <1>9 DEF Bus
  <2>2. QED
    BY <1>2, <1>7, <2>1
<1>10. CASE ~(steps > 0 /\ v.step >= steps) /\ v.step + 1 < steps
  <2>1. v.step + 1 \in Nat
    BY <1>2
  <2>2. w = [v EXCEPT !.stray = FALSE, !.step = v.step + 1, !.leg = v.leg, !.parked = "driving"]
    BY <1>8, <1>10 DEF Bus
  <2>3. QED
    BY <1>2, <1>5, <1>7, <1>10, <2>1, <2>2
<1>11. CASE ~(steps > 0 /\ v.step >= steps) /\ ~(v.step + 1 < steps)
  <2>1. PICK n : n = (v.leg % Len(legs)) + 1
    OBVIOUS
  <2>2. n \in 1..Len(legs)
    <3>1. Len(legs) > 0 /\ v.leg \in Int
      BY <1>2, <1>4
    <3>2. v.leg % Len(legs) \in 0..(Len(legs) - 1)
      BY <1>4, <3>1
    <3>3. QED
      BY <1>4, <2>1, <3>2
  <2>3. w = [v EXCEPT !.stray = FALSE, !.step = 0, !.leg = n, !.parked = "driving"]
    BY <1>8, <1>11, <2>1 DEF Bus
  <2>4. QED
    BY <1>7, <2>2, <2>3
<1>12. QED
  BY <1>9, <1>10, <1>11

LEMMA DepartedFits ==
  ASSUME NEW c \in City, NEW v \in Bus, BusFits(c, v), ~IsBroken(c.routes[v.route].legs),
         NEW w, w = [v EXCEPT !.parked = "driving"]
  PROVE  w \in Bus /\ BusFits(c, w)
<1>1. "driving" \in Places
  BY DEF Places
<1>2. w \in Bus /\ w.route = v.route /\ w.leg = v.leg /\ w.step = v.step /\ w.parked = "driving"
  BY <1>1 DEF Bus
<1>3. w.stray <=> v.stray
  BY DEF Bus
<1>4. QED
  BY <1>2, <1>3 DEF BusFits, LegLoads, StepLoads, StandsRight

LEMMA TickVehiclesFits ==
  ASSUME IInv, TickVehicles
  PROVE  IInv'
<1>1. city \in City /\ LinesFit(city) /\ BusesFit(city)
  BY DEF IInv, CityFits
<1> DEFINE running == {b \in BusIds : city.buses[b] # None /\ IsOperational(city.routes[city.buses[b].route])}
           Driven(b) == [AdvanceCursor(city.routes[city.buses[b].route].legs, city.buses[b]) EXCEPT !.parked = "driving"]
           Departed(b) == [city.buses[b] EXCEPT !.parked = "driving"]
<1>2. PICK moved \in SUBSET running : city' = [city EXCEPT !.buses =
         [b \in BusIds |-> IF b \in moved THEN Driven(b) ELSE IF b \in running THEN Departed(b) ELSE city.buses[b]]]
  <2>1. \E moved \in SUBSET {b \in BusIds : city.buses[b] # None /\ IsOperational(city.routes[city.buses[b].route])} :
          city' = [city EXCEPT !.buses = [b \in BusIds |->
            IF b \in moved
            THEN [AdvanceCursor(city.routes[city.buses[b].route].legs, city.buses[b]) EXCEPT !.parked = "driving"]
            ELSE IF b \in {a \in BusIds : city.buses[a] # None /\ IsOperational(city.routes[city.buses[a].route])}
                 THEN [city.buses[b] EXCEPT !.parked = "driving"] ELSE city.buses[b]]]
    BY DEF TickVehicles
  <2>2. QED
    BY <2>1
<1>3. PICK g : g = [b \in BusIds |-> IF b \in moved THEN Driven(b)
                                    ELSE IF b \in running THEN Departed(b) ELSE city.buses[b]]
  OBVIOUS
<1>4. ASSUME NEW b \in running
      PROVE  /\ Driven(b) \in Bus /\ BusFits(city, Driven(b))
             /\ Departed(b) \in Bus /\ BusFits(city, Departed(b))
  <2>1. PICK v, driven, departed : v = city.buses[b] /\ driven = Driven(b) /\ departed = Departed(b)
    OBVIOUS
  <2>2. v \in Bus /\ BusFits(city, v) /\ ~IsBroken(city.routes[v.route].legs)
    BY <1>1, <1>4, <2>1 DEF City, BusesFit, IsOperational
  <2>3. driven \in Bus /\ BusFits(city, driven)
    BY <1>1, <2>1, <2>2, AdvancedFits
  <2>4. departed \in Bus /\ BusFits(city, departed)
    BY <1>1, <2>1, <2>2, DepartedFits
  <2>5. QED
    BY <2>1, <2>3, <2>4
<1>5. \A b \in BusIds : city.buses[b] \in Bus \cup {None} /\ (city.buses[b] # None => BusFits(city, city.buses[b]))
  BY <1>1 DEF City, BusesFit
<1>6. ASSUME NEW b \in BusIds
      PROVE  g[b] \in Bus \cup {None} /\ (g[b] # None => BusFits(city, g[b]))
  <2>1. CASE b \in moved
    BY <1>3, <1>4, <2>1
  <2>2. CASE b \notin moved /\ b \in running
    BY <1>3, <1>4, <2>2
  <2>3. CASE b \notin moved /\ b \notin running
    BY <1>3, <1>5, <2>3
  <2>4. QED
    BY <2>1, <2>2, <2>3
<1>7. g \in [BusIds -> Bus \cup {None}]
  BY <1>3, <1>6
<1>8. city' = [city EXCEPT !.buses = g] /\ UNCHANGED draft
  BY <1>2, <1>3 DEF TickVehicles
<1> HIDE DEF running, Driven, Departed
<1>9. QED
  BY <1>6, <1>7, <1>8, OnlyBusesChange

-----------------------------------------------------------------------------
(* Lines come and go.                                                       *)

\* The waypoints of a line that is accepted.
LEMMA AcceptedWaypoints ==
  ASSUME NEW c \in City, NEW old, NEW ids \in WaypointLists, ValidWaypoints(c, old, ids)
  PROVE  Itinerary(ids) /\ \A s \in Range(ids) : c.stops[s] # "none"
<1>1. ids \in Seq(Stops)
  BY Bounds
<1>2. Itinerary(ids)
  BY <1>1 DEF ValidWaypoints, Itinerary
<1>3. \A s \in Range(ids) : c.stops[s] \in {"present", "missing"}
  BY DEF ValidWaypoints, RetainedMissing, Present
<1>4. QED
  BY <1>2, <1>3

\* A line on the platforms of its stops, and what that leaves of the others.
LEMMA WithLinePlatforms ==
  ASSUME NEW prev, NEW c, NEW r, NEW route, WithLine(prev, c, r, route), PlatformsFit(prev),
         NEW old \in SUBSET Stops, \A s \in Stops : r \in Through(prev, s) <=> s \in old,
         Range(route.waypoints) \subseteq Stops,
         c.platforms = PlatformDelta(prev, r, old, Range(route.waypoints))
  PROVE  PlatformsFit(c)
<1>1. PICK f, new : f = c.platforms /\ new = Range(route.waypoints)
  OBVIOUS
<1>2. prev \in City /\ c \in City /\ r \in RouteIds
  BY DEF WithLine
<1>3. \A s \in Stops : HoldsOnce(f[s], IF s \in new THEN Through(prev, s) \cup {r} ELSE Through(prev, s) \ {r})
  <2>1. new \in SUBSET Stops /\ f = PlatformDelta(prev, r, old, new)
    BY <1>1
  <2>2. QED
    BY <1>2, <2>1, DeltaHolds
<1>4. \A s \in Stops : Through(c, s) = IF s \in new THEN Through(prev, s) \cup {r} ELSE Through(prev, s) \ {r}
  BY <1>1, WithLineFacts
<1>5. \A s \in Stops : HoldsOnce(c.platforms[s], Through(c, s))
  BY <1>1, <1>3, <1>4
<1>6. QED
  BY <1>2, <1>5, LoadedAndHeld DEF PlatformsFit

\* A line that no bus is on joins the city.
LEMMA NewLineFits ==
  ASSUME NEW prev, CityFits(prev), NEW c, NEW r, NEW route, WithLine(prev, c, r, route), r \notin Lines(prev),
         Itinerary(route.waypoints), route.revision <= MaxRevision, Derived(prev, route, <<>>),
         \A s \in Range(route.waypoints) : prev.stops[s] # "none",
         c.platforms = PlatformDelta(prev, r, {}, Range(route.waypoints)),
         \A b \in BusIds : c.buses[b] # None => prev.buses[b] = c.buses[b] \/ BusFits(c, c.buses[b])
  PROVE  CityFits(c)
<1>1. /\ prev \in City /\ LinesFit(prev) /\ StopsFit(prev) /\ NodesFit(prev) /\ PlatformsFit(prev) /\ BusesFit(prev)
  BY DEF CityFits
<1>2. /\ c \in City /\ route \in Route /\ c.stops = prev.stops
  BY DEF WithLine
<1>3. LinesFit(c) /\ StopsFit(c)
  <2>1. <<>> \in Seq(Leg)
    OBVIOUS
  <2>2. QED
    BY <1>1, <2>1, WithLineFits
<1>4. \A s : r \notin Through(prev, s)
  BY DEF Through
<1>5. Range(route.waypoints) \subseteq Stops
  BY StopsOfItinerary
<1>6. PlatformsFit(c)
  <2>1. {} \in SUBSET Stops
    OBVIOUS
  <2>2. QED
    BY <1>1, <1>4, <1>5, <2>1, WithLinePlatforms
<1>7. NodesFit(c)
  <2>1. \A s : Through(prev, s) \subseteq Through(c, s)
    <3>1. \A s : Through(c, s) = IF s \in Range(route.waypoints) THEN Through(prev, s) \cup {r} ELSE Through(prev, s) \ {r}
      BY WithLineFacts
    <3>2. QED
      BY <1>4, <3>1
  <2>2. QED
    BY <1>1, <1>2, <2>1 DEF NodesFit, NodeLifetimeLoads
<1>8. BusesFit(c)
  <2>1. SUFFICES ASSUME NEW b \in BusIds, c.buses[b] # None, prev.buses[b] = c.buses[b]
                 PROVE  BusFits(c, c.buses[b])
    BY DEF BusesFit
  <2>2. PICK v : v = c.buses[b]
    OBVIOUS
  <2>3. v \in Bus /\ BusFits(prev, v)
    BY <1>1, <2>1, <2>2 DEF City, BusesFit
  <2>4. v.route # r
    BY <2>3 DEF BusFits, LegLoads
  <2>5. BusFits(c, v)
    BY <1>1, <2>3, <2>4, OtherBusFits
  <2>6. QED
    BY <2>2, <2>5
<1>9. QED
  BY <1>2, <1>3, <1>6, <1>7, <1>8 DEF CityFits

\* The line that CreateRoute makes.
NewRoute(c, pattern, ids) ==
  [waypoints |-> ids, pattern |-> pattern, revision |-> 0, active |-> TRUE,
   legs |-> MergeResolvedLegs(<<>>, ResolveRouteLegs(c, pattern, ids))]

LEMMA NewRouteFacts ==
  ASSUME NEW c \in City, NEW pattern \in Patterns, NEW ids, Itinerary(ids),
         NEW route, route = NewRoute(c, pattern, ids)
  PROVE  /\ route \in Route /\ route.waypoints = ids /\ route.pattern = pattern /\ route.revision = 0
         /\ Derived(c, route, <<>>)
<1> DEFINE legs == ResolveRouteLegs(c, pattern, ids)
           merged == MergeResolvedLegs(<<>>, legs)
<1>1. legs \in Seq(Leg)
  BY LegsResolved
<1>2. merged \in Seq(Leg)
  <2> HIDE DEF legs
  <2>1. <<>> \in Seq(Leg)
    OBVIOUS
  <2>2. QED
    BY <1>1, <2>1, Merged
<1>3. route = [waypoints |-> ids, pattern |-> pattern, revision |-> 0, active |-> TRUE, legs |-> merged]
  BY DEF NewRoute
<1>4. ids \in Seq(Stops)
  BY DEF Itinerary
<1> HIDE DEF merged
<1>5. route \in Route
  BY <1>2, <1>3, <1>4 DEF Route
<1>6. /\ route.waypoints = ids /\ route.pattern = pattern /\ route.revision = 0 /\ route.legs = merged
  BY <1>3
<1>7. Derived(c, route, <<>>)
  BY <1>6 DEF Derived, merged
<1>8. QED
  BY <1>5, <1>6, <1>7

LEMMA CreateRouteFits ==
  ASSUME IInv, NEW pattern \in Patterns, NEW ids \in WaypointLists, CreateRoute(pattern, ids)
  PROVE  IInv' /\ \A q \in Lines(city) : Structure(city', q) = Structure(city, q)
<1>1. PICK prev, r : prev = city /\ r = 1 + Max({0} \cup Lines(prev))
  OBVIOUS
<1>2. CityFits(prev) /\ prev \in City /\ r <= MaxRoutes /\ ValidWaypoints(prev, {}, ids)
  BY <1>1 DEF IInv, CityFits, CreateRoute
<1>3. r \in RouteIds /\ r \notin Lines(prev)
  <2> DEFINE T == {0} \cup Lines(prev)
  <2>1. T \in SUBSET (0..MaxRoutes) /\ T # {} /\ MaxRoutes \in Nat
    BY Bounds DEF Lines, RouteIds
  <2>2. Max(T) \in T /\ \A y \in T : Max(T) >= y
    <3> HIDE DEF T
    <3>1. QED
      BY <2>1, GreatestNumber
  <2>3. PICK m : m = Max(T)
    OBVIOUS
  <2>4. m \in 0..MaxRoutes /\ r = 1 + m /\ \A y \in Lines(prev) : m >= y /\ y \in Nat
    <3>1. m \in T /\ \A y \in T : m >= y
      BY <2>2, <2>3
    <3>2. \A y \in Lines(prev) : y \in T /\ y \in Nat
      BY Bounds DEF Lines
    <3>3. m \in 0..MaxRoutes
      BY <2>1, <3>1
    <3>4. r = 1 + m
      BY <1>1, <2>3
    <3> HIDE DEF T
    <3>5. QED
      BY <3>1, <3>2, <3>3, <3>4
  <2>5. QED
    BY <1>2, <2>1, <2>4 DEF RouteIds
<1>4. Itinerary(ids) /\ \A s \in Range(ids) : prev.stops[s] # "none"
  BY <1>2, AcceptedWaypoints
<1>5. PICK route, f, c : /\ route = NewRoute(prev, pattern, ids)
                         /\ f = PlatformDelta(prev, r, {}, Range(ids))
                         /\ c = [prev EXCEPT !.routes = [@ EXCEPT ![r] = route], !.platforms = f]
  OBVIOUS
<1>6. city' = c /\ draft' = None
  BY <1>1, <1>5 DEF CreateRoute, NewRoute
<1>7. /\ route \in Route /\ route.waypoints = ids /\ route.pattern = pattern /\ route.revision = 0
      /\ Derived(prev, route, <<>>)
  BY <1>2, <1>4, <1>5, NewRouteFacts
<1>8. /\ f \in [Stops -> [1..Platforms -> SUBSET RouteIds]]
      /\ \A s \in Stops : OthersStay(prev.platforms[s], f[s], r)
  <2>1. PICK old, new : old = {} /\ new = Range(ids)
    OBVIOUS
  <2>2. old \in SUBSET Stops /\ new \in SUBSET Stops
    BY <1>4, <2>1, StopsOfItinerary
  <2>3. PlatformsFit(prev) /\ \A s \in Stops : r \in Through(prev, s) <=> s \in old
    BY <1>2, <1>3, <2>1 DEF CityFits, Through
  <2>4. f = PlatformDelta(prev, r, old, new)
    BY <1>5, <2>1
  <2>5. QED
    BY <1>2, <1>3, <2>2, <2>3, <2>4, DeltaHolds
<1>9. /\ c \in City /\ c.routes = [prev.routes EXCEPT ![r] = route] /\ c.network = prev.network
      /\ c.stops = prev.stops /\ c.platforms = f /\ c.buses = prev.buses
  BY <1>2, <1>3, <1>5, <1>7, <1>8 DEF City
<1>10. WithLine(prev, c, r, route)
  BY <1>2, <1>3, <1>7, <1>9 DEF WithLine
<1>11. CityFits(c)
  <2>1. route.revision <= MaxRevision
    BY <1>7, Bounds
  <2>2. c.platforms = PlatformDelta(prev, r, {}, Range(route.waypoints))
    BY <1>5, <1>7, <1>9
  <2>3. QED
    BY <1>2, <1>3, <1>4, <1>7, <1>9, <1>10, <2>1, <2>2, NewLineFits
<1>12. DraftFits(c, None)
  BY DEF DraftFits
<1>13. \A q \in Lines(prev) : Structure(c, q) = Structure(prev, q)
  <2>1. TAKE q \in Lines(prev)
  <2>2. q \in RouteIds /\ q # r /\ c.routes[q] = prev.routes[q]
    BY <1>3, <1>10, WithLineFacts DEF Lines
  <2>3. OthersStayPut(prev, c, r)
    BY <1>8, <1>9 DEF OthersStayPut
  <2>4. Assignments(c, q) = Assignments(prev, q)
    BY <2>2, <2>3, AssignmentsStay
  <2>5. QED
    BY <2>2, <2>4 DEF Structure
<1>14. QED
  BY <1>1, <1>6, <1>11, <1>12, <1>13 DEF IInv

\* The city without a line, its buses and its places on the platforms.
LEMMA WithoutLineFits ==
  ASSUME NEW prev, CityFits(prev), NEW r \in Lines(prev),
         NEW f, f = [s \in Stops |-> Strip(prev.platforms[s], r)],
         NEW g, g = [b \in BusIds |-> IF prev.buses[b] # None /\ prev.buses[b].route = r THEN None ELSE prev.buses[b]],
         NEW c, c = [prev EXCEPT !.routes = [@ EXCEPT ![r] = None], !.platforms = f, !.buses = g]
  PROVE  /\ c \in City /\ LinesFit(c) /\ StopsFit(c) /\ PlatformsFit(c) /\ BusesFit(c)
         /\ CountedUp(prev, c)
<1>1. /\ prev \in City /\ LinesFit(prev) /\ StopsFit(prev) /\ PlatformsFit(prev) /\ BusesFit(prev) /\ r \in RouteIds
  BY DEF CityFits, Lines
<1>2. ASSUME NEW s \in Stops
      PROVE  HoldsOnce(f[s], Through(prev, s) \ {r}) /\ OthersStay(prev.platforms[s], f[s], r)
  <2>1. PICK before, lines : before = prev.platforms[s] /\ lines = Through(prev, s)
    OBVIOUS
  <2>2. HoldsOnce(before, lines)
    BY <1>1, <2>1, LoadedAndHeld DEF PlatformsFit
  <2>3. f[s] = Strip(before, r)
    BY <2>1
  <2>4. QED
    BY <1>1, <2>1, <2>2, <2>3, StripHolds
<1>3. f \in [Stops -> [1..Platforms -> SUBSET RouteIds]]
  <2>1. \A s \in Stops : f[s] \in [1..Platforms -> SUBSET RouteIds]
    BY <1>2 DEF HoldsOnce
  <2>2. QED
    BY <2>1
<1>4. g \in [BusIds -> Bus \cup {None}]
  <2>1. \A b \in BusIds : prev.buses[b] \in Bus \cup {None}
    BY <1>1 DEF City
  <2>2. QED
    BY <2>1
<1>5. /\ c \in City /\ c.routes = [prev.routes EXCEPT ![r] = None] /\ c.network = prev.network
      /\ c.stops = prev.stops /\ c.platforms = f /\ c.buses = g
  BY <1>1, <1>3, <1>4 DEF City
<1>6. c.routes[r] = None /\ \A q \in RouteIds \ {r} : c.routes[q] = prev.routes[q]
  BY <1>1, <1>5 DEF City
<1>7. Lines(c) = Lines(prev) \ {r}
  BY <1>1, <1>6 DEF Lines
<1>8. \A q \in Lines(c) : q \in Lines(prev) /\ q \in RouteIds /\ q # r /\ c.routes[q] = prev.routes[q]
  BY <1>6, <1>7 DEF Lines
<1>9. SameOffer(prev, c)
  BY <1>5 DEF SameOffer
<1>10. \A s : Through(c, s) = Through(prev, s) \ {r}
  BY <1>7, <1>8 DEF Through
<1>11. LinesFit(c)
  <2>1. SUFFICES ASSUME NEW q \in Lines(c)
                 PROVE  /\ Itinerary(c.routes[q].waypoints) /\ c.routes[q].revision <= MaxRevision
                        /\ FollowsNetwork(c, q)
    BY DEF LinesFit
  <2>2. q \in Lines(prev) /\ c.routes[q] = prev.routes[q]
    BY <1>8
  <2>3. /\ Itinerary(prev.routes[q].waypoints) /\ prev.routes[q].revision <= MaxRevision
        /\ FollowsNetwork(prev, q)
    BY <1>1, <2>2 DEF LinesFit
  <2>4. FollowsNetwork(c, q)
    BY <1>1, <1>5, <1>9, <2>2, <2>3, FollowsSame
  <2>5. QED
    BY <2>2, <2>3, <2>4
<1>12. StopsFit(c)
  BY <1>1, <1>5, <1>8 DEF StopsFit
<1>13. PlatformsFit(c)
  <2>1. \A s \in Stops : HoldsOnce(c.platforms[s], Through(c, s))
    BY <1>2, <1>5, <1>10
  <2>2. QED
    BY <1>5, <2>1, LoadedAndHeld DEF PlatformsFit
<1>14. BusesFit(c)
  <2>1. SUFFICES ASSUME NEW b \in BusIds, g[b] # None
                 PROVE  BusFits(c, g[b])
    BY <1>5 DEF BusesFit
  <2>2. PICK v : v = g[b]
    OBVIOUS
  <2>3. prev.buses[b] = v /\ v # None /\ v.route # r
    BY <2>1, <2>2
  <2>4. BusFits(prev, v)
    BY <1>1, <2>3 DEF BusesFit
  <2>5. v.route \in Lines(prev)
    BY <2>4 DEF BusFits, LegLoads
  <2>6. v.route \in Lines(c) /\ c.routes[v.route] = prev.routes[v.route]
    BY <1>7, <1>8, <2>3, <2>5
  <2>7. ProperLegs(prev, prev.routes[v.route])
    BY <1>1, <2>5, LineFacts
  <2>8. BusFits(c, v)
    BY <1>9, <2>4, <2>6, <2>7, BusFitsSame
  <2>9. QED
    BY <2>2, <2>8
<1>15. CountedUp(prev, c)
  <2>1. SUFFICES ASSUME NEW q \in Lines(c)
                 PROVE  /\ c.routes[q].revision \in Nat /\ prev.routes[q].revision <= c.routes[q].revision
                        /\ Structure(c, q) = Structure(prev, q)
    BY <1>7 DEF CountedUp
  <2>2. q \in Lines(prev) /\ q \in RouteIds /\ q # r /\ c.routes[q] = prev.routes[q]
    BY <1>8
  <2>3. OthersStayPut(prev, c, r)
    BY <1>2, <1>5 DEF OthersStayPut
  <2>4. Assignments(c, q) = Assignments(prev, q)
    BY <2>2, <2>3, AssignmentsStay
  <2>5. Structure(c, q) = Structure(prev, q)
    BY <2>2, <2>4 DEF Structure
  <2>6. prev.routes[q].revision \in Nat
    BY <1>1, <2>2, LineFacts DEF Route
  <2>7. QED
    BY <2>2, <2>5, <2>6
<1>16. QED
  BY <1>5, <1>11, <1>12, <1>13, <1>14, <1>15

LEMMA DeleteRouteFits ==
  ASSUME IInv, NEW r \in RouteIds, DeleteRoute(r)
  PROVE  IInv'
<1>1. PICK prev : prev = city
  OBVIOUS
<1>2. CityFits(prev) /\ DraftFits(prev, draft) /\ prev \in City /\ r \in Lines(prev)
  BY <1>1 DEF IInv, CityFits, DeleteRoute
<1>3. PICK f, g : /\ f = [s \in Stops |-> Strip(prev.platforms[s], r)]
                  /\ g = [b \in BusIds |-> IF prev.buses[b] # None /\ prev.buses[b].route = r THEN None
                                          ELSE prev.buses[b]]
  OBVIOUS
<1>4. PICK c : c = [prev EXCEPT !.routes = [@ EXCEPT ![r] = None], !.platforms = f, !.buses = g]
  OBVIOUS
<1>5. PICK d : d = GarbageCollect(c)
  OBVIOUS
<1>6. city' = d /\ draft' = draft
  <2>1. city' = GarbageCollect([prev EXCEPT !.routes[r] = None,
           !.platforms = [s \in Stops |-> Strip(prev.platforms[s], r)],
           !.buses = [b \in BusIds |-> IF prev.buses[b] # None /\ prev.buses[b].route = r THEN None ELSE prev.buses[b]]])
    BY <1>1 DEF DeleteRoute
  <2>2. city' = GarbageCollect(c)
    BY <1>3, <1>4, <2>1
  <2>3. QED
    BY <1>5, <2>2 DEF DeleteRoute
<1>7. /\ c \in City /\ LinesFit(c) /\ StopsFit(c) /\ PlatformsFit(c) /\ BusesFit(c)
      /\ CountedUp(prev, c)
  BY <1>2, <1>3, <1>4, WithoutLineFits
<1>8. CityFits(d) /\ d.routes = c.routes /\ d.platforms = c.platforms
  BY <1>5, <1>7, CollectFits
<1>9. CountedUp(prev, d)
  <2>1. Lines(d) = Lines(c)
    BY <1>8 DEF Lines
  <2>2. \A q : Structure(d, q) = Structure(c, q)
    BY <1>8, SameStructure
  <2>3. QED
    BY <1>7, <1>8, <2>1, <2>2 DEF CountedUp
<1>10. DraftFits(d, draft)
  BY <1>2, <1>9, DraftStays
<1>11. QED
  BY <1>6, <1>8, <1>10 DEF IInv

\* rebase_edited_route_vehicles_and_riders leaves a bus of the edited line at a stop in
\* reach, or at the start of the line if there is none or its place is not known.
LEMMA RebasedFits ==
  ASSUME NEW prev \in City, LinesFit(prev), NEW c \in City, LinesFit(c), NEW r \in Lines(c),
         NEW v \in Bus, BusFits(prev, v), v.route = r, NEW kept, NEW u \in RebaseEdited(prev, c, r, kept, v)
  PROVE  u \in Bus /\ u.route = r /\ BusFits(c, u)
<1>1. PICK world, route : world = WorldOf(prev, v) /\ route = c.routes[r]
  OBVIOUS
<1>2. ProperLegs(c, route)
  BY <1>1, LineFacts
<1>3. LegLoads(prev, v)
  BY DEF BusFits
<1>4. /\ world = "nowhere" \/ (world \in Places /\ world # "driving")
      /\ world = "nowhere" => v.parked = "driving"
      /\ world = "nowhere" /\ ~IsBroken(prev.routes[v.route].legs) => v.stray
  BY <1>1, <1>3, WorldFacts
<1>5. world = "nowhere" => v.stray
  BY <1>4 DEF BusFits
<1> DEFINE near == IF world = "nowhere" THEN {} ELSE NearestVisits(c, route, world, kept)
           visits == IF near # {} \/ world = "nowhere" THEN near ELSE NearestVisits(c, route, world, Stops)
<1>6. u \in IF visits # {} THEN {ParkAt(c, route, v, i) : i \in visits}
            ELSE {[v EXCEPT !.leg = 1, !.step = 0, !.parked = IF world = "nowhere" THEN "driving" ELSE world]}
  BY <1>1 DEF RebaseEdited
<1>7. CASE \E i \in visits : u = ParkAt(c, route, v, i)
  <2>1. PICK i \in visits : u = ParkAt(c, route, v, i)
    BY <1>7
  <2>2. i \in NearestVisits(c, route, world, kept) \/ i \in NearestVisits(c, route, world, Stops)
    BY <2>1
  <2>3. ParkingVisit(c, route, i)
    BY <2>2, NearestAreParking
  <2>4. u \in Bus /\ u.route = r
    BY <1>2, <2>1, <2>3, ParkedThere
  <2>5. BusFits(c, u)
    BY <1>1, <1>2, <2>1, <2>3, ParkedFits
  <2>6. QED
    BY <2>4, <2>5
<1>8. CASE visits = {} /\ u = [v EXCEPT !.leg = 1, !.step = 0, !.parked = IF world = "nowhere" THEN "driving" ELSE world]
  <2>1. PICK place : place = IF world = "nowhere" THEN "driving" ELSE world
    OBVIOUS
  <2>2. place \in Places
    BY <1>4, <2>1 DEF Places
  <2>3. u \in Bus /\ u.route = r /\ u.leg = 1 /\ u.step = 0 /\ u.parked = place
    <3>1. PICK one \in Nat \ {0}, zero \in Nat : one = 1 /\ zero = 0
      OBVIOUS
    <3>2. u = [v EXCEPT !.leg = one, !.step = zero, !.parked = place]
      BY <1>8, <2>1, <3>1
    <3>3. u \in Bus /\ u.route = v.route /\ u.leg = one /\ u.step = zero /\ u.parked = place
      BY <2>2, <3>2 DEF Bus
    <3>4. QED
      BY <3>1, <3>3
  <2>4. u.stray <=> v.stray
    BY <1>8 DEF Bus
  <2>5. 1 \in 1..Len(route.legs) /\ route.legs[1].path.steps \in Nat
    <3>1. PICK legs : legs = route.legs
      OBVIOUS
    <3>2. legs \in Seq(Leg) /\ legs # <<>>
      BY <1>2, <3>1 DEF ProperLegs
    <3>3. 1 \in 1..Len(legs)
      BY <3>2
    <3>4. legs[1] \in Leg
      BY <3>2, <3>3, ElementOfSeq
    <3>5. legs[1].path \in Ways
      BY <3>4 DEF Leg
    <3>6. QED
      BY <3>1, <3>3, <3>5, WayFacts
  <2>6. LegLoads(c, u) /\ StepLoads(c, u)
    BY <1>1, <2>3, <2>5 DEF LegLoads, StepLoads
  <2>7. CASE world = "nowhere"
    <3>1. u.parked = "driving" /\ u.stray
      BY <1>5, <2>1, <2>3, <2>4, <2>7
    <3>2. QED
      BY <2>3, <2>6, <3>1 DEF BusFits, StandsRight
  <2>8. CASE world # "nowhere"
    <3>1. u.parked # "driving"
      BY <1>4, <2>1, <2>3, <2>8
    <3>2. NearestVisits(c, route, world, Stops) = {}
      BY <1>8, <2>8
    <3>3. Reached(c, r) = {}
      BY <1>1, <1>2, <3>2, NoVisitNoStop DEF Reached
    <3>4. QED
      BY <2>3, <2>6, <3>1, <3>3 DEF BusFits, StandsRight
  <2>9. QED
    BY <2>7, <2>8
<1> HIDE DEF near, visits
<1>9. QED
  BY <1>6, <1>7, <1>8

\* A line after an edit: other stops, pattern and legs, on this revision.
EditedRoute(prev, r, pattern, ids, revision) ==
  [prev.routes[r] EXCEPT !.waypoints = ids, !.pattern = pattern, !.revision = revision,
     !.legs = MergeResolvedLegs(prev.routes[r].legs, ResolveRouteLegs(prev, pattern, ids))]

EditedCity(prev, r, pattern, ids, revision, g) ==
  [prev EXCEPT !.routes = [@ EXCEPT ![r] = EditedRoute(prev, r, pattern, ids, revision)],
               !.platforms = PlatformDelta(prev, r, Range(prev.routes[r].waypoints), Range(ids)), !.buses = g]

LEMMA EditedCityFits ==
  ASSUME NEW prev, CityFits(prev), NEW r \in Lines(prev), NEW pattern \in Patterns, NEW ids, Itinerary(ids),
         \A s \in Range(ids) : prev.stops[s] # "none", NEW revision \in Nat, revision <= MaxRevision,
         NEW g \in [BusIds -> Bus \cup {None}],
         NEW c, c = EditedCity(prev, r, pattern, ids, revision, g)
  PROVE  /\ c \in City /\ LinesFit(c) /\ StopsFit(c) /\ PlatformsFit(c) /\ SameOffer(prev, c)
         /\ WithLine(prev, c, r, c.routes[r]) /\ Lines(c) = Lines(prev) /\ c.buses = g
         /\ c.routes[r].waypoints = ids /\ c.routes[r].pattern = pattern
         /\ c.routes[r].legs = MergeResolvedLegs(prev.routes[r].legs, ResolveRouteLegs(prev, pattern, ids))
         /\ c.platforms = PlatformDelta(prev, r, Range(prev.routes[r].waypoints), Range(ids))
<1>1. /\ prev \in City /\ LinesFit(prev) /\ StopsFit(prev) /\ PlatformsFit(prev)
      /\ r \in RouteIds /\ prev.routes[r] \in Route /\ Range(prev.routes[r].waypoints) \subseteq Stops
  BY LineFacts DEF CityFits
<1>2. PICK route, f : /\ route = EditedRoute(prev, r, pattern, ids, revision)
                      /\ f = PlatformDelta(prev, r, Range(prev.routes[r].waypoints), Range(ids))
  OBVIOUS
<1> DEFINE legs == ResolveRouteLegs(prev, pattern, ids)
           merged == MergeResolvedLegs(prev.routes[r].legs, legs)
<1>3. prev.routes[r].legs \in Seq(Leg)
  BY <1>1 DEF Route
<1>4. merged \in Seq(Leg)
  <2>1. legs \in Seq(Leg)
    BY <1>1, LegsResolved
  <2> HIDE DEF legs
  <2>2. QED
    BY <1>3, <2>1, Merged
<1>5. route = [prev.routes[r] EXCEPT !.waypoints = ids, !.pattern = pattern, !.revision = revision, !.legs = merged]
  BY <1>2 DEF EditedRoute
<1>6. ids \in Seq(Stops) /\ Range(ids) \subseteq Stops
  BY StopsOfItinerary DEF Itinerary
<1> HIDE DEF merged
<1>7. /\ route \in Route /\ route.waypoints = ids /\ route.pattern = pattern /\ route.revision = revision
      /\ route.legs = merged
  BY <1>1, <1>4, <1>5, <1>6 DEF Route
<1>8. Derived(prev, route, prev.routes[r].legs)
  BY <1>7 DEF Derived, merged
<1>9. \A s \in Stops : r \in Through(prev, s) <=> s \in Range(prev.routes[r].waypoints)
  BY <1>1 DEF Through
<1>10. f \in [Stops -> [1..Platforms -> SUBSET RouteIds]]
  <2>1. PICK old, new : old = Range(prev.routes[r].waypoints) /\ new = Range(ids)
    OBVIOUS
  <2>2. old \in SUBSET Stops /\ new \in SUBSET Stops /\ f = PlatformDelta(prev, r, old, new)
    BY <1>1, <1>2, <1>6, <2>1
  <2>3. \A s \in Stops : r \in Through(prev, s) <=> s \in old
    BY <1>9, <2>1
  <2>4. QED
    BY <1>1, <2>2, <2>3, DeltaHolds
<1>11. c = [prev EXCEPT !.routes = [@ EXCEPT ![r] = route], !.platforms = f, !.buses = g]
  BY <1>2 DEF EditedCity
<1>12. /\ c \in City /\ c.routes = [prev.routes EXCEPT ![r] = route] /\ c.network = prev.network
       /\ c.stops = prev.stops /\ c.platforms = f /\ c.buses = g
  <2>1. PICK routes : routes = [prev.routes EXCEPT ![r] = route]
    OBVIOUS
  <2>2. routes \in [RouteIds -> Route \cup {None}]
    BY <1>1, <1>7, <2>1 DEF City
  <2>3. c = [prev EXCEPT !.routes = routes, !.platforms = f, !.buses = g]
    BY <1>11, <2>1
  <2>4. /\ c \in City /\ c.routes = routes /\ c.network = prev.network
        /\ c.stops = prev.stops /\ c.platforms = f /\ c.buses = g
    BY <1>1, <1>10, <2>2, <2>3 DEF City
  <2>5. QED
    BY <2>1, <2>4
<1>13. WithLine(prev, c, r, route)
  BY <1>1, <1>7, <1>12 DEF WithLine
<1>14. SameOffer(prev, c) /\ Lines(c) = Lines(prev) /\ c.routes[r] = route
  <2>1. SameOffer(prev, c) /\ Lines(c) = Lines(prev) \cup {r} /\ c.routes[r] = route
    BY <1>13, WithLineFacts
  <2>2. QED
    BY <2>1
<1>15. LinesFit(c) /\ StopsFit(c)
  BY <1>1, <1>3, <1>7, <1>8, <1>13, WithLineFits
<1>16. PlatformsFit(c)
  <2>1. PICK old : old = Range(prev.routes[r].waypoints)
    OBVIOUS
  <2>2. /\ old \in SUBSET Stops /\ \A s \in Stops : r \in Through(prev, s) <=> s \in old
        /\ c.platforms = PlatformDelta(prev, r, old, Range(route.waypoints))
    BY <1>1, <1>2, <1>7, <1>9, <1>12, <2>1
  <2>3. QED
    BY <1>1, <1>6, <1>7, <1>13, <2>2, WithLinePlatforms
<1>17. QED
  BY <1>2, <1>7, <1>12, <1>13, <1>14, <1>15, <1>16 DEF merged

\* The buses after an edit: those of the line are rebased, the others stay.
LEMMA RebasedBusesFit ==
  ASSUME NEW prev, CityFits(prev), NEW c \in City, LinesFit(c), NEW r \in Lines(c), c.buses = prev.buses,
         NEW kept, NEW f \in RebasedBuses(prev, c, r, kept)
  PROVE  /\ f \in [BusIds -> Bus \cup {None}]
         /\ \A b \in BusIds : f[b] # None =>
              \/ f[b] = prev.buses[b] /\ f[b].route # r
              \/ f[b].route = r /\ BusFits(c, f[b])
<1> DEFINE Offered(b) == IF c.buses[b] = None THEN {None}
                        ELSE IF c.buses[b].route = r THEN RebaseEdited(prev, c, r, kept, c.buses[b])
                        ELSE {c.buses[b]}
<1>1. f \in [BusIds -> UNION {Offered(b) : b \in BusIds}] /\ \A b \in BusIds : f[b] \in Offered(b)
  BY DEF RebasedBuses
<1>2. prev \in City /\ LinesFit(prev) /\ BusesFit(prev)
  BY DEF CityFits
<1>3. ASSUME NEW b \in BusIds
      PROVE  /\ f[b] \in Bus \cup {None}
             /\ f[b] # None => \/ f[b] = prev.buses[b] /\ f[b].route # r
                               \/ f[b].route = r /\ BusFits(c, f[b])
  <2>1. f[b] \in Offered(b)
    BY <1>1
  <2>2. CASE prev.buses[b] = None
    BY <2>1, <2>2
  <2>3. CASE prev.buses[b] # None
    <3>1. PICK v, u : v = prev.buses[b] /\ u = f[b]
      OBVIOUS
    <3>2. v \in Bus /\ BusFits(prev, v)
      BY <1>2, <2>3, <3>1 DEF City, BusesFit
    <3>3. CASE v.route = r
      <4>1. u \in RebaseEdited(prev, c, r, kept, v)
        BY <2>1, <2>3, <3>1, <3>3
      <4>2. u \in Bus /\ u.route = r /\ BusFits(c, u)
        BY <1>2, <3>2, <3>3, <4>1, RebasedFits
      <4>3. QED
        BY <3>1, <4>2
    <3>4. CASE v.route # r
      <4>1. u = v
        BY <2>1, <2>3, <3>1, <3>4
      <4>2. QED
        BY <3>1, <3>2, <3>4, <4>1
    <3>5. QED
      BY <3>3, <3>4
  <2>4. QED
    BY <2>2, <2>3
<1>4. f \in [BusIds -> Bus \cup {None}]
  <2> HIDE DEF Offered
  <2>1. \A b \in BusIds : f[b] \in Bus \cup {None}
    BY <1>3
  <2>2. DOMAIN f = BusIds /\ f = [b \in BusIds |-> f[b]]
    BY <1>1
  <2>3. QED
    BY <2>1, <2>2
<1>5. QED
  BY <1>3, <1>4

\* An edit that leaves the line as it was leaves its stops, pattern and legs.
LEMMA SameVisits ==
  ASSUME NEW c, NEW d, NEW r, Structure(c, r) = Structure(d, r)
  PROVE  /\ c.routes[r].waypoints = d.routes[r].waypoints /\ c.routes[r].pattern = d.routes[r].pattern
         /\ c.routes[r].legs = d.routes[r].legs
BY DEF Structure

\* What UpdateRoute does, from the city before it.
EditedBy(prev, d, r, pattern, ids, revision, f) ==
  LET candidate == EditedCity(prev, r, pattern, ids, prev.routes[r].revision, prev.buses)
      changed == Structure(candidate, r) # Structure(prev, r)
  IN  /\ changed => prev.routes[r].revision < MaxRevision
      /\ revision = IF changed THEN NextRevision(prev.routes[r].revision) ELSE prev.routes[r].revision
      /\ f \in IF changed THEN RebasedBuses(prev, candidate, r, Range(ids) \cap Range(prev.routes[r].waypoints))
               ELSE {prev.buses}
      /\ d = GarbageCollect(EditedCity(prev, r, pattern, ids, revision, f))

LEMMA EditedByUpdate ==
  ASSUME IInv, NEW pattern, NEW ids, UpdateRoute(pattern, ids)
  PROVE  /\ draft # None /\ draft.line \in Lines(city) /\ city.routes[draft.line].revision = draft.revision
         /\ ValidWaypoints(city, Range(city.routes[draft.line].waypoints), ids) /\ draft' = None
         /\ \E revision, f : EditedBy(city, city', draft.line, pattern, ids, revision, f)
<1> DEFINE line == draft.line
           before == Range(city.routes[line].waypoints)
           legs == MergeResolvedLegs(city.routes[line].legs, ResolveRouteLegs(city, pattern, ids))
           platforms == PlatformDelta(city, line, before, Range(ids))
           candidate == [city EXCEPT !.routes[line].waypoints = ids, !.routes[line].pattern = pattern,
                                     !.routes[line].legs = legs, !.platforms = platforms]
           changed == Structure(candidate, line) # Structure(city, line)
           After(f) == [candidate EXCEPT !.buses = f,
                          !.routes[line].revision = IF changed THEN NextRevision(@) ELSE @]
<1>1. /\ draft # None /\ line \in Lines(city) /\ city.routes[line].revision = draft.revision
      /\ ValidWaypoints(city, before, ids) /\ draft' = None
      /\ changed => city.routes[line].revision < MaxRevision
  BY DEF UpdateRoute, MayStructurallyEdit
<1>2. PICK f \in IF changed THEN RebasedBuses(city, candidate, line, Range(ids) \cap before) ELSE {city.buses} :
           city' = GarbageCollect(After(f))
  BY DEF UpdateRoute
<1>3. PICK prev, r, old, cand : prev = city /\ r = line /\ old = before /\ cand = candidate
  OBVIOUS
<1>4. PICK again \in BOOLEAN : again <=> changed
  <2>1. CASE changed
    <3>1. TRUE <=> changed
      BY <2>1
    <3>2. QED
      BY <3>1
  <2>2. CASE ~changed
    <3>1. FALSE <=> changed
      BY <2>2
    <3>2. QED
      BY <3>1
  <2>3. QED
    BY <2>1, <2>2
<1>5. /\ platforms = PlatformDelta(prev, r, old, Range(ids))
      /\ legs = MergeResolvedLegs(prev.routes[r].legs, ResolveRouteLegs(prev, pattern, ids))
      /\ old = Range(prev.routes[r].waypoints)
      /\ cand = [prev EXCEPT !.routes[r].waypoints = ids, !.routes[r].pattern = pattern,
                             !.routes[r].legs = legs, !.platforms = platforms]
      /\ again <=> Structure(cand, r) # Structure(prev, r)
  BY <1>3, <1>4
<1>6. After(f) = [cand EXCEPT !.buses = f, !.routes[r].revision = IF again THEN NextRevision(@) ELSE @]
  <2>1. CASE changed
    <3> HIDE DEF changed, candidate
    <3>1. QED
      BY <1>3, <1>4, <2>1
  <2>2. CASE ~changed
    <3> HIDE DEF changed, candidate
    <3>1. QED
      BY <1>3, <1>4, <2>2
  <2>3. QED
    BY <2>1, <2>2
<1>7. f \in IF again THEN RebasedBuses(prev, cand, r, Range(ids) \cap old) ELSE {prev.buses}
  BY <1>2, <1>3, <1>4
<1>8. PICK revision : revision = IF again THEN NextRevision(prev.routes[r].revision) ELSE prev.routes[r].revision
  OBVIOUS
<1>9. prev \in City /\ r \in RouteIds /\ prev.routes[r] \in Route
  BY <1>1, <1>3, LineFacts DEF IInv, CityFits
<1> HIDE DEF line, before, legs, platforms, candidate, changed
<1>10. cand = EditedCity(prev, r, pattern, ids, prev.routes[r].revision, prev.buses)
  <2>1. PICK route : route = EditedRoute(prev, r, pattern, ids, prev.routes[r].revision)
    OBVIOUS
  <2>2. route = [prev.routes[r] EXCEPT !.waypoints = ids, !.pattern = pattern,
                   !.revision = prev.routes[r].revision, !.legs = legs]
    BY <1>5, <2>1 DEF EditedRoute
  <2>3. route = [prev.routes[r] EXCEPT !.waypoints = ids, !.pattern = pattern, !.legs = legs]
    BY <1>9, <2>2 DEF Route
  <2>4. prev.routes \in [RouteIds -> Route \cup {None}]
    BY <1>9 DEF City
  <2>5. cand = [prev EXCEPT !.routes = [@ EXCEPT ![r] = route], !.platforms = platforms]
    <3>1. PICK r1, r2 : /\ r1 = [prev.routes[r] EXCEPT !.waypoints = ids]
                        /\ r2 = [r1 EXCEPT !.pattern = pattern] /\ route = [r2 EXCEPT !.legs = legs]
      BY <2>3
    <3>2. PICK g1, g2 : g1 = [prev.routes EXCEPT ![r] = r1] /\ g2 = [g1 EXCEPT ![r] = r2]
      OBVIOUS
    <3>3. g1[r] = r1 /\ g2[r] = r2 /\ [g2 EXCEPT ![r] = route] = [prev.routes EXCEPT ![r] = route]
      BY <1>9, <2>4, <3>2
    <3>4. PICK c1, c2, c3 : /\ c1 = [prev EXCEPT !.routes = g1] /\ c2 = [c1 EXCEPT !.routes = g2]
                            /\ c3 = [c2 EXCEPT !.routes = [prev.routes EXCEPT ![r] = route]]
      OBVIOUS
    <3>5. c1.routes = g1 /\ c2.routes = g2
      BY <1>9, <3>4 DEF City
    <3>6. c1 = [prev EXCEPT !.routes[r].waypoints = ids]
      BY <3>1, <3>2, <3>4
    <3>7. c2 = [c1 EXCEPT !.routes[r].pattern = pattern]
      BY <3>1, <3>2, <3>3, <3>4, <3>5
    <3>8. c3 = [c2 EXCEPT !.routes[r].legs = legs]
      BY <3>1, <3>3, <3>4, <3>5
    <3>9. cand = [c3 EXCEPT !.platforms = platforms]
      BY <1>5, <3>6, <3>7, <3>8
    <3>10. QED
      BY <1>9, <3>4, <3>9 DEF City
  <2>6. cand = [prev EXCEPT !.routes = [@ EXCEPT ![r] = route], !.platforms = platforms, !.buses = prev.buses]
    BY <1>9, <2>5 DEF City
  <2>7. QED
    BY <1>5, <2>1, <2>6 DEF EditedCity
<1>11. After(f) = EditedCity(prev, r, pattern, ids, revision, f)
  <2>1. PICK route, edited : /\ route = EditedRoute(prev, r, pattern, ids, prev.routes[r].revision)
                             /\ edited = EditedRoute(prev, r, pattern, ids, revision)
    OBVIOUS
  <2>2. PICK g : g = [prev.routes EXCEPT ![r] = route]
    OBVIOUS
  <2>3. cand = [prev EXCEPT !.routes = g, !.platforms = platforms, !.buses = prev.buses]
    BY <1>10, <1>5, <2>1, <2>2 DEF EditedCity
  <2>4. cand.routes = g /\ g[r] = route /\ route.revision = prev.routes[r].revision
    BY <1>9, <2>1, <2>2, <2>3 DEF City, Route, EditedRoute
  <2>5. PICK x : x = After(f)
    OBVIOUS
  <2>6. x = [cand EXCEPT !.buses = f, !.routes = [g EXCEPT ![r] = [route EXCEPT !.revision = revision]]]
    <3>1. CASE again
      BY <1>8, <1>9, <1>6, <2>3, <2>4, <2>5, <3>1 DEF City
    <3>2. CASE ~again
      BY <1>8, <1>9, <1>6, <2>3, <2>4, <2>5, <3>2 DEF City
    <3>3. QED
      BY <3>1, <3>2
  <2>7. [route EXCEPT !.revision = revision] = edited
    BY <1>9, <2>1 DEF EditedRoute, Route
  <2>8. [g EXCEPT ![r] = edited] = [prev.routes EXCEPT ![r] = edited]
    BY <1>9, <2>2 DEF City
  <2>9. x = [cand EXCEPT !.buses = f, !.routes = [prev.routes EXCEPT ![r] = edited]]
    BY <2>6, <2>7, <2>8
  <2>10. x = [prev EXCEPT !.routes = [prev.routes EXCEPT ![r] = edited], !.platforms = platforms, !.buses = f]
    BY <1>9, <2>3, <2>9 DEF City
  <2>11. QED
    BY <1>5, <2>1, <2>5, <2>10 DEF EditedCity
<1>12. EditedBy(prev, city', r, pattern, ids, revision, f)
  <2>1. city' = GarbageCollect(EditedCity(prev, r, pattern, ids, revision, f))
    BY <1>2, <1>11
  <2>2. again => prev.routes[r].revision < MaxRevision
    BY <1>1, <1>3, <1>4
  <2>3. QED
    BY <1>8, <1>10, <1>5, <1>7, <2>1, <2>2 DEF EditedBy
<1>13. QED
  BY <1>1, <1>3, <1>12 DEF line, before

\* An edit that goes through: the line on its new stops, the buses where they belong.
LEMMA EditedByFits ==
  ASSUME NEW prev, CityFits(prev), NEW r \in Lines(prev), NEW pattern \in Patterns, NEW ids \in WaypointLists,
         ValidWaypoints(prev, Range(prev.routes[r].waypoints), ids),
         NEW revision, NEW f, NEW d, EditedBy(prev, d, r, pattern, ids, revision, f)
  PROVE  /\ CityFits(d)
         /\ Structure(d, r) # Structure(prev, r) => prev.routes[r].revision < MaxRevision
<1>1. /\ prev \in City /\ LinesFit(prev) /\ PlatformsFit(prev) /\ BusesFit(prev) /\ r \in RouteIds
      /\ prev.routes[r].revision \in Nat /\ prev.routes[r].revision <= MaxRevision
      /\ prev.buses \in [BusIds -> Bus \cup {None}]
  BY LineFacts DEF CityFits, City, Route
<1>2. Itinerary(ids) /\ \A s \in Range(ids) : prev.stops[s] # "none"
  BY <1>1, AcceptedWaypoints
<1>3. PICK cand : cand = EditedCity(prev, r, pattern, ids, prev.routes[r].revision, prev.buses)
  OBVIOUS
<1>4. PICK kept : kept = Range(ids) \cap Range(prev.routes[r].waypoints)
  OBVIOUS
<1>5. /\ cand \in City /\ LinesFit(cand) /\ SameOffer(prev, cand) /\ Lines(cand) = Lines(prev)
      /\ cand.buses = prev.buses /\ cand.routes[r].waypoints = ids /\ cand.routes[r].pattern = pattern
      /\ cand.routes[r].legs = MergeResolvedLegs(prev.routes[r].legs, ResolveRouteLegs(prev, pattern, ids))
  BY <1>1, <1>2, <1>3, EditedCityFits
<1>6. /\ revision \in Nat /\ revision <= MaxRevision
      /\ f \in IF Structure(cand, r) # Structure(prev, r) THEN RebasedBuses(prev, cand, r, kept) ELSE {prev.buses}
      /\ d = GarbageCollect(EditedCity(prev, r, pattern, ids, revision, f))
  BY <1>1, <1>3, <1>4, RevisionCounts DEF EditedBy
<1>7. /\ f \in [BusIds -> Bus \cup {None}]
      /\ \A b \in BusIds : f[b] # None =>
           \/ f[b] = prev.buses[b] /\ f[b].route # r
           \/ f[b].route = r /\ BusFits(cand, f[b])
  <2>1. CASE Structure(cand, r) # Structure(prev, r)
    <3>1. f \in RebasedBuses(prev, cand, r, kept)
      BY <1>6, <2>1
    <3>2. QED
      BY <1>5, <3>1, RebasedBusesFit
  <2>2. CASE Structure(cand, r) = Structure(prev, r)
    <3>1. f = prev.buses
      BY <1>6, <2>2
    <3>2. ASSUME NEW b \in BusIds, f[b] # None, f[b].route = r
          PROVE  BusFits(cand, f[b])
      <4>1. PICK v : v = f[b]
        OBVIOUS
      <4>2. BusFits(prev, v) /\ v.route = r
        BY <1>1, <3>1, <3>2, <4>1 DEF BusesFit
      <4>3. ProperLegs(prev, prev.routes[r])
        BY <1>1, LineFacts
      <4>4. /\ cand.routes[r].waypoints = prev.routes[r].waypoints
            /\ cand.routes[r].legs = prev.routes[r].legs
        BY <2>2, SameVisits
      <4>5. BusFits(cand, v)
        BY <1>5, <4>2, <4>3, <4>4, BusFitsSame
      <4>6. QED
        BY <4>1, <4>5
    <3>3. QED
      BY <1>1, <3>1, <3>2
  <2>3. QED
    BY <2>1, <2>2
<1>8. PICK c : c = EditedCity(prev, r, pattern, ids, revision, f)
  OBVIOUS
<1>9. /\ c \in City /\ LinesFit(c) /\ StopsFit(c) /\ PlatformsFit(c) /\ SameOffer(prev, c)
      /\ WithLine(prev, c, r, c.routes[r]) /\ Lines(c) = Lines(prev) /\ c.buses = f
      /\ c.routes[r].waypoints = ids
      /\ c.routes[r].legs = MergeResolvedLegs(prev.routes[r].legs, ResolveRouteLegs(prev, pattern, ids))
  BY <1>1, <1>2, <1>6, <1>7, <1>8, EditedCityFits
<1>10. BusesFit(c)
  <2>1. SUFFICES ASSUME NEW b \in BusIds, f[b] # None
                 PROVE  BusFits(c, f[b])
    BY <1>9 DEF BusesFit
  <2>2. PICK v : v = f[b]
    OBVIOUS
  <2>3. v \in Bus
    BY <1>7, <2>1, <2>2
  <2>4. CASE v = prev.buses[b] /\ v.route # r
    <3>1. BusFits(prev, v)
      BY <1>1, <2>1, <2>2, <2>4 DEF BusesFit
    <3>2. BusFits(c, v)
      BY <1>1, <1>9, <2>3, <2>4, <3>1, OtherBusFits
    <3>3. QED
      BY <2>2, <3>2
  <2>5. CASE v.route = r /\ BusFits(cand, v)
    <3>1. SameOffer(cand, c)
      BY <1>5, <1>9 DEF SameOffer
    <3>2. ProperLegs(cand, cand.routes[r])
      BY <1>5, LineFacts
    <3>3. BusFits(c, v)
      BY <1>5, <1>9, <2>5, <3>1, <3>2, BusFitsSame
    <3>4. QED
      BY <2>2, <3>3
  <2>6. QED
    BY <1>7, <2>1, <2>2, <2>4, <2>5
<1>11. CityFits(d) /\ d.routes = c.routes /\ d.platforms = c.platforms
  BY <1>6, <1>8, <1>9, <1>10, CollectFits
<1>12. Structure(d, r) # Structure(prev, r) => prev.routes[r].revision < MaxRevision
  <2>1. c.platforms = cand.platforms /\ c.routes[r].pattern = cand.routes[r].pattern
    BY <1>1, <1>2, <1>3, <1>6, <1>7, <1>8, EditedCityFits
  <2>2. Structure(d, r) = Structure(cand, r)
    BY <1>5, <1>9, <1>11, <2>1, SameStructure
  <2>3. Structure(cand, r) # Structure(prev, r) => prev.routes[r].revision < MaxRevision
    BY <1>3 DEF EditedBy
  <2>4. QED
    BY <2>2, <2>3
<1>13. QED
  BY <1>11, <1>12

LEMMA UpdateRouteFits ==
  ASSUME IInv, NEW pattern \in Patterns, NEW ids \in WaypointLists, UpdateRoute(pattern, ids)
  PROVE  IInv'
<1>1. PICK prev, d, r : prev = city /\ d = city' /\ r = draft.line
  OBVIOUS
<1>2. /\ CityFits(prev) /\ r \in Lines(prev) /\ ValidWaypoints(prev, Range(prev.routes[r].waypoints), ids)
      /\ draft' = None
  BY <1>1, EditedByUpdate DEF IInv
<1>3. PICK revision, f : EditedBy(prev, d, r, pattern, ids, revision, f)
  BY <1>1, EditedByUpdate
<1>4. CityFits(d)
  BY <1>2, <1>3, EditedByFits
<1>5. DraftFits(d, None)
  BY DEF DraftFits
<1>6. QED
  BY <1>1, <1>2, <1>4, <1>5 DEF IInv

-----------------------------------------------------------------------------
(* The start.                                                               *)

BareCity == [network |-> OpenNetwork, stops |-> [s \in Stops |-> "present"],
             platforms |-> [s \in Stops |-> BareStop],
             routes |-> [r \in RouteIds |-> None], buses |-> [b \in BusIds |-> None]]

\* A city without lines.
LEMMA BareCityFits == CityFits(BareCity) /\ Lines(BareCity) = {}
<1>1. PICK c : c = BareCity
  OBVIOUS
<1>2. BareStop \in [1..Platforms -> SUBSET RouteIds]
  BY DEF BareStop
<1>3. c \in City
  BY <1>1, <1>2, Bounds DEF City, BareCity
<1>4. Lines(c) = {}
  BY <1>1 DEF Lines, BareCity
<1>5. \A s : Through(c, s) = {}
  BY <1>4 DEF Through
<1>6. LinesFit(c) /\ StopsFit(c)
  BY <1>4 DEF LinesFit, StopsFit
<1>7. NodesFit(c)
  <2>1. \A s \in Stops : c.stops[s] = "present"
    BY <1>1 DEF BareCity
  <2>2. QED
    BY <2>1 DEF NodesFit, NodeLifetimeLoads
<1>8. PlatformsFit(c)
  <2>1. SUFFICES ASSUME NEW s \in Stops
                 PROVE  PlatformsLoad(c, s)
    BY DEF PlatformsFit
  <2>2. c.platforms[s] = BareStop
    BY <1>1 DEF BareCity
  <2>3. \A p \in 1..Platforms : BareStop[p] = {}
    BY DEF BareStop
  <2>4. HoldsOnce(c.platforms[s], Through(c, s))
    BY <1>2, <1>5, <2>2, <2>3 DEF HoldsOnce
  <2>5. QED
    BY <1>3, <2>4, LoadedAndHeld
<1>9. BusesFit(c)
  BY <1>1 DEF BusesFit, BareCity
<1>10. QED
  BY <1>1, <1>3, <1>4, <1>6, <1>7, <1>8, <1>9 DEF CityFits

LEMMA InitFits ==
  ASSUME Init
  PROVE  IInv
<1>1. PICK prev : prev = BareCity
  OBVIOUS
<1>2. PICK ids \in WaypointLists :
        /\ Range(ids) = Stops /\ ValidWaypoints(prev, {}, ids) /\ ~IsBroken(ResolveRouteLegs(prev, "shuttle", ids))
        /\ city = [prev EXCEPT
             !.routes[1] = [waypoints |-> ids, pattern |-> "shuttle", revision |-> 0, active |-> TRUE,
                            legs |-> MergeResolvedLegs(<<>>, ResolveRouteLegs(prev, "shuttle", ids))],
             !.platforms = PlatformDelta(prev, 1, {}, Stops),
             !.buses[1] = [route |-> 1, leg |-> 1, step |-> 0, parked |-> "driving", stray |-> FALSE]]
        /\ draft = None
  BY <1>1 DEF Init, BareCity
<1>3. prev \in City /\ CityFits(prev) /\ Lines(prev) = {} /\ PlatformsFit(prev)
  BY <1>1, BareCityFits DEF CityFits
<1>4. Itinerary(ids) /\ \A s \in Range(ids) : prev.stops[s] # "none"
  BY <1>2, <1>3, AcceptedWaypoints
<1>5. PICK pattern \in Patterns : pattern = "shuttle"
  BY DEF Patterns
<1>6. PICK r : r = 1
  OBVIOUS
<1>7. r = 1 /\ pattern = "shuttle"
  BY <1>5, <1>6
<1>8. r \in RouteIds /\ 1 \in BusIds
  BY <1>7, Bounds
<1>9. PICK route, v, f, g, c :
        /\ route = NewRoute(prev, pattern, ids)
        /\ v = [route |-> r, leg |-> 1, step |-> 0, parked |-> "driving", stray |-> FALSE]
        /\ f = PlatformDelta(prev, r, {}, Stops)
        /\ g = [prev.buses EXCEPT ![1] = v]
        /\ c = [prev EXCEPT !.routes = [@ EXCEPT ![r] = route], !.platforms = f, !.buses = g]
  OBVIOUS
<1>10. city = c
  BY <1>2, <1>7, <1>9 DEF NewRoute
<1>11. /\ route \in Route /\ route.waypoints = ids /\ route.pattern = pattern /\ route.revision = 0
       /\ Derived(prev, route, <<>>)
  BY <1>3, <1>4, <1>9, NewRouteFacts
<1>12. v \in Bus /\ v.route = r /\ v.leg = 1 /\ v.step = 0 /\ v.parked = "driving"
  BY <1>8, <1>9 DEF Bus, Places
<1>13. f \in [Stops -> [1..Platforms -> SUBSET RouteIds]]
  <2>1. PICK old, new : old = {} /\ new = Stops
    OBVIOUS
  <2>2. old \in SUBSET Stops /\ new \in SUBSET Stops /\ f = PlatformDelta(prev, r, old, new)
    BY <1>9, <2>1
  <2>3. \A s \in Stops : r \in Through(prev, s) <=> s \in old
    BY <1>3, <2>1 DEF Through
  <2>4. QED
    BY <1>3, <1>8, <2>2, <2>3, DeltaHolds
<1>14. g \in [BusIds -> Bus \cup {None}] /\ g[1] = v /\ \A b \in BusIds \ {1} : g[b] = prev.buses[b]
  BY <1>3, <1>8, <1>9, <1>12 DEF City
<1>15. /\ c \in City /\ c.routes = [prev.routes EXCEPT ![r] = route] /\ c.network = prev.network
       /\ c.stops = prev.stops /\ c.platforms = f /\ c.buses = g
  <2>1. PICK routes : routes = [prev.routes EXCEPT ![r] = route]
    OBVIOUS
  <2>2. routes \in [RouteIds -> Route \cup {None}]
    BY <1>3, <1>11, <2>1 DEF City
  <2>3. c = [prev EXCEPT !.routes = routes, !.platforms = f, !.buses = g]
    BY <1>9, <2>1
  <2>4. /\ c \in City /\ c.routes = routes /\ c.network = prev.network
        /\ c.stops = prev.stops /\ c.platforms = f /\ c.buses = g
    BY <1>3, <1>13, <1>14, <2>2, <2>3 DEF City
  <2>5. QED
    BY <2>1, <2>4
<1>16. WithLine(prev, c, r, route)
  BY <1>3, <1>8, <1>11, <1>15 DEF WithLine
<1>17. Lines(c) = Lines(prev) \cup {r} /\ c.routes[r] = route
  BY <1>16, WithLineFacts
<1>18. BusFits(c, v)
  <2>1. PICK legs : legs = route.legs
    OBVIOUS
  <2>2. ProperLegs(prev, route)
    <3>1. <<>> \in Seq(Leg)
      OBVIOUS
    <3>2. QED
      BY <1>3, <1>4, <1>11, <3>1, DerivedIsProper
  <2>3. legs \in Seq(Leg) /\ legs # <<>>
    BY <2>1, <2>2 DEF ProperLegs
  <2>4. 1 \in 1..Len(legs)
    BY <2>3
  <2>5. legs[1].path.steps \in Nat
    <3>1. legs[1] \in Leg
      BY <2>3, <2>4, ElementOfSeq
    <3>2. legs[1].path \in Ways
      BY <3>1 DEF Leg
    <3>3. QED
      BY <3>2, WayFacts
  <2>6. ~IsBroken(legs)
    <3>1. PICK resolved : resolved = ResolveRouteLegs(prev, pattern, ids)
      OBVIOUS
    <3>2. resolved \in Seq(Leg) /\ ~IsBroken(resolved)
      BY <1>2, <1>3, <1>4, <1>7, <3>1, LegsResolved
    <3>3. legs = MergeResolvedLegs(<<>>, resolved)
      BY <1>11, <2>1, <3>1 DEF Derived
    <3>4. <<>> \in Seq(Leg)
      OBVIOUS
    <3>5. Len(legs) = Len(resolved) /\ \A i \in 1..Len(resolved) : legs[i].status = resolved[i].status
      BY <3>2, <3>3, <3>4, Merged
    <3>6. QED
      BY <3>2, <3>5 DEF IsBroken
  <2>7. QED
    BY <1>12, <1>17, <2>1, <2>4, <2>5, <2>6 DEF BusFits, LegLoads, StepLoads, StandsRight
<1>19. CityFits(c)
  <2>1. route.revision <= MaxRevision
    BY <1>11, Bounds
  <2>2. c.platforms = PlatformDelta(prev, r, {}, Range(route.waypoints))
    BY <1>2, <1>9, <1>11, <1>15
  <2>3. \A b \in BusIds : c.buses[b] # None => prev.buses[b] = c.buses[b] \/ BusFits(c, c.buses[b])
    <3>1. TAKE b \in BusIds
    <3>2. CASE b = 1
      BY <1>14, <1>15, <1>18, <3>2
    <3>3. CASE b # 1
      BY <1>14, <1>15, <3>3
    <3>4. QED
      BY <3>2, <3>3
  <2>4. r \notin Lines(prev)
    BY <1>3
  <2>5. QED
    BY <1>3, <1>4, <1>11, <1>16, <2>1, <2>2, <2>3, <2>4, NewLineFits
<1>20. DraftFits(c, None)
  BY DEF DraftFits
<1>21. QED
  BY <1>2, <1>10, <1>19, <1>20 DEF IInv

-----------------------------------------------------------------------------
(* The theorems.                                                            *)

LEMMA StepFits ==
  ASSUME IInv, [Next]_vars
  PROVE  IInv'
<1>1. CASE UNCHANGED vars
  BY <1>1 DEF IInv, vars
<1>2. CASE ChangeRoads
  BY <1>2, ChangeRoadsFits
<1>3. CASE \E s \in Stops : AddBusStop(s) \/ RemoveStop(s)
  BY <1>3, AddBusStopFits, RemoveStopFits
<1>4. CASE \E pattern \in Patterns, ids \in WaypointLists : CreateRoute(pattern, ids) \/ UpdateRoute(pattern, ids)
  BY <1>4, CreateRouteFits, UpdateRouteFits
<1>5. CASE \E r \in RouteIds : OpenRouteEdit(r) \/ DeleteRoute(r) \/ SetRouteActive(r)
  BY <1>5, OpenRouteEditFits, DeleteRouteFits, SetRouteActiveFits
<1>6. CASE \E s \in Stops, r \in RouteIds, p \in 1..Platforms : AssignRouteToPlatform(s, r, p)
  BY <1>6, AssignRouteToPlatformFits
<1>7. CASE \E r \in RouteIds, b \in BusIds : AssignVehicle(r, b)
  BY <1>7, AssignVehicleFits
<1>8. CASE TickVehicles
  BY <1>8, TickVehiclesFits
<1>9. QED
  BY <1>1, <1>2, <1>3, <1>4, <1>5, <1>6, <1>7, <1>8 DEF Next

\* In every state: each line follows the network, its stops, platforms and buses can be
\* opened again, parked buses stand at a stop, and the editor's revision tells whether its
\* line is as it was.
THEOREM Invariance == Spec => []IInv
<1>1. Init => IInv
  BY InitFits
<1>2. IInv /\ [Next]_vars => IInv'
  BY StepFits
<1>3. QED
  BY <1>1, <1>2, PTL DEF Spec

\* Every line is what the present stops and roads make of it (recompute_all_routes after
\* each change of the network, and merge_resolved_legs twice is once).
THEOREM LinesFollow == Spec => []LinesFollowTheNetwork
<1>1. IInv => LinesFollowTheNetwork
  BY DEF IInv, CityFits, LinesFit, FollowsNetwork, LinesFollowTheNetwork
<1>2. QED
  BY <1>1, Invariance, PTL

\* The lines, stops, platforms and buses of a city pass the loader's checks
\* (persistence/entities.rs), but for the step of a stray bus.
THEOREM LinesLoad == Spec => []SavedLinesLoad
<1>1. IInv => SavedLinesLoad
  <2>1. SUFFICES ASSUME IInv
                 PROVE  SavedLinesLoad
    OBVIOUS
  <2>2. city \in City /\ LinesFit(city) /\ StopsFit(city) /\ NodesFit(city) /\ PlatformsFit(city) /\ BusesFit(city)
    BY <2>1 DEF IInv, CityFits
  <2>3. \A r \in Lines(city) : WaypointsLoad(city, r)
    BY <2>2 DEF LinesFit, StopsFit, Itinerary, WaypointsLoad
  <2>4. \A s \in Stops : NodeLifetimeLoads(city, s) /\ PlatformsLoad(city, s)
    BY <2>2 DEF NodesFit, PlatformsFit
  <2>5. \A b \in BusIds : city.buses[b] # None =>
          LegLoads(city, city.buses[b]) /\ (StepLoads(city, city.buses[b]) \/ city.buses[b].stray)
    BY <2>2 DEF BusesFit, BusFits
  <2>6. QED
    BY <2>3, <2>4, <2>5 DEF SavedLinesLoad
<1>2. QED
  BY <1>1, Invariance, PTL

\* A parked bus stands at a stop of its line, and at the one it leaves from unless the line
\* is broken, whatever became of stops, roads and the line.
THEOREM ParkedBusesStand == Spec => []ParkedBusesStandAtTheirStop
<1>1. IInv => ParkedBusesStandAtTheirStop
  BY DEF IInv, CityFits, BusesFit, BusFits, StandsRight, Reached, ParkedBusesStandAtTheirStop
<1>2. QED
  BY <1>1, Invariance, PTL

\* The editor's revision (revision_tracked_route_update): an edit that changes its line
\* finds it as the editor saw it, and a new line leaves the others as they are.
THEOREM EditsLand == Spec => EditsLandOnWhatTheyOpened
<1> DEFINE Lands == draft # None /\ draft' = None /\ draft.line \in Lines(city) /\ draft.line \in Lines(city')
                    /\ Structure(city', draft.line) # Structure(city, draft.line)
                  => Structure(city, draft.line) = draft.seen
<1>1. IInv /\ [Next]_vars => [Lands]_vars
  <2>1. SUFFICES ASSUME IInv, Next, draft # None, draft' = None, draft.line \in Lines(city),
                        Structure(city', draft.line) # Structure(city, draft.line)
                 PROVE  Structure(city, draft.line) = draft.seen
    BY DEF vars
  <2>2. CASE \E pattern \in Patterns, ids \in WaypointLists : UpdateRoute(pattern, ids)
    <3>1. PICK pattern \in Patterns, ids \in WaypointLists : UpdateRoute(pattern, ids)
      BY <2>2
    <3>2. PICK prev, d, r : prev = city /\ d = city' /\ r = draft.line
      OBVIOUS
    <3>3. /\ CityFits(prev) /\ r \in Lines(prev) /\ prev.routes[r].revision = draft.revision
          /\ ValidWaypoints(prev, Range(prev.routes[r].waypoints), ids)
      BY <2>1, <3>1, <3>2, EditedByUpdate DEF IInv
    <3>4. PICK revision, f : EditedBy(prev, d, r, pattern, ids, revision, f)
      BY <2>1, <3>1, <3>2, EditedByUpdate
    <3>5. Structure(d, r) # Structure(prev, r) => prev.routes[r].revision < MaxRevision
      BY <3>3, <3>4, EditedByFits
    <3>6. DraftFits(prev, draft)
      BY <2>1, <3>2 DEF IInv
    <3>7. QED
      BY <2>1, <3>2, <3>3, <3>5, <3>6 DEF DraftFits
  <2>3. CASE \E pattern \in Patterns, ids \in WaypointLists : CreateRoute(pattern, ids)
    BY <2>1, <2>3, CreateRouteFits
  <2>4. CASE \E r \in RouteIds : OpenRouteEdit(r)
    <3>1. PICK r \in RouteIds : OpenRouteEdit(r)
      BY <2>4
    <3>2. draft' = [line |-> r, revision |-> city.routes[r].revision, seen |-> Structure(city, r)]
      BY <3>1 DEF OpenRouteEdit
    <3>3. "line" \in DOMAIN draft'
      BY <3>2
    <3>4. DOMAIN None = {"absent"}
      BY DEF None
    <3>5. QED
      BY <2>1, <3>3, <3>4
  <2>5. CASE draft' = draft
    BY <2>1, <2>5
  <2>6. QED
    BY <2>1, <2>2, <2>3, <2>4, <2>5
       DEF Next, ChangeRoads, AddBusStop, RemoveStop, DeleteRoute, SetRouteActive,
           AssignRouteToPlatform, AssignVehicle, TickVehicles
<1>2. QED
  BY <1>1, Invariance, PTL DEF Spec, EditsLandOnWhatTheyOpened
=============================================================================
