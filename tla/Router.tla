------------------------------- MODULE Router -------------------------------
(***************************************************************************)
(* How a trip is planned: the itineraries that lines run (service_itinerary *)
(* .rs), the rides they offer, and the choice among walking, one ride and  *)
(* two rides (router.rs).  Pure definitions; TripTick plans with them.     *)
(*                                                                         *)
(* Times are whole seconds.  A position is a pair measured in seconds of   *)
(* walking along each axis, so a walk takes its Manhattan length.  Paths   *)
(* are the sequences of their steps' seconds: the geometry is not needed.  *)
(***************************************************************************)
EXTENDS Integers, Sequences, FiniteSetsExt

CONSTANTS
  Where,            \* [stop -> position]: where passengers wait and alight
  StepSeconds,      \* [<<stop, stop>> -> path]: the path between two stops
  TurnSeconds,      \* [stop -> path]: the terminal reversal, possibly empty
  BoardingSeconds   \* the estimated cost of boarding any vehicle

ASSUME RouterAssumption ==
  /\ \A s \in DOMAIN Where : Where[s] \in Nat \X Nat
  /\ \A p \in DOMAIN StepSeconds : StepSeconds[p] \in Seq(Nat \ {0}) /\ StepSeconds[p] # <<>>
  /\ \A s \in DOMAIN TurnSeconds : TurnSeconds[s] \in Seq(Nat \ {0})
  /\ BoardingSeconds \in Nat

\* What the first n of them take together, for every n.
SumsOf(seconds) ==
  LET sum[n \in 0..Len(seconds)] == IF n = 0 THEN 0 ELSE sum[n - 1] + seconds[n]
  IN  sum
Sum(seconds) == SumsOf(seconds)[Len(seconds)]
Distance(a, b) == IF a < b THEN b - a ELSE a - b
WalkSeconds(p, q) == Distance(p[1], q[1]) + Distance(p[2], q[2])

-----------------------------------------------------------------------------
(* Itineraries: a pattern is the kind of a line and its stops in order.    *)

ServiceLeg(from, to) ==
  [kind |-> "service", from |-> from, to |-> to, steps |-> StepSeconds[<<from, to>>]]
TerminalReversal(stop) ==
  [kind |-> "reversal", from |-> stop, to |-> stop, steps |-> TurnSeconds[stop]]

\* Position n of a cycle that is at most one round too far.
Around(cycle, n) == IF n > Len(cycle) THEN n - Len(cycle) ELSE n

LoopLegs(ids) == [i \in 1..Len(ids) |-> ServiceLeg(ids[i], ids[Around(ids, i + 1)])]

ShuttleLegs(ids) ==
  LET n == Len(ids)
  IN  [i \in 1..(2 * n) |->
         IF i < n THEN ServiceLeg(ids[i], ids[i + 1])
         ELSE IF i = n THEN TerminalReversal(ids[n])
         ELSE IF i < 2 * n THEN ServiceLeg(ids[2 * n + 1 - i], ids[2 * n - i])
         ELSE TerminalReversal(ids[1])]

ServiceItinerary(pattern) ==
  IF pattern.kind = "loop" THEN LoopLegs(pattern.stops) ELSE ShuttleLegs(pattern.stops)

PathsExist(legs) ==
  \A i \in DOMAIN legs : IF legs[i].kind = "service" THEN <<legs[i].from, legs[i].to>> \in DOMAIN StepSeconds
                         ELSE legs[i].from \in DOMAIN TurnSeconds

\* The legs a vehicle may board at.
ServiceVisits(legs) == {i \in DOMAIN legs : legs[i].kind = "service"}

\* The service leg that arrives where leg i departs: the nearest one going back.
PreviousServiceLeg(legs, i) ==
  LET before == {j \in ServiceVisits(legs) : j < i}
  IN  IF before # {} THEN Max(before) ELSE Max(ServiceVisits(legs))

\* From the departure of leg i to the arrival of leg `last`, which may lie behind it.
RideSeconds(legs, i, last) ==
  LET ridden == last - i + 1 + (IF last < i THEN Len(legs) ELSE 0)
  IN  BoardingSeconds + Sum([k \in 1..ridden |-> Sum(legs[Around(legs, i + k - 1)].steps)])

\* Every ride from a visit to a later one before the itinerary repeats.
RideEdges(legs) ==
  LET Ride(i, j) ==
        LET last == PreviousServiceLeg(legs, j)
        IN  [board |-> i, alight |-> last, from |-> legs[i].from, to |-> legs[j].from,
             seconds |-> RideSeconds(legs, i, last)]
  IN  {Ride(p[1], p[2]) : p \in {q \in ServiceVisits(legs) \X ServiceVisits(legs) : q[1] # q[2]}}

-----------------------------------------------------------------------------
(* Plans.  A service is [line, rides] for a line that runs; a chain is the  *)
(* sequence of at most two of its rides, the empty chain being the walk.   *)

RidesOn(service) ==
  {[line |-> service.line, board |-> e.board, alight |-> e.alight,
    from |-> Where[e.from], to |-> Where[e.to], seconds |-> e.seconds] : e \in service.rides}

Chains(services) ==
  LET rides == UNION {RidesOn(s) : s \in services}
  IN  {<<>>} \cup {<<r>> : r \in rides}
      \cup {q \in rides \X rides : q[1].line # q[2].line}

EstimatedSeconds(chain, origin, destination) ==
  IF chain = <<>> THEN WalkSeconds(origin, destination)
  ELSE WalkSeconds(origin, chain[1].from) + chain[1].seconds
       + (IF Len(chain) = 2 THEN WalkSeconds(chain[1].to, chain[2].from) + chain[2].seconds ELSE 0)
       + WalkSeconds(chain[Len(chain)].to, destination)

NoRide == [line |-> 0, board |-> 0, alight |-> 0]

\* Six numbers; a ride that is not taken comes before every ride.
IdentityKey(chain) ==
  LET Ride(n) == IF n <= Len(chain) THEN chain[n] ELSE NoRide
  IN  <<Ride(1).line, Ride(1).board, Ride(1).alight, Ride(2).line, Ride(2).board, Ride(2).alight>>

KeyBefore(s, t) == \E n \in 1..6 : s[n] < t[n] /\ \A m \in 1..(n - 1) : s[m] = t[m]

WalkLeg(from, to) == [line |-> 0, board |-> 0, alight |-> 0, from |-> from, to |-> to]
TransitLeg(r) ==
  [line |-> r.line, board |-> r.board, alight |-> r.alight, from |-> r.from, to |-> r.to]

PlanLegs(chain, origin, destination) ==
  IF chain = <<>> THEN <<WalkLeg(origin, destination)>>
  ELSE IF Len(chain) = 1
  THEN <<WalkLeg(origin, chain[1].from), TransitLeg(chain[1]), WalkLeg(chain[1].to, destination)>>
  ELSE <<WalkLeg(origin, chain[1].from), TransitLeg(chain[1]), WalkLeg(chain[1].to, chain[2].from),
         TransitLeg(chain[2]), WalkLeg(chain[2].to, destination)>>

\* The fastest chain, none with a lesser identity key among equals.
Fastest(chains, origin, destination) ==
  LET Seconds(c) == EstimatedSeconds(c, origin, destination)
      least == Min({Seconds(c) : c \in chains})
      fastest == {c \in chains : Seconds(c) = least}
  IN  CHOOSE c \in fastest : \A d \in fastest : ~KeyBefore(IdentityKey(d), IdentityKey(c))

FindRoutePlan(services, origin, destination) ==
  LET best == Fastest(Chains(services), origin, destination)
  IN  [legs |-> PlanLegs(best, origin, destination),
       seconds |-> EstimatedSeconds(best, origin, destination)]
=============================================================================
