----------------------------- MODULE MCBusLines -----------------------------
(* Three stops along a road that goes on as a ring: buses turn by driving round it.  *)
EXTENDS BusLines

MCStops == {"a", "b", "c"}
East == {<<"a", "b">>, <<"b", "c">>, <<"a", "c">>}

Road(at) == [at |-> at, heading |-> "east"]
Way(via, steps, heading) == [via |-> via, steps |-> steps, departs |-> heading, arrives |-> heading]
Both(road) == [p \in MCStops \X MCStops |->
                IF p[1] = p[2] THEN NoWay ELSE Way(road, 1, IF p \in East THEN "east" ELSE "west")]
AllAround == [s \in MCStops |-> [NoWay EXCEPT !.via = "ring", !.steps = 2]]

Open == [access |-> [s \in MCStops |-> Road(s)], way |-> Both("road"), turn |-> AllAround]
\* The road to c is gone.
Cut == [Open EXCEPT !.way = [p \in MCStops \X MCStops |-> IF "c" \in {p[1], p[2]} THEN NoWay ELSE @[p]]]
\* The road is one-way: back is round the ring, and nobody turns.
OneWay == [Open EXCEPT !.way = [p \in MCStops \X MCStops |->
             IF p[1] # p[2] /\ p \notin East THEN Way("ring", 2, "east") ELSE @[p]]]
\* b is reached from the other side.
Moved == [Open EXCEPT !.access["b"] = Road("behind b"),
                      !.way = [p \in MCStops \X MCStops |->
                         IF "b" \in {p[1], p[2]} /\ p[1] # p[2] THEN [@[p] EXCEPT !.via = "back road"] ELSE @[p]]]
\* b is reached from where a is.
Shared == [Open EXCEPT !.access["b"] = Road("a")]
\* No road reaches a.
Dark == [Open EXCEPT !.access["a"] = NoAccess]

MCNetworks == {Open, Cut, OneWay, Moved, Shared, Dark}
MCWaypointLists == {<<"a", "b", "c">>, <<"a", "b">>, <<"c", "b">>}
=============================================================================
