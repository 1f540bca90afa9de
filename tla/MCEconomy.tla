----------------------------- MODULE MCEconomy -----------------------------
\* Two stops "a" (a plain stop) and "b" (a terminal), a street "x" between them and a
\* way round "y"; both are land that the stops develop where there is no road.
EXTENDS Economy

MCNodeAt == [a |-> "a", b |-> "b"]
MCBeside == [a |-> {"x", "y"}, b |-> {"x", "y"}]
MCCoverage == [a |-> <<"x", "y">>, b |-> <<"x">>]
MCAdjacent == [t \in {"a", "b", "x", "y"} |->
                 IF t = "x" THEN {"y"} ELSE {}]
MCLineStops == [l |-> {"a", "b"}]
MCCorridors == [l |-> {{"x"}, {"y"}}]
MCNodeOrder == <<"a", "b">>
MCStrokes == {<<"x", "y">>}
MCRectangles == {{"x", "y"}}
MCMinMoney == -1
MCPrice == [road |-> 1, busStop |-> 1, busTerminal |-> 1, smallHouse |-> 1, supermarket |-> 1, bus |-> 1]
=============================================================================
