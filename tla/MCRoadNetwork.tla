--------------------------- MODULE MCRoadNetwork ---------------------------
(* A small grid for RoadNetwork: a road across, roads that meet it from     *)
(* either side, one beside it, two places for a roundabout.                 *)
EXTENDS RoadNetwork

\* The straight line between two tiles, as a drag draws it.
Line(from, to) ==
    LET h == CHOOSE h \in Headings : \E k \in 1..4 : Ahead(from, h, k) = to
        k == CHOOSE k \in 1..4 : Ahead(from, h, k) = to
    IN  [i \in 1..(k + 1) |-> Ahead(from, h, i - 1)]

McStrokes == {Line(<<0, 1>>, <<3, 1>>), Line(<<1, 0>>, <<1, 2>>), Line(<<2, 2>>, <<2, 0>>),
              Line(<<0, 0>>, <<1, 0>>), Line(<<0, 2>>, <<1, 2>>)}
McTaps == {<<2, 1>>, <<0, 0>>, <<3, 1>>}
McAreas == {<<<<1, 0>>, <<2, 0>>, <<1, 1>>, <<2, 1>>>>}
McRoundabouts == {<<"compact", <<1, 0>>>>, <<"standard", <<1, 0>>>>}
McLines == {Line(<<3, 0>>, <<3, 2>>)}
=============================================================================
