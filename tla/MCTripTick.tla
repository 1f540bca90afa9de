----------------------------- MODULE MCTripTick -----------------------------
(* Three stops in a row, two lines that meet in the middle, one-seat buses. *)
EXTENDS TripTick, TLC

MCWhere == "a" :> <<0, 0>> @@ "b" :> <<8, 0>> @@ "c" :> <<14, 2>>
MCAccess == "a" :> <<0, 2>> @@ "b" :> <<8, 2>> @@ "c" :> <<14, 4>>
MCStepSeconds ==
  [p \in {"a", "b", "c"} \X {"a", "b", "c"} |->
     IF p = <<"b", "c">> THEN <<1, 1>> ELSE IF p = <<"c", "a">> THEN <<3>> ELSE <<2>>]
MCTurnSeconds == "a" :> <<>> @@ "b" :> <<1>> @@ "c" :> <<>>

West == [kind |-> "shuttle", stops |-> <<"a", "b">>]
East == [kind |-> "shuttle", stops |-> <<"b", "c">>]
Ring == [kind |-> "loop", stops |-> <<"a", "b", "c">>]
MCPatterns == {West, East, Ring}
MCInitialLines == <<West, East>>

\* Trips start and end at buildings, never on a stop or a road.  Two change at b and
\* compete for one seat, one goes by car, and one needs the platform of b meanwhile.
MCDemands ==
  <<[due |-> 1, from |-> <<2, 0>>, to |-> <<14, 6>>, drive |-> 0],
    [due |-> 1, from |-> <<0, 4>>, to |-> <<16, 2>>, drive |-> 0],
    [due |-> 3, from |-> <<6, 0>>, to |-> <<0, 4>>, drive |-> 3],
    [due |-> 5, from |-> <<10, 0>>, to |-> <<0, 2>>, drive |-> 0]>>
MCDeltas == {1, 3}
=============================================================================
