---------------------------- MODULE MCPopulation ----------------------------
\* An instance of Population for TLC: a day of six steps, two shifts and a school.
EXTENDS Population

Own(shift) == [p \in {0, 1} |-> shift]
Building(residents, jobs, hours, school, site) ==
  [residents |-> residents, jobs |-> jobs, hours |-> hours, school |-> school, site |-> site]

MCDeparts == [standard |-> 1, late |-> 2, school |-> 1]
MCReturns == [standard |-> 4, late |-> 5, school |-> 3]
MCTemplates == <<"standard", "late">>
MCOutingDepart(c, day) == IF (c + day) % 2 = 0 THEN 3 ELSE 1

\* A house of two, a school without jobs of its own, a plaza to work at or to go to on a
\* day off, and a factory with its own hours.
MCCatalog ==
  [house |-> Building(2, 0, Own(None), FALSE, FALSE),
   school |-> Building(0, 0, Own(None), TRUE, FALSE),
   plaza |-> Building(0, 1, Own(None), FALSE, TRUE),
   factory |-> Building(0, 1, [p \in {0, 1} |-> IF p = 0 THEN "late" ELSE "standard"], FALSE, FALSE)]
MCInitialBuildings == <<"house", "school", "plaza">>

\* Three days and a half as long as nothing is built, almost two days otherwise.
MCHorizon == [placed \in 3..4 |-> IF placed = 3 THEN 20 ELSE 10]
=============================================================================
