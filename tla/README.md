# Caelum: models, checks and proofs

Caelum is a city-building transit simulation: the player draws roads, transit
lines and buildings, citizens move in, commute and go out, and buses carry
them. A deterministic Rust core (`crates/caelum-core`) holds the whole game. A
TypeScript runtime (`src/runtime`) sits between the player and that core, and
two hosts carry the core: a WASM module in the browser and a Tauri process on
the desktop. Cities are kept in IndexedDB or in files.

This directory specifies parts of that system in TLA+, model-checks them with
TLC and proves the main results about seven of them with TLAPS.
`PROJECT.json` lists, for every definition, the source lines it models, and for
every hazard the properties that watch it.

1. [The system](#1-the-system)
2. [Modules](#2-modules)
3. [How state and actions correspond to the code](#3-how-state-and-actions-correspond-to-the-code)
4. [What the runs check](#4-what-the-runs-check)
5. [Where the code and its own words differ](#5-where-the-code-and-its-own-words-differ)
6. [What is proved](#6-what-is-proved)
7. [What is not modelled, and why](#7-what-is-not-modelled-and-why)
8. [Plan](#8-plan)

## 1. The system

### Components, their state and their operations

| Component | State | Operations | What makes it correct |
|---|---|---|---|
| Working-save runtime (`workingSaveRuntime.ts`, `serializedQueue.ts`, parts of `createGameRuntime.ts`) | active city, `dirty`, `dead`, `busy`, the gameplay queue and its tail | save, load, createCity, renameCity, deleteCity; dispatch, reset, saveRouteDraft; dispose and fail | an exclusive operation has the engine to itself; "clean" means saved; no city is ever stored over another; unsaved work is not thrown away; the busy gate reopens |
| City save store (`citySaveStore.ts` and three implementations) | city id -> record | read, create, update, rename, delete, list | every operation happens at one instant or not at all; "ok" is never told before the commit |
| Service itineraries and router (`service_itinerary.rs`, `router.rs`, `route_choice.rs`) | none | itinerary of a line, ride edges, best plan, car or transit | the plan is one a vehicle can really carry out |
| Trips, vehicles, platforms (`trips.rs`, `transit.rs`, `platforms.rs`, `transit_income.rs`) | trips with plan, leg, patience; vehicles with cursor and riders; counters | tick, split at every boundary into substeps | seats, plans, waits and counters agree; order at the stop is fair; coarse and fine ticks do the same; everybody gets there |
| Route lifecycle and service control (`route_lifecycle.rs`, `route_editor.rs`, `service_control.rs`) | lines, operational or broken, active or paused; fleets | create, edit, delete, pause, break, reconnect, deploy, add, retire | nothing a trip counts on disappears under it |
| Population (`population/schedule.rs`, `commute.rs`, `clock.rs`) | citizens with home, job, shift, whereabouts, next activity; scheduler; worker index | move-in, daily routine, outing, trip resolution, reconciliation of buildings, growth, save, load | every citizen is owned by one wake, demand or trip; jobs, homes and scheduler agree; the save reloads to the same world |
| Economy: dispatch, budget, building, undo (`engine.rs`, `build_undo.rs`, `cost_policy.rs`, `operating_cost.rs`, `areas.rs`, `buildings.rs`, `growth.rs`, `transit_nodes.rs`) | roads, zones, stops, buildings, lines with their buses, budget, undo record | lay, paint, place, demolish; create, staff, pause, delete a line; undo with refund; day charge, fares, growth | an undo takes back exactly one build and its price, or nothing; it breaks no line; buildings stand on their zone; a line says what the network says |
| Roads, topology, roundabouts (`road.rs`, `road_topology.rs`, `roundabouts.rs`, `heading.rs`, `transit.rs`) | tile grid with arrows and links, structures with ports | strokes in three presets, single roads, arrows, roundabouts, track, removals; the automatic junctions; the compiled movements; a way between tiles | links are answered from the other side; tiles and structures agree; junctions are found at once, roundabouts go whole; what the map shows can be driven; the map loads |
| Traffic (`traffic.rs`) | flow per tile | congestion multiplier | multiplier between 1 and 3 |
| Lines on the network, stop access, platforms (`network.rs`, `stop_access.rs`, `transit_nodes.rs`, `platforms.rs`) | access of a stop, legs of a line, platforms, missing stops, place of every bus | derive, recompute after an edit, assign and reassign a platform, tombstone and collect a stop | a line says what the network says; a parked bus stands at its stop; a stop is missing as long as a line names it; an edit lands on what its author saw |
| Persistence (`persistence/*.rs`) | none | encode, validate | what the game saves, the game loads |
| Preview coordinator and route draft (`previewCoordinator.ts`, `routeDraft.ts`) | epoch, generation, draft | request, answer, save | an old answer neither shows nor unlocks Save |
| WebGPU host (`createWebGpuHost.ts`) | one tick in flight | frame, tick, attach, detach | the clock never stops for good |
| Desktop and web hosts (`src-tauri/src/lib.rs`, `caelum-wasm`) | engine, owner epoch | commands | what a reloaded webview left behind changes nothing |
| Rendering and shell | none | draw | pure projections |

### How they interact

- The player's intents and the host's ticks enter through one promise chain, the
  gameplay queue; its head is sent to the engine and the answer is folded into
  the runtime's state. Exclusive operations close the gate of that queue, wait for
  what it still holds, and then talk to engine and store alone.
- The engine applies an intent to its snapshot, reconciles the population
  (`commit_snapshot`) and answers with an update. A tick alternates between
  draining the scheduler, spawning trips from demands, and a substep that moves
  vehicles, then trips, up to the next boundary. Resolved trips go back to the
  population, which schedules the traveller's next activity.
- The store sees one request at a time from each client; on the desktop the
  Tauri process runs the commands under one lock, in the browser several tabs
  share one database.

### What is hard here

Interleaving (a tick, an intent, a save and a disposed runtime meet between any
two awaits); ordering (vehicles, boarding, alighting and waiting inside one
substep; move-ins, wakes and demands at one instant); partial failure (a restore
that commits and then throws, a write that stops half-way, a transaction that
aborts on completion); stale references (a line, a building or an id that is
deleted and given out again while trips or scheduler rows still name it; an undo
record that outlives what it describes); limits (platform, vehicle, jobs,
patience, midnight, the budget's integer); derived state that is not saved
(scheduler and worker index). Nothing in the Rust core runs concurrently: its
hazards are long legal sequences, not threads. `PROJECT.json` lists each hazard at
its line with the properties that watch it.

## 2. Modules

| Module | Models | Composes |
|---|---|---|
| `WorkingSave` | the controller, the gameplay queue and failure | the engine and the store as the services of their contracts |
| `CityStore` | abstract: what any city store promises | |
| `CityFileStore` | the desktop store, call by call | refines `CityStore` |
| `IndexedDbCityStore` | the browser store, request by request, several tabs | refines `CityStore` |
| `Router` | itineraries, rides, plans (pure) | |
| `TripTick` | tick, trips, vehicles, platforms, lines, fleet | extends `Router` |
| `Population` | citizens, jobs, scheduler, growth, save and load | trips as something that ends well or badly |
| `Economy` | roads, zones, stops, buildings, lines, budget, growth, undo | trips as the fares they earn |
| `RoadNetwork` | the road and track layers, junctions, roundabouts, the compiled topology, the loader's checks of a map | |
| `BusLines` | lines, stops and platforms while roads and stops change; the place of every bus; the loader's checks of them | roads as what `RoadNetwork` makes of tiles: a way between two stops, or none |
| `PlaySession` | route draft, previews, gameplay queue, animation loop, the desktop engine and its reloads | save and load as a time of `busy` (they are in `WorkingSave`) |
| `WorkingSave_proofs`, `CityStores_proofs`, `TripTick_proofs`, `Population_proofs`, `Economy_proofs`, `RoadNetwork_proofs`, `BusLines_proofs`, `PlaySession_proofs` | theorems | |
| `MC*` | instances for TLC | |

A definition whose comment starts with "Fault:" is never part of a
specification. It is the definition next to it with a plausible programming
error, and is kept to show that a property tells the two apart: with the fault
put in, TLC finds that property violated (`PROJECT.json`, "mutants").

## 3. How state and actions correspond to the code

### WorkingSave

JavaScript runs one continuation at a time, so an action is the code between two
awaits. A call to the engine or the store is three steps: the request is sent,
the service acts, the continuation sees the answer. Anything else may happen
between them. A game world is `[city, ver]`: which city it descends from, and a
version that changes with every mutation.

- `Enqueue`, `StartOp`, `BackendMutates`/`BackendDeclines`,
  `FoldApplied`/`FoldUnchanged`/`FoldThrown` are `queueBackend` and the handlers
  of dispatch, reset and `saveRouteDraft`. A created line whose fleet is deployed
  in the same operation is the second request of `FoldApplied`.
- `Call`, `Drained`, the `Answer*` and the `Resume*` actions are the five
  exclusive operations; `pc` names the await they are suspended at. `Release` is
  the `finally` block. `dead` is read exactly where the code reads it.
- A thrown restore is ambiguous (`AnswerRestore`): the engine may have changed or
  not, and the continuation forgets the active city in both cases.
- `LostReplies` opens one more door: a route save that commits and whose answer
  is lost after the draft was superseded. The normal instance keeps it closed.

Lists of cities, publication to subscribers and the wording of errors are left out.

### CityStore, CityFileStore, IndexedDbCityStore

`CityStore` is the contract: an operation takes effect at one instant between
call and answer (`Perform`), or fails without effect (`Fail`), and its caller may
be gone before the answer (`Leave`). `memoryCitySaveStore.ts` is that in one step.

`CityFileStore` has one action per file-system call of `city_store.rs`: read,
removal of a stale temporary file, `create_new` open, write, `hard_link` (create)
or `rename` (update, rename), the best-effort removals, delete. Each may fail;
`Kill` ends the process between any two. `linked` remembers that a temporary
name is still a second name of the committed file, because POSIX `rename` does
nothing then. Loss of power is outside the store's design (it never syncs) and
not modelled.

`IndexedDbCityStore` has one action per request or transaction event. The
database is external: overlapping read-write transactions run one after the
other, any request may fail, any transaction may abort instead of completing,
and a closed tab aborts its own.

### Router and TripTick

`Router` translates the itinerary of a loop or a shuttle, the rides it offers
and the plan: the walk, one ride or two, the least estimate first and the
lexicographically least identity among equals. Paths are sequences of seconds
per step; their geometry is a constant. Sums and the repetitions inside a tick are
recursive functions, not RECURSIVE operators, so that section 6 can speak of them.

`TripTick` keeps the snapshot in one variable, `city`, because a tick is one
function of it, as `tick_trips` is. `TickTrips` spawns the demands that are due,
takes the nearest boundary (`Boundaries`), moves the clock, the vehicles
(`TickVehicles`) and the trips (`AdvanceActiveTrips`), and repeats. All times are
whole seconds and relative to the current instant (time left to the deadline,
patience left, progress in a step), so a city can return to a state it was in
and the state space of a running game is finite. The player's intents between
ticks are actions: `SetRouteActive`, `BreakService`, `RestoreService`,
`UpdateRoute`, `CreateRoute`, `DeleteRoute`, `DeployInitialFleet`,
`AddServiceVehicle`, `RetireServiceVehicle`.

What is simplified, and why it is safe to:

- Free-flow driving: the congestion multiplier is `clamp(flow/4, 1, 3)`, which
  is exactly 1 up to four cars on a road.
- One platform per stop. `BusLines` has the platforms of a terminal, and moves
  lines between them.
- A parked vehicle may take any departure of its itinerary; the code takes the
  nearest. Every behaviour of the code is among those of the model.
- Day and growth boundaries split ticks further but change no trip; they are in
  `Population`.
- Stops stand for the whole run; they come and go, with what that does to a line,
  in `BusLines`, and are paid for in `Economy`. Revisions are in `BusLines`.
- Offsets of the fleet are rounded down to whole seconds.
- Trips are numbered in id order. The code orders ids as text, which agrees up
  to 999 trips a day.
- `clock` and `left` stop counting where no property and no guard can tell the
  difference any more.

`steady` is a history variable: no intent has yet taken a line away from its riders
(`Disruption`).

Rules of the code that may surprise a reader of the model: a rider of a paused
line waits aboard without limit (`EveryoneGetsThere` therefore assumes that lines
run again or go); deleting a line puts its riders back where they boarded;
an overdue trip that only walks becomes unserved, not late; and a vehicle that
was parked keeps that position when its line is restored.

### Population

Every citizen is owned by exactly one of three things: a wake in the scheduler,
a trip demand, or an active trip. The phases of a tick are those of `tick_trips`:
`BeginTick`; `ApplyMoveIn`, `ApplyActivity` and `DropWake` in the order of
`run_due`; `DrainAndSpawn`; `Advance` to the next boundary; `Resolve` for the
trips that end; `GrowCity`; `EndSubstep`. `PlaceBuilding`, `Demolish` and `Reload`
happen between ticks. `Reconcile` is the whole of `reconcile_buildings`: lost
residents, cleared workers, hiring in order of building and citizen, retargeted
or dropped trips, rescheduled wakes and move-ins of added houses. `Reload` saves
and opens the city: what the save does not contain (scheduler, worker index,
unassigned set, allocator) is derived the way `build_world` derives it.

What is simplified: time runs in steps and a day has six; one departure time per
shift (the per-citizen jitter shifts it by minutes); positions are home or away;
school, site and outing are free choices where the code draws seeded ones; growth
places buildings one by one, and the order of hiring makes that equal to the batch;
a trip may end well or badly in any substep, which is more than `TripTick`
allows. Outbound windows end before the return windows begin (870 < 900 minutes
in `commute.rs`), an assumption of the module.

### Economy

`city` is the part of `GameSnapshot` that intents build and pay for, `clock` the
time of day, `lastBuild` the engine's `last_build`, `answer` how the last intent was
answered. `built` is a history variable: what the build that can be undone changed, as a
set of one record, or the empty set if none can.
`Apply` is what `dispatch` does with a candidate: one that equals the city is not
applied and leaves no trace; `ApplyBuild` and `ForgetBuild` are the cases of
`note_build_record`. `Recomputed` is the part of `prepare_network_candidate` that
derives every line again. `UndoLastBuild` has the early returns of `undo_last_build`:
an expired record is consumed, every conflict puts it back.

The steps with more than one part are recursive functions: a stroke (`RoadLineLaid`)
pays tile by tile while the money lasts, and a growth pass (`Grown`) gives each served
node one building, the kind depending on what the nodes before it got.

What is simplified:

- Geometry is constants: the tiles, the corridors along which a line can be driven
  in either heading, the tiles beside a stop, the tiles it develops in order of
  distance. A building stands on one tile and holds one home or one job.
- A tile of a road is two-way or one-way in one of two headings; junctions are not drawn.
- Stops that an old save placed on a road are moved by `normalize_snapshot_stops`; a
  city built by this version has none.
- Fares are any amount up to a bound in any tick; `TripTick` says which trips earn them.
- Whether a bus is empty, so that it can be retired, is free (it is in `TripTick`).
- Track, stations and roundabouts (the same code with other tiles, see `RoadNetwork`),
  platforms (`BusLines`), pause and speed, `UpdateRoute` (`TripTick`, `BusLines`) and the
  debug-only `SetBudget` are left out.

### RoadNetwork

A map is one value, as `GameMap` is: `road`, `track`, `oneWay` (the arrow of a tile),
`links` (`road_connections`), `owner` (`road_structure_id`) and `structures`. An action
is an intent: it computes the next map, and one that leaves the map alone counts for
nothing. The operators follow the functions of the code by name: `RoadLineLaid` checks
contacts and spacing, lays one carriageway or two (`AuthorLane`: its tiles, the links along
it, the links to its neighbours) and ends in `Finished`,
the tail of `apply_road_mutation`: ports are read, automatic junctions forgotten and
found again (`RefreshAutomaticJunctions`, with its pruning loop and the arrows that
tiles get back), links tidied (`Canonicalize`). `Transitions` is the compiled topology
with its times; `Paths` and `CanReverse` are the searches that a line uses.

What is simplified:

- `Canonicalize` looks once where the code goes tile by tile over a copy; dropping a link
  only makes fewer links lateral, so the result is the same.
- An identity is the content it is computed from (footprint and ports, size and origin).
- Ties of the searches are left open: the code breaks them by a preferred heading and
  by keys, and the properties hold for each of the quickest ways.
- Money is in `Economy`; here every tile can be paid for. Strokes are straight and have at
  least two tiles, as the tools draw them; one-point strokes are the single road.

### BusLines

`city` holds the network that the roads offer now, the stops (present, missing, or none),
the lines on each platform, the lines with their revision, waypoints and resolved legs,
and the buses with cursor and place. `draft` is an open editor: the line, the revision it
was opened on and what the line looked like. `NetworkMutation` is
`commit_network_mutation`: every line is worked out again (`Recomputed`: merge of the
legs, broken or restored, revision, buses projected onto the new legs or parked). Its
cases are a change of roads (`ChangeRoads`), a stop built (`AddBusStop`) or removed
(`RemoveStop`). Other actions: `CreateRoute`, `OpenRouteEdit`, `UpdateRoute` and
`DeleteRoute`, which also collect the missing stops that no line names any more,
`SetRouteActive`, `AssignRouteToPlatform`, `AssignVehicle` and the driving of buses
(`TickVehicles`). `stray` of a bus is a history variable: its step has been left behind by a
way without steps, and it has not been moved since.

What is simplified:

- A network is a constant: by which road a stop is reached, and the way between two stops
  (its steps, the heading it starts and ends by). `RoadNetwork` shows how tiles make one.
  Between two stops that are reached from one place there are no steps (`Stay`).
- Of several stops at a distance any may be the nearest; a bus that is moved onto
  another way may find itself at any step of it.
- Nodes are named by their site, so `AmbiguousTransitNode` cannot arise; a terminal has
  two of its three platforms.
- Metro lines go through the same code over tracks, with empty reversals. Passengers,
  and the retirement and deployment of buses, are in `TripTick`. The migration of stops
  that an old save placed on a road is left out.
- The road by which a stop is reached is a function of the network (`StopAccess`). The
  code keeps the stored access as long as it is valid and derives another only then
  (`stop_access.rs:102-105`), and compares with the stored one to find who was moved
  (180-203), which is `StopAccess` on the previous network. Two networks may differ in
  any access, so that both a kept and a moved one occur, but not that one network is
  reached with two accesses by two histories.

### PlaySession

A command and a preview take three steps each: sent, run by the engine, answered; what
lies between two awaits of the runtime is one action. The engine's world is a count of
its changes (`ver`) and the revision of the one line that is edited (`rev`). `Request`,
`EngineAnswersPreview`, `PreviewArrives` and `PreviewFails` are `requestRoutePreview`
around the coordinator's `withEpochGuard`; `CreateDraft` to `SaveDraft` are the handlers
of the player; `SendHead`, `EngineRunsHead` and the `Answer*` actions are the gameplay
queue with `dispatchNow` and `saveRouteDraft`, `Folded` being `commitDispatchResult`.
That the edited line changed is told in three places: in the preview (`changed`), in
`rejection` and in `ui.routePreviewError` (`stale`). While any of them tells it,
`ReloadDraft` opens the line anew, or takes back all three when the line is gone
(`Retired`). A line is opened for editing only when no draft is open
(`startRouteEdit`, `createGameRuntime.ts:1925`).
`Shown` is a publication: the host's `syncAnimationLoop` runs in it. `AdmitTick` is a
frame. `Reload` loads the webview anew: the engine stays, gets a new epoch, and has yet
to run what the old runtime sent (`orphans`).

What is simplified:

- The edits of a draft lead to any other waypoints; the engine may accept or refuse. A
  click the editor turns down (`rejectRouteDraftInteraction`) is left out: it replaces
  what `ui.routePreviewError` tells and asks for nothing.
- An exclusive save or load is a time of `busy` with what it does to the queue; the rest
  is in `WorkingSave`, as are answers that are lost after the engine has acted.
- How long a tick is, drawing, input devices and hover previews are left out.
- The runtime of the browser goes the same way without `orphans`: a reload takes its
  engine with it.

`taken` and `missed` are history variables. One thing the model shows and no document
contradicts: a command that was queued ahead of a Save refreshes the draft when it is
folded, so the saved draft is no longer the one on screen; it stays open although its
line has been made, and saving it once more makes a second line.
`EachDraftSavedOnce` therefore speaks of one generation of a draft.

## 4. What the runs check

| Run | Instance and bounds | Properties | What it shows |
|---|---|---|---|
| `ws_core` | 2 cities, 2 names, 2 versions, queue of 1 (582,420 states) | `LineagePreserved` `CleanMeansSaved` `BodyRunsAlone` `NoSilentDiscard` `ExclusiveSettles` | every interleaving of the five exclusive operations with gameplay, thrown restores and death |
| `file_store` | 2 cities, 2 names, 2 payloads | `CommittedComplete` `KeepsContract` | the file store refines the contract although every call may fail and the process may be killed |
| `idb_store` | 2 tabs, 1 city, 2 names, 2 payloads (380,553 states) | `KeepsContract` | the browser store refines the contract: no lost update, no early answer |
| `trips_core` | 3 stops, 2 lines and a third the player may add, 4 trips, ticks of 1 and 3 s, 2 intents (279,855 states) | `SavesLoad` `TripsAccounted` `PlansMatchNetwork` `GranularityIndependent` `NoQueueJumping` `NobodyLeftBehind` `EveryoneGetsThere` | two trips compete for one seat and change lines, one drives, one needs the platform meanwhile, and any two intents come in between; every trip is resolved if lines end up running or gone; while no line has been taken away, a tick of three seconds is three ticks of one second |
| `pop_jobs` | 4 placements, steps of a 6-step day until the horizon (579,682 states) | `OneOwner` `NothingOverdue` `HousedAndHired` `JourneysMatchWhereabouts` `OrdinalsNeverReused` `LoadsAsSaved` | moving in, hiring, school, work, outings, trips across midnight, demolition and reload in any order |
| `economy` | 4 tiles, a stop, a terminal, one line, budget -1..4, undo window of 1 step, 2-step day | `BuildingsKeepTheirZone` `LinesFollowRoads` `UndoAllOrNothing` `UndoBreaksNoLine` | every order of building, painting, demolishing, buying, ticking and undoing |
| `roads` | 4 by 3 tiles, 4 edits out of five strokes in three presets, three tapped tiles, a rectangle, a line of track, two roundabouts (12,938 states) | `LinksAndStructuresLoad` `EveryMovementIsCompiled` `LinesRunThereAndBack` `JunctionsAreFoundAtOnce` `RoundaboutsWhole` | however roads, junctions and roundabouts are laid over each other and torn down in parts, the layers agree and what the map shows can be driven |
| `lines` | 3 stops, 6 networks, 2 platforms, 2 lines, 1 bus, revisions up to 2, 4 changes (702,138 states) | `SavedLinesLoad` `LinesFollowTheNetwork` `ParkedBusesStandAtTheirStop` `EditsLandOnWhatTheyOpened` | roads and stops change under lines, buses and an open editor |
| `session` | 2 waypoint lists, queue of 2, 4 acts of the player (906,768 states) | `PreviewAnswersTheDraft` `SaveArmedByCurrentPreview` `RuntimeShowsTheEngine` `EachDraftSavedOnce` `PreviewsSettle` `ClockGoesOn` | previews, commands and ticks answered in any order or failing, around edits, saves, loads and reloads |
| `ws_lost_reply` `roads_save_must_load` `lines_save_must_load` | see section 5 | one each, violated | disagreements between the code and its words |

Type invariants are part of the inductive invariants of the proved modules, and hold in
their runs through the properties that read the typed state.

### Why the bounds are enough

- `ws_core`: two cities are what overwriting needs, two versions what
  "changed since" needs, and one queued operation is what a drain needs to wait
  for. Its safety properties are proved for every bound (section 6).
- `file_store`: one process serialises the commands, so two cities only confirm
  that they do not interfere; leftovers of one command meet the next one.
- `idb_store`: two tabs on one city are the smallest lost update. The refinement is proved
  for any number of tabs and cities.
- `trips_core`: the two first trips change at the middle stop and compete for
  one-seat vehicles and a platform for one; the third is a car; the fourth shares
  the platform. Ticks of 3 s cross boundaries that ticks of 1 s meet exactly. Two
  intents are enough to delete a line and create one with its id, to break and
  restore, or to pause and add a vehicle.
- `pop_jobs`: a house, a school and a plaza, with up to one more building that is built or
  grown, may be demolished and replaced with its id given out again. With the three
  initial buildings the clock runs to the horizon of 20 steps, more than three days: over
  midnight, over days off and back. With a fourth it runs 10 steps, over one midnight and
  three growth times (`Horizon`). All its properties are proved for every catalog, calendar,
  number of buildings and horizon.
- `economy`: the line has two ways to go, so that taking one back may or may not
  break it; both streets are land that a stop develops and a rectangle paints, so a
  building can grow on what is to be taken back. Four coins pay for two roads, a stop
  and the terminal, or for one of them and a bus; the charge of two buses takes a city
  without money to the lower end of its integer, and a fare to the upper one. A window of one step is
  enough to undo in it, at its end and after it. All its properties are proved for every map,
  line and price.
- `roads`: the strokes cross, touch from the side, run in parallel and end in one another,
  so that two of them make a crossing, a tee, a corner or a chance link; with a third the
  junction widens or is cut, and the fourth tears down what is there. Both roundabouts lie
  over the crossing.
- `lines`: each network differs from another in one thing that code reads (a stop cut off,
  a way back that is missing, another access, one shared with
  another stop, none). Four changes are enough to break a line under an editor, to remove and
  rebuild a stop, and to save. All its properties are proved for every network, number of
  stops, lines, buses and changes.
- `session`: two drafts with one preview each are enough to confuse them; two places in the
  queue let a Save wait behind a command. Four acts are: open, change, save, and one that
  interferes. Its safety properties are proved for every bound.

### Fairness

- `WorkingSave!FairSpec`: weak fairness of every continuation that is ready and of
  every answer the engine or the store owes. JavaScript runs ready continuations,
  and both services answer or reject. Nothing obliges the player to call an
  operation, a runtime to die, or a fault to happen.
- `TripTick!FairSpec`: the host keeps ticking unless a tick would change nothing.
  That is weak fairness of `Ticking` with its enabling condition written out
  (`AtRest`), since deciding it through ENABLED would evaluate every tick twice, and with
  a tick recognised by the number of intents, which every player step raises. The
  player's pause of the engine is an absence of ticks, so liveness is claimed for an
  unpaused game.
- `PlaySession!Fairness`: weak fairness of the previews, of the queue with its
  continuations, and of frames. The engine answers or fails, continuations run, and the
  browser calls `requestAnimationFrame` callbacks of a visible page. The player may stop at
  any moment, and a command of a superseded runtime may never be run.
- The stores, the roads, the lines and the population state no liveness: a client may be gone at any
  moment, and a city that nobody ticks stands still.

`CHECK_DEADLOCK FALSE` is used where the system may stop: a disposed runtime has nothing
left to do (`WorkingSave`), a failed or paused one whose player does nothing rests
(`PlaySession`), and maps and lines only change when the player changes them
(`RoadNetwork`, `BusLines`, both bounded in edits).

## 5. Where the code and its own words differ

Each of these is shown by a run in which TLC violates a property that states those words.

1. `ws_lost_reply` - the working-save design says an applied mutation makes the city
   dirty. The error handler of `saveRouteDraft` returns early for a superseded draft
   without that, so a mutation whose answer is lost leaves a live runtime that
   shows the city as saved.
2. `roads_save_must_load` - a round-trip test says "save must load". A one-way stroke that
   ends beside another road gets a link across its arrow (two ports make no junction, so
   the arrow stays), and `validate_map` refuses exactly that: the city is written and does
   not open again. The same check refuses a road with track, which
   `domain/types.ts:192` calls a level crossing. `LinksAndStructuresLoad` is what holds:
   every other check of the map.
3. `lines_save_must_load` - the same words, for buses. `project_line_vehicles` leaves the cursor
   alone when the new path of a leg has no steps (`route_lifecycle.rs:850`). A bus half-way
   round a turn that has become unnecessary is then saved with a step outside its path,
   until the next tick repairs it. `SavedLinesLoad` is what holds: every other check.

These were met while modelling; no run is spent on them:

- `createGameRuntime.ts:366` says `dead` gates all further backend and store mutations;
  `save()` and `createCity()` do not read it between their first answer and the store
  request (`workingSaveRuntime.ts:233`). What is written is still the right city's world.
- `trips.rs:171-172` says coarse and fine ticks produce the same state. `tick_vehicles`
  (`transit.rs:574`) drives one vehicle through the whole substep before the next one departs, so
  on a loop with two vehicles one that reaches the stop late in the substep may take a
  passenger of the other. It also fails, in the waiting time that is charged, after some
  intents that take a line away, which is why `GranularityIndependent` speaks of shuttles
  and of runs that are `steady`.
- `schedule.rs:457` says added housing schedules every slot at its exact due time. Move-ins
  of a demolished house stay in the scheduler (`schedule.rs:1055`), and a new building with the same id gets
  them too, early.
- `apply_road_mutation` reads the ports of roundabouts before it finds the junctions
  (`road.rs:81`), whose search may still turn an arrow: stored ports can be an edit behind.
  The topology checks each port against the map (`roundabouts.rs:869`), so a stale one is not driven.
- A mutation that is folded while an exclusive operation drains the queue does not refresh
  an open draft (`createGameRuntime.ts:508-516`). Save stays enabled by a preview of the
  older network; the engine checks the edit again. `missed` is that exemption.
- A comment in `break_service` (`route_lifecycle.rs:413`) says that the invariant of an
  operational line should guarantee every bus a world position. A bus whose step was left
  behind (item 3) has none: if the line breaks before the next tick, it is not parked. The
  same can happen on any leg between two stops that come to share an access.
  `ParkedBusesStandAtTheirStop` excepts such a bus. Two stops that were reached
  from one place and then part on a broken line may also leave a parked bus at the one it does not
  depart from, until the line is restored.
- At the corner of a loop `find_terminal_reversal` refuses some lines that could turn there
  (`LinesRunThereAndBack` leaves such corners out).

## 6. What is proved

TLAPS checks these for every value of the constants. They assume the named ASSUMEs of the
modules, which TLC evaluates in every run: that `None` is no data value and no direction, that the queue
bound is a positive number, that a half-written file is no record, and of which kind the
constants of `Economy`, `PlaySession`, `Population`, `RoadNetwork` and `BusLines` are (among them that
there are finitely many kinds of buildings, that the windows of a day do not overlap, and that a
way between two places of the road has steps, and that strokes are straight) and of
`Router` and `TripTick` (every step of a path takes a second or more, demands come in the
order they are due, and the patterns the player may draw have a path for every leg). None of them bounds the number of cities, tabs,
names, versions, waypoints, acts, tiles, buildings, citizens, stops, networks, lines, buses, seats,
trips, seconds or queued operations. Three theorem groups have a hypothesis beyond these, named
where they are listed: `~LostReplies`, `OutingTimes` and, for the browser store,
`NoneIsNoData`.

### `WorkingSave_proofs`

| Theorem | States |
|---|---|
| `Invariance` | `IInv` holds in every reachable state |
| `TypeCorrect` | `Spec => []TypeOK` |
| `NeverOverwritesAnotherCity` | `Spec => []LineagePreserved` |
| `ExclusiveBody` | `Spec => []BodyRunsAlone` |
| `SavedInvariance` | no lost replies: `SavedInv` holds in every reachable state |
| `ShownAsSavedIsSaved` | no lost replies: `Spec => []CleanMeansSaved` |
| `RestoreLosesNothing` | no lost replies: `Spec => NoSilentDiscard` |

`LineagePreserved` is not inductive: whether a record gets its own city's world
depends on what the engine held when the snapshot was captured, and on the engine
not moving to another city between capture and store. `IInv` adds

- `Gate`: `drainLeft` is exactly the length of the queue while an operation
  drains, so the body starts with an empty queue and, since the gate is closed,
  keeps it empty;
- `JobShape`: what the suspended operation holds at each await (a city, a name, a
  snapshot of that city);
- `Descent`: the engine's world descends from the active city, except while a
  restore whose answer has not been folded may have replaced it. The case that
  needs care is the thrown restore: it leaves no active city, so the next save has
  nothing to overwrite.

The proof goes action by action: `GameplayIInv`, `CallIInv`, `ExclusiveIInv` and
`StutterIInv`, with the arithmetic of the drain in `SettleGate`.

"Clean means saved" relates four places: the engine, the view, the flag and the record. At
most awaits two of them disagree, so `SavedInv` says exactly when they may. The
view is behind the engine only between a mutation and its folding (`Unfolded`) or a restore
and its folding (`ActiveShown`); the record of the active city exists, under the name on
display or the one it is being given (`ActiveKept`); a captured snapshot stays the engine's
until it is stored, since the gate keeps gameplay out (`SnapshotIsFresh`); what a restore
hands to the engine is what the store holds (`RestoredIsStored`); and once an operation that
restores has begun, the active city is saved, even if the runtime has died meanwhile
(`NothingToLose`), which is what `NoSilentDiscard` needs one step later. The hypothesis
`~LostReplies` cannot be dropped: run `ws_lost_reply` violates `CleanMeansSaved` without it.

### `CityStores_proofs`

| Theorem | States |
|---|---|
| `Invariance` | the inductive invariant of the file store holds in every reachable state |
| `NeverCommitsPartial` | file store: `Spec => []CommittedComplete` |
| `CommitsOwnTemp` | file store: `Spec => []FreshTemp` |
| `FileStoreKeepsContract` | `Spec => CityStore!Spec` under the refinement mapping |
| `TabInvariance` | the inductive invariant of the browser store holds in every reachable state |
| `WritersRunAlone` | browser store: `Browser!Spec => []Browser!Locks`, a transaction that writes overlaps no other |
| `BrowserStoreKeepsContract` | `Browser!Spec => CityStore!Spec` under the refinement mapping |

Both stores keep one contract, so their proofs share a module: it extends `CityFileStore`
and takes `IndexedDbCityStore` as the instance `Browser`. An instance brings its ASSUME
along as a fact to be shown, so the browser's theorems have it as their hypothesis,
`Browser!NoneIsNoData`: no tab, record, request or reply is `None`.

The file store's mapping is `records <- committed`, and request and reply of the one client are
the running command and its answer. The invariant adds what a command holds at
each stage (`CommandShape`), and what it is going to write: the replacement of the
committed record as it stands now, which is still the one it read because commands
run one at a time (`DraftShape`). `StepRefines` maps the commit (link, rename,
delete), a successful or refused read and every early failure to `Perform` or
`Fail`, the reply and the kill to `Leave`, and everything else to a stutter. A
killed process between commit and reply is a `Leave` after a `Perform` nobody saw.

Of the browser store, two tabs may both be inside an operation; what makes them atomic is the
browser's rule that a `readwrite` transaction runs alone (`Locks`). From it follows that what
a transaction has read is what the store still holds (`ViewShape`, `Holds`), so its commit is
the one instant at which the contract's operation happens. A refused or read-only operation
happens at its commit too, an abort is a `Fail`, and a closed tab leaves before or after that
instant, never in it.

### `TripTick_proofs`

| Theorem | States |
|---|---|
| `Invariance` | `Spec => []CityInv(city)` |
| `EverySaveLoads` | `Spec => []SavesLoad` |
| `EveryTripAccounted` | `Spec => []TripsAccounted` |
| `PlansStayValid` | `Spec => []PlansMatchNetwork` |
| `NobodyJumpsTheQueue` | `Spec => NoQueueJumping` |

A tick is one function of the city, so the proof is about that function: `TickTripsSound`
says that a tick of any length takes a city with the invariant to a city with it. It goes
down the way the code calls: the substeps of a tick (`SubstepSound`), the vehicles of a
substep (`TickVehiclesSound`), the loop of one vehicle (`DriveOnSound`), boarding and
alighting at a stop (`BoardSound`, `DisembarkSound`); then the trips (`TickTripFacts`), the
resolutions (`ResolvedSound`) and the demands (`DrainAndSpawnSound`).

`CityInv` is what is true between any two of these calls. None of the three invariants is
inductive without it, or without the others:

- `Seated`: a trip rides exactly when one vehicle carries it, of the line of its current leg.
  A seat is only freed by a vehicle that arrives or by `InvalidateTripsForLine`, so both must
  find every rider; a rider nobody finds holds the seat for good.
- `TripSound`: a plan links up to the destination, somebody walks after every ride
  (`PlanLinks`), and the rides from the current leg on exist (`PlanExists`). That a rider
  walks next is what lets `Disembark` go on without looking for a vehicle, and that whoever
  waits stands exactly where the ride departs is what lets `Board` find every waiter by
  comparing positions.
- `VehicleSound`: the cursor is on a step of the itinerary of the line as it is now, also on
  a reversal leg without steps, where it must be at zero.
- `Accounted`: one resolution per trip that is over, so that appending those of a substep
  repeats none; the counters are the numbers of resolutions of each kind.

`Boundaries` is only shown to lie ahead: that a tick ends, that it leaves no seat taken and
loses no trip does not depend on where it is split. What does is `GranularityIndependent`.

An intent that touches a line keeps the invariant because every trip with a ride it may have
lost starts over (`InvalidateSound`, from `Disturbed`); the others keep their rides because
no other line changed (`KeepsRides`). That covers ids that are used again: when a line is
created no trip counts on its id. Of the fleet, `DeployedSound` and the lemmas before it
show that a vehicle is put on a step of the itinerary wherever on the round trip it is meant
to start, and that a retired one was empty.

A recursive function is known to the provers only as CHOOSE of a function that satisfies its
equation. `Iteration` shows that there is one for every number of steps, from an operator
applied to the steps one by one, and `Recursion` that it stays in any set each step stays
in; the sums, the rounds of a vehicle, the vehicles of a substep and the substeps of a tick
are instances of these two.

`NobodyJumpsTheQueue` is about two trips and a whole tick. `InTurn` says of them, anywhere in
it, that the one with less patience left (t) has gone on or given up, or that both wait as
they did with their patience in the same order, unless u has left the city. A trip that has
gone on does not come back to that leg within a tick (`GoneOnTicks`), and time passes for
both alike (`ClockInTurn`, `TurnsInTurn`). Boarding is where it could break: the platform
takes the first `PlatformCapacity` of a queue and the vehicle the first of those there are
seats for, and whoever is ahead of one of the first n is one of them (`FirstOfInOrder`,
`BoardInTurn`). While vehicles move, the platforms are read as the substep found them, so
for that long the two must also be as it found them (`Queued`). Last, no intent makes a
trip ride (`IntentBoardsNobody`). `TickTripsStays` carries all of this through a tick: what
the drain of demands and each substep keep, a tick of any length keeps.

### `Population_proofs`

All of these suppose `OutingTimes`, that the minute of an outing is a natural number
(`optional_departure_minute` returns a `u16`). It is a hypothesis and not an ASSUME of the
module because TLC cannot evaluate it: it quantifies over all citizens and days.

| Theorem | States |
|---|---|
| `Invariance` | `IInv` holds in every reachable state |
| `EveryCitizenHasOneOwner` | `Spec => []OneOwner` |
| `NothingIsOverdue` | `Spec => []NothingOverdue` |
| `EveryoneIsHousedAndHired` | `Spec => []HousedAndHired` |
| `JourneysAreRight` | `Spec => []JourneysMatchWhereabouts` |
| `WhatIsLoadedIsWhatWasSaved` | `Spec => []LoadsAsSaved` |
| `OrdinalsAreNeverReused` | `Spec => OrdinalsNeverReused` |

The properties need one another. That a saved city reloads to the same world needs the worker
rows and the list of those out of work to be derivable from the citizens (`Settled`); that
a citizen is owned once needs both directions, no owner without its citizen and no citizen
without an owner (`Owned`, `Queued`); that nothing is overdue needs routines to be at the
departure time of some shift (`RoutineTimes`), so that a worker who is hired for another
shift is planned into the future. `SlotsFilled` and `MoveInOrigins` carry the hazard of ids
that are given out again: a demolished building's move-ins stay in the scheduler, so a
pending move-in is of the building that has its id now or of an earlier one, and only a
building whose id was never used before can count its slots. `WithinRoom` bounds what
both kinds of move-in can do.

There is one lemma per action. The hard one is reconciliation after buildings came or went,
which moves residents out, fires, hires, reroutes and replans in one step: `CityChange` and
`ReconcileStep` name its parts, and `PeopleFacts`, `HiresFacts`, `RerouteFacts`,
`ReplanFacts`, `WakesThen`, `JourneysThen` and `SlotsThen` say what each leaves. Hiring gives the n-th
candidate the n-th open place; `RankIsBijection`, `SlotFacts` and `PlacesAndRanks`
show that this is a matching in which nobody is hired twice and no job twice, and that one
side of it is used up (`HiredFacts`).

### `Economy_proofs`

| Theorem | States |
|---|---|
| `Invariance` | `IInv` holds in every reachable state |
| `LinesAlwaysFollowRoads` | `Spec => []LinesFollowRoads` |
| `UndoNeverBreaksALine` | `Spec => UndoBreaksNoLine` |
| `ZoneInvariance` | `ZoneInv` holds in every reachable state |
| `BuildingsStandOnTheirLand` | `Spec => []BuildingsKeepTheirZone` |
| `UndoTakesBackExactlyTheBuild` | `Spec => UndoAllOrNothing` |

`IInv` is the shape of the city with `LinesFollowRoads`. A network mutation
makes a `Candidate`: other roads, zones, buildings or nodes, the same lines, and no
node lost that a line refers to. `CandidateCommitted` shows that deriving the lines
again restores the invariant for every candidate, and one lemma per kind of mutation
(`MapCandidate`, `PlacedCandidate`, `RemovedCandidate`) that it makes one; an undo
is a candidate like any other (`UndoCandidate`). What is not committed through the
network (purchases, charges, fares, growth, lines) leaves roads and nodes alone
(`SameNetworkKept`, `LineEdited`), but for the deletion of a line, which collects nodes
that nobody refers to any more (`DeleteStep`). `UndoNeverBreaksALine` needs the
invariant twice: the engine compares the lines' own words (`path_broken`), and only
because these follow the network, before and after, does the comparison say
anything about roads.

That an undo takes back all of a build and nothing else is a statement about a record written
many steps earlier. `RecordInv` says what the record still knows: since the build nothing
has moved but the lines, and buildings that grew on land that was bare (`SinceTheBuild`); the
inverse is either the map as it was, from which the build took no road (`MapChanged`), or the one
tile that was bare and has held nothing else since (`SitePlaced`); and the refund is the
price paid. So a building that grew on a road about to be taken back cannot exist, and one
that grew on land about to be rezoned makes the undo a conflict. A stroke and a growth pass
are recursive functions with one value per tile or node; what they preserve is proved by the smallest
index at which it could fail (`LeastNumber`, `UpTo`), which needs no induction theorem with an operator
as its parameter.

### `RoadNetwork_proofs`

| Theorem | States |
|---|---|
| `Invariance` | `MapInv` holds in every reachable state |
| `LinksAndStructuresAlwaysLoad` | `Spec => []LinksAndStructuresLoad` |
| `RoundaboutsStayWhole` | `Spec => RoundaboutsWhole` |
| `EveryMovementIsServed` | `Spec => []EveryMovementIsCompiled` |

An edit takes a map to a map in several passes, and between the passes the map does not load:
tiles are gone that a junction stands on, links lead nowhere. So there are two invariants.
`Whole` is that of a map at rest: every link is answered, every structure stands on tiles that
name it, with its ports on them (`Stands`), names are given once (`Alone`), and every owner a
tile names is there (`OwnersKnown`). `Between` is what the passes keep: the same of the
roundabouts only, since the junctions may be behind. A pass that touches only links and arrows
(`Repainted`) or lays roads on tiles of no structure (`Laid`) keeps `Between`, and
`FinishedWhole` shows that the end of `apply_road_mutation` makes a `Whole` map of any such
map, whatever the links are like. Placing a roundabout has no such end, and is whole by itself
(`InstalledGood`): the square opens to the outside on the ring only (`RingIsTheEdge`), so a road
that led into the square is answered by a ring tile. `Shaped` says that a roundabout's name tells
its tiles, without which a second one of the same size and place would share its name.

That two junctions never claim one tile needs components to be the same or apart
(`ComponentsApart`). A component is computed by growing a set; `GrowsToHull` shows that a function
that grows a set until it stays the same ends in the smallest closed set (`Hull`), by the number
of candidates outside it, and answered links make two hulls that meet one (`HullsMeet`). The loops
of the code (lanes tile by tile, rounds of pruning, rectangles) are recursive functions on
`0..N`: `Iteration` shows that there is one, `Recursion` that it stays in a set its steps do
not leave.

That a vehicle can drive every movement the map shows rests on three facts.

- The ports of a junction cover every link over its edge (`PortsCover`, a conjunct of `Whole`).
  After the junctions of an edit are found, links may only go (`BoundaryShrinks`), and fewer links
  are still covered (`FewerLinksCovered`); a roundabout placed beside a junction answers only
  roads that were there. The ports stored for a roundabout may be an edit behind the roads around
  it, so the topology is compiled from a map whose ports are taken afresh (`SyncedIsReady`).
- The search for a way ends in the smallest set that is closed under the transitions
  (`DrivenIsReach`), so a place is found as soon as some chain of transitions leads there
  (`DrivenGoesOn`).
- Going on from tile to tile of a ring comes by every tile of it (`AllTheWayAround`), and every
  step of it is a transition of the roundabout (`RoundaboutRing`), so each road in leads to each
  road out (`RoundaboutLeads`), as through a junction (`JunctionCrossed`).

### `BusLines_proofs`

| Theorem | States |
|---|---|
| `Invariance` | `IInv` holds in every reachable state |
| `LinesFollow` | `Spec => []LinesFollowTheNetwork` |
| `LinesLoad` | `Spec => []SavedLinesLoad` |
| `ParkedBusesStand` | `Spec => []ParkedBusesStandAtTheirStop` |
| `EditsLand` | `Spec => EditsLandOnWhatTheyOpened` |

`IInv` is `CityFits`, what a city is like between two steps, and `DraftFits`, what an open
editor knows of it. `LinesFit` is the core: a line's legs are what the network offers. Its
steps rest on one fact about `merge_resolved_legs`, that merging what is resolved into its own
result changes nothing (`MergedAgain`, for itineraries that name no visit twice:
`SpecsAreProper`), and on the other fact that a line asks the network only whether a stop is
present and how it is reached (`SameOffer`, `SameResolved`): whatever leaves that alone leaves
every line alone.

A change of the network is a `Candidate`, the city with other roads or stops and each bus
carried along (`Carried`), followed by `NetworkMutation` (`MutationFits`). Where the buses end
up is the long part: a bus is projected onto its new way (`ProjectedOnItsWay`), parked
(`BreakFits`), moved (`RebaseFits`) or follows its stop (`FollowFits`), and one that none of
this touches still stands at a stop because its stop is reached where it was
(`StillStands`). `ChoicesFit` puts the cases together. It is where the exceptions in
`ParkedBusesStandAtTheirStop` come from: without `stray` the case of `break_service` without a
world position fails, and without the other stop of a broken line that of an access
shared by two.

On platforms, `PlatformsLoad` is `HoldsOnce`, a line is on one platform of each of its stops;
`DeltaHolds` shows what the difference of two itineraries does to that, and that the other
lines stay where they were (`OthersStay`). `EditsLand` needs the revision to tell the truth:
each change of a line that is not at the largest revision counts it up (`CountedUp`), so an
editor whose revision is still the line's saw it as it is; at the largest revision that no longer
follows, and there `UpdateRoute` refuses (`EditedByFits`).

### `PlaySession_proofs`

| Theorem | States |
|---|---|
| `IInvHolds` | `IInv` holds in every reachable state |
| `LiveRuntimeShowsTheEngine` | `Spec => []RuntimeShowsTheEngine` |
| `PreviewIsOfTheDraft` | `Spec => []PreviewAnswersTheDraft` |
| `OnceInvHolds` | `OnceInv` holds in every reachable state |
| `OneChangePerGeneration` | `Spec => EachDraftSavedOnce` |
| `VersionInvHolds` | `VersionInv` holds in every reachable state |
| `SaveIsArmedByTheWorldOnScreen` | `Spec => []SaveArmedByCurrentPreview` |

The invariant has two parts that hardly touch. `EngineInv` says that the live runtime's
epoch is the engine's and that everything left behind is older (`EpochsInOrder`): then
`RunChecksEpoch` shows that an orphan changes nothing, and a reload only makes the
existing orphans older. `DraftInv` says what the requests in flight know of the draft on
screen: no request is newer than the draft it was made for, and one of the same
generation asks for the same waypoints (`RequestOf`). Every step either keeps the draft
(`DraftKept`), asks for a new instance or the next generation of it (`DraftRequested`), or
folds an answer, which is one of the two (`DraftFolded`). An instance number is given out
again after a load; the requests of before then belong to an older `previewEpoch`.

`EachDraftSavedOnce` needs more than "a draft with a token under way is not saved again":
the token is released with the answer, so what matters is where the draft is by then.
`OnceInv` says that every save or deployment in the queue holds a token of its own
(`QueuedSaves`), and that a draft which became a line is closed, has moved on to a later
generation, or is the head of the queue, taken and not yet answered (`TakenOf`). The draft
side of a step is summed up in `MovesOn` (a draft stays in its place, moves on by one
generation, closes, or is a new instance) and the queue side in one lemma each for an
unchanged queue, an admission, the head leaving, the head becoming a deployment, and the
engine running it. A load or a reload starts numbering instances anew and is a new place
(`OnceInNewPlace`): what was taken there is told apart by its session and preview epoch.

That Save is armed by a preview of the world on screen compares versions that three
messages carry. `EngineVersions` orders them: the view is never ahead of the engine, only an
applied command makes a new world, and an answer on its way knows the world it left.
`Armed` says that an answer which will still be accepted, and matches the draft, is of the world on screen or a
later one, and so is the preview shown; its lemmas follow what a step does to the draft: it
stays, goes, is made afresh with a request of its own, or is refreshed by a folded command
(`ArmedKept`, `ArmedVoid`, `ArmedAfresh`, `ArmedFolded`).

### Only model-checked

Liveness (`ExclusiveSettles`, `EveryoneGetsThere`, `PreviewsSettle`, `ClockGoesOn`) and
anything with ENABLED are beyond the prover. Of `TripTick`, `GranularityIndependent`
compares one tick with several shorter ones, which needs induction over all substeps at once
with two runs side by side. `NobodyLeftBehind` counts the seats of a vehicle that leaves a stop,
and holds only as long as no tick is longer than a round trip, so that a vehicle serves a stop at
most once in it; a proof would have to follow the vehicle's position through the tick as well as
its riders. Both stay with TLC. Of `RoadNetwork` these
two are checked and not proved: `JunctionsAreFoundAtOnce` says that a whole edit applied to its
own result changes nothing, which also depends on the arrows it gives back to every tile, and
`LinesRunThereAndBack` depends on the quickest way, a fixpoint over states that carry the time
driven so far, which has no bound. The step of a stray bus is beyond `SavedLinesLoad`
because the loader does refuse it (section 5).

## 7. What is not modelled, and why

- Persistence: what the loader demands of a city is an invariant of the modules that own
  the data (`SavedMapLoads`, `SavedLinesLoad`, `SavesLoad`, `LoadsAsSaved`). Decoding, field
  ranges and files edited by hand are left out.
- Bent strokes, the geometry of movements and the tie-breaks of the path search.
- Metro lines and tracks beyond laying and removing them: the code of bus lines without
  roads, arrows and turns.
- Traffic: floating-point factors; its range is what `TripTick` uses.
- Footprints of buildings, sandbox templates: data.
- Presentation, preview contents, rendering, the shell: projections that
  change no state.
- Inside modelled components: `listCities` (reads only), rename and recolour of a
  line, error wording, logging.

## 8. Plan

Done first, because losing a player's city is the worst that can happen:
`WorkingSave`, the stores and their proofs; then the simulation core
(`TripTick`), the world that drives it (`Population`) and the city it runs in
(`Economy`); then the ground under it (`RoadNetwork`, `BusLines`) and the runtime above it
(`PlaySession`). What is left:

1. An abstract `TripLifecycle` (a demand becomes one trip that is resolved once)
   implemented by `TripTick`, which is also what `Population` assumes of its trips;
   a reference definition of the best plan for `Router`.
2. Proofs: `NobodyLeftBehind` of `TripTick`, for ticks shorter than a round trip;
   `JunctionsAreFoundAtOnce` of `RoadNetwork`.
3. Metro lines in `BusLines`, and the hover previews and tick lengths of the host.
