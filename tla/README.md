# TLA+ models of the OSRM routing engine

This directory holds TLA+ models of the parts of this OSRM tree whose
behaviour is hard to test: the many-to-many table search, the hot-swap of
the shared-memory dataset under a running `osrm-routed`, the guidance
post-processing, and the extractor's preparation of the node and edge
files. Every module is translated from the source under `src/` and
`include/`. The map in `PROJECT.json` names the lines each definition
stands for. The two pieces that are not in this repository are
`GetLoopWeight` (routing_base) and `osrm-datastore`. Both are modelled from
the design document and marked `spec_modelled`.

## The system

`osrm-extract` turns a map into node-based and edge-based graphs. It does so
through `extractor.cpp` and `extraction_containers.cpp`. `osrm-contract`
builds the contraction hierarchy (CH). `osrm-datastore` (not in this tree)
loads the files into shared-memory regions and publishes them through
`CURRENT_REGIONS`. `osrm-routed` answers requests through `Engine`. Every
request runs `RunQuery`:

1. take `query_mutex` shared;
2. run `SharedDataFacade::CheckAndReloadFacade`;
3. take `data_mutex` shared;
4. run the plugin.

The table plugin calls `ManyToManyRouting`. The route plugin assembles legs,
and `post_processing.cpp` then turns them into guidance steps. The request
threads share one facade. The datastore is a second process, and it
synchronises with the threads only through `query_mutex` and the three fields
of `CURRENT_REGIONS`.

| part | source | state | operations | model |
|---|---|---|---|---|
| table search | `many_to_many.hpp`, `phantom_node.hpp` | query heap, bucket map, result table | search_target_phantom, BackwardRoutingStep, search_source_phantom, ForwardRoutingStep, StallAtNode, RelaxOutgoingEdges | `ManyToMany` |
| hot-swap | `engine.cpp`, `shared_datafacade.hpp`, `osrm.cpp` | CURRENT_REGIONS, regions, cached CURRENT_*, mapped memory, two mutexes | RunQuery, constructor, CheckAndReloadFacade, datastore swap | `HotSwap` |
| springclean | `springclean.cpp` | regions | deleteRegion x5 | `HotSwap` (`SpringcleanConfirmed`, `DeleteRegion`) |
| guidance | `post_processing.cpp`, `route_step.hpp` | step vector, geometry offsets | postProcess, collapseTurns, trimShortSegments, resyncGeometry, buildIntersections, collapseUseLane, assignRelativeLocations | `GuidanceRoundabout` (postProcess), `GuidanceCollapse` (collapseTurns), `GuidanceGeometry` (trimShortSegments, assignRelativeLocations, resyncGeometry); collapseUseLane and buildIntersections in `GuidanceCollapse`, after collapseTurns |
| CLI tools | `routed.cpp`, `extract.cpp`, `contract.cpp` | parsed options | option parsing and validation, exit codes | planned |
| extraction | `extraction_containers.cpp`, `extractor.cpp` | external-memory edge and node lists | PrepareNodes, PrepareEdges, PrepareRestrictions, Write*, transformTurnLaneMapIntoArrays, WriteTurnLaneData | `ExtractionContainers` (PrepareNodes, WriteNodes, PrepareEdges, WriteEdges, PrepareRestrictions, WriteRestrictions); `TurnLaneData` (the turn-lane table and the facade's `GetTurnDescription`) |
| JSON output | `json_factory.cpp`, `base_api.hpp` | none | formatting | not modelled: formatting only |
| parameter grammar | `base_parameters_grammar.hpp` | none | Spirit parsing | not modelled: character-level parsing |
| turn analysis | `turn_discovery.cpp`, handler headers | none | geometry queries | not modelled |

## Modules

### ManyToMany (+ MC_ManyToMany)

`operator()` of `ManyToManyRouting`. One backward search runs per target
phantom and leaves a bucket `(column, weight)` at every node it settles.
Then one forward search runs per source phantom and joins its key with the
buckets at every node it settles. One query heap is cleared between
searches.

- Variables hold the request (`phantom_nodes`, `source_indices`,
  `target_indices`), the loop indices, the heap (`inserted` = WasInserted,
  `inheap`, `key`), the bucket map and the result table.
- Each action is one iteration of a search loop: DeleteMin, bucket work,
  then stall or relaxation. Ties in the binary heap are nondeterministic.
- The graph is a constant. `MC_ManyToMany` builds it the way a CH is built:
  it contracts a four-node edge-based road graph in node order and adds a
  shortcut for every path over a contracted node that a direct edge does not
  beat.
- The reference `Distance` is computed on the uncontracted graph.
- The fixture makes every branch happen: stall-on-demand, decrease-key,
  equal keys, and a target behind the source on one segment, which is the
  loop rule.
- The five candidate phantoms include bidirected and one-way segments. The
  cfg enumerates every pair of them as the request, with all phantoms,
  with `source_indices = [1,0]` and with `target_indices = [1]`.

### HotSwap (+ MC_HotSwap)

Request threads (`Threads`), the constructor (`Ctor`), the datastore and
`osrm-springclean`.

- The regions `LAYOUT_i`/`DATA_i` are named by slot `i`. A region's content
  is the generation written into it: 0 means no region, and -1 means it is
  still being written.
- A mapping keeps what it mapped after its name is removed, as POSIX
  shared memory does.
- The facade's state is `CURRENT_LAYOUT/DATA/TIMESTAMP`, `mapped` (what
  `m_layout_memory` and `m_large_memory` hold) and `loaded` (what the data
  pointers were built from).

Each code path corresponds to an action:

| code | action |
|---|---|
| `RunQuery` lines 52-53 | `StartQuery` |
| unlocked check, 392-394 | `CheckFacade` |
| lock, re-check, Remove, CURRENT_* update, makeSharedMemory and the leaf-file check, 397-441 | `ReloadFacade`, with one disjunct per throw point |
| Load* calls and lock release, 442-465 | `LoadFacade` |
| `data_lock` | `DataLock` |
| plugin run and RAII release | `HandleRequest` |

The datastore's actions (`DsWrite` ... `DsBumpTimestamp`) follow the design:

1. write the idle pair;
2. take `query_mutex` exclusively, announcing itself first;
3. write layout, data, then timestamp, one at a time;
4. release.

`osrm-springclean` is enabled by the constant `Springclean`.
`SpringcleanConfirmed` is the operator's 'Y' (`main`, lines 56-75; any
other answer returns with no change). `DeleteRegion` is one
`deleteRegion` call, in the order `DATA_1`, `LAYOUT_1`, `DATA_2`,
`LAYOUT_2`, `CURRENT_REGIONS` (`sc_pc` names the next one). Removing
`CURRENT_REGIONS` does not unmap the facade's `data_timestamp_ptr`, so the
datastore's later bumps go to a new region the facade never sees
(`RegistryMapped`).

### GuidanceRoundabout (+ MC_GuidanceRoundabout)

The roundabout pass of `postProcess` over the steps of one leg.

- A step is a record of the fields the pass reads or writes: `type`,
  `exit`, waypoint `wp`, `name`, `rotary` (rotary_name), `dist`, the
  geometry interval `gb`/`ge` and `inter`, the list of intersections. A
  road name is the index of the input step that turned onto it, and an
  intersection is the index of the step it came from. Modifiers, bearings,
  durations and pronunciations are left out: the pass moves them together
  with the fields that are kept.
- `Assembled` builds the steps the way the design's step 1 describes (the
  assembler is not in this tree): depart, one step per turn, arrive,
  consecutive steps sharing the location of their turn.
- Each action is one iteration of the forward loop, one per branch:
  `ScanEnter` (setUpRoundabout), `ScanStay`, `ScanLeave`
  (closeOffRoundabout) and `ScanOther`. `Finish` is the code after the loop:
  fixFinalRoundabout when a roundabout is still open, then
  removeNoTurnInstructions. `ReturnShortLeg` is the early return for a
  two-step leg.
- closeOffRoundabout's and fixFinalRoundabout's backward loops are the
  recursive operators `PropagateExit` and `FixFinalFrom`. The special case
  of a leg that starts on a roundabout is `EnterFromStart`.
- The inputs (`MC_GuidanceRoundabout`) are every leg of up to four turn
  steps that turn analysis can emit. A roundabout is entered, passed and
  left by steps of one kind, or taken in one EnterAndExit step. A leg may
  start or end on a roundabout. `OtherOnRoundabout` lets Suppressed steps
  lie on the roundabout. closeOffRoundabout's assertion admits them there.

### GuidanceCollapse (+ MC_GuidanceCollapse)

`collapseTurns`, which folds short, choiceless or name-only steps of a leg
into their neighbours, with everything it calls: `collapseTurnAt`,
`elongate`, `collapsable`, `isStaggeredIntersection`, the small helpers
at the top of `post_processing.cpp` and `removeNoTurnInstructions`.

- A step keeps `type`, `modifier`, `wp`, `name_id`, `mode`, `dist`, the
  geometry interval `gb`/`ge` and `inter`. An intersection keeps an `id`
  (the input step it belongs to), its `degree` (number of bearings), the
  number of `entries`, the in and out bearings, its lane tuple
  (`lanes_in_turn`, `first_lane_from_the_right`) and its lane description
  (a sequence of lane masks, each a set of tags, left to right). A step vector is a function from `0..size-1`, indexed as in the
  code, so the model's indices are the code's.
- A name is its `name_id`; `EMPTY_NAMEID` is 0, the id of the empty name,
  which is also the name of an invalidated step. `util/typedefs.hpp` and
  the `util::guidance` helpers (`requiresNameAnnounced` without refs,
  `getTurnDirection`, `mirrorDirectionModifier`, `angularDeviation`) are
  not in this tree and are written from their upstream definitions.
- One action per loop iteration: `CollapseIteration` applies
  `CollapseStep`, which is the loop body with one operator per branch
  (`CollapseSliproad`, `FoldInto` for the A->A case, `CollapseOscillation`
  for name oscillation, bridge and staggered intersection, and
  `CollapseTurnAt` with `VeryShortNewName`, `ShortSegmentAfterTurn` and
  `PotentialUTurn`). `FinishCollapse` is the final-sliproad rewrite and
  `removeNoTurnInstructions`; `ReturnShortLeg` is the early return.
  `CollapseTurns` is the whole function, used to run it a second time.
- The leg `collapseTurns` returns then goes through the next two passes
  of the design's order (steps 4 and 5), each one action on the variable
  `emitted`:
  - `CollapseUseLane` is `collapseUseLane`: a UseLane step whose lanes
    have no through (straight or none) lane on either flank
    (`CanCollapseUseLane`) is elongated into the previous step that is not
    NoTurn (`UseLanePreviousIndex`, the `getPreviousIndex` lambda) and
    invalidated, then `removeNoTurnInstructions`;
  - `BuildIntersections` is `buildIntersections`: a Suppressed step is
    elongated into the last non-silent step and becomes NoTurn; an
    EndOfRoad step becomes a Turn when that last step has fewer than
    `MIN_END_OF_ROAD_INTERSECTIONS` (2) intersections (`RetypeEndOfRoad`);
    then `removeNoTurnInstructions`. `isSilent` is not in this tree; it is
    taken from upstream as NoTurn, Suppressed and StayOnRoundabout.
  `pc` runs `loop`, `done`, `lanes`, `built`.
- Where the code reads a step through a reference after changing it (the
  `one_back_step` of the short-segment case), the model reads the changed
  step.
- The inputs (`MC_GuidanceCollapse`) are legs of up to three turns, and
  of up to four lane, suppressed and end-of-road turns.
  Each turn is drawn from small sets of types, modifiers, names, modes,
  lengths and intersection degrees. Roads are straight, so bearings follow
  from the modifiers: a Right turns the heading by 90 degrees.

### GuidanceGeometry (+ MC_GuidanceGeometry)

The last passes over a leg, in the order the route API runs them:
`trimShortSegments`, `assignRelativeLocations` and `resyncGeometry`.

- The state is the step vector and the leg's geometry: `locations`,
  `segment_offsets` and `segment_distances`. `annotations` and
  `osm_node_ids` are cut together with `locations` and are left out. The
  vectors are TLA+ sequences, so the code's `v[i]` is `v[i+1]`; indices
  stored in the data (`geometry_begin`, `geometry_end`, the offsets, an
  intersection's `in` and `out`) keep their 0-based values.
- A location is a point on a metre grid. `Distance` stands for
  `haversineDistance` and `Bearing` for `coordinate_calculation::bearing`,
  as the direction of travel. Both helpers live in `util/`, which is not in
  this tree. `size_t` subtraction wraps modulo `SIZE_T`, so the `0 - 1` of
  the duplicated-coordinate branch gives a huge offset as in the code.
- A step keeps the fields trimming reads or writes: type and modifier, the
  waypoint type, name and mode, distance and duration, the geometry
  interval, the bearings before and after, and its first intersection
  (bearings, entry count, `in`, `out` and a lane tuple).
- `trimShortSegments` is one action. Its body is split into `TrimFront`,
  whose `DesignatedDepart` promotes the second step when the first is cut,
  and `TrimBack`, which chooses between `TrimBackZeroLength` and
  `TrimBackDuplicate`. `AssignRelativeLocations` takes the distances to the
  input locations and the modifiers their angles map to as inputs.
  `ResyncGeometry` rebuilds the offsets and distances from the steps.
- The inputs (`MC_GuidanceGeometry`) are paths of one to four moves from
  `<<0, 0>>`. A move is a duplicated coordinate, one metre, or four metres
  east or north. The turn steps begin at any subset of the inner
  locations. Each step has its own name and mode, the arrival those of the
  step before it, and a duration equal to its length.

### ExtractionContainers (+ MC_ExtractionContainers)

`ExtractionContainers::PrepareData` in its order: `PrepareNodes`,
`WriteNodes`, `PrepareEdges`, `WriteEdges`, `PrepareRestrictions`,
`WriteRestrictions`.

- The state is `used_node_id_list`, `all_nodes_list`,
  `external_to_internal_node_id_map`, `max_internal_node_id`,
  `all_edges_list`, `way_start_end_id_list`, `restrictions_list` and the
  three files' contents (`written_nodes`, `written_edges`,
  `written_restrictions`). A node is its OSM id; an edge keeps its OSM and
  internal endpoints, the two direction flags, the weight, the profile's
  weight data (type and duration), the name id and `is_split`.
  Coordinates are left out: they feed only the profile's distance, and the
  profile's result is an input.
- Each `stxxl::sort` is a choice of any permutation the comparator orders
  (`Sorted`): the sort is not stable, so equal edges may come out in any
  order. Names are compared by id; the texts of the names order the same.
- The loops of `PrepareEdges` are recursive operators that walk edges and
  nodes with two indices, as the code's iterators do: `SetStartCoords`
  (with the trailing `markSourcesInvalid`), `ComputeWeights` (with
  `WeightOf`, `Oriented` and `markTargetsInvalid`) and
  `RemoveParallelEdges` (`GroupEnd`, `MinIdx` with a strict `<`,
  `ResolveGroup`).
- A restriction is `[from, via, to]`. In `TurnRestriction` each of the
  three is a union of a way id and a node id, so writing `from.node` or
  `to.way` overwrites the same field; the model keeps one field each.
  `RestrictionsFrom` and `RestrictionsTo` are the two loops of
  `PrepareRestrictions`, and `Neighbour` is their choice between a way's
  first and last segment. A via node the id map lacks is read through the
  map's end iterator in the second loop; the value read is a free choice
  (`garbage`).
- The group scan of the multi-edge removal reads past the end of the list
  when the last group reaches it. What it reads there is undefined;
  `stale_slot_matched` is a free choice whenever that read happens, and the
  edge properties are stated for the outcome where the slot does not repeat
  the group.
- The inputs (`MC_ExtractionContainers`) are node lists over OSM ids 1..3
  in any order and edge lists of one or two segments (over every pair of
  1, 2, 3 including a loop, each direction, durations 0 and 1 and the
  INVALID weight type, named or not), or three parallel segments between
  nodes 1 and 2. `used_node_id_list` holds the segments' endpoints. A
  third family has the ways 1 (1-2-4-3, three segments) and 2 (3-1) with
  their edges, node lists that lack node 1 or 2 or neither, and one or two
  restrictions from way 1, 2 or the missing way 3, over any of the three
  nodes, to any of those ways.

### TurnLaneData

A pure module, with no variables. `TransformTurnLaneMapIntoArrays`
translates `transformTurnLaneMapIntoArrays` (`extractor.cpp` 62-87):
- the counts are written at slot `id + 1`, leaving the empty slot and the
  sentinel at 0 (`LaneCounts`);
- `std::partial_sum` turns them into offsets (`LaneOffsetsOf`);
- one `std::copy` per description fills the masks (`LaneMasksOf`).

`WriteTurnLaneData` writes both vectors, and the facade maps them
unchanged (`LoadTurnLaneDescriptions`). `GetTurnDescription` is the
facade's slice from `offsets[id]` to `offsets[id + 1]`, or the empty
description for `INVALID_LANE_DESCRIPTIONID`.

The ids come from the extractor callbacks, which are not in this tree.
`LaneDescriptionMaps` gives each new description the map's size as its
id, so n descriptions have the ids 0..n-1. `MC_ExtractionContainers`
checks the round trip over every map of up to three descriptions drawn
from the seven lists of at most two lanes over two masks, the empty list
included (`TurnLaneDescriptionsRoundTrip`). The property is checked in
every state where `PrepareData` has returned, since `BuildEdgeExpandedGraph`
writes the table after that. The table itself (`TurnLaneTableRoundTrips`)
is a constant, so TLC computes it once.

## Runs

| run | cfg | expect | checks |
|---|---|---|---|
| matrix | MC_ManyToMany.cfg | pass | `TypeOK`, `MatrixCorrect`: every cell equals the best route weight between its phantoms |
| hotswap | MC_HotSwap.cfg | pass | `QueryReadsPublishedSnapshot`, `FacadeConsistentWhenUnlocked`, liveness `SwapCompletes`, and deadlock freedom |
| hotswap_faults | MC_HotSwap_faults.cfg | pass | with two full swaps, every throw point of the reload reachable and springclean deleting regions at any moment: `ReloadRemovesOnlyRetiredRegions`, an action property: until springclean runs, no reload removes a region CURRENT_REGIONS names (the re-check under the lock); `SwapCompletes`, which a lock kept by a failed request would also break |
| hotswap_partial_reload | MC_HotSwap_partial.cfg | violation | `FacadeConsistentWhenUnlocked`: a reload that throws at the leaf-file check leaves the facade claiming new data it never loaded |
| hotswap_startup_race | MC_HotSwap_startup.cfg | violation | `QueryReadsPublishedSnapshot`: the constructor's unlocked read of CURRENT_REGIONS mixes the new layout with the old data |
| roundabout | MC_GuidanceRoundabout.cfg | pass | `RoundaboutsAnnouncedAsDesigned`: the entries and their exit numbers, types and names equal a reference computed from the input types by the rules the code's comments state; `OnlyEntriesAndTurnsRemain`; `StepsPartitionLeg`: the remaining steps still cover the leg's intersections in order, its distance, and a chained geometry |
| roundabout_exit_lost | MC_GuidanceRoundabout_lost.cfg | violation | `RoundaboutsAnnouncedAsDesigned`: a Suppressed step right after an ...AtExit entry drops the exit that entry counted |
| collapse | MC_GuidanceCollapse.cfg | pass | `CollapsePreservesLeg`: the result runs from depart to arrive, every other step is a maneuver, and the steps partition the leg's geometry, intersections and distance, also after merges across steps earlier iterations invalidated; `NoSliproadRemains`; `AngleWindowsMirrorSymmetric`: at every integer exit bearing, `turn_angle` equals a reference angle, and the staggered-intersection windows, `getTurnDirection` and `bearingsAreReversed` treat a turn and its mirror image alike; `EmittedLegPreserved`: after collapseUseLane and buildIntersections the leg still partitions its geometry, intersections and distance, with no silent step between depart and arrive; `EndOfRoadNeedsPassedIntersections`: an EndOfRoad turn is kept exactly when the last announced step before it, with the suppressed steps folded in, has at least two intersections |
| collapse_mixes_modes | MC_GuidanceCollapse_modes.cfg | violation | `ModesNeverMixed`: a name change that also changes the travel mode is folded into the named step before it, which has the other mode |
| geometry | MC_GuidanceGeometry.cfg | pass | `TrimmedLegWellFormed`: after trimming, the leg runs from a depart at location 0 to an arrival at the last location, the steps chain, and the end bearings follow the trimmed geometry; `DurationPreserved`; `TrimCutsOnlyShortEnds`: only a metre or less is cut at each end; `ResyncedGeometryMatchesSteps` |
| extraction_restrictions | MC_ExtractionContainers_restrictions.cfg | violation | `RestrictionsWrittenAsInput`: a restriction whose via node lies inside its from way keeps the way's OSM id in `from` and is written |
| extraction | MC_ExtractionContainers.cfg | pass | `NodeFileMatchesIds`: the k-th node written is the node numbered k-1, and exactly the used nodes that exist are numbered; `ParallelEdgesResolved`: for every ordered pair of nodes the edge file offers exactly the cheapest connection the usable input edges offer, on at most one edge; `NamedEdgePreferred`: a cheapest connection with a name stays named; `TurnLaneDescriptionsRoundTrip`: the facade's `GetTurnDescription` returns every lane description from the arrays the extractor wrote |

Three rules of the design's section 8 do not hold for this code and are not
stated as properties. `resyncGeometry` gives the arrival no segment, so
there are as many offsets as steps and consecutive offsets differ by
`geometry_end - geometry_begin - 1`, where 8.8 says one offset more and a
difference of `geometry_end - geometry_begin`; `ResyncedGeometryMatchesSteps`
states what the code does. The exit numbers of a leg do not add up to its
passed and leaving steps (8.6): a leg that ends on a roundabout hands exit
numbers to its depart and arrive steps. For the leg `<<StayOnRoundabout>>`, for example,
`postProcess` returns a depart and an arrive that both carry exit 1, and
`json_factory.cpp:190` emits it. Section 4.9 says `fixFinalRoundabout`
clears the exit count. Collapsing is not idempotent (8.7):
the final-sliproad rewrite after the loop leaves a Turn that a second pass
collapses. The hazards in `PROJECT.json` record both.

The violations are described under `findings` in `PROJECT.json`. Of the
hot-swap ones, the first two contradict the design document: section 7 says an exception leaves
no partial state, and section 9 says the triple is read under a shared lock.
The design also leaves a gap: it does not say when a retired region pair
may be reused. With a second full swap (`MaxGen = 3` in
`MC_HotSwap.cfg`), the facade's late Remove of its old regions, made by
the first request after the first swap, can delete the pair the datastore
is already writing for the next snapshot. The datastore then publishes
names with no region behind them, the next reload throws at
makeSharedMemory, and `FacadeConsistentWhenUnlocked` fails after 27
steps. The pass runs keep away from it: the hotswap run has one full
swap, and `ReloadRemovesOnlyRetiredRegions`, checked with two, speaks
only of the regions CURRENT_REGIONS names when they are removed. All
runs are in use, so this has no violation run; the hazard at
`shared_datafacade.hpp:404` records it. The startup race is worse than
its run shows: after the constructor has cached the new layout with the
old data, the first request's reload removes the live layout region, so
`ReloadRemovesOnlyRetiredRegions` fails in 14 steps under
`MC_HotSwap_startup.cfg`.

The extractor violation is a bug in the code itself: PrepareRestrictions
marks a restriction invalid only on the paths that log "Restriction
references invalid way/node". A restriction whose via node is inside its
from way, or whose from way id is above every way id, passes through
untouched and is written with OSM way ids in its node fields. The same
loops can also drop a valid restriction: when the node next to via is
missing they advance the way iterator as well, so another restriction on
that way, met after it in the order the unstable sort left, is compared
with the next way and marked invalid. `RestrictionsWrittenAsInput`
states both directions (nothing invalid written, nothing valid lost), so
no pass run states a property of the restriction file; the pass run
still runs both restriction steps on the same inputs.

### Bounds

- **matrix:** two phantoms per request is the smallest size with distinct
  rows and columns and with index subsets. The four-node graph was chosen so
  that stalls, decrease-keys, ties and the loop rule all occur, which was
  checked with auxiliary invariants while building the model.
- **hotswap:**
  - Two threads are needed for the unlocked-check race: one reloads while
    the other checks.
  - One full swap and one timestamp-only swap cover both reload paths.
  - A second full swap breaks `FacadeConsistentWhenUnlocked` through the
    region-reuse gap described above, so the pass run has one.
- **hotswap_faults:** allows the failure paths at once (springclean, two
  full swaps, a missing leaf file) and checks only the properties that
  still hold there. The startup race is left to its own run, because the
  torn read it allows makes a reload remove the live layout. Springclean
  may start at any moment and interleaves its five deletions with
  everything else: about 82,000 states in about a minute.

- **roundabout:** legs of up to four turn steps hold an ...AtExit entry
  followed by a passed exit and the exit, a leg that starts on a roundabout
  with a passed exit before its exit, a roundabout followed by a second
  one, and an unterminated roundabout after a turn. Every branch of the
  pass and of its helpers occurs. The violation runs need only three turn
  steps.

- **collapse:** the inputs are the union of four families (`MCInputs`):
  - two turns over all seven types, three modifiers, one road name besides
    the empty one, short (1 m) and long (200 m) roads, and two or three
    roads at a turn: every branch of the loop and of `collapseTurnAt` that
    needs only two turns, including staggered intersections, sliproads
    followed by a suppressed step, and merges into the depart step;
  - three straight Turn or NewName steps with two names besides the empty
    one: folds over several steps, name oscillations and bridges;
  - three straight or right Turn or NewName steps: u-turns, also followed
    by a name change;
  - up to four straight turns on long roads, each a UseLane (with a through
    lane beside its lane on the right, on the left, or none), a Suppressed
    or an EndOfRoad step: UseLane steps after a step an earlier UseLane
    invalidated, end-of-road turns after none, one and two suppressed
    steps, and after another end-of-road turn.
  Names are compared only with each other and with the empty name, so
  swapping names 1 and 2 maps a leg onto one that behaves alike; of the
  legs over two names only those that use name 1 first are checked
  (`NamesInOrder`). The run reaches about 552,000 states in under a
  minute.
- **geometry:** paths of up to four moves place a duplicated coordinate
  or a one-metre step at the front, at the back, at both ends, and next to
  each other. Legs have two to five steps, so every branch of
  `trimShortSegments` occurs, including a tail trim after a front trim
  that removed a step. About 54,000 states.
  Three turns over every type at once would take hours; the cases that
  need a third turn need only the narrower alphabets.

- **extraction:** three OSM ids are the fewest with a node that is used
  but missing, one that exists but is unused, and a segment between two
  present nodes beside a dangling one. Two segments give every pair of
  parallel, reversed, looped and dangling segments, including an INVALID
  weight type; three parallel segments give groups where the forward and
  backward minima differ, ties between named and unnamed edges, and edges
  that lose. The restriction family has a via node at a way's start, end
  and middle, missing ways below and above the existing ones, missing
  nodes, a three-segment way, and two restrictions on one way. Every sort
  order is explored.
  The edge lists are taken up to order (`EdgeKey`): the first sort in
  `PrepareEdges` is unstable and is explored in every order it allows, so
  a permutation of the input only reaches the same sorted lists again.
  About 118,000 states in 21 s. The turn-lane round trip covers maps of
  zero to three descriptions. That is enough to put a description after
  a longer one, after a shorter one, and after an empty one.

### Fairness

- Request threads and the constructor are weakly fair on the steps that need
  no lock. Nothing preempts a thread forever.
- Lock acquisitions are strongly fair. Both mutexes prefer writers:
  - `boost::shared_mutex` blocks new shared lockers once an exclusive locker
    waits;
  - `interprocess_sharable_mutex` does the same after the writer announces
    itself.
  A waiter is therefore served whenever the lock is free infinitely often.
- Clients are not forced to send requests, and the operator is not forced
  to start the datastore.
- The mutant that makes `query_mutex` reader-preferring breaks
  `SwapCompletes`. This shows that the liveness depends on that writer
  preference.

`ExtractionContainers` needs no fairness: it is a sequential pipeline of
six steps, and its runs turn the deadlock check off because `PrepareData`
returns after `WriteRestrictions`.

## What is not modelled, and why

- The facade's read accessors and the plugins other than the table search:
  they read what a load built, and `loaded` stands for all of it.
- `GetLoopWeight` and `osrm-datastore` are not in this tree. They are
  modelled from the design.
- JSON formatting and the Spirit request grammar: formatting and
  character-level parsing with no state.
- `turn_discovery.cpp`: geometric search over the node-based graph. The
  handler headers contain declarations only.
- `WriteCharData` (a copy of the name table to a file) and the extractor's
  callbacks and threads in `extractor.cpp`: not yet modelled. The Lua profile's per-segment
  processing is an input of the model, as a weight type and a duration.
- The command-line tools: their option handling has no state beyond the
  parsed options. Two disagreements with the design's section 6 were
  found by reading `routed.cpp` and are not modelled. When neither or both
  of a base path and `--shared-memory` are given, the tool prints its
  options and exits with `EXIT_SUCCESS` (lines 157-172 and 198-200); the
  design calls this a usage error with exit code 1. `bad_alloc` exits
  with `EXIT_FAILURE` (1), where the design says 3. On shutdown, a server
  thread that has not finished within two seconds is not joined: the code
  calls `reset()` on the `packaged_task` it has already moved into the
  thread (line 372), which throws `std::future_error`, and the
  `std::thread` is still joinable when it is destroyed. Either way the
  process ends in `std::terminate`.
- `collapseUseLane` follows the code: it collapses a UseLane step only when
  neither flank of its lanes is a through lane (`post_processing.cpp`
  1303-1318). The design's step 4 says the opposite, to collapse when the
  flanks touch only through or none lanes.
- In `PrepareEdges`, an edge of INVALID weight type builds a
  `util::exception` without throwing it (`extraction_containers.cpp:397`)
  and gets weight 1, the cheapest there is. The model does the same, so
  `ParallelEdgesResolved` counts such an edge as the cheapest connection.
- Integer overflow in the table search is not modelled. It needs path
  weights near 2^31 deci-seconds, and the model's weights are small.

## Plan

Later work, in this order:

1. A property for requests after springclean: what a request may answer
   once the regions it mapped are gone.
2. `Tools`: option validation and exit codes of routed/extract/contract
   against section 6.
3. `WriteCharData` and the extractor callbacks that fill the containers.
4. An abstract table specification that `ManyToMany` refines, and an
   abstract snapshot service for `HotSwap` that promises more than
   `QueryReadsPublishedSnapshot` (a mapping onto one with only a current
   generation and readers restates that invariant).
