---------------------------- MODULE TurnLaneData ----------------------------
(***************************************************************************)
(* The turn-lane description table, from the extractor's map to the       *)
(* facade's lookup.  The extractor callbacks give every distinct          *)
(* TurnLaneDescription (a list of lane masks) an id in a                  *)
(* LaneDescriptionMap; transformTurnLaneMapIntoArrays turns the map into  *)
(* an adjacency array (u32 offsets, one per id plus an empty slot and a   *)
(* sentinel, and the masks laid end to end) that WriteTurnLaneData        *)
(* serialises and osrm-datastore loads unchanged into the                  *)
(* LANE_DESCRIPTION_OFFSETS and LANE_DESCRIPTION_MASKS blocks;             *)
(* GetTurnDescription slices a description back out by its id.           *)
(*                                                                         *)
(* A map is a function from descriptions to ids; a mask is a small number *)
(* (its bits play no part in the layout).  Arrays are functions on 0..n-1 *)
(* like the C++ vectors they stand for.                                    *)
(***************************************************************************)
EXTENDS Integers, Sequences, FiniteSets, Functions

INVALID_LANE_DESCRIPTIONID == -1

\* (a count written to slot id, not id + 1: the empty slot is lost)
LaneCountsUnshifted(map) ==
  [k \in 0..Cardinality(DOMAIN map) + 1 |->
     IF \E d \in DOMAIN map : map[d] = k
     THEN Len(CHOOSE d \in DOMAIN map : map[d] = k)
     ELSE 0]

\* the lane counts: slot id + 1 holds the length of description id; slot 0
\* (the empty id) and the sentinel stay 0
LaneCounts(map) ==
  [k \in 0..Cardinality(DOMAIN map) + 1 |->
     IF \E d \in DOMAIN map : map[d] + 1 = k
     THEN Len(CHOOSE d \in DOMAIN map : map[d] + 1 = k)
     ELSE 0]

\* the offsets after the in-place std::partial_sum
LaneOffsetsOf(counts) ==
  [k \in DOMAIN counts |-> SumFunctionOnSet(counts, 0..k)]

\* the masks array, value-initialised to its last offset and filled by one
\* std::copy per description at the description's offset
LaneMasksOf(map, offsets) ==
  LET n == Cardinality(DOMAIN map)
      Covers(d, i) == offsets[map[d]] <= i /\ i < offsets[map[d]] + Len(d)
  IN [i \in 0..offsets[n + 1] - 1 |->
        IF \E d \in DOMAIN map : Covers(d, i)
        THEN LET d == CHOOSE d \in DOMAIN map : Covers(d, i)
             IN d[i - offsets[map[d]] + 1]
        ELSE 0]

\* the pair <<offsets, masks>> transformTurnLaneMapIntoArrays returns
TransformTurnLaneMapIntoArrays(map) ==
  LET offsets == LaneOffsetsOf(LaneCounts(map))
  IN <<offsets, LaneMasksOf(map, offsets)>>

\* the blocks osrm-datastore loads are the vectors WriteTurnLaneData wrote,
\* each with its length (a serializeVector that fails only logs and
\* returns, leaving a short file; that path is not modelled)
LoadTurnLaneDescriptions(map) == TransformTurnLaneMapIntoArrays(map)

\* the description of an id: the masks from offsets[id] up to offsets[id + 1];
\* INVALID_LANE_DESCRIPTIONID (an edge without lanes) gives the empty one
GetTurnDescription(blocks, id) ==
  IF id = INVALID_LANE_DESCRIPTIONID THEN <<>>
  ELSE LET offsets == blocks[1]
           masks == blocks[2]
       IN [j \in 1..offsets[id + 1] - offsets[id] |-> masks[offsets[id] + j - 1]]

\* the maps the extractor can build: each new description gets the next id
\* (the map's size at insertion), so the ids of n descriptions are 0..n-1
LaneDescriptionMaps(Descriptions, MaxDescriptions) ==
  UNION {Bijection(S, 0..Cardinality(S) - 1) :
           S \in {S \in SUBSET Descriptions : Cardinality(S) <= MaxDescriptions}}

=============================================================================
