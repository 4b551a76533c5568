----------------------- MODULE MC_ExtractionContainers -----------------------
(* Inputs to PrepareData: the nodes and ways the extractor callbacks       *)
(* collected.  OSM node ids are 1..4; a way segment is one edge with its    *)
(* travel mode flags, its duration and a name.                             *)
EXTENDS ExtractionContainers, TurnLaneData

Edge(pair, dir, data, name) ==
  [osm_source |-> pair[1], osm_target |-> pair[2],
   source |-> SPECIAL_NODEID, target |-> SPECIAL_NODEID,
   forward |-> dir \in {"forward", "both"}, backward |-> dir \in {"backward", "both"},
   weight |-> 0, weight_data |-> data, name_id |-> name, is_split |-> FALSE]

Duration(d) == [type |-> "DURATION", duration |-> d]

\* one- and two-edge inputs: loops, reversed and dangling segments, and the
\* weight type the profile left INVALID
Short == {Edge(p, d, w, n) : p \in {<<1, 2>>, <<2, 1>>, <<1, 1>>, <<2, 3>>},
                             d \in {"forward", "backward", "both"},
                             w \in {Duration(0), Duration(1), [type |-> "INVALID", duration |-> 0]},
                             n \in {0, 1}}
\* three parallel segments between nodes 1 and 2
Parallel == {Edge(p, d, Duration(w), n) : p \in {<<1, 2>>, <<2, 1>>},
                                          d \in {"forward", "backward"},
                                          w \in {0, 1}, n \in {0, 1}}

\* the used node list holds the endpoints of the ways' segments
Input(ns, es, ws, rs) == [nodes |-> ns, edges |-> es, ways |-> ws, restrictions |-> rs,
                          used |-> [k \in 1..2 * Len(es) |->
                                      IF k % 2 = 1 THEN es[(k + 1) \div 2].osm_source
                                      ELSE es[k \div 2].osm_target]]

Way(id, first, last) ==
  [way_id |-> id, first_segment_source_id |-> first[1], first_segment_target_id |-> first[2],
   last_segment_source_id |-> last[1], last_segment_target_id |-> last[2]]

\* way 1 runs 1-2-4-3 in three segments, way 2 runs 3-1
Ways == <<Way(1, <<1, 2>>, <<4, 3>>), Way(2, <<3, 1>>, <<3, 1>>)>>
WayEdges == <<Edge(<<1, 2>>, "both", Duration(1), 1), Edge(<<2, 4>>, "both", Duration(1), 1),
              Edge(<<4, 3>>, "both", Duration(1), 1), Edge(<<3, 1>>, "both", Duration(1), 2)>>
\* a restriction from way 1, 2 or the missing way 3, over any node, to any of them
Restriction == [from : {1, 2, 3}, via : {1, 2, 3}, to : {1, 2, 3}]

\* The edge lists are taken up to order: PrepareEdges' first sort is
\* unstable and is explored in every order it allows, so a permutation of
\* the input reaches the same sorted lists and adds only copies.  EdgeKey
\* orders the edges of these families.
EdgeKey(e) ==
  LET dir == (IF e.forward THEN 2 ELSE 0) + (IF e.backward THEN 1 ELSE 0)
      w == IF e.weight_data.type = "INVALID" THEN 3 ELSE e.weight_data.duration
  IN  (((e.osm_source * 10 + e.osm_target) * 4 + dir) * 4 + w) * 2 + e.name_id
ShortPairs == {es \in Short \X Short : EdgeKey(es[1]) <= EdgeKey(es[2])}
ParallelTriples ==
  {es \in Parallel \X Parallel \X Parallel :
     EdgeKey(es[1]) <= EdgeKey(es[2]) /\ EdgeKey(es[2]) <= EdgeKey(es[3])}

MCInputs ==
  {Input(ns, es, <<>>, <<>>) : ns \in {<<1, 2>>, <<2, 1, 3>>, <<3, 2>>},
                               es \in {<<e>> : e \in Short} \cup ShortPairs}
  \cup {Input(<<2, 1>>, es, <<>>, <<>>) : es \in ParallelTriples}
  \cup {Input(ns, WayEdges, Ways, rs) : ns \in {<<1, 2, 3, 4>>, <<3, 1, 4>>, <<2, 4, 3>>},
                                       rs \in {<<r>> : r \in Restriction}
                                               \cup (Restriction \X Restriction)}

\* lane descriptions of up to two lanes over two masks, the empty one included
LaneDescriptions == {<<>>, <<1>>, <<2>>, <<1, 1>>, <<1, 2>>, <<2, 1>>, <<2, 2>>}

\* (the table check over all maps: a constant, which TLC computes once)
TurnLaneTableRoundTrips ==
  \A map \in LaneDescriptionMaps(LaneDescriptions, 3) :
    LET blocks == LoadTurnLaneDescriptions(map)
    IN /\ \A d \in DOMAIN map : GetTurnDescription(blocks, map[d]) = d
       /\ Cardinality(DOMAIN blocks[2]) = SumFunction([d \in DOMAIN map |-> Len(d)])
       /\ GetTurnDescription(blocks, INVALID_LANE_DESCRIPTIONID) = <<>>

\* Every turn-lane description the extractor collected comes back unchanged
\* from osrm-routed's GetTurnDescription by its id, after
\* transformTurnLaneMapIntoArrays has packed the map into offsets and masks
\* and the facade has sliced the loaded blocks; the masks array holds exactly
\* the lanes of all descriptions, and an edge without lanes reads the empty
\* description.  Checked for every map of up to three descriptions once
\* PrepareData has returned and BuildEdgeExpandedGraph writes the table.
TurnLaneDescriptionsRoundTrip ==
  pc = "Done" => TurnLaneTableRoundTrips

=============================================================================
