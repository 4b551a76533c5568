------------------------- MODULE ExtractionContainers -------------------------
(***************************************************************************)
(* The node and edge preparation of the extractor                          *)
(* (src/extractor/extraction_containers.cpp): PrepareNodes builds the map  *)
(* from OSM node ids to dense internal ids, and PrepareEdges renumbers the *)
(* edges, drops self-loops and dangling references, computes weights,      *)
(* orients each edge from the smaller to the larger id and keeps, for each *)
(* pair of nodes, the cheapest edge of each direction.                     *)
(*                                                                         *)
(* Lists are TLA+ sequences (the C++ element v[i] is v[i+1]).  stxxl::sort *)
(* is not stable: a sort step yields any permutation that is ordered by    *)
(* the comparator.  A name is its name_id; the texts of the names order as *)
(* their ids.                                                              *)
(***************************************************************************)
EXTENDS Integers, SequencesExt, FiniteSets, TLC

CONSTANT Inputs     \* [nodes : all_nodes_list, edges : all_edges_list] as collected

SPECIAL_NODEID == 1000          \* std::numeric_limits<NodeID>::max()
SPECIAL_OSM_NODEID == 1000      \* std::numeric_limits<OSMNodeID>::max()
EMPTY_NAMEID == 0
NO_IDX == 1000                  \* std::numeric_limits<unsigned>::max()

\* the orders of the three edge sorts
CmpEdgeByOSMStartID(l, r) == l.osm_source < r.osm_source
CmpEdgeByOSMTargetID(l, r) == l.osm_target < r.osm_target
CmpEdgeByInternalSourceTargetAndName(l, r) ==
  IF l.source # r.source THEN l.source < r.source
  ELSE IF l.target # r.target THEN l.target < r.target
  ELSE IF l.source = SPECIAL_NODEID THEN FALSE
  ELSE IF l.name_id = r.name_id THEN FALSE
  ELSE IF l.name_id = EMPTY_NAMEID THEN FALSE
  ELSE IF r.name_id = EMPTY_NAMEID THEN TRUE
  ELSE l.name_id < r.name_id

\* the orders of the way and restriction sorts: by way id, and by the way
\* the restriction comes from or goes to
FirstAndLastSegmentOfWayStxxlCompare(l, r) == l.way_id < r.way_id
CmpRestrictionContainerByFrom(l, r) == l.from < r.from
CmpRestrictionContainerByTo(l, r) == l.to < r.to

\* the comparator a sort is given, by its name
SortLess(cmp, l, r) ==
  CASE cmp = "CmpEdgeByOSMStartID" -> CmpEdgeByOSMStartID(l, r)
    [] cmp = "CmpEdgeByOSMTargetID" -> CmpEdgeByOSMTargetID(l, r)
    [] cmp = "CmpEdgeByInternalSourceTargetAndName" -> CmpEdgeByInternalSourceTargetAndName(l, r)
    [] cmp = "FirstAndLastSegmentOfWayStxxlCompare" -> FirstAndLastSegmentOfWayStxxlCompare(l, r)
    [] cmp = "CmpRestrictionContainerByFrom" -> CmpRestrictionContainerByFrom(l, r)
    [] cmp = "CmpRestrictionContainerByTo" -> CmpRestrictionContainerByTo(l, r)

\* stxxl::sort: every permutation of s that the comparator cmp orders
Sorted(s, cmp) ==
  { t \in {[k \in DOMAIN s |-> s[p[k]]] : p \in Permutations(DOMAIN s)} :
      \A k \in 1..Len(t) - 1 : ~SortLess(cmp, t[k + 1], t[k]) }

\* mutant: a node smaller than the reference advances the reference
RECURSIVE IdMapAdvancingRefs(_, _, _, _)
IdMapAdvancingRefs(ns, rs, internal_id, map) ==
  IF ns = <<>> \/ rs = <<>> THEN [map |-> map, count |-> internal_id]
  ELSE IF Head(ns) < Head(rs) THEN IdMapAdvancingRefs(ns, Tail(rs), internal_id, map)
  ELSE IF Head(ns) > Head(rs) THEN IdMapAdvancingRefs(ns, Tail(rs), internal_id, map)
  ELSE IdMapAdvancingRefs(Tail(ns), Tail(rs), internal_id + 1, map @@ (Head(rs) :> internal_id))

\* the loop of PrepareNodes that numbers the nodes both lists hold
RECURSIVE IdMap(_, _, _, _)
IdMap(ns, rs, internal_id, map) ==
  IF ns = <<>> \/ rs = <<>> THEN [map |-> map, count |-> internal_id]
  ELSE IF Head(ns) < Head(rs) THEN IdMap(Tail(ns), rs, internal_id, map)
  ELSE IF Head(ns) > Head(rs) THEN IdMap(ns, Tail(rs), internal_id, map)
  ELSE IdMap(Tail(ns), Tail(rs), internal_id + 1, map @@ (Head(rs) :> internal_id))

\* the first loop of PrepareEdges: renumber sources, drop loops, and mark
\* the edges left when the nodes run out
RECURSIVE SetStartCoords(_, _, _, _, _)
SetStartCoords(es, ns, map, i, j) ==
  IF i > Len(es) \/ j > Len(ns)
  THEN [k \in DOMAIN es |-> IF k < i THEN es[k]
                            ELSE [es[k] EXCEPT !.source = SPECIAL_NODEID,
                                               !.osm_source = SPECIAL_OSM_NODEID]]
  ELSE LET e == es[i]
       IN  IF e.osm_source < ns[j]
           THEN SetStartCoords([es EXCEPT ![i].source = SPECIAL_NODEID], ns, map, i + 1, j)
           ELSE IF e.osm_source > ns[j] THEN SetStartCoords(es, ns, map, i, j + 1)
           ELSE IF e.osm_source = e.osm_target
           THEN SetStartCoords([es EXCEPT ![i].source = SPECIAL_NODEID,
                                          ![i].target = SPECIAL_NODEID], ns, map, i + 1, j)
           ELSE SetStartCoords([es EXCEPT ![i].source = map[ns[j]]], ns, map, i + 1, j)

\* the weight lambda and edge.weight = max(1, floor(weight + .5)); the
\* INVALID case constructs an exception without throwing it and yields -1
WeightOf(data) ==
  LET weight == IF data.type = "INVALID" THEN -1 ELSE data.duration * 10
  IN  IF weight > 1 THEN weight ELSE 1

\* mutant: the swap of source and target leaves the direction flags
OrientedKeepingFlags(edge) ==
  IF edge.source > edge.target
  THEN [edge EXCEPT !.source = edge.target, !.target = edge.source]
  ELSE edge

\* orient edges consistently: source id < target id
Oriented(edge) ==
  IF edge.source > edge.target
  THEN [edge EXCEPT !.source = edge.target, !.target = edge.source,
                    !.forward = edge.backward, !.backward = edge.forward]
  ELSE edge

\* the second loop of PrepareEdges: renumber targets, weigh and orient
RECURSIVE ComputeWeights(_, _, _, _, _)
ComputeWeights(es, ns, map, i, j) ==
  IF i > Len(es) \/ j > Len(ns)
  THEN [k \in DOMAIN es |-> IF k < i THEN es[k] ELSE [es[k] EXCEPT !.target = SPECIAL_NODEID]]
  ELSE LET e == es[i]
       IN  IF e.source = SPECIAL_NODEID THEN ComputeWeights(es, ns, map, i + 1, j)
           ELSE IF e.osm_target < ns[j]
           THEN ComputeWeights([es EXCEPT ![i].target = SPECIAL_NODEID], ns, map, i + 1, j)
           ELSE IF e.osm_target > ns[j] THEN ComputeWeights(es, ns, map, i, j + 1)
           ELSE ComputeWeights([es EXCEPT ![i] = Oriented([e EXCEPT !.weight = WeightOf(e.weight_data),
                                                                    !.target = map[ns[j]]])],
                               ns, map, i + 1, j)

\* the index after the run of edges from source to target starting at i;
\* Len(es) + 1 means the scan read the element past the end
RECURSIVE GroupEnd(_, _, _, _)
GroupEnd(es, source, target, i) ==
  IF i > Len(es) THEN i
  ELSE IF es[i].source = source /\ es[i].target = target THEN GroupEnd(es, source, target, i + 1)
  ELSE i

\* mutant: the minimum is taken with <=, keeping the last of equal weights
MinIdxLast(es, lo, hi, dir) ==
  LET open == {k \in lo..hi - 1 : es[k][dir]}
  IN  IF open = {} THEN NO_IDX
      ELSE CHOOSE k \in open : \A m \in open : es[k].weight < es[m].weight
                                              \/ (es[k].weight = es[m].weight /\ k >= m)

\* the first index of lo..hi-1 holding a minimal weight among the edges
\* open in direction dir ("forward" or "backward"), found with a strict <
MinIdx(es, lo, hi, dir) ==
  LET open == {k \in lo..hi - 1 : es[k][dir]}
  IN  IF open = {} THEN NO_IDX
      ELSE CHOOSE k \in open : \A m \in open : es[k].weight < es[m].weight
                                              \/ (es[k].weight = es[m].weight /\ k <= m)

\* the resolution of one group lo..hi-1 of parallel edges
ResolveGroup(es, lo, hi) ==
  LET f == MinIdx(es, lo, hi, "forward")
      b == MinIdx(es, lo, hi, "backward")
      has_forward == f # NO_IDX
      has_backward == b # NO_IDX
      Resolved(k) ==
        IF k = f /\ k = b
        THEN [es[k] EXCEPT !.is_split = FALSE, !.forward = TRUE, !.backward = TRUE]
        ELSE IF k = f
        THEN [es[k] EXCEPT !.forward = TRUE, !.backward = FALSE, !.is_split = has_backward]
        ELSE IF k = b
        THEN [es[k] EXCEPT !.source = es[k].target, !.target = es[k].source,
                           !.forward = TRUE, !.backward = FALSE, !.is_split = has_forward]
        ELSE [es[k] EXCEPT !.source = SPECIAL_NODEID, !.target = SPECIAL_NODEID]
  IN  [k \in DOMAIN es |-> IF k >= lo /\ k < hi THEN Resolved(k) ELSE es[k]]

\* the multi-edge removal loop; overread records a read past the end
RECURSIVE RemoveParallelEdges(_, _, _)
RemoveParallelEdges(es, i, overread) ==
  IF i > Len(es) \/ es[i].source = SPECIAL_NODEID THEN [edges |-> es, overread |-> overread]
  ELSE IF es[i].target = SPECIAL_NODEID THEN RemoveParallelEdges(es, i + 1, overread)
  ELSE LET hi == GroupEnd(es, es[i].source, es[i].target, i)
       IN  RemoveParallelEdges(ResolveGroup(es, i, hi), hi, overread \/ hi > Len(es))

\* mutant: only the source is tested before an edge is written
WrittenTestingSource(es) == SelectSeq(es, LAMBDA e : e.source # SPECIAL_NODEID)

(* A restriction is [from, via, to].  TurnRestriction's from, via and to  *)
(* are unions of a way and a node id: from and to hold OSM way ids until   *)
(* PrepareRestrictions writes a node id over them; via holds the OSM node  *)
(* id until it is renumbered.                                               *)

\* the node next to via on way w, if w begins or ends at via
Neighbour(w, via) ==
  IF w.first_segment_source_id = via THEN w.first_segment_target_id
  ELSE IF w.last_segment_target_id = via THEN w.last_segment_source_id
  ELSE SPECIAL_OSM_NODEID

\* the first loop of PrepareRestrictions: check the from way and via node,
\* and renumber the from node
RECURSIVE RestrictionsFrom(_, _, _, _, _)
RestrictionsFrom(rs, ws, map, i, j) ==
  IF i > Len(rs) \/ j > Len(ws) THEN rs
  ELSE LET r == rs[i]
           w == ws[j]
           from == Neighbour(w, r.via)
       IN  IF w.way_id < r.from THEN RestrictionsFrom(rs, ws, map, i, j + 1)
           ELSE IF w.way_id > r.from
           THEN RestrictionsFrom([rs EXCEPT ![i].from = SPECIAL_NODEID], ws, map, i + 1, j)
           ELSE IF r.via \notin DOMAIN map
           THEN RestrictionsFrom([rs EXCEPT ![i].via = SPECIAL_NODEID], ws, map, i + 1, j)
           ELSE IF from = SPECIAL_OSM_NODEID THEN RestrictionsFrom(rs, ws, map, i + 1, j)
           ELSE IF from \notin DOMAIN map
           THEN RestrictionsFrom([rs EXCEPT ![i].from = SPECIAL_NODEID], ws, map, i + 1, j + 1)
           ELSE RestrictionsFrom([rs EXCEPT ![i].from = map[from]], ws, map, i + 1, j)

\* the second loop: check the to way, renumber the via and to nodes; a via
\* node the map lacks reads the end iterator, which yields garbage
RECURSIVE RestrictionsTo(_, _, _, _, _, _)
RestrictionsTo(rs, ws, map, garbage, i, j) ==
  IF i > Len(rs) \/ j > Len(ws) THEN rs
  ELSE LET r == rs[i]
           w == ws[j]
           to == Neighbour(w, r.via)
           via == IF r.via \in DOMAIN map THEN map[r.via] ELSE garbage
       IN  IF w.way_id < r.to THEN RestrictionsTo(rs, ws, map, garbage, i, j + 1)
           ELSE IF r.from = SPECIAL_NODEID \/ r.via = SPECIAL_NODEID
           THEN RestrictionsTo(rs, ws, map, garbage, i + 1, j)
           ELSE IF w.way_id > r.to
           THEN RestrictionsTo([rs EXCEPT ![i].to = SPECIAL_NODEID], ws, map, garbage, i + 1, j)
           ELSE IF to = SPECIAL_OSM_NODEID
           THEN RestrictionsTo([rs EXCEPT ![i].via = via], ws, map, garbage, i + 1, j)
           ELSE IF to \notin DOMAIN map
           THEN RestrictionsTo([rs EXCEPT ![i].via = via, ![i].to = SPECIAL_NODEID],
                               ws, map, garbage, i + 1, j + 1)
           ELSE RestrictionsTo([rs EXCEPT ![i].via = via, ![i].to = map[to]],
                               ws, map, garbage, i + 1, j)

\* the restrictions WriteRestrictions writes
WrittenRestrictions(rs) ==
  SelectSeq(rs, LAMBDA r : SPECIAL_NODEID \notin {r.from, r.via, r.to})

\* the edges WriteEdges writes
Written(es) == SelectSeq(es, LAMBDA e : e.source # SPECIAL_NODEID /\ e.target # SPECIAL_NODEID)

\* the merge loop of WriteNodes: the nodes both sorted lists hold
RECURSIVE UsedNodes(_, _)
UsedNodes(ids, ns) ==
  IF ids = <<>> \/ ns = <<>> THEN <<>>
  ELSE IF Head(ids) < Head(ns) THEN UsedNodes(Tail(ids), ns)
  ELSE IF Head(ids) > Head(ns) THEN UsedNodes(ids, Tail(ns))
  ELSE <<Head(ns)>> \o UsedNodes(Tail(ids), Tail(ns))

-----------------------------------------------------------------------------
(* PrepareData: PrepareNodes, WriteNodes, PrepareEdges, WriteEdges.       *)
(* The group scan of the multi-edge removal reads all_edges_list[size]    *)
(* when the last group reaches the end of the list; what that slot holds  *)
(* is undefined, so stale_slot_matched records the outcome where it holds *)
(* a stale copy of the group's source and target.                         *)

VARIABLES input, used_node_id_list, all_nodes_list, external_to_internal_node_id_map,
          max_internal_node_id, all_edges_list, written_nodes, written_edges,
          stale_slot_matched, way_start_end_id_list, restrictions_list,
          written_restrictions, pc

vars == <<input, used_node_id_list, all_nodes_list, external_to_internal_node_id_map,
          max_internal_node_id, all_edges_list, written_nodes, written_edges,
          stale_slot_matched, way_start_end_id_list, restrictions_list,
          written_restrictions, pc>>

Init == /\ input \in Inputs
        /\ used_node_id_list = input.used
        /\ all_nodes_list = input.nodes
        /\ all_edges_list = input.edges
        /\ external_to_internal_node_id_map = [n \in {} |-> 0]
        /\ max_internal_node_id = 0
        /\ written_nodes = <<>>
        /\ written_edges = <<>>
        /\ stale_slot_matched = FALSE
        /\ way_start_end_id_list = input.ways
        /\ restrictions_list = input.restrictions
        /\ written_restrictions = <<>>
        /\ pc = "PrepareNodes"

\* sort and unique the used ids, sort the nodes, number their intersection
PrepareNodes ==
  /\ pc = "PrepareNodes"
  /\ LET used == SetToSortSeq(Range(used_node_id_list), <)
         nodes == SortSeq(all_nodes_list, <)
         ids == IdMap(nodes, used, 0, [n \in {} |-> 0])
     IN  /\ used_node_id_list' = used
         /\ all_nodes_list' = nodes
         /\ external_to_internal_node_id_map' = ids.map
         /\ max_internal_node_id' = ids.count
  /\ pc' = "WriteNodes"
  /\ UNCHANGED <<input, all_edges_list, written_nodes, written_edges, stale_slot_matched,
                 way_start_end_id_list, restrictions_list, written_restrictions>>

WriteNodes ==
  /\ pc = "WriteNodes"
  /\ written_nodes' = UsedNodes(used_node_id_list, all_nodes_list)
  /\ pc' = "PrepareEdges"
  /\ UNCHANGED <<input, used_node_id_list, all_nodes_list, external_to_internal_node_id_map,
                 max_internal_node_id, all_edges_list, written_edges, stale_slot_matched,
                 way_start_end_id_list, restrictions_list, written_restrictions>>

PrepareEdges ==
  /\ pc = "PrepareEdges"
  /\ LET map == external_to_internal_node_id_map
     IN  \E by_start \in Sorted(all_edges_list, "CmpEdgeByOSMStartID") :
         \E by_target \in Sorted(SetStartCoords(by_start, all_nodes_list, map, 1, 1),
                                 "CmpEdgeByOSMTargetID") :
         \E by_internal \in Sorted(ComputeWeights(by_target, all_nodes_list, map, 1, 1),
                                   "CmpEdgeByInternalSourceTargetAndName") :
           LET r == RemoveParallelEdges(by_internal, 1, FALSE)
           IN  /\ all_edges_list' = r.edges
               /\ stale_slot_matched' \in IF r.overread THEN BOOLEAN ELSE {FALSE}
  /\ pc' = "WriteEdges"
  /\ UNCHANGED <<input, used_node_id_list, all_nodes_list, external_to_internal_node_id_map,
                 max_internal_node_id, written_nodes, written_edges,
                 way_start_end_id_list, restrictions_list, written_restrictions>>

WriteEdges ==
  /\ pc = "WriteEdges"
  /\ written_edges' = Written(all_edges_list)
  /\ pc' = "PrepareRestrictions"
  /\ UNCHANGED <<input, used_node_id_list, all_nodes_list, external_to_internal_node_id_map,
                 max_internal_node_id, all_edges_list, written_nodes, stale_slot_matched,
                 way_start_end_id_list, restrictions_list, written_restrictions>>

\* sort the ways, then the restrictions by from way and by to way, each
\* sort followed by its loop
PrepareRestrictions ==
  /\ pc = "PrepareRestrictions"
  /\ LET map == external_to_internal_node_id_map
     IN  \E ways \in Sorted(way_start_end_id_list, "FirstAndLastSegmentOfWayStxxlCompare") :
         \E by_from \in Sorted(restrictions_list, "CmpRestrictionContainerByFrom") :
         \E by_to \in Sorted(RestrictionsFrom(by_from, ways, map, 1, 1),
                             "CmpRestrictionContainerByTo") :
         \E garbage \in 0..max_internal_node_id :
           /\ way_start_end_id_list' = ways
           /\ restrictions_list' = RestrictionsTo(by_to, ways, map, garbage, 1, 1)
  /\ pc' = "WriteRestrictions"
  /\ UNCHANGED <<input, used_node_id_list, all_nodes_list, external_to_internal_node_id_map,
                 max_internal_node_id, all_edges_list, written_nodes, written_edges,
                 stale_slot_matched, written_restrictions>>

WriteRestrictions ==
  /\ pc = "WriteRestrictions"
  /\ written_restrictions' = WrittenRestrictions(restrictions_list)
  /\ pc' = "Done"
  /\ UNCHANGED <<input, used_node_id_list, all_nodes_list, external_to_internal_node_id_map,
                 max_internal_node_id, all_edges_list, written_nodes, written_edges,
                 stale_slot_matched, way_start_end_id_list, restrictions_list>>

Next == PrepareNodes \/ WriteNodes \/ PrepareEdges \/ WriteEdges
          \/ PrepareRestrictions \/ WriteRestrictions

Spec == Init /\ [][Next]_vars

-----------------------------------------------------------------------------
(* Properties.                                                             *)

TypeOK ==
  /\ pc \in {"PrepareNodes", "WriteNodes", "PrepareEdges", "WriteEdges",
            "PrepareRestrictions", "WriteRestrictions", "Done"}
  /\ max_internal_node_id \in Nat
  /\ stale_slot_matched \in BOOLEAN
  /\ \A k \in DOMAIN written_edges :
       written_edges[k].source \in 0..max_internal_node_id - 1
       /\ written_edges[k].target \in 0..max_internal_node_id - 1

\* the OSM nodes that exist and that a way uses
Present == Range(input.nodes) \cap Range(input.used)

INF == 1000000

\* edge e leads from u to v, its endpoints named by the ids id
Serves(e, id, u, v) == \/ e.forward /\ id[e.source] = u /\ id[e.target] = v
                       \/ e.backward /\ id[e.source] = v /\ id[e.target] = u

\* the weight of the cheapest of the edges es that lead from u to v
Best(es, id, u, v) ==
  LET w == {e.weight : e \in {e \in Range(es) : Serves(e, id, u, v)}}
  IN  IF w = {} THEN INF ELSE Min(w)

\* the input edges between two distinct present nodes, with their weights,
\* their endpoints still OSM ids
UsableEdges ==
  SelectSeq([k \in 1..Len(input.edges) |->
               LET e == input.edges[k]
               IN  [e EXCEPT !.source = e.osm_source, !.target = e.osm_target,
                             !.weight = WeightOf(e.weight_data)]],
            LAMBDA e : e.source \in Present /\ e.target \in Present /\ e.source # e.target)

Identity == [n \in 0..max_internal_node_id - 1 |-> n]

\* The node file and the id map agree: WriteNodes writes exactly the used
\* nodes that exist, and the k-th node written is the one PrepareNodes gave
\* internal id k-1, the id every written edge refers to it by.
NodeFileMatchesIds ==
  pc \notin {"PrepareNodes", "WriteNodes"} =>
    /\ Len(written_nodes) = max_internal_node_id
    /\ DOMAIN external_to_internal_node_id_map = Present
    /\ \A k \in DOMAIN written_nodes :
         /\ written_nodes[k] \in Present
         /\ external_to_internal_node_id_map[written_nodes[k]] = k - 1

\* The edge file keeps, for every ordered pair of nodes, exactly the cheapest
\* connection from one to the other that the usable input edges offer, and
\* at most one edge per pair; unless the group scan took the slot past the
\* end of the list into the last group.
ParallelEdgesResolved ==
  pc = "Done" /\ ~stale_slot_matched =>
    LET map == external_to_internal_node_id_map
    IN  /\ \A u, v \in 0..max_internal_node_id - 1 :
             Best(written_edges, Identity, u, v) = Best(UsableEdges, map, u, v)
        /\ \A k, m \in DOMAIN written_edges : k # m =>
             \/ written_edges[k].source # written_edges[m].source
             \/ written_edges[k].target # written_edges[m].target

\* the input restrictions whose from and to ways exist and begin or end at
\* their via node, and whose nodes exist: renumbered, what the restriction
\* file should hold
ValidRestrictions ==
  LET map == external_to_internal_node_id_map
      Way(id) == {w \in Range(input.ways) : w.way_id = id}
      Ends(id, via) == {Neighbour(w, via) : w \in Way(id)} \cap DOMAIN map
  IN  UNION {{[from |-> map[f], via |-> map[r.via], to |-> map[t]] :
                f \in Ends(r.from, r.via), t \in Ends(r.to, r.via)} :
               r \in {r \in Range(input.restrictions) : r.via \in DOMAIN map}}

\* Among equally cheap parallel edges a named one is kept: when a usable
\* input edge with a name is among the cheapest from u to v, the edge file
\* serves u to v by a named edge (the name order of the last sort).
NamedEdgePreferred ==
  pc = "Done" /\ ~stale_slot_matched =>
    LET map == external_to_internal_node_id_map
    IN  \A u, v \in 0..max_internal_node_id - 1 :
          (\E e \in Range(UsableEdges) : /\ Serves(e, map, u, v)
                                         /\ e.name_id # EMPTY_NAMEID
                                         /\ e.weight = Best(UsableEdges, map, u, v))
          => \E e \in Range(written_edges) : Serves(e, Identity, u, v) /\ e.name_id # EMPTY_NAMEID

\* The restriction file holds exactly the valid input restrictions, with
\* their nodes renumbered: PrepareRestrictions marks a restriction whose
\* from way, via node or to way is missing ("Restriction references invalid
\* way/node") so that WriteRestrictions drops it.
RestrictionsWrittenAsInput ==
  pc = "Done" => Range(written_restrictions) = ValidRestrictions

=============================================================================
