----------------------------- MODULE ManyToMany -----------------------------
(***************************************************************************)
(* The N x M travel-weight table of ManyToManyRouting::operator()          *)
(* (include/engine/routing_algorithms/many_to_many.hpp).                   *)
(*                                                                         *)
(* Phase 1 runs one backward upward search per target phantom and leaves  *)
(* a bucket (column, weight) at every node it settles.  Phase 2 runs one   *)
(* forward upward search per source phantom and combines its key at every *)
(* settled node with the buckets found there.  Both phases share one       *)
(* query heap (forward_heap_1 of the thread-local SearchEngineData) and    *)
(* one bucket map for the whole request; both searches stall on demand.    *)
(*                                                                         *)
(* The graph is the facade's contracted query graph, a constant: every     *)
(* edge is stored at the node whose adjacency range holds it, with the     *)
(* forward/backward flags of its EdgeData.  One loop iteration of a        *)
(* search (one DeleteMin with its bucket work, stall check and            *)
(* relaxation) is one action; ties between equal keys in the binary heap   *)
(* are a nondeterministic choice.  The parent pointers the heap stores are *)
(* never read by this algorithm and are left out.                          *)
(***************************************************************************)
EXTENDS Integers, Sequences, FiniteSets, FiniteSetsExt

CONSTANTS
  Nodes,              \* edge-based node ids of the query graph
  Edges,              \* [source, target, distance, forward, backward] records
  Distance,           \* Distance[a, b]: the shortest weight of a path of at
                      \* least one edge from a to b in the uncontracted graph
  PhantomCandidates,  \* snapped phantoms a request may carry
  NumPhantoms,        \* number of coordinates of the request
  SourceIndexChoices, \* possible values of source_indices (0-based)
  TargetIndexChoices  \* possible values of target_indices (0-based)

\* std::numeric_limits<EdgeWeight>::max(), the "unreachable" sentinel
INVALID_EDGE_WEIGHT == 2147483647

ASSUME \A p \in PhantomCandidates :
         /\ p.forward_enabled \/ p.reverse_enabled
         /\ p.forward_segment_id # p.reverse_segment_id

VARIABLES
  phantom_nodes,   \* the request's phantoms, 1..NumPhantoms -> phantom
  source_indices,  \* 0-based indices into phantom_nodes, <<>> = all
  target_indices,
  pc,              \* which part of operator() runs
  column_idx,      \* target search being run
  row_idx,         \* source search being run
  inserted,        \* QueryHeap::WasInserted
  inheap,          \* nodes still in the binary heap (not yet DeleteMin'ed)
  key,             \* QueryHeap::GetKey
  buckets,         \* search_space_with_buckets: node -> set of NodeBucket
  result_table     \* row-major table, index row * number_of_targets + col

vars == <<phantom_nodes, source_indices, target_indices, pc, column_idx,
          row_idx, inserted, inheap, key, buckets, result_table>>

-----------------------------------------------------------------------------
(* PhantomNode accessors *)

GetForwardWeightPlusOffset(p) == p.forward_offset + p.forward_weight

GetReverseWeightPlusOffset(p) == p.reverse_offset + p.reverse_weight

(* Sizes and index translation of operator() *)

number_of_sources ==
  IF source_indices = <<>> THEN Len(phantom_nodes) ELSE Len(source_indices)

number_of_targets ==
  IF target_indices = <<>> THEN Len(phantom_nodes) ELSE Len(target_indices)

\* the phantom of target column c / source row r (both 0-based)
TargetPhantom(c) ==
  IF target_indices = <<>> THEN phantom_nodes[c + 1]
  ELSE phantom_nodes[target_indices[c + 1] + 1]

SourcePhantom(r) ==
  IF source_indices = <<>> THEN phantom_nodes[r + 1]
  ELSE phantom_nodes[source_indices[r + 1] + 1]

ResultIndex(r, c) == r * number_of_targets + c

-----------------------------------------------------------------------------
(* The query heap *)

\* Clear() followed by one Insert per enabled segment of the phantom; the
\* sign is +1 for a target (backward) search and -1 for a source search.
SeedHeap(phantom, sign) ==
  LET seeds == { s \in { [node |-> phantom.forward_segment_id,
                          on   |-> phantom.forward_enabled,
                          w    |-> sign * GetForwardWeightPlusOffset(phantom)],
                         [node |-> phantom.reverse_segment_id,
                          on   |-> phantom.reverse_enabled,
                          w    |-> sign * GetReverseWeightPlusOffset(phantom)] } :
                 s.on }
      seeded == { s.node : s \in seeds }
  IN  /\ inserted' = seeded
      /\ inheap' = seeded
      /\ key' = [n \in Nodes |->
                   IF n \in seeded THEN (CHOOSE s \in seeds : s.node = n).w
                   ELSE 0]

\* the nodes DeleteMin may return
MinNodes == { n \in inheap : \A m \in inheap : key[n] <= key[m] }

-----------------------------------------------------------------------------
(* Graph access and the two search helpers *)

\* edges of node's adjacency range usable in the search direction
OutEdges(forward_direction, node) ==
  { e \in Edges : e.source = node /\
                  IF forward_direction THEN e.forward ELSE e.backward }

\* edges of node's adjacency range usable against the search direction
InEdges(forward_direction, node) ==
  { e \in Edges : e.source = node /\
                  IF forward_direction THEN e.backward ELSE e.forward }

\* StallAtNode: a node already in the heap reaches node more cheaply
StallAtNode(forward_direction, node, distance) ==
  \E e \in InEdges(forward_direction, node) :
     /\ e.target \in inserted
     /\ key[e.target] + e.distance < distance

\* RelaxOutgoingEdges: insert newly discovered targets, decrease the key
\* of targets reached more cheaply; heapset is the heap after DeleteMin.
RelaxOutgoingEdges(forward_direction, node, distance, heapset) ==
  LET out == OutEdges(forward_direction, node)
      reached == { e.target : e \in out }
      to_distance(to) == Min({ distance + e.distance : e \in { f \in out : f.target = to } })
      new == reached \ inserted
      better == { to \in reached \cap inserted : to_distance(to) < key[to] }
  IN  /\ inserted' = inserted \cup new
      /\ inheap' = heapset \cup new
      /\ key' = [n \in Nodes |-> IF n \in new \cup better THEN to_distance(n)
                                 ELSE key[n]]

\* spec-modelled: the smallest self-loop usable forward at node
GetLoopWeight(node) ==
  LET loops == { e.distance : e \in { f \in Edges : f.source = node /\
                                                    f.target = node /\ f.forward } }
  IN  IF loops = {} THEN INVALID_EDGE_WEIGHT ELSE Min(loops)

\* mutant: a negative sum is taken as it is, without the loop rule
BucketUpdateWithoutLoop(current_distance, node, source_distance, target_distance) ==
  LET new_distance == source_distance + target_distance
  IN  IF new_distance < current_distance THEN new_distance ELSE current_distance

\* the value of one table cell after one bucket of node is applied to it
BucketUpdate(current_distance, node, source_distance, target_distance) ==
  LET new_distance == source_distance + target_distance
      loop_weight == GetLoopWeight(node)
  IN  IF new_distance < 0
      THEN IF loop_weight # INVALID_EDGE_WEIGHT /\ new_distance + loop_weight >= 0
           THEN Min({current_distance, new_distance + loop_weight})
           ELSE current_distance
      ELSE IF new_distance < current_distance THEN new_distance
           ELSE current_distance

-----------------------------------------------------------------------------
(* Actions *)

\* mutant: the table is sized one cell too large
InitTableTooLarge ==
  /\ phantom_nodes \in [1..NumPhantoms -> PhantomCandidates]
  /\ source_indices \in SourceIndexChoices
  /\ target_indices \in TargetIndexChoices
  /\ pc = "search_target"
  /\ column_idx = 0
  /\ row_idx = 0
  /\ inserted = {}
  /\ inheap = {}
  /\ key = [n \in Nodes |-> 0]
  /\ buckets = [n \in Nodes |-> {}]
  /\ result_table = [i \in 0..(number_of_sources * number_of_targets) |->
                       INVALID_EDGE_WEIGHT]

Init ==
  /\ phantom_nodes \in [1..NumPhantoms -> PhantomCandidates]
  /\ source_indices \in SourceIndexChoices
  /\ target_indices \in TargetIndexChoices
  /\ pc = "search_target"
  /\ column_idx = 0
  /\ row_idx = 0
  /\ inserted = {}
  /\ inheap = {}
  /\ key = [n \in Nodes |-> 0]
  /\ buckets = [n \in Nodes |-> {}]
  /\ result_table = [i \in 0..(number_of_sources * number_of_targets - 1) |->
                       INVALID_EDGE_WEIGHT]

\* search_target_phantom: clear the heap, seed the target's segments
SearchTargetPhantom ==
  /\ pc = "search_target"
  /\ SeedHeap(TargetPhantom(column_idx), 1)
  /\ pc' = "backward"
  /\ UNCHANGED <<phantom_nodes, source_indices, target_indices, column_idx,
                 row_idx, buckets, result_table>>

BackwardRoutingStep ==
  /\ pc = "backward"
  /\ \E node \in MinNodes :
       LET target_distance == key[node]
       IN  /\ buckets' = [buckets EXCEPT ![node] =
                            @ \cup {[target_id |-> column_idx,
                                     distance |-> target_distance]}]
           /\ IF StallAtNode(FALSE, node, target_distance)
              THEN /\ inheap' = inheap \ {node}
                   /\ UNCHANGED <<inserted, key>>
              ELSE RelaxOutgoingEdges(FALSE, node, target_distance,
                                      inheap \ {node})
  /\ UNCHANGED <<phantom_nodes, source_indices, target_indices, pc,
                 column_idx, row_idx, result_table>>

\* the heap ran empty: ++column_idx, next target or on to the sources
TargetSearchDone ==
  /\ pc = "backward"
  /\ inheap = {}
  /\ column_idx' = column_idx + 1
  /\ pc' = IF column_idx + 1 < number_of_targets THEN "search_target"
           ELSE "search_source"
  /\ UNCHANGED <<phantom_nodes, source_indices, target_indices, row_idx,
                 inserted, inheap, key, buckets, result_table>>

\* search_source_phantom: clear the heap, seed the source at minus its weight
SearchSourcePhantom ==
  /\ pc = "search_source"
  /\ SeedHeap(SourcePhantom(row_idx), -1)
  /\ pc' = "forward"
  /\ UNCHANGED <<phantom_nodes, source_indices, target_indices, column_idx,
                 row_idx, buckets, result_table>>

ForwardRoutingStep ==
  /\ pc = "forward"
  /\ \E node \in MinNodes :
       LET source_distance == key[node]
           hit(i) == { b \in buckets[node] : ResultIndex(row_idx, b.target_id) = i }
       IN  /\ result_table' =
                [i \in DOMAIN result_table |->
                   IF hit(i) = {} THEN result_table[i]
                   ELSE BucketUpdate(result_table[i], node, source_distance,
                                     (CHOOSE b \in hit(i) : TRUE).distance)]
           /\ IF StallAtNode(TRUE, node, source_distance)
              THEN /\ inheap' = inheap \ {node}
                   /\ UNCHANGED <<inserted, key>>
              ELSE RelaxOutgoingEdges(TRUE, node, source_distance,
                                      inheap \ {node})
  /\ UNCHANGED <<phantom_nodes, source_indices, target_indices, pc,
                 column_idx, row_idx, buckets>>

\* the heap ran empty: ++row_idx, next source or return result_table
SourceSearchDone ==
  /\ pc = "forward"
  /\ inheap = {}
  /\ row_idx' = row_idx + 1
  /\ pc' = IF row_idx + 1 < number_of_sources THEN "search_source" ELSE "done"
  /\ UNCHANGED <<phantom_nodes, source_indices, target_indices, column_idx,
                 inserted, inheap, key, buckets, result_table>>

Next ==
  \/ SearchTargetPhantom
  \/ BackwardRoutingStep
  \/ TargetSearchDone
  \/ SearchSourcePhantom
  \/ ForwardRoutingStep
  \/ SourceSearchDone

Spec == Init /\ [][Next]_vars

-----------------------------------------------------------------------------
(* Properties *)

TypeOK ==
  /\ pc \in {"search_target", "backward", "search_source", "forward", "done"}
  /\ inserted \subseteq Nodes
  /\ inheap \subseteq inserted
  /\ key \in [Nodes -> Int]
  /\ \A n \in Nodes : \A b \in buckets[n] :
       b.target_id \in 0..(number_of_targets - 1) /\ b.distance \in Int
  /\ result_table \in [0..(number_of_sources * number_of_targets - 1) ->
                         Int]

\* The weight of the best route from a source phantom to a target phantom:
\* leave the source's segment at the snap point (minus its weight plus
\* offset), travel the uncontracted graph, enter the target's segment up
\* to its snap point; on one segment with the target ahead, the on-edge
\* difference.
ReferenceWeight(s, t) ==
  LET segs(p) ==
        (IF p.forward_enabled
         THEN {[id |-> p.forward_segment_id, w |-> GetForwardWeightPlusOffset(p)]}
         ELSE {}) \cup
        (IF p.reverse_enabled
         THEN {[id |-> p.reverse_segment_id, w |-> GetReverseWeightPlusOffset(p)]}
         ELSE {})
      pairs == segs(s) \X segs(t)
      direct == { pr[2].w - pr[1].w :
                    pr \in { q \in pairs : q[2].id = q[1].id /\ q[2].w >= q[1].w } }
      routed == { Distance[pr[1].id, pr[2].id] - pr[1].w + pr[2].w :
                    pr \in { q \in pairs : Distance[q[1].id, q[2].id] # INVALID_EDGE_WEIGHT } }
  IN  IF direct \cup routed = {} THEN INVALID_EDGE_WEIGHT
      ELSE Min(direct \cup routed)

\* Once operator() returns, every cell of the table holds the weight of the
\* best route from its row's source phantom to its column's target phantom
\* (or the sentinel when there is none): stalling, the bucket join, the
\* negative source seeds with the loop rule for a target behind the source
\* on the same segment, and the row/column indexing must all be right.
MatrixCorrect ==
  pc = "done" =>
    \A r \in 0..(number_of_sources - 1), c \in 0..(number_of_targets - 1) :
       result_table[ResultIndex(r, c)] = ReferenceWeight(SourcePhantom(r),
                                                         TargetPhantom(c))

=============================================================================
