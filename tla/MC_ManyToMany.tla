--------------------------- MODULE MC_ManyToMany ---------------------------
(***************************************************************************)
(* Model-checking instance of ManyToMany.                                  *)
(*                                                                         *)
(* The facade's query graph is produced offline by the contractor, which   *)
(* is not part of this repository.  The fixture below builds it the way a  *)
(* contraction hierarchy is built: a small edge-based road graph (Road) is *)
(* contracted in node-id order, every path u -> v -> w over the contracted *)
(* node v becomes a shortcut u -> w (a loop when u = w) unless a direct    *)
(* edge is at least as short, and every node keeps the edges to the nodes *)
(* contracted after it.  Distance is computed on Road itself, so the       *)
(* matrix is checked against the uncontracted graph.                       *)
(***************************************************************************)
EXTENDS ManyToMany

MCNodes == 0..3

\* <<from, to, weight>> of the edge-based road graph; the weight of an edge
\* covers its source segment plus the turn
Road == {<<0, 1, 3>>, <<0, 2, 5>>, <<0, 3, 1>>, <<3, 1, 1>>, <<1, 2, 2>>,
         <<2, 0, 2>>, <<2, 3, 4>>, <<3, 2, 4>>}

INF == INVALID_EDGE_WEIGHT

RoadWeight ==
  [p \in MCNodes \X MCNodes |->
     IF \E r \in Road : <<r[1], r[2]>> = p
     THEN Min({ r[3] : r \in { q \in Road : <<q[1], q[2]>> = p } })
     ELSE INF]

\* weights after contracting node v
Contract(v, W) ==
  [p \in MCNodes \X MCNodes |->
     IF p[1] > v /\ p[2] > v /\ W[p[1], v] # INF /\ W[v, p[2]] # INF
     THEN Min({W[p], W[p[1], v] + W[v, p[2]]})
     ELSE W[p]]

\* the adjacency range of v once v is contracted
EdgesOf(v, W) ==
  { [source |-> v, target |-> u, distance |-> W[v, u], forward |-> TRUE,
     backward |-> W[u, v] = W[v, u]] : u \in { x \in MCNodes : x >= v /\ W[v, x] # INF } }
  \cup
  { [source |-> v, target |-> u, distance |-> W[u, v], forward |-> FALSE,
     backward |-> TRUE] : u \in { x \in MCNodes : x > v /\ W[x, v] # INF /\ W[x, v] # W[v, x] } }

RECURSIVE QueryGraphFrom(_, _)
QueryGraphFrom(v, W) ==
  IF v > 3 THEN {} ELSE EdgesOf(v, W) \cup QueryGraphFrom(v + 1, Contract(v, W))

MCEdges == QueryGraphFrom(0, RoadWeight)

\* shortest weight over paths of 1..k edges
RECURSIVE PathWeight(_)
PathWeight(k) ==
  IF k = 1 THEN RoadWeight
  ELSE LET D == PathWeight(k - 1)
       IN  [p \in MCNodes \X MCNodes |->
              Min({D[p]} \cup { D[p[1], m] + RoadWeight[m, p[2]] :
                                  m \in { x \in MCNodes : D[p[1], x] # INF /\
                                                         RoadWeight[x, p[2]] # INF } })]

MCDistance == PathWeight(4)

\* a phantom's weight plus offset never exceeds the cheapest edge leaving
\* its segment (the segment's own weight)
Phantom(fid, fon, fw, fo, rid, ron, rw, ro) ==
  [forward_segment_id |-> fid, forward_enabled |-> fon,
   forward_weight |-> fw, forward_offset |-> fo,
   reverse_segment_id |-> rid, reverse_enabled |-> ron,
   reverse_weight |-> rw, reverse_offset |-> ro]

MCPhantoms ==
  { Phantom(2, TRUE, 1, 1, 3, TRUE, 1, 0),
    Phantom(2, TRUE, 0, 0, 1, FALSE, 0, 0),
    Phantom(0, TRUE, 1, 0, 1, FALSE, 0, 0),
    Phantom(0, FALSE, 0, 0, 1, TRUE, 1, 1),
    Phantom(0, TRUE, 1, 0, 1, TRUE, 0, 0) }

MCSourceIndexChoices == {<<>>, <<1, 0>>}
MCTargetIndexChoices == {<<>>, <<1>>}

=============================================================================
