------------------------ MODULE MC_GuidanceGeometry ------------------------
(***************************************************************************)
(* Model-checking instance of GuidanceGeometry.                            *)
(*                                                                         *)
(* A leg is a path of grid locations starting at <<0, 0>>; each move is    *)
(* none (a duplicated coordinate), one metre east, or four metres east or  *)
(* north.  The interior locations at which a turn step begins are any      *)
(* subset of the path's inner locations.  Step k carries name and mode k,  *)
(* the arrival those of the step before it, and a step's duration is its   *)
(* length.  Interior steps may carry a lane tuple.                         *)
(***************************************************************************)
EXTENDS GuidanceGeometry, FiniteSets

Moves == {<<0, 0>>, <<1, 0>>, <<4, 0>>, <<0, 4>>}

\* the locations reached by the moves ms from <<0, 0>>
Path(ms) == [k \in 1..Len(ms) + 1 |->
               <<SumFunction([j \in 1..k - 1 |-> ms[j][1]]),
                 SumFunction([j \in 1..k - 1 |-> ms[j][2]])>>]

Inter(bearings, in, out, lanes) ==
  [bearings |-> bearings, entry |-> Len(bearings), in |-> in, out |-> out, lanes |-> lanes]

\* the leg over locations P whose turn steps begin at the 0-based
\* locations of the ascending sequence turns, with lane tuples on lanes
MakeLeg(P, turns, lanes) ==
  LET L == Len(P)
      o == <<0>> \o turns \o <<L - 1>>           \* segment_offsets
      n == Len(o)                                 \* steps with the arrival
      B(a, b) == Bearing(P[a + 1], P[b + 1])
      dist(k) == PathLength(SubSeq(P, o[k] + 1, o[k + 1] + 1))
      step(k) ==
        IF k = 1
        THEN [type |-> "NoTurn", modifier |-> "UTurn", wp |-> "depart",
              name_id |-> 1, mode |-> 1, dist |-> dist(1), duration |-> dist(1),
              gb |-> 0, ge |-> o[2] + 1, bb |-> <<0, 0>>, ba |-> B(0, 1),
              inter |-> Inter(<<B(0, 1)>>, NO_INDEX, 0, 0)]
        ELSE IF k = n
        THEN [type |-> "NoTurn", modifier |-> "UTurn", wp |-> "arrive",
              name_id |-> n - 1, mode |-> n - 1, dist |-> 0, duration |-> 0,
              gb |-> L - 1, ge |-> L, bb |-> B(L - 2, L - 1), ba |-> <<0, 0>>,
              inter |-> Inter(<<ReverseBearing(B(L - 2, L - 1))>>, 0, NO_INDEX, 0)]
        ELSE [type |-> "Turn", modifier |-> "Straight", wp |-> "none",
              name_id |-> k, mode |-> k, dist |-> dist(k), duration |-> dist(k),
              gb |-> o[k], ge |-> o[k + 1] + 1,
              bb |-> B(o[k] - 1, o[k]), ba |-> B(o[k], o[k] + 1),
              inter |-> Inter(<<ReverseBearing(B(o[k] - 1, o[k])), B(o[k], o[k] + 1)>>, 0, 1,
                              IF k \in lanes THEN 1 ELSE 0)]
  IN  Leg([k \in 1..n |-> step(k)], P, o, [k \in 1..n - 1 |-> dist(k)])

\* ascending sequences over a set of indices
Ascending(S) == {s \in [1..Cardinality(S) -> S] : \A k \in 1..Len(s) - 1 : s[k] < s[k + 1]}

\* the turn locations of a path of m moves
TurnLocations(m) == UNION {Ascending(T) : T \in SUBSET (1..m - 1)}

MCInputs ==
  UNION { { MakeLeg(Path(ms), turns, lanes) : turns \in TurnLocations(Len(ms)), lanes \in {{}, {2}} } :
          ms \in UNION {[1..m -> Moves] : m \in 1..4} }

=============================================================================
