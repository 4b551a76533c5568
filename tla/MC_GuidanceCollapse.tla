------------------------- MODULE MC_GuidanceCollapse -------------------------
(***************************************************************************)
(* Model-checking instance of GuidanceCollapse.                            *)
(*                                                                         *)
(* A leg is assembled from turns, each drawn from the product of small     *)
(* sets: its instruction type and modifier, the name and mode of the road  *)
(* it turns onto, that road's length, and the number of roads at the turn. *)
(* Roads are straight, so a step's bearing in is the reverse of the        *)
(* previous step's bearing out, and the bearing out turns by the modifier. *)
(* A turn with two roads has one entry; a UseLane step carries a lane      *)
(* tuple of its own.                                                       *)
(***************************************************************************)
EXTENDS GuidanceCollapse

Heading == [Straight |-> 0, Right |-> 90, Left |-> 270, UTurn |-> 180]

\* the heading after the first k turns of ts, leaving north
RECURSIVE HeadingAfter(_, _)
HeadingAfter(ts, k) ==
  IF k = 0 THEN 0 ELSE (HeadingAfter(ts, k - 1) + Heading[ts[k].modifier]) % 360

\* a lane tuple with the description it indexes
Lane(lanes_in_turn, first_lane_from_the_right, lane_description) ==
  [lanes |-> [lanes_in_turn |-> lanes_in_turn,
              first_lane_from_the_right |-> first_lane_from_the_right],
   lane_description |-> lane_description]
NoLane == Lane(0, 0, <<>>)
\* the left of two lanes, next to a through lane on its right
LeftOfThrough == Lane(1, 1, <<{"left"}, {"straight"}>>)
\* the left of two lanes, with no through lane beside it
LeftOfTurn == Lane(1, 1, <<{"left"}, {"right"}>>)
\* the right of two lanes, next to a straight-or-left lane on its left
RightOfThrough == Lane(1, 0, <<{"straight", "left"}, {"right"}>>)
LaneChoices == {LeftOfThrough, LeftOfTurn, RightOfThrough}

\* the lanes of a turn: only a UseLane turn carries a lane tuple
LaneOf(t) == IF t.type = "UseLane" THEN t.lane ELSE NoLane

Intersection(id, degree, in_bearing, out_bearing, lane) ==
  [id |-> id, degree |-> degree, entries |-> IF degree = 2 THEN 1 ELSE 2,
   in_bearing |-> in_bearing, out_bearing |-> out_bearing, lanes |-> lane.lanes,
   lane_description |-> lane.lane_description]

\* the steps assembled for a leg with depart road d and turns ts
Leg(d, ts) ==
  LET n == Len(ts) + 2
  IN  [i \in 0..n-1 |->
         IF i = 0
         THEN [type |-> "NoTurn", modifier |-> "UTurn", wp |-> "depart",
               name_id |-> d.name_id, mode |-> d.mode, dist |-> d.dist, gb |-> 0, ge |-> 2,
               inter |-> <<Intersection(0, 1, 0, 0, NoLane)>>]
         ELSE IF i = n - 1
         THEN [type |-> "NoTurn", modifier |-> "UTurn", wp |-> "arrive",
               name_id |-> IF n = 2 THEN d.name_id ELSE ts[n-2].name_id,
               mode |-> IF n = 2 THEN d.mode ELSE ts[n-2].mode,
               dist |-> 0, gb |-> n - 1, ge |-> n,
               inter |-> <<Intersection(n - 1, 1, ReverseBearing(HeadingAfter(ts, n - 2)), 0, NoLane)>>]
         ELSE [type |-> ts[i].type, modifier |-> ts[i].modifier, wp |-> "none",
               name_id |-> ts[i].name_id, mode |-> ts[i].mode, dist |-> ts[i].dist,
               gb |-> i, ge |-> i + 2,
               inter |-> <<Intersection(i, ts[i].degree, ReverseBearing(HeadingAfter(ts, i - 1)),
                                        HeadingAfter(ts, i),
                                        LaneOf(ts[i]))>>]]

\* the turns and depart roads over the given sets; a road is unnamed or
\* carries one of road_names, and the depart road is long
Turns(types, modifiers, road_names, modes, lengths, degrees) ==
  [type : types, modifier : modifiers, name_id : {EMPTY_NAMEID} \cup road_names,
   mode : modes, dist : lengths, degree : degrees, lane : {LeftOfThrough}]
Departs(road_names, modes) == [name_id : {EMPTY_NAMEID} \cup road_names, mode : modes, dist : {200}]

AllTypes == {"Turn", "NewName", "Continue", "Suppressed", "Merge", "Sliproad", "UseLane"}

\* Three families of legs, one travel mode:
\*  - two turns of every type, with every bend, short and long roads and
\*    two or three roads at a turn (sliproads, staggered intersections,
\*    merges into the depart step);
\*  - three straight turns with two road names besides the empty one
\*    (A->A folds over several steps, name oscillations, bridges);
\*  - three straight or right turns (two quick rights are a u-turn, which
\*    may swallow the name change after it).
AllTurns == Turns(AllTypes, {"Straight", "Right", "Left"}, {1}, {1}, {1, 200}, {2, 3})
NameTurns == Turns({"Turn", "NewName"}, {"Straight"}, {1, 2}, {1}, {1, 200}, {2, 3})
UTurnTurns == Turns({"Turn", "NewName"}, {"Straight", "Right"}, {1}, {1}, {1, 200}, {3})
\* straight turns on long roads that announce a lane change, are suppressed
\* or end a road, the UseLane turns over every lane choice
LaneTurns ==
  {[type |-> "UseLane", modifier |-> "Straight", name_id |-> 1, mode |-> 1, dist |-> 200,
    degree |-> 3, lane |-> l] : l \in LaneChoices}
  \cup {[type |-> t, modifier |-> "Straight", name_id |-> 1, mode |-> 1, dist |-> 200,
         degree |-> 3, lane |-> NoLane] : t \in {"Suppressed", "EndOfRoad"}}

\* the pass compares names only with each other and with EMPTY_NAMEID, so
\* swapping names 1 and 2 maps a leg onto one that behaves alike: of the
\* legs over two names only those that use name 1 first are kept
NamesInOrder(dt) ==
  LET names == <<dt[1].name_id>> \o [k \in DOMAIN dt[2] |-> dt[2][k].name_id]
  IN  \A k \in DOMAIN names : names[k] = 2 => \E j \in 1..k - 1 : names[j] = 1

Descriptors ==
       (Departs({1}, {1}) \X BoundedSeq(AllTurns, 2))
  \cup {dt \in Departs({1, 2}, {1}) \X BoundedSeq(NameTurns, 3) : NamesInOrder(dt)}
  \cup (Departs({1}, {1}) \X BoundedSeq(UTurnTurns, 3))
  \cup (Departs({1}, {1}) \X BoundedSeq(LaneTurns, 4))
MCInputs == { Leg(dt[1], dt[2]) : dt \in Descriptors }

\* a single name change that may also change the travel mode
ModeChangeInputs ==
  { Leg(d, ts) : d \in Departs({1}, {1, 2}),
                 ts \in BoundedSeq(Turns({"NewName"}, {"Straight"}, {1}, {1, 2}, {1}, {2}), 1) }

=============================================================================
