-------------------------- MODULE GuidanceCollapse --------------------------
(***************************************************************************)
(* collapseTurns and collapseTurnAt (engine/guidance/post_processing.cpp): *)
(* the pass that folds short, choiceless or name-only steps of a leg into  *)
(* their neighbours.                                                       *)
(*                                                                         *)
(* A step keeps the fields the pass reads or writes: the instruction type  *)
(* and direction modifier, the waypoint type, name_id, mode, distance,     *)
(* the geometry interval [gb, ge) and its intersections.  An intersection  *)
(* keeps its id (the index of the input step it was the turn of), the     *)
(* number of its bearings and of its entries, the bearings of the road in *)
(* and the road out, and its lane tuple.  A name string is its name_id:    *)
(* id 0 (EMPTY_NAMEID, also the invalid step's name_id) names the empty   *)
(* string, any other id a name of its own.                                 *)
(***************************************************************************)
EXTENDS Integers, SequencesExt

CONSTANTS
  Inputs    \* the step vectors handed to collapseTurns

MAX_COLLAPSE_DISTANCE == 30
name_segment_cutoff_length == 100
MAX_STAGGERED_DISTANCE == 3

EMPTY_NAMEID == 0      \* util/typedefs.hpp; also getInvalidRouteStep's name_id

Modifiers == {"UTurn", "SharpRight", "Right", "SlightRight", "Straight",
              "SlightLeft", "Left", "SharpLeft"}

\* util::guidance::requiresNameAnnounced, on names without refs or
\* suffixes: a name is announced when the road gets a name it did not
\* have.  The name of a step is its name_id, EMPTY_NAMEID the empty one.
RequiresNameAnnounced(from, to) == to # EMPTY_NAMEID /\ to # from

\* util::guidance::getTurnDirection
GetTurnDirection(angle) ==
  CASE angle > 0 /\ angle < 60      -> "SharpRight"
    [] angle >= 60 /\ angle < 140   -> "Right"
    [] angle >= 140 /\ angle < 160  -> "SlightRight"
    [] angle >= 160 /\ angle <= 200 -> "Straight"
    [] angle > 200 /\ angle <= 220  -> "SlightLeft"
    [] angle > 220 /\ angle <= 300  -> "Left"
    [] angle > 300 /\ angle < 360   -> "SharpLeft"
    [] OTHER                        -> "UTurn"

\* util::guidance::mirrorDirectionModifier
MirrorDirectionModifier(m) ==
  [UTurn |-> "UTurn", SharpRight |-> "SharpLeft", Right |-> "Left",
   SlightRight |-> "SlightLeft", Straight |-> "Straight", SlightLeft |-> "SlightRight",
   Left |-> "Right", SharpLeft |-> "SharpRight"][m]

\* util::bearing::reverseBearing and util::guidance::angularDeviation
ReverseBearing(b) == IF b >= 180 THEN b - 180 ELSE b + 180
AngularDeviation(a, b) ==
  LET d == IF a >= b THEN a - b ELSE b - a
  IN  IF d > 180 THEN 360 - d ELSE d

-----------------------------------------------------------------------------
(* Helpers of post_processing.cpp                                          *)

\* util::guidance::LaneTupel(): no lanes
NoLanes == [lanes_in_turn |-> 0, first_lane_from_the_right |-> 0]

InvalidIntersection ==
  [id |-> -1, degree |-> 0, entries |-> 0, in_bearing |-> 0, out_bearing |-> 0,
   lanes |-> NoLanes, lane_description |-> <<>>]

\* getInvalidRouteStep
InvalidStep ==
  [type |-> "NoTurn", modifier |-> "UTurn", wp |-> "none", name_id |-> EMPTY_NAMEID,
   mode |-> 0, dist |-> 0, gb |-> 0, ge |-> 0, inter |-> <<InvalidIntersection>>]

HasManeuver(first, second) == first.type # "Suppressed" \/ second.type # "Suppressed"

ForwardStepSignage(destination, origin) == [destination EXCEPT !.name_id = origin.name_id]

Choiceless(step, previous) ==
  previous.dist < 4 * MAX_COLLAPSE_DISTANCE /\ step.inter[1].entries <= 1

IsCollapsableInstruction(step) ==
  \/ step.type = "NewName"
  \/ step.type \in {"Suppressed", "Turn", "Continue"} /\ step.modifier = "Straight"
  \/ step.type = "Merge"

Compatible(lhs, rhs) == lhs.mode = rhs.mode

TurnAngle(entry_bearing, exit_bearing) ==
  LET offset == 360 - entry_bearing
      rotated == IF exit_bearing + offset > 360 THEN exit_bearing + offset - 360
                 ELSE exit_bearing + offset
      angle == 540 - rotated
  IN  IF angle > 360 THEN angle - 360 ELSE angle

IsNoticeableNameChange(lhs, rhs) == RequiresNameAnnounced(lhs.name_id, rhs.name_id)

\* step vectors are functions from 0 .. size-1, indexed as in the code
Size(steps) == Cardinality(DOMAIN steps)

RECURSIVE NameSegmentLength(_, _)
NameSegmentLength(at, steps) ==
  IF at + 1 < Size(steps) /\ ~IsNoticeableNameChange(steps[at], steps[at + 1])
  THEN steps[at].dist + NameSegmentLength(at + 1, steps)
  ELSE steps[at].dist

\* mutant: the geometry end is not moved when by_step is appended
ElongateKeepingEnd(step, by_step) ==
  IF step.ge = by_step.gb + 1
  THEN [step EXCEPT !.dist = @ + by_step.dist, !.inter = @ \o by_step.inter]
  ELSE [step EXCEPT !.dist = @ + by_step.dist, !.gb = by_step.gb,
                    !.type = by_step.type, !.modifier = by_step.modifier,
                    !.wp = by_step.wp, !.inter = by_step.inter \o @]

\* elongate: by_step is appended when it follows step, else prepended and
\* its maneuver taken over
Elongate(step, by_step) ==
  IF step.ge = by_step.gb + 1
  THEN [step EXCEPT !.dist = @ + by_step.dist, !.ge = by_step.ge,
                    !.inter = @ \o by_step.inter]
  ELSE [step EXCEPT !.dist = @ + by_step.dist, !.gb = by_step.gb,
                    !.type = by_step.type, !.modifier = by_step.modifier,
                    !.wp = by_step.wp, !.inter = by_step.inter \o @]

Collapsable(step, next) ==
  LET is_short_step == step.dist < MAX_COLLAPSE_DISTANCE
  IN  \/ is_short_step /\ IsCollapsableInstruction(step)
      \/ is_short_step /\ step.type = "UseLane" /\ step.inter[1].lanes = next.inter[1].lanes

BearingsAreReversed(bearing_in, bearing_out) ==
  LET left_turn_angle == IF 0 <= bearing_out /\ bearing_out <= bearing_in
                         THEN bearing_in - bearing_out
                         ELSE bearing_in + 360 - bearing_out
  IN  AngularDeviation(left_turn_angle, 180) <= 35

StaggerAngle(step) == TurnAngle(step.inter[1].in_bearing, step.inter[1].out_bearing)
\* mutant: a right angle of exactly 45 degrees counts
IsRightClosed(angle) == angle >= 45 /\ angle < 135
IsRight(angle) == angle > 45 /\ angle < 135
IsLeft(angle) == angle > 225 /\ angle < 315

IsStaggeredIntersection(previous, current) ==
  /\ previous.dist < MAX_STAGGERED_DISTANCE
  /\ \/ IsLeft(StaggerAngle(previous)) /\ IsRight(StaggerAngle(current))
     \/ IsRight(StaggerAngle(previous)) /\ IsLeft(StaggerAngle(current))
-----------------------------------------------------------------------------
(* collapseTurnAt                                                          *)

\* "Very Short New Name": one_back folds into two_back; the current step
\* becomes a turn where the name change alone would not announce it
VeryShortNewName(steps, two_back_index, one_back_index, step_index) ==
  LET current_step == steps[step_index]
      one_back_step == steps[one_back_index]
      upgraded ==
        CASE current_step.type = "Continue"
               \/ (current_step.type = "Suppressed" /\ current_step.modifier # "Straight") ->
               [current_step EXCEPT !.type = "Turn"]
          [] current_step.type = "Merge" ->
               [current_step EXCEPT !.modifier = MirrorDirectionModifier(@), !.type = "Turn"]
          [] current_step.type \in {"NewName", "UseLane"} /\ current_step.modifier # "Straight"
               /\ one_back_step.inter[1].degree > 2 ->
               [current_step EXCEPT !.type = "Turn"]
          [] OTHER -> current_step
  IN  IF Compatible(one_back_step, steps[two_back_index])
      THEN [steps EXCEPT ![step_index] = upgraded,
                         ![two_back_index] = Elongate(steps[two_back_index], one_back_step),
                         ![one_back_index] = InvalidStep]
      ELSE steps

\* "very short segment after turn": the current step folds into one_back
ShortSegmentAfterTurn(steps, two_back_index, one_back_index, step_index) ==
  LET current_step == steps[step_index]
      one_back_step == Elongate(steps[one_back_index], current_step)
      name_change == IsNoticeableNameChange(steps[two_back_index], current_step)
      retyped ==
        CASE one_back_step.type \in {"Continue", "Suppressed"} /\ name_change ->
               [one_back_step EXCEPT !.type = "Turn"]
          [] one_back_step.type = "Turn" /\ ~name_change ->
               IF BearingsAreReversed(ReverseBearing(one_back_step.inter[1].in_bearing),
                                      current_step.inter[1].out_bearing)
               THEN [one_back_step EXCEPT !.type = "Continue", !.modifier = "UTurn"]
               ELSE [one_back_step EXCEPT !.type = "Continue"]
          [] one_back_step.type = "Merge" /\ current_step.type # "Suppressed" ->
               [one_back_step EXCEPT !.modifier = MirrorDirectionModifier(@)]
          [] OTHER -> one_back_step
  IN  IF Compatible(steps[one_back_index], current_step)
      THEN [steps EXCEPT ![one_back_index] = ForwardStepSignage(retyped, current_step),
                         ![step_index] = InvalidStep]
      ELSE steps

\* "Potential U-Turn": one_back and current turn back onto the road
\* two_back came from, possibly followed by a name change to fold in too
PotentialUTurn(steps, two_back_index, one_back_index, step_index) ==
  LET current_step == steps[step_index]
      next_step_index == step_index + 1
      direct_u_turn == ~IsNoticeableNameChange(steps[two_back_index], current_step)
      continues_with_name_change ==
        /\ next_step_index < Size(steps)
        /\ steps[next_step_index].type = "UseLane"
           \/ IsCollapsableInstruction(steps[next_step_index])
      u_turn_with_name_change ==
        continues_with_name_change
        /\ ~IsNoticeableNameChange(steps[two_back_index], steps[next_step_index])
      merged == Elongate(steps[one_back_index], current_step)
      with_next == u_turn_with_name_change /\ Compatible(merged, steps[next_step_index])
      merged2 == IF with_next
                 THEN ForwardStepSignage(Elongate(merged, steps[next_step_index]),
                                         steps[two_back_index])
                 ELSE merged
      merged3 == IF direct_u_turn THEN ForwardStepSignage(merged2, steps[two_back_index])
                 ELSE merged2
      turned == [merged3 EXCEPT !.type = "Continue", !.modifier = "UTurn"]
  IN  IF direct_u_turn \/ u_turn_with_name_change
      THEN IF with_next
           THEN [steps EXCEPT ![one_back_index] = turned, ![step_index] = InvalidStep,
                              ![next_step_index] = InvalidStep]
           ELSE [steps EXCEPT ![one_back_index] = turned, ![step_index] = InvalidStep]
      ELSE steps

CollapseTurnAt(steps, two_back_index, one_back_index, step_index) ==
  LET current_step == steps[step_index]
      one_back_step == steps[one_back_index]
  IN  IF ~HasManeuver(one_back_step, current_step) THEN steps
      ELSE IF (\/ Collapsable(one_back_step, current_step)
               \/ IsCollapsableInstruction(one_back_step) /\ Choiceless(current_step, one_back_step))
              /\ one_back_step.type # "Merge"
      THEN VeryShortNewName(steps, two_back_index, one_back_index, step_index)
      ELSE IF one_back_step.dist <= MAX_COLLAPSE_DISTANCE /\ IsCollapsableInstruction(current_step)
      THEN ShortSegmentAfterTurn(steps, two_back_index, one_back_index, step_index)
      ELSE IF /\ one_back_step.dist <= MAX_COLLAPSE_DISTANCE \/ Choiceless(current_step, one_back_step)
              /\ BearingsAreReversed(ReverseBearing(one_back_step.inter[1].in_bearing),
                                     current_step.inter[1].out_bearing)
              /\ Compatible(one_back_step, current_step)
      THEN PotentialUTurn(steps, two_back_index, one_back_index, step_index)
      ELSE steps

-----------------------------------------------------------------------------
(* collapseTurns                                                           *)

\* getPreviousIndex: the closest earlier step that is not invalidated
RECURSIVE PreviousValid(_, _)
PreviousValid(steps, index) ==
  IF index > 0 /\ steps[index].type = "NoTurn" THEN PreviousValid(steps, index - 1) ELSE index
GetPreviousIndex(steps, index) == PreviousValid(steps, index - 1)

\* getPreviousNameIndex: the closest earlier step with a name
RECURSIVE PreviousNamed(_, _)
PreviousNamed(steps, index) ==
  IF index > 0 /\ steps[index].name_id = EMPTY_NAMEID THEN PreviousNamed(steps, index - 1) ELSE index
GetPreviousNameIndex(steps, index) == PreviousNamed(steps, index - 1)

\* canCollapseAll: only name changes and suppressed turns of one mode
CanCollapseAll(steps, index, end_index) ==
  \A i \in index..end_index - 1 :
    /\ steps[i].type \in {"Suppressed", "NewName"}
    /\ i + 1 < end_index => Compatible(steps[i], steps[i + 1])

IsBasicNameChange(step) ==
  Len(step.inter) = 1 /\ step.inter[1].degree = 2 /\ step.modifier = "Straight"

\* a sliproad is resolved against the step after it
CollapseSliproad(steps, one_back_index, step_index) ==
  LET current_step == steps[step_index]
      one_back_step == steps[one_back_index]
  IN  IF current_step.type = "Suppressed" /\ Compatible(one_back_step, current_step)
      THEN [steps EXCEPT ![one_back_index] = Elongate(one_back_step, current_step),
                         ![step_index] = InvalidStep]
      ELSE IF Compatible(one_back_step, current_step)
      THEN LET typed == [one_back_step EXCEPT !.type =
                           IF ~IsNoticeableNameChange(steps[GetPreviousIndex(steps, one_back_index)],
                                                      current_step)
                           THEN "Continue" ELSE "Turn"]
               merged == ForwardStepSignage(Elongate(typed, current_step), current_step)
               laned == [merged EXCEPT !.inter[1].lanes = current_step.inter[1].lanes,
                                       !.inter[1].lane_description =
                                         current_step.inter[1].lane_description]
               angle == TurnAngle(ReverseBearing(laned.inter[1].in_bearing),
                                  current_step.inter[1].out_bearing)
           IN  [steps EXCEPT ![one_back_index] = [laned EXCEPT !.modifier = GetTurnDirection(angle)],
                             ![step_index] = InvalidStep]
      ELSE [steps EXCEPT ![one_back_index].type = "Turn"]

\* an A -> A name change left by empty segments: fold every step since the
\* last named one into it
RECURSIVE FoldInto(_, _, _, _)
FoldInto(steps, last_available_name_index, index, step_index) ==
  IF index > step_index THEN steps
  ELSE FoldInto([steps EXCEPT ![last_available_name_index] =
                                Elongate(@, steps[index]),
                              ![index] = InvalidStep],
                last_available_name_index, index + 1, step_index)

\* name oscillation (A -> B -> A), a short bridge, or a staggered
\* intersection
CollapseOscillation(steps, one_back_index, step_index) ==
  LET current_step == steps[step_index]
      one_back_step == steps[one_back_index]
      next_step_index == step_index + 1
      two_back_index == GetPreviousIndex(steps, one_back_index)
  IN  IF ~IsNoticeableNameChange(steps[two_back_index], current_step)
      THEN IF Compatible(one_back_step, steps[two_back_index])
           THEN [steps EXCEPT ![two_back_index] =
                                Elongate(Elongate(@, one_back_step), current_step),
                              ![one_back_index] = InvalidStep,
                              ![step_index] = InvalidStep]
           ELSE steps
      ELSE IF /\ NameSegmentLength(one_back_index, steps) < name_segment_cutoff_length
              /\ IsBasicNameChange(one_back_step) /\ IsBasicNameChange(current_step)
      THEN IF Compatible(steps[two_back_index], one_back_step)
           THEN LET folded == [steps EXCEPT ![two_back_index] = Elongate(@, one_back_step),
                                            ![one_back_index] = InvalidStep]
                IN  IF NameSegmentLength(step_index, folded) < name_segment_cutoff_length
                    THEN [folded EXCEPT ![two_back_index] = Elongate(@, current_step),
                                        ![step_index] = InvalidStep]
                    ELSE folded
           ELSE steps
      ELSE IF /\ step_index + 2 < Size(steps)
              /\ current_step.type = "NewName"
              /\ steps[next_step_index].type = "NewName"
              /\ ~IsNoticeableNameChange(one_back_step, steps[next_step_index])
      THEN IF Compatible(current_step, steps[next_step_index])
           THEN [steps EXCEPT ![one_back_index] =
                                Elongate(@, Elongate(current_step, steps[next_step_index])),
                              ![step_index] = InvalidStep,
                              ![next_step_index] = InvalidStep]
           ELSE steps
      ELSE IF Choiceless(current_step, one_back_step) \/ one_back_step.dist <= MAX_COLLAPSE_DISTANCE
      THEN CollapseTurnAt(steps, two_back_index, one_back_index, step_index)
      ELSE steps

\* one iteration of collapseTurns' loop
CollapseStep(steps, step_index) ==
  LET current_step == steps[step_index]
      one_back_index == GetPreviousIndex(steps, step_index)
      one_back_step == steps[one_back_index]
      name_index == GetPreviousNameIndex(steps, step_index)
  IN  IF current_step.type = "NoTurn" THEN steps
      ELSE IF ~HasManeuver(one_back_step, current_step) THEN steps
      ELSE IF one_back_step.type = "Sliproad"
      THEN CollapseSliproad(steps, one_back_index, step_index)
      ELSE IF /\ IsCollapsableInstruction(current_step)
              /\ current_step.type # "Suppressed"
              /\ ~IsNoticeableNameChange(steps[name_index], current_step)
              /\ CanCollapseAll(steps, name_index + 1, step_index + 1)
      THEN FoldInto(steps, name_index, name_index + 1, step_index)
      ELSE IF /\ one_back_index > 0
              /\ Compatible(current_step, one_back_step)
              /\ \/ IsCollapsableInstruction(current_step) /\ IsCollapsableInstruction(one_back_step)
                 \/ IsStaggeredIntersection(one_back_step, current_step)
      THEN CollapseOscillation(steps, one_back_index, step_index)
      ELSE IF /\ one_back_index > 0
              /\ one_back_step.dist <= MAX_COLLAPSE_DISTANCE \/ Choiceless(current_step, one_back_step)
      THEN CollapseTurnAt(steps, GetPreviousIndex(steps, one_back_index), one_back_index, step_index)
      ELSE steps

RECURSIVE CollapseFrom(_, _)
CollapseFrom(steps, step_index) ==
  IF step_index + 1 < Size(steps)
  THEN CollapseFrom(CollapseStep(steps, step_index), step_index + 1)
  ELSE steps

\* mutant: the slot before arrive, even when it was invalidated
FinalSliproadAtLastSlot(steps) ==
  LET last == Size(steps) - 2
  IN  IF Size(steps) >= 3 /\ steps[last].type = "Sliproad"
      THEN [steps EXCEPT ![last].type = "Turn"] ELSE steps

\* mutant: the kept steps renumbered from 1
RemoveNoTurnInstructionsOneBased(steps) ==
  SelectSeq([i \in 1..Size(steps) |-> steps[i - 1]], LAMBDA s : ~(s.type = "NoTurn" /\ s.wp = "none"))

\* the last turn of the leg must not stay a sliproad
FinalSliproad(steps) ==
  LET last == GetPreviousIndex(steps, Size(steps) - 1)
  IN  IF Size(steps) >= 3 /\ steps[last].type = "Sliproad"
      THEN [steps EXCEPT ![last].type = "Turn"] ELSE steps

RemoveNoTurnInstructions(steps) ==
  LET kept == SelectSeq([i \in 1..Size(steps) |-> steps[i - 1]],
                        LAMBDA s : ~(s.type = "NoTurn" /\ s.wp = "none"))
  IN  [i \in 0..Len(kept) - 1 |-> kept[i + 1]]

CollapseTurns(steps) ==
  IF Size(steps) <= 2 THEN steps
  ELSE RemoveNoTurnInstructions(FinalSliproad(CollapseFrom(steps, 1)))
-----------------------------------------------------------------------------
(* collapseUseLane and buildIntersections, the passes after collapseTurns *)
(* (design section 4.9, steps 4 and 5)                                    *)

MIN_END_OF_ROAD_INTERSECTIONS == 2

\* a lane mask is the set of its TurnLaneType bits, of which these play a
\* part; a lane description lists the masks from the left
LaneTags == {"none", "straight", "left", "right"}

\* containsTag(mask, straight | none)
IsThroughLane(mask) == mask \cap {"straight", "none"} # {}

\* *(lane_description.rbegin() + k): the k-th lane counted from the right
LaneFromRight(lane_description, k) == lane_description[Len(lane_description) - k]

\* canCollapeUseLane: neither the lane to the right of the turn lanes nor
\* the one to their left carries straight or none
CanCollapseUseLane(lanes, lane_description) ==
  LET first == lanes.first_lane_from_the_right
      lane_to_the_right == first + lanes.lanes_in_turn
  IN  /\ ~(first > 0 /\ IsThroughLane(LaneFromRight(lane_description, first - 1)))
      /\ ~(lane_to_the_right < Len(lane_description)
           /\ IsThroughLane(LaneFromRight(lane_description, lane_to_the_right)))

\* mutant: the step just before is taken, invalidated or not
UseLanePreviousAdjacent(steps, index) == index - 1

\* the getPreviousIndex lambda of collapseUseLane: back over NoTurn steps,
\* never past the depart step
RECURSIVE UseLanePreviousIndex(_, _)
UseLanePreviousIndex(steps, index) ==
  IF index - 1 > 0 /\ steps[index - 1].type = "NoTurn"
  THEN UseLanePreviousIndex(steps, index - 1)
  ELSE index - 1

\* the loop of collapseUseLane from step_index on
RECURSIVE UseLaneFrom(_, _)
UseLaneFrom(steps, step_index) ==
  IF step_index >= Size(steps) THEN steps
  ELSE LET step == steps[step_index]
       IN  IF step.type = "UseLane"
              /\ CanCollapseUseLane(step.inter[1].lanes, step.inter[1].lane_description)
           THEN LET previous == UseLanePreviousIndex(steps, step_index)
                IN  UseLaneFrom([steps EXCEPT ![previous] = Elongate(steps[previous], step),
                                              ![step_index] = InvalidStep], step_index + 1)
           ELSE UseLaneFrom(steps, step_index + 1)

CollapseUseLaneOf(steps) == RemoveNoTurnInstructions(UseLaneFrom(steps, 1))

\* isSilent (turn_instruction.hpp, not in this tree)
IsSilent(type) == type \in {"NoTurn", "Suppressed", "StayOnRoundabout"}

\* mutant: an end of road after exactly two intersections becomes a turn
RetypeEndOfRoadInclusive(step, previous_step) ==
  IF step.type = "EndOfRoad" /\ Len(previous_step.inter) <= MIN_END_OF_ROAD_INTERSECTIONS
  THEN [step EXCEPT !.type = "Turn"] ELSE step

\* an end of road is announced as a plain turn when the step before it
\* passes fewer than two intersections
RetypeEndOfRoad(step, previous_step) ==
  IF step.type = "EndOfRoad" /\ Len(previous_step.inter) < MIN_END_OF_ROAD_INTERSECTIONS
  THEN [step EXCEPT !.type = "Turn"] ELSE step

\* the loop of buildIntersections from step_index on: a suppressed step is
\* folded into the last announced one and becomes NO_TURN
RECURSIVE BuildFrom(_, _, _)
BuildFrom(steps, step_index, last_valid_instruction) ==
  IF step_index >= Size(steps) THEN steps
  ELSE LET step == steps[step_index]
       IN  IF step.type = "Suppressed"
           THEN BuildFrom([steps EXCEPT
                             ![last_valid_instruction] = Elongate(steps[last_valid_instruction], step),
                             ![step_index] = [step EXCEPT !.type = "NoTurn", !.modifier = "UTurn"]],
                          step_index + 1, last_valid_instruction)
           ELSE IF ~IsSilent(step.type)
           THEN BuildFrom([steps EXCEPT ![step_index] =
                             RetypeEndOfRoad(step, steps[last_valid_instruction])],
                          step_index + 1, step_index)
           ELSE BuildFrom(steps, step_index + 1, last_valid_instruction)

BuildIntersectionsOf(steps) == RemoveNoTurnInstructions(BuildFrom(steps, 0, 0))
-----------------------------------------------------------------------------
(* The pass as a state machine: one action per iteration of the loop      *)

VARIABLES
  input,        \* the step vector handed to collapseTurns
  steps,        \* the vector as the loop has rewritten it
  step_index,
  pc,           \* "loop" while the loop runs, then "done", "lanes", "built"
  result,       \* the returned vector
  emitted       \* the vector after collapseUseLane and buildIntersections

vars == <<input, steps, step_index, pc, result, emitted>>

Init ==
  /\ input \in Inputs
  /\ steps = input
  /\ step_index = 1
  /\ pc = "loop"
  /\ result = input
  /\ emitted = input

\* a leg of depart and arrive only is returned as it is
ReturnShortLeg ==
  /\ pc = "loop" /\ Size(steps) <= 2
  /\ pc' = "done"
  /\ UNCHANGED <<input, steps, step_index, result, emitted>>

CollapseIteration ==
  /\ pc = "loop" /\ Size(steps) > 2
  /\ step_index + 1 < Size(steps)
  /\ steps' = CollapseStep(steps, step_index)
  /\ step_index' = step_index + 1
  /\ UNCHANGED <<input, pc, result, emitted>>

\* after the loop: the final sliproad and the removal of invalidated steps
FinishCollapse ==
  /\ pc = "loop" /\ Size(steps) > 2
  /\ step_index + 1 = Size(steps)
  /\ steps' = FinalSliproad(steps)
  /\ result' = RemoveNoTurnInstructions(FinalSliproad(steps))
  /\ pc' = "done"
  /\ UNCHANGED <<input, step_index, emitted>>

\* the leg collapseTurns returned goes through collapseUseLane, then
\* buildIntersections, in the order of the design's steps 4 and 5
CollapseUseLane ==
  /\ pc = "done"
  /\ emitted' = CollapseUseLaneOf(result)
  /\ pc' = "lanes"
  /\ UNCHANGED <<input, steps, step_index, result>>

BuildIntersections ==
  /\ pc = "lanes"
  /\ emitted' = BuildIntersectionsOf(emitted)
  /\ pc' = "built"
  /\ UNCHANGED <<input, steps, step_index, result>>

Next == ReturnShortLeg \/ CollapseIteration \/ FinishCollapse
          \/ CollapseUseLane \/ BuildIntersections

Spec == Init /\ [][Next]_vars
-----------------------------------------------------------------------------
(* Properties                                                               *)

Intersections ==
  [id : Int, degree : Nat, entries : Nat, in_bearing : 0..359, out_bearing : 0..359,
   lanes : [lanes_in_turn : Nat, first_lane_from_the_right : Nat],
   lane_description : Seq(SUBSET LaneTags)]
Step ==
  [type : {"NoTurn", "Turn", "NewName", "Continue", "Suppressed", "Merge", "Sliproad", "UseLane",
           "EndOfRoad"},
   modifier : Modifiers, wp : {"depart", "arrive", "none"}, name_id : Int, mode : Nat,
   dist : Nat, gb : Nat, ge : Nat, inter : Seq(Intersections)]

TypeOK ==
  /\ input \in [0..Size(input) - 1 -> Step]
  /\ steps \in [0..Size(input) - 1 -> Step]
  /\ step_index \in 1..Size(input)
  /\ pc \in {"loop", "done", "lanes", "built"}
  /\ \E k \in 0..Size(input) - 1 : result \in [0..k -> Step]
  /\ \E k \in 0..Size(input) - 1 : emitted \in [0..k -> Step]

\* the ids of the intersections of the steps ss, in order
IntersectionIds(ss) ==
  LET flat == FlattenSeq([i \in 1..Size(ss) |-> ss[i - 1].inter])
  IN  [k \in 1..Len(flat) |-> flat[k].id]
TotalDistance(ss) == SumFunction([i \in DOMAIN ss |-> ss[i].dist])

\* collapseTurns only merges steps into neighbours: the returned leg still
\* starts with depart and ends with arrive, every other step announces a
\* maneuver, and the steps still partition the leg's geometry, distance and
\* intersections in order.  Elongate picks appending or prepending from
\* the geometry, and the loop can merge across steps it invalidated
\* earlier; a merge of steps that are not adjacent would break this.
PartitionsLeg(ss) ==
  LET n == Size(ss)
  IN  /\ ss[0].wp = "depart" /\ ss[n - 1].wp = "arrive"
      /\ \A i \in 1..n - 2 : ss[i].type # "NoTurn" /\ ss[i].wp = "none"
      /\ ss[0].gb = 0 /\ ss[n - 1].ge = Size(input)
      /\ \A i \in 0..n - 2 : ss[i].ge = ss[i + 1].gb + 1
      /\ IntersectionIds(ss) = [k \in 1..Size(input) |-> k - 1]
      /\ TotalDistance(ss) = TotalDistance(input)

CollapsePreservesLeg == pc = "done" => PartitionsLeg(result)

\* The leg emitted after collapseUseLane and buildIntersections is still a
\* partition of the leg (depart to arrive, geometry, intersections in
\* order, distance), and no step but depart and arrive is silent: every
\* suppressed step is absorbed into the last announced one.  A UseLane
\* step folds into the step before it past the steps invalidated in the
\* same pass, and a run of suppressed steps folds into one step; folding
\* into a step that is dropped later loses intersections.
EmittedLegPreserved ==
  pc = "built" =>
    /\ PartitionsLeg(emitted)
    /\ \A i \in 1..Size(emitted) - 2 : ~IsSilent(emitted[i].type)

\* buildIntersections announces an end of road only where the step before
\* it passes at least MIN_END_OF_ROAD_INTERSECTIONS intersections, counting
\* the suppressed steps folded into that step, and announces every other
\* end of road collapseTurns returned as a plain turn.
EndOfRoadNeedsPassedIntersections ==
  pc = "built" =>
    \A i \in 1..Size(emitted) - 2 :
      \A k \in DOMAIN result :
        result[k].inter[1].id = emitted[i].inter[1].id /\ result[k].type = "EndOfRoad" =>
          (emitted[i].type = "EndOfRoad"
             <=> Len(emitted[i - 1].inter) >= MIN_END_OF_ROAD_INTERSECTIONS)

\* A sliproad is resolved against the step after it, and the final one
\* becomes a turn: no Sliproad instruction is ever returned.
NoSliproadRemains ==
  pc = "done" => \A i \in DOMAIN result : result[i].type # "Sliproad"

\* compatible() lets only steps of one travel mode be merged ("mode must
\* match for two steps to be collapsible"): every returned step covers
\* only roads of its own mode.  The loop checks compatibility between
\* some pairs of the steps it merges, not between all of them.
ModesNeverMixed ==
  pc = "done" =>
    \A i \in DOMAIN result : \A j \in 1..Len(result[i].inter) :
      input[result[i].inter[j].id].mode = result[i].mode

\* The bearing a road has in the mirror image of the map (west and east
\* swapped), and the turn angle turn_angle is meant to compute: the
\* clockwise angle from the road back to the exit road, 180 for straight
\* on, in (0, 360].
MirrorBearing(b) == (360 - b) % 360
ReferenceTurnAngle(entry_bearing, exit_bearing) ==
  LET a == (540 - (exit_bearing - entry_bearing)) % 360
  IN  IF a = 0 THEN 360 ELSE a

\* (the table below, over bearings: a constant, which TLC computes once)
AngleArithmeticSymmetric ==
  \A entry_bearing \in {0, 1, 89, 90, 179, 180, 181, 270, 359}, exit_bearing \in 0..359 :
    LET angle  == TurnAngle(entry_bearing, exit_bearing)
        mirror == TurnAngle(MirrorBearing(entry_bearing), MirrorBearing(exit_bearing))
    IN  /\ angle = ReferenceTurnAngle(entry_bearing, exit_bearing)
        /\ IsRight(angle) <=> IsLeft(mirror)
        /\ IsLeft(angle) <=> IsRight(mirror)
        /\ GetTurnDirection(mirror) = MirrorDirectionModifier(GetTurnDirection(angle))
        /\ BearingsAreReversed(entry_bearing, exit_bearing)
             <=> BearingsAreReversed(MirrorBearing(entry_bearing), MirrorBearing(exit_bearing))

\* The angle arithmetic of the guidance passes agrees with its geometry at
\* every integer bearing, the wrap-around at 0/360 and the bounds of every
\* window included: turn_angle is the reference angle; a turn is a right
\* turn of isStaggeredIntersection exactly when its mirror image is a left
\* turn; getTurnDirection of the mirrored turn is the mirrored modifier; and
\* collapseTurnAt's bearingsAreReversed does not depend on the side of the
\* road.  The open (45 < a < 135) and closed (deviation <= 35) bounds of
\* post_processing.cpp must match on both sides or a zig-zag or u-turn is
\* collapsed one way and announced the other.  Checked whenever
\* collapseTurns has returned a result built with them.
AngleWindowsMirrorSymmetric ==
  pc = "done" => AngleArithmeticSymmetric

=============================================================================
