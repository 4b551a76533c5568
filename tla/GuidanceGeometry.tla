--------------------------- MODULE GuidanceGeometry ---------------------------
(***************************************************************************)
(* The geometry end of guidance post-processing                            *)
(* (src/engine/guidance/post_processing.cpp): trimShortSegments,           *)
(* assignRelativeLocations and resyncGeometry, run in that order on one    *)
(* leg.  Their caller is not in this tree; the comment at                  *)
(* post_processing.cpp:991 has the trimming run before the rest of the     *)
(* post-processing, so the legs are taken as the step assembly builds them.*)
(*                                                                         *)
(* A leg is its steps and its LegGeometry: the locations of the unpacked   *)
(* path, segment_offsets (the index of the location each step starts at)   *)
(* and segment_distances (one per step but the arrival).  The vectors of   *)
(* the code are TLA+ sequences, so the C++ element v[i] is v[i+1] here;    *)
(* geometry_begin, geometry_end, in, out and the offsets keep their 0-based *)
(* C++ values.  A location is a point of a grid measured in metres, and a  *)
(* bearing is the direction of travel between two locations.               *)
(***************************************************************************)
EXTENDS Integers, SequencesExt

CONSTANT Inputs      \* the legs trimShortSegments may be handed

\* std::size_t arithmetic wraps; the modulus stands for 2^64, whose size
\* plays no part here beyond 0 - 1 being a huge index
SIZE_T == 2^16
SizeTSub(a, b) == (a - b) % SIZE_T
NO_INDEX == SIZE_T - 1                 \* Intersection::NO_INDEX

\* the relative-location window of assignRelativeLocations, in metres
MINIMAL_RELATIVE_DISTANCE == 5
MAXIMAL_RELATIVE_DISTANCE == 300

\* util::coordinate_calculation::haversineDistance on the grid
Abs(x) == IF x < 0 THEN -x ELSE x
Distance(p, q) == Abs(q[1] - p[1]) + Abs(q[2] - p[2])

\* util::coordinate_calculation::bearing, as the direction of travel
Sign(x) == IF x > 0 THEN 1 ELSE IF x < 0 THEN -1 ELSE 0
Bearing(p, q) == <<Sign(q[1] - p[1]), Sign(q[2] - p[2])>>
ReverseBearing(b) == <<-b[1], -b[2]>>

\* TurnInstruction::NO_TURN()
NoTurn(step) == [step EXCEPT !.type = "NoTurn", !.modifier = "UTurn"]

\* forwardStepSignage (the name_id stands for all the name strings)
ForwardStepSignage(destination, origin) == [destination EXCEPT !.name_id = origin.name_id]

\* the leg as trimShortSegments sees it: steps plus its LegGeometry
Leg(st, locs, offs, dists) ==
  [steps |-> st, locations |-> locs, segment_offsets |-> offs, segment_distances |-> dists]

\* mutant: the removed depart's duration is not carried over
DesignatedDepartDroppingDuration(current, designated) ==
  LET i == designated.inter
  IN  [NoTurn(designated) EXCEPT
         !.wp = "depart", !.bb = <<0, 0>>,
         !.inter = [i EXCEPT !.lanes = 0, !.bearings = <<i.bearings[i.out + 1]>>,
                             !.entry = 1, !.in = NO_INDEX, !.out = 0]]

\* the depart step promoted from the second step once the first is cut
DesignatedDepart(current, designated) ==
  LET i == designated.inter
  IN  [NoTurn(designated) EXCEPT
         !.duration = @ + current.duration, !.wp = "depart", !.bb = <<0, 0>>,
         !.inter = [i EXCEPT !.lanes = 0, !.bearings = <<i.bearings[i.out + 1]>>,
                             !.entry = 1, !.in = NO_INDEX, !.out = 0]]

\* the front half of trimShortSegments, entered when the first step is
\* shorter than a metre or the first two locations coincide
TrimFront(g) ==
  LET st == g.steps
      zero_length_step == st[1].dist <= 1 /\ Len(st) > 2
      offset == IF zero_length_step THEN g.segment_offsets[2] ELSE 1
      locs == IF offset > 0 THEN SubSeq(g.locations, offset + 1, Len(g.locations))
                            ELSE g.locations
      offs == IF zero_length_step
              THEN [k \in 1..Len(g.segment_offsets) - 1 |-> SizeTSub(g.segment_offsets[k + 1], offset)]
              ELSE [k \in DOMAIN g.segment_offsets |-> SizeTSub(g.segment_offsets[k], 1)]
      kept == IF zero_length_step
              THEN <<DesignatedDepart(st[1], st[2])>> \o SubSeq(st, 3, Len(st))
              ELSE [st EXCEPT ![1].gb = 1]
      moved == [k \in DOMAIN kept |-> [kept[k] EXCEPT !.gb = @ - offset, !.ge = @ - offset]]
      first == moved[1]
      bearing == Bearing(locs[first.gb + 1], locs[first.gb + 2])
  IN  Leg([moved EXCEPT ![1].ba = bearing, ![1].inter.bearings[1] = bearing],
          locs, offs, Tail(g.segment_distances))

\* the arrival is moved onto the next-to-last step when that is shorter
\* than a metre; it arrives on the road before it
TrimBackZeroLength(g) ==
  LET st == g.steps
      n == Len(st)
      offs == Front(g.segment_offsets)
      ntl == st[n - 1]
      i == ntl.inter
      arrive == [NoTurn(ntl) EXCEPT
                   !.wp = "arrive", !.ba = <<0, 0>>, !.ge = ntl.gb + 1,
                   !.inter = [i EXCEPT !.lanes = 0, !.bearings = <<i.bearings[i.in + 1]>>,
                                       !.entry = 1, !.out = NO_INDEX, !.in = 0]]
      new_ntl == st[n - 2]
  IN  Leg(Front(Front(st)) \o <<[ForwardStepSignage(arrive, new_ntl) EXCEPT !.mode = new_ntl.mode]>>,
          SubSeq(g.locations, 1, Last(offs) + 1), offs, Front(g.segment_distances))

\* mutant: the next-to-last step's geometry_end is not moved back
TrimBackDuplicateKeepingEnd(g) ==
  LET st == g.steps
      n == Len(st)
      locs == Front(g.locations)
      ntl == st[n - 1]
      last == [st[n] EXCEPT !.gb = @ - 1, !.ge = @ - 1]
      bearing == Bearing(locs[ntl.ge - 1], locs[last.gb + 1])
  IN  [g EXCEPT
         !.locations = locs,
         !.segment_offsets[Len(g.segment_offsets)] = @ - 1,
         !.steps = Front(Front(st)) \o
                   <<ntl, [last EXCEPT !.bb = bearing,
                                       !.inter.bearings[1] = ReverseBearing(bearing)]>>]

\* the last location duplicates the one before it: drop it and shift the
\* arrival back by one location
TrimBackDuplicate(g) ==
  LET st == g.steps
      n == Len(st)
      locs == Front(g.locations)
      ntl == [st[n - 1] EXCEPT !.ge = @ - 1]
      last == [st[n] EXCEPT !.gb = @ - 1, !.ge = @ - 1]
      bearing == Bearing(locs[ntl.ge - 1], locs[last.gb + 1])
  IN  [g EXCEPT
         !.locations = locs,
         !.segment_offsets[Len(g.segment_offsets)] = @ - 1,
         !.steps = Front(Front(st)) \o
                   <<ntl, [last EXCEPT !.bb = bearing,
                                       !.inter.bearings[1] = ReverseBearing(bearing)]>>]

\* mutant: the tail duplicate test looks at the first two locations
TrimBackFrontPair(g) ==
  LET st == g.steps
      L == Len(g.locations)
  IN  IF Len(st) < 2 \/ L = 2 THEN g
      ELSE IF st[Len(st) - 1].dist <= 1 /\ Len(st) > 2 THEN TrimBackZeroLength(g)
      ELSE IF Distance(g.locations[1], g.locations[2]) <= 1 THEN TrimBackDuplicate(g)
      ELSE g

\* the tail half of trimShortSegments
TrimBack(g) ==
  LET st == g.steps
      L == Len(g.locations)
  IN  IF Len(st) < 2 \/ L = 2 THEN g
      ELSE IF st[Len(st) - 1].dist <= 1 /\ Len(st) > 2 THEN TrimBackZeroLength(g)
      ELSE IF Distance(g.locations[L - 1], g.locations[L]) <= 1 THEN TrimBackDuplicate(g)
      ELSE g

\* trimShortSegments
TrimShortSegmentsOf(g) ==
  IF Len(g.steps) < 2 \/ Len(g.locations) <= 2 THEN g
  ELSE LET front == \/ g.steps[1].dist <= 1 /\ Len(g.steps) > 2
                    \/ Distance(g.locations[1], g.locations[2]) <= 1
       IN  TrimBack(IF front THEN TrimFront(g) ELSE g)

\* the modifier assignRelativeLocations gives an end of the leg lying
\* distance metres from the input location, at an angle that maps to
\* angle_modifier
RelativeModifier(distance, angle_modifier) ==
  IF distance >= MINIMAL_RELATIVE_DISTANCE /\ distance <= MAXIMAL_RELATIVE_DISTANCE
  THEN angle_modifier ELSE "UTurn"

\* mutant: the offsets take geometry_end without the back-index shift
ResyncGeometryOfEnds(g) ==
  LET st == g.steps
  IN  [g EXCEPT !.segment_offsets = <<0>> \o [k \in 1..Len(st) - 1 |-> st[k].ge],
                !.segment_distances = [k \in 1..Len(st) - 1 |-> st[k].dist]]

\* resyncGeometry: one offset and one distance per step, the arrival's
\* popped again
ResyncGeometryOf(g) ==
  LET st == g.steps
  IN  [g EXCEPT !.segment_offsets = <<0>> \o [k \in 1..Len(st) - 1 |-> st[k].ge - 1],
                !.segment_distances = [k \in 1..Len(st) - 1 |-> st[k].dist]]

-----------------------------------------------------------------------------
(* The pipeline on one leg.                                                *)

VARIABLES steps, locations, segment_offsets, segment_distances, pc

vars == <<steps, locations, segment_offsets, segment_distances, pc>>

Geometry == Leg(steps, locations, segment_offsets, segment_distances)

Set(g) == /\ steps' = g.steps
          /\ locations' = g.locations
          /\ segment_offsets' = g.segment_offsets
          /\ segment_distances' = g.segment_distances

Init == /\ \E g \in Inputs : /\ steps = g.steps
                             /\ locations = g.locations
                             /\ segment_offsets = g.segment_offsets
                             /\ segment_distances = g.segment_distances
        /\ pc = "trim"

TrimShortSegments ==
  /\ pc = "trim"
  /\ Set(TrimShortSegmentsOf(Geometry))
  /\ pc' = "assign"

\* the distances from the input locations to the ends of the leg and the
\* modifiers their angles map to are inputs of the step
AssignRelativeLocations ==
  /\ pc = "assign"
  /\ \E distance_to_start, distance_from_end \in {2, 50, 400},
        initial_angle, final_angle \in {"Left", "Right"} :
       LET n == Len(steps)
       IN  steps' = [steps EXCEPT
                       ![1].modifier = RelativeModifier(distance_to_start, initial_angle),
                       ![n].modifier = RelativeModifier(distance_from_end, final_angle)]
  /\ pc' = "resync"
  /\ UNCHANGED <<locations, segment_offsets, segment_distances>>

ResyncGeometry ==
  /\ pc = "resync"
  /\ Set(ResyncGeometryOf(Geometry))
  /\ pc' = "done"

Next == TrimShortSegments \/ AssignRelativeLocations \/ ResyncGeometry

Spec == Init /\ [][Next]_vars

-----------------------------------------------------------------------------
(* Properties.                                                             *)

PathLength(locs) == SumFunction([k \in 1..Len(locs) - 1 |-> Distance(locs[k], locs[k + 1])])
TotalDuration(st) == SumFunction([k \in DOMAIN st |-> st[k].duration])

\* The closing assertions of trimShortSegments, and what the later passes
\* rely on: the leg departs at location 0 and arrives at its last location,
\* each step begins on the location the one before it ends on, both ends
\* carry a single bearing and no lanes, and the depart and arrive
\* bearings are those of the first and last pair of the trimmed geometry.
TrimmedLegWellFormed ==
  pc # "trim" =>
    LET n == Len(steps)
        L == Len(locations)
        depart == steps[1]
        arrive == steps[n]
    IN  /\ n >= 2 /\ L >= 2
        /\ depart.wp = "depart" /\ arrive.wp = "arrive"
        /\ depart.gb = 0 /\ arrive.gb = L - 1 /\ arrive.ge = L
        /\ \A k \in 1..n - 1 : steps[k].ge = steps[k + 1].gb + 1 /\ steps[k].gb < steps[k].ge
        /\ \A s \in {depart, arrive} : Len(s.inter.bearings) = 1 /\ s.inter.entry = 1
        /\ depart.inter.lanes = 0 /\ arrive.inter.lanes = 0
        /\ depart.ba = Bearing(locations[1], locations[2])
        /\ depart.inter.bearings[1] = depart.ba
        /\ arrive.bb = Bearing(locations[L - 1], locations[L])
        /\ arrive.inter.bearings[1] = ReverseBearing(arrive.bb)

\* No pass loses travel time: the duration of a removed depart step moves
\* to the step promoted to depart (the FIXME at post_processing.cpp:1033).
DurationPreserved == [][TotalDuration(steps') = TotalDuration(steps)]_vars

\* trimShortSegments cuts the geometry only at its ends and only by what
\* lies within a metre of the kept part at each end.
TrimCutsOnlyShortEnds ==
  [][TrimShortSegments =>
       \E i, j \in 1..Len(locations) :
         /\ locations' = SubSeq(locations, i, j)
         /\ PathLength(SubSeq(locations, 1, i)) <= 1
         /\ PathLength(SubSeq(locations, j, Len(locations))) <= 1]_vars

\* After resyncGeometry each step but the arrival owns one segment: its
\* offset is the step's first location and its distance the step's, and
\* the last offset is where the arrival begins.
ResyncedGeometryMatchesSteps ==
  pc = "done" =>
    LET n == Len(steps)
    IN  /\ Len(segment_offsets) = n
        /\ \A k \in 1..n : segment_offsets[k] = steps[k].gb
        /\ segment_distances = [k \in 1..n - 1 |-> steps[k].dist]

=============================================================================
