------------------------- MODULE GuidanceRoundabout -------------------------
(***************************************************************************)
(* The roundabout pass of postProcess (engine/guidance/post_processing.cpp)*)
(* over the steps of one leg.                                              *)
(*                                                                         *)
(* A RouteStep is abstracted to the fields the pass reads or writes:       *)
(* the instruction type, the exit counter, the waypoint type, the name and *)
(* rotary name (a road is named by the index of the input step that        *)
(* entered it), the distance, the geometry interval [gb, ge) and the list  *)
(* of intersections (each named by the index of the step it came from).    *)
(* Direction modifiers, bearings, durations and pronunciations are left    *)
(* out: the pass copies them along with the fields kept here.              *)
(*                                                                         *)
(* One action is one iteration of postProcess's forward loop; the         *)
(* backward loops of closeOffRoundabout and fixFinalRoundabout are         *)
(* recursive operators evaluated within the action that calls them.        *)
(***************************************************************************)
EXTENDS Integers, SequencesExt

CONSTANTS
  Inputs    \* the instruction types of the turn steps of a leg, as produced
            \* by turn analysis: a set of sequences of type names

NoName == -1            \* the empty name string
InvalidIntersection == -1

RoundaboutKinds == {"Roundabout", "Rotary", "RoundaboutIntersection"}

EnterType(k)      == "Enter" \o k
EnterAtExitType(k) == "Enter" \o k \o "AtExit"
EnterAndExitType(k) == "EnterAndExit" \o k
ExitType(k)       == "Exit" \o k

\* entersRoundabout / leavesRoundabout of turn_instruction.hpp
EntersRoundabout(t) ==
  \E k \in RoundaboutKinds : t \in {EnterType(k), EnterAtExitType(k), EnterAndExitType(k)}
LeavesRoundabout(t) ==
  \E k \in RoundaboutKinds : t \in {ExitType(k), EnterAndExitType(k)}

Types ==
  {"NoTurn", "Turn", "Suppressed", "StayOnRoundabout"} \cup
  UNION { {EnterType(k), EnterAtExitType(k), EnterAndExitType(k), ExitType(k)} :
            k \in RoundaboutKinds }

Waypoints == {"depart", "arrive", "none"}

\* getInvalidRouteStep: NO_TURN, no waypoint, one invalid intersection
InvalidStep ==
  [type |-> "NoTurn", exit |-> 0, wp |-> "none", name |-> NoName, rotary |-> NoName,
   dist |-> 0, gb |-> 0, ge |-> 0, inter |-> <<InvalidIntersection>>]

\* the steps assembled for a leg with turn types ts: a depart step, one step
\* per turn and an arrive step.  Consecutive steps share the location of
\* the turn between them (ge of one is gb + 1 of the next); every step but
\* the arrive covers distance 1.
Assembled(ts) ==
  LET n == Len(ts) + 2
  IN  [i \in 0..n-1 |->
         [type  |-> IF i = 0 \/ i = n-1 THEN "NoTurn" ELSE ts[i],
          exit  |-> 0,
          wp    |-> IF i = 0 THEN "depart" ELSE IF i = n-1 THEN "arrive" ELSE "none",
          name  |-> i,
          rotary |-> NoName,
          dist  |-> IF i = n-1 THEN 0 ELSE 1,
          gb    |-> i,
          ge    |-> IF i = n-1 THEN n ELSE i + 2,
          inter |-> <<i>>]]
-----------------------------------------------------------------------------
(* Helpers of post_processing.cpp                                          *)

\* mutant: the source's intersections are always appended at the end
ForwardIntoAppending(destination, source) ==
  [destination EXCEPT
     !.dist  = @ + source.dist,
     !.exit  = source.exit,
     !.inter = @ \o source.inter,
     !.gb    = Min({@, source.gb}),
     !.ge    = Max({@, source.ge})]

\* forwardInto: destination absorbs source's length, exit counter,
\* intersections (at the end when source lies behind it) and geometry
ForwardInto(destination, source) ==
  [destination EXCEPT
     !.dist  = @ + source.dist,
     !.exit  = source.exit,
     !.inter = IF destination.gb < source.gb THEN @ \o source.inter
                                             ELSE source.inter \o @,
     !.gb    = Min({@, source.gb}),
     !.ge    = Max({@, source.ge})]

\* forwardStepSignage: the names are taken over from origin
ForwardStepSignage(destination, origin) == [destination EXCEPT !.name = origin.name]

RotaryEnterTypes == {EnterType("Rotary"), EnterAtExitType("Rotary")}
IntersectionEnterTypes ==
  {EnterType("RoundaboutIntersection"), EnterAtExitType("RoundaboutIntersection")}

\* mutant: an ...AtExit entry is normalised without counting its exit
SetUpRoundaboutNotCountingEntry(step) ==
  LET t == step.type
      base == CHOOSE k \in RoundaboutKinds :
                t \in {EnterType(k), EnterAtExitType(k), EnterAndExitType(k)}
  IN  CASE t = EnterAndExitType(base) -> [step EXCEPT !.exit = 1, !.type = EnterType(base)]
        [] t = EnterAtExitType(base) -> [step EXCEPT !.type = EnterType(base)]
        [] OTHER -> step

\* setUpRoundabout: normalises the combined types and counts the exit the
\* entry itself is; the Boolean is FALSE when the step also leaves
SetUpRoundabout(step) ==
  LET t == step.type
      base == CHOOSE k \in RoundaboutKinds :
                t \in {EnterType(k), EnterAtExitType(k), EnterAndExitType(k)}
  IN  IF t \in {EnterAtExitType(base), EnterAndExitType(base)}
      THEN [step EXCEPT !.exit = 1, !.type = EnterType(base)]
      ELSE step
HasEnteredRoundabout(step) == ~LeavesRoundabout(step.type)

\* the special case of closeOffRoundabout for a leg that starts on the
\* roundabout: steps[1] absorbs the depart step and becomes the entry
EnterFromStart(steps, step_index) ==
  LET exit_type == steps[step_index].type
      depart  == [steps[0] EXCEPT !.ge = 1]
      first   == ForwardInto([steps[1] EXCEPT !.gb = 0], depart)
      trimmed == [first EXCEPT !.inter = Tail(@),
                               !.exit = IF LeavesRoundabout(steps[1].type) THEN 1 ELSE @]
      \* exitToEnter
      enter_type == IF exit_type = ExitType("Rotary") THEN EnterType("Rotary")
                    ELSE EnterType("Roundabout")
      entry == [trimmed EXCEPT
                  !.type = enter_type,
                  !.rotary = IF enter_type = EnterType("Rotary") THEN steps[0].name ELSE @]
  IN  [steps EXCEPT ![0] = [depart EXCEPT !.dist = 0], ![1] = entry]

\* the backward loop of closeOffRoundabout: every step back to the entry
\* absorbs its successor, which is invalidated; the entry takes the exit's
\* name
RECURSIVE PropagateExit(_, _, _)
PropagateExit(steps, propagation_index, destination_copy) ==
  IF propagation_index = 0 THEN steps
  ELSE
    LET merged == ForwardInto(steps[propagation_index], steps[propagation_index + 1])
    IN  IF EntersRoundabout(merged.type)
        THEN [steps EXCEPT
                ![propagation_index] =
                  ForwardStepSignage(
                    [merged EXCEPT !.rotary = IF merged.type \in RotaryEnterTypes
                                              THEN merged.name ELSE @],
                    destination_copy),
                ![propagation_index + 1] = InvalidStep]
        ELSE PropagateExit([steps EXCEPT ![propagation_index] = merged,
                                         ![propagation_index + 1] = InvalidStep],
                           propagation_index - 1, destination_copy)

\* mutant: the exit is subtracted instead of counted
CloseOffRoundaboutDecrementing(on_roundabout, steps, step_index) ==
  LET counted == [steps EXCEPT ![step_index].exit = @ - 1]
      fixed   == IF on_roundabout THEN counted ELSE EnterFromStart(counted, step_index)
  IN  IF step_index > 1 THEN PropagateExit(fixed, step_index - 1, fixed[step_index])
      ELSE fixed

CloseOffRoundabout(on_roundabout, steps, step_index) ==
  LET counted == [steps EXCEPT ![step_index].exit = @ + 1]
      fixed   == IF on_roundabout THEN counted ELSE EnterFromStart(counted, step_index)
  IN  IF step_index > 1 THEN PropagateExit(fixed, step_index - 1, fixed[step_index])
      ELSE fixed

\* mutant: a passed exit is merged backwards but left in place
RECURSIVE FixFinalFromKeepingStay(_, _)
FixFinalFromKeepingStay(steps, propagation_index) ==
  IF propagation_index = 0 THEN steps
  ELSE
    LET step == steps[propagation_index]
    IN  IF EntersRoundabout(step.type)
        THEN [steps EXCEPT ![propagation_index] = [step EXCEPT !.exit = 0]]
        ELSE IF step.type = "StayOnRoundabout"
        THEN FixFinalFromKeepingStay([steps EXCEPT ![propagation_index - 1] =
                                                     ForwardInto(@, step)],
                                     propagation_index - 1)
        ELSE FixFinalFromKeepingStay(steps, propagation_index - 1)

\* fixFinalRoundabout: a roundabout the leg does not leave is announced as
\* an entry without exit number
RECURSIVE FixFinalFrom(_, _)
FixFinalFrom(steps, propagation_index) ==
  IF propagation_index = 0 THEN steps
  ELSE
    LET step == steps[propagation_index]
    IN  IF EntersRoundabout(step.type)
        THEN [steps EXCEPT ![propagation_index] =
                [step EXCEPT
                   !.exit = 0,
                   !.rotary = IF step.type \in RotaryEnterTypes THEN step.name ELSE @,
                   !.type = IF step.type \in IntersectionEnterTypes
                            THEN EnterType("Roundabout") ELSE @]]
        ELSE IF step.type = "StayOnRoundabout"
        THEN FixFinalFrom([steps EXCEPT ![propagation_index - 1] =
                                          ForwardInto(@, step),
                                        ![propagation_index] = InvalidStep],
                          propagation_index - 1)
        ELSE FixFinalFrom(steps, propagation_index - 1)

FixFinalRoundabout(steps) == FixFinalFrom(steps, Cardinality(DOMAIN steps) - 1)

\* removeNoTurnInstructions: drops every NO_TURN step that is no waypoint
RemoveNoTurnInstructions(steps) ==
  SelectSeq([i \in 1..Cardinality(DOMAIN steps) |-> steps[i - 1]],
            LAMBDA s : ~(s.type = "NoTurn" /\ s.wp = "none"))
-----------------------------------------------------------------------------
(* postProcess                                                              *)

VARIABLES
  input,            \* the turn types of the leg
  steps,            \* the step vector, indexed from 0 as in the code
  step_index,       \* the forward loop's index
  on_roundabout,
  has_entered_roundabout,
  pc,               \* "scan" while the loop runs, then "done"
  result            \* the returned step sequence

vars == <<input, steps, step_index, on_roundabout, has_entered_roundabout, pc, result>>

NumSteps == Cardinality(DOMAIN steps)

Init ==
  /\ input \in Inputs
  /\ steps = Assembled(input)
  /\ step_index = 0
  /\ on_roundabout = FALSE
  /\ has_entered_roundabout = FALSE
  /\ pc = "scan"
  /\ result = <<>>

\* a leg of depart and arrive only is returned as it is
ReturnShortLeg ==
  /\ pc = "scan" /\ step_index = 0 /\ NumSteps = 2
  /\ pc' = "done"
  /\ result' = [i \in 1..2 |-> steps[i - 1]]
  /\ UNCHANGED <<input, steps, step_index, on_roundabout, has_entered_roundabout>>

Scanning == pc = "scan" /\ NumSteps > 2 /\ step_index < NumSteps

HasNext == step_index + 1 < NumSteps

\* an entry: set up the roundabout and hand its exit counter on
ScanEnter ==
  /\ Scanning
  /\ EntersRoundabout(steps[step_index].type)
  /\ LET step == SetUpRoundabout(steps[step_index])
         entered == HasEnteredRoundabout(steps[step_index])
     IN  /\ has_entered_roundabout' = entered
         /\ steps' = IF entered /\ HasNext
                     THEN [steps EXCEPT ![step_index] = step,
                                        ![step_index + 1].exit = step.exit]
                     ELSE [steps EXCEPT ![step_index] = step]
  /\ step_index' = step_index + 1
  /\ UNCHANGED <<input, on_roundabout, pc, result>>

\* a passed exit: count it and hand the counter on
ScanStay ==
  /\ Scanning
  /\ ~EntersRoundabout(steps[step_index].type)
  /\ steps[step_index].type = "StayOnRoundabout"
  /\ on_roundabout' = TRUE
  /\ LET exit == steps[step_index].exit + 1
     IN  steps' = IF HasNext THEN [steps EXCEPT ![step_index].exit = exit,
                                                ![step_index + 1].exit = exit]
                  ELSE [steps EXCEPT ![step_index].exit = exit]
  /\ step_index' = step_index + 1
  /\ UNCHANGED <<input, has_entered_roundabout, pc, result>>

\* the exit: move the counter back to the entry
ScanLeave ==
  /\ Scanning
  /\ ~EntersRoundabout(steps[step_index].type)
  /\ steps[step_index].type # "StayOnRoundabout"
  /\ LeavesRoundabout(steps[step_index].type)
  /\ steps' = CloseOffRoundabout(has_entered_roundabout, steps, step_index)
  /\ has_entered_roundabout' = FALSE
  /\ on_roundabout' = FALSE
  /\ step_index' = step_index + 1
  /\ UNCHANGED <<input, pc, result>>

\* any other step: on the roundabout, the counter is handed on
ScanOther ==
  /\ Scanning
  /\ ~EntersRoundabout(steps[step_index].type)
  /\ steps[step_index].type # "StayOnRoundabout"
  /\ ~LeavesRoundabout(steps[step_index].type)
  /\ \/ /\ on_roundabout /\ HasNext
        /\ steps' = [steps EXCEPT ![step_index + 1].exit = steps[step_index].exit]
     \/ /\ ~(on_roundabout /\ HasNext)
        /\ UNCHANGED steps
  /\ step_index' = step_index + 1
  /\ UNCHANGED <<input, on_roundabout, has_entered_roundabout, pc, result>>

\* after the loop: close an unterminated roundabout and drop the
\* invalidated steps
Finish ==
  /\ pc = "scan" /\ NumSteps > 2 /\ step_index = NumSteps
  /\ LET fixed == IF has_entered_roundabout \/ on_roundabout
                  THEN FixFinalRoundabout(steps) ELSE steps
     IN  /\ steps' = fixed
         /\ result' = RemoveNoTurnInstructions(fixed)
  /\ pc' = "done"
  /\ UNCHANGED <<input, step_index, on_roundabout, has_entered_roundabout>>

Next ==
  \/ ReturnShortLeg
  \/ ScanEnter
  \/ ScanStay
  \/ ScanLeave
  \/ ScanOther
  \/ Finish

Spec == Init /\ [][Next]_vars
-----------------------------------------------------------------------------
(* Properties                                                               *)

Step ==
  [type : Types, exit : Nat, wp : Waypoints, name : {NoName} \cup Nat,
   rotary : {NoName} \cup Nat, dist : Nat, gb : Nat, ge : Nat,
   inter : Seq({InvalidIntersection} \cup Nat)]

TypeOK ==
  /\ input \in Inputs
  /\ steps \in [0..Len(input) + 1 -> Step]
  /\ step_index \in 0..Len(input) + 2
  /\ on_roundabout \in BOOLEAN
  /\ has_entered_roundabout \in BOOLEAN
  /\ pc \in {"scan", "done"}
  /\ result \in Seq(Step)

\* What the comments of postProcess and its helpers say a leg's roundabouts
\* become, computed from the input types alone: one entry per traversal,
\* numbered from the entry (plus the entry itself for an ...AtExit entry),
\* or from the start of the leg when the leg starts on the roundabout; an
\* entry the leg never leaves gets no exit number and a roundabout
\* intersection becomes a plain roundabout; an entry is named after the
\* road it leaves by and a rotary entry carries the rotary's name.
\* An announcement is <<type, exit, name, rotary name>>.
\* a road the leg is on the rotary with when it starts on one: the step
\* after the depart, or the depart's own when that step is the exit
OnRotaryAtStart(exit_index) == IF exit_index = 1 THEN 0 ELSE 1

RECURSIVE Announced(_, _, _)
Announced(ts, i, open) ==
  \* open: the traversal in progress, or a record with enter = 0 and
  \* kind = "" while the leg may still be on the roundabout it started on
  IF i > Len(ts)
  THEN IF open.enter > 0
       THEN LET kind == IF open.kind = "RoundaboutIntersection" THEN "Roundabout"
                        ELSE open.kind
            IN  << <<EnterType(kind), 0, open.enter,
                     IF open.kind = "Rotary" THEN open.enter ELSE NoName>> >>
       ELSE <<>>
  ELSE
    LET t == ts[i]
        closed == [enter |-> -1, kind |-> "", base |-> 0, stays |-> 0]
    IN  CASE \E k \in RoundaboutKinds : t = EnterAndExitType(k) ->
               LET k == CHOOSE k \in RoundaboutKinds : t = EnterAndExitType(k)
               IN  << <<EnterType(k), 1, i, NoName>> >> \o Announced(ts, i + 1, closed)
          [] \E k \in RoundaboutKinds : t \in {EnterType(k), EnterAtExitType(k)} ->
               LET k == CHOOSE k \in RoundaboutKinds : t \in {EnterType(k), EnterAtExitType(k)}
               IN  Announced(ts, i + 1,
                             [enter |-> i, kind |-> k,
                              base |-> IF t = EnterAtExitType(k) THEN 1 ELSE 0, stays |-> 0])
          [] t = "StayOnRoundabout" ->
               Announced(ts, i + 1, [open EXCEPT !.stays = @ + 1])
          [] \E k \in RoundaboutKinds : t = ExitType(k) ->
               LET k == CHOOSE k \in RoundaboutKinds : t = ExitType(k)
                   announcement ==
                     IF open.enter > 0
                     THEN <<EnterType(open.kind), open.base + open.stays + 1, i,
                            IF open.kind = "Rotary" THEN open.enter ELSE NoName>>
                     ELSE <<IF k = "Rotary" THEN EnterType("Rotary") ELSE EnterType("Roundabout"),
                            open.stays + 1, i, IF k = "Rotary" THEN OnRotaryAtStart(i) ELSE NoName>>
               IN  <<announcement>> \o Announced(ts, i + 1, closed)
          [] OTHER -> Announced(ts, i + 1, open)

ExpectedAnnouncements(ts) ==
  Announced(ts, 1, [enter |-> 0, kind |-> "", base |-> 0, stays |-> 0])

Announcements(seq) ==
  LET entries == SelectSeq(seq, LAMBDA s : EntersRoundabout(s.type))
  IN  [j \in 1..Len(entries) |->
         <<entries[j].type, entries[j].exit, entries[j].name, entries[j].rotary>>]

\* Every roundabout of the leg is announced once, at its entry, with the
\* exit number, type, name and rotary name the comments of setUpRoundabout,
\* closeOffRoundabout and fixFinalRoundabout describe.
RoundaboutsAnnouncedAsDesigned ==
  pc = "done" => Announcements(result) = ExpectedAnnouncements(input)

\* After the pass the leg starts with its depart and ends with its arrive
\* step (the assertions of postProcess and removeNoTurnInstructions), and
\* no StayOnRoundabout, exit or combined enter instruction is left.
OnlyEntriesAndTurnsRemain ==
  pc = "done" =>
    /\ Len(result) >= 2
    /\ result[1].wp = "depart" /\ result[Len(result)].wp = "arrive"
    /\ \A j \in 2..Len(result) - 1 : result[j].wp = "none"
    /\ \A j \in 1..Len(result) :
         ~ \E k \in RoundaboutKinds :
             result[j].type \in {ExitType(k), EnterAtExitType(k), EnterAndExitType(k)}
    /\ \A j \in 1..Len(result) : result[j].type # "StayOnRoundabout"

\* The steps the pass merges are absorbed, never lost or counted twice:
\* the remaining steps still cover the leg's intersections in order, its
\* whole distance, and its geometry, each step starting at the location
\* where the previous one turns.
StepsPartitionLeg ==
  pc = "done" =>
    LET n == Len(input) + 2
    IN  /\ FlattenSeq([j \in 1..Len(result) |-> result[j].inter]) = [j \in 1..n |-> j - 1]
        /\ FoldSeq(LAMBDA s, acc : s.dist + acc, 0, result) = n - 1
        /\ result[1].gb = 0 /\ result[Len(result)].ge = n
        /\ \A j \in 1..Len(result) - 1 : result[j].ge = result[j + 1].gb + 1

====
