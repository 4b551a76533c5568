------------------------ MODULE MC_GuidanceRoundabout ------------------------
(***************************************************************************)
(* Model-checking instance of GuidanceRoundabout.                          *)
(*                                                                         *)
(* The inputs are every leg of up to MaxTurns turn steps whose types turn  *)
(* analysis can emit: a roundabout is entered (Enter..., Enter...AtExit),  *)
(* passed (StayOnRoundabout) and left (Exit... of the same kind), or taken *)
(* in one step (EnterAndExit...); a leg may start on a roundabout, its     *)
(* first turn steps then being passed exits or the exit itself, and may    *)
(* end on one.  Turn and Suppressed stand for the other instructions.      *)
(* With OtherOnRoundabout a Suppressed step (the assertion of              *)
(* closeOffRoundabout also admits NoTurn and UseLane there) may lie on the *)
(* roundabout between its roundabout steps.                                *)
(***************************************************************************)
EXTENDS GuidanceRoundabout

CONSTANTS MaxTurns, OtherOnRoundabout

Alphabet == Types \ {"NoTurn"}

\* st: "start" while the leg may still be on the roundabout it started on,
\* "first" once a passed exit shows it is, "out" off any roundabout, or the
\* kind of the roundabout it has entered
RECURSIVE Emittable(_, _, _)
Emittable(ts, i, st) ==
  IF i > Len(ts) THEN TRUE
  ELSE
    LET t == ts[i]
        offRoundabout == st \in {"start", "out"}
    IN  CASE t = "Turn" -> offRoundabout /\ Emittable(ts, i + 1, "out")
          [] t = "Suppressed" ->
               CASE st = "out" -> Emittable(ts, i + 1, "out")
                 [] st = "start" -> Emittable(ts, i + 1, IF OtherOnRoundabout THEN "start" ELSE "out")
                 [] OTHER -> OtherOnRoundabout /\ Emittable(ts, i + 1, st)
          [] t = "StayOnRoundabout" ->
               st # "out" /\ Emittable(ts, i + 1, IF st = "start" THEN "first" ELSE st)
          [] \E k \in RoundaboutKinds : t \in {EnterType(k), EnterAtExitType(k)} ->
               offRoundabout /\
               Emittable(ts, i + 1,
                         CHOOSE k \in RoundaboutKinds : t \in {EnterType(k), EnterAtExitType(k)})
          [] \E k \in RoundaboutKinds : t = EnterAndExitType(k) ->
               offRoundabout /\ Emittable(ts, i + 1, "out")
          [] OTHER ->  \* an exit
               (st \in {"start", "first"} \/ t = ExitType(st)) /\ Emittable(ts, i + 1, "out")

MCInputs == { ts \in BoundedSeq(Alphabet, MaxTurns) : Emittable(ts, 1, "start") }

=============================================================================
