CONSTANTS
  Inputs <- MCInputs
  MaxTurns = 3
  OtherOnRoundabout = TRUE

SPECIFICATION Spec

CHECK_DEADLOCK FALSE

INVARIANT RoundaboutsAnnouncedAsDesigned
