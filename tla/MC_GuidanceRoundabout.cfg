CONSTANTS
  Inputs <- MCInputs
  MaxTurns = 4
  OtherOnRoundabout = FALSE

SPECIFICATION Spec

\* postProcess returns once the leg is processed
CHECK_DEADLOCK FALSE

INVARIANT TypeOK
INVARIANT RoundaboutsAnnouncedAsDesigned
INVARIANT OnlyEntriesAndTurnsRemain
INVARIANT StepsPartitionLeg
