\* One name change that is also a change of travel mode
CONSTANTS
  Inputs <- ModeChangeInputs

SPECIFICATION Spec

\* collapseTurns returns once the leg is processed
CHECK_DEADLOCK FALSE

INVARIANT ModesNeverMixed
