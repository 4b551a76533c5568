\* trimShortSegments, assignRelativeLocations and resyncGeometry on every
\* leg of up to four moves
CONSTANTS
  Inputs <- MCInputs

SPECIFICATION Spec

\* the three passes return once the leg is processed
CHECK_DEADLOCK FALSE

INVARIANT TrimmedLegWellFormed
INVARIANT ResyncedGeometryMatchesSteps
PROPERTY DurationPreserved
PROPERTY TrimCutsOnlyShortEnds
