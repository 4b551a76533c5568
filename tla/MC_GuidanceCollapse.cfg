\* Four families of legs of up to two, three or four turns (see MCInputs)
CONSTANTS
  Inputs <- MCInputs

SPECIFICATION Spec

\* the pipeline returns once buildIntersections has rebuilt the leg
CHECK_DEADLOCK FALSE

INVARIANT TypeOK
INVARIANT CollapsePreservesLeg
INVARIANT NoSliproadRemains
INVARIANT AngleWindowsMirrorSymmetric
INVARIANT EmittedLegPreserved
INVARIANT EndOfRoadNeedsPassedIntersections
