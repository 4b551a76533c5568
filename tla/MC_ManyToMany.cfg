CONSTANTS
  Nodes <- MCNodes
  Edges <- MCEdges
  Distance <- MCDistance
  PhantomCandidates <- MCPhantoms
  NumPhantoms = 2
  SourceIndexChoices <- MCSourceIndexChoices
  TargetIndexChoices <- MCTargetIndexChoices

SPECIFICATION Spec

\* operator() returns once the last source search has run
CHECK_DEADLOCK FALSE

INVARIANT TypeOK
INVARIANT MatrixCorrect
