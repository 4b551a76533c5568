CONSTANT Inputs <- MCInputs
SPECIFICATION Spec
\* PrepareData returns after WriteRestrictions: the pipeline ends in a final state
CHECK_DEADLOCK FALSE
INVARIANT TypeOK
INVARIANT NodeFileMatchesIds
INVARIANT ParallelEdgesResolved
INVARIANT NamedEdgePreferred
INVARIANT TurnLaneDescriptionsRoundTrip
