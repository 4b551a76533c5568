\* The datastore publishes one swap while osrm-routed constructs its
\* SharedDataFacade; the leaf index file is in place.
CONSTANTS
  t1 = t1
  t2 = t2
  ctor = ctor
  none = none
  Threads <- MCThreads
  Ctor <- ctor
  NONE <- none
  MaxGen = 2
  MaxTouch = 0
  StartupRace = TRUE
  LeafMayBeMissing = FALSE
  Springclean = FALSE

SPECIFICATION Spec

\* osrm-routed exits when the SharedDataFacade constructor throws
CHECK_DEADLOCK FALSE

INVARIANT QueryReadsPublishedSnapshot
