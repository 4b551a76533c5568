\* A reload whose leaf index file check fails: osrm-routed started before
\* the datastore runs, one full swap and one timestamp-only swap.
CONSTANTS
  t1 = t1
  t2 = t2
  ctor = ctor
  none = none
  Threads <- MCThreads
  Ctor <- ctor
  NONE <- none
  MaxGen = 2
  MaxTouch = 1
  StartupRace = FALSE
  LeafMayBeMissing = TRUE
  Springclean = FALSE

SPECIFICATION Spec

\* osrm-routed exits when the SharedDataFacade constructor throws
CHECK_DEADLOCK FALSE

INVARIANT FacadeConsistentWhenUnlocked
