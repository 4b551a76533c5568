\* The failure paths: the datastore makes two full swaps (so a region pair
\* is reused while the facade may still remove it) and one timestamp-only
\* swap, the leaf index file may be missing whenever a reload checks it,
\* and osrm-springclean may delete the regions at any moment.  The startup
\* race has a run of its own (MC_HotSwap_startup.cfg).
CONSTANTS
  t1 = t1
  t2 = t2
  ctor = ctor
  none = none
  Threads <- MCThreads
  Ctor <- ctor
  NONE <- none
  MaxGen = 3
  MaxTouch = 1
  StartupRace = FALSE
  LeafMayBeMissing = TRUE
  Springclean = TRUE

SPECIFICATION Spec

\* osrm-routed exits when the SharedDataFacade constructor throws, after
\* which only the bounded datastore moves and the system stops
CHECK_DEADLOCK FALSE

PROPERTY ReloadRemovesOnlyRetiredRegions
PROPERTY SwapCompletes
