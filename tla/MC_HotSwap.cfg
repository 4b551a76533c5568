\* Two request threads; one full swap to the idle region pair and one
\* timestamp-only swap; osrm-routed has started before the datastore runs
\* and the leaf index file is in place.
CONSTANTS
  t1 = t1
  t2 = t2
  ctor = ctor
  none = none
  Threads <- MCThreads
  Ctor <- ctor
  NONE <- none
  MaxGen = 2
  MaxTouch = 1
  StartupRace = FALSE
  LeafMayBeMissing = FALSE
  Springclean = FALSE

SPECIFICATION Spec

INVARIANT TypeOK
INVARIANT QueryReadsPublishedSnapshot
INVARIANT FacadeConsistentWhenUnlocked
PROPERTY SwapCompletes
