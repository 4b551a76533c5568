------------------------------- MODULE HotSwap -------------------------------
(***************************************************************************)
(* Hot-swapping the shared-memory dataset under a running osrm-routed.     *)
(*                                                                         *)
(* Actors:                                                                 *)
(*  - Threads: request threads, each running RunQuery (engine.cpp): take   *)
(*    query_mutex shared, CheckAndReloadFacade, take data_mutex shared,    *)
(*    HandleRequest, release both (RAII).                                  *)
(*  - Ctor: the SharedDataFacade constructor, which runs                   *)
(*    CheckAndReloadFacade once before any request is served, without     *)
(*    query_mutex.                                                         *)
(*  - the datastore (osrm-datastore, not part of this repository, modelled *)
(*    from the design's C10): writes a new snapshot into the idle region   *)
(*    pair, then takes query_mutex exclusively and bumps the three fields  *)
(*    of CURRENT_REGIONS one after the other.                              *)
(*                                                                         *)
(* Shared memory regions LAYOUT_i / DATA_i are named by slot i in Slots;   *)
(* slot 0 is LAYOUT_NONE / DATA_NONE.  A region's content is the           *)
(* generation of the snapshot written into it, 0 when the region does not  *)
(* exist and -1 while the datastore is still writing it.  Removing a       *)
(* region removes its name; a mapping made earlier keeps the content it    *)
(* mapped, so the facade's mapping is recorded at map time.               *)
(***************************************************************************)
EXTENDS Integers, FiniteSets

CONSTANTS
  Threads,        \* request threads of osrm-routed
  Ctor,           \* the thread constructing the SharedDataFacade
  NONE,           \* no holder
  MaxGen,         \* the datastore writes snapshots 2..MaxGen (1 is loaded)
  MaxTouch,       \* timestamp-only bumps the datastore may make
  StartupRace,    \* may the datastore publish while routed is starting?
  LeafMayBeMissing, \* may the leaf index file named in the data be absent?
  Springclean      \* may the operator run osrm-springclean meanwhile?

ASSUME Ctor \notin Threads /\ NONE \notin Threads \cup {Ctor}
ASSUME MaxGen \in Nat \ {0} /\ MaxTouch \in Nat
ASSUME StartupRace \in BOOLEAN /\ LeafMayBeMissing \in BOOLEAN /\ Springclean \in BOOLEAN

Actors == Threads \cup {Ctor}
Slots == {1, 2}
REGION_NONE == 0   \* LAYOUT_NONE / DATA_NONE

VARIABLES
  registry,        \* *data_timestamp_ptr: [layout, data, timestamp]
  shm_layout,      \* slot -> content of region LAYOUT_slot
  shm_data,        \* slot -> content of region DATA_slot
  CURRENT_LAYOUT,  \* the facade's cached registry fields
  CURRENT_DATA,
  CURRENT_TIMESTAMP,
  mapped,          \* generations held by m_layout_memory / m_large_memory
  loaded,          \* generations the facade's data pointers were built from;
                   \* 0 where a pointer dangles or was never set
  data_mutex_excl, \* holder of data_mutex exclusively, or NONE
  data_mutex_shared, \* holders of data_mutex shared
  query_shared,    \* holders of query_mutex shared
  pc,              \* actor -> program point
  ds_pc,           \* the datastore's program point
  ds_slot,         \* slot the datastore writes (0 for a timestamp bump)
  ds_gen,          \* newest generation the datastore has written
  touches,         \* timestamp-only bumps made so far
  published,      \* generation named by CURRENT_REGIONS after the last bump
  loaded_from,     \* <<layout, data, timestamp>> the facade last loaded for
  sc_pc            \* the region osrm-springclean deletes next

vars == <<registry, shm_layout, shm_data, CURRENT_LAYOUT, CURRENT_DATA,
          CURRENT_TIMESTAMP, mapped, loaded, data_mutex_excl,
          data_mutex_shared, query_shared, pc, ds_pc, ds_slot, ds_gen,
          touches, published, loaded_from, sc_pc>>

facade == <<CURRENT_LAYOUT, CURRENT_DATA, CURRENT_TIMESTAMP, mapped, loaded>>
datastore == <<ds_pc, ds_slot, ds_gen, touches, published>>

-----------------------------------------------------------------------------
(* Helpers *)

\* storage::SharedMemory::Remove: the name goes away (no-op for *_NONE)
Remove(shm, slot) == IF slot = REGION_NONE THEN shm ELSE [shm EXCEPT ![slot] = 0]

\* the region exists (makeSharedMemory without create throws otherwise)
RegionExists(shm, slot) == slot # REGION_NONE /\ shm[slot] # 0

\* the snapshot a query must see: both regions at the published generation
PublishedSnapshot == <<published, published>>

\* where an actor continues once CheckAndReloadFacade has returned
AfterCheck(a) == IF a = Ctor THEN "done" ELSE "data_lock"

\* where an actor continues when CheckAndReloadFacade throws: the request
\* fails with the locks released by RAII, the constructor's exception ends
\* osrm-routed
AfterThrow(a) == IF a = Ctor THEN "failed" ELSE "idle"

\* boost::shared_mutex blocks new shared lockers while an exclusive locker
\* waits or holds the mutex
DataMutexWriterWaiting == \E a \in Actors : pc[a] = "excl"

\* interprocess_sharable_mutex: new shared lockers block once the
\* exclusive locker has announced itself
QueryMutexWriterIn == ds_pc \in {"locked_wait", "bump_layout", "bump_data",
                                 "bump_timestamp"}

-----------------------------------------------------------------------------
Init ==
  /\ registry = [layout |-> 1, data |-> 1, timestamp |-> 1]
  /\ shm_layout = [s \in Slots |-> IF s = 1 THEN 1 ELSE 0]
  /\ shm_data = [s \in Slots |-> IF s = 1 THEN 1 ELSE 0]
  /\ CURRENT_LAYOUT = REGION_NONE
  /\ CURRENT_DATA = REGION_NONE
  /\ CURRENT_TIMESTAMP = 0
  /\ mapped = <<0, 0>>
  /\ loaded = <<0, 0>>
  /\ data_mutex_excl = NONE
  /\ data_mutex_shared = {}
  /\ query_shared = {}
  /\ pc = [a \in Actors |-> IF a = Ctor THEN "check" ELSE "idle"]
  /\ ds_pc = "idle"
  /\ ds_slot = REGION_NONE
  /\ ds_gen = 1
  /\ touches = 0
  /\ published = 1
  /\ loaded_from = <<REGION_NONE, REGION_NONE, 0>>
  /\ sc_pc = "idle"

-----------------------------------------------------------------------------
(* RunQuery and CheckAndReloadFacade *)

\* mutant: new readers overtake a waiting writer
StartQueryReaderPreferring(t) ==
  /\ pc[t] = "idle"
  /\ pc[Ctor] = "done"
  /\ query_shared' = query_shared \cup {t}
  /\ pc' = [pc EXCEPT ![t] = "check"]
  /\ UNCHANGED <<registry, shm_layout, shm_data, facade, data_mutex_excl,
                 data_mutex_shared, datastore, loaded_from, sc_pc>>

\* RunQuery: sharable_lock on query_mutex
StartQuery(t) ==
  /\ pc[t] = "idle"
  /\ pc[Ctor] = "done"
  /\ ~QueryMutexWriterIn
  /\ query_shared' = query_shared \cup {t}
  /\ pc' = [pc EXCEPT ![t] = "check"]
  /\ UNCHANGED <<registry, shm_layout, shm_data, facade, data_mutex_excl,
                 data_mutex_shared, datastore, loaded_from, sc_pc>>

\* CheckAndReloadFacade: the unlocked comparison of the cached fields with
\* CURRENT_REGIONS
CheckFacade(a) ==
  /\ pc[a] = "check"
  /\ pc' = [pc EXCEPT ![a] =
              IF /\ CURRENT_LAYOUT = registry.layout
                 /\ CURRENT_DATA = registry.data
                 /\ CURRENT_TIMESTAMP = registry.timestamp
              THEN AfterCheck(a) ELSE "excl"]
  /\ UNCHANGED <<registry, shm_layout, shm_data, facade, data_mutex_excl,
                 data_mutex_shared, query_shared, datastore, loaded_from, sc_pc>>

\* mutant: the query lock is not released on the exception path
ThrowKeepingQueryLock(a) ==
  /\ data_mutex_excl' = NONE
  /\ query_shared' = query_shared
  /\ pc' = [pc EXCEPT ![a] = AfterThrow(a)]

\* an exception leaves CheckAndReloadFacade: lock_guard and (in RunQuery)
\* the sharable_lock are released
Throw(a) ==
  /\ data_mutex_excl' = NONE
  /\ query_shared' = query_shared \ {a}
  /\ pc' = [pc EXCEPT ![a] = AfterThrow(a)]

\* mutant: no re-check under the lock; the unlocked check's verdict is
\* taken as a region change
RegionChangedWithoutRecheck == TRUE

\* the re-check under the lock: the layout or data region was replaced
RegionChanged ==
  CURRENT_LAYOUT # registry.layout \/ CURRENT_DATA # registry.data

\* CheckAndReloadFacade under the exclusive data_mutex: re-check, release
\* the old regions and adopt the new ones when the layout or data region
\* changed, and when the timestamp differs map both regions and check the
\* leaf index file, up to the Load* calls
ReloadFacade(a) ==
  /\ pc[a] = "excl"
  /\ data_mutex_excl = NONE
  /\ data_mutex_shared = {}
  /\ LET swap == RegionChanged
         layouts == IF swap THEN Remove(shm_layout, CURRENT_LAYOUT) ELSE shm_layout
         datas == IF swap THEN Remove(shm_data, CURRENT_DATA) ELSE shm_data
         cl == IF swap THEN registry.layout ELSE CURRENT_LAYOUT
         cd == IF swap THEN registry.data ELSE CURRENT_DATA
         ts == IF swap THEN 0 ELSE CURRENT_TIMESTAMP
     IN  /\ shm_layout' = layouts
         /\ shm_data' = datas
         /\ CURRENT_LAYOUT' = cl
         /\ CURRENT_DATA' = cd
         /\ IF ts = registry.timestamp
            THEN /\ CURRENT_TIMESTAMP' = ts
                 /\ pc' = [pc EXCEPT ![a] = AfterCheck(a)]
                 /\ UNCHANGED <<mapped, loaded, data_mutex_excl, query_shared, sc_pc>>
            ELSE /\ CURRENT_TIMESTAMP' = registry.timestamp
                 /\ \/ \* makeSharedMemory(CURRENT_LAYOUT) throws
                       /\ ~RegionExists(layouts, cl)
                       /\ UNCHANGED <<mapped, loaded, sc_pc>>
                       /\ Throw(a)
                    \/ \* makeSharedMemory(CURRENT_DATA) throws
                       /\ RegionExists(layouts, cl)
                       /\ ~RegionExists(datas, cd)
                       /\ mapped' = <<layouts[cl], mapped[2]>>
                       /\ loaded' = <<0, 0>>
                       /\ Throw(a)
                    \/ \* the leaf index file does not exist: a path read
                       \* from a half-written region, or a missing file
                       /\ RegionExists(layouts, cl)
                       /\ RegionExists(datas, cd)
                       /\ LeafMayBeMissing \/ datas[cd] = -1
                       /\ mapped' = <<layouts[cl], datas[cd]>>
                       /\ loaded' = <<0, 0>>
                       /\ Throw(a)
                    \/ /\ RegionExists(layouts, cl)
                       /\ RegionExists(datas, cd)
                       /\ mapped' = <<layouts[cl], datas[cd]>>
                       /\ loaded' = <<0, 0>>
                       /\ data_mutex_excl' = a
                       /\ pc' = [pc EXCEPT ![a] = "loading"]
                       /\ UNCHANGED query_shared
  /\ UNCHANGED <<registry, data_mutex_shared, datastore, loaded_from, sc_pc>>

\* mutant: the lock_guard outlives the reload
LoadFacadeKeepingLock(a) ==
  /\ pc[a] = "loading"
  /\ loaded' = mapped
  /\ loaded_from' = <<CURRENT_LAYOUT, CURRENT_DATA, CURRENT_TIMESTAMP>>
  /\ data_mutex_excl' = data_mutex_excl
  /\ pc' = [pc EXCEPT ![a] = AfterCheck(a)]
  /\ UNCHANGED <<registry, shm_layout, shm_data, CURRENT_LAYOUT, CURRENT_DATA,
                 CURRENT_TIMESTAMP, mapped, data_mutex_shared, query_shared,
                 datastore, sc_pc>>

\* mutant: the data region's tables are not reloaded
LoadFacadeLayoutOnly(a) ==
  /\ pc[a] = "loading"
  /\ loaded' = <<mapped[1], loaded[2]>>
  /\ loaded_from' = <<CURRENT_LAYOUT, CURRENT_DATA, CURRENT_TIMESTAMP>>
  /\ data_mutex_excl' = NONE
  /\ pc' = [pc EXCEPT ![a] = AfterCheck(a)]
  /\ UNCHANGED <<registry, shm_layout, shm_data, CURRENT_LAYOUT, CURRENT_DATA,
                 CURRENT_TIMESTAMP, mapped, data_mutex_shared, query_shared,
                 datastore, sc_pc>>

\* LoadGraph ... LoadIntersectionClasses, then the lock_guard is released
LoadFacade(a) ==
  /\ pc[a] = "loading"
  /\ loaded' = mapped
  /\ loaded_from' = <<CURRENT_LAYOUT, CURRENT_DATA, CURRENT_TIMESTAMP>>
  /\ data_mutex_excl' = NONE
  /\ pc' = [pc EXCEPT ![a] = AfterCheck(a)]
  /\ UNCHANGED <<registry, shm_layout, shm_data, CURRENT_LAYOUT, CURRENT_DATA,
                 CURRENT_TIMESTAMP, mapped, data_mutex_shared, query_shared,
                 datastore, sc_pc>>

\* mutant: no shared data_mutex lock around HandleRequest
DataLockIgnoringReload(t) ==
  /\ pc[t] = "data_lock"
  /\ data_mutex_shared' = data_mutex_shared \cup {t}
  /\ pc' = [pc EXCEPT ![t] = "handle"]
  /\ UNCHANGED <<registry, shm_layout, shm_data, facade, data_mutex_excl,
                 query_shared, datastore, loaded_from, sc_pc>>

\* RunQuery: shared_lock on data_mutex
DataLock(t) ==
  /\ pc[t] = "data_lock"
  /\ data_mutex_excl = NONE
  /\ ~DataMutexWriterWaiting
  /\ data_mutex_shared' = data_mutex_shared \cup {t}
  /\ pc' = [pc EXCEPT ![t] = "handle"]
  /\ UNCHANGED <<registry, shm_layout, shm_data, facade, data_mutex_excl,
                 query_shared, datastore, loaded_from, sc_pc>>

\* plugin.HandleRequest reads the facade; both locks released on return
HandleRequest(t) ==
  /\ pc[t] = "handle"
  /\ data_mutex_shared' = data_mutex_shared \ {t}
  /\ query_shared' = query_shared \ {t}
  /\ pc' = [pc EXCEPT ![t] = "idle"]
  /\ UNCHANGED <<registry, shm_layout, shm_data, facade, data_mutex_excl,
                 datastore, loaded_from, sc_pc>>

-----------------------------------------------------------------------------
(* osrm-springclean (springclean.cpp): after the operator types 'Y' it    *)
(* deletes DATA_1, LAYOUT_1, DATA_2, LAYOUT_2 and CURRENT_REGIONS, each    *)
(* only if it exists.  Any other answer returns without a change.         *)

\* the regions springclean deletes, in its order
SpringcleanOrder == <<"DATA_1", "LAYOUT_1", "DATA_2", "LAYOUT_2", "CURRENT_REGIONS">>
SpringcleanRegions == {SpringcleanOrder[i] : i \in 1..5}

\* the facade's mapping of CURRENT_REGIONS is still the region the
\* datastore writes; once springclean removed it, the datastore's next
\* CURRENT_REGIONS is a new region the facade never maps
RegistryMapped == sc_pc # "done"

SpringcleanConfirmed ==
  /\ Springclean
  /\ sc_pc = "idle"
  /\ sc_pc' = SpringcleanOrder[1]
  /\ UNCHANGED <<registry, shm_layout, shm_data, facade, data_mutex_excl,
                 data_mutex_shared, query_shared, pc, datastore, loaded_from>>

\* deleteRegion: SharedMemory::Remove if the region exists
DeleteRegion ==
  /\ sc_pc \in SpringcleanRegions
  /\ LET k == CHOOSE i \in 1..5 : SpringcleanOrder[i] = sc_pc
     IN  sc_pc' = IF k = 5 THEN "done" ELSE SpringcleanOrder[k + 1]
  /\ shm_data' = CASE sc_pc = "DATA_1" -> Remove(shm_data, 1)
                    [] sc_pc = "DATA_2" -> Remove(shm_data, 2)
                    [] OTHER -> shm_data
  /\ shm_layout' = CASE sc_pc = "LAYOUT_1" -> Remove(shm_layout, 1)
                      [] sc_pc = "LAYOUT_2" -> Remove(shm_layout, 2)
                      [] OTHER -> shm_layout
  /\ UNCHANGED <<registry, facade, data_mutex_excl, data_mutex_shared,
                 query_shared, pc, datastore, loaded_from>>

-----------------------------------------------------------------------------
(* The datastore (design C10; its source is not part of this repository) *)

\* waits for osrm-routed to finish starting unless StartupRace
DatastoreMayStart == StartupRace \/ pc[Ctor] \in {"done", "failed"}

\* the region pair CURRENT_REGIONS does not name
IdleSlot == CHOOSE x \in Slots : x # registry.layout

\* create the idle region pair (the pair CURRENT_REGIONS does not name)
\* and start writing the next snapshot into it
DsWrite ==
  /\ ds_pc = "idle"
  /\ ds_gen < MaxGen
  /\ DatastoreMayStart
  /\ LET s == IdleSlot
     IN  /\ shm_layout' = [shm_layout EXCEPT ![s] = -1]
         /\ shm_data' = [shm_data EXCEPT ![s] = -1]
         /\ ds_slot' = s
  /\ ds_pc' = "writing"
  /\ UNCHANGED <<registry, facade, data_mutex_excl, data_mutex_shared,
                 query_shared, pc, ds_gen, touches, published, loaded_from, sc_pc>>

\* the snapshot is complete; a region whose name was removed meanwhile
\* keeps its name removed
DsWriteDone ==
  /\ ds_pc = "writing"
  /\ shm_layout' = IF shm_layout[ds_slot] = -1
                   THEN [shm_layout EXCEPT ![ds_slot] = ds_gen + 1]
                   ELSE shm_layout
  /\ shm_data' = IF shm_data[ds_slot] = -1
                 THEN [shm_data EXCEPT ![ds_slot] = ds_gen + 1]
                 ELSE shm_data
  /\ ds_gen' = ds_gen + 1
  /\ ds_pc' = "lock"
  /\ UNCHANGED <<registry, facade, data_mutex_excl, data_mutex_shared,
                 query_shared, pc, ds_slot, touches, published, loaded_from, sc_pc>>

\* a swap that only changes the timestamp (the design's "hot-swap during
\* query" scenario)
DsTouch ==
  /\ ds_pc = "idle"
  /\ touches < MaxTouch
  /\ DatastoreMayStart
  /\ touches' = touches + 1
  /\ ds_slot' = REGION_NONE
  /\ ds_pc' = "lock"
  /\ UNCHANGED <<registry, shm_layout, shm_data, facade, data_mutex_excl,
                 data_mutex_shared, query_shared, pc, ds_gen, published,
                 loaded_from, sc_pc>>

\* scoped_lock on query_mutex: announce, then wait for the readers to leave
DsLockRequest ==
  /\ ds_pc = "lock"
  /\ ds_pc' = "locked_wait"
  /\ UNCHANGED <<registry, shm_layout, shm_data, facade, data_mutex_excl,
                 data_mutex_shared, query_shared, pc, ds_slot, ds_gen,
                 touches, published, loaded_from, sc_pc>>

\* mutant: the exclusive lock is taken without waiting for the readers
DsLockedIgnoringReaders ==
  /\ ds_pc = "locked_wait"
  /\ ds_pc' = IF ds_slot = REGION_NONE THEN "bump_timestamp" ELSE "bump_layout"
  /\ UNCHANGED <<registry, shm_layout, shm_data, facade, data_mutex_excl,
                 data_mutex_shared, query_shared, pc, ds_slot, ds_gen,
                 touches, published, loaded_from, sc_pc>>

DsLocked ==
  /\ ds_pc = "locked_wait"
  /\ query_shared = {}
  /\ ds_pc' = IF ds_slot = REGION_NONE THEN "bump_timestamp" ELSE "bump_layout"
  /\ UNCHANGED <<registry, shm_layout, shm_data, facade, data_mutex_excl,
                 data_mutex_shared, query_shared, pc, ds_slot, ds_gen,
                 touches, published, loaded_from, sc_pc>>

\* the three fields of CURRENT_REGIONS are written one at a time
DsBumpLayout ==
  /\ ds_pc = "bump_layout"
  /\ registry' = IF RegistryMapped THEN [registry EXCEPT !.layout = ds_slot] ELSE registry
  /\ ds_pc' = "bump_data"
  /\ UNCHANGED <<shm_layout, shm_data, facade, data_mutex_excl,
                 data_mutex_shared, query_shared, pc, ds_slot, ds_gen,
                 touches, published, loaded_from, sc_pc>>

DsBumpData ==
  /\ ds_pc = "bump_data"
  /\ registry' = IF RegistryMapped THEN [registry EXCEPT !.data = ds_slot] ELSE registry
  /\ ds_pc' = "bump_timestamp"
  /\ UNCHANGED <<shm_layout, shm_data, facade, data_mutex_excl,
                 data_mutex_shared, query_shared, pc, ds_slot, ds_gen,
                 touches, published, loaded_from, sc_pc>>

\* the timestamp goes last; then query_mutex is released
DsBumpTimestamp ==
  /\ ds_pc = "bump_timestamp"
  /\ registry' = IF RegistryMapped THEN [registry EXCEPT !.timestamp = @ + 1] ELSE registry
  /\ published' = IF ds_slot = REGION_NONE THEN published ELSE ds_gen
  /\ ds_pc' = "idle"
  /\ UNCHANGED <<shm_layout, shm_data, facade, data_mutex_excl,
                 data_mutex_shared, query_shared, pc, ds_slot, ds_gen,
                 touches, loaded_from, sc_pc>>

-----------------------------------------------------------------------------
Next ==
  \/ \E t \in Threads : StartQuery(t) \/ DataLock(t) \/ HandleRequest(t)
  \/ \E a \in Actors : CheckFacade(a) \/ ReloadFacade(a) \/ LoadFacade(a)
  \/ DsWrite \/ DsWriteDone \/ DsTouch \/ DsLockRequest \/ DsLocked
  \/ DsBumpLayout \/ DsBumpData \/ DsBumpTimestamp
  \/ SpringcleanConfirmed \/ DeleteRegion

\* A request thread and the constructor, once a step of theirs is enabled,
\* keep running: weak fairness.  Lock acquisitions are enabled only while
\* no conflicting holder exists; both mutexes give writers priority, so a
\* waiter is served whenever the lock is free infinitely often: strong
\* fairness.  Clients sending requests and the operator starting the
\* datastore or confirming springclean are not forced; springclean, once
\* confirmed, runs its deletions to the end.
Fairness ==
  /\ \A a \in Actors : WF_vars(CheckFacade(a)) /\ WF_vars(LoadFacade(a))
                       /\ SF_vars(ReloadFacade(a))
  /\ \A t \in Threads : SF_vars(DataLock(t)) /\ WF_vars(HandleRequest(t))
  /\ WF_vars(DsWriteDone) /\ WF_vars(DsLockRequest) /\ SF_vars(DsLocked)
  /\ WF_vars(DsBumpLayout) /\ WF_vars(DsBumpData) /\ WF_vars(DsBumpTimestamp)
  /\ WF_vars(DeleteRegion)

Spec == Init /\ [][Next]_vars /\ Fairness

-----------------------------------------------------------------------------
(* Properties *)

TypeOK ==
  /\ registry \in [layout : Slots, data : Slots, timestamp : Nat]
  /\ shm_layout \in [Slots -> -1..MaxGen]
  /\ shm_data \in [Slots -> -1..MaxGen]
  /\ {CURRENT_LAYOUT, CURRENT_DATA} \subseteq Slots \cup {REGION_NONE}
  /\ CURRENT_TIMESTAMP \in Nat
  /\ mapped \in (-1..MaxGen) \X (-1..MaxGen)
  /\ loaded \in (-1..MaxGen) \X (-1..MaxGen)
  /\ data_mutex_excl \in {NONE} \cup {a \in Actors : pc[a] = "loading"}
  /\ data_mutex_shared \subseteq Threads
  /\ query_shared \subseteq Threads
  /\ pc \in [Actors -> {"idle", "check", "excl", "loading", "data_lock",
                        "handle", "done", "failed"}]
  /\ ds_pc \in {"idle", "writing", "lock", "locked_wait", "bump_layout",
                "bump_data", "bump_timestamp"}
  /\ sc_pc \in {"idle", "done"} \cup SpringcleanRegions

\* Every request a thread handles reads the snapshot CURRENT_REGIONS names
\* at that moment, complete and from one generation in both regions: the
\* RunQuery lock order (query_mutex, reload, data_mutex) and the double
\* check of CheckAndReloadFacade must keep a reader off a half-reloaded
\* facade and off a stale one.
QueryReadsPublishedSnapshot ==
  \A t \in Threads : pc[t] = "handle" => loaded = PublishedSnapshot

\* Whenever no reload holds data_mutex, the facade holds what its cached
\* CURRENT_LAYOUT / CURRENT_DATA / CURRENT_TIMESTAMP claim: a complete
\* snapshot loaded for exactly those values (the design's "no unwinding
\* side effects that leave the facade in a partial state").
FacadeConsistentWhenUnlocked ==
  (data_mutex_excl = NONE /\ pc[Ctor] = "done") =>
    /\ loaded_from = <<CURRENT_LAYOUT, CURRENT_DATA, CURRENT_TIMESTAMP>>
    /\ loaded[1] > 0
    /\ loaded[1] = loaded[2]

\* Until osrm-springclean runs, a reload removes only regions that
\* CURRENT_REGIONS no longer names: the SharedMemory::Remove of the
\* facade's old layout and data regions follows the re-check under the
\* exclusive data_mutex, and a second thread that saw the same change
\* before the first reloaded must find its cached fields already current
\* and remove nothing.  (Removing a region the datastore is still
\* preparing is not excluded; see the README.)
ReloadRemovesOnlyRetiredRegions ==
  [][sc_pc = "idle" =>
       \A x \in Slots :
         /\ (shm_layout[x] # 0 /\ shm_layout'[x] = 0) => x # registry.layout
         /\ (shm_data[x] # 0 /\ shm_data'[x] = 0) => x # registry.data]_vars

\* Once the datastore asks for query_mutex it eventually completes its
\* swap: readers in RunQuery release the lock in bounded time and new
\* readers do not overtake it (the design's "exclusive lock during
\* hot-swap -- bounded by in-flight query duration").
SwapCompletes == ds_pc = "lock" ~> ds_pc = "idle"

=============================================================================
