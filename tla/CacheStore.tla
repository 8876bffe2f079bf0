------------------------------ MODULE CacheStore ------------------------------
(***************************************************************************)
(* The cached routes of an application over the store its configuration    *)
(* names: the handlers are the same, the store is picked once, when the    *)
(* application is set up (buildCacheStore).  Both stores are held against  *)
(* the one promise of PageCache.                                           *)
(***************************************************************************)
EXTENDS FileCache

\* Applications, [strategy, routes, versions]: the store, the routes, and (a bound)
\* how often the content behind them changes.
CONSTANT App

VARIABLES
  app,
  entries    \* as in MemoryCache

Memory == INSTANCE MemoryCache

allVars == <<vars, app, entries>>
InMemory == app.strategy = "IN_MEMORY"

CacheTypeOK == app \in App /\ IF InMemory THEN Memory!TypeOK ELSE TypeOK

\* The two stores start alike; what belongs to the other one is never touched.
CacheInit == app \in App /\ Init /\ Memory!Init

\* A step of app's store that stays within its routes and versions.
OfApp ==
  /\ content' <= app.versions
  /\ \A q \in Request : route'[q] \in app.routes \cup {None}
MemoryStep ==
  /\ InMemory /\ Memory!Next /\ OfApp
  /\ UNCHANGED <<app, disk, excused>>
FileStep ==
  /\ ~ InMemory /\ Next /\ OfApp
  /\ UNCHANGED <<app, entries>>

CacheSpec == CacheInit /\ [][MemoryStep \/ FileStep]_allVars

-----------------------------------------------------------------------------
(* Both stores implement the promise of a cached route, the file store but *)
(* for the time to live.  In memory, no interleaving of lookups, late      *)
(* evictions (which may delete an entry newer than the one found expired), *)
(* renders and writes answers a request with another key's page, with one  *)
(* past its time to live, or with one rendered before the request came in  *)
(* other than from the store.  With gzip files, partial and overlaid files *)
(* are misses, restarts in the middle of a write included, and every whole *)
(* file was rendered for its key.                                          *)
KeepsPromise ==
  /\ IF InMemory THEN Memory!Promise!Init ELSE Promise!Init
  /\ [][IF InMemory THEN [Memory!Promise!Next]_(Memory!Promise!vars)
        ELSE [Promise!Next]_(Promise!vars)]_allVars
==============================================================================
