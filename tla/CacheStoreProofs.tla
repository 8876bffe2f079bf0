--------------------------- MODULE CacheStoreProofs ---------------------------
(***************************************************************************)
(* Proofs about the cached routes, for any requests, routes, applications  *)
(* and bounds on the clock and on the content: both stores keep PageCache's*)
(* promise, and the file store forgets no expiry time.                     *)
(***************************************************************************)
EXTENDS CacheStore, TLAPS

-----------------------------------------------------------------------------
(***************************************************************************)
(* The invariants.                                                         *)
(***************************************************************************)

\* A request under way asks for a route; what it has rendered and not yet handed to
\* the store was rendered for that route, after the request came in.
UnderWay ==
  \A q \in Request :
    /\ pc[q] = "idle" <=> route[q] = None
    /\ asked[q] <= content
    /\ pc[q] = "set" =>
         /\ got[q] \in Rendering /\ got[q].route = route[q]
         /\ got[q].version \in asked[q]..content \cup {Cut}

\* In memory: what is stored, or found there, was rendered for its key.
MemoryInv ==
  /\ Memory!TypeOK /\ UnderWay
  /\ \A q \in Request : pc[q] \in {"check", "store"} =>
       got[q] \in renderings /\ Key(got[q].route) = Key(route[q])
  /\ \A k \in Uri : entries[k] # None => entries[k] \in renderings /\ Key(entries[k].route) = k
  /\ file = [k \in Uri |-> None]

\* A request that is past the lookup will remove the file of its key, or one that has
\* written it will set its expiry time.
SeesToExpiry(q) == pc[q] = "remove" \/ (pc[q] = "expiry" /\ route[q].ttl > 0)

\* A whole file that expires has its time, or a request that sees to it.
ExpiryInv ==
  \A k \in Uri \ excused : file[k] \in Rendering /\ file[k].route.ttl > 0 =>
    \/ ttlMap[k] # None
    \/ \E q \in Request : route[q] \in Route /\ MyKey(q) = k /\ SeesToExpiry(q)

\* On disk: a file that is whole was rendered for its key.
FileInv ==
  /\ TypeOK /\ UnderWay /\ ExpiryInv
  /\ \A q \in Request : pc[q] \in {"truncate", "fill", "expiry"} =>
       got[q] \in renderings /\ got[q].route = route[q]
  /\ \A k \in Uri : file[k] \in Rendering => file[k] \in renderings /\ Key(file[k].route) = k

IInv == app \in App /\ IF InMemory THEN MemoryInv ELSE FileInv

-----------------------------------------------------------------------------
(***************************************************************************)
(* The in-memory store.                                                    *)
(***************************************************************************)

\* Facts about a request under way.
LEMMA MemoryRequest ==
  ASSUME MemoryInv, NEW q \in Request, pc[q] # "idle"
  PROVE  /\ route[q] \in Route /\ Key(route[q]) \in Uri /\ route[q] # None
         /\ entries[Key(route[q])] \in Rendering \cup {None}
         /\ now \in 0..MaxTime /\ None \notin Rendering
         /\ got[q] # None => got[q] \in Rendering
<1>1. route[q] \in Route /\ route[q] # None
  BY DEF MemoryInv, UnderWay, Memory!TypeOK
<1>2. Key(route[q]) \in Uri
  BY <1>1 DEF Uri
<1> QED
  BY <1>1, <1>2, PageCacheAssumption
     DEF MemoryInv, Memory!TypeOK, Memory!Uri, Memory!Rendering, Uri, Rendering,
         Memory!Key, Key, Memory!Version, Version

LEMMA MemoryNext == MemoryInv /\ Memory!Next /\ UNCHANGED file => MemoryInv'
<1> SUFFICES ASSUME MemoryInv, Memory!Next, UNCHANGED file PROVE MemoryInv'
  OBVIOUS
<1> USE PageCacheAssumption DEF MemoryInv, UnderWay, Memory!TypeOK, Memory!Uri,
        Memory!Rendering, Uri, Rendering, Memory!Key, Key, Memory!Version, Version,
        Memory!env, Memory!Goto, Memory!Hold, Memory!Steps
<1>1. CASE Memory!Environment
  BY <1>1 DEF Memory!Environment
<1>2. ASSUME NEW q \in Request, NEW rt \in Route, Memory!Ask(q, rt) PROVE MemoryInv'
  BY <1>2 DEF Memory!Ask
<1>3. ASSUME NEW q \in Request, Memory!Lookup(q) PROVE MemoryInv'
  BY <1>3, MemoryRequest DEF Memory!Lookup
<1>4. ASSUME NEW q \in Request, Memory!Check(q) PROVE MemoryInv'
  BY <1>4, MemoryRequest DEF Memory!Check
<1>5. ASSUME NEW q \in Request, Memory!Evict(q) PROVE MemoryInv'
  BY <1>5, MemoryRequest DEF Memory!Evict
<1>6. ASSUME NEW q \in Request, Memory!Render(q) PROVE MemoryInv'
  BY <1>6, MemoryRequest DEF Memory!Render
<1>7. ASSUME NEW q \in Request, Memory!Panic(q) PROVE MemoryInv'
  BY <1>7, MemoryRequest DEF Memory!Panic
<1>8. ASSUME NEW q \in Request, Memory!Set(q) PROVE MemoryInv'
  BY <1>8, MemoryRequest DEF Memory!Set, Memory!Stamp
<1>9. ASSUME NEW q \in Request, Memory!Store(q) PROVE MemoryInv'
  BY <1>9, MemoryRequest DEF Memory!Store
<1>10. ASSUME NEW q \in Request, Memory!Reply(q) PROVE MemoryInv'
  BY <1>10, MemoryRequest DEF Memory!Reply
<1> QED
  BY <1>1, <1>2, <1>3, <1>4, <1>5, <1>6, <1>7, <1>8, <1>9, <1>10
     DEF Memory!Next, Memory!Handler

\* Each step of the handlers answers a request as the promise allows, or answers none.
LEMMA MemoryImplements ==
  MemoryInv /\ [Memory!Next]_(Memory!vars)
    => [Memory!Promise!Next]_(Memory!Promise!vars)
<1> SUFFICES ASSUME MemoryInv, [Memory!Next]_(Memory!vars)
             PROVE  [Memory!Promise!Next]_(Memory!Promise!vars)
  OBVIOUS
<1> DEFINE answer == [q \in Request |-> IF pc[q] \in {"store", "reply"} THEN got[q] ELSE None]
           Stutter == UNCHANGED <<now, content, asked, route, renderings>> /\ answer' = answer
<1>0. /\ pc \in [Request -> Memory!Steps] /\ got \in [Request -> Rendering \cup {None}]
      /\ None \notin Rendering
      /\ \A q \in Request : answer[q] = IF pc[q] \in {"store", "reply"} THEN got[q] ELSE None
  BY PageCacheAssumption
     DEF MemoryInv, Memory!TypeOK, Memory!Rendering, Rendering, Memory!Version, Version
<1>1. CASE Memory!Environment
  <2>1. answer' = answer
    BY <1>1 DEF Memory!Environment
  <2>2. Memory!Promise!Tick \/ Memory!Promise!Publish
    BY <1>1, <2>1 DEF Memory!Environment, Memory!Promise!Tick, Memory!Promise!Publish
  <2> QED
    BY <2>2 DEF Memory!Promise!Next
<1>2. ASSUME NEW q \in Request, NEW rt \in Route, Memory!Ask(q, rt) PROVE Memory!Promise!Next
  <2>1. route[q] = None
    BY <1>2 DEF MemoryInv, UnderWay, Memory!Ask
  <2>2. answer' = answer
    BY <1>0, <1>2 DEF Memory!Ask, Memory!Goto
  <2>3. Memory!Promise!Ask(q, rt)
    BY <1>2, <2>1, <2>2 DEF Memory!Ask, Memory!Promise!Ask
  <2> QED
    BY <2>3 DEF Memory!Promise!Next
<1>3. ASSUME NEW q \in Request,
             Memory!Lookup(q) \/ Memory!Evict(q) \/ Memory!Render(q) \/ Memory!Store(q)
      PROVE  Stutter
  BY <1>0, <1>3
     DEF Memory!Lookup, Memory!Evict, Memory!Render, Memory!Store, Memory!Goto, Memory!Hold,
         Memory!env
<1>4. ASSUME NEW q \in Request, Memory!Check(q) PROVE Memory!Promise!Next \/ Stutter
  <2>1. CASE Memory!Expired(got[q])
    BY <1>0, <1>4, <2>1 DEF Memory!Check, Memory!Goto, Memory!Hold, Memory!env
  <2>2. CASE ~ Memory!Expired(got[q])
    <3>1. /\ route[q] # None /\ answer[q] = None
          /\ got[q] \in renderings /\ Key(got[q].route) = Key(route[q])
      BY <1>0, <1>4, MemoryRequest DEF Memory!Check, MemoryInv
    <3>2. answer' = [answer EXCEPT ![q] = got[q]]
      BY <1>0, <1>4, <2>2 DEF Memory!Check, Memory!Goto
    <3>3. Memory!Promise!Reuse(q)
      BY <1>4, <2>2, <3>1, <3>2
         DEF Memory!Check, Memory!env, Memory!Expired, Memory!Promise!Reuse,
             Memory!Promise!Pending, Memory!Promise!Answer, Memory!PastLife,
             Memory!Promise!PastLife, Memory!Promise!Key, Key
    <3> QED
      BY <3>3 DEF Memory!Promise!Next
  <2> QED
    BY <2>1, <2>2
<1>5. ASSUME NEW q \in Request, Memory!Set(q) PROVE Memory!Promise!Next
  <2> DEFINE e == [route |-> route[q], version |-> got[q].version, at |-> now]
  <2>1. /\ route[q] # None /\ answer[q] = None /\ got[q] \in Rendering /\ got[q].route = route[q]
        /\ got[q].version \in asked[q]..content \cup {Cut}
    BY <1>0, <1>5, MemoryRequest DEF Memory!Set, MemoryInv, UnderWay
  <2>2. Memory!Stamp(got[q]) = e
    BY <2>1 DEF Memory!Stamp, Rendering
  <2> HIDE DEF e
  <2>3. got' = [got EXCEPT ![q] = e] /\ renderings' = renderings \cup {e}
    BY <1>5, <2>2 DEF Memory!Set, Memory!Hold
  <2>4. answer' = [answer EXCEPT ![q] = e]
    BY <1>0, <1>5, <2>3 DEF Memory!Set, Memory!Goto
  <2>5. Memory!Promise!Render(q)
    BY <1>5, <2>1, <2>3, <2>4
       DEF Memory!Set, Memory!env, Memory!Promise!Render, Memory!Promise!Pending,
           Memory!Promise!Answer, e
  <2> QED
    BY <2>5 DEF Memory!Promise!Next
<1>6. ASSUME NEW q \in Request, Memory!Panic(q) \/ Memory!Reply(q) PROVE Memory!Promise!Next
  <2>1. /\ route' = [p \in Request |-> IF p \in {q} THEN None ELSE route[p]]
        /\ asked' = [p \in Request |-> IF p \in {q} THEN 0 ELSE asked[p]]
        /\ UNCHANGED <<now, content, renderings>>
    BY <1>6 DEF Memory!Panic, Memory!Reply, MemoryInv, Memory!TypeOK
  <2>2. answer' = [p \in Request |-> IF p \in {q} THEN None ELSE answer[p]]
    BY <1>0, <1>6 DEF Memory!Panic, Memory!Reply, Memory!Goto, Memory!Hold
  <2>3. Memory!Promise!Finish({q})
    BY <2>1, <2>2 DEF Memory!Promise!Finish
  <2> QED
    BY <2>3 DEF Memory!Promise!Next
<1>7. CASE UNCHANGED Memory!vars
  BY <1>7 DEF Memory!vars, Memory!Promise!vars
<1>8. Stutter => UNCHANGED Memory!Promise!vars
  BY DEF Memory!Promise!vars
<1> QED
  BY <1>1, <1>2, <1>3, <1>4, <1>5, <1>6, <1>7, <1>8 DEF Memory!Next, Memory!Handler

-----------------------------------------------------------------------------
(***************************************************************************)
(* The file store: types, and what is on disk.                             *)
(***************************************************************************)
LEMMA FileRequest ==
  ASSUME FileInv, NEW q \in Request, pc[q] # "idle"
  PROVE  /\ route[q] \in Route /\ MyKey(q) \in Uri /\ route[q] # None /\ route[q].ttl \in Nat
         /\ file[MyKey(q)] \in Rendering \cup {Garbled, None}
         /\ now \in 0..MaxTime /\ None \notin Rendering /\ Garbled \notin Rendering
<1>1. route[q] \in Route /\ route[q] # None
  BY DEF FileInv, UnderWay, TypeOK
<1>2. MyKey(q) \in Uri
  BY <1>1 DEF Uri, MyKey
<1> QED
  BY <1>1, <1>2, PageCacheAssumption, FileCacheAssumption DEF FileInv, TypeOK

\* The part of FileInv that is not about expiry times.
DiskInv ==
  /\ TypeOK /\ UnderWay
  /\ \A q \in Request : pc[q] \in {"truncate", "fill", "expiry"} =>
       got[q] \in renderings /\ got[q].route = route[q]
  /\ \A k \in Uri : file[k] \in Rendering => file[k] \in renderings /\ Key(file[k].route) = k

LEMMA FileNextDisk == FileInv /\ Next => DiskInv'
<1> SUFFICES ASSUME FileInv, Next PROVE DiskInv'
  OBVIOUS
<1> USE PageCacheAssumption, FileCacheAssumption
    DEF DiskInv, FileInv, UnderWay, TypeOK, Rendering, Version, env, disk, Goto, Hold, Steps
<1>1. CASE Environment
  BY <1>1 DEF Environment
<1>2. CASE Restart
  BY <1>2 DEF Restart
<1>3. ASSUME NEW q \in Request, NEW rt \in Route, Ask(q, rt) PROVE DiskInv'
  BY <1>3 DEF Ask
<1>4. ASSUME NEW q \in Request, Lookup(q) PROVE DiskInv'
  BY <1>4, FileRequest DEF Lookup
<1>5. ASSUME NEW q \in Request, Evict(q) PROVE DiskInv'
  <2>1. CASE pc[q] = "drop"
    BY <1>5, <2>1, FileRequest DEF Evict, EvictStep, ForgetExpiry
  <2>2. CASE pc[q] = "remove"
    <3>1. CASE UNCHANGED <<file, writing>>
      <4>1. excused' \subseteq Uri
        BY <1>5, <2>2, <3>1, FileRequest DEF Evict, EvictStep, RemoveFile
      <4> QED
        BY <1>5, <2>2, <3>1, <4>1, FileRequest DEF Evict, EvictStep, RemoveFile
    <3>2. CASE ~ UNCHANGED <<file, writing>>
      <4>1. /\ file' = [file EXCEPT ![MyKey(q)] = None]
            /\ writing' = [p \in Request |->
                             IF p \in OtherWriters(q) THEN "unlinked" ELSE writing[p]]
            /\ pc' = [pc EXCEPT ![q] = "render"]
            /\ UNCHANGED <<now, content, asked, excused, route, renderings, got, ttlMap>>
        BY <1>5, <2>2, <3>2 DEF Evict, EvictStep, RemoveFile
      <4> QED
        BY <2>2, <4>1, FileRequest DEF OtherWriters
    <3> QED
      BY <3>1, <3>2
  <2> QED
    BY <1>5, <2>1, <2>2 DEF Evict
<1>6. ASSUME NEW q \in Request, Read(q) PROVE DiskInv'
  BY <1>6, FileRequest DEF Read, Decode
<1>7. ASSUME NEW q \in Request, Render(q) PROVE DiskInv'
  BY <1>7, FileRequest DEF Render
<1>8. ASSUME NEW q \in Request, Panic(q) PROVE DiskInv'
  BY <1>8, FileRequest DEF Panic
<1>9. ASSUME NEW q \in Request, Set(q) PROVE DiskInv'
  BY <1>9, FileRequest DEF Set
<1>10. ASSUME NEW q \in Request, Truncate(q) PROVE DiskInv'
  BY <1>10, FileRequest DEF Truncate
<1>11. ASSUME NEW q \in Request, Fill(q) PROVE DiskInv'
  BY <1>11, FileRequest DEF Fill, OtherWriters, MyKey
<1>12. ASSUME NEW q \in Request, FailFill(q) PROVE DiskInv'
  BY <1>12, FileRequest DEF FailFill
<1>13. ASSUME NEW q \in Request, Expiry(q) PROVE DiskInv'
  BY <1>13, FileRequest DEF Expiry
<1>14. ASSUME NEW q \in Request, Reply(q) PROVE DiskInv'
  BY <1>14, FileRequest DEF Reply
<1> QED
  BY <1>1, <1>2, <1>3, <1>4, <1>5, <1>6, <1>7, <1>8, <1>9, <1>10, <1>11, <1>12, <1>13, <1>14
     DEF Next, Get, Put

-----------------------------------------------------------------------------
(***************************************************************************)
(* The file store: expiry times.                                           *)
(***************************************************************************)

\* Whoever sees to the expiry of k, and is not the request that steps, still does.
LEMMA OthersSee ==
  ASSUME NEW k, NEW p \in Request,
         route[p] \in Route, MyKey(p) = k, SeesToExpiry(p),
         pc'[p] = pc[p], route'[p] = route[p]
  PROVE  route'[p] \in Route /\ MyKey(p)' = k /\ SeesToExpiry(p)'
  BY DEF MyKey, SeesToExpiry

LEMMA FileNextExpiry == FileInv /\ Next => ExpiryInv'
<1> SUFFICES ASSUME FileInv, Next, NEW k \in Uri, k \notin excused',
                    file'[k] \in Rendering, file'[k].route.ttl > 0
             PROVE  \/ ttlMap'[k] # None
                    \/ \E p \in Request : route'[p] \in Route /\ MyKey(p)' = k /\ SeesToExpiry(p)'
  BY DEF ExpiryInv, MyKey, SeesToExpiry
<1> DEFINE Sees(p) == route[p] \in Route /\ MyKey(p) = k /\ SeesToExpiry(p)
           Goal == \/ ttlMap'[k] # None
                   \/ \E p \in Request : route'[p] \in Route /\ MyKey(p)' = k /\ SeesToExpiry(p)'
<1> SUFFICES Goal
  OBVIOUS
<1>0. /\ TypeOK /\ PageCacheAssumption /\ FileCacheAssumption
      /\ \A q \in Request : pc[q] = "idle" <=> route[q] = None
  BY PageCacheAssumption, FileCacheAssumption DEF FileInv, UnderWay
<1>1. k \notin excused /\ file[k] \in Rendering /\ file[k].route.ttl > 0
        => ttlMap[k] # None \/ \E p \in Request : Sees(p)
  BY DEF FileInv, ExpiryInv
\* A step of q that writes nothing and is not one that sees to the expiry.
<1>2. ASSUME NEW q \in Request, UNCHANGED <<file, ttlMap, excused>>, ~ Sees(q),
             \A p \in Request \ {q} : pc'[p] = pc[p] /\ route'[p] = route[p]
      PROVE  Goal
  BY <1>1, <1>2, OthersSee
<1>3. CASE Environment
  <2>1. UNCHANGED <<file, ttlMap, excused, pc, route>>
    BY <1>3 DEF Environment, disk
  <2> QED
    BY <1>1, <2>1 DEF MyKey, SeesToExpiry
<1>4. CASE Restart
  BY <1>4 DEF Restart
<1>5. ASSUME NEW q \in Request, \E rt \in Route : Ask(q, rt) PROVE Goal
  BY <1>0, <1>2, <1>5 DEF Ask, Goto, disk, SeesToExpiry, TypeOK
<1>6. ASSUME NEW q \in Request,
             Lookup(q) \/ Read(q) \/ Render(q) \/ Panic(q) \/ Set(q) \/ Reply(q)
      PROVE  Goal
  BY <1>0, <1>2, <1>6
     DEF Lookup, Read, Render, Panic, Set, Reply, Goto, disk, env, SeesToExpiry, TypeOK
<1>7. ASSUME NEW q \in Request, Evict(q) PROVE Goal
  <2>1. /\ route' = route /\ excused \subseteq excused' /\ route[q] \in Route
        /\ \A p \in Request \ {q} : pc'[p] = pc[p]
    <3>1. excused \subseteq excused'
      BY <1>0, <1>7 DEF Evict, EvictStep, ForgetExpiry, RemoveFile
    <3> QED
      BY <1>0, <1>7, <3>1, FileRequest DEF Evict, Goto, TypeOK
  <2>2. CASE pc[q] = "drop" /\ MyKey(q) = k
    <3>1. pc'[q] = "remove"
      BY <1>0, <1>7, <2>2 DEF Evict, Goto, TypeOK
    <3> QED
      BY <2>1, <2>2, <3>1 DEF MyKey, SeesToExpiry
  <2>3. CASE pc[q] = "drop" /\ MyKey(q) # k
    <3>1. file' = file /\ ttlMap'[k] = ttlMap[k]
      BY <1>0, <1>7, <2>3, FileRequest DEF Evict, EvictStep, ForgetExpiry, TypeOK
    <3> QED
      BY <1>1, <2>1, <2>3, <3>1, OthersSee
  <2>4. CASE pc[q] = "remove" /\ MyKey(q) = k
    <3>1. file'[k] = None
      BY <1>0, <1>7, <2>4 DEF Evict, EvictStep, RemoveFile, TypeOK
    <3> QED
      BY <1>0, <3>1 DEF PageCacheAssumption
  <2>5. CASE pc[q] = "remove" /\ MyKey(q) # k
    <3>1. file'[k] = file[k] /\ ttlMap' = ttlMap
      BY <1>0, <1>7, <2>5, FileRequest DEF Evict, EvictStep, RemoveFile, TypeOK
    <3> QED
      BY <1>1, <2>1, <2>5, <3>1, OthersSee
  <2> QED
    BY <1>7, <2>2, <2>3, <2>4, <2>5 DEF Evict
<1>8. ASSUME NEW q \in Request, Truncate(q) \/ FailFill(q) PROVE Goal
  <2>1. /\ UNCHANGED <<ttlMap, route, excused>> /\ pc[q] \in {"truncate", "fill"}
        /\ \A p \in Request \ {q} : pc'[p] = pc[p]
        /\ file' = file \/ file' = [file EXCEPT ![MyKey(q)] = Garbled]
    BY <1>0, <1>8 DEF Truncate, FailFill, Goto, env, TypeOK
  <2>2. file'[k] = file[k]
    BY <1>0, <2>1 DEF TypeOK, FileCacheAssumption
  <2>3. ~ Sees(q)
    BY <2>1 DEF SeesToExpiry
  <2> QED
    BY <1>1, <2>1, <2>2, <2>3, OthersSee
<1>9. ASSUME NEW q \in Request, Fill(q) PROVE Goal
  <2>1. /\ UNCHANGED <<ttlMap, route, excused>> /\ pc[q] = "fill" /\ pc'[q] = "expiry"
        /\ \A p \in Request \ {q} : pc'[p] = pc[p]
        /\ route[q] \in Route /\ got[q].route = route[q] /\ MyKey(q) \in Uri
    BY <1>0, <1>9, FileRequest DEF Fill, Goto, env, TypeOK, FileInv
  <2>2. CASE file'[k] = file[k]
    <3>1. ~ Sees(q)
      BY <2>1 DEF SeesToExpiry
    <3> QED
      BY <1>1, <2>1, <2>2, <3>1, OthersSee
  <2>3. CASE file'[k] # file[k]
    <3>1. MyKey(q) = k /\ file'[k] \in {got[q], Garbled}
      BY <1>0, <1>9, <2>1, <2>3 DEF Fill, TypeOK
    <3>2. route[q].ttl > 0
      BY <1>0, <2>1, <3>1 DEF FileCacheAssumption
    <3> QED
      BY <2>1, <3>1, <3>2 DEF MyKey, SeesToExpiry
  <2> QED
    BY <2>2, <2>3
<1>10. ASSUME NEW q \in Request, Expiry(q) PROVE Goal
  <2>1. /\ UNCHANGED <<file, route>> /\ pc[q] = "expiry" /\ now \in Nat
        /\ \A p \in Request \ {q} : pc'[p] = pc[p]
        /\ route[q] \in Route /\ route[q].ttl \in Nat /\ MyKey(q) \in Uri
    BY <1>0, <1>10, FileRequest DEF Expiry, Goto, env, TypeOK, PageCacheAssumption
  <2>2. CASE MyKey(q) = k /\ route[q].ttl > 0
    <3>1. ttlMap'[k] = now + route[q].ttl
      BY <1>0, <1>10, <2>1, <2>2 DEF Expiry, TypeOK
    <3>2. now + route[q].ttl \in Nat
      BY <2>1
    <3> QED
      BY <1>0, <3>1, <3>2 DEF FileCacheAssumption
  <2>3. CASE ~ (MyKey(q) = k /\ route[q].ttl > 0)
    <3>1. ttlMap'[k] = ttlMap[k] /\ k \notin excused /\ ~ Sees(q)
      BY <1>0, <1>10, <2>1, <2>3 DEF Expiry, TypeOK, SeesToExpiry
    <3> QED
      BY <1>1, <2>1, <3>1, OthersSee
  <2> QED
    BY <2>2, <2>3
<1> QED
  BY <1>3, <1>4, <1>5, <1>6, <1>7, <1>8, <1>9, <1>10 DEF Next, Get, Put

LEMMA FileNext == FileInv /\ Next => FileInv'
  BY FileNextDisk, FileNextExpiry DEF FileInv, DiskInv

-----------------------------------------------------------------------------
(***************************************************************************)
(* The file store keeps the promise, but for the time to live, when a      *)
(* damaged file fails to decode (gzip).                                    *)
(***************************************************************************)
LEMMA FileImplements ==
  ASSUME Compressed = TRUE
  PROVE  FileInv /\ [Next]_vars => [Promise!Next]_(Promise!vars)
<1> SUFFICES ASSUME FileInv, [Next]_vars PROVE [Promise!Next]_(Promise!vars)
  OBVIOUS
<1> DEFINE Done == {"truncate", "fill", "expiry", "reply"}
           answer == [q \in Request |-> IF pc[q] \in Done THEN got[q] ELSE None]
           Stutter == UNCHANGED <<now, content, asked, route, renderings>> /\ answer' = answer
<1>0. /\ pc \in [Request -> Steps] /\ got \in [Request -> Rendering \cup {Garbled, None}]
      /\ \A q \in Request : answer[q] = IF pc[q] \in Done THEN got[q] ELSE None
  BY DEF FileInv, TypeOK
<1>1. CASE Environment
  <2>1. answer' = answer
    BY <1>1 DEF Environment
  <2>2. Promise!Tick \/ Promise!Publish
    BY <1>1, <2>1 DEF Environment, Promise!Tick, Promise!Publish
  <2> QED
    BY <2>2 DEF Promise!Next
<1>2. CASE Restart
  <2>1. answer' = [p \in Request |-> IF p \in Request THEN None ELSE answer[p]]
    BY <1>2 DEF Restart
  <2>2. Promise!Finish(Request)
    BY <1>2, <2>1 DEF Restart, Promise!Finish
  <2>3. \E Q \in SUBSET Request : Promise!Finish(Q)
    BY <2>2
  <2> QED
    BY <2>3 DEF Promise!Next
<1>3. ASSUME NEW q \in Request, NEW rt \in Route, Ask(q, rt) PROVE Promise!Next
  <2>1. route[q] = None
    BY <1>3 DEF FileInv, UnderWay, Ask
  <2>2. answer' = answer
    BY <1>0, <1>3 DEF Ask, Goto
  <2>3. Promise!Ask(q, rt)
    BY <1>3, <2>1, <2>2 DEF Ask, Promise!Ask
  <2> QED
    BY <2>3 DEF Promise!Next
<1>4. ASSUME NEW q \in Request,
             \/ Lookup(q) \/ Evict(q) \/ Render(q)
             \/ Truncate(q) \/ Fill(q) \/ FailFill(q) \/ Expiry(q)
      PROVE  Stutter
  BY <1>0, <1>4
     DEF Lookup, Evict, Render, Truncate, Fill, FailFill, Expiry, Goto, Hold, env
<1>5. ASSUME NEW q \in Request, Read(q) PROVE Promise!Next \/ Stutter
  <2> DEFINE e == file[MyKey(q)]
  <2>1. /\ route[q] # None /\ answer[q] = None /\ MyKey(q) \in Uri
        /\ e \in Rendering \cup {Garbled, None} /\ Garbled # None /\ None \notin Rendering
    BY <1>0, <1>5, FileRequest, FileCacheAssumption DEF Read
  <2>2. CASE e \in Rendering
    <3>1. Decode(e) = e /\ e # None
      BY <2>1, <2>2, FileCacheAssumption DEF Decode
    <3>2. e \in renderings /\ Key(e.route) = Key(route[q])
      BY <2>1, <2>2 DEF FileInv, MyKey
    <3>3. answer' = [answer EXCEPT ![q] = e]
      BY <1>0, <1>5, <3>1 DEF Read, Goto, Hold
    <3> HIDE DEF e
    <3>4. Promise!Reuse(q)
      BY <1>5, <2>1, <3>2, <3>3
         DEF Read, env, Promise!Reuse, Promise!Pending, Promise!Answer, Promise!Key, Key
    <3> QED
      BY <3>4 DEF Promise!Next
  <2>3. CASE e \in {Garbled, None}
    <3>1. Decode(e) = None
      BY <2>1, <2>3 DEF Decode
    <3> QED
      BY <1>0, <1>5, <3>1 DEF Read, Goto, Hold, env
  <2> QED
    BY <2>1, <2>2, <2>3
<1>6. ASSUME NEW q \in Request, Set(q) PROVE Promise!Next
  <2> DEFINE e == [route |-> route[q], version |-> got[q].version, at |-> now]
  <2>1. /\ route[q] # None /\ answer[q] = None /\ got[q] \in Rendering /\ got[q].route = route[q]
        /\ got[q].version \in asked[q]..content \cup {Cut}
    BY <1>0, <1>6, FileRequest DEF Set, FileInv, UnderWay
  <2>2. [got[q] EXCEPT !.at = now] = e
    BY <2>1 DEF Rendering
  <2> HIDE DEF e
  <2>3. got' = [got EXCEPT ![q] = e] /\ renderings' = renderings \cup {e}
    BY <1>6, <2>2 DEF Set, Hold
  <2>4. answer' = [answer EXCEPT ![q] = e]
    BY <1>0, <1>6, <2>3 DEF Set, Goto
  <2>5. Promise!Render(q)
    BY <1>6, <2>1, <2>3, <2>4
       DEF Set, env, Promise!Render, Promise!Pending, Promise!Answer, e
  <2> QED
    BY <2>5 DEF Promise!Next
<1>7. ASSUME NEW q \in Request, Panic(q) \/ Reply(q) PROVE Promise!Next
  <2>1. /\ route' = [p \in Request |-> IF p \in {q} THEN None ELSE route[p]]
        /\ asked' = [p \in Request |-> IF p \in {q} THEN 0 ELSE asked[p]]
        /\ UNCHANGED <<now, content, renderings>>
    BY <1>7 DEF Panic, Reply, FileInv, TypeOK
  <2>2. answer' = [p \in Request |-> IF p \in {q} THEN None ELSE answer[p]]
    BY <1>0, <1>7 DEF Panic, Reply, Goto, Hold
  <2>3. Promise!Finish({q})
    BY <2>1, <2>2 DEF Promise!Finish
  <2> QED
    BY <2>3 DEF Promise!Next
<1>8. CASE UNCHANGED vars
  BY <1>8 DEF vars, Promise!vars
<1>9. Stutter => UNCHANGED Promise!vars
  BY DEF Promise!vars
<1> QED
  BY <1>1, <1>2, <1>3, <1>4, <1>5, <1>6, <1>7, <1>8, <1>9 DEF Next, Get, Put

-----------------------------------------------------------------------------
(***************************************************************************)
(* Applications, and the theorems.                                         *)
(***************************************************************************)
LEMMA CacheInitInv == CacheInit => IInv
<1> SUFFICES ASSUME CacheInit PROVE app \in App /\ MemoryInv /\ FileInv
  BY DEF IInv
<1> USE PageCacheAssumption, FileCacheAssumption DEF CacheInit, Init, Memory!Init, UnderWay
<1>1. MemoryInv
  BY DEF MemoryInv, Memory!TypeOK, Memory!Steps, Memory!Uri, Uri, Memory!Key, Key
<1>2. FileInv
  <2>1. excused \subseteq Uri
    BY DEF Init
  <2>2. TypeOK
    BY <2>1 DEF TypeOK, Steps
  <2>3. \A k \in Uri : file[k] \notin Rendering
    OBVIOUS
  <2>4. ExpiryInv
    BY <2>3 DEF ExpiryInv
  <2> QED
    BY <2>2, <2>3, <2>4 DEF FileInv
<1> QED
  BY <1>1, <1>2

LEMMA CacheNextInv == IInv /\ [MemoryStep \/ FileStep]_allVars => IInv'
<1> SUFFICES ASSUME IInv, [MemoryStep \/ FileStep]_allVars PROVE IInv'
  OBVIOUS
<1>1. CASE MemoryStep
  BY <1>1, MemoryNext DEF MemoryStep, IInv, InMemory, disk
<1>2. CASE FileStep
  BY <1>2, FileNext DEF FileStep, IInv, InMemory
<1>3. CASE UNCHANGED allVars
  BY <1>3 DEF allVars, vars, IInv, InMemory, MemoryInv, FileInv, Memory!TypeOK, TypeOK,
              UnderWay, ExpiryInv, MyKey, SeesToExpiry
<1> QED
  BY <1>1, <1>2, <1>3

LEMMA CacheSpecInv == CacheSpec => []IInv
  BY CacheInitInv, CacheNextInv, PTL DEF CacheSpec

(* The handlers and their store are well typed, whichever store the        *)
(* application has (buildCacheStore, fileBasedRouting.go).                 *)
THEOREM CacheTypeCorrect == CacheSpec => []CacheTypeOK
<1>1. IInv => CacheTypeOK
  BY DEF IInv, CacheTypeOK, MemoryInv, FileInv
<1> QED
  BY CacheSpecInv, <1>1, PTL

(* As long as the process lives, no page that expires is left on disk      *)
(* without its time, although the file and the map of times are changed in *)
(* separate steps by requests that hold no lock between them (Get and Set  *)
(* of cache_files.go).                                                     *)
THEOREM NoExpiryIsForgotten == CacheSpec => []ExpiryNotForgotten
<1>1. IInv => ExpiryNotForgotten
  <2>1. CASE InMemory
    BY <2>1, PageCacheAssumption DEF IInv, MemoryInv, ExpiryNotForgotten
  <2>2. CASE ~ InMemory
    BY <2>2 DEF IInv, FileInv, ExpiryInv, SeesToExpiry, ExpiryNotForgotten
  <2> QED
    BY <2>1, <2>2
<1> QED
  BY CacheSpecInv, <1>1, PTL

(* Both stores implement PageCache's promise: every answer is a rendering  *)
(* made for the request or an earlier one of its key, and in memory one    *)
(* that has not expired; for files if the store compresses, so that a      *)
(* damaged file is a miss (GothicRoutes' handlers, cache_memory.go,        *)
(* cache_files.go).                                                        *)
THEOREM StoresKeepThePromise ==
  ASSUME Compressed = TRUE
  PROVE  CacheSpec => KeepsPromise
<1> DEFINE Allowed == IF InMemory THEN [Memory!Promise!Next]_(Memory!Promise!vars)
                      ELSE [Promise!Next]_(Promise!vars)
           Begun == IF InMemory THEN Memory!Promise!Init ELSE Promise!Init
<1>1. CacheInit => Begun
  <2> SUFFICES ASSUME CacheInit PROVE Memory!Promise!Init /\ Promise!Init
    OBVIOUS
  <2>1. Memory!Promise!Init
    BY DEF CacheInit, Memory!Init, Memory!Promise!Init
  <2>2. Promise!Init
    BY DEF CacheInit, Init, Promise!Init
  <2> QED
    BY <2>1, <2>2
<1>2. IInv /\ [MemoryStep \/ FileStep]_allVars => [Allowed]_allVars
  <2> SUFFICES ASSUME IInv, MemoryStep \/ FileStep PROVE Allowed
    OBVIOUS
  <2>1. CASE MemoryStep
    BY <2>1, MemoryImplements DEF MemoryStep, IInv
  <2>2. CASE FileStep
    BY <2>2, FileImplements DEF FileStep, IInv
  <2> QED
    BY <2>1, <2>2
<1> QED
  BY CacheSpecInv, <1>1, <1>2, PTL DEF CacheSpec, KeepsPromise

=============================================================================
