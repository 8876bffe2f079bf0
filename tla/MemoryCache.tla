----------------------------- MODULE MemoryCache -----------------------------
(***************************************************************************)
(* Cached routes over the in-memory store.  The handlers of one process    *)
(* share the map: each request is a goroutine that looks its key up under  *)
(* the read lock, and on a miss renders and writes under the write lock;   *)
(* between these critical sections any other request may run.              *)
(***************************************************************************)
EXTENDS CachedRoutes

VARIABLES
  now, content,
  asked, route, renderings,  \* as in PageCache: the environment and history
  pc,                        \* where each request is in its handler
  got,                       \* the entry or rendering each request holds
  entries                    \* InMemoryCacheStore.entries

vars == <<now, content, asked, route, renderings, pc, got, entries>>
env == <<now, content, asked>>

Promise == INSTANCE PageCache WITH
  Expires <- TRUE,
  answer <- [q \in Request |-> IF pc[q] \in {"store", "reply"} THEN got[q] ELSE None]

Steps == {"idle", "lookup", "check", "evict", "render", "set", "store", "reply"}

TypeOK ==
  /\ now \in 0..MaxTime /\ content \in 0..MaxVersion
  /\ asked \in [Request -> 0..MaxVersion]
  /\ route \in [Request -> Route \cup {None}]
  /\ renderings \in SUBSET Rendering
  /\ pc \in [Request -> Steps]
  /\ got \in [Request -> Rendering \cup {None}]
  /\ entries \in [Uri -> Rendering \cup {None}]
  /\ \A q \in Request : pc[q] \in {"check", "set", "store", "reply"} <=> got[q] # None

Init ==
  /\ now = 0 /\ content = 0
  /\ asked = [q \in Request |-> 0]
  /\ route = [q \in Request |-> None]
  /\ renderings = {}
  /\ pc = [q \in Request |-> "idle"]
  /\ got = [q \in Request |-> None]
  /\ entries = [k \in Uri |-> None]

Goto(q, step) == pc' = [pc EXCEPT ![q] = step]
Hold(q, e) == got' = [got EXCEPT ![q] = e]

\* A request comes in; STATIC and ISR handlers start alike.
Ask(q, rt) ==
  /\ pc[q] = "idle" /\ Goto(q, "lookup")
  /\ route' = [route EXCEPT ![q] = rt]
  /\ asked' = [asked EXCEPT ![q] = content]
  /\ UNCHANGED <<now, content, renderings, got, entries>>

\* Get, under the read lock.
Lookup_Unchecked(q) ==
  /\ pc[q] = "lookup"
  /\ Hold(q, entries[Key(route[q])]) /\ Goto(q, "check")
  /\ UNCHANGED <<env, route, renderings, entries>>
Lookup(q) ==
  /\ pc[q] = "lookup"
  /\ LET e == entries[Key(route[q])] IN
       Hold(q, e) /\ Goto(q, IF e = None THEN "render" ELSE "check")
  /\ UNCHANGED <<env, route, renderings, entries>>

\* Get, after the lock: is the entry found past its time?
Expired_Never(e) == FALSE
Expired(e) == PastLife(e, now)
Check(q) ==
  /\ pc[q] = "check"
  /\ IF Expired(got[q]) THEN Hold(q, None) /\ Goto(q, "evict")
     ELSE Goto(q, "reply") /\ UNCHANGED got
  /\ UNCHANGED <<env, route, renderings, entries>>

\* Get, under the write lock: delete whatever the key holds by now.
Evict(q) ==
  /\ pc[q] = "evict" /\ Goto(q, "render")
  /\ entries' = [entries EXCEPT ![Key(route[q])] = None]
  /\ UNCHANGED <<env, route, renderings, got>>

\* A miss: run the middleware and render to a buffer.  The render error is
\* dropped, so a client that is gone leaves a page cut short.
Render(q) ==
  /\ pc[q] = "render" /\ Goto(q, "set")
  /\ \E v \in {content, Cut} : Hold(q, [route |-> route[q], version |-> v, at |-> now])
  /\ UNCHANGED <<env, route, renderings, entries>>

\* The middleware or the component panics: net/http recovers, and the request ends.
Panic(q) ==
  /\ pc[q] = "render" /\ Goto(q, "idle")
  /\ route' = [route EXCEPT ![q] = None]
  /\ asked' = [asked EXCEPT ![q] = 0]
  /\ UNCHANGED <<now, content, renderings, got, entries>>

\* Set, before the lock: the time to live starts.
Stamp(e) == [e EXCEPT !.at = now]
Set(q) ==
  /\ pc[q] = "set" /\ Goto(q, "store")
  /\ Hold(q, Stamp(got[q]))
  /\ renderings' = renderings \cup {Stamp(got[q])}
  /\ UNCHANGED <<env, route, entries>>

\* Set, under the write lock.
Store(q) ==
  /\ pc[q] = "store" /\ Goto(q, "reply")
  /\ entries' = [entries EXCEPT ![Key(route[q])] = got[q]]
  /\ UNCHANGED <<env, route, renderings, got>>

Reply(q) ==
  /\ pc[q] = "reply" /\ Goto(q, "idle")
  /\ Hold(q, None)
  /\ route' = [route EXCEPT ![q] = None]
  /\ asked' = [asked EXCEPT ![q] = 0]
  /\ UNCHANGED <<now, content, renderings, entries>>

Environment ==
  /\ \/ now < MaxTime /\ now' = now + 1 /\ UNCHANGED content
     \/ content < MaxVersion /\ content' = content + 1 /\ UNCHANGED now
  /\ UNCHANGED <<asked, route, renderings, pc, got, entries>>

Handler(q) ==
  \/ \E rt \in Route : Ask(q, rt)
  \/ Lookup(q) \/ Check(q) \/ Evict(q)
  \/ Render(q) \/ Panic(q) \/ Set(q) \/ Store(q) \/ Reply(q)

Next == Environment \/ \E q \in Request : Handler(q)

Spec == Init /\ [][Next]_vars
==============================================================================
