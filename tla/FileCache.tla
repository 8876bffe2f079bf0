------------------------------ MODULE FileCache ------------------------------
(***************************************************************************)
(* Cached routes over the file store.  Pages are files, one per key, that  *)
(* outlive the process; their expiry times are a map in memory that does   *)
(* not.  The lock covers the map only: files are read, truncated, written  *)
(* and removed by concurrent requests with no lock at all.                 *)
(***************************************************************************)
EXTENDS CachedRoutes

CONSTANTS
  Garbled,     \* contents of a file: truncated, half written, or two pages overlaid
  Compressed,  \* CacheConfig.Compression (gzip): damaged contents fail to decode
  MayRestart   \* whether the process may be restarted

ASSUME FileCacheAssumption ==
  /\ Compressed \in BOOLEAN /\ MayRestart \in BOOLEAN
  /\ Garbled \notin Rendering \cup {None} /\ None \notin Nat

VARIABLES
  now, content,
  asked, route, renderings,  \* as in PageCache: the environment and history
  pc,                        \* where each request is in its handler
  got,                       \* the rendering (or file contents) each request holds
  file,                      \* the file of each key, None when there is none
  ttlMap,                    \* expiry time of each key, None when it has none
  writing,                   \* requests with the file of their key open for writing,
                             \* and what became of it since they truncated it
  excused                    \* history: the keys whose page may be on disk without
                             \* its expiry time: those of an earlier process, and
                             \* those whose expired file could not be removed

vars == <<now, content, asked, route, renderings, pc, got, file, ttlMap, writing, excused>>
env == <<now, content, asked, excused>>
disk == <<file, ttlMap, writing>>

Promise == INSTANCE PageCache WITH
  Expires <- FALSE,
  answer <- [q \in Request |-> IF pc[q] \in {"truncate", "fill", "expiry", "reply"}
                               THEN got[q] ELSE None]

Steps == {"idle", "lookup", "drop", "remove", "read", "render", "set",
          "truncate", "fill", "expiry", "reply"}

TypeOK ==
  /\ now \in 0..MaxTime /\ content \in 0..MaxVersion
  /\ asked \in [Request -> 0..MaxVersion]
  /\ route \in [Request -> Route \cup {None}]
  /\ renderings \in SUBSET Rendering
  /\ pc \in [Request -> Steps]
  /\ got \in [Request -> Rendering \cup {Garbled, None}]
  /\ file \in [Uri -> Rendering \cup {Garbled, None}]
  /\ ttlMap \in [Uri -> Nat \cup {None}]
  /\ writing \in [Request -> {"no", "alone", "overlaid", "unlinked"}]
  /\ excused \subseteq Uri
  /\ \A q \in Request : writing[q] # "no" => pc[q] = "fill"

Init ==
  /\ now = 0 /\ content = 0
  /\ asked = [q \in Request |-> 0]
  /\ route = [q \in Request |-> None]
  /\ renderings = {}
  /\ pc = [q \in Request |-> "idle"]
  /\ got = [q \in Request |-> None]
  /\ file = [k \in Uri |-> None]
  /\ ttlMap = [k \in Uri |-> None]
  /\ writing = [q \in Request |-> "no"]
  /\ excused = {}

Goto(q, step) == pc' = [pc EXCEPT ![q] = step]
Hold(q, e) == got' = [got EXCEPT ![q] = e]
MyKey(q) == Key(route[q])
\* The other requests that are writing the file of q's key.
OtherWriters(q) == {p \in Request \ {q} : writing[p] # "no" /\ MyKey(p) = MyKey(q)}

Ask(q, rt) ==
  /\ pc[q] = "idle" /\ Goto(q, "lookup")
  /\ route' = [route EXCEPT ![q] = rt]
  /\ asked' = [asked EXCEPT ![q] = content]
  /\ UNCHANGED <<now, content, renderings, got, disk, excused>>

-----------------------------------------------------------------------------
(***************************************************************************)
(* Get.                                                                    *)
(***************************************************************************)

\* Read the expiry time, under the read lock, and compare it with the clock.
Lookup(q) ==
  /\ pc[q] = "lookup"
  /\ LET t == ttlMap[MyKey(q)] IN Goto(q, IF t # None /\ now > t THEN "drop" ELSE "read")
  /\ UNCHANGED <<env, route, renderings, got, disk>>

\* Expired: forget the expiry time, then, a step later, remove the file.  Whoever
\* is writing it writes to a file that has no name any more.  That the file cannot
\* be removed is not noticed.
ForgetExpiry(q) ==
  /\ ttlMap' = [ttlMap EXCEPT ![MyKey(q)] = None]
  /\ UNCHANGED <<file, writing, excused>>
RemoveFile(q) ==
  /\ \/ /\ file' = [file EXCEPT ![MyKey(q)] = None]
        /\ writing' = [p \in Request |->
                         IF p \in OtherWriters(q) THEN "unlinked" ELSE writing[p]]
        /\ UNCHANGED excused
     \/ /\ file[MyKey(q)] # None
        /\ excused' = excused \cup {MyKey(q)} /\ UNCHANGED <<file, writing>>
  /\ UNCHANGED ttlMap

EvictStep_FileFirst(q) == IF pc[q] = "drop" THEN RemoveFile(q) ELSE ForgetExpiry(q)
EvictStep(q) == IF pc[q] = "drop" THEN ForgetExpiry(q) ELSE RemoveFile(q)
Evict(q) ==
  /\ pc[q] \in {"drop", "remove"}
  /\ EvictStep(q)
  /\ Goto(q, IF pc[q] = "drop" THEN "remove" ELSE "render")
  /\ UNCHANGED <<now, content, asked, route, renderings, got>>

\* What reading and decoding a file with these contents gives; None is a miss.
Decode_Trusting(e) == e
Decode(e) == IF e = Garbled /\ Compressed THEN None ELSE e

Read(q) ==
  /\ pc[q] = "read"
  /\ LET e == Decode(file[MyKey(q)]) IN
       Hold(q, e) /\ Goto(q, IF e = None THEN "render" ELSE "reply")
  /\ UNCHANGED <<env, route, renderings, disk>>

-----------------------------------------------------------------------------
(***************************************************************************)
(* A miss: the handler renders, then Set.                                  *)
(***************************************************************************)
Render(q) ==
  /\ pc[q] = "render" /\ Goto(q, "set")
  /\ \E v \in {content, Cut} : Hold(q, [route |-> route[q], version |-> v, at |-> now])
  /\ UNCHANGED <<env, route, renderings, disk>>

\* The middleware or the component panics: net/http recovers, and the request ends.
Panic(q) ==
  /\ pc[q] = "render" /\ Goto(q, "idle")
  /\ route' = [route EXCEPT ![q] = None]
  /\ asked' = [asked EXCEPT ![q] = 0]
  /\ UNCHANGED <<now, content, renderings, got, disk, excused>>

Set(q) ==
  /\ pc[q] = "set" /\ Goto(q, "truncate")
  /\ Hold(q, [got[q] EXCEPT !.at = now])
  /\ renderings' = renderings \cup {[got[q] EXCEPT !.at = now]}
  /\ UNCHANGED <<env, route, disk>>

\* os.WriteFile opens the file, creating or truncating it ...
Truncate(q) ==
  /\ pc[q] = "truncate" /\ Goto(q, "fill")
  /\ file' = [file EXCEPT ![MyKey(q)] = Garbled]
  /\ writing' = [writing EXCEPT ![q] = "alone"]
  /\ UNCHANGED <<env, route, renderings, got, ttlMap>>

\* ... and writes it from the start: over what another request may have written
\* since, leaving the tail of a longer page.
Fill(q) ==
  /\ pc[q] = "fill" /\ Goto(q, "expiry")
  /\ IF writing[q] = "unlinked" THEN UNCHANGED file
     ELSE \E e \in {got[q]} \cup (IF writing[q] = "overlaid" THEN {Garbled} ELSE {}) :
            file' = [file EXCEPT ![MyKey(q)] = e]
  /\ writing' = [p \in Request |->
                   IF p = q THEN "no"
                   ELSE IF p \in OtherWriters(q) /\ writing[p] = "alone" /\ writing[q] # "unlinked"
                   THEN "overlaid" ELSE writing[p]]
  /\ UNCHANGED <<env, route, renderings, got, ttlMap>>

\* The write fails half way (a full disk): Set returns at once.
FailFill_LeavesOpen(q) ==
  /\ pc[q] = "fill" /\ Goto(q, "reply")
  /\ file' = [file EXCEPT ![MyKey(q)] = Garbled]
  /\ UNCHANGED <<env, route, renderings, got, ttlMap, writing>>
FailFill(q) ==
  /\ pc[q] = "fill" /\ Goto(q, "reply")
  /\ file' = IF writing[q] = "unlinked" THEN file ELSE [file EXCEPT ![MyKey(q)] = Garbled]
  /\ writing' = [writing EXCEPT ![q] = "no"]
  /\ UNCHANGED <<env, route, renderings, got, ttlMap>>

\* The expiry time is set last, and left alone by a page that has none.
Expiry(q) ==
  /\ pc[q] = "expiry" /\ Goto(q, "reply")
  /\ IF route[q].ttl > 0
     THEN /\ ttlMap' = [ttlMap EXCEPT ![MyKey(q)] = now + route[q].ttl]
          /\ excused' = excused \ {MyKey(q)}
     ELSE UNCHANGED <<ttlMap, excused>>
  /\ UNCHANGED <<now, content, asked, route, renderings, got, file, writing>>

Reply(q) ==
  /\ pc[q] = "reply" /\ Goto(q, "idle")
  /\ Hold(q, None)
  /\ route' = [route EXCEPT ![q] = None]
  /\ asked' = [asked EXCEPT ![q] = 0]
  /\ UNCHANGED <<now, content, renderings, disk, excused>>

\* The process stops and starts again in production mode: the files stay, as
\* they are; requests and expiry times are gone.
Restart ==
  /\ MayRestart /\ excused' = Uri
  /\ pc' = [q \in Request |-> "idle"]
  /\ got' = [q \in Request |-> None]
  /\ route' = [q \in Request |-> None]
  /\ asked' = [q \in Request |-> 0]
  /\ ttlMap' = [k \in Uri |-> None]
  /\ writing' = [q \in Request |-> "no"]
  /\ UNCHANGED <<now, content, renderings, file>>

Environment ==
  /\ \/ now < MaxTime /\ now' = now + 1 /\ UNCHANGED content
     \/ content < MaxVersion /\ content' = content + 1 /\ UNCHANGED now
  /\ UNCHANGED <<asked, excused, route, renderings, pc, got, disk>>

Get(q) == Lookup(q) \/ Evict(q) \/ Read(q)
Put(q) == Render(q) \/ Panic(q) \/ Set(q) \/ Truncate(q) \/ Fill(q) \/ FailFill(q) \/ Expiry(q)

Next ==
  \/ Environment \/ Restart
  \/ \E q \in Request : (\E rt \in Route : Ask(q, rt)) \/ Get(q) \/ Put(q) \/ Reply(q)

Spec == Init /\ [][Next]_vars

-----------------------------------------------------------------------------
(***************************************************************************)
(* A property.                                                             *)
(***************************************************************************)

(* An expiring page never stays behind without its expiry time, as long as *)
(* the process that stored it lives and its file can be removed: when no   *)
(* request is under way, a whole file has one, although the map entry is   *)
(* deleted before the file is removed and set after it is written, by      *)
(* requests that hold no lock in between, may fail to write, and may panic *)
(* when the file is gone.                                                  *)
ExpiryNotForgotten ==
  (\A q \in Request : pc[q] = "idle") =>
    \A k \in Uri \ excused :
      file[k] \in Rendering /\ file[k].route.ttl > 0 => ttlMap[k] # None
==============================================================================
