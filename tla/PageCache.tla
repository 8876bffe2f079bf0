------------------------------ MODULE PageCache ------------------------------
(***************************************************************************)
(* What the cached routes (STATIC and ISR pages and API handlers, with a   *)
(* cache store) promise: a request is answered either with a rendering     *)
(* made for it, or with an earlier rendering of the same key; where the    *)
(* store Expires renderings, with one whose time to live has not run out.  *)
(***************************************************************************)
EXTENDS CachedRoutes

CONSTANT Expires  \* whether the store keeps to the time to live

VARIABLES
  now,         \* the clock
  content,     \* version of the data the pages show
  asked,       \* asked[q]: the content when request q came in
  route,       \* route[q]: what q asks for, None when there is no such request
  renderings,  \* all renderings handed to the store so far
  answer       \* answer[q]: the rendering q is answered with

vars == <<now, content, asked, route, renderings, answer>>

Init ==
  /\ now = 0 /\ content = 0
  /\ asked = [q \in Request |-> 0]
  /\ route = [q \in Request |-> None]
  /\ renderings = {}
  /\ answer = [q \in Request |-> None]

Tick ==
  /\ now < MaxTime /\ now' = now + 1
  /\ UNCHANGED <<content, asked, route, renderings, answer>>

Publish ==
  /\ content < MaxVersion /\ content' = content + 1
  /\ UNCHANGED <<now, asked, route, renderings, answer>>

Ask(q, rt) ==
  /\ route[q] = None
  /\ route' = [route EXCEPT ![q] = rt]
  /\ asked' = [asked EXCEPT ![q] = content]
  /\ UNCHANGED <<now, content, renderings, answer>>

Pending(q) == route[q] # None /\ answer[q] = None

Answer(q, e) == answer' = [answer EXCEPT ![q] = e]

\* A rendering made for q: it shows the content of a moment after q came in.
Render(q) ==
  /\ Pending(q)
  /\ \E v \in asked[q]..content \cup {Cut} :
       LET e == [route |-> route[q], version |-> v, at |-> now] IN
         renderings' = renderings \cup {e} /\ Answer(q, e)
  /\ UNCHANGED <<now, content, asked, route>>

Reuse(q) ==
  /\ Pending(q)
  /\ \E e \in renderings :
       Key(e.route) = Key(route[q]) /\ (Expires => ~PastLife(e, now)) /\ Answer(q, e)
  /\ UNCHANGED <<now, content, asked, route, renderings>>

\* The response is written, or the server stops, whichever comes first.
Finish(Q) ==
  /\ route' = [q \in Request |-> IF q \in Q THEN None ELSE route[q]]
  /\ answer' = [q \in Request |-> IF q \in Q THEN None ELSE answer[q]]
  /\ asked' = [q \in Request |-> IF q \in Q THEN 0 ELSE asked[q]]
  /\ UNCHANGED <<now, content, renderings>>

Next ==
  \/ Tick \/ Publish
  \/ \E q \in Request : \E rt \in Route : Ask(q, rt)
  \/ \E q \in Request : Render(q) \/ Reuse(q)
  \/ \E Q \in SUBSET Request : Finish(Q)

Spec == Init /\ [][Next]_vars
==============================================================================
