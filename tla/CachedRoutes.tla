---------------------------- MODULE CachedRoutes ----------------------------
(***************************************************************************)
(* What the modules about cached routes have in common: the routes, their  *)
(* cache keys, and renderings.                                             *)
(***************************************************************************)
EXTENDS Integers

CONSTANTS
  Request,     \* concurrent requests
  Route,       \* records [uri, method, ttl]; ttl = 0 is a STATIC route: no expiry
  MaxVersion,  \* bound: how often the content behind the pages changes
  MaxTime,     \* bound on the clock
  Cut,         \* version of a rendering cut short because its client disconnected
  None

\* The cache key of a request: its URI, "api:" before it for an API route (two
\* URIs here), and not its method.
Key(rt) == rt.uri
Uri == {Key(rt) : rt \in Route}
Version == 0..MaxVersion
Rendering == [route : Route, version : Version \cup {Cut}, at : 0..MaxTime]

ASSUME PageCacheAssumption ==
  /\ MaxVersion \in Nat /\ MaxTime \in Nat
  /\ \A rt \in Route : rt.ttl \in Nat
  /\ Cut \notin Version /\ None \notin Route \cup Rendering

\* A rendering with a time to live that has run out at time t.
PastLife(e, t) == e.route.ttl > 0 /\ t > e.at + e.route.ttl
=============================================================================
