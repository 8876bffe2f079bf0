----------------------------- MODULE MCCacheStore -----------------------------
EXTENDS CacheStore, TLC
CONSTANTS q1, q2, cut, none, garbled

TwoRequests == {q1, q2}
Static == [uri |-> "/a", method |-> "GET", ttl |-> 0]
Isr == [uri |-> "/b", method |-> "GET", ttl |-> 1]
StaticAndIsr == {Static, Isr}
A(strategy, routes, versions) ==
  [strategy |-> strategy, routes |-> routes, versions |-> versions]
Apps == {A("IN_MEMORY", StaticAndIsr, 0), A("IN_MEMORY", {Static}, 1),
         A("IN_MEMORY", {Isr}, 1), A("LOCAL_FILES", {Isr}, 0)}
Interchangeable == Permutations(Request)
==============================================================================
