---------------------------- MODULE ReactiveProofs ----------------------------
(***************************************************************************)
(* Proofs about the reactive runtime: for any observables, subscriptions   *)
(* and values, and any depth of the stack and of the batches.              *)
(***************************************************************************)
EXTENDS Reactive, WellFoundedInduction, TLAPS

-----------------------------------------------------------------------------
(***************************************************************************)
(* The invariant.                                                          *)
(***************************************************************************)

\* Frames that run code run it for a subscription.
WellFramed == \A f \in Elements(stack) : f.kind \in CodeKinds => f.sub \in Subscription

\* Only what Observe has created is active: Observe never subscribes twice.
ActiveCreated == \A s \in Subscription : active[s] => Created(s)

\* A run of s will still begin: s is queued in an open batch, it is ahead of a loop
\* somewhere in the stack, or its cleanup is running, after which run() calls the
\* callback in any case.
Owes(f, s) ==
  \/ f.kind \in LoopKinds /\ s \in Elements(f.rest)
  \/ f.kind = "cleanup" /\ f.sub = s
Owed(s) ==
  \/ batchDepth > 0 /\ s \in Elements(pendingSubscriptions)
  \/ \E f \in Elements(stack) : Owes(f, s)

\* A subscription whose last run began before a change of a dependency is owed one.
NothingForgotten ==
  \A s \in Subscription, o \in Observable :
    active[s] /\ o \in deps[s] => seen[s][o] = value[o] \/ Owed(s)

TypeInv == TypeOK /\ WellFramed
IInv == TypeInv /\ ActiveCreated /\ SubscribedExactly /\ NothingForgotten

-----------------------------------------------------------------------------
(***************************************************************************)
(* Sequences.                                                              *)
(***************************************************************************)
LEMMA Push ==
  ASSUME NEW S, NEW x \in S, NEW q \in Seq(S)
  PROVE  /\ <<x>> \o q \in Seq(S) /\ Len(<<x>> \o q) = Len(q) + 1
         /\ <<x>> \o q # <<>> /\ Head(<<x>> \o q) = x /\ Tail(<<x>> \o q) = q
         /\ Elements(<<x>> \o q) = {x} \cup Elements(q)
<1> DEFINE p == <<x>> \o q
<1>1. p \in Seq(S) /\ Len(p) = Len(q) + 1 /\ p # <<>> /\ Head(p) = x /\ Tail(p) = q
  OBVIOUS
<1>2. /\ p[1] = x /\ \A i \in 1 .. Len(q) : p[i + 1] = q[i]
      /\ DOMAIN p = 1 .. Len(p) /\ DOMAIN q = 1 .. Len(q) /\ Len(q) \in Nat
  OBVIOUS
<1> HIDE DEF p
<1>3. Elements(p) \subseteq {x} \cup Elements(q)
  <2> SUFFICES ASSUME NEW i \in 1 .. Len(p), i # 1 PROVE p[i] \in Elements(q)
    BY <1>2 DEF Elements
  <2>1. i - 1 \in 1 .. Len(q) /\ p[i] = q[i - 1]
    BY <1>1, <1>2
  <2> QED
    BY <1>2, <2>1 DEF Elements
<1>4. {x} \cup Elements(q) \subseteq Elements(p)
  <2>1. x \in Elements(p)
    BY <1>1, <1>2 DEF Elements
  <2>2. ASSUME NEW i \in 1 .. Len(q) PROVE q[i] \in Elements(p)
    <3>1. i + 1 \in 1 .. Len(p) /\ q[i] = p[i + 1]
      BY <1>1, <1>2
    <3> QED
      BY <1>2, <3>1 DEF Elements
  <2> QED
    BY <1>2, <2>1, <2>2 DEF Elements
<1> QED
  BY <1>1, <1>3, <1>4 DEF p

LEMMA Pop ==
  ASSUME NEW S, NEW q \in Seq(S), q # <<>>
  PROVE  /\ Head(q) \in S /\ Tail(q) \in Seq(S) /\ Len(Tail(q)) = Len(q) - 1
         /\ Elements(q) = {Head(q)} \cup Elements(Tail(q))
<1>1. Head(q) \in S /\ Tail(q) \in Seq(S) /\ Len(Tail(q)) = Len(q) - 1
  OBVIOUS
<1> DEFINE p == <<Head(q)>> \o Tail(q)
<1>2. p = q
  OBVIOUS
<1>3. Elements(p) = {Head(q)} \cup Elements(Tail(q))
  BY <1>1, Push
<1> HIDE DEF p
<1>4. Elements(q) = {Head(q)} \cup Elements(Tail(q))
  BY <1>2, <1>3
<1> QED
  BY <1>1, <1>4

LEMMA Appended ==
  ASSUME NEW S, NEW x \in S, NEW q \in Seq(S)
  PROVE  /\ Append(q, x) \in Seq(S)
         /\ Elements(Append(q, x)) = Elements(q) \cup {x}
<1> DEFINE p == Append(q, x)
<1>1. /\ p \in Seq(S) /\ Len(p) = Len(q) + 1 /\ p[Len(q) + 1] = x
      /\ \A i \in 1 .. Len(q) : p[i] = q[i]
  OBVIOUS
<1>2. DOMAIN p = 1 .. Len(q) + 1 /\ DOMAIN q = 1 .. Len(q) /\ Len(q) \in Nat
  BY <1>1
<1> HIDE DEF p
<1>3. Elements(p) = Elements(q) \cup {x}
  <2>1. ASSUME NEW i \in 1 .. Len(q) + 1 PROVE p[i] \in Elements(q) \cup {x}
    <3>1. CASE i = Len(q) + 1
      BY <1>1, <3>1
    <3>2. CASE i # Len(q) + 1
      <4>1. i \in 1 .. Len(q)
        BY <1>2, <3>2
      <4> QED
        BY <1>1, <1>2, <4>1 DEF Elements
    <3> QED
      BY <3>1, <3>2
  <2>2. ASSUME NEW i \in 1 .. Len(q) PROVE q[i] \in Elements(p)
    <3>1. i \in 1 .. Len(q) + 1
      BY <1>2
    <3> QED
      BY <1>1, <1>2, <3>1 DEF Elements
  <2>3. x \in Elements(p)
    <3>1. Len(q) + 1 \in 1 .. Len(q) + 1
      BY <1>2
    <3> QED
      BY <1>1, <1>2, <3>1 DEF Elements
  <2> QED
    BY <1>2, <2>1, <2>2, <2>3 DEF Elements
<1> QED
  BY <1>1, <1>3 DEF p

\* Each entry of a list in which no entry occurs twice.
Distinct(q) == \A i, j \in DOMAIN q : q[i] = q[j] => i = j

LEMMA AppendDistinct ==
  ASSUME NEW S, NEW q \in Seq(S), NEW x \in S, x \notin Elements(q), Distinct(q)
  PROVE  Distinct(Append(q, x))
<1> DEFINE p == Append(q, x)
<1>1. /\ DOMAIN p = 1 .. Len(q) + 1 /\ DOMAIN q = 1 .. Len(q) /\ Len(q) \in Nat
      /\ p[Len(q) + 1] = x /\ \A i \in 1 .. Len(q) : p[i] = q[i]
  OBVIOUS
<1> HIDE DEF p
<1>2. ASSUME NEW i \in 1 .. Len(q) + 1, NEW j \in 1 .. Len(q) + 1, p[i] = p[j] PROVE i = j
  <2>1. \A k \in 1 .. Len(q) : p[k] # x
    BY <1>1 DEF Elements
  <2>2. CASE i = Len(q) + 1 \/ j = Len(q) + 1
    <3>1. \A k \in 1 .. Len(q) + 1 : k # Len(q) + 1 => k \in 1 .. Len(q)
      BY <1>1
    <3> QED
      BY <1>1, <1>2, <2>1, <2>2, <3>1
  <2>3. CASE i # Len(q) + 1 /\ j # Len(q) + 1
    <3>1. i \in 1 .. Len(q) /\ j \in 1 .. Len(q)
      BY <1>1, <2>3
    <3> QED
      BY <1>1, <1>2, <3>1 DEF Distinct
  <2> QED
    BY <2>2, <2>3
<1> QED
  BY <1>1, <1>2 DEF Distinct, p

-----------------------------------------------------------------------------
(***************************************************************************)
(* The list of pending subscriptions.  The loop that fills it is a         *)
(* recursive function: what holds of it is shown for the least index for   *)
(* which it would not.                                                     *)
(***************************************************************************)
LEMMA Least ==
  ASSUME NEW T, T \subseteq Nat, T # {}
  PROVE  \E n \in T : \A k \in T : n <= k
<1> DEFINE R == OpToRel(<, Nat)
<1>1. \E n \in T : \A k \in T : ~ (<<k, n>> \in R)
  BY WFMin, NatLessThanWellFounded
<1>2. \A n, k \in Nat : <<k, n>> \in R <=> k < n
  BY DEF OpToRel
<1> HIDE DEF R
<1>3. PICK n \in T : \A k \in T : ~ (<<k, n>> \in R)
  BY <1>1
<1>4. ASSUME NEW k \in T PROVE n <= k
  <2>1. n \in Nat /\ k \in Nat /\ ~ (<<k, n>> \in R)
    BY <1>3
  <2>2. ~ (k < n)
    BY <1>2, <2>1
  <2> QED
    BY <2>1, <2>2
<1> QED
  BY <1>4

\* What the loop of AddAll has made of q after each of the first n subscriptions.
Added(f, q, subs, n) ==
  f = [k \in 0..n |-> IF k = 0 THEN q ELSE AddPending(f[k - 1], subs[k])]

LEMMA AddedExists ==
  ASSUME NEW q, NEW subs
  PROVE  \A n \in Nat : \E f : Added(f, q, subs, n)
<1> DEFINE T == {n \in Nat : ~ \E f : Added(f, q, subs, n)}
<1> SUFFICES ASSUME T # {} PROVE FALSE
  OBVIOUS
<1>1. PICK n \in T : \A k \in T : n <= k
  <2>1. T \subseteq Nat
    OBVIOUS
  <2> HIDE DEF T
  <2> QED
    BY <2>1, Least
<1>2. n \in Nat /\ ~ \E f : Added(f, q, subs, n)
  OBVIOUS
<1>3. CASE n = 0
  <2> DEFINE f == [k \in 0..0 |-> q]
  <2>1. \A k \in 0..0 : k = 0
    OBVIOUS
  <2>2. Added(f, q, subs, 0)
    BY <2>1 DEF Added
  <2> QED
    BY <1>2, <1>3, <2>2
<1>4. CASE n # 0
  <2>1. n - 1 \in Nat /\ n - 1 \notin T
    BY <1>1, <1>4
  <2>2. PICK g : Added(g, q, subs, n - 1)
    BY <2>1
  <2>3. g = [k \in 0..n-1 |-> IF k = 0 THEN q ELSE AddPending(g[k - 1], subs[k])]
    BY <2>2 DEF Added
  <2> DEFINE f == [k \in 0..n |-> IF k = n THEN AddPending(g[n - 1], subs[n]) ELSE g[k]]
  <2> HIDE DEF T
  <2>4. \A k \in 0..n-1 : f[k] = g[k]
    BY <1>2
  <2>5. ASSUME NEW k \in 0..n
        PROVE  f[k] = IF k = 0 THEN q ELSE AddPending(f[k - 1], subs[k])
    <3>1. CASE k = n
      <4>1. k # 0 /\ k - 1 = n - 1 /\ n - 1 \in 0..n-1
        BY <1>2, <1>4, <3>1
      <4>2. f[k] = AddPending(g[n - 1], subs[n]) /\ f[n - 1] = g[n - 1]
        BY <2>4, <3>1, <4>1
      <4> HIDE DEF f
      <4> QED
        BY <3>1, <4>1, <4>2
    <3>2. CASE k # n
      <4>1. k \in 0..n-1 /\ (k # 0 => k - 1 \in 0..n-1)
        BY <1>2, <3>2
      <4>2. f[k] = g[k] /\ (k # 0 => f[k - 1] = g[k - 1])
        BY <2>4, <4>1
      <4>3. g[k] = IF k = 0 THEN q ELSE AddPending(g[k - 1], subs[k])
        BY <2>3, <4>1
      <4> HIDE DEF f
      <4> QED
        BY <4>2, <4>3
    <3> QED
      BY <3>1, <3>2
  <2>6. f = [k \in 0..n |-> f[k]]
    OBVIOUS
  <2> HIDE DEF f
  <2>7. Added(f, q, subs, n)
    BY <2>5, <2>6 DEF Added
  <2> QED
    BY <1>2, <2>7
<1> QED
  BY <1>3, <1>4

\* The list keeps what it holds, gains every subscription, and holds nothing twice.
LEMMA AddAllAdds ==
  ASSUME NEW S, NEW q \in Seq(S), NEW subs \in Seq(S)
  PROVE  /\ AddAll(q, subs) \in Seq(S)
         /\ Elements(AddAll(q, subs)) = Elements(q) \cup Elements(subs)
         /\ Distinct(q) => Distinct(AddAll(q, subs))
<1> DEFINE N == Len(subs)
           Seen(n) == {subs[i] : i \in 1..n}
           Good(p, n) == /\ p \in Seq(S) /\ Elements(p) = Elements(q) \cup Seen(n)
                         /\ Distinct(q) => Distinct(p)
<1>1. N \in Nat /\ \A i \in 1..N : subs[i] \in S
  OBVIOUS
<1>2. PICK f : Added(f, q, subs, N) /\ AddAll(q, subs) = f[N]
  <2>1. \E f : Added(f, q, subs, N)
    BY <1>1, AddedExists
  <2> QED
    BY <2>1 DEF AddAll, Added
<1>3. \A k \in 0..N : f[k] = IF k = 0 THEN q ELSE AddPending(f[k - 1], subs[k])
  BY <1>2 DEF Added
<1>4. \A n \in 0..N : Good(f[n], n)
  <2> DEFINE T == {n \in 0..N : ~ Good(f[n], n)}
  <2> SUFFICES ASSUME T # {} PROVE FALSE
    OBVIOUS
  <2>1. PICK n \in T : \A k \in T : n <= k
    <3>1. T \subseteq Nat
      BY <1>1
    <3> HIDE DEF T
    <3> QED
      BY <3>1, Least
  <2>2. n \in 0..N /\ ~ Good(f[n], n)
    OBVIOUS
  <2>3. n # 0
    <3>1. f[0] = q
      BY <1>1, <1>3
    <3>2. Good(q, 0)
      OBVIOUS
    <3> QED
      BY <2>2, <3>1, <3>2
  <2>4. n - 1 \in 0..N /\ n - 1 \notin T
    BY <1>1, <2>1, <2>2, <2>3
  <2>5. Good(f[n - 1], n - 1)
    BY <2>4
  <2>6. f[n] = AddPending(f[n - 1], subs[n]) /\ subs[n] \in S
    BY <1>1, <1>3, <2>2, <2>3
  <2>7. Seen(n) = Seen(n - 1) \cup {subs[n]}
    <3>1. 1..n = (1..n-1) \cup {n}
      BY <1>1, <2>2, <2>3
    <3> QED
      BY <3>1
  <2> DEFINE p == f[n - 1]
  <2> HIDE DEF T, N, Seen, p
  <2>8. CASE subs[n] \in Elements(p)
    <3>1. f[n] = p
      BY <2>6, <2>8 DEF AddPending, p
    <3> QED
      BY <2>2, <2>5, <2>7, <2>8, <3>1 DEF p
  <2>9. CASE subs[n] \notin Elements(p)
    <3>1. f[n] = Append(p, subs[n])
      BY <2>6, <2>9 DEF AddPending, p
    <3>2. Good(p, n - 1)
      BY <2>5 DEF p
    <3>3. f[n] \in Seq(S) /\ Elements(f[n]) = Elements(p) \cup {subs[n]}
      BY <2>6, <3>1, <3>2, Appended
    <3>4. Distinct(q) => Distinct(f[n])
      BY <2>6, <2>9, <3>1, <3>2, AppendDistinct
    <3>5. Good(f[n], n)
      BY <2>7, <3>2, <3>3, <3>4
    <3> QED
      BY <2>2, <3>5
  <2> QED
    BY <2>8, <2>9
<1>5. Seen(N) = Elements(subs)
  BY DEF Elements
<1>6. N \in 0..N
  BY <1>1
<1>7. Good(f[N], N)
  BY <1>4, <1>6
<1> HIDE DEF N, Seen
<1> QED
  BY <1>2, <1>5, <1>7

\* removeEffect takes exactly s out, although it moves the last entry.
LEMMA RemoveEffectRemoves ==
  ASSUME NEW S, NEW es \in Seq(S), NEW s, Distinct(es)
  PROVE  /\ RemoveEffect(es, s) \in Seq(S)
         /\ Elements(RemoveEffect(es, s)) = Elements(es) \ {s}
         /\ Distinct(RemoveEffect(es, s))
<1>1. CASE s \notin Elements(es)
  BY <1>1 DEF RemoveEffect
<1>2. CASE s \in Elements(es)
  <2> DEFINE N == Len(es)
             i == CHOOSE k \in DOMAIN es : es[k] = s
             moved == [es EXCEPT ![i] = es[N]]
             r == SubSeq(moved, 1, N - 1)
  <2>1. i \in DOMAIN es /\ es[i] = s
    BY <1>2 DEF Elements
  <2>2. /\ N \in Nat /\ DOMAIN es = 1..N /\ i \in 1..N /\ N \in 1..N
        /\ \A k \in 1..N : es[k] \in S
    BY <2>1
  <2>3. RemoveEffect(es, s) = r
    BY <1>2 DEF RemoveEffect
  <2> HIDE DEF i
  <2>4. /\ moved \in Seq(S) /\ Len(moved) = N /\ DOMAIN moved = 1..N
        /\ \A k \in 1..N : moved[k] = IF k = i THEN es[N] ELSE es[k]
    BY <2>2
  <2> HIDE DEF moved
  <2>5. /\ r \in Seq(S) /\ Len(r) = N - 1 /\ DOMAIN r = 1..N-1
        /\ \A k \in 1..N-1 : r[k] = moved[k]
    BY <2>2, <2>4
  <2> HIDE DEF r, N
  <2>6. ASSUME NEW k \in 1..N-1
        PROVE  k \in 1..N /\ r[k] = IF k = i THEN es[N] ELSE es[k]
    BY <2>2, <2>4, <2>5
  <2>7. Distinct(r)
    <3> SUFFICES ASSUME NEW j \in 1..N-1, NEW k \in 1..N-1, r[j] = r[k] PROVE j = k
      BY <2>5 DEF Distinct
    <3>1. j \in 1..N /\ k \in 1..N /\ j # N /\ k # N
      BY <2>2
    <3> QED
      BY <2>2, <2>6, <3>1 DEF Distinct
  <2>8. ASSUME NEW k \in 1..N-1 PROVE r[k] \in Elements(es) \ {s}
    <3>1. k \in 1..N /\ k # N
      BY <2>2
    <3>2. CASE k = i
      <4>1. r[k] = es[N] /\ N # i
        BY <2>6, <3>1, <3>2
      <4>2. es[N] # s
        BY <2>1, <2>2, <4>1 DEF Distinct
      <4> QED
        BY <2>2, <4>1, <4>2 DEF Elements
    <3>3. CASE k # i
      <4>1. r[k] = es[k] /\ es[k] # s
        BY <2>1, <2>2, <2>6, <3>1, <3>3 DEF Distinct
      <4> QED
        BY <2>2, <3>1, <4>1 DEF Elements
    <3> QED
      BY <3>2, <3>3
  <2>9. ASSUME NEW k \in 1..N, es[k] # s PROVE es[k] \in Elements(r)
    <3>1. k # i
      BY <2>1, <2>9
    <3>2. CASE k = N
      <4>1. i \in 1..N-1
        BY <2>2, <3>1, <3>2
      <4>2. r[i] = es[k]
        BY <2>6, <3>2, <4>1
      <4> QED
        BY <2>5, <4>1, <4>2 DEF Elements
    <3>3. CASE k # N
      <4>1. k \in 1..N-1
        BY <2>2, <3>3
      <4>2. r[k] = es[k]
        BY <2>6, <3>1, <4>1
      <4> QED
        BY <2>5, <4>1, <4>2 DEF Elements
    <3> QED
      BY <3>2, <3>3
  <2>10. Elements(r) = Elements(es) \ {s}
    <3>1. Elements(r) \subseteq Elements(es) \ {s}
      BY <2>5, <2>8 DEF Elements
    <3>2. Elements(es) \ {s} \subseteq Elements(r)
      <4> SUFFICES ASSUME NEW e \in Elements(es), e # s PROVE e \in Elements(r)
        OBVIOUS
      <4>1. PICK k \in 1..N : es[k] = e
        BY <2>2 DEF Elements
      <4> QED
        BY <2>9, <4>1
    <3> QED
      BY <3>1, <3>2
  <2> QED
    BY <2>3, <2>5, <2>7, <2>10
<1> QED
  BY <1>1, <1>2

-----------------------------------------------------------------------------
(***************************************************************************)
(* Types, and the frames.                                                  *)
(***************************************************************************)
LEMMA EffectsTyped ==
  ASSUME TypeOK, SubscribedExactly, NEW o \in Observable
  PROVE  /\ effects[o] \in Seq(Subscription) /\ Distinct(effects[o])
         /\ Elements(effects[o]) = {s \in Subscription : active[s] /\ o \in deps[s]}
  BY DEF TypeOK, SubscribedExactly, Distinct

LEMMA FramesTyped ==
  /\ \A k \in LoopKinds, subs \in Seq(Subscription) :
       Loop(k, subs) \in Frame /\ Loop(k, subs).kind \notin CodeKinds
  /\ \A k \in CodeKinds, s \in Subscription :
       Code(k, s) \in Frame /\ Code(k, s).sub \in Subscription
<1>1. <<>> \in Seq(Subscription)
  OBVIOUS
<1> QED
  BY <1>1 DEF Frame, Loop, Code, LoopKinds, CodeKinds

\* A call pushes a frame.
LEMMA PushFrame ==
  ASSUME TypeInv, NEW f \in Frame, f.kind \in CodeKinds => f.sub \in Subscription,
         stack' = <<f>> \o stack
  PROVE  /\ stack' \in Seq(Frame) /\ WellFramed'
         /\ Elements(stack') = {f} \cup Elements(stack)
<1>1. stack' \in Seq(Frame) /\ Elements(stack') = {f} \cup Elements(stack)
  BY Push DEF TypeInv, TypeOK
<1> QED
  BY <1>1 DEF TypeInv, WellFramed

\* A callback or a loop returns.
LEMMA PopFrame ==
  ASSUME TypeInv, stack # <<>>, stack' = Tail(stack)
  PROVE  /\ stack' \in Seq(Frame) /\ WellFramed' /\ Head(stack) \in Frame
         /\ Elements(stack) = {Head(stack)} \cup Elements(stack')
<1>1. /\ stack' \in Seq(Frame) /\ Head(stack) \in Frame
      /\ Elements(stack) = {Head(stack)} \cup Elements(stack')
  BY Pop DEF TypeInv, TypeOK
<1> QED
  BY <1>1 DEF TypeInv, WellFramed

\* The loop on top has gone past its next subscription.
LEMMA AdvanceLoop ==
  ASSUME TypeInv, NEW s, Calls(s)
  PROVE  LET top == Head(stack)
             next == [top EXCEPT !.rest = Tail(@)]
         IN  /\ s \in Subscription /\ Advanced \in Seq(Frame) /\ Len(Advanced) = Len(stack)
             /\ next.kind = top.kind /\ top.kind \in LoopKinds
             /\ Elements(top.rest) = {s} \cup Elements(next.rest)
             /\ Elements(stack) = {top} \cup Elements(Tail(stack))
             /\ Elements(Advanced) = {next} \cup Elements(Tail(stack))
             /\ \A f \in Elements(Advanced) : f.kind \in CodeKinds => f.sub \in Subscription
<1> DEFINE top == Head(stack)
           next == [top EXCEPT !.rest = Tail(@)]
<1>1. /\ stack \in Seq(Frame) /\ stack # <<>> /\ top.kind \in LoopKinds
      /\ top.rest # <<>> /\ s = Head(top.rest)
  BY DEF TypeInv, TypeOK, Calls
<1>2. /\ top \in Frame /\ Tail(stack) \in Seq(Frame) /\ Len(Tail(stack)) = Len(stack) - 1
      /\ Elements(stack) = {top} \cup Elements(Tail(stack))
  BY <1>1, Pop
<1>3. top.rest \in Seq(Subscription)
  BY <1>2 DEF Frame
<1>4. /\ s \in Subscription /\ Tail(top.rest) \in Seq(Subscription)
      /\ Elements(top.rest) = {s} \cup Elements(Tail(top.rest))
  BY <1>1, <1>3, Pop
<1>5. next \in Frame /\ next.kind = top.kind /\ next.rest = Tail(top.rest)
  BY <1>2, <1>4 DEF Frame
<1>6. /\ Advanced \in Seq(Frame) /\ Len(Advanced) = Len(Tail(stack)) + 1
      /\ Elements(Advanced) = {next} \cup Elements(Tail(stack))
  <2> HIDE DEF top, next
  <2>1. Advanced = <<next>> \o Tail(stack)
    BY DEF Advanced, next, top
  <2> DEFINE q == Tail(stack)
             p == <<next>> \o q
  <2>2. q \in Seq(Frame) /\ next \in Frame
    BY <1>2, <1>5
  <2> HIDE DEF q
  <2>3. p \in Seq(Frame) /\ Len(p) = Len(q) + 1 /\ Elements(p) = {next} \cup Elements(q)
    BY <2>2, Push
  <2>4. Advanced = p
    BY <2>1 DEF q
  <2> HIDE DEF p
  <2> QED
    BY <2>3, <2>4 DEF q
<1>7. Len(stack) \in Nat
  BY <1>1
<1>8. next.kind \notin CodeKinds
  BY <1>1, <1>5 DEF LoopKinds, CodeKinds
<1> HIDE DEF top, next
<1>9. \A f \in Elements(Advanced) : f.kind \in CodeKinds => f.sub \in Subscription
  BY <1>2, <1>6, <1>8 DEF TypeInv, WellFramed
<1> QED
  BY <1>1, <1>2, <1>4, <1>5, <1>6, <1>7, <1>9 DEF top, next

LEMMA NextType == IInv /\ [Next]_vars => TypeInv'
<1> SUFFICES ASSUME IInv, [Next]_vars PROVE TypeInv'
  OBVIOUS
<1>0. TypeInv /\ TypeOK
  BY DEF IInv, TypeInv
<1> USE <1>0 DEF graph
<1>1. ASSUME NEW o \in Observable, NEW v \in Value, Set(o, v) PROVE TypeInv'
  <2>1. effects[o] \in Seq(Subscription) /\ pendingSubscriptions \in Seq(Subscription)
    BY DEF TypeOK
  <2>2. CASE batchDepth > 0
    <3>1. pendingSubscriptions' \in Seq(Subscription) /\ UNCHANGED stack
      BY <1>1, <2>1, <2>2, AddAllAdds DEF Set, Notified
    <3> QED
      BY <1>1, <3>1 DEF Set, TypeInv, TypeOK, WellFramed
  <2>3. CASE ~ (batchDepth > 0)
    <3> DEFINE f == Loop("notify", effects[o])
    <3>1. f \in Frame /\ f.kind \notin CodeKinds
      BY <2>1, FramesTyped DEF LoopKinds
    <3>2. stack' = <<f>> \o stack /\ UNCHANGED pendingSubscriptions
      BY <1>1, <2>3 DEF Set, Notified
    <3> HIDE DEF f
    <3>3. stack' \in Seq(Frame) /\ WellFramed'
      BY <3>1, <3>2, PushFrame
    <3> QED
      BY <1>1, <3>2, <3>3 DEF Set, TypeInv, TypeOK
  <2> QED
    BY <2>2, <2>3
<1>2. CASE BeginBatch
  BY <1>2 DEF BeginBatch, TypeInv, TypeOK, WellFramed
<1>3. CASE EndBatch
  <2>1. batchDepth' \in Nat
    BY <1>3 DEF EndBatch, BatchOpen, TypeOK
  <2>2. CASE batchDepth > 1
    BY <1>3, <2>1, <2>2 DEF EndBatch, TypeInv, TypeOK, WellFramed
  <2>3. CASE ~ (batchDepth > 1)
    <3> DEFINE f == Loop("flush", pendingSubscriptions)
    <3>1. f \in Frame /\ f.kind \notin CodeKinds
      BY FramesTyped DEF LoopKinds, TypeOK
    <3>2. stack' = <<f>> \o stack /\ pendingSubscriptions' = <<>>
      BY <1>3, <2>3 DEF EndBatch
    <3> HIDE DEF f
    <3>3. stack' \in Seq(Frame) /\ WellFramed'
      BY <3>1, <3>2, PushFrame
    <3>4. pendingSubscriptions' \in Seq(Subscription)
      BY <3>2
    <3> QED
      BY <1>3, <2>1, <3>3, <3>4 DEF EndBatch, TypeInv, TypeOK
  <2> QED
    BY <2>2, <2>3
<1>4. ASSUME NEW s \in Subscription, NEW ds \in SUBSET Observable, Observe(s, ds)
      PROVE  TypeInv'
  <2> DEFINE f == Code("observe", s)
  <2>1. f \in Frame /\ f.sub \in Subscription
    BY FramesTyped DEF CodeKinds
  <2>2. stack' = <<f>> \o stack
    BY <1>4 DEF Observe
  <2> HIDE DEF f
  <2>3. stack' \in Seq(Frame) /\ WellFramed'
    BY <2>1, <2>2, PushFrame
  <2>4. effects' \in [Observable -> Seq(Subscription)]
    <3>1. \A o \in Observable : Append(effects[o], s) \in Seq(Subscription)
      BY Appended DEF TypeOK
    <3> QED
      BY <1>4, <3>1 DEF Observe, TypeOK
  <2> QED
    BY <1>4, <2>3, <2>4 DEF Observe, TypeInv, TypeOK
<1>5. ASSUME NEW s \in Subscription, Stop(s) PROVE TypeInv'
  <2>1. effects' \in [Observable -> Seq(Subscription)]
    <3>1. \A o \in Observable : RemoveEffect(effects[o], s) \in Seq(Subscription)
      BY EffectsTyped, RemoveEffectRemoves DEF IInv
    <3> QED
      BY <1>5, <3>1 DEF Stop, TypeOK
  <2> QED
    BY <1>5, <2>1 DEF Stop, TypeInv, TypeOK, WellFramed
<1>6. ASSUME NEW s \in Subscription, SkipStopped(s) PROVE TypeInv'
  <2>1. stack' \in Seq(Frame) /\ WellFramed'
    BY <1>6, AdvanceLoop DEF SkipStopped, WellFramed
  <2> QED
    BY <1>6, <2>1 DEF SkipStopped, TypeInv, TypeOK
<1>7. ASSUME NEW s \in Subscription, RunCleanup(s) \/ RunFn(s) PROVE TypeInv'
  <2>1. PICK k \in {"cleanup", "fn"} : stack' = <<Code(k, s)>> \o Advanced
    BY <1>7 DEF RunCleanup, RunFn
  <2> DEFINE f == Code(k, s)
  <2>2. f \in Frame /\ f.sub \in Subscription
    BY FramesTyped DEF CodeKinds
  <2>3. /\ Advanced \in Seq(Frame)
        /\ \A g \in Elements(Advanced) : g.kind \in CodeKinds => g.sub \in Subscription
    BY <1>7, AdvanceLoop DEF RunCleanup, RunFn
  <2>4. stack' = <<f>> \o Advanced
    BY <2>1
  <2> HIDE DEF f
  <2>5. stack' \in Seq(Frame) /\ Elements(stack') = {f} \cup Elements(Advanced)
    BY <2>2, <2>3, <2>4, Push
  <2>6. WellFramed'
    BY <2>2, <2>3, <2>5 DEF WellFramed
  <2>7. /\ cleanup' \in [Subscription -> {"none", "held", "called"}]
        /\ seen' \in [Subscription -> [Observable -> Value]]
        /\ UNCHANGED <<value, graph, batchDepth, pendingSubscriptions, returned>>
    BY <1>7 DEF RunCleanup, RunFn, TypeOK
  <2> QED
    BY <2>5, <2>6, <2>7 DEF TypeInv, TypeOK
<1>8. CASE ReturnFromCleanup
  <2> DEFINE s == Head(stack).sub
             f == Code("fn", s)
             q == Tail(stack)
  <2>1. /\ stack # <<>> /\ Head(stack).kind = "cleanup" /\ stack' = <<f>> \o q
        /\ cleanup' = [cleanup EXCEPT ![s] = "none"] /\ seen' = [seen EXCEPT ![s] = value]
        /\ UNCHANGED <<value, graph, batchDepth, pendingSubscriptions, returned>>
    BY <1>8 DEF ReturnFromCleanup
  <2>2. q \in Seq(Frame) /\ Elements(stack) = {Head(stack)} \cup Elements(q)
    BY <2>1, Pop DEF TypeOK
  <2>3. s \in Subscription
    BY <2>1, <2>2 DEF TypeInv, WellFramed, CodeKinds
  <2>4. f \in Frame /\ f.sub \in Subscription
    BY <2>3, FramesTyped DEF CodeKinds
  <2> HIDE DEF s, f, q
  <2>5. stack' \in Seq(Frame) /\ Elements(stack') = {f} \cup Elements(q)
    BY <2>1, <2>2, <2>4, Push
  <2>6. WellFramed'
    BY <2>2, <2>4, <2>5 DEF TypeInv, WellFramed
  <2> QED
    BY <2>1, <2>3, <2>5, <2>6 DEF TypeInv, TypeOK
<1>9. CASE Return
  <2> DEFINE s == Head(stack).sub
  <2>1. /\ stack # <<>> /\ Head(stack).kind \in {"observe", "fn"} /\ stack' = Tail(stack)
        /\ UNCHANGED <<value, graph, batchDepth, pendingSubscriptions, seen>>
    BY <1>9 DEF Return
  <2>2. /\ stack' \in Seq(Frame) /\ WellFramed'
        /\ Elements(stack) = {Head(stack)} \cup Elements(stack')
    BY <2>1, PopFrame
  <2>3. s \in Subscription
    BY <2>1, <2>2 DEF TypeInv, WellFramed, CodeKinds
  <2>4. cleanup' = [cleanup EXCEPT ![s] = "held"] \/ cleanup' = cleanup
    BY <1>9 DEF Return
  <2>5. returned' = returned \cup {s} \/ returned' = returned
    BY <1>9 DEF Return
  <2> HIDE DEF s
  <2> QED
    BY <2>1, <2>2, <2>3, <2>4, <2>5 DEF TypeInv, TypeOK
<1>10. CASE EndLoop
  <2>1. stack' \in Seq(Frame) /\ WellFramed'
    BY <1>10, PopFrame DEF EndLoop
  <2> QED
    BY <1>10, <2>1 DEF EndLoop, TypeInv, TypeOK
<1>11. CASE UNCHANGED vars
  BY <1>11 DEF vars, TypeInv, TypeOK, WellFramed
<1> QED
  BY <1>1, <1>2, <1>3, <1>4, <1>5, <1>6, <1>7, <1>8, <1>9, <1>10, <1>11 DEF Next

-----------------------------------------------------------------------------
(***************************************************************************)
(* What each step does to the stack.                                       *)
(***************************************************************************)
LEMMA InitInv == Init => IInv
<1> SUFFICES ASSUME Init PROVE IInv
  OBVIOUS
<1> DEFINE empty == <<>>
<1>1. /\ \A S : empty \in Seq(S)
      /\ DOMAIN empty = {}
  OBVIOUS
<1> HIDE DEF empty
<1>2. effects = [o \in Observable |-> empty] /\ stack = empty /\ pendingSubscriptions = empty
  BY DEF Init, empty
<1>3. Elements(empty) = {}
  BY <1>1 DEF Elements
<1>4. TypeInv
  BY <1>1, <1>2, <1>3 DEF Init, TypeInv, TypeOK, WellFramed
<1>5. SubscribedExactly
  BY <1>1, <1>2, <1>3 DEF Init, SubscribedExactly
<1> QED
  BY <1>4, <1>5 DEF Init, IInv, ActiveCreated, NothingForgotten

LEMMA Pushed ==
  ASSUME TypeInv, NEW f \in Frame, stack' = <<f>> \o stack
  PROVE  /\ Elements(stack') = {f} \cup Elements(stack)
         /\ Len(stack') = Len(stack) + 1 /\ Head(stack') = f
  BY Push DEF TypeInv, TypeOK

\* A loop that has advanced past s still owes a run to the others, and keeps the
\* frames that run code, whether or not it has called s.
LEMMA LoopGoesOn ==
  ASSUME TypeInv, NEW s, Calls(s),
         stack' = Advanced \/ \E f \in Frame : stack' = <<f>> \o Advanced
  PROVE  \A g \in Elements(stack) :
           /\ g.kind \in CodeKinds => g \in Elements(stack')
           /\ \A u : u # s /\ Owes(g, u) => \E h \in Elements(stack') : Owes(h, u)
<1> DEFINE top == Head(stack)
           next == [top EXCEPT !.rest = Tail(@)]
<1>1. /\ Advanced \in Seq(Frame) /\ next.kind = top.kind /\ top.kind \in LoopKinds
      /\ Elements(top.rest) = {s} \cup Elements(next.rest)
      /\ Elements(stack) = {top} \cup Elements(Tail(stack))
      /\ Elements(Advanced) = {next} \cup Elements(Tail(stack))
  BY AdvanceLoop
<1> HIDE DEF top, next
<1>2. Elements(Advanced) \subseteq Elements(stack')
  <2>1. ASSUME NEW f \in Frame, stack' = <<f>> \o Advanced
        PROVE  Elements(stack') = {f} \cup Elements(Advanced)
    BY <1>1, <2>1, Push
  <2> QED
    BY <2>1
<1>3. top.kind \notin CodeKinds /\ top.kind # "cleanup"
  BY <1>1 DEF LoopKinds, CodeKinds
<1>4. next \in Elements(stack') /\ \A u : u # s /\ Owes(top, u) => Owes(next, u)
  BY <1>1, <1>2, <1>3 DEF Owes
<1>5. Elements(Tail(stack)) \subseteq Elements(stack')
  BY <1>1, <1>2
<1> QED
  BY <1>1, <1>3, <1>4, <1>5

-----------------------------------------------------------------------------
(***************************************************************************)
(* Only created subscriptions are active.                                  *)
(***************************************************************************)
LEMMA CreatedInFrames ==
  \A s : /\ Created(s) <=> s \in returned \/ Code("observe", s) \in Elements(stack)
         /\ Code("observe", s).kind = "observe" /\ Code("observe", s).sub = s
  BY DEF Created, Elements, Code

LEMMA CreatedInFramesNext ==
  \A s : Created(s)' <=> s \in returned' \/ Code("observe", s) \in Elements(stack')
  BY DEF Created, Elements, Code

LEMMA NextCreated == IInv /\ [Next]_vars => ActiveCreated'
<1> SUFFICES ASSUME IInv, [Next]_vars, NEW s \in Subscription, active'[s]
             PROVE  s \in returned' \/ Code("observe", s) \in Elements(stack')
  BY CreatedInFramesNext DEF ActiveCreated
<1> DEFINE run == Code("observe", s)
<1>0. /\ TypeInv /\ stack \in Seq(Frame) /\ run.kind = "observe" /\ run.sub = s
      /\ run.kind \in CodeKinds /\ run.kind \notin LoopKinds
      /\ active[s] => s \in returned \/ run \in Elements(stack)
      /\ active \in [Subscription -> BOOLEAN]
  BY CreatedInFrames DEF IInv, TypeInv, TypeOK, ActiveCreated, CodeKinds, LoopKinds, Code
<1> HIDE DEF run
<1> DEFINE Goal == s \in returned' \/ run \in Elements(stack')
<1> SUFFICES Goal
  BY DEF run
<1>1. ASSUME NEW o \in Observable, NEW v \in Value, Set(o, v) PROVE Goal
  <2>1. CASE UNCHANGED stack
    BY <1>0, <1>1, <2>1 DEF Set, graph
  <2>2. CASE stack' = <<Loop("notify", effects[o])>> \o stack
    <3>1. effects[o] \in Seq(Subscription)
      BY DEF IInv, TypeInv, TypeOK
    <3>2. Elements(stack) \subseteq Elements(stack')
      BY <1>0, <2>2, <3>1, FramesTyped, Pushed DEF LoopKinds
    <3> QED
      BY <1>0, <1>1, <3>2 DEF Set, graph
  <2> QED
    BY <1>1, <2>1, <2>2 DEF Set, Notified
<1>2. CASE BeginBatch
  BY <1>0, <1>2 DEF BeginBatch, graph
<1>3. CASE EndBatch
  <2>1. CASE UNCHANGED stack
    BY <1>0, <1>3, <2>1 DEF EndBatch, graph
  <2>2. CASE stack' = <<Loop("flush", pendingSubscriptions)>> \o stack
    <3>1. pendingSubscriptions \in Seq(Subscription)
      BY DEF IInv, TypeInv, TypeOK
    <3>2. Elements(stack) \subseteq Elements(stack')
      BY <1>0, <2>2, <3>1, FramesTyped, Pushed DEF LoopKinds
    <3> QED
      BY <1>0, <1>3, <3>2 DEF EndBatch, graph
  <2> QED
    BY <1>3, <2>1, <2>2 DEF EndBatch
<1>4. ASSUME NEW t \in Subscription, NEW ds \in SUBSET Observable, Observe(t, ds)
      PROVE  Goal
  <2>1. Elements(stack') = {Code("observe", t)} \cup Elements(stack)
    BY <1>0, <1>4, FramesTyped, Pushed DEF Observe, CodeKinds
  <2>2. CASE t = s
    BY <2>1, <2>2 DEF run
  <2>3. CASE t # s
    BY <1>0, <1>4, <2>1, <2>3 DEF Observe
  <2> QED
    BY <2>2, <2>3
<1>5. ASSUME NEW t \in Subscription, Stop(t) PROVE Goal
  BY <1>0, <1>5 DEF Stop
<1>6. ASSUME NEW t \in Subscription, SkipStopped(t) \/ RunCleanup(t) \/ RunFn(t) PROVE Goal
  <2>1. /\ Calls(t) /\ UNCHANGED <<active, returned>>
        /\ stack' = Advanced \/ \E k \in CodeKinds : stack' = <<Code(k, t)>> \o Advanced
    BY <1>6 DEF SkipStopped, RunCleanup, RunFn, graph, CodeKinds
  <2>2. stack' = Advanced \/ \E f \in Frame : stack' = <<f>> \o Advanced
    BY <2>1, FramesTyped
  <2> QED
    BY <1>0, <2>1, <2>2, LoopGoesOn
<1>7. CASE ReturnFromCleanup
  <2> DEFINE q == Tail(stack)
             t == Head(stack).sub
  <2>1. /\ stack # <<>> /\ Head(stack).kind = "cleanup" /\ UNCHANGED <<active, returned>>
        /\ stack' = <<Code("fn", t)>> \o q
    BY <1>7 DEF ReturnFromCleanup, graph
  <2>2. Head(stack) # run
    BY <1>0, <2>1
  <2>3. q \in Seq(Frame) /\ Elements(stack) = {Head(stack)} \cup Elements(q)
    BY <1>0, <2>1, Pop
  <2>4. Code("fn", t) \in Frame
    BY <1>0, <2>1, <2>3, FramesTyped DEF TypeInv, WellFramed, CodeKinds
  <2> HIDE DEF q, t
  <2>5. Elements(stack') = {Code("fn", t)} \cup Elements(q)
    BY <2>1, <2>3, <2>4, Push
  <2> QED
    BY <1>0, <2>1, <2>2, <2>3, <2>5
<1>8. CASE Return
  <2>1. stack # <<>> /\ stack' = Tail(stack) /\ UNCHANGED active /\ returned \subseteq returned'
    BY <1>8 DEF Return, graph
  <2>2. Elements(stack) = {Head(stack)} \cup Elements(stack')
    BY <1>0, <2>1, PopFrame
  <2>3. CASE Head(stack) = run
    BY <1>0, <1>8, <2>3 DEF Return
  <2>4. CASE Head(stack) # run
    BY <1>0, <2>1, <2>2, <2>4
  <2> QED
    BY <2>3, <2>4
<1>9. CASE EndLoop
  <2>1. /\ stack # <<>> /\ stack' = Tail(stack) /\ UNCHANGED <<active, returned>>
        /\ Head(stack) # run
    BY <1>0, <1>9 DEF EndLoop, graph
  <2>2. Elements(stack) = {Head(stack)} \cup Elements(stack')
    BY <1>0, <2>1, PopFrame
  <2> QED
    BY <1>0, <2>1, <2>2
<1>10. CASE UNCHANGED vars
  BY <1>0, <1>10 DEF vars, graph
<1> QED
  BY <1>1, <1>2, <1>3, <1>4, <1>5, <1>6, <1>7, <1>8, <1>9, <1>10 DEF Next

-----------------------------------------------------------------------------
(***************************************************************************)
(* The two ends of a subscription.                                         *)
(***************************************************************************)
LEMMA NextSubscribed == IInv /\ [Next]_vars => SubscribedExactly'
<1> SUFFICES ASSUME IInv, [Next]_vars, NEW o \in Observable
             PROVE  /\ Elements(effects'[o]) = {s \in Subscription : active'[s] /\ o \in deps'[s]}
                    /\ Distinct(effects'[o])
  BY DEF SubscribedExactly, Distinct, Elements
<1>0. /\ TypeOK
      /\ effects[o] \in Seq(Subscription) /\ Distinct(effects[o])
      /\ Elements(effects[o]) = {s \in Subscription : active[s] /\ o \in deps[s]}
  BY EffectsTyped DEF IInv, TypeInv
<1>1. ASSUME NEW t \in Subscription, NEW ds \in SUBSET Observable, Observe(t, ds)
      PROVE  /\ Elements(effects'[o]) = {s \in Subscription : active'[s] /\ o \in deps'[s]}
             /\ Distinct(effects'[o])
  <2>1. ~ active[t]
    BY <1>1 DEF Observe, IInv, ActiveCreated
  <2>2. /\ \A s \in Subscription : active'[s] = IF s = t THEN TRUE ELSE active[s]
        /\ \A s \in Subscription : deps'[s] = IF s = t THEN ds ELSE deps[s]
        /\ effects'[o] = IF o \in ds THEN Append(effects[o], t) ELSE effects[o]
    BY <1>0, <1>1 DEF Observe, TypeOK
  <2>3. t \notin Elements(effects[o])
    BY <1>0, <2>1
  <2>4. CASE o \in ds
    <3>1. /\ Elements(effects'[o]) = Elements(effects[o]) \cup {t}
          /\ Distinct(effects'[o])
      BY <1>0, <2>2, <2>3, <2>4, Appended, AppendDistinct
    <3> QED
      BY <1>0, <2>2, <2>4, <3>1
  <2>5. CASE o \notin ds
    BY <1>0, <2>1, <2>2, <2>5
  <2> QED
    BY <2>4, <2>5
<1>2. ASSUME NEW t \in Subscription, Stop(t)
      PROVE  /\ Elements(effects'[o]) = {s \in Subscription : active'[s] /\ o \in deps'[s]}
             /\ Distinct(effects'[o])
  <2>1. /\ \A s \in Subscription : active'[s] = IF s = t THEN FALSE ELSE active[s]
        /\ \A s \in Subscription : s # t => deps'[s] = deps[s]
        /\ effects'[o] = IF o \in deps[t] THEN RemoveEffect(effects[o], t) ELSE effects[o]
    BY <1>0, <1>2 DEF Stop, TypeOK
  <2>2. CASE o \in deps[t]
    <3>1. /\ Elements(effects'[o]) = Elements(effects[o]) \ {t}
          /\ Distinct(effects'[o])
      BY <1>0, <2>1, <2>2, RemoveEffectRemoves
    <3> QED
      BY <1>0, <2>1, <2>2, <3>1
  <2>3. CASE o \notin deps[t]
    BY <1>0, <2>1, <2>3
  <2> QED
    BY <2>2, <2>3
<1>3. CASE UNCHANGED graph
  BY <1>0, <1>3 DEF graph
<1>4. CASE UNCHANGED vars
  BY <1>3, <1>4 DEF vars
<1> QED
  BY <1>1, <1>2, <1>3, <1>4
     DEF Next, Set, BeginBatch, EndBatch, SkipStopped, RunCleanup, RunFn,
         ReturnFromCleanup, Return, EndLoop

-----------------------------------------------------------------------------
(***************************************************************************)
(* No notification is lost.                                                *)
(***************************************************************************)
LEMMA StillOwed ==
  ASSUME NEW s, Owed(s),
         batchDepth > 0 /\ s \in Elements(pendingSubscriptions) =>
           Owed(s)' \/ (batchDepth' > 0 /\ s \in Elements(pendingSubscriptions')),
         \A f \in Elements(stack) : Owes(f, s) => \E g \in Elements(stack') : Owes(g, s)
  PROVE  Owed(s)'
<1>1. CASE batchDepth > 0 /\ s \in Elements(pendingSubscriptions)
  BY <1>1 DEF Owed, Elements
<1>2. CASE \E f \in Elements(stack) : Owes(f, s)
  <2>1. \E g \in Elements(stack') : Owes(g, s)
    BY <1>2
  <2> QED
    BY <2>1 DEF Owed, Elements, Owes
<1> QED
  BY <1>1, <1>2 DEF Owed

\* A frame in the next state owes s a run, or a batch has queued it.
LEMMA OwedByFrame ==
  ASSUME NEW s, \E g \in Elements(stack') : Owes(g, s)
  PROVE  Owed(s)'
  BY DEF Owed, Elements, Owes

LEMMA OwedByBatch ==
  ASSUME NEW s, batchDepth' > 0, s \in Elements(pendingSubscriptions')
  PROVE  Owed(s)'
  BY DEF Owed, Elements

LEMMA LoopOwes ==
  \A k \in LoopKinds : \A subs : \A s \in Elements(subs) : Owes(Loop(k, subs), s)
  BY DEF Owes, Loop

LEMMA NextForgotten == IInv /\ [Next]_vars => NothingForgotten'
<1> SUFFICES ASSUME IInv, [Next]_vars, NEW s \in Subscription, NEW o \in Observable,
                    active'[s], o \in deps'[s]
             PROVE  seen'[s][o] = value'[o] \/ Owed(s)'
  BY DEF NothingForgotten, Owed, Owes, Elements
<1> DEFINE Goal == seen'[s][o] = value'[o] \/ Owed(s)'
<1>0. /\ TypeInv /\ TypeOK /\ stack \in Seq(Frame) /\ batchDepth \in Nat
      /\ active[s] /\ o \in deps[s] => seen[s][o] = value[o] \/ Owed(s)
  BY DEF IInv, TypeInv, TypeOK, NothingForgotten
<1> SUFFICES Goal
  OBVIOUS
<1>1. ASSUME NEW p \in Observable, NEW v \in Value, Set(p, v) PROVE Goal
  <2>1. /\ active[s] /\ o \in deps[s] /\ seen' = seen /\ batchDepth' = batchDepth
        /\ value' = [value EXCEPT ![p] = v]
    BY <1>1 DEF Set, graph
  <2>2. /\ effects[p] \in Seq(Subscription)
        /\ Elements(effects[p]) = {t \in Subscription : active[t] /\ p \in deps[t]}
    BY <1>0, EffectsTyped DEF IInv
  <2>3. \/ /\ batchDepth > 0 /\ Elements(stack') = Elements(stack)
           /\ Elements(pendingSubscriptions') =
                Elements(pendingSubscriptions) \cup Elements(effects[p])
        \/ /\ ~ (batchDepth > 0) /\ UNCHANGED pendingSubscriptions
           /\ Elements(stack') = {Loop("notify", effects[p])} \cup Elements(stack)
    <3>1. CASE batchDepth > 0
      <4>1. pendingSubscriptions' = AddAll(pendingSubscriptions, effects[p]) /\ stack' = stack
        BY <1>1, <3>1 DEF Set, Notified
      <4>2. pendingSubscriptions \in Seq(Subscription)
        BY <1>0 DEF TypeOK
      <4> QED
        BY <2>2, <3>1, <4>1, <4>2, AddAllAdds
    <3>2. CASE ~ (batchDepth > 0)
      <4>1. /\ stack' = <<Loop("notify", effects[p])>> \o stack
            /\ UNCHANGED pendingSubscriptions
        BY <1>1, <3>2 DEF Set, Notified
      <4> QED
        BY <1>0, <2>2, <3>2, <4>1, FramesTyped, Pushed DEF LoopKinds
    <3> QED
      BY <3>1, <3>2
  <2>4. CASE p = o
    <3>1. s \in Elements(effects[p])
      BY <2>1, <2>2, <2>4
    <3>2. CASE batchDepth > 0
      BY <2>1, <2>3, <3>1, <3>2, OwedByBatch
    <3>3. CASE ~ (batchDepth > 0)
      <4>1. Owes(Loop("notify", effects[p]), s)
        BY <3>1, LoopOwes DEF LoopKinds
      <4> QED
        BY <2>3, <3>3, <4>1, OwedByFrame
    <3> QED
      BY <3>2, <3>3
  <2>5. CASE p # o
    <3>1. value'[o] = value[o]
      BY <1>0, <2>1, <2>5 DEF TypeOK
    <3>2. Owed(s) => Owed(s)'
      BY <2>1, <2>3, StillOwed
    <3> QED
      BY <1>0, <2>1, <3>1, <3>2
  <2> QED
    BY <2>4, <2>5
<1>2. CASE BeginBatch
  <2>1. batchDepth' > 0
    BY <1>0, <1>2 DEF BeginBatch
  <2>2. Owed(s) => Owed(s)'
    BY <1>2, <2>1, StillOwed DEF BeginBatch
  <2> QED
    BY <1>0, <1>2, <2>2 DEF BeginBatch, graph
<1>3. CASE EndBatch
  <2>1. Owed(s) => Owed(s)'
    <3>1. CASE batchDepth > 1
      <4>1. batchDepth' > 0 /\ UNCHANGED <<pendingSubscriptions, stack>>
        BY <1>0, <1>3, <3>1 DEF EndBatch
      <4> QED
        BY <4>1, StillOwed
    <3>2. CASE ~ (batchDepth > 1)
      <4> DEFINE f == Loop("flush", pendingSubscriptions)
      <4>1. stack' = <<f>> \o stack /\ pendingSubscriptions \in Seq(Subscription)
        BY <1>0, <1>3, <3>2 DEF EndBatch, TypeOK
      <4>2. Elements(stack') = {f} \cup Elements(stack)
        BY <1>0, <4>1, FramesTyped, Pushed DEF LoopKinds
      <4>3. s \in Elements(pendingSubscriptions) => Owes(f, s)
        BY LoopOwes DEF LoopKinds
      <4> HIDE DEF f
      <4>4. s \in Elements(pendingSubscriptions) => Owed(s)'
        BY <4>2, <4>3, OwedByFrame
      <4> QED
        BY <4>2, <4>4, StillOwed
    <3> QED
      BY <3>1, <3>2
  <2> QED
    BY <1>0, <1>3, <2>1 DEF EndBatch, graph
<1>4. ASSUME NEW t \in Subscription, NEW ds \in SUBSET Observable, Observe(t, ds)
      PROVE  Goal
  <2>1. CASE t = s
    BY <1>0, <1>4, <2>1 DEF Observe, TypeOK
  <2>2. CASE t # s
    <3>1. /\ active[s] /\ o \in deps[s] /\ seen'[s] = seen[s] /\ value' = value
          /\ UNCHANGED <<batchDepth, pendingSubscriptions>>
      BY <1>0, <1>4, <2>2 DEF Observe, TypeOK
    <3>2. Elements(stack) \subseteq Elements(stack')
      BY <1>0, <1>4, FramesTyped, Pushed DEF Observe, CodeKinds
    <3>3. Owed(s) => Owed(s)'
      BY <3>1, <3>2, StillOwed
    <3> QED
      BY <1>0, <3>1, <3>3
  <2> QED
    BY <2>1, <2>2
<1>5. ASSUME NEW t \in Subscription, Stop(t) PROVE Goal
  <2>1. /\ active[s] /\ o \in deps[s]
        /\ UNCHANGED <<value, seen, batchDepth, pendingSubscriptions, stack>>
    BY <1>0, <1>5 DEF Stop, TypeOK
  <2>2. Owed(s) => Owed(s)'
    BY <2>1, StillOwed
  <2> QED
    BY <1>0, <2>1, <2>2
<1>6. ASSUME NEW t \in Subscription, SkipStopped(t) \/ RunCleanup(t) \/ RunFn(t) PROVE Goal
  <2>1. /\ Calls(t) /\ UNCHANGED <<value, graph, batchDepth, pendingSubscriptions>>
        /\ stack' = Advanced \/ \E k \in CodeKinds : stack' = <<Code(k, t)>> \o Advanced
    BY <1>6 DEF SkipStopped, RunCleanup, RunFn, CodeKinds
  <2>2. CASE s # t
    <3>1. stack' = Advanced \/ \E f \in Frame : stack' = <<f>> \o Advanced
      BY <2>1, FramesTyped
    <3>2. Owed(s) => Owed(s)'
      BY <1>0, <2>1, <2>2, <3>1, LoopGoesOn, StillOwed
    <3>3. seen'[s] = seen[s]
      BY <1>0, <1>6, <2>2 DEF SkipStopped, RunCleanup, RunFn, TypeOK
    <3> QED
      BY <1>0, <2>1, <3>2, <3>3 DEF graph
  <2>3. CASE s = t /\ SkipStopped(t)
    BY <2>1, <2>3 DEF SkipStopped, MayRun, graph
  <2>4. CASE s = t /\ RunFn(t)
    BY <1>0, <2>1, <2>4 DEF RunFn, TypeOK
  <2>5. CASE s = t /\ RunCleanup(t)
    <3> DEFINE f == Code("cleanup", s)
    <3>1. stack' = <<f>> \o Advanced /\ f \in Frame
      BY <2>5, FramesTyped DEF RunCleanup, CodeKinds
    <3>2. Advanced \in Seq(Frame)
      BY <1>0, <2>1, AdvanceLoop
    <3>3. Owes(f, s)
      BY DEF Owes, Code
    <3> HIDE DEF f
    <3>4. f \in Elements(stack')
      BY <3>1, <3>2, Push
    <3> QED
      BY <3>3, <3>4, OwedByFrame
  <2> QED
    BY <1>6, <2>2, <2>3, <2>4, <2>5
<1>7. CASE ReturnFromCleanup
  <2> DEFINE q == Tail(stack)
             t == Head(stack).sub
  <2>1. /\ stack # <<>> /\ Head(stack).kind = "cleanup" /\ stack' = <<Code("fn", t)>> \o q
        /\ seen' = [seen EXCEPT ![t] = value]
        /\ UNCHANGED <<value, graph, batchDepth, pendingSubscriptions>>
    BY <1>7 DEF ReturnFromCleanup
  <2>2. q \in Seq(Frame) /\ Elements(stack) = {Head(stack)} \cup Elements(q)
    BY <1>0, <2>1, Pop
  <2>3. Code("fn", t) \in Frame
    BY <1>0, <2>1, <2>2, FramesTyped DEF TypeInv, WellFramed, CodeKinds
  <2>4. s # t => ~ Owes(Head(stack), s)
    BY <2>1 DEF Owes, LoopKinds
  <2> HIDE DEF q, t
  <2>5. Elements(stack') = {Code("fn", t)} \cup Elements(q)
    BY <2>1, <2>2, <2>3, Push
  <2>6. CASE s = t
    BY <1>0, <2>1, <2>6 DEF TypeOK
  <2>7. CASE s # t
    <3>1. Owed(s) => Owed(s)'
      BY <2>1, <2>2, <2>4, <2>5, <2>7, StillOwed
    <3>2. seen'[s] = seen[s]
      BY <1>0, <2>1, <2>7 DEF TypeOK
    <3> QED
      BY <1>0, <2>1, <3>1, <3>2 DEF graph
  <2> QED
    BY <2>6, <2>7
<1>8. CASE Return \/ EndLoop
  <2>1. /\ stack # <<>> /\ stack' = Tail(stack)
        /\ UNCHANGED <<value, graph, batchDepth, pendingSubscriptions, seen>>
    BY <1>8 DEF Return, EndLoop
  <2>2. ~ Owes(Head(stack), s)
    <3>1. CASE Return
      BY <3>1 DEF Return, Owes, LoopKinds
    <3>2. CASE EndLoop
      <4>1. Head(stack).kind # "cleanup"
        BY <3>2 DEF EndLoop, LoopKinds
      <4>2. \A empty : empty = <<>> => Elements(empty) = {}
        BY DEF Elements
      <4> QED
        BY <3>2, <4>1, <4>2 DEF EndLoop, Owes
    <3> QED
      BY <1>8, <3>1, <3>2
  <2>3. Elements(stack) = {Head(stack)} \cup Elements(stack')
    BY <1>0, <2>1, PopFrame
  <2>4. Owed(s) => Owed(s)'
    BY <2>1, <2>2, <2>3, StillOwed
  <2> QED
    BY <1>0, <2>1, <2>4 DEF graph
<1>9. CASE UNCHANGED vars
  <2>1. Owed(s) => Owed(s)'
    BY <1>9, StillOwed DEF vars
  <2> QED
    BY <1>0, <1>9, <2>1 DEF vars, graph
<1> QED
  BY <1>1, <1>2, <1>3, <1>4, <1>5, <1>6, <1>7, <1>8, <1>9 DEF Next

LEMMA NextInv == IInv /\ [Next]_vars => IInv'
  BY NextType, NextCreated, NextSubscribed, NextForgotten DEF IInv

LEMMA SpecInv == Spec => []IInv
<1> QED
  BY InitInv, NextInv, PTL DEF Spec

-----------------------------------------------------------------------------
(***************************************************************************)
(* Theorems.                                                               *)
(***************************************************************************)

(* The variables keep their types: however deep callbacks nest, the stack  *)
(* holds frames and every list holds subscriptions.                        *)
THEOREM TypeCorrect == Spec => []TypeOK
<1>1. IInv => TypeOK
  BY DEF IInv, TypeInv
<1> QED
  BY SpecInv, <1>1, PTL

(* No notification is lost, whatever callbacks set, open, close, create    *)
(* and stop inside one another (notifyAll, EndBatch and run).              *)
THEOREM NoNotificationIsLost == Spec => []EffectsSeeLatest
<1>1. IInv => EffectsSeeLatest
  <2> SUFFICES ASSUME IInv, stack = <<>>, batchDepth = 0 PROVE EffectsSeeLatest
    BY DEF EffectsSeeLatest
  <2>1. \A q : q = <<>> => Elements(q) = {}
    BY DEF Elements
  <2>2. \A s \in Subscription : ~ Owed(s)
    BY <2>1 DEF Owed
  <2> QED
    BY <2>2 DEF IInv, NothingForgotten, EffectsSeeLatest
<1> QED
  BY SpecInv, <1>1, PTL

(* An observable's list and the dependencies of the active subscriptions   *)
(* agree after any sequence of Observe and Stop, in callbacks too.         *)
THEOREM BothEndsAgree == Spec => []SubscribedExactly
<1>1. IInv => SubscribedExactly
  BY DEF IInv
<1> QED
  BY SpecInv, <1>1, PTL

\* A step that runs a callback, or a cleanup, pushes a frame for an active subscription.
LEMMA NextStops ==
  ASSUME TypeInv, [Next]_vars, NEW s \in returned, ~ active[s]
  PROVE  ~ active'[s] /\ (Len(stack') > Len(stack) => Head(stack').sub # s)
<1> DEFINE Goal == ~ active'[s] /\ (Len(stack') > Len(stack) => Head(stack').sub # s)
<1>0. /\ TypeOK /\ stack \in Seq(Frame) /\ Len(stack) \in Nat
      /\ s \in Subscription /\ s # NoSub
  BY ReactiveAssumption DEF TypeInv, TypeOK
<1>1. ASSUME NEW o \in Observable, NEW v \in Value, Set(o, v) PROVE Goal
  <2>1. effects[o] \in Seq(Subscription)
    BY <1>0 DEF TypeOK
  <2>2. CASE UNCHANGED stack
    BY <1>0, <1>1, <2>2 DEF Set, graph
  <2>3. CASE stack' = <<Loop("notify", effects[o])>> \o stack
    <3>1. Head(stack') = Loop("notify", effects[o])
      BY <2>1, <2>3, FramesTyped, Pushed DEF LoopKinds
    <3> QED
      BY <1>0, <1>1, <3>1 DEF Set, graph, Loop
  <2> QED
    BY <1>1, <2>2, <2>3 DEF Set, Notified
<1>2. CASE EndBatch
  <2>1. CASE UNCHANGED stack
    BY <1>0, <1>2, <2>1 DEF EndBatch, graph
  <2>2. CASE stack' = <<Loop("flush", pendingSubscriptions)>> \o stack
    <3>1. pendingSubscriptions \in Seq(Subscription)
      BY <1>0 DEF TypeOK
    <3>2. Head(stack') = Loop("flush", pendingSubscriptions)
      BY <2>2, <3>1, FramesTyped, Pushed DEF LoopKinds
    <3> QED
      BY <1>0, <1>2, <3>2 DEF EndBatch, graph, Loop
  <2> QED
    BY <1>2, <2>1, <2>2 DEF EndBatch
<1>3. ASSUME NEW t \in Subscription, NEW ds \in SUBSET Observable, Observe(t, ds)
      PROVE  Goal
  <2>1. t # s
    BY <1>3 DEF Observe, Created
  <2>2. Head(stack') = Code("observe", t)
    BY <1>3, FramesTyped, Pushed DEF Observe, CodeKinds
  <2> QED
    BY <1>0, <1>3, <2>1, <2>2 DEF Observe, TypeOK, Code
<1>4. ASSUME NEW t \in Subscription, Stop(t) PROVE Goal
  BY <1>0, <1>4 DEF Stop, TypeOK
<1>5. ASSUME NEW t \in Subscription, SkipStopped(t) PROVE Goal
  BY <1>0, <1>5, AdvanceLoop DEF SkipStopped, graph
<1>6. ASSUME NEW t \in Subscription, NEW k \in CodeKinds,
             Calls(t), active[t], UNCHANGED active, stack' = <<Code(k, t)>> \o Advanced
      PROVE  Goal
  <2>1. Advanced \in Seq(Frame) /\ Code(k, t) \in Frame
    BY <1>6, AdvanceLoop, FramesTyped
  <2>2. Head(stack') = Code(k, t)
    BY <1>6, <2>1, Push
  <2> QED
    BY <1>6, <2>2 DEF Code
<1>7. ASSUME NEW t \in Subscription, RunCleanup(t) \/ RunFn(t) PROVE Goal
  BY <1>6, <1>7 DEF RunCleanup, RunFn, MayRun, graph, CodeKinds
<1>8. CASE ReturnFromCleanup
  <2> DEFINE q == Tail(stack)
             f == Code("fn", Head(stack).sub)
  <2>1. /\ stack # <<>> /\ Head(stack).kind = "cleanup" /\ UNCHANGED active
        /\ stack' = <<f>> \o q
    BY <1>8 DEF ReturnFromCleanup, graph
  <2>2. q \in Seq(Frame) /\ Len(q) = Len(stack) - 1 /\ Head(stack) \in Elements(stack)
    BY <1>0, <2>1, Pop
  <2>3. f \in Frame
    BY <2>1, <2>2, FramesTyped DEF TypeInv, WellFramed, CodeKinds
  <2> HIDE DEF q, f
  <2>4. Len(stack') = Len(q) + 1
    BY <2>1, <2>2, <2>3, Push
  <2> QED
    BY <1>0, <2>1, <2>2, <2>4
<1>9. CASE Return \/ EndLoop
  <2>1. stack # <<>> /\ stack' = Tail(stack) /\ UNCHANGED active
    BY <1>9 DEF Return, EndLoop, graph
  <2>2. Len(stack') = Len(stack) - 1
    BY <1>0, <2>1, Pop
  <2> QED
    BY <1>0, <2>1, <2>2
<1>10. CASE BeginBatch \/ UNCHANGED vars
  BY <1>0, <1>10 DEF BeginBatch, vars, graph
<1> QED
  BY <1>1, <1>2, <1>3, <1>4, <1>5, <1>7, <1>8, <1>9, <1>10 DEF Next

(* Stop is final: a loop that copied the list, or a batch that queued the  *)
(* subscription, before Stop begins no run of it after.                    *)
THEOREM StoppedStaysStopped == Spec => StopIsFinal
<1> DEFINE Final == \A s \in returned : ~ active[s] =>
             ~ active'[s] /\ (Len(stack') > Len(stack) => Head(stack').sub # s)
<1>1. IInv /\ [Next]_vars => [Final]_vars
  BY NextStops DEF IInv
<1> QED
  BY SpecInv, <1>1, PTL DEF Spec, StopIsFinal

=============================================================================
