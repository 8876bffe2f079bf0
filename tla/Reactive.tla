------------------------------ MODULE Reactive ------------------------------
(***************************************************************************)
(* The reactive runtime of one WASM module: observables, the subscriptions *)
(* that Observe and ObserveWithCleanup create, and batches.  It is single  *)
(* threaded; what makes it hard is re-entrancy.  A notification calls the  *)
(* subscriptions in a loop, each callback may set observables, open and    *)
(* close batches, subscribe and stop subscriptions, and so start loops     *)
(* inside the loop that called it.                                         *)
(*                                                                         *)
(* stack is the call stack of the runtime, innermost frame first.  User    *)
(* code (an event handler when the stack is empty, a callback otherwise)   *)
(* makes one runtime call per step and may stop making them at any time.   *)
(***************************************************************************)
EXTENDS Integers, Sequences, FiniteSets

CONSTANTS
  Observable,
  Subscription,
  Cleaning,   \* the subscriptions that ObserveWithCleanup makes; Observe makes the others
  Value,
  NoSub,      \* the subscription of a loop frame
  MaxStack,   \* bound: user code this deep in the stack makes no call that pushes a frame
  MaxBatch    \* bound on nested BeginBatch calls

ASSUME ReactiveAssumption ==
  /\ Cleaning \subseteq Subscription /\ NoSub \notin Subscription
  /\ MaxStack \in Nat /\ MaxBatch \in Nat

VARIABLES
  value,                \* of each observable
  effects,              \* subscriptions of each observable, in notification order
  active,               \* of each subscription
  deps,                 \* of each subscription
  cleanup,              \* "none" (nil), "held", or "called" and not yet reset to nil
  batchDepth,
  pendingSubscriptions,
  stack,
  returned,             \* subscriptions that Observe has returned to user code
  seen                  \* history: the values current when the last run of a callback began

graph == <<effects, active, deps>>
vars == <<value, graph, cleanup, batchDepth, pendingSubscriptions, stack, returned, seen>>

LoopKinds == {"notify", "flush"}             \* notifyAll's loop, EndBatch's loop
CodeKinds == {"observe", "fn", "cleanup"}    \* first run by Observe, run(), e.cleanup()
Frame == [kind : LoopKinds \cup CodeKinds, sub : Subscription \cup {NoSub}, rest : Seq(Subscription)]

Loop(k, subs) == [kind |-> k, sub |-> NoSub, rest |-> subs]
Code(k, s)    == [kind |-> k, sub |-> s, rest |-> <<>>]

Elements(s) == {s[i] : i \in DOMAIN s}

TypeOK ==
  /\ value \in [Observable -> Value]
  /\ effects \in [Observable -> Seq(Subscription)]
  /\ active \in [Subscription -> BOOLEAN]
  /\ deps \in [Subscription -> SUBSET Observable]
  /\ cleanup \in [Subscription -> {"none", "held", "called"}]
  /\ batchDepth \in Nat
  /\ pendingSubscriptions \in Seq(Subscription)
  /\ stack \in Seq(Frame)
  /\ returned \in SUBSET Subscription
  /\ seen \in [Subscription -> [Observable -> Value]]

Init ==
  /\ value \in [Observable -> Value]
  /\ effects = [o \in Observable |-> <<>>]
  /\ active = [s \in Subscription |-> FALSE]
  /\ deps = [s \in Subscription |-> {}]
  /\ cleanup = [s \in Subscription |-> "none"]
  /\ batchDepth = 0
  /\ pendingSubscriptions = <<>>
  /\ stack = <<>>
  /\ returned = {}
  /\ seen = [s \in Subscription |-> value]

\* User code runs: an event handler, or the callback on top of the stack.
UserCode == stack # <<>> => Head(stack).kind \in CodeKinds
\* It may make a call that pushes a frame.
MayCall == UserCode /\ Len(stack) < MaxStack

\* The subscription was created: Observe has returned it or is running it.
Created(s) == s \in returned \/ \E i \in DOMAIN stack : stack[i] = Code("observe", s)

-----------------------------------------------------------------------------
(***************************************************************************)
(* Calls of user code.                                                     *)
(***************************************************************************)

\* The subscriptions that a change of o notifies: a copy of its list.
Notified_NotRunning(o) ==
  SelectSeq(effects[o], LAMBDA s : \A i \in DOMAIN stack : stack[i].sub # s)
Notified(o) == effects[o]

\* addPendingSubscription, on the list q, and the loop that calls it for each of subs.
AddPending(q, s) == IF s \in Elements(q) THEN q ELSE Append(q, s)
AddAll(q, subs) ==
  LET added[n \in 0..Len(subs)] ==
        IF n = 0 THEN q ELSE AddPending(added[n - 1], subs[n])
  IN  added[Len(subs)]

\* Observable.Set, and ApplyExternal of a topic field: notify now, or when the batch ends.
Set(o, v) ==
  /\ MayCall
  /\ value' = [value EXCEPT ![o] = v]
  /\ IF batchDepth > 0
     THEN pendingSubscriptions' = AddAll(pendingSubscriptions, Notified(o))
          /\ UNCHANGED stack
     ELSE stack' = <<Loop("notify", Notified(o))>> \o stack /\ UNCHANGED pendingSubscriptions
  /\ UNCHANGED <<graph, cleanup, batchDepth, returned, seen>>

BeginBatch ==
  /\ UserCode /\ batchDepth < MaxBatch
  /\ batchDepth' = batchDepth + 1
  /\ UNCHANGED <<value, graph, cleanup, pendingSubscriptions, stack, returned, seen>>

\* EndBatch returns early when no batch is open.
BatchOpen_Unchecked == TRUE
BatchOpen == batchDepth # 0

EndBatch ==
  /\ MayCall /\ BatchOpen
  /\ batchDepth' = batchDepth - 1
  /\ IF batchDepth > 1 THEN UNCHANGED <<pendingSubscriptions, stack>>
     ELSE /\ stack' = <<Loop("flush", pendingSubscriptions)>> \o stack
          /\ pendingSubscriptions' = <<>>
  /\ UNCHANGED <<value, graph, cleanup, returned, seen>>

\* Observe and ObserveWithCleanup with dependencies ds (arguments that are not
\* observables are skipped, so ds may be empty): subscribe, then run the callback.
Observe(s, ds) ==
  /\ MayCall /\ ~Created(s)
  /\ active' = [active EXCEPT ![s] = TRUE]
  /\ deps' = [deps EXCEPT ![s] = ds]
  /\ effects' = [o \in Observable |-> IF o \in ds THEN Append(effects[o], s) ELSE effects[o]]
  /\ stack' = <<Code("observe", s)>> \o stack
  /\ seen' = [seen EXCEPT ![s] = value]
  /\ UNCHANGED <<value, cleanup, batchDepth, pendingSubscriptions, returned>>

\* removeEffect: the last subscription takes the place of the removed one.
RemoveEffect_DropLast(es, s) ==
  IF s \notin Elements(es) THEN es ELSE SubSeq(es, 1, Len(es) - 1)
RemoveEffect(es, s) ==
  IF s \notin Elements(es) THEN es
  ELSE LET i == CHOOSE i \in DOMAIN es : es[i] = s
       IN SubSeq([es EXCEPT ![i] = es[Len(es)]], 1, Len(es) - 1)

\* Subscription.Stop.  It leaves e.cleanup alone.
Stop(s) ==
  /\ UserCode /\ s \in returned
  /\ active' = [active EXCEPT ![s] = FALSE]
  /\ deps' = [deps EXCEPT ![s] = {}]
  /\ effects' = [o \in Observable |-> IF o \in deps[s] THEN RemoveEffect(effects[o], s) ELSE effects[o]]
  /\ UNCHANGED <<value, cleanup, batchDepth, pendingSubscriptions, stack, returned, seen>>

-----------------------------------------------------------------------------
(***************************************************************************)
(* Loops and callbacks.                                                    *)
(***************************************************************************)

\* The loop on top of the stack is about to call s.run().
Calls(s) ==
  /\ stack # <<>> /\ Head(stack).kind \in LoopKinds
  /\ Head(stack).rest # <<>> /\ s = Head(Head(stack).rest)

\* The stack once the loop has advanced past its next subscription.
Advanced == <<[Head(stack) EXCEPT !.rest = Tail(@)]>> \o Tail(stack)

MayRun_Always(s) == TRUE
MayRun(s) == active[s]

\* run() of a stopped subscription returns at once.
SkipStopped(s) ==
  /\ Calls(s) /\ ~MayRun(s)
  /\ stack' = Advanced
  /\ UNCHANGED <<value, graph, cleanup, batchDepth, pendingSubscriptions, returned, seen>>

\* run() first calls the cleanup of the previous run.
RunCleanup(s) ==
  /\ Calls(s) /\ MayRun(s) /\ cleanup[s] # "none"
  /\ stack' = <<Code("cleanup", s)>> \o Advanced
  /\ cleanup' = [cleanup EXCEPT ![s] = "called"]
  /\ UNCHANGED <<value, graph, batchDepth, pendingSubscriptions, returned, seen>>

\* run() with no cleanup to call.
RunFn(s) ==
  /\ Calls(s) /\ MayRun(s) /\ cleanup[s] = "none"
  /\ stack' = <<Code("fn", s)>> \o Advanced
  /\ seen' = [seen EXCEPT ![s] = value]
  /\ UNCHANGED <<value, graph, cleanup, batchDepth, pendingSubscriptions, returned>>

\* The cleanup returns: run() sets it to nil, whatever it has become, and calls
\* the callback without looking at active again.
ReturnFromCleanup ==
  /\ stack # <<>> /\ Head(stack).kind = "cleanup"
  /\ LET s == Head(stack).sub IN
       /\ cleanup' = [cleanup EXCEPT ![s] = "none"]
       /\ stack' = <<Code("fn", s)>> \o Tail(stack)
       /\ seen' = [seen EXCEPT ![s] = value]
  /\ UNCHANGED <<value, graph, batchDepth, pendingSubscriptions, returned>>

\* The callback returns: ObserveWithCleanup keeps the cleanup it returned, over any
\* cleanup a nested run has left; Observe hands the new subscription to its caller.
Return ==
  /\ stack # <<>> /\ Head(stack).kind \in {"observe", "fn"}
  /\ LET s == Head(stack).sub IN
       /\ IF s \in Cleaning
          THEN cleanup' = [cleanup EXCEPT ![s] = "held"]
          ELSE UNCHANGED cleanup
       /\ returned' = IF Head(stack).kind = "observe" THEN returned \cup {s} ELSE returned
  /\ stack' = Tail(stack)
  /\ UNCHANGED <<value, graph, batchDepth, pendingSubscriptions, seen>>

EndLoop ==
  /\ stack # <<>> /\ Head(stack).kind \in LoopKinds /\ Head(stack).rest = <<>>
  /\ stack' = Tail(stack)
  /\ UNCHANGED <<value, graph, cleanup, batchDepth, pendingSubscriptions, returned, seen>>

-----------------------------------------------------------------------------
Next ==
  \/ \E o \in Observable, v \in Value : Set(o, v)
  \/ BeginBatch
  \/ EndBatch
  \/ \E s \in Subscription, ds \in SUBSET Observable : Observe(s, ds)
  \/ \E s \in Subscription : Stop(s) \/ SkipStopped(s) \/ RunCleanup(s) \/ RunFn(s)
  \/ ReturnFromCleanup
  \/ Return
  \/ EndLoop

Spec == Init /\ [][Next]_vars

-----------------------------------------------------------------------------
(***************************************************************************)
(* Properties.                                                             *)
(***************************************************************************)

(* No notification is lost: when user code at the top level is between two *)
(* calls and no batch is open, the last run of every active subscription   *)
(* began after the last change of each of its dependencies.  Nested loops, *)
(* batches opened and closed inside callbacks, callbacks that set their    *)
(* own dependency or stop others in the middle of a loop must not break it.*)
EffectsSeeLatest ==
  stack = <<>> /\ batchDepth = 0 =>
    \A s \in Subscription, o \in Observable :
      active[s] /\ o \in deps[s] => seen[s][o] = value[o]

(* The two ends of a subscription agree: an observable's list holds, once  *)
(* each, exactly the active subscriptions that depend on it, also after    *)
(* removals that move the last entry.                                      *)
SubscribedExactly ==
  \A o \in Observable :
    /\ Elements(effects[o]) = {s \in Subscription : active[s] /\ o \in deps[s]}
    /\ \A i, j \in DOMAIN effects[o] : effects[o][i] = effects[o][j] => i = j

(* Stop is final: no loop that copied a list, and no batch that queued the *)
(* subscription before it was stopped, begins another run of it.           *)
StopIsFinal ==
  [][\A s \in returned : ~active[s] =>
       ~active'[s] /\ (Len(stack') > Len(stack) => Head(stack').sub # s)]_vars
==============================================================================
