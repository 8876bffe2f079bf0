------------------------------- MODULE SseHub -------------------------------
(***************************************************************************)
(* The server-sent events hub of the development proxy.  Each open stream  *)
(* is a handler goroutine with an unbuffered channel in a table; Send      *)
(* starts one goroutine per table entry, which blocks on the channel until *)
(* the handler receives.  The handler leaves when its client is gone: then *)
(* it removes its entry and closes the channel.  The names it would share  *)
(* with HotReload begin with Hub: a module about the server extends both.  *)
(***************************************************************************)
EXTENDS Integers, FiniteSets

CONSTANTS
  Stream,    \* event streams, each opened at most once (s.counter never repeats an id)
  MaxSends   \* bound on the calls of Send

ASSUME SseHubAssumption == MaxSends \in Nat

VARIABLES
  handler,   \* the handler of each stream: "none", "loop", "leaving" (its deferred
             \* function is to run) or "done"
  requests,  \* the table: streams that Send sees
  gone,      \* streams whose client has disconnected
  sending,   \* how many goroutines are blocked sending to each stream
  received,  \* how many events each client got
  sends,     \* number of calls of Send so far
  panicked,  \* a goroutine sent on a closed channel: the process is gone
  sentTo     \* history: how many events were sent while each stream was in the table

hubVars == <<handler, requests, gone, sending, received, sends, panicked, sentTo>>

\* A goroutine that is blocked on the channel of a handler that is done was blocked
\* before the channel was closed, and the process died of it.
NoLateSend ==
  \A s \in Stream : handler[s] = "done" /\ sending[s] > 0 => panicked

HubTypeOK ==
  /\ handler \in [Stream -> {"none", "loop", "leaving", "done"}]
  /\ requests \in SUBSET Stream /\ gone \in SUBSET Stream
  /\ sending \in [Stream -> Nat] /\ received \in [Stream -> Nat]
  /\ sends \in 0..MaxSends /\ panicked \in BOOLEAN
  /\ sentTo \in [Stream -> 0..MaxSends]
  /\ requests = {s \in Stream : handler[s] \in {"loop", "leaving"}}
  /\ NoLateSend

HubInit ==
  /\ handler = [s \in Stream |-> "none"]
  /\ requests = {} /\ gone = {}
  /\ sending = [s \in Stream |-> 0] /\ received = [s \in Stream |-> 0]
  /\ sends = 0 /\ panicked = FALSE
  /\ sentTo = [s \in Stream |-> 0]

\* ServeHTTP, under the lock: a new channel in the table.
Register(s) ==
  /\ ~panicked /\ handler[s] = "none"
  /\ handler' = [handler EXCEPT ![s] = "loop"]
  /\ requests' = requests \cup {s}
  /\ UNCHANGED <<gone, sending, received, sends, panicked, sentTo>>

\* Send, under the lock: one goroutine for each stream in the table.
Send ==
  /\ ~panicked /\ sends < MaxSends /\ sends' = sends + 1
  /\ sending' = [s \in Stream |-> IF s \in requests THEN sending[s] + 1 ELSE sending[s]]
  /\ sentTo' = [s \in Stream |-> IF s \in requests THEN sentTo[s] + 1 ELSE sentTo[s]]
  /\ UNCHANGED <<handler, requests, gone, received, panicked>>

\* The handler receives from one blocked goroutine and writes to the client.
Deliver_All(s) ==
  /\ sending' = [sending EXCEPT ![s] = 0]
  /\ received' = [received EXCEPT ![s] = @ + 1]
DeliverOne(s) ==
  /\ sending' = [sending EXCEPT ![s] = @ - 1]
  /\ received' = [received EXCEPT ![s] = @ + 1]
Deliver(s) ==
  /\ ~panicked /\ handler[s] = "loop" /\ sending[s] > 0
  /\ DeliverOne(s)
  /\ UNCHANGED <<handler, requests, gone, sends, panicked, sentTo>>

Disconnect(s) ==
  /\ handler[s] = "loop" /\ s \notin gone
  /\ gone' = gone \cup {s}
  /\ UNCHANGED <<handler, requests, sending, received, sends, panicked, sentTo>>

\* The handler leaves its loop: the request context is done, or the ping fails.
Leave(s) ==
  /\ ~panicked /\ handler[s] = "loop" /\ s \in gone
  /\ handler' = [handler EXCEPT ![s] = "leaving"]
  /\ UNCHANGED <<requests, gone, sending, received, sends, panicked, sentTo>>

\* It leaves because an event, taken from the channel, could not be written.
LeaveOnEvent(s) ==
  /\ ~panicked /\ handler[s] = "loop" /\ s \in gone /\ sending[s] > 0
  /\ handler' = [handler EXCEPT ![s] = "leaving"]
  /\ sending' = [sending EXCEPT ![s] = @ - 1]
  /\ UNCHANGED <<requests, gone, received, sends, panicked, sentTo>>

\* The deferred function, under the lock: every goroutine still blocked on the
\* channel that is closed here panics.
Forget_Never(s) == UNCHANGED requests
Forget(s) == requests' = requests \ {s}
Unregister(s) ==
  /\ ~panicked /\ handler[s] = "leaving"
  /\ handler' = [handler EXCEPT ![s] = "done"]
  /\ Forget(s)
  /\ IF sending[s] > 0 THEN panicked' = TRUE ELSE UNCHANGED panicked
  /\ UNCHANGED <<gone, sending, received, sends, sentTo>>

HubNext ==
  \/ Send
  \/ \E s \in Stream :
       Register(s) \/ Deliver(s) \/ Disconnect(s) \/ Leave(s) \/ LeaveOnEvent(s) \/ Unregister(s)

HubSpec == HubInit /\ [][HubNext]_hubVars

\* Handlers run: a select whose case is ready takes one, a return runs the defers.
HubFairness ==
  \A s \in Stream : /\ WF_hubVars(Deliver(s) \/ Leave(s) \/ LeaveOnEvent(s))
                    /\ WF_hubVars(Unregister(s))
HubFairSpec == HubSpec /\ HubFairness

-----------------------------------------------------------------------------
(***************************************************************************)
(* Properties.                                                             *)
(***************************************************************************)

(* Exactly once: a client that stays gets every event sent since it was    *)
(* registered once, and no goroutine waits for a stream that Send was never*)
(* told about.                                                             *)
DeliveredOnce ==
  \A s \in Stream \ gone : received[s] + sending[s] = sentTo[s]

(* Every send ends: its goroutine is received from, or dies with the       *)
(* process; none is leaked on a stream whose client has left.              *)
SendsEnd == \A s \in Stream : sending[s] > 0 ~> (sending[s] = 0 \/ panicked)

(* What the comment of the reload script says: closing the stream frees    *)
(* the server's slot; it does not end the server.                          *)
LeavingIsHarmless == ~panicked
==============================================================================
