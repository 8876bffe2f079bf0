----------------------------- MODULE TopicSync -----------------------------
(***************************************************************************)
(* Shared topics of one page: every WASM module (the topic manager and the *)
(* page modules that consume the topic) has its own heap, and they meet    *)
(* in the browser through                                                  *)
(*   - window.__gothic_topic_store, a string store read once, at boot;     *)
(*   - window.__gothic_topic, one payload slot per event name, overwritten *)
(*     by each dispatch and read by listeners when the event is delivered; *)
(*   - the microtask queue, which holds the names of the events to deliver *)
(*     and runs dry before the browser starts a module or a timer;         *)
(*   - gothic:topic-ping, an event dispatched synchronously.               *)
(* Delivering an event runs its listeners one after the other, in the      *)
(* order they were registered: each listener is one action here.           *)
(***************************************************************************)
EXTENDS Integers, Sequences, FiniteSets

CONSTANTS
  NumFields,  \* number of fields of the topic struct
  Value,      \* values a field can hold
  Zero,       \* the zero value every field starts with
  NonText,    \* values whose encoding is not valid UTF-8
  Garbled,    \* what decoding a damaged encoding yields
  Manager,    \* instances of the topic manager mounted on the page
  Consumer,   \* page modules that call the topic constructor
  None,       \* "no payload yet"
  MaxQueue    \* bound: no new request or ping is made with this many events queued

ASSUME FieldsAssumption == NumFields \in Nat \ {0} /\ MaxQueue \in Nat \ {0}
ASSUME ValueAssumption ==
  /\ Zero \in Value /\ NonText \subseteq Value
  /\ Garbled \notin Value
  /\ None \notin Value \cup {Garbled}
ASSUME NoneIsNoStruct == None \notin [1..NumFields -> Value \cup {Garbled}]
ASSUME ModulesAssumption == Manager \cap Consumer = {}

Field == 1..NumFields           \* in the order the struct declares them
Datum == Value \cup {Garbled}
Struct == [Field -> Datum]
ZeroStruct == [f \in Field |-> Zero]

(***************************************************************************)
(* Event names.  Whole-struct events carry field 0.                        *)
(***************************************************************************)
SetReq         == [kind |-> "req",      field |-> 0]
SetReqField(f) == [kind |-> "reqField", field |-> f]
FieldEvent(f)  == [kind |-> "event",    field |-> f]
Online         == [kind |-> "online",   field |-> 0]
Ping           == [kind |-> "ping",     field |-> 0]

Queued  == {SetReq, Online} \cup {SetReqField(f) : f \in Field}
                            \cup {FieldEvent(f) : f \in Field}
ManagerKinds  == {"req", "reqField", "ping"}
ConsumerKinds == {"event", "online"}

VARIABLES
  store,      \* window.__gothic_topic_store[key]
  reqSlot,    \* __gothic_topic payload of gothic:topic-req:<key>
  reqFieldSlot, \* ... of gothic:topic-req:<key>:<field>
  eventSlot,  \* ... of gothic:topic:<key>:<field>
  onlineSlot, \* ... of gothic:topic-online:<key>
  queue,      \* microtasks: names of the events still to be delivered
  current,    \* the event being delivered
  todo,       \* its listeners that have not run yet
  managers,   \* managers that booted, in the order they registered
  fields,     \* _fields of each manager
  whole,      \* _lastWholeEncoded of each manager
  dirty,      \* _wholeDirty of each manager
  consumers,  \* consumers that booted, in the order they registered
  value,      \* the ObservableField values of each consumer
  online,     \* _online of each consumer
  pending,    \* _pending of each consumer
  origin,     \* history: where each value a consumer holds comes from
  lastAsked   \* history: the kind of the last request made for each field

slots == <<reqSlot, reqFieldSlot, eventSlot, onlineSlot>>
managerVars == <<managers, fields, whole, dirty>>
consumerVars == <<consumers, value, online, pending, origin, lastAsked>>
vars == <<store, slots, queue, current, todo, managerVars, consumerVars>>

Origins == {"zero", "store", "manager", "requested", "dropped"}

Elements(s) == {s[i] : i \in DOMAIN s}

TypeOK ==
  /\ store \in Struct \cup {None}
  /\ reqSlot \in Struct \cup {None}
  /\ reqFieldSlot \in [Field -> Datum \cup {None}]
  /\ eventSlot \in [Field -> Datum \cup {None}]
  /\ onlineSlot \in Struct \cup {None}
  /\ queue \in Seq(Queued)
  /\ current \in Queued \cup {Ping}
  /\ IF current.kind \in ManagerKinds THEN todo \in Seq(Manager) ELSE todo \in Seq(Consumer)
  /\ managers \in Seq(Manager)
  /\ fields \in [Manager -> Struct]
  /\ whole \in [Manager -> Struct]
  /\ dirty \in [Manager -> BOOLEAN]
  /\ consumers \in Seq(Consumer)
  /\ value \in [Consumer -> Struct]
  /\ online \in [Consumer -> BOOLEAN]
  /\ pending \in [Consumer -> Struct \cup {None}]
  /\ origin \in [Consumer -> [Field -> Origins]]
  /\ lastAsked \in [Field -> {"nothing", "struct", "field"}]

Init ==
  /\ store = None
  /\ reqSlot = None
  /\ reqFieldSlot = [f \in Field |-> None]
  /\ eventSlot = [f \in Field |-> None]
  /\ onlineSlot = None
  /\ queue = <<>>
  /\ current = Ping
  /\ todo = <<>>
  /\ managers = <<>>
  /\ fields = [m \in Manager |-> ZeroStruct]
  /\ whole = [m \in Manager |-> ZeroStruct]
  /\ dirty = [m \in Manager |-> FALSE]
  /\ consumers = <<>>
  /\ value = [c \in Consumer |-> ZeroStruct]
  /\ online = [c \in Consumer |-> FALSE]
  /\ pending = [c \in Consumer |-> None]
  /\ origin = [c \in Consumer |-> [f \in Field |-> "zero"]]
  /\ lastAsked = [f \in Field |-> "nothing"]

(***************************************************************************)
(* What a struct reads back as after a trip through the string store: the  *)
(* store holds JS strings, so bytes that are not UTF-8 are replaced, which *)
(* damages the field and shifts every field encoded after it.              *)
(***************************************************************************)
AsText(s) ==
  [f \in Field |-> IF \E g \in 1..f : s[g] \in NonText \cup {Garbled}
                   THEN Garbled ELSE s[f]]

\* The sequences that list the set S of fields in declaration order (there is one).
InFieldOrder(S) ==
  {s \in UNION {[1..n -> S] : n \in 0..NumFields} :
     /\ \A f \in S : \E i \in DOMAIN s : s[i] = f
     /\ \A i, j \in DOMAIN s : i < j => s[i] < s[j]}

\* No listener is running: the event loop is between two callbacks.
Between == todo = <<>>
\* The microtask queue ran dry: the browser may start a task.
Idle == Between /\ queue = <<>>

\* The listener of module p for events of kind k is the next one to run.
Runs(p, k) == ~Between /\ Head(todo) = p /\ current.kind = k

\* Code of consumer c can run: from a task or the end of a callback, or, in the
\* middle of a delivery, from an effect that c's own listener has just triggered.
Acts(c) ==
  \/ Between
  \/ /\ current.kind \in ConsumerKinds
     /\ Len(todo) < Len(consumers)
     /\ consumers[Len(consumers) - Len(todo)] = c

-----------------------------------------------------------------------------
(***************************************************************************)
(* The topic manager.                                                      *)
(***************************************************************************)

\* _broadcastOnline of a manager whose fresh whole struct is w.
BroadcastOnline(w) ==
  /\ store' = AsText(w)
  /\ onlineSlot' = w
  /\ queue' = Append(queue, Online)

\* main(): seed from the store or the zero value, register, announce.
BootManager(m) ==
  /\ Idle /\ m \notin Elements(managers)
  /\ LET seed == IF store = None THEN ZeroStruct ELSE store IN
       /\ fields' = [fields EXCEPT ![m] = seed]
       /\ whole' = [whole EXCEPT ![m] = seed]
       /\ BroadcastOnline(seed)
  /\ managers' = Append(managers, m)
  /\ UNCHANGED <<reqSlot, reqFieldSlot, eventSlot, current, todo, dirty, consumerVars>>

\* Fields in which a whole-struct request differs from what the manager holds.
Changed_AgainstWhole(m, s) == {f \in Field : s[f] # whole[m][f]}
Changed(m, s) == {f \in Field : s[f] # fields[m][f]}

\* Whole-struct request: take and broadcast the fields that changed; when the whole
\* struct is out of date, rebuild it and refresh the store, with no event.
OnSetReq(m) ==
  /\ Runs(m, "req")
  /\ LET changed == Changed(m, reqSlot)
         new == [f \in Field |-> IF f \in changed THEN reqSlot[f] ELSE fields[m][f]]
         stale == dirty[m] \/ changed # {}
     IN /\ fields' = [fields EXCEPT ![m] = new]
        /\ eventSlot' = [f \in Field |-> IF f \in changed THEN reqSlot[f] ELSE eventSlot[f]]
        /\ \E s \in InFieldOrder(changed) :
             queue' = queue \o [i \in DOMAIN s |-> FieldEvent(s[i])]
        /\ dirty' = [dirty EXCEPT ![m] = FALSE]
        /\ whole' = IF stale THEN [whole EXCEPT ![m] = new] ELSE whole
        /\ store' = IF stale THEN AsText(new) ELSE store
  /\ todo' = Tail(todo)
  /\ UNCHANGED <<reqSlot, reqFieldSlot, onlineSlot, current, managers, consumerVars>>

\* BroadcastTopicEncodedField: the payload goes to its slot, the event to the queue.
BroadcastField_IfChanged(f, v) ==
  IF eventSlot[f] = v THEN UNCHANGED <<eventSlot, queue>>
  ELSE /\ eventSlot' = [eventSlot EXCEPT ![f] = v]
       /\ queue' = Append(queue, FieldEvent(f))
BroadcastField(f, v) ==
  /\ eventSlot' = [eventSlot EXCEPT ![f] = v]
  /\ queue' = Append(queue, FieldEvent(f))

\* The whole struct is rebuilt when something reads it.
MarkDirty_Forgotten(m) == UNCHANGED dirty
MarkDirty(m) == dirty' = [dirty EXCEPT ![m] = TRUE]

\* Per-field request: keep the bytes and always broadcast them back.
OnSetReqField(m) ==
  /\ Runs(m, "reqField")
  /\ LET f == current.field IN
       /\ fields' = [fields EXCEPT ![m][f] = reqFieldSlot[f]]
       /\ BroadcastField(f, reqFieldSlot[f])
  /\ MarkDirty(m)
  /\ todo' = Tail(todo)
  /\ UNCHANGED <<store, reqSlot, reqFieldSlot, onlineSlot, current, managers, whole, consumerVars>>

\* Ping: rebuild the whole struct if needed and announce it.
OnPing(m) ==
  /\ Runs(m, "ping")
  /\ LET w == IF dirty[m] THEN fields[m] ELSE whole[m] IN
       /\ whole' = [whole EXCEPT ![m] = w]
       /\ BroadcastOnline(w)
  /\ dirty' = [dirty EXCEPT ![m] = FALSE]
  /\ todo' = Tail(todo)
  /\ UNCHANGED <<reqSlot, reqFieldSlot, eventSlot, current, managers, fields, consumerVars>>

-----------------------------------------------------------------------------
(***************************************************************************)
(* The consumers.                                                          *)
(***************************************************************************)

\* The topic constructor: zero values, replaced by the store's when there are any.
BootConsumer(c) ==
  /\ Idle /\ c \notin Elements(consumers)
  /\ consumers' = Append(consumers, c)
  /\ IF store = None
     THEN UNCHANGED <<value, online, origin>>
     ELSE /\ value' = [value EXCEPT ![c] = store]
          /\ online' = [online EXCEPT ![c] = TRUE]
          /\ origin' = [origin EXCEPT ![c] = [f \in Field |-> "store"]]
  /\ UNCHANGED <<store, slots, queue, current, todo, managerVars, pending, lastAsked>>

RequestTopicSet_AsFieldRequest(s) ==
  /\ reqSlot' = s /\ lastAsked' = [f \in Field |-> "struct"]
  /\ queue' = Append(queue, SetReqField(0))
RequestTopicSet(s) ==
  /\ reqSlot' = s /\ lastAsked' = [f \in Field |-> "struct"]
  /\ queue' = Append(queue, SetReq)

\* topic.Set(s): a request when online, otherwise kept for the first online ack.
Set(c, s) ==
  /\ c \in Elements(consumers) /\ Acts(c) /\ Len(queue) < MaxQueue
  /\ IF online[c]
     THEN RequestTopicSet(s) /\ UNCHANGED pending
     ELSE pending' = [pending EXCEPT ![c] = s] /\ UNCHANGED <<reqSlot, queue, lastAsked>>
  /\ UNCHANGED <<store, reqFieldSlot, eventSlot, onlineSlot, current, todo,
                 managerVars, consumers, value, online, origin>>

\* topic.<Field>.Set(v): the local value changes at once and without notice to
\* subscribers; the request is dropped while the consumer is not online.
SetField(c, f, v) ==
  /\ c \in Elements(consumers) /\ Acts(c) /\ Len(queue) < MaxQueue
  /\ value' = [value EXCEPT ![c][f] = v]
  /\ origin' = [origin EXCEPT ![c][f] = IF online[c] THEN "requested" ELSE "dropped"]
  /\ IF online[c]
     THEN /\ reqFieldSlot' = [reqFieldSlot EXCEPT ![f] = v]
          /\ queue' = Append(queue, SetReqField(f))
          /\ lastAsked' = [lastAsked EXCEPT ![f] = "field"]
     ELSE UNCHANGED <<reqFieldSlot, queue, lastAsked>>
  /\ UNCHANGED <<store, reqSlot, eventSlot, onlineSlot, current, todo,
                 managerVars, consumers, online, pending>>

\* A field broadcast of the manager.
OnFieldEvent(c) ==
  /\ Runs(c, "event")
  /\ LET f == current.field IN
       /\ value' = [value EXCEPT ![c][f] = eventSlot[f]]
       /\ origin' = [origin EXCEPT ![c][f] = "manager"]
  /\ todo' = Tail(todo)
  /\ UNCHANGED <<store, slots, queue, current, managerVars, consumers, online, pending,
                 lastAsked>>

GoOnline_OnlyWithPending(c) ==
  IF ~online[c] /\ pending[c] # None
  THEN /\ online' = [online EXCEPT ![c] = TRUE]
       /\ RequestTopicSet(pending[c]) /\ pending' = [pending EXCEPT ![c] = None]
  ELSE UNCHANGED <<online, reqSlot, queue, pending, lastAsked>>
GoOnline_KeepPending(c) ==
  /\ online' = [online EXCEPT ![c] = TRUE]
  /\ IF ~online[c] /\ pending[c] # None
     THEN RequestTopicSet(pending[c]) /\ UNCHANGED pending
     ELSE UNCHANGED <<reqSlot, queue, pending, lastAsked>>
\* The first online ack turns the consumer online and flushes its pending struct.
GoOnline(c) ==
  /\ online' = [online EXCEPT ![c] = TRUE]
  /\ IF ~online[c] /\ pending[c] # None
     THEN RequestTopicSet(pending[c]) /\ pending' = [pending EXCEPT ![c] = None]
     ELSE UNCHANGED <<reqSlot, queue, pending, lastAsked>>

\* An online ack: every field is replaced, in one batch.
OnOnline(c) ==
  /\ Runs(c, "online")
  /\ value' = [value EXCEPT ![c] = onlineSlot]
  /\ origin' = [origin EXCEPT ![c] = [f \in Field |-> "manager"]]
  /\ GoOnline(c)
  /\ todo' = Tail(todo)
  /\ UNCHANGED <<store, reqFieldSlot, eventSlot, onlineSlot, current, managerVars, consumers>>

\* The batch ends, and runs the effects of the fields, before _online is set:
\* a field that an effect of the first ack sets is still not sent.
OnOnlineEffect(c, f, v) ==
  /\ Runs(c, "online") /\ ~online[c]
  /\ value' = [value EXCEPT ![c] = [onlineSlot EXCEPT ![f] = v]]
  /\ origin' = [origin EXCEPT ![c] = [g \in Field |-> IF g = f THEN "dropped" ELSE "manager"]]
  /\ GoOnline(c)
  /\ todo' = Tail(todo)
  /\ UNCHANGED <<store, reqFieldSlot, eventSlot, onlineSlot, current, managerVars, consumers>>

\* PingUntilOnline: one turn of the loop.  The ping is delivered synchronously.
PingTopicManager(c) ==
  /\ c \in Elements(consumers) /\ ~online[c]
  /\ Between /\ Len(queue) < MaxQueue
  /\ current' = Ping
  /\ todo' = managers
  /\ UNCHANGED <<store, slots, queue, managerVars, consumerVars>>

-----------------------------------------------------------------------------
\* A microtask: deliver the oldest queued event to the listeners of its name.
Dispatch ==
  /\ Between /\ queue # <<>>
  /\ current' = Head(queue)
  /\ queue' = Tail(queue)
  /\ todo' = IF Head(queue).kind \in ManagerKinds THEN managers ELSE consumers
  /\ UNCHANGED <<store, slots, managerVars, consumerVars>>

ManagerListens(m) == OnSetReq(m) \/ OnSetReqField(m) \/ OnPing(m)
ConsumerListens(c) ==
  \/ OnFieldEvent(c) \/ OnOnline(c)
  \/ \E f \in Field, v \in Value : OnOnlineEffect(c, f, v)
Writes(c) ==
  \/ \E s \in [Field -> Value] : Set(c, s)
  \/ \E f \in Field, v \in Value : SetField(c, f, v)

Next ==
  \/ Dispatch
  \/ \E m \in Manager : BootManager(m) \/ ManagerListens(m)
  \/ \E c \in Consumer : BootConsumer(c) \/ ConsumerListens(c)
                         \/ Writes(c) \/ PingTopicManager(c)

Spec == Init /\ [][Next]_vars

(***************************************************************************)
(* The browser keeps running microtasks and listeners, and loads the       *)
(* manager the page mounts; nothing forces a user, or a page, to write.    *)
(***************************************************************************)
Fairness ==
  /\ WF_vars(Dispatch)
  /\ \A m \in Manager : WF_vars(BootManager(m)) /\ WF_vars(ManagerListens(m))
  /\ \A c \in Consumer : WF_vars(ConsumerListens(c)) /\ WF_vars(PingTopicManager(c))

FairSpec == Spec /\ Fairness

-----------------------------------------------------------------------------
(***************************************************************************)
(* Properties.                                                             *)
(***************************************************************************)
MountedOnce(m) == Elements(managers) = {m}

(* Convergence: with one manager, once the queue is dry every value a      *)
(* consumer got from the manager, or asked it for, is the manager's value. *)
(* Requests are coalesced per event name, the local value of a field is    *)
(* overwritten before the manager hears of it, and an online ack can carry *)
(* a struct older than events already queued: the manager's unconditional  *)
(* answer to each per-field request is what repairs all of them.           *)
Converged ==
  Idle => \A m \in Manager, c \in Elements(consumers), f \in Field :
    MountedOnce(m) /\ origin[c][f] \in {"manager", "requested"}
      => value[c][f] = fields[m][f]

(* The deferred rebuild of the whole struct is never forgotten: a manager  *)
(* whose dirty flag is down has its current fields in its whole struct and *)
(* (when it is the only manager) in the store that later modules read.     *)
CleanMeansFresh ==
  \A m \in Elements(managers) : ~dirty[m] =>
    /\ whole[m] = fields[m]
    /\ MountedOnce(m) => store = AsText(fields[m])

(* Last writer wins: once the queue is dry, a field that was asked for has *)
(* the value of the last request that named it, per-field or whole-struct, *)
(* of whichever consumer: none is lost, or overtaken, between the payload  *)
(* slots (which hold one request of each name), the queue and the          *)
(* manager's diff.                                                         *)
LastRequestApplied ==
  Idle => \A m \in Manager, f \in Field : MountedOnce(m) =>
    /\ lastAsked[f] = "field" => fields[m][f] = reqFieldSlot[f]
    /\ lastAsked[f] = "struct" => fields[m][f] = reqSlot[f]

(* Every consumer that boots gets online, whether it or the manager is     *)
(* loaded first, however its pings and the boot announcement interleave.   *)
EventuallyOnline ==
  \A c \in Consumer : c \in Elements(consumers) ~> online[c]

(* A struct set before the manager is up is handed over, not kept forever. *)
PendingIsFlushed ==
  \A c \in Consumer : pending[c] # None ~> pending[c] = None
==============================================================================
