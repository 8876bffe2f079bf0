-------------------------- MODULE TopicSyncProofs --------------------------
(***************************************************************************)
(* Proofs about TopicSync, for any number of fields, values and modules.   *)
(***************************************************************************)
EXTENDS TopicSync, TLAPS

\* The events that still have a listener to run.
InFlight == Elements(queue) \cup (IF todo = <<>> THEN {} ELSE {current})

\* No event is delivered before its payload was written.
Filled ==
  /\ SetReq \in InFlight => reqSlot # None
  /\ Online \in InFlight => onlineSlot # None
  /\ \A f \in Field : SetReqField(f) \in InFlight => reqFieldSlot[f] # None
  /\ \A f \in Field : FieldEvent(f) \in InFlight => eventSlot[f] # None

TypeInv == TypeOK /\ Filled

-----------------------------------------------------------------------------
(* What appending, concatenating and taking the tail do to the elements    *)
(* of a sequence (the microtask queue, the listeners left to run).         *)
LEMMA ElementsAppend ==
  ASSUME NEW S, NEW s \in Seq(S), NEW x \in S
  PROVE  Elements(Append(s, x)) = Elements(s) \cup {x}
<1>1. /\ DOMAIN s = 1..Len(s) /\ Len(s) \in Nat
      /\ DOMAIN Append(s, x) = 1..(Len(s) + 1)
      /\ \A i \in 1..Len(s) : Append(s, x)[i] = s[i]
      /\ Append(s, x)[Len(s) + 1] = x
  OBVIOUS
<1>2. 1..(Len(s) + 1) = 1..Len(s) \cup {Len(s) + 1}
  BY <1>1
<1>3. QED BY <1>1, <1>2 DEF Elements

LEMMA ElementsConcat ==
  ASSUME NEW S, NEW s \in Seq(S), NEW t \in Seq(S)
  PROVE  Elements(s \o t) = Elements(s) \cup Elements(t)
<1>1. ASSUME NEW x \in Elements(t) PROVE x \in Elements(s \o t)
  <2>1. PICK i \in DOMAIN t : t[i] = x
    BY <1>1 DEF Elements
  <2>2. /\ i \in 1..Len(t) /\ Len(s) \in Nat /\ Len(t) \in Nat
        /\ DOMAIN (s \o t) = 1..(Len(s) + Len(t))
    BY <2>1
  <2>3. Len(s) + i \in DOMAIN (s \o t) /\ (s \o t)[Len(s) + i] = t[i]
    BY <2>2
  <2>4. QED BY <2>1, <2>3 DEF Elements
<1>2. ASSUME NEW x \in Elements(s) PROVE x \in Elements(s \o t)
  <2>1. PICK i \in DOMAIN s : s[i] = x
    BY <1>2 DEF Elements
  <2>2. i \in DOMAIN (s \o t) /\ (s \o t)[i] = s[i]
    BY <2>1
  <2>3. QED BY <2>1, <2>2 DEF Elements
<1>3. ASSUME NEW x \in Elements(s \o t) PROVE x \in Elements(s) \cup Elements(t)
  <2>1. PICK i \in DOMAIN (s \o t) : (s \o t)[i] = x
    BY <1>3 DEF Elements
  <2>2. CASE i <= Len(s)
    <3>1. i \in DOMAIN s /\ (s \o t)[i] = s[i]
      BY <2>1, <2>2
    <3>2. QED BY <2>1, <3>1 DEF Elements
  <2>3. CASE ~(i <= Len(s))
    <3>1. i - Len(s) \in DOMAIN t /\ (s \o t)[i] = t[i - Len(s)]
      BY <2>1, <2>3
    <3>2. QED BY <2>1, <3>1 DEF Elements
  <2>4. QED BY <2>2, <2>3
<1>4. QED BY <1>1, <1>2, <1>3

LEMMA ElementsTail ==
  ASSUME NEW S, NEW s \in Seq(S), s # <<>>
  PROVE  /\ Head(s) \in S /\ Tail(s) \in Seq(S)
         /\ Elements(s) = {Head(s)} \cup Elements(Tail(s))
<1>1. ASSUME NEW x \in Elements(s), x # Head(s) PROVE x \in Elements(Tail(s))
  <2>1. PICK i \in DOMAIN s : s[i] = x
    BY <1>1 DEF Elements
  <2>2. i - 1 \in DOMAIN Tail(s) /\ Tail(s)[i - 1] = x
    BY <1>1, <2>1
  <2>3. QED BY <2>2 DEF Elements
<1>2. ASSUME NEW x \in Elements(Tail(s)) PROVE x \in Elements(s)
  <2>1. PICK i \in DOMAIN Tail(s) : Tail(s)[i] = x
    BY <1>2 DEF Elements
  <2>2. i + 1 \in DOMAIN s /\ s[i + 1] = x
    BY <2>1
  <2>3. QED BY <2>2 DEF Elements
<1>3. QED BY <1>1, <1>2 DEF Elements

(* The broadcasts of a whole-struct request are queued once for each field *)
(* that changed.                                                           *)
LEMMA Broadcasts ==
  ASSUME NEW S \in SUBSET Field, NEW s \in InFieldOrder(S)
  PROVE  LET t == [i \in DOMAIN s |-> FieldEvent(s[i])]
         IN t \in Seq(Queued) /\ Elements(t) = {FieldEvent(f) : f \in S}
<1>1. PICK n \in 0..NumFields : s \in [1..n -> S]
  BY DEF InFieldOrder
<1>2. n \in Nat /\ DOMAIN s = 1..n
  BY <1>1, FieldsAssumption
<1>3. \A f \in S : \E i \in 1..n : s[i] = f
  BY <1>2 DEF InFieldOrder
<1>4. \A i \in 1..n : FieldEvent(s[i]) \in Queued
  BY <1>1 DEF Queued
<1>5. [i \in 1..n |-> FieldEvent(s[i])] \in Seq(Queued)
  BY <1>2, <1>4
<1>6. QED BY <1>1, <1>2, <1>3, <1>5 DEF Elements

(* The event names are distinct, and their kinds say who listens to them.  *)
LEMMA Names ==
  /\ SetReq \in Queued /\ Online \in Queued
  /\ SetReq # Online /\ SetReq # Ping /\ Online # Ping
  /\ SetReq.kind = "req" /\ Online.kind = "online" /\ Ping.kind = "ping"
  /\ \A f \in Field :
       /\ SetReqField(f) \in Queued /\ FieldEvent(f) \in Queued
       /\ SetReqField(f).kind = "reqField" /\ FieldEvent(f).kind = "event"
       /\ SetReqField(f).field = f /\ FieldEvent(f).field = f
  /\ \A e \in Queued \cup {Ping} :
       /\ e.kind \in ManagerKinds <=> e.kind \notin ConsumerKinds
       /\ e.kind = "req" => e = SetReq
       /\ e.kind = "online" => e = Online
       /\ e.kind = "ping" => e = Ping
       /\ e.kind = "reqField" => e.field \in Field /\ e = SetReqField(e.field)
       /\ e.kind = "event" => e.field \in Field /\ e = FieldEvent(e.field)
<1> USE DEF SetReq, Online, Ping, SetReqField, FieldEvent
<1>1. SetReq \in Queued /\ Online \in Queued
  BY DEF Queued
<1>2. SetReq # Online /\ SetReq # Ping /\ Online # Ping
  OBVIOUS
<1>3. SetReq.kind = "req" /\ Online.kind = "online" /\ Ping.kind = "ping"
  OBVIOUS
<1>4. ASSUME NEW f \in Field
      PROVE  /\ SetReqField(f) \in Queued /\ FieldEvent(f) \in Queued
             /\ SetReqField(f).kind = "reqField" /\ FieldEvent(f).kind = "event"
             /\ SetReqField(f).field = f /\ FieldEvent(f).field = f
  BY DEF Queued
<1>5. ASSUME NEW e \in Queued \cup {Ping}
      PROVE  /\ e.kind \in ManagerKinds <=> e.kind \notin ConsumerKinds
             /\ e.kind = "req" => e = SetReq
             /\ e.kind = "online" => e = Online
             /\ e.kind = "ping" => e = Ping
             /\ e.kind = "reqField" => e.field \in Field /\ e = SetReqField(e.field)
             /\ e.kind = "event" => e.field \in Field /\ e = FieldEvent(e.field)
  <2>1. CASE e \in {SetReq, Online, Ping}
    BY <2>1 DEF ManagerKinds, ConsumerKinds
  <2>2. CASE \E f \in Field : e = SetReqField(f)
    BY <2>2 DEF ManagerKinds, ConsumerKinds
  <2>3. CASE \E f \in Field : e = FieldEvent(f)
    BY <2>3 DEF ManagerKinds, ConsumerKinds
  <2>4. QED BY <2>1, <2>2, <2>3 DEF Queued
<1>6. QED BY <1>1, <1>2, <1>3, <1>4, <1>5

(* A listener that runs leaves the list of listeners still to run.         *)
LEMMA ListenerRuns ==
  ASSUME TypeOK, NEW p, NEW k \in ManagerKinds \cup ConsumerKinds, Runs(p, k),
         current' = current, todo' = Tail(todo)
  PROVE  /\ current \in Queued \cup {Ping} /\ current.kind = k
         /\ current \in InFlight
         /\ IF current'.kind \in ManagerKinds
            THEN todo' \in Seq(Manager) ELSE todo' \in Seq(Consumer)
         /\ k \in ManagerKinds => p \in Manager
         /\ k \in ConsumerKinds => p \in Consumer
<1>1. todo # <<>> /\ current.kind = k /\ Head(todo) = p
  BY DEF Runs, Between
<1>2. current \in Queued \cup {Ping} /\ current \in InFlight
  BY <1>1 DEF TypeOK, InFlight
<1>3. CASE k \in ManagerKinds
  BY <1>1, <1>2, <1>3, ElementsTail, Names DEF TypeOK
<1>4. CASE k \in ConsumerKinds
  BY <1>1, <1>2, <1>4, ElementsTail, Names DEF TypeOK
<1>5. QED BY <1>1, <1>2, <1>3, <1>4

(* What is in flight after a listener queued the sequence of events t.     *)
LEMMA InFlightAfter ==
  ASSUME TypeOK, NEW t \in Seq(Queued), queue' = queue \o t,
         todo' = todo \/ (todo' = Tail(todo) /\ todo # <<>>), current' = current
  PROVE  queue' \in Seq(Queued) /\ InFlight' \subseteq InFlight \cup Elements(t)
<1>1. queue \in Seq(Queued)
  BY DEF TypeOK
<1>2. queue' \in Seq(Queued) /\ Elements(queue') = Elements(queue) \cup Elements(t)
  BY <1>1, ElementsConcat
<1>3. todo' # <<>> => todo # <<>>
  OBVIOUS
<1>4. QED BY <1>2, <1>3 DEF InFlight

LEMMA InFlightAppend ==
  ASSUME TypeOK, NEW e \in Queued, queue' = Append(queue, e),
         todo' = todo \/ (todo' = Tail(todo) /\ todo # <<>>), current' = current
  PROVE  queue' \in Seq(Queued) /\ InFlight' \subseteq InFlight \cup {e}
<1>1. queue \in Seq(Queued)
  BY DEF TypeOK
<1>2. queue' \in Seq(Queued) /\ Elements(queue') = Elements(queue) \cup {e}
  BY <1>1, ElementsAppend
<1>3. todo' # <<>> => todo # <<>>
  OBVIOUS
<1>4. QED BY <1>2, <1>3 DEF InFlight

LEMMA InFlightSame ==
  ASSUME TypeOK, queue' = queue,
         todo' = todo \/ (todo' = Tail(todo) /\ todo # <<>>), current' = current
  PROVE  InFlight' \subseteq InFlight
<1>1. todo' # <<>> => todo # <<>>
  OBVIOUS
<1>2. QED BY <1>1 DEF InFlight, Elements

(* A struct read back from the store is a struct.                          *)
LEMMA AsTextType ==
  ASSUME NEW s \in Struct PROVE AsText(s) \in Struct
BY DEF AsText, Struct, Datum

-----------------------------------------------------------------------------
(* Every handler keeps the types and never reads an empty payload slot.    *)
LEMMA TypeInvInit == Init => TypeInv
<1> SUFFICES ASSUME Init PROVE TypeInv
  OBVIOUS
<1>1. TypeOK
  BY ValueAssumption, Names DEF Init, TypeOK, Struct, Datum, ZeroStruct, Origins
<1>2. InFlight = {}
  BY DEF Init, InFlight, Elements
<1>3. QED BY <1>1, <1>2 DEF TypeInv, Filled

LEMMA TypeInvManager ==
  ASSUME TypeInv, NEW m \in Manager, BootManager(m) \/ ManagerListens(m)
  PROVE  TypeInv'
<1> USE DEF TypeInv
<1>1. CASE BootManager(m)
  <2> DEFINE seed == IF store = None THEN ZeroStruct ELSE store
  <2>1. seed \in Struct
    BY ValueAssumption DEF TypeOK, ZeroStruct, Struct, Datum
  <2>2. AsText(seed) \in Struct
    BY <2>1, AsTextType
  <2>3. /\ queue' = Append(queue, Online) /\ onlineSlot' = seed /\ store' = AsText(seed)
        /\ todo' = todo /\ current' = current
    BY <1>1 DEF BootManager, BroadcastOnline
  <2> HIDE DEF seed
  <2>4. queue' \in Seq(Queued) /\ InFlight' \subseteq InFlight \cup {Online}
    <3>1. Online \in Queued
      BY Names
    <3>2. queue' = Append(queue, Online) /\ queue \in Seq(Queued)
      BY <2>3 DEF TypeOK
    <3>3. queue' \in Seq(Queued) /\ Elements(queue') = Elements(queue) \cup {Online}
      BY <3>1, <3>2, ElementsAppend
    <3>4. QED BY <2>3, <3>3 DEF InFlight
  <2>5. TypeOK'
    <3>1. /\ fields' = [fields EXCEPT ![m] = seed] /\ whole' = [whole EXCEPT ![m] = seed]
          /\ managers' = Append(managers, m)
          /\ UNCHANGED <<reqSlot, reqFieldSlot, eventSlot, dirty>>
          /\ UNCHANGED <<consumers, value, online, pending, origin, lastAsked>>
      BY <1>1 DEF BootManager, consumerVars, seed
    <3>2. QED BY <2>1, <2>2, <2>3, <2>4, <3>1 DEF TypeOK
  <2>6. seed # None
    BY <2>1, NoneIsNoStruct DEF Struct, Field, Datum
  <2>7. Filled'
    BY <1>1, <2>3, <2>4, <2>6, Names DEF Filled, BootManager
  <2>8. QED BY <2>5, <2>7
<1>2. CASE OnSetReq(m)
  <2>1. PICK s \in InFieldOrder(Changed(m, reqSlot)) :
          queue' = queue \o [i \in DOMAIN s |-> FieldEvent(s[i])]
    BY <1>2 DEF OnSetReq
  <2> DEFINE changed == Changed(m, reqSlot)
             new == [f \in Field |-> IF f \in changed THEN reqSlot[f] ELSE fields[m][f]]
             t == [i \in DOMAIN s |-> FieldEvent(s[i])]
  <2>2. /\ current = SetReq /\ SetReq \in InFlight
        /\ todo' \in Seq(Manager) /\ current'.kind \in ManagerKinds
        /\ todo' = Tail(todo) /\ todo # <<>> /\ current' = current
    BY <1>2, ListenerRuns, Names DEF OnSetReq, ManagerKinds, Runs, Between
  <2>3. reqSlot \in Struct
    BY <2>2 DEF Filled, TypeOK
  <2>4. new \in Struct
    BY <2>3 DEF TypeOK, Struct
  <2>5. AsText(new) \in Struct
    BY <2>4, AsTextType
  <2>6. changed \in SUBSET Field
    BY DEF Changed
  <2>7. t \in Seq(Queued) /\ Elements(t) = {FieldEvent(f) : f \in changed}
    BY <2>6, Broadcasts
  <2> HIDE DEF t
  <2>8. queue' = queue \o t
    BY <2>1 DEF t
  <2>9. queue' \in Seq(Queued) /\ InFlight' \subseteq InFlight \cup {FieldEvent(f) : f \in changed}
    BY <2>2, <2>7, <2>8, InFlightAfter
  <2>10. eventSlot' = [f \in Field |-> IF f \in changed THEN reqSlot[f] ELSE eventSlot[f]]
    BY <1>2 DEF OnSetReq
  <2>11. eventSlot' \in [Field -> Datum \cup {None}]
    BY <2>3, <2>10 DEF TypeOK, Struct
  <2>12. /\ fields' = [fields EXCEPT ![m] = new]
         /\ dirty' = [dirty EXCEPT ![m] = FALSE]
         /\ whole' \in {whole, [whole EXCEPT ![m] = new]}
         /\ store' \in {store, AsText(new)}
         /\ UNCHANGED <<reqSlot, reqFieldSlot, onlineSlot, current, managers>>
         /\ UNCHANGED <<consumers, value, online, pending, origin, lastAsked>>
    BY <1>2 DEF OnSetReq, consumerVars
  <2> HIDE DEF new, changed
  <2>13. TypeOK'
    BY <2>2, <2>4, <2>5, <2>9, <2>11, <2>12 DEF TypeOK
  <2>14. \A f \in changed : reqSlot[f] # None
    BY <2>3, <2>6, ValueAssumption DEF Struct, Datum
  <2>15. ASSUME NEW f \in Field, FieldEvent(f) \in InFlight' PROVE eventSlot'[f] # None
    <3>1. FieldEvent(f) \in InFlight \/ f \in changed
      BY <2>6, <2>9, <2>15, Names
    <3>2. QED BY <2>10, <2>14, <3>1 DEF Filled
  <2>16. Filled'
    <3>1. ASSUME NEW e \in InFlight', \A f \in Field : e # FieldEvent(f) PROVE e \in InFlight
      BY <3>1, <2>6, <2>9
    <3>2. \A f \in Field : SetReqField(f) \in InFlight' => SetReqField(f) \in InFlight
      BY <3>1, Names
    <3>3. /\ SetReq \in InFlight' => SetReq \in InFlight
          /\ Online \in InFlight' => Online \in InFlight
      BY <3>1, Names
    <3>4. QED BY <2>12, <2>15, <3>2, <3>3 DEF Filled
  <2>17. QED BY <2>13, <2>16
<1>3. CASE OnSetReqField(m)
  <2> DEFINE f == current.field
  <2>1. /\ f \in Field /\ SetReqField(f) \in InFlight
        /\ todo' \in Seq(Manager) /\ current'.kind \in ManagerKinds
        /\ todo' = Tail(todo) /\ todo # <<>> /\ current' = current
    BY <1>3, ListenerRuns, Names DEF OnSetReqField, ManagerKinds, Runs, Between
  <2>2. /\ eventSlot' = [eventSlot EXCEPT ![f] = reqFieldSlot[f]]
        /\ queue' = Append(queue, FieldEvent(f))
        /\ fields' = [fields EXCEPT ![m][f] = reqFieldSlot[f]]
        /\ dirty' = [dirty EXCEPT ![m] = TRUE]
    BY <1>3 DEF OnSetReqField, BroadcastField, MarkDirty
  <2> HIDE DEF f
  <2>3. reqFieldSlot[f] \in Datum /\ reqFieldSlot[f] # None
    BY <2>1 DEF Filled, TypeOK
  <2>4. queue' \in Seq(Queued) /\ InFlight' \subseteq InFlight \cup {FieldEvent(f)}
    BY <2>1, <2>2, InFlightAppend, Names
  <2>5. TypeOK'
    <3>1. /\ UNCHANGED <<store, reqSlot, reqFieldSlot, onlineSlot, current, managers, whole>>
          /\ UNCHANGED <<consumers, value, online, pending, origin, lastAsked>>
      BY <1>3 DEF OnSetReqField, consumerVars
    <3>2. fields' \in [Manager -> Struct]
      BY <2>1, <2>2, <2>3 DEF TypeOK, Struct
    <3>3. eventSlot' \in [Field -> Datum \cup {None}] /\ dirty' \in [Manager -> BOOLEAN]
      BY <2>1, <2>2, <2>3 DEF TypeOK
    <3>4. QED BY <2>1, <2>4, <3>1, <3>2, <3>3 DEF TypeOK
  <2>6. Filled'
    <3>1. UNCHANGED <<reqSlot, reqFieldSlot, onlineSlot>>
      BY <1>3 DEF OnSetReqField
    <3>2. ASSUME NEW e \in InFlight', e # FieldEvent(f) PROVE e \in InFlight
      BY <3>2, <2>4
    <3>3. /\ SetReq \in InFlight' => SetReq \in InFlight
          /\ Online \in InFlight' => Online \in InFlight
          /\ \A g \in Field : SetReqField(g) \in InFlight' => SetReqField(g) \in InFlight
      BY <3>2, <2>1, Names
    <3>4. ASSUME NEW g \in Field, FieldEvent(g) \in InFlight' PROVE eventSlot'[g] # None
      <4>1. g = f \/ FieldEvent(g) \in InFlight
        BY <2>1, <3>2, <3>4, Names
      <4>2. eventSlot \in [Field -> Datum \cup {None}]
        BY DEF TypeOK
      <4>3. QED BY <2>1, <2>2, <2>3, <4>1, <4>2 DEF Filled
    <3>5. QED BY <3>1, <3>3, <3>4 DEF Filled
  <2>7. QED BY <2>5, <2>6
<1>4. CASE OnPing(m)
  <2> DEFINE w == IF dirty[m] THEN fields[m] ELSE whole[m]
  <2>1. w \in Struct /\ AsText(w) \in Struct
    BY AsTextType DEF TypeOK
  <2>2. /\ todo' \in Seq(Manager) /\ current'.kind \in ManagerKinds
        /\ todo' = Tail(todo) /\ todo # <<>> /\ current' = current
    BY <1>4, ListenerRuns, Names DEF OnPing, ManagerKinds, Runs, Between
  <2>3. /\ whole' = [whole EXCEPT ![m] = w] /\ dirty' = [dirty EXCEPT ![m] = FALSE]
        /\ store' = AsText(w) /\ onlineSlot' = w /\ queue' = Append(queue, Online)
    BY <1>4 DEF OnPing, BroadcastOnline
  <2> HIDE DEF w
  <2>4. queue' \in Seq(Queued) /\ InFlight' \subseteq InFlight \cup {Online}
    BY <2>2, <2>3, InFlightAppend, Names
  <2>5. TypeOK'
    BY <1>4, <2>1, <2>2, <2>3, <2>4 DEF TypeOK, OnPing, consumerVars
  <2>6. w # None
    BY <2>1, NoneIsNoStruct DEF Struct, Field, Datum
  <2>7. Filled'
    BY <1>4, <2>3, <2>4, <2>6, Names DEF Filled, OnPing
  <2>8. QED BY <2>5, <2>7
<1>5. QED BY <1>1, <1>2, <1>3, <1>4 DEF ManagerListens

(* Turning online flushes a pending struct as one whole-struct request.    *)
LEMMA GoOnlineKeeps ==
  ASSUME TypeInv, NEW c \in Consumer, GoOnline(c),
         todo' = Tail(todo), todo # <<>>, current' = current
  PROVE  /\ online' \in [Consumer -> BOOLEAN]
         /\ pending' \in [Consumer -> Struct \cup {None}]
         /\ reqSlot' \in Struct \cup {None}
         /\ queue' \in Seq(Queued) /\ InFlight' \subseteq InFlight \cup {SetReq}
         /\ SetReq \in InFlight' => reqSlot' # None
         /\ lastAsked' \in [Field -> {"nothing", "struct", "field"}]
<1> USE DEF TypeInv
<1>1. online' \in [Consumer -> BOOLEAN]
  BY DEF GoOnline, TypeOK
<1>2. CASE ~online[c] /\ pending[c] # None
  <2>1. /\ reqSlot' = pending[c] /\ queue' = Append(queue, SetReq)
        /\ pending' = [pending EXCEPT ![c] = None]
        /\ lastAsked' = [f \in Field |-> "struct"]
    BY <1>2 DEF GoOnline, RequestTopicSet
  <2>2. pending[c] \in Struct
    BY <1>2 DEF TypeOK
  <2>3. queue' \in Seq(Queued) /\ InFlight' \subseteq InFlight \cup {SetReq}
    BY <2>1, InFlightAppend, Names
  <2>4. QED BY <1>1, <1>2, <2>1, <2>2, <2>3 DEF TypeOK
<1>3. CASE ~(~online[c] /\ pending[c] # None)
  <2>1. UNCHANGED <<reqSlot, queue, pending, lastAsked>>
    BY <1>3 DEF GoOnline
  <2>2. InFlight' \subseteq InFlight
    BY <2>1, InFlightSame
  <2>3. QED BY <1>1, <2>1, <2>2 DEF TypeOK, Filled
<1>4. QED BY <1>2, <1>3

LEMMA TypeInvConsumer ==
  ASSUME TypeInv, NEW c \in Consumer, BootConsumer(c) \/ ConsumerListens(c)
  PROVE  TypeInv'
<1> USE DEF TypeInv
<1>1. CASE BootConsumer(c)
  <2>1. /\ UNCHANGED <<store, reqSlot, reqFieldSlot, eventSlot, onlineSlot, queue, current, todo>>
        /\ UNCHANGED <<managers, fields, whole, dirty, pending, lastAsked>>
        /\ consumers' = Append(consumers, c)
        /\ \/ store = None /\ UNCHANGED <<value, online, origin>>
           \/ /\ store # None /\ value' = [value EXCEPT ![c] = store]
              /\ online' = [online EXCEPT ![c] = TRUE]
              /\ origin' = [origin EXCEPT ![c] = [f \in Field |-> "store"]]
    BY <1>1 DEF BootConsumer, slots, managerVars
  <2>2. [f \in Field |-> "store"] \in [Field -> Origins]
    BY DEF Origins
  <2>3. TypeOK'
    <3>1. consumers' \in Seq(Consumer)
      BY <2>1 DEF TypeOK
    <3>2. /\ value' \in [Consumer -> Struct] /\ online' \in [Consumer -> BOOLEAN]
          /\ origin' \in [Consumer -> [Field -> Origins]]
      <4>1. CASE store = None
        BY <2>1, <4>1 DEF TypeOK
      <4>2. CASE store # None
        <5>1. store \in Struct
          BY <4>2 DEF TypeOK
        <5>2. QED BY <2>1, <2>2, <4>2, <5>1 DEF TypeOK
      <4>3. QED BY <4>1, <4>2
    <3>3. QED BY <2>1, <3>1, <3>2 DEF TypeOK
  <2>4. InFlight' = InFlight
    BY <2>1 DEF InFlight, Elements
  <2>5. QED BY <2>1, <2>3, <2>4 DEF Filled
<1>2. CASE OnFieldEvent(c)
  <2> DEFINE f == current.field
  <2>1. /\ f \in Field /\ FieldEvent(f) \in InFlight
        /\ todo' \in Seq(Consumer) /\ current'.kind \notin ManagerKinds
        /\ todo' = Tail(todo) /\ todo # <<>> /\ current' = current
    BY <1>2, ListenerRuns, Names DEF OnFieldEvent, ManagerKinds, ConsumerKinds, Runs, Between
  <2>2. /\ value' = [value EXCEPT ![c][f] = eventSlot[f]]
        /\ origin' = [origin EXCEPT ![c][f] = "manager"]
        /\ UNCHANGED <<store, reqSlot, reqFieldSlot, eventSlot, onlineSlot, queue>>
        /\ UNCHANGED <<managers, fields, whole, dirty, consumers, online, pending, lastAsked>>
    BY <1>2 DEF OnFieldEvent, slots, managerVars
  <2> HIDE DEF f
  <2>3. eventSlot[f] \in Datum
    BY <2>1 DEF Filled, TypeOK
  <2>4. value' \in [Consumer -> Struct] /\ origin' \in [Consumer -> [Field -> Origins]]
    BY <2>1, <2>2, <2>3 DEF TypeOK, Struct, Origins
  <2>5. TypeOK'
    BY <2>1, <2>2, <2>4 DEF TypeOK
  <2>6. InFlight' \subseteq InFlight
    BY <2>1, <2>2, InFlightSame
  <2>7. QED BY <2>2, <2>5, <2>6 DEF Filled
<1>3. ASSUME NEW s, NEW o, s \in [Field -> Datum], o \in [Field -> Origins],
             Runs(c, "online"), GoOnline(c), todo' = Tail(todo),
             onlineSlot \in Struct => value' = [value EXCEPT ![c] = s],
             origin' = [origin EXCEPT ![c] = o],
             UNCHANGED <<store, reqFieldSlot, eventSlot, onlineSlot, current>>,
             UNCHANGED <<managers, fields, whole, dirty, consumers>>
      PROVE  TypeInv'
  <2>1. /\ Online \in InFlight /\ current' = current /\ todo # <<>>
        /\ todo' \in Seq(Consumer) /\ current'.kind \notin ManagerKinds
    BY <1>3, ListenerRuns, Names DEF ManagerKinds, ConsumerKinds, Runs, Between
  <2>2. /\ online' \in [Consumer -> BOOLEAN]
        /\ pending' \in [Consumer -> Struct \cup {None}]
        /\ reqSlot' \in Struct \cup {None}
        /\ queue' \in Seq(Queued) /\ InFlight' \subseteq InFlight \cup {SetReq}
        /\ SetReq \in InFlight' => reqSlot' # None
        /\ lastAsked' \in [Field -> {"nothing", "struct", "field"}]
    BY <1>3, <2>1, GoOnlineKeeps
  <2>3. onlineSlot \in Struct
    BY <2>1 DEF Filled, TypeOK
  <2>4. TypeOK'
    BY <1>3, <2>1, <2>2, <2>3 DEF TypeOK, Struct
  <2>5. \A e \in InFlight' : e # SetReq => e \in InFlight
    BY <2>2
  <2>6. \A f \in Field : /\ SetReqField(f) \in InFlight' => SetReqField(f) \in InFlight
                         /\ FieldEvent(f) \in InFlight' => FieldEvent(f) \in InFlight
    BY <2>5, Names
  <2>7. QED BY <1>3, <2>1, <2>2, <2>4, <2>6 DEF Filled
<1>4. CASE OnOnline(c)
  <2> DEFINE o == [f \in Field |-> "manager"]
  <2>1. o \in [Field -> Origins]
    BY DEF Origins
  <2>2. Online \in InFlight
    BY <1>4, ListenerRuns, Names DEF OnOnline, ConsumerKinds
  <2>3. onlineSlot \in [Field -> Datum]
    BY <2>2 DEF Filled, TypeOK, Struct
  <2>4. /\ Runs(c, "online") /\ GoOnline(c) /\ todo' = Tail(todo)
        /\ value' = [value EXCEPT ![c] = onlineSlot] /\ origin' = [origin EXCEPT ![c] = o]
        /\ UNCHANGED <<store, reqFieldSlot, eventSlot, onlineSlot, current>>
        /\ UNCHANGED <<managers, fields, whole, dirty, consumers>>
    BY <1>4 DEF OnOnline, managerVars
  <2> HIDE DEF o
  <2>5. QED BY <1>3, <2>1, <2>3, <2>4
<1>5. CASE \E f \in Field, v \in Value : OnOnlineEffect(c, f, v)
  <2>1. PICK f \in Field, v \in Value : OnOnlineEffect(c, f, v)
    BY <1>5
  <2> DEFINE o == [g \in Field |-> IF g = f THEN "dropped" ELSE "manager"]
             s == [onlineSlot EXCEPT ![f] = v]
  <2>2. o \in [Field -> Origins]
    BY DEF Origins
  <2>3. Online \in InFlight /\ current' = current
    BY <2>1, ListenerRuns, Names DEF OnOnlineEffect, ConsumerKinds
  <2>4. s \in [Field -> Datum]
    BY <2>3 DEF Filled, TypeOK, Struct, Datum
  <2>5. /\ Runs(c, "online") /\ GoOnline(c) /\ todo' = Tail(todo)
        /\ value' = [value EXCEPT ![c] = s] /\ origin' = [origin EXCEPT ![c] = o]
        /\ UNCHANGED <<store, reqFieldSlot, eventSlot, onlineSlot, current>>
        /\ UNCHANGED <<managers, fields, whole, dirty, consumers>>
    BY <2>1 DEF OnOnlineEffect, managerVars
  <2> HIDE DEF o, s
  <2>6. QED BY <1>3, <2>2, <2>4, <2>5
<1>6. QED BY <1>1, <1>2, <1>4, <1>5 DEF ConsumerListens

LEMMA TypeInvWrites ==
  ASSUME TypeInv, NEW c \in Consumer, Writes(c) \/ PingTopicManager(c)
  PROVE  TypeInv'
<1> USE DEF TypeInv
<1>1. CASE \E s \in [Field -> Value] : Set(c, s)
  <2>1. PICK s \in [Field -> Value] : Set(c, s)
    BY <1>1
  <2>2. s \in Struct /\ s # None
    BY NoneIsNoStruct DEF Struct, Datum, Field
  <2>3. /\ UNCHANGED <<store, reqFieldSlot, eventSlot, onlineSlot, current, todo>>
        /\ UNCHANGED <<managers, fields, whole, dirty, consumers, value, online, origin>>
    BY <2>1 DEF Set, managerVars
  <2>4. CASE online[c]
    <3>1. /\ reqSlot' = s /\ queue' = Append(queue, SetReq) /\ pending' = pending
          /\ lastAsked' = [f \in Field |-> "struct"]
      BY <2>1, <2>4 DEF Set, RequestTopicSet
    <3>2. queue \in Seq(Queued) /\ SetReq \in Queued
      BY Names DEF TypeOK
    <3>3. queue' \in Seq(Queued) /\ Elements(queue') = Elements(queue) \cup {SetReq}
      BY <3>1, <3>2, ElementsAppend
    <3>4. InFlight' \subseteq InFlight \cup {SetReq}
      BY <2>3, <3>3 DEF InFlight
    <3>5. TypeOK'
      BY <2>2, <2>3, <3>1, <3>3 DEF TypeOK
    <3>6. \A f \in Field : /\ SetReqField(f) \in InFlight' => SetReqField(f) \in InFlight
                           /\ FieldEvent(f) \in InFlight' => FieldEvent(f) \in InFlight
                           /\ Online \in InFlight' => Online \in InFlight
      BY <3>4, Names
    <3>7. Filled'
      BY <2>2, <2>3, <3>1, <3>4, <3>6, Names DEF Filled
    <3>8. QED BY <3>5, <3>7
  <2>5. CASE ~online[c]
    <3>1. pending' = [pending EXCEPT ![c] = s] /\ UNCHANGED <<reqSlot, queue, lastAsked>>
      BY <2>1, <2>5 DEF Set
    <3>2. InFlight' = InFlight
      BY <2>3, <3>1 DEF InFlight, Elements
    <3>3. TypeOK'
      BY <2>2, <2>3, <3>1 DEF TypeOK
    <3>4. QED BY <2>3, <3>1, <3>2, <3>3 DEF Filled
  <2>6. QED BY <2>4, <2>5
<1>2. CASE \E f \in Field, v \in Value : SetField(c, f, v)
  <2>1. PICK f \in Field, v \in Value : SetField(c, f, v)
    BY <1>2
  <2>2. v \in Datum /\ v # None
    BY ValueAssumption DEF Datum
  <2>3. /\ UNCHANGED <<store, reqSlot, eventSlot, onlineSlot, current, todo>>
        /\ UNCHANGED <<managers, fields, whole, dirty, consumers, online, pending>>
        /\ value' = [value EXCEPT ![c][f] = v]
        /\ origin' = [origin EXCEPT ![c][f] = IF online[c] THEN "requested" ELSE "dropped"]
    BY <2>1 DEF SetField, managerVars
  <2>4. value' \in [Consumer -> Struct] /\ origin' \in [Consumer -> [Field -> Origins]]
    BY <2>2, <2>3 DEF TypeOK, Struct, Origins
  <2>5. CASE online[c]
    <3>1. /\ reqFieldSlot' = [reqFieldSlot EXCEPT ![f] = v]
          /\ queue' = Append(queue, SetReqField(f))
          /\ lastAsked' = [lastAsked EXCEPT ![f] = "field"]
      BY <2>1, <2>5 DEF SetField
    <3>2. queue \in Seq(Queued) /\ SetReqField(f) \in Queued
      BY Names DEF TypeOK
    <3>3. queue' \in Seq(Queued) /\ Elements(queue') = Elements(queue) \cup {SetReqField(f)}
      BY <3>1, <3>2, ElementsAppend
    <3>4. InFlight' \subseteq InFlight \cup {SetReqField(f)}
      BY <2>3, <3>3 DEF InFlight
    <3>5. TypeOK'
      BY <2>2, <2>3, <2>4, <3>1, <3>3 DEF TypeOK
    <3>6. /\ \A g \in Field : FieldEvent(g) \in InFlight' => FieldEvent(g) \in InFlight
          /\ \A g \in Field : SetReqField(g) \in InFlight' /\ g # f => SetReqField(g) \in InFlight
          /\ Online \in InFlight' => Online \in InFlight
          /\ SetReq \in InFlight' => SetReq \in InFlight
      BY <3>4, Names
    <3>7. reqFieldSlot \in [Field -> Datum \cup {None}]
      BY DEF TypeOK
    <3>8. Filled'
      BY <2>2, <2>3, <3>1, <3>6, <3>7 DEF Filled
    <3>9. QED BY <3>5, <3>8
  <2>6. CASE ~online[c]
    <3>1. UNCHANGED <<reqFieldSlot, queue, lastAsked>>
      BY <2>1, <2>6 DEF SetField
    <3>2. InFlight' = InFlight
      BY <2>3, <3>1 DEF InFlight, Elements
    <3>3. TypeOK'
      BY <2>3, <2>4, <3>1 DEF TypeOK
    <3>4. QED BY <2>3, <3>1, <3>2, <3>3 DEF Filled
  <2>7. QED BY <2>5, <2>6
<1>3. CASE PingTopicManager(c)
  <2>1. /\ UNCHANGED <<store, reqSlot, reqFieldSlot, eventSlot, onlineSlot, queue>>
        /\ UNCHANGED <<managers, fields, whole, dirty>>
        /\ UNCHANGED <<consumers, value, online, pending, origin, lastAsked>>
        /\ current' = Ping /\ todo' = managers
    BY <1>3 DEF PingTopicManager, slots, managerVars, consumerVars
  <2>2. TypeOK'
    BY <2>1, Names DEF TypeOK, ManagerKinds
  <2>3. InFlight' \subseteq Elements(queue) \cup {Ping}
    BY <2>1 DEF InFlight, Elements
  <2>4. \A e \in InFlight' : e # Ping => e \in InFlight
    BY <2>3 DEF InFlight
  <2>5. \A f \in Field : SetReqField(f) # Ping /\ FieldEvent(f) # Ping
    BY Names
  <2>6. QED BY <2>1, <2>2, <2>4, <2>5, Names DEF Filled
<1>4. QED BY <1>1, <1>2, <1>3 DEF Writes

LEMMA TypeInvDispatch == TypeInv /\ Dispatch => TypeInv'
<1> SUFFICES ASSUME TypeInv, Dispatch PROVE TypeInv'
  OBVIOUS
<1> USE DEF TypeInv
<1>1. /\ UNCHANGED <<store, reqSlot, reqFieldSlot, eventSlot, onlineSlot>>
      /\ UNCHANGED <<managers, fields, whole, dirty>>
      /\ UNCHANGED <<consumers, value, online, pending, origin, lastAsked>>
      /\ queue # <<>> /\ current' = Head(queue) /\ queue' = Tail(queue)
      /\ todo' = IF Head(queue).kind \in ManagerKinds THEN managers ELSE consumers
  BY DEF Dispatch, slots, managerVars, consumerVars
<1>2. queue \in Seq(Queued)
  BY DEF TypeOK
<1>3. /\ Head(queue) \in Queued /\ queue' \in Seq(Queued)
      /\ Elements(queue) = {Head(queue)} \cup Elements(queue')
  BY <1>1, <1>2, ElementsTail
<1>4. TypeOK'
  BY <1>1, <1>3 DEF TypeOK
<1>5. InFlight' \subseteq InFlight
  BY <1>1, <1>3 DEF InFlight
<1>6. QED BY <1>1, <1>4, <1>5 DEF Filled

(* Type correctness: every module, slot and queue holds what its type says *)
(* (CleanMeansFresh, Converged and LastRequestApplied all rest on it).     *)
THEOREM TypeCorrect == Spec => []TypeOK
<1>1. TypeInv /\ UNCHANGED vars => TypeInv'
  BY DEF TypeInv, TypeOK, Filled, InFlight, Elements, vars, slots, managerVars, consumerVars
<1>2. TypeInv /\ [Next]_vars => TypeInv'
  BY <1>1, TypeInvDispatch, TypeInvManager, TypeInvConsumer, TypeInvWrites DEF Next
<1>3. TypeInv => TypeOK
  BY DEF TypeInv
<1>4. QED BY <1>2, <1>3, TypeInvInit, PTL DEF Spec

-----------------------------------------------------------------------------
(***************************************************************************)
(* Convergence.  A value that differs from the manager's is one the        *)
(* manager's broadcast is still going to replace: either the broadcast is  *)
(* on its way, or the request it answers is.                               *)
(***************************************************************************)
\* A broadcast of field f will still reach consumer c.
Coming(c, f) ==
  \/ FieldEvent(f) \in Elements(queue)
  \/ current = FieldEvent(f) /\ c \in Elements(todo)

\* A request for field f will still reach manager m.
Asked(m, f) ==
  \/ SetReqField(f) \in Elements(queue)
  \/ current = SetReqField(f) /\ m \in Elements(todo)

\* The last broadcast of a field carries the manager's value.
EventFresh(m) == \A f \in Field : eventSlot[f] \in {None, fields[m][f]}

\* An ack that is out of date for a field has the field's broadcast behind it.
AckFollowed(m) ==
  \A i \in 1..Len(queue), f \in Field :
    queue[i] = Online /\ onlineSlot[f] # fields[m][f] =>
      \E j \in 1..Len(queue) : j > i /\ queue[j] = FieldEvent(f)
AckDelivered(m) ==
  \A f \in Field :
    todo # <<>> /\ current = Online /\ onlineSlot[f] # fields[m][f] =>
      FieldEvent(f) \in Elements(queue)

Told(m) ==
  \A c \in Elements(consumers), f \in Field :
    origin[c][f] = "manager" => value[c][f] = fields[m][f] \/ Coming(c, f)
Answered(m) ==
  \A c \in Elements(consumers), f \in Field :
    origin[c][f] = "requested" => Coming(c, f) \/ Asked(m, f)

\* Before a manager boots nobody is online and nothing is in flight.
Unmounted ==
  managers = <<>> =>
    /\ store = None /\ queue = <<>> /\ todo = <<>>
    /\ \A f \in Field : eventSlot[f] = None
    /\ \A c \in Consumer : ~online[c] /\ \A f \in Field : origin[c][f] \in {"zero", "dropped"}
Unbooted ==
  \A c \in Consumer \ Elements(consumers), f \in Field : origin[c][f] = "zero"

\* Only registered listeners run.
Listeners ==
  /\ current.kind \in ManagerKinds => Elements(todo) \subseteq Elements(managers)
  /\ current.kind \in ConsumerKinds => Elements(todo) \subseteq Elements(consumers)

WholeFresh == \A m \in Elements(managers) : ~dirty[m] => whole[m] = fields[m]

Frame == TypeInv /\ Unmounted /\ Unbooted /\ Listeners /\ WholeFresh
Sync(m) ==
  EventFresh(m) /\ AckFollowed(m) /\ AckDelivered(m) /\ Told(m) /\ Answered(m)
IInv == Frame /\ \A m \in Manager : MountedOnce(m) => Sync(m)

(* Queueing events other than acks behind those in the queue keeps every   *)
(* out-of-date ack followed by its broadcast.                              *)
LEMMA AckFollowedConcat ==
  ASSUME TypeOK, NEW m \in Manager, AckFollowed(m),
         NEW t \in Seq(Queued), Online \notin Elements(t),
         queue' = queue \o t, onlineSlot' = onlineSlot,
         \A f \in Field : fields'[m][f] = fields[m][f] \/ FieldEvent(f) \in Elements(t)
  PROVE  AckFollowed(m)'
<1>1. /\ queue \in Seq(Queued)
      /\ Len(queue) \in Nat /\ Len(t) \in Nat /\ Len(queue') = Len(queue) + Len(t)
  BY DEF TypeOK
<1>2. \A i \in 1..Len(queue) : queue'[i] = queue[i]
  BY <1>1
<1>3. \A k \in 1..Len(t) : Len(queue) + k \in 1..Len(queue') /\ queue'[Len(queue) + k] = t[k]
  BY <1>1
<1>4. \A k \in 1..Len(t) : t[k] # Online
  BY DEF Elements
<1>5. SUFFICES ASSUME NEW i \in 1..Len(queue'), NEW f \in Field,
                      queue'[i] = Online, onlineSlot[f] # fields'[m][f]
               PROVE  \E j \in 1..Len(queue') : j > i /\ queue'[j] = FieldEvent(f)
  BY DEF AckFollowed
<1>6. i \in 1..Len(queue)
  <2>1. CASE i > Len(queue)
    <3>1. i - Len(queue) \in 1..Len(t) /\ queue'[i] = t[i - Len(queue)]
      BY <1>1, <2>1, <1>5, <1>3
    <3>2. QED BY <3>1, <1>4, <1>5
  <2>2. QED BY <2>1, <1>1
<1>7. CASE FieldEvent(f) \in Elements(t)
  <2>1. PICK k \in 1..Len(t) : t[k] = FieldEvent(f)
    BY <1>7 DEF Elements
  <2>2. Len(queue) + k > i
    BY <1>1, <1>6
  <2>3. QED BY <2>1, <2>2, <1>3
<1>8. CASE FieldEvent(f) \notin Elements(t)
  <2>1. queue[i] = Online /\ onlineSlot[f] # fields[m][f]
    BY <1>2, <1>5, <1>6, <1>8
  <2>2. PICK j \in 1..Len(queue) : j > i /\ queue[j] = FieldEvent(f)
    BY <2>1, <1>6 DEF AckFollowed
  <2>3. j \in 1..Len(queue') /\ queue'[j] = FieldEvent(f)
    BY <2>2, <1>1, <1>2
  <2>4. QED BY <2>2, <2>3
<1>9. QED BY <1>7, <1>8

LEMMA AppendIsConcat ==
  ASSUME NEW S, NEW s \in Seq(S), NEW x \in S
  PROVE  /\ Append(s, x) = s \o <<x>> /\ <<x>> \in Seq(S) /\ Elements(<<x>>) = {x}
<1>1. /\ Append(s, x) \in Seq(S) /\ s \o <<x>> \in Seq(S)
      /\ Len(Append(s, x)) = Len(s \o <<x>>)
      /\ \A i \in 1..Len(Append(s, x)) : Append(s, x)[i] = (s \o <<x>>)[i]
  OBVIOUS
<1>2. Append(s, x) = s \o <<x>>
  BY <1>1
<1>3. <<x>> \in Seq(S) /\ DOMAIN <<x>> = {1} /\ <<x>>[1] = x
  OBVIOUS
<1>4. QED BY <1>2, <1>3 DEF Elements

(* Another mounted manager would have to be m itself.                      *)
LEMMA OnlyManagerRuns ==
  ASSUME Frame, NEW m \in Manager, NEW n \in Manager, NEW k \in ManagerKinds,
         Runs(n, k), MountedOnce(m)
  PROVE  n = m
<1>1. todo # <<>> /\ current.kind = k /\ Head(todo) = n
  BY DEF Runs, Between
<1>2. todo \in Seq(Manager)
  BY <1>1 DEF Frame, TypeInv, TypeOK
<1>3. n \in Elements(todo)
  BY <1>1, <1>2, ElementsTail
<1>4. QED BY <1>1, <1>3 DEF Frame, Listeners, MountedOnce

-----------------------------------------------------------------------------
(* The handlers of the manager keep the frame ...                          *)
LEMMA FrameManager ==
  ASSUME Frame, NEW m \in Manager, BootManager(m) \/ ManagerListens(m)
  PROVE  Frame'
<1> USE DEF Frame
<1>1. TypeInv'
  BY TypeInvManager
<1>2. UNCHANGED <<consumers, value, online, pending, origin, current>>
  BY DEF BootManager, ManagerListens, OnSetReq, OnSetReqField, OnPing, consumerVars
<1>3. Unbooted'
  BY <1>2 DEF Unbooted
<1>4. managers \in Seq(Manager)
  BY DEF TypeInv, TypeOK
<1>5. CASE BootManager(m)
  <2>1. /\ managers' = Append(managers, m) /\ todo' = todo /\ todo = <<>>
        /\ dirty' = dirty
        /\ fields'[m] = whole'[m]
        /\ \A n \in Manager \ {m} : fields'[n] = fields[n] /\ whole'[n] = whole[n]
    BY <1>5 DEF BootManager, Idle, Between, TypeInv, TypeOK
  <2>2. managers' # <<>> /\ Elements(managers') = Elements(managers) \cup {m}
    BY <2>1, <1>4, ElementsAppend
  <2>3. Elements(managers) \subseteq Manager
    BY <1>4 DEF Elements
  <2>4. Listeners'
    BY <2>1 DEF Listeners, Elements
  <2>5. WholeFresh'
    BY <2>1, <2>2, <2>3 DEF WholeFresh
  <2>6. QED BY <1>1, <1>3, <2>2, <2>4, <2>5 DEF Unmounted
<1>6. CASE ManagerListens(m)
  <2>1. PICK k \in ManagerKinds : Runs(m, k)
    BY <1>6 DEF ManagerListens, OnSetReq, OnSetReqField, OnPing, ManagerKinds
  <2>2. /\ managers' = managers /\ todo # <<>> /\ todo' = Tail(todo) /\ current.kind = k
    BY <1>6, <2>1 DEF ManagerListens, OnSetReq, OnSetReqField, OnPing, Runs, Between
  <2>3. managers # <<>> /\ Unmounted'
    BY <2>2 DEF Unmounted
  <2>4. todo \in Seq(Manager)
    BY <2>1, <2>2 DEF TypeInv, TypeOK
  <2>5. Elements(todo') \subseteq Elements(todo)
    BY <2>2, <2>4, ElementsTail
  <2>6. k \notin ConsumerKinds
    BY <2>1 DEF ManagerKinds, ConsumerKinds
  <2>7. Listeners'
    BY <1>2, <2>2, <2>5, <2>6 DEF Listeners
  <2>8. WholeFresh'
    <3>1. Elements(managers') = Elements(managers) /\ Elements(managers) \subseteq Manager
      BY <1>4, <2>2 DEF Elements
    <3>2. CASE OnSetReq(m)
      <4> DEFINE changed == Changed(m, reqSlot)
                 new == [f \in Field |-> IF f \in changed THEN reqSlot[f] ELSE fields[m][f]]
      <4>1. /\ fields' = [fields EXCEPT ![m] = new] /\ dirty' = [dirty EXCEPT ![m] = FALSE]
            /\ whole' = IF dirty[m] \/ changed # {} THEN [whole EXCEPT ![m] = new] ELSE whole
        BY <3>2 DEF OnSetReq
      <4>2. fields[m] \in Struct
        BY DEF TypeInv, TypeOK
      <4>3. changed = {} => new = fields[m]
        BY <4>2 DEF Struct
      <4> HIDE DEF new, changed
      <4>4. CASE dirty[m] \/ changed # {}
        BY <3>1, <4>1, <4>4 DEF WholeFresh, TypeInv, TypeOK
      <4>5. CASE ~(dirty[m] \/ changed # {})
        BY <3>1, <4>1, <4>3, <4>5 DEF WholeFresh, TypeInv, TypeOK
      <4>6. QED BY <4>4, <4>5
    <3>3. CASE OnSetReqField(m)
      <4>1. /\ dirty'[m] = TRUE /\ whole' = whole
            /\ \A n \in Manager \ {m} : fields'[n] = fields[n] /\ dirty'[n] = dirty[n]
        BY <3>3 DEF OnSetReqField, MarkDirty, TypeInv, TypeOK
      <4>2. QED BY <3>1, <4>1 DEF WholeFresh
    <3>4. CASE OnPing(m)
      <4>1. /\ fields' = fields
            /\ whole' = [whole EXCEPT ![m] = IF dirty[m] THEN fields[m] ELSE whole[m]]
            /\ dirty' = [dirty EXCEPT ![m] = FALSE]
        BY <3>4 DEF OnPing
      <4>2. QED BY <3>1, <4>1 DEF WholeFresh, TypeInv, TypeOK
    <3>5. QED BY <1>6, <3>2, <3>3, <3>4 DEF ManagerListens
  <2>9. QED BY <1>1, <1>3, <2>3, <2>7, <2>8
<1>7. QED BY <1>5, <1>6

(* ... and so do the consumers and the queue.                              *)
LEMMA FrameConsumer ==
  ASSUME Frame, NEW c \in Consumer,
         BootConsumer(c) \/ ConsumerListens(c) \/ Writes(c) \/ PingTopicManager(c)
  PROVE  Frame'
<1> USE DEF Frame
<1>1. TypeInv'
  BY TypeInvConsumer, TypeInvWrites
<1>2. UNCHANGED <<managers, fields, whole, dirty, store, eventSlot>>
  BY DEF BootConsumer, ConsumerListens, Writes, PingTopicManager, OnFieldEvent, OnOnline,
         OnOnlineEffect, Set, SetField, managerVars, slots
<1>3. WholeFresh'
  BY <1>2 DEF WholeFresh, Elements
<1>4. consumers \in Seq(Consumer) /\ Elements(consumers) \subseteq Consumer
  BY DEF TypeInv, TypeOK, Elements
<1>5. CASE BootConsumer(c)
  <2>1. /\ consumers' = Append(consumers, c) /\ c \notin Elements(consumers)
        /\ UNCHANGED <<queue, todo, current, pending>> /\ todo = <<>>
        /\ store = None => UNCHANGED <<value, online, origin>>
        /\ \A d \in Consumer \ {c} : origin'[d] = origin[d]
    BY <1>5 DEF BootConsumer, Idle, Between, TypeInv, TypeOK
  <2>2. Elements(consumers') = Elements(consumers) \cup {c}
    BY <1>4, <2>1, ElementsAppend
  <2>3. Unbooted'
    BY <2>1, <2>2 DEF Unbooted
  <2>4. Unmounted' /\ Listeners'
    BY <1>2, <2>1 DEF Unmounted, Listeners, Elements
  <2>5. QED BY <1>1, <1>3, <2>3, <2>4
<1>6. CASE ConsumerListens(c)
  <2>1. PICK k \in ConsumerKinds : Runs(c, k)
    BY <1>6 DEF ConsumerListens, OnFieldEvent, OnOnline, OnOnlineEffect, ConsumerKinds
  <2>2. /\ consumers' = consumers /\ todo # <<>> /\ todo' = Tail(todo)
        /\ current' = current /\ current.kind = k /\ Head(todo) = c
        /\ \A d \in Consumer \ {c} : origin'[d] = origin[d]
    BY <1>6, <2>1 DEF ConsumerListens, OnFieldEvent, OnOnline, OnOnlineEffect, Runs, Between,
                      TypeInv, TypeOK
  <2>3. k \notin ManagerKinds
    BY <2>1 DEF ManagerKinds, ConsumerKinds
  <2>4. todo \in Seq(Consumer)
    BY <2>1, <2>2, <2>3 DEF TypeInv, TypeOK
  <2>5. Elements(todo) = {c} \cup Elements(todo')
    BY <2>2, <2>4, ElementsTail
  <2>6. c \in Elements(consumers)
    BY <2>1, <2>2, <2>5 DEF Listeners
  <2>7. Unbooted'
    BY <2>2, <2>6 DEF Unbooted, Elements
  <2>8. Listeners'
    BY <1>2, <2>2, <2>3, <2>5 DEF Listeners, Elements
  <2>9. Unmounted'
    BY <1>2, <2>2 DEF Unmounted
  <2>10. QED BY <1>1, <1>3, <2>7, <2>8, <2>9
<1>7. CASE Writes(c)
  <2>1. /\ UNCHANGED <<consumers, online, todo, current>> /\ c \in Elements(consumers)
        /\ \A d \in Consumer \ {c} : origin'[d] = origin[d]
        /\ ~online[c] => queue' = queue
        /\ ~online[c] => \A f \in Field : origin'[c][f] \in {origin[c][f], "dropped"}
    BY <1>7 DEF Writes, Set, SetField, TypeInv, TypeOK
  <2>2. Unbooted'
    BY <2>1 DEF Unbooted, Elements
  <2>3. Listeners'
    BY <1>2, <2>1 DEF Listeners, Elements
  <2>4. Unmounted'
    BY <1>2, <2>1 DEF Unmounted
  <2>5. QED BY <1>1, <1>3, <2>2, <2>3, <2>4
<1>8. CASE PingTopicManager(c)
  <2>1. /\ UNCHANGED <<consumers, value, online, pending, origin, queue>>
        /\ current' = Ping /\ todo' = managers
    BY <1>8 DEF PingTopicManager, consumerVars
  <2>2. Unbooted'
    BY <2>1 DEF Unbooted, Elements
  <2>3. Listeners'
    BY <1>2, <2>1, Names DEF Listeners, Elements, ConsumerKinds
  <2>4. Unmounted'
    BY <1>2, <2>1 DEF Unmounted
  <2>5. QED BY <1>1, <1>3, <2>2, <2>3, <2>4
<1>9. QED BY <1>5, <1>6, <1>7, <1>8

LEMMA FrameDispatch == Frame /\ Dispatch => Frame'
<1> SUFFICES ASSUME Frame, Dispatch PROVE Frame'
  OBVIOUS
<1> USE DEF Frame
<1>1. TypeInv'
  BY TypeInvDispatch
<1>2. /\ UNCHANGED <<managers, fields, whole, dirty, store, eventSlot>>
      /\ UNCHANGED <<consumers, value, online, pending, origin>>
      /\ queue # <<>> /\ current' = Head(queue) /\ queue' = Tail(queue)
      /\ todo' = IF Head(queue).kind \in ManagerKinds THEN managers ELSE consumers
  BY DEF Dispatch, slots, managerVars, consumerVars
<1>3. Unmounted' /\ Unbooted' /\ WholeFresh'
  BY <1>2 DEF Unmounted, Unbooted, WholeFresh, Elements
<1>4. Head(queue) \in Queued
  BY <1>2 DEF TypeInv, TypeOK
<1>5. Listeners'
  BY <1>2, <1>4, Names DEF Listeners, Elements
<1>6. QED BY <1>1, <1>3, <1>5

-----------------------------------------------------------------------------
(* The first boot of a manager: nothing is in flight and nobody listened.  *)
LEMMA SyncBoot ==
  ASSUME Frame, NEW m \in Manager, NEW n \in Manager, BootManager(n), MountedOnce(m)'
  PROVE  Sync(m)'
<1> USE DEF Frame
<1>1. /\ managers \in Seq(Manager) /\ managers' = Append(managers, n)
      /\ n \notin Elements(managers)
  BY DEF TypeInv, TypeOK, BootManager
<1>2. Elements(managers) \cup {n} = {m}
  BY <1>1, ElementsAppend DEF MountedOnce
<1>3. n = m /\ Elements(managers) = {}
  BY <1>1, <1>2
<1>4. managers = <<>>
  <2>1. ASSUME managers # <<>> PROVE Head(managers) \in Elements(managers)
    BY <1>1, <2>1, ElementsTail
  <2>2. QED BY <1>3, <2>1
<1>5. /\ queue = <<>> /\ todo = <<>> /\ \A f \in Field : eventSlot[f] = None
      /\ \A c \in Consumer, f \in Field : origin[c][f] \in {"zero", "dropped"}
  BY <1>4 DEF Unmounted
<1> DEFINE seed == IF store = None THEN ZeroStruct ELSE store
<1>6. /\ fields' = [fields EXCEPT ![m] = seed] /\ onlineSlot' = seed
      /\ queue' = Append(queue, Online) /\ todo' = todo
      /\ UNCHANGED <<eventSlot, consumers, origin>>
  BY <1>3 DEF BootManager, BroadcastOnline, consumerVars
<1>7. fields'[m] = onlineSlot'
  BY <1>6 DEF TypeInv, TypeOK
<1>8. EventFresh(m)' /\ AckFollowed(m)' /\ AckDelivered(m)'
  BY <1>5, <1>6, <1>7 DEF EventFresh, AckFollowed, AckDelivered
<1>9. Elements(consumers) \subseteq Consumer
  BY DEF TypeInv, TypeOK, Elements
<1>10. Told(m)' /\ Answered(m)'
  BY <1>5, <1>6, <1>9 DEF Told, Answered
<1>11. QED BY <1>8, <1>10 DEF Sync

(* The manager answers whatever it changes.                                *)
LEMMA SyncManager ==
  ASSUME IInv, NEW m \in Manager, NEW n \in Manager, ManagerListens(n), MountedOnce(m)'
  PROVE  Sync(m)'
<1> USE DEF IInv, Frame
<1>1. PICK k \in ManagerKinds : Runs(n, k)
  BY DEF ManagerListens, OnSetReq, OnSetReqField, OnPing, ManagerKinds
<1>2. /\ managers' = managers /\ todo' = Tail(todo) /\ todo # <<>>
      /\ current' = current /\ current.kind = k /\ Head(todo) = n
      /\ UNCHANGED <<consumers, value, online, pending, origin>>
  BY <1>1 DEF ManagerListens, OnSetReq, OnSetReqField, OnPing, Runs, Between, consumerVars
<1>3. MountedOnce(m)
  BY <1>2 DEF MountedOnce, Elements
<1>4. n = m
  BY <1>1, <1>3, OnlyManagerRuns
<1>5. Sync(m)
  BY <1>3
<1>6. \A f \in Field : current # FieldEvent(f)
  BY <1>1, <1>2, Names DEF ManagerKinds
<1>7. current # Online
  BY <1>1, <1>2, Names DEF ManagerKinds
<1>8. queue \in Seq(Queued) /\ fields[m] \in Struct /\ Elements(consumers) \subseteq Consumer
  BY DEF TypeInv, TypeOK, Elements
<1>9. AckDelivered(m)'
  BY <1>2, <1>7 DEF AckDelivered
<1>10. CASE OnSetReq(m)
  <2>1. PICK s \in InFieldOrder(Changed(m, reqSlot)) :
          queue' = queue \o [i \in DOMAIN s |-> FieldEvent(s[i])]
    BY <1>10 DEF OnSetReq
  <2> DEFINE changed == Changed(m, reqSlot)
             new == [f \in Field |-> IF f \in changed THEN reqSlot[f] ELSE fields[m][f]]
             t == [i \in DOMAIN s |-> FieldEvent(s[i])]
  <2>2. changed \in SUBSET Field
    BY DEF Changed
  <2>3. t \in Seq(Queued) /\ Elements(t) = {FieldEvent(f) : f \in changed}
    BY <2>2, Broadcasts
  <2>4. queue' = queue \o t
    BY <2>1
  <2> HIDE DEF t
  <2>5. Elements(queue') = Elements(queue) \cup {FieldEvent(f) : f \in changed}
    BY <1>8, <2>3, <2>4, ElementsConcat
  <2>6. /\ fields' = [fields EXCEPT ![m] = new] /\ onlineSlot' = onlineSlot
        /\ eventSlot' = [f \in Field |-> IF f \in changed THEN reqSlot[f] ELSE eventSlot[f]]
    BY <1>10 DEF OnSetReq
  <2>7. \A f \in Field : fields'[m][f] = IF f \in changed THEN reqSlot[f] ELSE fields[m][f]
    BY <2>6 DEF TypeInv, TypeOK
  <2> HIDE DEF changed, new
  <2>8. EventFresh(m)'
    BY <1>5, <2>6, <2>7 DEF Sync, EventFresh
  <2>9. Online \notin Elements(t)
    BY <2>2, <2>3, Names
  <2>10. AckFollowed(m)'
    <3>1. TypeOK /\ AckFollowed(m)
      BY <1>5 DEF Sync, TypeInv
    <3>2. \A f \in Field : fields'[m][f] = fields[m][f] \/ FieldEvent(f) \in Elements(t)
      BY <2>3, <2>7
    <3>3. QED BY <2>3, <2>4, <2>6, <2>9, <3>1, <3>2, AckFollowedConcat
  <2>11. Told(m)'
    BY <1>2, <1>5, <1>6, <2>5, <2>7 DEF Sync, Told, Coming
  <2>12. current = SetReq
    BY <1>1, <1>2, <1>10, Names DEF OnSetReq, Runs, TypeInv, TypeOK
  <2>13. \A f \in Field : current # SetReqField(f)
    BY <2>12, Names
  <2>14. Answered(m)'
    BY <1>2, <1>5, <1>6, <2>5, <2>13 DEF Sync, Answered, Coming, Asked
  <2>15. QED BY <1>9, <2>8, <2>10, <2>11, <2>14 DEF Sync
<1>11. CASE OnSetReqField(m)
  <2> DEFINE f == current.field
  <2>1. f \in Field /\ current = SetReqField(f)
    BY <1>11, Names DEF OnSetReqField, Runs, TypeInv, TypeOK
  <2>2. /\ eventSlot' = [eventSlot EXCEPT ![f] = reqFieldSlot[f]]
        /\ queue' = Append(queue, FieldEvent(f))
        /\ fields' = [fields EXCEPT ![m][f] = reqFieldSlot[f]]
        /\ onlineSlot' = onlineSlot
    BY <1>11 DEF OnSetReqField, BroadcastField
  <2> HIDE DEF f
  <2>3. FieldEvent(f) \in Queued /\ Online # FieldEvent(f)
    BY <2>1, Names
  <2>4. /\ queue' = queue \o <<FieldEvent(f)>> /\ <<FieldEvent(f)>> \in Seq(Queued)
        /\ Elements(<<FieldEvent(f)>>) = {FieldEvent(f)}
    BY <1>8, <2>2, <2>3, AppendIsConcat
  <2>5. Elements(queue') = Elements(queue) \cup {FieldEvent(f)}
    BY <1>8, <2>2, <2>3, ElementsAppend
  <2>6. \A g \in Field : fields'[m][g] = IF g = f THEN reqFieldSlot[f] ELSE fields[m][g]
    BY <1>8, <2>1, <2>2 DEF TypeInv, TypeOK, Struct
  <2>7. EventFresh(m)'
    BY <1>5, <2>1, <2>2, <2>6 DEF Sync, EventFresh, TypeInv, TypeOK
  <2>8. AckFollowed(m)'
    <3>1. TypeOK /\ AckFollowed(m)
      BY <1>5 DEF Sync, TypeInv
    <3>2. \A g \in Field :
            fields'[m][g] = fields[m][g] \/ FieldEvent(g) \in Elements(<<FieldEvent(f)>>)
      BY <2>4, <2>6
    <3>3. Online \notin Elements(<<FieldEvent(f)>>)
      BY <2>3, <2>4
    <3> DEFINE t == <<FieldEvent(f)>>
    <3>4. t \in Seq(Queued) /\ queue' = queue \o t /\ Online \notin Elements(t)
      BY <2>4, <3>3
    <3>5. \A g \in Field : fields'[m][g] = fields[m][g] \/ FieldEvent(g) \in Elements(t)
      BY <3>2
    <3> HIDE DEF t
    <3>6. QED BY <2>2, <3>1, <3>4, <3>5, AckFollowedConcat
  <2>9. Told(m)'
    BY <1>2, <1>5, <1>6, <2>5, <2>6 DEF Sync, Told, Coming
  <2>10. Answered(m)'
    <3>1. SUFFICES ASSUME NEW c \in Elements(consumers), NEW g \in Field,
                          origin[c][g] = "requested"
                   PROVE  (Coming(c, g) \/ Asked(m, g))'
      BY <1>2 DEF Answered
    <3>2. CASE g = f
      BY <2>5, <3>2 DEF Coming
    <3>3. CASE g # f
      <4>1. current # SetReqField(g)
        BY <2>1, <3>3, Names
      <4>2. FieldEvent(g) \in Elements(queue) \/ SetReqField(g) \in Elements(queue)
        BY <1>5, <1>6, <3>1, <4>1 DEF Sync, Answered, Coming, Asked
      <4>3. QED BY <2>5, <4>2 DEF Coming, Asked
    <3>4. QED BY <3>2, <3>3
  <2>11. QED BY <1>9, <2>7, <2>8, <2>9, <2>10 DEF Sync
<1>12. CASE OnPing(m)
  <2>1. /\ onlineSlot' = IF dirty[m] THEN fields[m] ELSE whole[m]
        /\ fields' = fields /\ eventSlot' = eventSlot /\ queue' = Append(queue, Online)
    BY <1>12 DEF OnPing, BroadcastOnline
  <2>2. m \in Elements(managers)
    BY <1>3 DEF MountedOnce
  <2>3. onlineSlot' = fields'[m]
    BY <2>1, <2>2 DEF WholeFresh
  <2>4. Elements(queue') = Elements(queue) \cup {Online}
    BY <1>8, <2>1, Names, ElementsAppend
  <2>5. \A f \in Field : current # SetReqField(f)
    BY <1>12, Names DEF OnPing, Runs
  <2>6. EventFresh(m)' /\ AckFollowed(m)'
    BY <1>5, <2>1, <2>3 DEF Sync, EventFresh, AckFollowed
  <2>7. Told(m)'
    BY <1>2, <1>5, <1>6, <2>1, <2>4 DEF Sync, Told, Coming
  <2>8. Answered(m)'
    BY <1>2, <1>5, <1>6, <2>4, <2>5 DEF Sync, Answered, Coming, Asked
  <2>9. QED BY <1>9, <2>6, <2>7, <2>8 DEF Sync
<1>13. QED BY <1>4, <1>10, <1>11, <1>12 DEF ManagerListens

(* A consumer's listener takes the manager's value, or one that the        *)
(* broadcast behind an out-of-date ack is going to replace.                *)
LEMMA SyncListener ==
  ASSUME IInv, NEW m \in Manager, NEW c \in Consumer, ConsumerListens(c), MountedOnce(m)'
  PROVE  Sync(m)'
<1> USE DEF IInv, Frame
<1>1. PICK k \in ConsumerKinds : Runs(c, k)
  BY DEF ConsumerListens, OnFieldEvent, OnOnline, OnOnlineEffect, ConsumerKinds
<1>2. /\ todo # <<>> /\ current.kind = k /\ Head(todo) = c
      /\ todo' = Tail(todo) /\ current' = current
      /\ UNCHANGED <<managers, fields, consumers, eventSlot, onlineSlot>>
  BY <1>1 DEF ConsumerListens, OnFieldEvent, OnOnline, OnOnlineEffect, Runs, Between,
              managerVars, slots
<1>3. MountedOnce(m) /\ Sync(m)
  BY <1>2 DEF MountedOnce, Elements
<1>4. /\ queue \in Seq(Queued) /\ todo \in Seq(Consumer)
      /\ Elements(consumers) \subseteq Consumer
  BY <1>1, <1>2, Names DEF TypeInv, TypeOK, ManagerKinds, ConsumerKinds, Elements
<1>5. \A d \in Elements(todo) : d # c => d \in Elements(todo')
  BY <1>2, <1>4, ElementsTail
<1>6. \A f \in Field : current # SetReqField(f)
  BY <1>1, <1>2, Names DEF ConsumerKinds
<1>7. EventFresh(m)'
  BY <1>2, <1>3 DEF Sync, EventFresh
<1>8. CASE OnFieldEvent(c)
  <2> DEFINE f == current.field
  <2>1. f \in Field /\ current = FieldEvent(f) /\ current # Online
    BY <1>8, Names DEF OnFieldEvent, Runs, TypeInv, TypeOK
  <2>2. /\ value' = [value EXCEPT ![c][f] = eventSlot[f]]
        /\ origin' = [origin EXCEPT ![c][f] = "manager"]
        /\ queue' = queue
    BY <1>8 DEF OnFieldEvent
  <2> HIDE DEF f
  <2>3. AckFollowed(m)' /\ AckDelivered(m)'
    BY <1>2, <1>3, <2>1, <2>2 DEF Sync, AckFollowed, AckDelivered
  <2>4. FieldEvent(f) \in InFlight
    BY <1>2, <2>1 DEF InFlight
  <2>5. eventSlot[f] = fields[m][f]
    BY <1>3, <2>1, <2>4 DEF Sync, EventFresh, TypeInv, Filled
  <2>6. /\ \A g \in Field : value'[c][g] = IF g = f THEN eventSlot[f] ELSE value[c][g]
        /\ \A g \in Field : origin'[c][g] = IF g = f THEN "manager" ELSE origin[c][g]
        /\ \A d \in Consumer \ {c} : value'[d] = value[d] /\ origin'[d] = origin[d]
    BY <2>1, <2>2 DEF TypeInv, TypeOK, Struct
  <2>7. \A d \in Consumer, g \in Field :
          Coming(d, g) /\ (d # c \/ g # f) => Coming(d, g)'
    <3>1. ASSUME NEW g \in Field, g # f PROVE current # FieldEvent(g)
      BY <2>1, <3>1, Names
    <3>2. QED BY <1>2, <1>5, <2>2, <3>1 DEF Coming
  <2>8. Told(m)'
    BY <1>2, <1>3, <1>4, <2>1, <2>5, <2>6, <2>7 DEF Sync, Told
  <2>9. \A g \in Field : Asked(m, g) => Asked(m, g)'
    BY <1>6, <2>2 DEF Asked
  <2>10. Answered(m)'
    BY <1>2, <1>3, <1>4, <2>1, <2>6, <2>7, <2>9 DEF Sync, Answered
  <2>11. QED BY <1>7, <2>3, <2>8, <2>10 DEF Sync
<1>9. CASE OnOnline(c) \/ \E f \in Field, v \in Value : OnOnlineEffect(c, f, v)
  <2>1. /\ current = Online /\ onlineSlot \in Struct
    <3>1. current = Online
      BY <1>9, Names DEF OnOnline, OnOnlineEffect, Runs, TypeInv, TypeOK
    <3>2. Online \in InFlight
      BY <1>2, <3>1 DEF InFlight
    <3>3. QED BY <3>1, <3>2 DEF TypeInv, TypeOK, Filled
  <2>2. /\ \A f \in Field : origin'[c][f] # "requested"
        /\ \A f \in Field : origin'[c][f] = "manager" => value'[c][f] = onlineSlot[f]
        /\ \A d \in Consumer \ {c} : value'[d] = value[d] /\ origin'[d] = origin[d]
    <3>1. CASE OnOnline(c)
      BY <3>1 DEF OnOnline, TypeInv, TypeOK
    <3>2. CASE \E f \in Field, v \in Value : OnOnlineEffect(c, f, v)
      <4>1. PICK f \in Field, v \in Value : OnOnlineEffect(c, f, v)
        BY <3>2
      <4>2. /\ value' = [value EXCEPT ![c] = [onlineSlot EXCEPT ![f] = v]]
            /\ origin' = [origin EXCEPT ![c] =
                            [g \in Field |-> IF g = f THEN "dropped" ELSE "manager"]]
        BY <4>1 DEF OnOnlineEffect
      <4>3. QED BY <2>1, <4>2 DEF TypeInv, TypeOK, Struct
    <3>3. QED BY <1>9, <3>1, <3>2
  <2>3. queue' = queue \/ queue' = Append(queue, SetReq)
    BY <1>9 DEF OnOnline, OnOnlineEffect, GoOnline, RequestTopicSet
  <2>4. SetReq \in Queued /\ SetReq # Online
    BY Names
  <2>5. Elements(queue) \subseteq Elements(queue')
    <3>1. CASE queue' = queue
      BY <3>1 DEF Elements
    <3>2. CASE queue' = Append(queue, SetReq)
      BY <1>4, <2>4, <3>2, ElementsAppend
    <3>3. QED BY <2>3, <3>1, <3>2
  <2>6. AckFollowed(m)'
    <3>1. CASE queue' = queue
      BY <1>2, <1>3, <3>1 DEF Sync, AckFollowed
    <3>2. CASE queue' = Append(queue, SetReq)
      <4> DEFINE t == <<SetReq>>
      <4>1. t \in Seq(Queued) /\ queue' = queue \o t /\ Online \notin Elements(t)
        BY <1>4, <2>4, <3>2, AppendIsConcat
      <4> HIDE DEF t
      <4>2. TypeOK /\ AckFollowed(m)
        BY <1>3 DEF Sync, TypeInv
      <4>3. QED BY <1>2, <4>1, <4>2, AckFollowedConcat
    <3>3. QED BY <2>3, <3>1, <3>2
  <2>7. AckDelivered(m)'
    BY <1>2, <1>3, <2>5 DEF Sync, AckDelivered
  <2>8. \A f \in Field : current # FieldEvent(f)
    BY <2>1, Names
  <2>9. \A d \in Consumer, f \in Field : Coming(d, f) => Coming(d, f)'
    BY <2>5, <2>8 DEF Coming
  <2>10. \A f \in Field : Asked(m, f) => Asked(m, f)'
    BY <1>6, <2>5 DEF Asked
  <2>11. \A f \in Field : onlineSlot[f] = fields[m][f] \/ Coming(c, f)'
    BY <1>2, <1>3, <2>1, <2>5 DEF Sync, AckDelivered, Coming
  <2>12. Told(m)'
    BY <1>2, <1>3, <1>4, <2>2, <2>9, <2>11 DEF Sync, Told
  <2>13. Answered(m)'
    BY <1>2, <1>3, <1>4, <2>2, <2>9, <2>10 DEF Sync, Answered
  <2>14. QED BY <1>7, <2>6, <2>7, <2>12, <2>13 DEF Sync
<1>10. QED BY <1>8, <1>9 DEF ConsumerListens

(* A consumer that boots, writes or pings leaves everything due on its way. *)
LEMMA SyncWriter ==
  ASSUME IInv, NEW m \in Manager, NEW c \in Consumer,
         BootConsumer(c) \/ Writes(c) \/ PingTopicManager(c), MountedOnce(m)'
  PROVE  Sync(m)'
<1> USE DEF IInv, Frame
<1>1. UNCHANGED <<managers, fields, eventSlot, onlineSlot>>
  BY DEF BootConsumer, Writes, PingTopicManager, Set, SetField, managerVars, slots
<1>2. MountedOnce(m) /\ Sync(m)
  BY <1>1 DEF MountedOnce, Elements
<1>3. queue \in Seq(Queued) /\ consumers \in Seq(Consumer)
      /\ Elements(consumers) \subseteq Consumer
  BY DEF TypeInv, TypeOK, Elements
<1>4. EventFresh(m)'
  BY <1>1, <1>2 DEF Sync, EventFresh
<1>5. CASE BootConsumer(c)
  <2>1. /\ UNCHANGED <<queue, todo, current>> /\ c \notin Elements(consumers)
        /\ consumers' = Append(consumers, c)
        /\ \A d \in Consumer \ {c} : value'[d] = value[d] /\ origin'[d] = origin[d]
        /\ \A f \in Field : origin'[c][f] \in {origin[c][f], "store"}
    BY <1>5 DEF BootConsumer, TypeInv, TypeOK
  <2>2. Elements(consumers') = Elements(consumers) \cup {c}
    BY <1>3, <2>1, ElementsAppend
  <2>3. \A f \in Field : origin'[c][f] \in {"zero", "store"}
    BY <2>1 DEF Unbooted
  <2>4. AckFollowed(m)' /\ AckDelivered(m)'
    BY <1>1, <1>2, <2>1 DEF Sync, AckFollowed, AckDelivered
  <2>5. Told(m)' /\ Answered(m)'
    BY <1>1, <1>2, <1>3, <2>1, <2>2, <2>3 DEF Sync, Told, Answered, Coming, Asked
  <2>6. QED BY <1>4, <2>4, <2>5 DEF Sync
<1>6. CASE \E s \in [Field -> Value] : Set(c, s)
  <2>1. /\ UNCHANGED <<todo, current, consumers, value, origin>>
        /\ queue' = queue \/ queue' = Append(queue, SetReq)
    BY <1>6 DEF Set, RequestTopicSet
  <2>2. SetReq \in Queued /\ SetReq # Online
    BY Names
  <2>3. Elements(queue) \subseteq Elements(queue')
    <3>1. CASE queue' = queue
      BY <3>1 DEF Elements
    <3>2. CASE queue' = Append(queue, SetReq)
      BY <1>3, <2>2, <3>2, ElementsAppend
    <3>3. QED BY <2>1, <3>1, <3>2
  <2>4. AckFollowed(m)'
    <3>1. CASE queue' = queue
      BY <1>1, <1>2, <3>1 DEF Sync, AckFollowed
    <3>2. CASE queue' = Append(queue, SetReq)
      <4> DEFINE t == <<SetReq>>
      <4>1. t \in Seq(Queued) /\ queue' = queue \o t /\ Online \notin Elements(t)
        BY <1>3, <2>2, <3>2, AppendIsConcat
      <4> HIDE DEF t
      <4>2. TypeOK /\ AckFollowed(m)
        BY <1>2 DEF Sync, TypeInv
      <4>3. QED BY <1>1, <4>1, <4>2, AckFollowedConcat
    <3>3. QED BY <2>1, <3>1, <3>2
  <2>5. AckDelivered(m)'
    BY <1>1, <1>2, <2>1, <2>3 DEF Sync, AckDelivered
  <2>6. Told(m)' /\ Answered(m)'
    BY <1>1, <1>2, <1>3, <2>1, <2>3 DEF Sync, Told, Answered, Coming, Asked
  <2>7. QED BY <1>4, <2>4, <2>5, <2>6 DEF Sync
<1>7. CASE \E f \in Field, v \in Value : SetField(c, f, v)
  <2>1. PICK f \in Field, v \in Value : SetField(c, f, v)
    BY <1>7
  <2>2. /\ UNCHANGED <<todo, current, consumers>>
        /\ value' = [value EXCEPT ![c][f] = v]
        /\ origin' = [origin EXCEPT ![c][f] = IF online[c] THEN "requested" ELSE "dropped"]
        /\ queue' = IF online[c] THEN Append(queue, SetReqField(f)) ELSE queue
    BY <2>1 DEF SetField
  <2>3. SetReqField(f) \in Queued /\ SetReqField(f) # Online
    BY Names
  <2>4. /\ Elements(queue) \subseteq Elements(queue')
        /\ online[c] => SetReqField(f) \in Elements(queue')
    BY <1>3, <2>2, <2>3, ElementsAppend
  <2>5. AckFollowed(m)'
    <3>1. CASE ~online[c]
      BY <1>1, <1>2, <2>2, <3>1 DEF Sync, AckFollowed
    <3>2. CASE online[c]
      <4> DEFINE t == <<SetReqField(f)>>
      <4>1. t \in Seq(Queued) /\ queue' = queue \o t /\ Online \notin Elements(t)
        BY <1>3, <2>2, <2>3, <3>2, AppendIsConcat
      <4> HIDE DEF t
      <4>2. TypeOK /\ AckFollowed(m)
        BY <1>2 DEF Sync, TypeInv
      <4>3. QED BY <1>1, <4>1, <4>2, AckFollowedConcat
    <3>3. QED BY <3>1, <3>2
  <2>6. AckDelivered(m)'
    BY <1>1, <1>2, <2>2, <2>4 DEF Sync, AckDelivered
  <2>7. /\ \A g \in Field \ {f} : value'[c][g] = value[c][g] /\ origin'[c][g] = origin[c][g]
        /\ origin'[c][f] = IF online[c] THEN "requested" ELSE "dropped"
        /\ \A d \in Consumer \ {c} : value'[d] = value[d] /\ origin'[d] = origin[d]
    BY <2>2 DEF TypeInv, TypeOK, Struct
  <2>8. Told(m)'
    BY <1>1, <1>2, <1>3, <2>2, <2>4, <2>7 DEF Sync, Told, Coming
  <2>9. Answered(m)'
    BY <1>1, <1>2, <1>3, <2>2, <2>4, <2>7 DEF Sync, Answered, Coming, Asked
  <2>10. QED BY <1>4, <2>5, <2>6, <2>8, <2>9 DEF Sync
<1>8. CASE PingTopicManager(c)
  <2>1. /\ UNCHANGED <<queue, consumers, value, origin>> /\ todo = <<>>
        /\ current' = Ping
    BY <1>8 DEF PingTopicManager, Between, consumerVars
  <2>2. AckFollowed(m)' /\ AckDelivered(m)'
    BY <1>1, <1>2, <2>1, Names DEF Sync, AckFollowed, AckDelivered
  <2>3. \A x, f : x \notin Elements(todo)
    BY <2>1 DEF Elements
  <2>4. Told(m)' /\ Answered(m)'
    BY <1>1, <1>2, <2>1, <2>3 DEF Sync, Told, Answered, Coming, Asked
  <2>5. QED BY <1>4, <2>2, <2>4 DEF Sync
<1>9. QED BY <1>5, <1>6, <1>7, <1>8 DEF Writes

(* Delivering an event starts with every registered listener.              *)
LEMMA SyncDispatch ==
  ASSUME IInv, NEW m \in Manager, Dispatch, MountedOnce(m)'
  PROVE  Sync(m)'
<1> USE DEF IInv, Frame
<1>1. /\ UNCHANGED <<managers, fields, eventSlot, onlineSlot, consumers, value, origin>>
      /\ todo = <<>> /\ queue # <<>> /\ current' = Head(queue) /\ queue' = Tail(queue)
      /\ todo' = IF Head(queue).kind \in ManagerKinds THEN managers ELSE consumers
  BY DEF Dispatch, Between, slots, managerVars, consumerVars
<1>2. MountedOnce(m) /\ Sync(m)
  BY <1>1 DEF MountedOnce, Elements
<1>3. queue \in Seq(Queued) /\ Len(queue) \in Nat /\ Len(queue') = Len(queue) - 1
  BY <1>1 DEF TypeInv, TypeOK
<1>4. Elements(queue) = {current'} \cup Elements(queue')
  BY <1>1, <1>3, ElementsTail
<1>5. \A i \in 1..Len(queue') : i + 1 \in 1..Len(queue) /\ queue'[i] = queue[i + 1]
  BY <1>1, <1>3
<1>6. \A j \in 1..Len(queue) : j > 1 => j - 1 \in 1..Len(queue') /\ queue'[j - 1] = queue[j]
  BY <1>1, <1>3
<1>7. EventFresh(m)'
  BY <1>1, <1>2 DEF Sync, EventFresh
<1>8. AckFollowed(m)'
  <2>1. SUFFICES ASSUME NEW i \in 1..Len(queue'), NEW f \in Field,
                        queue'[i] = Online, onlineSlot[f] # fields[m][f]
                 PROVE  \E j \in 1..Len(queue') : j > i /\ queue'[j] = FieldEvent(f)
    BY <1>1 DEF AckFollowed
  <2>2. PICK j \in 1..Len(queue) : j > i + 1 /\ queue[j] = FieldEvent(f)
    BY <1>2, <1>5, <2>1 DEF Sync, AckFollowed
  <2>3. j - 1 \in 1..Len(queue') /\ queue'[j - 1] = FieldEvent(f) /\ j - 1 > i
    BY <1>3, <1>6, <2>2
  <2>4. QED BY <2>3
<1>9. AckDelivered(m)'
  <2>1. SUFFICES ASSUME NEW f \in Field, current' = Online, onlineSlot[f] # fields[m][f]
                 PROVE  FieldEvent(f) \in Elements(queue')
    BY <1>1 DEF AckDelivered
  <2>2. 1 \in 1..Len(queue) /\ queue[1] = Online
    BY <1>1, <1>3, <2>1
  <2>3. PICK j \in 1..Len(queue) : j > 1 /\ queue[j] = FieldEvent(f)
    BY <1>2, <2>1, <2>2 DEF Sync, AckFollowed
  <2>4. j - 1 \in DOMAIN queue' /\ queue'[j - 1] = FieldEvent(f)
    BY <1>1, <1>3, <1>6, <2>3
  <2>5. QED BY <2>4 DEF Elements
<1>10. \A c \in Elements(consumers), f \in Field : Coming(c, f) => Coming(c, f)'
  <2>1. SUFFICES ASSUME NEW c \in Elements(consumers), NEW f \in Field, Coming(c, f)
                 PROVE  Coming(c, f)'
    OBVIOUS
  <2>2. FieldEvent(f) \in Elements(queue)
    BY <1>1, <2>1 DEF Coming, Elements
  <2>3. FieldEvent(f) \in Elements(queue') \/ current' = FieldEvent(f)
    BY <1>4, <2>2
  <2>4. current' = FieldEvent(f) => todo' = consumers
    BY <1>1, Names DEF ManagerKinds
  <2>5. QED BY <1>1, <2>3, <2>4 DEF Coming
<1>11. \A f \in Field : Asked(m, f) => Asked(m, f)'
  <2>1. SUFFICES ASSUME NEW f \in Field, Asked(m, f) PROVE Asked(m, f)'
    OBVIOUS
  <2>2. SetReqField(f) \in Elements(queue)
    BY <1>1, <2>1 DEF Asked, Elements
  <2>3. SetReqField(f) \in Elements(queue') \/ current' = SetReqField(f)
    BY <1>4, <2>2
  <2>4. current' = SetReqField(f) => todo' = managers
    BY <1>1, Names DEF ManagerKinds
  <2>5. m \in Elements(managers)
    BY <1>2 DEF MountedOnce
  <2>6. QED BY <2>3, <2>4, <2>5 DEF Asked
<1>12. Told(m)' /\ Answered(m)'
  BY <1>1, <1>2, <1>10, <1>11 DEF Sync, Told, Answered, Elements
<1>13. QED BY <1>7, <1>8, <1>9, <1>12 DEF Sync

-----------------------------------------------------------------------------
LEMMA IInvInit == Init => IInv
<1> SUFFICES ASSUME Init PROVE IInv
  OBVIOUS
<1>1. TypeInv
  BY TypeInvInit
<1>2. Elements(managers) = {} /\ Elements(consumers) = {} /\ Elements(todo) = {}
  BY DEF Init, Elements
<1>3. Unmounted /\ Unbooted
  BY DEF Init, Unmounted, Unbooted
<1>4. Listeners /\ WholeFresh
  BY <1>2 DEF Listeners, WholeFresh
<1>5. \A m \in Manager : ~MountedOnce(m)
  BY <1>2 DEF MountedOnce
<1>6. QED BY <1>1, <1>3, <1>4, <1>5 DEF IInv, Frame

LEMMA IInvNext == IInv /\ [Next]_vars => IInv'
<1> SUFFICES ASSUME IInv, [Next]_vars PROVE IInv'
  OBVIOUS
<1>1. CASE Dispatch
  BY <1>1, FrameDispatch, SyncDispatch DEF IInv
<1>2. ASSUME NEW n \in Manager, BootManager(n) PROVE IInv'
  BY <1>2, FrameManager, SyncBoot DEF IInv
<1>3. ASSUME NEW n \in Manager, ManagerListens(n) PROVE IInv'
  BY <1>3, FrameManager, SyncManager DEF IInv
<1>4. ASSUME NEW c \in Consumer, ConsumerListens(c) PROVE IInv'
  BY <1>4, FrameConsumer, SyncListener DEF IInv
<1>5. ASSUME NEW c \in Consumer, BootConsumer(c) \/ Writes(c) \/ PingTopicManager(c)
      PROVE IInv'
  BY <1>5, FrameConsumer, SyncWriter DEF IInv
<1>6. CASE UNCHANGED vars
  <2> USE <1>6 DEF vars, slots, managerVars, consumerVars
  <2>1. TypeInv'
    BY DEF IInv, Frame, TypeInv, TypeOK, Filled, InFlight, Elements
  <2>2. Unmounted' /\ Unbooted' /\ Listeners' /\ WholeFresh'
    BY DEF IInv, Frame, Unmounted, Unbooted, Listeners, WholeFresh, Elements
  <2>3. ASSUME NEW m \in Manager, MountedOnce(m)' PROVE Sync(m)'
    <3>1. MountedOnce(m) /\ Sync(m)
      BY <2>3 DEF IInv, MountedOnce, Elements
    <3>2. EventFresh(m)' /\ AckFollowed(m)' /\ AckDelivered(m)'
      BY <3>1 DEF Sync, EventFresh, AckFollowed, AckDelivered, Elements
    <3>3. Told(m)' /\ Answered(m)'
      BY <3>1 DEF Sync, Told, Answered, Coming, Asked, Elements
    <3>4. QED BY <3>2, <3>3 DEF Sync
  <2>4. QED BY <2>1, <2>2, <2>3 DEF IInv, Frame
<1>7. QED BY <1>1, <1>2, <1>3, <1>4, <1>5, <1>6 DEF Next

(* Convergence: with one manager mounted, once the microtask queue is dry  *)
(* every value a consumer got from the manager or asked it for is the      *)
(* manager's, however requests, acks and boots interleaved.                *)
THEOREM Convergence == Spec => []Converged
<1>1. IInv => Converged
  <2>1. SUFFICES ASSUME IInv, Idle, NEW m \in Manager, NEW c \in Elements(consumers),
                        NEW f \in Field, MountedOnce(m),
                        origin[c][f] \in {"manager", "requested"}
                 PROVE  value[c][f] = fields[m][f]
    BY DEF Converged
  <2>2. ~Coming(c, f) /\ ~Asked(m, f)
    BY <2>1 DEF Idle, Between, Coming, Asked, Elements
  <2>3. QED BY <2>1, <2>2 DEF IInv, Sync, Told, Answered
<1>2. QED BY <1>1, IInvInit, IInvNext, PTL DEF Spec

-----------------------------------------------------------------------------
(***************************************************************************)
(* The deferred rebuild.                                                   *)
(***************************************************************************)
StoreFresh ==
  \A m \in Manager : MountedOnce(m) /\ ~dirty[m] => store = AsText(fields[m])

LEMMA StoreFreshManager ==
  ASSUME IInv, StoreFresh, NEW n \in Manager, BootManager(n) \/ ManagerListens(n)
  PROVE  StoreFresh'
<1> USE DEF IInv, Frame
<1>1. SUFFICES ASSUME NEW m \in Manager, MountedOnce(m)', ~dirty'[m]
               PROVE  store' = AsText(fields[m])'
  BY DEF StoreFresh
<1>2. /\ managers \in Seq(Manager) /\ fields[m] \in Struct
      /\ fields \in [Manager -> Struct]
  BY DEF TypeInv, TypeOK
<1>3. CASE BootManager(n)
  <2>1. managers' = Append(managers, n)
    BY <1>3 DEF BootManager
  <2>2. n = m
    <3>1. Elements(managers') = {m}
      BY <1>1 DEF MountedOnce, Elements
    <3>2. Elements(Append(managers, n)) = Elements(managers) \cup {n}
      BY <1>2, ElementsAppend
    <3>3. Elements(managers') = Elements(managers) \cup {n}
      BY <2>1, <3>2
    <3>4. QED BY <3>1, <3>3
  <2> DEFINE seed == IF store = None THEN ZeroStruct ELSE store
  <2>3. fields' = [fields EXCEPT ![m] = seed] /\ store' = AsText(seed)
    BY <1>3, <2>2 DEF BootManager, BroadcastOnline
  <2> HIDE DEF seed
  <2>4. fields'[m] = seed
    BY <1>2, <2>3
  <2>5. QED BY <2>3, <2>4 DEF AsText
<1>4. CASE ManagerListens(n)
  <2>1. PICK k \in ManagerKinds : Runs(n, k)
    BY <1>4 DEF ManagerListens, OnSetReq, OnSetReqField, OnPing, ManagerKinds
  <2>2. managers' = managers
    BY <1>4 DEF ManagerListens, OnSetReq, OnSetReqField, OnPing
  <2>3. MountedOnce(m)
    BY <1>1, <2>2 DEF MountedOnce, Elements
  <2>4. n = m /\ m \in Elements(managers)
    BY <2>1, <2>3, OnlyManagerRuns DEF MountedOnce
  <2>5. CASE OnSetReq(m)
    <3> DEFINE changed == Changed(m, reqSlot)
               new == [f \in Field |-> IF f \in changed THEN reqSlot[f] ELSE fields[m][f]]
    <3>1. /\ fields' = [fields EXCEPT ![m] = new]
          /\ store' = IF dirty[m] \/ changed # {} THEN AsText(new) ELSE store
      BY <2>5 DEF OnSetReq
    <3>2. changed = {} => new = fields[m]
      BY <1>2 DEF Struct
    <3> HIDE DEF new, changed
    <3>3. fields'[m] = new
      BY <1>2, <3>1
    <3>4. store' = AsText(new)
      BY <2>3, <3>1, <3>2 DEF StoreFresh
    <3>5. QED BY <3>3, <3>4 DEF AsText
  <2>6. CASE OnSetReqField(m)
    BY <1>1, <2>6 DEF OnSetReqField, MarkDirty, TypeInv, TypeOK
  <2>7. CASE OnPing(m)
    <3>1. fields' = fields /\ store' = AsText(IF dirty[m] THEN fields[m] ELSE whole[m])
      BY <2>7 DEF OnPing, BroadcastOnline
    <3>2. (IF dirty[m] THEN fields[m] ELSE whole[m]) = fields[m]
      BY <2>4 DEF WholeFresh
    <3>3. QED BY <3>1, <3>2 DEF AsText
  <2>8. QED BY <1>4, <2>4, <2>5, <2>6, <2>7 DEF ManagerListens
<1>5. QED BY <1>3, <1>4

(* A whole struct that is not marked dirty is up to date, in the manager   *)
(* and in the store: the rebuild that per-field requests put off is never  *)
(* lost, whatever runs in between.                                         *)
THEOREM RebuildIsNeverLost == Spec => []CleanMeansFresh
<1>1. Init => StoreFresh
  BY DEF Init, StoreFresh, MountedOnce, Elements
<1>2. IInv /\ StoreFresh /\ [Next]_vars => StoreFresh'
  <2>1. SUFFICES ASSUME IInv, StoreFresh, [Next]_vars PROVE StoreFresh'
    OBVIOUS
  <2>2. ASSUME UNCHANGED <<store, managers, fields, dirty>> PROVE StoreFresh'
    BY <2>1, <2>2 DEF StoreFresh, MountedOnce, Elements, AsText
  <2>3. CASE Dispatch \/ UNCHANGED vars
    BY <2>2, <2>3 DEF Dispatch, vars, managerVars
  <2>4. ASSUME NEW c \in Consumer,
               BootConsumer(c) \/ ConsumerListens(c) \/ Writes(c) \/ PingTopicManager(c)
        PROVE  StoreFresh'
    BY <2>2, <2>4 DEF BootConsumer, ConsumerListens, OnFieldEvent, OnOnline, OnOnlineEffect,
       Writes, Set, SetField, PingTopicManager, managerVars
  <2>5. ASSUME NEW n \in Manager, BootManager(n) \/ ManagerListens(n) PROVE StoreFresh'
    BY <2>1, <2>5, StoreFreshManager
  <2>6. QED BY <2>1, <2>3, <2>4, <2>5 DEF Next
<1>3. IInv /\ StoreFresh => CleanMeansFresh
  <2>1. SUFFICES ASSUME IInv, StoreFresh, NEW m \in Elements(managers), ~dirty[m]
                 PROVE  whole[m] = fields[m] /\ (MountedOnce(m) => store = AsText(fields[m]))
    BY DEF CleanMeansFresh
  <2>2. m \in Manager
    BY <2>1 DEF IInv, Frame, TypeInv, TypeOK, Elements
  <2>3. QED BY <2>1, <2>2 DEF IInv, Frame, WholeFresh, StoreFresh
<1>4. QED BY <1>1, <1>2, <1>3, IInvInit, IInvNext, PTL DEF Spec

-----------------------------------------------------------------------------
(***************************************************************************)
(* The last request wins.  A per-field and a whole-struct request meet in  *)
(* one queue but leave their payloads in different slots, so the question  *)
(* is which of the two names comes last in the queue.                      *)
(***************************************************************************)

\* An a is in q, and no b behind the last one.
Last(q, a, b) ==
  \E j \in 1..Len(q) : q[j] = a /\ \A i \in 1..Len(q) : i > j => q[i] # b

\* An a will still reach manager m, and no b after it.
UnderWay(m, a, b) ==
  \/ Last(queue, a, b)
  \/ b \notin Elements(queue) /\ current = a /\ m \in Elements(todo)
\* No b will reach manager m any more.
Clear(m, b) == b \notin Elements(queue) /\ ~(current = b /\ m \in Elements(todo))

FieldKept(m, f) ==
  lastAsked[f] = "field" =>
    \/ UnderWay(m, SetReqField(f), SetReq)
    \/ Clear(m, SetReq) /\ fields[m][f] = reqFieldSlot[f]
StructKept(m, f) ==
  lastAsked[f] = "struct" =>
    \/ UnderWay(m, SetReq, SetReqField(f))
    \/ Clear(m, SetReqField(f)) /\ fields[m][f] = reqSlot[f]
Kept(m) == \A f \in Field : FieldKept(m, f) /\ StructKept(m, f)

\* Nobody is online, and nobody can ask, before a manager boots.
NothingAsked == managers = <<>> => \A f \in Field : lastAsked[f] = "nothing"

OInv == IInv /\ NothingAsked /\ \A m \in Manager : MountedOnce(m) => Kept(m)

-----------------------------------------------------------------------------
(* What appending and taking the tail do to the last request in the queue. *)
LEMMA LastConcat ==
  ASSUME NEW S, NEW q \in Seq(S), NEW t \in Seq(S), NEW a, NEW b,
         b \notin Elements(t), Last(q, a, b)
  PROVE  Last(q \o t, a, b)
<1>1. PICK j \in 1..Len(q) : q[j] = a /\ \A i \in 1..Len(q) : i > j => q[i] # b
  BY DEF Last
<1>2. /\ Len(q) \in Nat /\ Len(t) \in Nat /\ Len(q \o t) = Len(q) + Len(t)
      /\ \A i \in 1..Len(q) : (q \o t)[i] = q[i]
  OBVIOUS
<1>3. \A i \in 1..Len(t) : t[i] # b
  BY DEF Elements
<1>4. ASSUME NEW i \in 1..Len(q \o t), i > j PROVE (q \o t)[i] # b
  <2>1. CASE i <= Len(q)
    BY <1>1, <1>2, <1>4, <2>1
  <2>2. CASE i > Len(q)
    <3>1. i - Len(q) \in 1..Len(t) /\ (q \o t)[i] = t[i - Len(q)]
      BY <1>2, <2>2
    <3>2. QED BY <1>3, <3>1
  <2>3. QED BY <1>2, <2>1, <2>2
<1>5. j \in 1..Len(q \o t) /\ (q \o t)[j] = a
  BY <1>1, <1>2
<1>6. QED BY <1>4, <1>5 DEF Last

LEMMA LastAppended ==
  ASSUME NEW S, NEW q \in Seq(S), NEW a \in S, NEW b
  PROVE  Last(Append(q, a), a, b)
<1>1. /\ Len(q) \in Nat /\ Len(Append(q, a)) = Len(q) + 1
      /\ Append(q, a)[Len(q) + 1] = a
  OBVIOUS
<1>2. Len(q) + 1 \in 1..Len(Append(q, a))
  BY <1>1
<1>3. \A i \in 1..Len(Append(q, a)) : ~(i > Len(q) + 1)
  BY <1>1
<1>4. QED BY <1>1, <1>2, <1>3 DEF Last

LEMMA LastTail ==
  ASSUME NEW S, NEW q \in Seq(S), q # <<>>, NEW a, NEW b, Last(q, a, b)
  PROVE  Last(Tail(q), a, b) \/ (Head(q) = a /\ b \notin Elements(Tail(q)))
<1>1. PICK j \in 1..Len(q) : q[j] = a /\ \A i \in 1..Len(q) : i > j => q[i] # b
  BY DEF Last
<1>2. /\ Len(q) \in Nat /\ Len(Tail(q)) = Len(q) - 1 /\ Head(q) = q[1]
      /\ DOMAIN Tail(q) = 1..(Len(q) - 1)
  OBVIOUS
<1>3. \A i \in 1..Len(Tail(q)) : i + 1 \in 1..Len(q) /\ Tail(q)[i] = q[i + 1]
  BY <1>2
<1>4. CASE j = 1
  <2>1. \A i \in 1..Len(Tail(q)) : Tail(q)[i] # b
    BY <1>1, <1>2, <1>3, <1>4
  <2>2. QED BY <1>1, <1>2, <1>4, <2>1 DEF Elements
<1>5. CASE j > 1
  <2>1. j - 1 \in 1..Len(Tail(q)) /\ Tail(q)[j - 1] = a
    BY <1>1, <1>2, <1>3, <1>5
  <2>2. \A i \in 1..Len(Tail(q)) : i > j - 1 => Tail(q)[i] # b
    BY <1>1, <1>2, <1>3, <1>5
  <2>3. QED BY <2>1, <2>2 DEF Last
<1>6. QED BY <1>4, <1>5

-----------------------------------------------------------------------------
LEMMA NoneQueued ==
  ASSUME queue \in Seq(Queued), NEW b, NEW t \in Seq(Queued),
         b \notin Elements(t), queue' = queue \/ queue' = queue \o t,
         b \notin Elements(queue)
  PROVE  b \notin Elements(queue')
<1>1. CASE queue' = queue
  BY <1>1 DEF Elements
<1>2. CASE queue' = queue \o t
  <2>1. Elements(queue \o t) = Elements(queue) \cup Elements(t)
    BY ElementsConcat
  <2>2. QED BY <1>2, <2>1 DEF Elements
<1>3. QED BY <1>1, <1>2

(* Steps that queue no b, and do not run a listener of a or b.             *)
LEMMA KeptInQueue ==
  ASSUME TypeOK, NEW m, NEW a, NEW b, NEW t \in Seq(Queued),
         b \notin Elements(t), queue' = queue \/ queue' = queue \o t,
         current' = current, current \in {a, b} => todo' = todo
  PROVE  /\ UnderWay(m, a, b) => UnderWay(m, a, b)'
         /\ Clear(m, b) => Clear(m, b)'
<1>1. queue \in Seq(Queued)
  BY DEF TypeOK
<1>2. Last(queue, a, b) => Last(queue', a, b)
  BY <1>1, LastConcat
<1>3. b \notin Elements(queue) => b \notin Elements(queue')
  BY <1>1, NoneQueued
<1>4. QED BY <1>2, <1>3 DEF UnderWay, Clear

(* Delivering an event starts with the manager, and with a in order.       *)
LEMMA KeptByDispatch ==
  ASSUME TypeOK, NEW m \in Elements(managers), NEW a \in Queued, NEW b \in Queued,
         a.kind \in ManagerKinds, Dispatch
  PROVE  /\ UnderWay(m, a, b) => UnderWay(m, a, b)'
         /\ Clear(m, b) => Clear(m, b)'
<1>1. /\ todo = <<>> /\ queue # <<>> /\ current' = Head(queue) /\ queue' = Tail(queue)
      /\ todo' = IF Head(queue).kind \in ManagerKinds THEN managers ELSE consumers
  BY DEF Dispatch, Between
<1>2. queue \in Seq(Queued)
  BY DEF TypeOK
<1>3. Elements(queue) = {current'} \cup Elements(queue')
  BY <1>1, <1>2, ElementsTail
<1>4. Elements(todo) = {}
  BY <1>1 DEF Elements
<1>5. ASSUME UnderWay(m, a, b) PROVE UnderWay(m, a, b)'
  <2>1. Last(queue, a, b)
    BY <1>4, <1>5 DEF UnderWay
  <2>2. Last(queue', a, b) \/ (current' = a /\ b \notin Elements(queue'))
    BY <1>1, <1>2, <2>1, LastTail
  <2>3. current' = a => todo' = managers
    BY <1>1
  <2>4. QED BY <2>2, <2>3 DEF UnderWay
<1>6. Clear(m, b) => Clear(m, b)'
  BY <1>3 DEF Clear
<1>7. QED BY <1>5, <1>6

(* The listener of b has nothing to spoil: an a that was last is still due. *)
LEMMA KeptByOther ==
  ASSUME TypeOK, NEW m, NEW a, NEW b, NEW t \in Seq(Queued), a # b,
         b \notin Elements(t), queue' = queue \/ queue' = queue \o t,
         current = b, m \in Elements(todo), UnderWay(m, a, b) \/ Clear(m, b)
  PROVE  UnderWay(m, a, b)'
<1>1. Last(queue, a, b)
  BY DEF UnderWay, Clear
<1>2. queue \in Seq(Queued)
  BY DEF TypeOK
<1>3. Last(queue', a, b)
  BY <1>1, <1>2, LastConcat
<1>4. QED BY <1>3 DEF UnderWay

(* After the listener of a has run, another a is due or no b is.           *)
LEMMA KeptByOwn ==
  ASSUME TypeOK, NEW m, NEW a, NEW b, NEW t \in Seq(Queued), a # b,
         b \notin Elements(t), queue' = queue \/ queue' = queue \o t,
         current = a, current' = current, UnderWay(m, a, b) \/ Clear(m, b)
  PROVE  UnderWay(m, a, b)' \/ Clear(m, b)'
<1>1. queue \in Seq(Queued)
  BY DEF TypeOK
<1>2. CASE Last(queue, a, b)
  <2>1. Last(queue', a, b)
    BY <1>1, <1>2, LastConcat
  <2>2. QED BY <2>1 DEF UnderWay
<1>3. CASE ~Last(queue, a, b)
  <2>1. b \notin Elements(queue)
    BY <1>3 DEF UnderWay, Clear
  <2>2. b \notin Elements(queue')
    BY <1>1, <2>1, NoneQueued
  <2>3. QED BY <2>2 DEF Clear
<1>4. QED BY <1>2, <1>3

-----------------------------------------------------------------------------
LEMMA AskedBySomebody ==
  ASSUME IInv, NothingAsked, [Next]_vars
  PROVE  NothingAsked'
<1> USE DEF IInv, Frame
<1>1. SUFFICES ASSUME managers' = <<>> PROVE \A f \in Field : lastAsked'[f] = "nothing"
  BY DEF NothingAsked
<1>2. ASSUME NEW m \in Manager, BootManager(m) PROVE FALSE
  <2>1. managers' = Append(managers, m) /\ managers \in Seq(Manager)
    BY <1>2 DEF BootManager, TypeInv, TypeOK
  <2>2. Len(managers') = Len(managers) + 1 /\ Len(managers) \in Nat
    BY <2>1
  <2>3. QED BY <1>1, <2>2
<1>3. managers = <<>>
  BY <1>1, <1>2 DEF Next, vars, managerVars, Dispatch, ManagerListens, OnSetReq, OnSetReqField,
     OnPing, BootConsumer, ConsumerListens, OnFieldEvent, OnOnline, OnOnlineEffect, Writes,
     Set, SetField, PingTopicManager
<1>4. /\ \A f \in Field : lastAsked[f] = "nothing"
      /\ todo = <<>> /\ \A c \in Consumer : ~online[c]
  BY <1>3 DEF NothingAsked, Unmounted
<1>5. lastAsked' = lastAsked
  <2>1. \A p, k : ~Runs(p, k)
    BY <1>4 DEF Runs, Between
  <2>2. ASSUME NEW c \in Consumer, Writes(c) PROVE lastAsked' = lastAsked
    BY <1>4, <2>2 DEF Writes, Set, SetField
  <2>3. ASSUME NEW c \in Consumer, BootConsumer(c) \/ PingTopicManager(c)
        PROVE  lastAsked' = lastAsked
    BY <2>3 DEF BootConsumer, PingTopicManager, consumerVars
  <2>4. ASSUME NEW c \in Consumer, ConsumerListens(c) PROVE FALSE
    BY <2>1, <2>4 DEF ConsumerListens, OnFieldEvent, OnOnline, OnOnlineEffect
  <2>5. ASSUME NEW m \in Manager, ManagerListens(m) PROVE FALSE
    BY <2>1, <2>5 DEF ManagerListens, OnSetReq, OnSetReqField, OnPing
  <2>6. ASSUME Dispatch \/ UNCHANGED vars PROVE lastAsked' = lastAsked
    BY <2>6 DEF Dispatch, vars, consumerVars
  <2>7. QED BY <1>2, <2>2, <2>3, <2>4, <2>5, <2>6 DEF Next
<1>6. QED BY <1>4, <1>5

(* The first boot of a manager: nothing has been asked.                    *)
LEMMA KeptAtBoot ==
  ASSUME IInv, NothingAsked, NEW m \in Manager, NEW n \in Manager,
         BootManager(n), MountedOnce(m)'
  PROVE  Kept(m)'
<1>1. /\ managers \in Seq(Manager) /\ managers' = Append(managers, n)
      /\ n \notin Elements(managers) /\ lastAsked' = lastAsked
  BY DEF IInv, Frame, TypeInv, TypeOK, BootManager, consumerVars
<1>2. Elements(managers) \cup {n} = {m}
  BY <1>1, ElementsAppend DEF MountedOnce
<1>3. Elements(managers) = {}
  BY <1>1, <1>2
<1>4. managers = <<>>
  <2>1. ASSUME managers # <<>> PROVE Head(managers) \in Elements(managers)
    BY <1>1, <2>1, ElementsTail
  <2>2. QED BY <1>3, <2>1
<1>5. \A f \in Field : lastAsked'[f] = "nothing"
  BY <1>1, <1>4 DEF NothingAsked
<1>6. QED BY <1>5 DEF Kept, FieldKept, StructKept

(* The manager's listeners.                                                *)
LEMMA KeptByManager ==
  ASSUME IInv, NEW m \in Manager, NEW n \in Manager, ManagerListens(n), MountedOnce(m), Kept(m)
  PROVE  Kept(m)'
<1> USE DEF IInv, Frame
<1>1. PICK k \in ManagerKinds : Runs(n, k)
  BY DEF ManagerListens, OnSetReq, OnSetReqField, OnPing, ManagerKinds
<1>2. n = m
  BY <1>1, OnlyManagerRuns
<1>3. /\ todo' = Tail(todo) /\ todo # <<>> /\ Head(todo) = m
      /\ current' = current /\ current.kind = k
      /\ UNCHANGED <<lastAsked, reqSlot, reqFieldSlot>>
  BY <1>1, <1>2 DEF ManagerListens, OnSetReq, OnSetReqField, OnPing, Runs, Between, consumerVars
<1>4. queue \in Seq(Queued) /\ TypeOK
  BY DEF TypeInv, TypeOK
<1>5. m \in Elements(todo)
  <2>1. todo \in Seq(Manager)
    BY <1>1, <1>3 DEF TypeInv, TypeOK
  <2>2. QED BY <1>3, <2>1, ElementsTail
<1>6. CASE OnSetReq(m)
  <2>1. PICK s \in InFieldOrder(Changed(m, reqSlot)) :
          queue' = queue \o [i \in DOMAIN s |-> FieldEvent(s[i])]
    BY <1>6 DEF OnSetReq
  <2> DEFINE changed == Changed(m, reqSlot)
             new == [f \in Field |-> IF f \in changed THEN reqSlot[f] ELSE fields[m][f]]
             t == [i \in DOMAIN s |-> FieldEvent(s[i])]
  <2>2. changed \in SUBSET Field
    BY DEF Changed
  <2>3. t \in Seq(Queued) /\ Elements(t) = {FieldEvent(f) : f \in changed}
    BY <2>2, Broadcasts
  <2>4. queue' = queue \o t
    BY <2>1
  <2> HIDE DEF t
  <2>5. fields' = [fields EXCEPT ![m] = new]
    BY <1>6 DEF OnSetReq
  <2>6. \A f \in Field : fields'[m][f] = reqSlot[f]
    BY <2>5 DEF TypeInv, TypeOK, Changed
  <2> HIDE DEF changed, new
  <2>7. current = SetReq
    BY <1>1, <1>3, <1>6, Names DEF OnSetReq, Runs, TypeInv, TypeOK
  <2>8. ASSUME NEW f \in Field PROVE FieldKept(m, f)' /\ StructKept(m, f)'
    <3> DEFINE a == SetReqField(f)
               b == SetReq
    <3>1. a # b /\ a \notin Elements(t) /\ b \notin Elements(t)
      BY <2>2, <2>3, Names
    <3>2. current = b
      BY <2>7
    <3>3. FieldKept(m, f) /\ StructKept(m, f)
      BY DEF Kept
    <3>4. lastAsked[f] = "field" => UnderWay(m, a, b) \/ Clear(m, b)
      BY <3>3 DEF FieldKept
    <3>5. lastAsked[f] = "struct" => UnderWay(m, b, a) \/ Clear(m, a)
      BY <3>3 DEF StructKept
    <3> HIDE DEF a, b
    <3>6. lastAsked[f] = "field" => UnderWay(m, a, b)'
      BY <1>4, <1>5, <2>3, <2>4, <3>1, <3>2, <3>4, KeptByOther
    <3>7. lastAsked[f] = "struct" => UnderWay(m, b, a)' \/ Clear(m, a)'
      BY <1>3, <1>4, <2>3, <2>4, <3>1, <3>2, <3>5, KeptByOwn
    <3>8. QED BY <1>3, <2>6, <3>6, <3>7 DEF FieldKept, StructKept, a, b
  <2>9. QED BY <2>8 DEF Kept
<1>7. CASE OnSetReqField(m)
  <2> DEFINE g == current.field
             t == <<FieldEvent(g)>>
  <2>1. g \in Field /\ current = SetReqField(g)
    BY <1>7, Names DEF OnSetReqField, Runs, TypeInv, TypeOK
  <2>2. /\ queue' = Append(queue, FieldEvent(g))
        /\ fields' = [fields EXCEPT ![m][g] = reqFieldSlot[g]]
    BY <1>7 DEF OnSetReqField, BroadcastField
  <2> HIDE DEF g
  <2>3. FieldEvent(g) \in Queued
    BY <2>1, Names
  <2>4. t \in Seq(Queued) /\ Elements(t) = {FieldEvent(g)} /\ queue' = queue \o t
    BY <1>4, <2>2, <2>3, AppendIsConcat
  <2> HIDE DEF t
  <2>5. fields[m] \in Struct
    BY DEF TypeInv, TypeOK
  <2>6. \A f \in Field : fields'[m][f] = IF f = g THEN reqFieldSlot[g] ELSE fields[m][f]
    BY <2>1, <2>2, <2>5 DEF TypeInv, TypeOK, Struct
  <2>7. ASSUME NEW f \in Field PROVE FieldKept(m, f)' /\ StructKept(m, f)'
    <3> DEFINE a == SetReqField(f)
               b == SetReq
    <3>1. a # b /\ a \notin Elements(t) /\ b \notin Elements(t)
      BY <2>1, <2>4, Names
    <3>2. FieldKept(m, f) /\ StructKept(m, f)
      BY DEF Kept
    <3>3. CASE f = g
      <4>1. current = a
        BY <2>1, <3>3
      <4>2. lastAsked[f] = "field" => UnderWay(m, a, b) \/ Clear(m, b)
        BY <3>2 DEF FieldKept
      <4>3. lastAsked[f] = "struct" => UnderWay(m, b, a) \/ Clear(m, a)
        BY <3>2 DEF StructKept
      <4> HIDE DEF a, b
      <4>4. lastAsked[f] = "field" => UnderWay(m, a, b)' \/ Clear(m, b)'
        BY <1>3, <1>4, <2>4, <3>1, <4>1, <4>2, KeptByOwn
      <4>5. lastAsked[f] = "struct" => UnderWay(m, b, a)'
        BY <1>4, <1>5, <2>4, <3>1, <4>1, <4>3, KeptByOther
      <4>6. QED BY <1>3, <2>6, <3>3, <4>4, <4>5 DEF FieldKept, StructKept, a, b
    <3>4. CASE f # g
      <4>1. current \notin {a, b}
        BY <2>1, <3>4, Names
      <4>2. fields'[m][f] = fields[m][f]
        BY <2>6, <3>4
      <4> HIDE DEF a, b
      <4>3. /\ UnderWay(m, a, b) => UnderWay(m, a, b)'
            /\ Clear(m, b) => Clear(m, b)'
        BY <1>3, <1>4, <2>4, <3>1, <4>1, KeptInQueue
      <4>4. /\ UnderWay(m, b, a) => UnderWay(m, b, a)'
            /\ Clear(m, a) => Clear(m, a)'
        BY <1>3, <1>4, <2>4, <3>1, <4>1, KeptInQueue
      <4>5. QED BY <1>3, <3>2, <4>2, <4>3, <4>4 DEF FieldKept, StructKept, a, b
    <3>5. QED BY <3>3, <3>4
  <2>8. QED BY <2>7 DEF Kept
<1>8. CASE OnPing(m)
  <2> DEFINE t == <<Online>>
  <2>1. fields' = fields /\ queue' = Append(queue, Online)
    BY <1>8 DEF OnPing, BroadcastOnline
  <2>2. t \in Seq(Queued) /\ Elements(t) = {Online} /\ queue' = queue \o t
    BY <1>4, <2>1, Names, AppendIsConcat
  <2> HIDE DEF t
  <2>3. ASSUME NEW f \in Field PROVE FieldKept(m, f)' /\ StructKept(m, f)'
    <3> DEFINE a == SetReqField(f)
               b == SetReq
    <3>1. a \notin Elements(t) /\ b \notin Elements(t)
      BY <2>2, Names
    <3>2. current \notin {a, b}
      BY <1>8, Names DEF OnPing, Runs
    <3>3. FieldKept(m, f) /\ StructKept(m, f)
      BY DEF Kept
    <3> HIDE DEF a, b
    <3>4. /\ UnderWay(m, a, b) => UnderWay(m, a, b)'
          /\ Clear(m, b) => Clear(m, b)'
      BY <1>3, <1>4, <2>2, <3>1, <3>2, KeptInQueue
    <3>5. /\ UnderWay(m, b, a) => UnderWay(m, b, a)'
          /\ Clear(m, a) => Clear(m, a)'
      BY <1>3, <1>4, <2>2, <3>1, <3>2, KeptInQueue
    <3>6. QED BY <1>3, <2>1, <3>3, <3>4, <3>5 DEF FieldKept, StructKept, a, b
  <2>4. QED BY <2>3 DEF Kept
<1>9. QED BY <1>2, <1>6, <1>7, <1>8 DEF ManagerListens

(* Steps that ask for nothing.                                             *)
LEMMA KeptByQuiet ==
  ASSUME IInv, NEW m \in Manager, Kept(m),
         UNCHANGED <<lastAsked, reqSlot, reqFieldSlot, fields, queue>>,
         \/ current' = current /\ current.kind \in ConsumerKinds
         \/ current' = current /\ todo' = todo
         \/ todo = <<>> /\ current' = Ping
  PROVE  Kept(m)'
<1>1. TypeOK
  BY DEF IInv, Frame, TypeInv
<1>2. ASSUME NEW f \in Field PROVE FieldKept(m, f)' /\ StructKept(m, f)'
  <2> DEFINE a == SetReqField(f)
             b == SetReq
             t == <<>>
  <2>1. FieldKept(m, f) /\ StructKept(m, f)
    BY DEF Kept
  <2>2. t \in Seq(Queued) /\ a \notin Elements(t) /\ b \notin Elements(t)
    BY DEF Elements
  <2>3. current.kind \in ConsumerKinds => current \notin {a, b}
    BY Names DEF ConsumerKinds
  <2>4. Ping \notin {a, b}
    BY Names
  <2> HIDE DEF a, b, t
  <2>5. /\ UnderWay(m, a, b) => UnderWay(m, a, b)'
        /\ Clear(m, b) => Clear(m, b)'
        /\ UnderWay(m, b, a) => UnderWay(m, b, a)'
        /\ Clear(m, a) => Clear(m, a)'
    <3>1. CASE current' = current /\ (current.kind \in ConsumerKinds \/ todo' = todo)
      <4>1. /\ UnderWay(m, a, b) => UnderWay(m, a, b)'
            /\ Clear(m, b) => Clear(m, b)'
        BY <1>1, <2>2, <2>3, <3>1, KeptInQueue
      <4>2. /\ UnderWay(m, b, a) => UnderWay(m, b, a)'
            /\ Clear(m, a) => Clear(m, a)'
        BY <1>1, <2>2, <2>3, <3>1, KeptInQueue
      <4>3. QED BY <4>1, <4>2
    <3>2. CASE todo = <<>> /\ current' = Ping
      <4>1. Elements(todo) = {}
        BY <3>2 DEF Elements
      <4>2. current' \notin {a, b}
        BY <2>4, <3>2
      <4>3. QED BY <4>1, <4>2 DEF UnderWay, Clear
    <3>3. QED BY <3>1, <3>2
  <2>6. QED BY <2>1, <2>5 DEF FieldKept, StructKept, a, b
<1>3. QED BY <1>2 DEF Kept

(* A whole-struct request comes last, for every field.                     *)
LEMMA KeptByWhole ==
  ASSUME IInv, NEW m \in Manager, NEW s, RequestTopicSet(s)
  PROVE  Kept(m)'
<1>1. queue \in Seq(Queued) /\ SetReq \in Queued
  BY Names DEF IInv, Frame, TypeInv, TypeOK
<1>2. queue' = Append(queue, SetReq) /\ lastAsked' = [f \in Field |-> "struct"]
  BY DEF RequestTopicSet
<1>3. ASSUME NEW f \in Field PROVE FieldKept(m, f)' /\ StructKept(m, f)'
  <2>1. Last(queue', SetReq, SetReqField(f))
    BY <1>1, <1>2, LastAppended
  <2>2. lastAsked'[f] # "field"
    BY <1>2
  <2>3. QED BY <2>1, <2>2 DEF FieldKept, StructKept, UnderWay
<1>4. QED BY <1>3 DEF Kept

(* A per-field request comes last for its field and changes no other.      *)
LEMMA KeptByField ==
  ASSUME IInv, NEW m \in Manager, NEW c \in Consumer, NEW g \in Field, NEW v,
         SetField(c, g, v), online[c], Kept(m)
  PROVE  Kept(m)'
<1>1. queue \in Seq(Queued) /\ SetReqField(g) \in Queued /\ TypeOK
  BY Names DEF IInv, Frame, TypeInv, TypeOK
<1>2. /\ queue' = Append(queue, SetReqField(g))
      /\ reqFieldSlot' = [reqFieldSlot EXCEPT ![g] = v]
      /\ lastAsked' = [lastAsked EXCEPT ![g] = "field"]
      /\ UNCHANGED <<reqSlot, fields, current, todo>>
  BY DEF SetField, managerVars
<1>3. lastAsked'[g] = "field" /\ \A f \in Field : f # g =>
        lastAsked'[f] = lastAsked[f] /\ reqFieldSlot'[f] = reqFieldSlot[f]
  BY <1>1, <1>2 DEF TypeOK
<1> DEFINE t == <<SetReqField(g)>>
<1>4. t \in Seq(Queued) /\ Elements(t) = {SetReqField(g)} /\ queue' = queue \o t
  BY <1>1, <1>2, AppendIsConcat
<1> HIDE DEF t
<1>5. ASSUME NEW f \in Field PROVE FieldKept(m, f)' /\ StructKept(m, f)'
  <2>1. CASE f = g
    <3>1. Last(queue', SetReqField(f), SetReq)
      BY <1>1, <1>2, <2>1, LastAppended
    <3>2. QED BY <1>3, <2>1, <3>1 DEF FieldKept, StructKept, UnderWay
  <2>2. CASE f # g
    <3> DEFINE a == SetReqField(f)
               b == SetReq
    <3>1. a \notin Elements(t) /\ b \notin Elements(t)
      BY <1>4, <2>2, Names
    <3>2. FieldKept(m, f) /\ StructKept(m, f)
      BY DEF Kept
    <3> HIDE DEF a, b
    <3>3. /\ UnderWay(m, a, b) => UnderWay(m, a, b)'
          /\ Clear(m, b) => Clear(m, b)'
      BY <1>1, <1>2, <1>4, <3>1, KeptInQueue
    <3>4. /\ UnderWay(m, b, a) => UnderWay(m, b, a)'
          /\ Clear(m, a) => Clear(m, a)'
      BY <1>1, <1>2, <1>4, <3>1, KeptInQueue
    <3>5. QED BY <1>2, <1>3, <2>2, <3>2, <3>3, <3>4 DEF FieldKept, StructKept, a, b
  <2>3. QED BY <2>1, <2>2
<1>6. QED BY <1>5 DEF Kept

LEMMA KeptByConsumer ==
  ASSUME IInv, NEW m \in Manager, NEW c \in Consumer, Kept(m),
         BootConsumer(c) \/ ConsumerListens(c) \/ Writes(c) \/ PingTopicManager(c)
  PROVE  Kept(m)'
<1>1. CASE BootConsumer(c)
  <2>1. UNCHANGED <<lastAsked, reqSlot, reqFieldSlot, fields, queue, current, todo>>
    BY <1>1 DEF BootConsumer, slots, managerVars
  <2>2. QED BY <2>1, KeptByQuiet
<1>2. CASE PingTopicManager(c)
  <2>1. /\ UNCHANGED <<lastAsked, reqSlot, reqFieldSlot, fields, queue>>
        /\ todo = <<>> /\ current' = Ping
    BY <1>2 DEF PingTopicManager, slots, managerVars, consumerVars, Between
  <2>2. QED BY <2>1, KeptByQuiet
<1>3. ASSUME NEW s, Set(c, s) PROVE Kept(m)'
  <2>1. CASE online[c]
    BY <1>3, <2>1, KeptByWhole DEF Set
  <2>2. CASE ~online[c]
    <3>1. UNCHANGED <<lastAsked, reqSlot, reqFieldSlot, fields, queue, current, todo>>
      BY <1>3, <2>2 DEF Set, managerVars
    <3>2. QED BY <3>1, KeptByQuiet
  <2>3. QED BY <2>1, <2>2
<1>4. ASSUME NEW f \in Field, NEW v, SetField(c, f, v) PROVE Kept(m)'
  <2>1. CASE online[c]
    BY <1>4, <2>1, KeptByField
  <2>2. CASE ~online[c]
    <3>1. UNCHANGED <<lastAsked, reqSlot, reqFieldSlot, fields, queue, current, todo>>
      BY <1>4, <2>2 DEF SetField, managerVars
    <3>2. QED BY <3>1, KeptByQuiet
  <2>3. QED BY <2>1, <2>2
<1>5. CASE ConsumerListens(c)
  <2>1. /\ UNCHANGED <<reqFieldSlot, fields>> /\ current' = current
        /\ current.kind \in ConsumerKinds
    BY <1>5 DEF ConsumerListens, OnFieldEvent, OnOnline, OnOnlineEffect, Runs, slots,
                managerVars, ConsumerKinds
  <2>2. \/ UNCHANGED <<lastAsked, reqSlot, queue>>
        \/ RequestTopicSet(pending[c])
    BY <1>5 DEF ConsumerListens, OnFieldEvent, OnOnline, OnOnlineEffect, GoOnline, slots
  <2>3. QED BY <2>1, <2>2, KeptByQuiet, KeptByWhole
<1>6. QED BY <1>1, <1>2, <1>3, <1>4, <1>5 DEF Writes

LEMMA KeptByQueue ==
  ASSUME IInv, NEW m \in Manager, MountedOnce(m), Kept(m), Dispatch
  PROVE  Kept(m)'
<1>1. UNCHANGED <<lastAsked, reqSlot, reqFieldSlot, fields>>
  BY DEF Dispatch, slots, managerVars, consumerVars
<1>2. m \in Elements(managers) /\ TypeOK
  BY DEF MountedOnce, IInv, Frame, TypeInv
<1>3. ASSUME NEW f \in Field PROVE FieldKept(m, f)' /\ StructKept(m, f)'
  <2> DEFINE a == SetReqField(f)
             b == SetReq
  <2>1. FieldKept(m, f) /\ StructKept(m, f)
    BY DEF Kept
  <2>2. /\ a \in Queued /\ b \in Queued
        /\ a.kind \in ManagerKinds /\ b.kind \in ManagerKinds
    BY Names DEF ManagerKinds
  <2> HIDE DEF a, b
  <2>3. /\ UnderWay(m, a, b) => UnderWay(m, a, b)'
        /\ Clear(m, b) => Clear(m, b)'
    BY <1>2, <2>2, KeptByDispatch
  <2>4. /\ UnderWay(m, b, a) => UnderWay(m, b, a)'
        /\ Clear(m, a) => Clear(m, a)'
    BY <1>2, <2>2, KeptByDispatch
  <2>5. QED BY <1>1, <2>1, <2>3, <2>4 DEF FieldKept, StructKept, a, b
<1>4. QED BY <1>3 DEF Kept

-----------------------------------------------------------------------------
LEMMA OInvInit == Init => OInv
<1> SUFFICES ASSUME Init PROVE OInv
  OBVIOUS
<1>1. NothingAsked
  BY DEF Init, NothingAsked
<1>2. \A m \in Manager : Kept(m)
  BY DEF Init, Kept, FieldKept, StructKept
<1>3. QED BY <1>1, <1>2, IInvInit DEF OInv

LEMMA OInvNext == OInv /\ [Next]_vars => OInv'
<1> SUFFICES ASSUME OInv, [Next]_vars PROVE OInv'
  OBVIOUS
<1> USE DEF OInv
<1>1. IInv' /\ NothingAsked'
  BY IInvNext, AskedBySomebody
<1>2. SUFFICES ASSUME NEW m \in Manager, MountedOnce(m)' PROVE Kept(m)'
  BY <1>1
<1>3. ASSUME NEW n \in Manager, BootManager(n) PROVE Kept(m)'
  BY <1>2, <1>3, KeptAtBoot
<1>4. managers' = managers => MountedOnce(m) /\ Kept(m)
  BY <1>2 DEF MountedOnce, Elements
<1>5. ASSUME NEW n \in Manager, ManagerListens(n) PROVE Kept(m)'
  <2>1. managers' = managers
    BY <1>5 DEF ManagerListens, OnSetReq, OnSetReqField, OnPing
  <2>2. QED BY <1>4, <1>5, <2>1, KeptByManager
<1>6. ASSUME NEW c \in Consumer,
             BootConsumer(c) \/ ConsumerListens(c) \/ Writes(c) \/ PingTopicManager(c)
      PROVE  Kept(m)'
  <2>1. managers' = managers
    BY <1>6 DEF BootConsumer, ConsumerListens, Writes, PingTopicManager, OnFieldEvent,
                OnOnline, OnOnlineEffect, Set, SetField, managerVars
  <2>2. QED BY <1>4, <1>6, <2>1, KeptByConsumer
<1>7. CASE Dispatch
  <2>1. managers' = managers
    BY <1>7 DEF Dispatch, managerVars
  <2>2. QED BY <1>4, <1>7, <2>1, KeptByQueue
<1>8. CASE UNCHANGED vars
  <2>1. UNCHANGED <<lastAsked, reqSlot, reqFieldSlot, fields, queue, current, todo, managers>>
    BY <1>8 DEF vars, slots, managerVars, consumerVars
  <2>2. QED BY <1>4, <2>1, KeptByQuiet
<1>9. QED BY <1>3, <1>5, <1>6, <1>7, <1>8 DEF Next

(* With one manager mounted and the microtask queue dry, every field that  *)
(* was asked for holds what the last request naming it asked, whichever of *)
(* the two kinds it was and however the two kinds met in the queue.        *)
THEOREM LastRequestWins == Spec => []LastRequestApplied
<1>1. OInv => LastRequestApplied
  <2>1. SUFFICES ASSUME OInv, Idle, NEW m \in Manager, NEW f \in Field, MountedOnce(m)
                 PROVE  /\ lastAsked[f] = "field" => fields[m][f] = reqFieldSlot[f]
                        /\ lastAsked[f] = "struct" => fields[m][f] = reqSlot[f]
    BY DEF LastRequestApplied
  <2>2. Elements(queue) = {} /\ Elements(todo) = {} /\ Len(queue) = 0
    BY <2>1 DEF Idle, Between, Elements
  <2>3. \A a, b : ~UnderWay(m, a, b)
    BY <2>2 DEF UnderWay, Last
  <2>4. FieldKept(m, f) /\ StructKept(m, f)
    BY <2>1 DEF OInv, Kept
  <2>5. QED BY <2>3, <2>4 DEF FieldKept, StructKept
<1>2. QED BY <1>1, OInvInit, OInvNext, PTL DEF Spec
===============================================================================
