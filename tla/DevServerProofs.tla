----------------------------- MODULE DevServerProofs ----------------------------
(***************************************************************************)
(* The development server, for any number of edits, streams and sends and  *)
(* any set of versions that do not build.  Hot reload: coalescing loses no *)
(* edit that the watcher sees, and processes do not pile up.  The event    *)
(* hub of its proxy: a client that stays gets each event once.             *)
(***************************************************************************)
EXTENDS HotReload, SseHub, TLAPS

-----------------------------------------------------------------------------
(***************************************************************************)
(* Hot reload.                                                             *)
(***************************************************************************)

\* The part of TypeOK the argument needs.
BuilderTypeOK ==
  /\ source \in Version /\ watching \in Stage /\ missed \in Version \cup {NotYet}
  /\ events \in Nat /\ timer \in BOOLEAN /\ waiting \in Nat
  /\ step \in Steps /\ from \in Version /\ normalized \in Version \cup {NotYet}
  /\ binary \in Version \cup {NotYet}

\* Work that will read the sources as they are now, or has: an event, the timer, a
\* rebuild in the queue, one under way that has read nothing older, or the binary.
WorkIsLeft ==
  \/ events > 0 \/ timer = TRUE \/ waiting > 0
  \/ step # "none" /\ from = source
  \/ binary = source

EditsAreKept ==
  source > missed /\ source \notin Broken => WorkIsLeft

\* A rebuild reads sources no older than the binary, and restarts what it compiled:
\* without this a late rebuild could replace the last edit's binary by an older one.
BuildsMoveForward ==
  /\ binary <= from /\ from <= source
  /\ step = "restart" => binary = from

IInv == BuilderTypeOK /\ BuildsMoveForward /\ EditsAreKept

LEMMA IInvInit == Init => IInv
<1> USE HotReloadAssumption
<1> SUFFICES ASSUME Init PROVE IInv
  OBVIOUS
<1>1. 0 \in Version
  BY DEF Version
<1>2. BuilderTypeOK
  BY <1>1 DEF Init, BuilderTypeOK, Stage, Steps, NotYet
<1>3. WorkIsLeft
  BY DEF Init, WorkIsLeft
<1>4. BuildsMoveForward
  BY DEF Init, BuildsMoveForward, NotYet
<1>5. QED BY <1>2, <1>3, <1>4 DEF IInv, EditsAreKept

LEMMA IInvNext == IInv /\ [Next]_vars => IInv'
<1> USE HotReloadAssumption
<1> SUFFICES ASSUME IInv, [Next]_vars PROVE IInv'
  OBVIOUS
<1> USE DEF IInv, BuilderTypeOK, BuildsMoveForward, Version, EditsAreKept, WorkIsLeft, Stage, Steps, NotYet
<1>1. CASE Edit
  <2>1. /\ source \in 0..MaxEdits /\ source < MaxEdits /\ source' = source + 1
        /\ UNCHANGED <<watching, timer, waiting, step, from, normalized, binary>>
    BY <1>1 DEF Edit, Version, builder
  <2>2. source' \in Version
    BY <2>1 DEF Version
  <2>3. CASE Noticed /\ missed' = missed
    BY <2>1, <2>2, <2>3 DEF Noticed
  <2>4. CASE Unnoticed /\ missed' = source'
    BY <2>1, <2>2, <2>4 DEF Unnoticed
  <2>5. QED BY <1>1, <2>3, <2>4 DEF Edit
<1>2. CASE StartWatching \/ WalkEnds \/ WatchTheRest
  <2>1. /\ watching' \in Stage
        /\ UNCHANGED <<source, missed, events, timer, waiting, step, from, normalized, binary>>
    BY <1>2 DEF StartWatching, WalkEnds, WatchTheRest, builder, Stage
  <2>2. QED BY <2>1
<1>3. CASE ScheduleRebuild
  BY <1>3 DEF ScheduleRebuild, builder, watcher
<1>4. CASE Fire
  <2>1. /\ timer' = FALSE /\ waiting' = waiting + 1
        /\ UNCHANGED <<source, watching, missed, events, step, from, normalized, binary>>
    BY <1>4 DEF Fire, Queue, watcher
  <2>2. waiting' \in Nat /\ waiting' > 0
    BY <2>1
  <2>3. timer' \in BOOLEAN
    BY <2>1
  <2>4. BuilderTypeOK'
    BY <2>1, <2>2, <2>3
  <2>5. BuildsMoveForward'
    BY <2>1
  <2>6. WorkIsLeft'
    BY <2>2
  <2>7. QED BY <2>4, <2>5, <2>6
<1>5. CASE Lock
  BY <1>5 DEF Lock, watcher
<1>6. CASE Generate
  BY <1>6 DEF Generate, watcher
<1>7. CASE Wasm
  <2>1. /\ step = "wasm" /\ step' = "compile"
        /\ UNCHANGED <<source, watching, missed, timer, waiting, from, binary>>
    BY <1>7 DEF Wasm, watcher
  <2>2. events' \in Nat /\ (events > 0 => events' > 0)
    BY <1>7 DEF Wasm, Noticed, Unnoticed
  <2>3. normalized' \in Version \cup {NotYet}
    BY <1>7 DEF Wasm
  <2>4. BuilderTypeOK' /\ BuildsMoveForward'
    BY <2>1, <2>2, <2>3
  <2>5. WorkIsLeft => WorkIsLeft'
    <3>1. CASE timer = TRUE
      <4>1. timer' = TRUE
        BY <2>1, <3>1
      <4>2. QED BY <4>1
    <3>2. CASE timer # TRUE
      BY <2>1, <2>2, <3>2
    <3>3. QED BY <3>1, <3>2
  <2>6. QED BY <2>1, <2>4, <2>5
<1>8. CASE Compile
  <2>1. /\ step = "compile"
        /\ UNCHANGED <<source, watching, missed, events, timer, waiting, from, normalized>>
    BY <1>8 DEF Compile, watcher
  <2>2. CASE source \in Broken
    <3>1. step' = "none" /\ binary' = binary
      BY <1>8, <2>2 DEF Compile
    <3>2. BuilderTypeOK' /\ BuildsMoveForward'
      BY <2>1, <3>1
    <3>3. EditsAreKept'
      BY <2>1, <2>2
    <3>4. QED BY <3>2, <3>3
  <2>3. CASE source \notin Broken
    <3>1. step' = "restart" /\ binary' = from
      BY <1>8, <2>3 DEF Compile
    <3>2. BuilderTypeOK' /\ BuildsMoveForward'
      BY <2>1, <3>1
    <3>3. WorkIsLeft => WorkIsLeft'
      <4>1. CASE timer = TRUE
        <5>1. timer' = TRUE
          BY <2>1, <4>1
        <5>2. QED BY <5>1
      <4>2. CASE timer # TRUE
        BY <2>1, <3>1, <4>2
      <4>3. QED BY <4>1, <4>2
    <3>4. (source > missed /\ source \notin Broken)'
          => source > missed /\ source \notin Broken
      BY <2>1
    <3>5. EditsAreKept'
      BY <3>3, <3>4
    <3>6. QED BY <3>2, <3>5
  <2>4. QED BY <2>2, <2>3
<1>9. CASE Restart
  <2>1. /\ step = "restart" /\ step' = "none"
        /\ UNCHANGED <<source, watching, missed, events, timer, waiting, from, normalized, binary>>
    BY <1>9 DEF Restart, watcher
  <2>2. BuilderTypeOK' /\ BuildsMoveForward'
    BY <2>1
  <2>3. WorkIsLeft => WorkIsLeft'
    <3>1. CASE timer = TRUE
      <4>1. timer' = TRUE
        BY <2>1, <3>1
      <4>2. QED BY <4>1
    <3>2. CASE timer # TRUE
      BY <2>1, <3>2
    <3>3. QED BY <3>1, <3>2
  <2>4. (source > missed /\ source \notin Broken)'
        => source > missed /\ source \notin Broken
    BY <2>1
  <2>5. EditsAreKept'
    BY <2>3, <2>4
  <2>6. QED BY <2>2, <2>5
<1>10. CASE UNCHANGED <<source, watching, missed, events, timer, builder>>
  BY <1>10 DEF builder
<1>11. ASSUME NEW i \in DOMAIN runs, Exec(i) \/ Listen(i) \/ Killed(i)
       PROVE  UNCHANGED <<source, watching, missed, events, timer, builder>>
  BY <1>11 DEF Exec, Listen, Killed, watcher
<1>12. CASE WalkFails
  BY <1>12 DEF WalkFails
<1>13. UNCHANGED vars => UNCHANGED <<source, watching, missed, events, timer, builder>>
  BY DEF vars, builder
<1>14. QED
  BY <1>1, <1>2, <1>3, <1>4, <1>5, <1>6, <1>7, <1>8, <1>9, <1>10, <1>11, <1>12, <1>13 DEF Next

(* Once the builder has settled, the binary is built from the last edit    *)
(* the watcher saw, unless that one does not build: scheduleRebuild and    *)
(* rebuild coalesce edits and never lose the last.                         *)
THEOREM NoEditIsLost == Spec => []LastEditIsBuilt
<1>1. IInv => LastEditIsBuilt
  BY DEF IInv, BuilderTypeOK, EditsAreKept, WorkIsLeft, LastEditIsBuilt, BuildSettled
<1>2. QED BY <1>1, IInvInit, IInvNext, PTL DEF Spec
-----------------------------------------------------------------------------
(***************************************************************************)
(* The processes.                                                          *)
(***************************************************************************)
ServerTypeOK == runs \in Seq(Run)

OldAreCancelled == \A i \in DOMAIN runs : i < Len(runs) => runs[i].cancelled = TRUE

\* Between Compile and Restart the newest process runs an older binary; at any
\* other moment it has read the binary there is.
NewestIsCurrent ==
  \A i \in DOMAIN runs :
    i = Len(runs) /\ runs[i].state \in {"starting", "serving"} /\ step # "restart" =>
      runs[i].version = binary

ServerInv == ServerTypeOK /\ OldAreCancelled /\ NewestIsCurrent

LEMMA ServerInit == Init => ServerInv
<1> SUFFICES ASSUME Init PROVE ServerInv
  OBVIOUS
<1>1. runs = <<>> /\ DOMAIN runs = {}
  BY DEF Init
<1>2. runs \in Seq(Run)
  BY <1>1
<1> QED
  BY <1>1, <1>2 DEF ServerInv, ServerTypeOK, OldAreCancelled, NewestIsCurrent

\* One process changes its state and perhaps the version it runs.
LEMMA OneProcess ==
  ASSUME ServerInv, NEW i \in DOMAIN runs, NEW r \in Run, r.cancelled = runs[i].cancelled,
         runs' = [runs EXCEPT ![i] = r],
         UNCHANGED <<step, binary>>,
         r.state \in {"starting", "serving"} =>
           \/ r.version = binary
           \/ r.version = runs[i].version /\ runs[i].state \in {"starting", "serving"}
  PROVE  ServerInv'
<1> USE DEF ServerInv, ServerTypeOK
<1>1. /\ runs' \in Seq(Run) /\ Len(runs') = Len(runs) /\ DOMAIN runs' = DOMAIN runs
      /\ runs'[i] = r /\ \A j \in DOMAIN runs \ {i} : runs'[j] = runs[j]
  OBVIOUS
<1>2. OldAreCancelled'
  BY <1>1 DEF OldAreCancelled
<1>3. NewestIsCurrent'
  BY <1>1 DEF NewestIsCurrent
<1> QED
  BY <1>1, <1>2, <1>3

LEMMA ServerNext == IInv /\ ServerInv /\ [Next]_vars => ServerInv'
<1> SUFFICES ASSUME IInv, ServerInv, [Next]_vars PROVE ServerInv'
  OBVIOUS
<1> USE DEF ServerInv, ServerTypeOK
<1>1. ASSUME UNCHANGED <<runs, step, binary>> PROVE ServerInv'
  BY <1>1 DEF OldAreCancelled, NewestIsCurrent
<1>2. CASE \/ Edit \/ StartWatching \/ WalkEnds \/ WalkFails \/ WatchTheRest
           \/ ScheduleRebuild \/ Fire \/ UNCHANGED vars
  BY <1>1, <1>2 DEF Edit, StartWatching, WalkEnds, WalkFails, WatchTheRest, ScheduleRebuild,
                    Fire, vars, builder
<1>3. CASE Lock \/ Generate \/ Wasm \/ Compile
  <2>1. UNCHANGED runs /\ (step' # "restart" => binary' = binary /\ step # "restart")
    BY <1>3 DEF Lock, Generate, Wasm, Compile
  <2> QED
    BY <2>1 DEF OldAreCancelled, NewestIsCurrent
<1>4. CASE Restart
  <2> DEFINE new == [state |-> "launched", cancelled |-> FALSE, version |-> NotYet]
  <2>0. ASSUME NEW i \in DOMAIN runs
        PROVE  LET r == [runs[i] EXCEPT !.cancelled = TRUE] IN
                 r \in Run /\ r.cancelled = TRUE
    <3>1. runs[i] \in Run
      OBVIOUS
    <3> QED
      BY <3>1 DEF Run
  <2>1. CancelPrevious \in Seq(Run) /\ Len(CancelPrevious) = Len(runs)
    <3>1. DOMAIN runs = 1 .. Len(runs) /\ Len(runs) \in Nat
      OBVIOUS
    <3>2. CancelPrevious \in [1 .. Len(runs) -> Run]
      BY <2>0, <3>1 DEF CancelPrevious
    <3> QED
      BY <3>1, <3>2
  <2>2. \A i \in DOMAIN CancelPrevious : CancelPrevious[i].cancelled = TRUE
    BY <2>0 DEF CancelPrevious
  <2>3. new \in Run
    BY DEF Run
  <2>4. runs' = Append(CancelPrevious, new)
    BY <1>4 DEF Restart
  <2> HIDE DEF new
  <2>5. /\ runs' \in Seq(Run) /\ Len(runs') = Len(CancelPrevious) + 1
        /\ DOMAIN runs' = 1 .. Len(runs') /\ runs'[Len(runs')] = new
        /\ \A i \in DOMAIN runs' : i < Len(runs') => runs'[i] = CancelPrevious[i]
    BY <2>1, <2>3, <2>4
  <2>6. OldAreCancelled'
    BY <2>1, <2>2, <2>5 DEF OldAreCancelled
  <2>7. NewestIsCurrent'
    BY <2>5 DEF NewestIsCurrent, new
  <2> QED
    BY <2>5, <2>6, <2>7
<1>5. ASSUME NEW i \in DOMAIN runs, Exec(i) PROVE ServerInv'
  <2> DEFINE r == IF runs[i].cancelled
                  THEN [runs[i] EXCEPT !.state = "gone", !.version = NotYet]
                  ELSE [runs[i] EXCEPT !.state = "starting", !.version = binary]
  <2>1. runs[i] \in Run /\ binary \in Version \cup {NotYet}
    BY DEF IInv, BuilderTypeOK
  <2>2. r \in Run /\ r.cancelled = runs[i].cancelled
    BY <2>1 DEF Run
  <2>3. runs' = [runs EXCEPT ![i] = r]
    BY <1>5, <2>1 DEF Exec, Run
  <2>4. r.state \in {"starting", "serving"} => r.version = binary
    BY <2>1 DEF Run
  <2>5. UNCHANGED <<step, binary>>
    BY <1>5 DEF Exec, builder
  <2> HIDE DEF r
  <2> QED
    BY <2>2, <2>3, <2>4, <2>5, OneProcess
<1>6. ASSUME NEW i \in DOMAIN runs, Listen(i) \/ Killed(i) PROVE ServerInv'
  <2>1. PICK q \in {"gone", "serving"} :
          /\ runs' = [runs EXCEPT ![i].state = q]
          /\ runs[i].state \in {"starting", "serving"}
    BY <1>6 DEF Listen, Killed
  <2> DEFINE r == [runs[i] EXCEPT !.state = q]
  <2>2. runs[i] \in Run
    OBVIOUS
  <2>3. r \in Run /\ r.cancelled = runs[i].cancelled /\ r.version = runs[i].version
    BY <2>2 DEF Run
  <2>4. runs' = [runs EXCEPT ![i] = r]
    BY <2>1
  <2>5. UNCHANGED <<step, binary>>
    BY <1>6 DEF Listen, Killed, builder
  <2> HIDE DEF r
  <2> QED
    BY <2>1, <2>3, <2>4, <2>5, OneProcess
<1> QED
  BY <1>2, <1>3, <1>4, <1>5, <1>6 DEF Next

\* The whole state of the command is well typed: its versions never leave the range of
\* the edits, and a rebuild has read nothing newer than the sources (hotReload.go).
THEOREM TypeCorrect == Spec => []TypeOK
<1>1. IInv /\ ServerInv => TypeOK
  BY DEF IInv, BuilderTypeOK, BuildsMoveForward, ServerInv, ServerTypeOK, TypeOK
<1> QED
  BY <1>1, IInvInit, IInvNext, ServerInit, ServerNext, PTL DEF Spec

\* However rebuilds and processes interleave, when all has settled no process but the
\* last one launched serves, and it serves the newest binary (the cancel of rebuild).
THEOREM OldProcessesGo == Spec => []OnlyNewestServes
<1>1. IInv /\ ServerInv => OnlyNewestServes
  <2> SUFFICES ASSUME ServerInv, Settled, NEW i \in DOMAIN runs, Serving(i)
               PROVE  i = Len(runs) /\ runs[i].version = binary
    BY DEF OnlyNewestServes
  <2>1. runs[i].state = "serving" /\ ~ runs[i].cancelled /\ step = "none"
    BY DEF Settled, BuildSettled, Serving
  <2>2. i <= Len(runs) /\ i \in Nat /\ Len(runs) \in Nat
    BY DEF ServerInv, ServerTypeOK
  <2>3. i = Len(runs)
    BY <2>1, <2>2 DEF ServerInv, OldAreCancelled
  <2> QED
    BY <2>1, <2>3 DEF ServerInv, NewestIsCurrent
<1> QED
  BY <1>1, IInvInit, IInvNext, ServerInit, ServerNext, PTL DEF Spec

-----------------------------------------------------------------------------
(***************************************************************************)
(* The event hub.                                                          *)
(***************************************************************************)

\* A stream is sent at most every event: what keeps sentTo within its bound.
SentAtMostAll == \A s \in Stream : sentTo[s] <= sends

HubInv == HubTypeOK /\ SentAtMostAll /\ DeliveredOnce

LEMMA HubInvInit == HubInit => HubInv
<1> USE SseHubAssumption
<1> SUFFICES ASSUME HubInit PROVE HubInv
  OBVIOUS
<1>1. panicked \in BOOLEAN
  BY DEF HubInit
<1>2. requests = {s \in Stream : handler[s] \in {"loop", "leaving"}}
  BY DEF HubInit
<1>3. HubTypeOK
  BY <1>1, <1>2 DEF HubInit, HubTypeOK, NoLateSend
<1>4. SentAtMostAll /\ DeliveredOnce
  BY DEF HubInit, SentAtMostAll, DeliveredOnce
<1>5. QED BY <1>3, <1>4 DEF HubInv

\* Send adds one goroutine to every stream in the table, and the handler of such
\* a stream is not done: here the table and the handlers have to agree.
LEMMA HubInvSend == HubInv /\ Send => HubInv'
<1> USE SseHubAssumption
<1> SUFFICES ASSUME HubInv, Send PROVE HubInv'
  OBVIOUS
<1>1. /\ panicked = FALSE /\ sends < MaxSends /\ sends' = sends + 1
      /\ sending' = [s \in Stream |-> IF s \in requests THEN sending[s] + 1 ELSE sending[s]]
      /\ sentTo' = [s \in Stream |-> IF s \in requests THEN sentTo[s] + 1 ELSE sentTo[s]]
      /\ UNCHANGED <<handler, requests, gone, received, panicked>>
  BY DEF Send, HubInv, HubTypeOK
<1>2. \A s \in Stream : sentTo'[s] <= sends'
  BY <1>1 DEF HubInv, HubTypeOK, SentAtMostAll
<1>3. NoLateSend'
  <2>1. ASSUME NEW s \in Stream, handler[s] = "done" PROVE sending'[s] = sending[s]
    BY <1>1, <2>1 DEF HubInv, HubTypeOK
  <2>2. QED BY <1>1, <2>1 DEF HubInv, HubTypeOK, NoLateSend
<1>4. HubTypeOK'
  <2>1. sending' \in [Stream -> Nat] /\ sends' \in 0..MaxSends
    BY <1>1 DEF HubInv, HubTypeOK
  <2>2. sentTo' \in [Stream -> 0..MaxSends]
    BY <1>1, <1>2, <2>1 DEF HubInv, HubTypeOK
  <2>3. QED BY <1>1, <1>3, <2>1, <2>2 DEF HubInv, HubTypeOK
<1>5. DeliveredOnce'
  BY <1>1 DEF HubInv, HubTypeOK, DeliveredOnce
<1>6. QED BY <1>2, <1>4, <1>5 DEF HubInv, SentAtMostAll

\* The steps of one stream's client and handler.
LEMMA HubInvHandler ==
  ASSUME HubInv, NEW s \in Stream,
         \/ Register(s) \/ Deliver(s) \/ Disconnect(s)
         \/ Leave(s) \/ LeaveOnEvent(s) \/ Unregister(s)
  PROVE  HubInv'
<1> USE SseHubAssumption
    DEF HubInv, HubTypeOK, SentAtMostAll, DeliveredOnce, NoLateSend
<1>1. CASE Register(s)
  BY <1>1 DEF Register
<1>2. CASE Deliver(s)
  <2>1. sending' = [sending EXCEPT ![s] = @ - 1] /\ received' = [received EXCEPT ![s] = @ + 1]
    BY <1>2 DEF Deliver, DeliverOne
  <2>2. /\ handler[s] = "loop" /\ sending[s] > 0
        /\ UNCHANGED <<handler, requests, gone, sends, panicked, sentTo>>
    BY <1>2 DEF Deliver
  <2>3. QED BY <2>1, <2>2
<1>3. CASE Disconnect(s)
  BY <1>3 DEF Disconnect
<1>4. CASE Leave(s)
  BY <1>4 DEF Leave
<1>5. CASE LeaveOnEvent(s)
  BY <1>5 DEF LeaveOnEvent
<1>6. CASE Unregister(s)
  <2>1. /\ panicked = FALSE /\ handler' = [handler EXCEPT ![s] = "done"]
        /\ requests' = requests \ {s}
        /\ UNCHANGED <<gone, sending, received, sends, sentTo>>
    BY <1>6 DEF Unregister, Forget
  <2>2. panicked' \in BOOLEAN /\ (sending[s] > 0 => panicked' = TRUE)
    BY <1>6 DEF Unregister
  <2>3. NoLateSend'
    <3>1. SUFFICES ASSUME NEW t \in Stream, handler'[t] = "done", sending'[t] > 0
                   PROVE  panicked' = TRUE
      OBVIOUS
    <3>2. CASE t = s
      BY <2>1, <2>2, <3>1, <3>2
    <3>3. CASE t # s
      BY <2>1, <3>1, <3>3
    <3>4. QED BY <3>2, <3>3
  <2>4. HubTypeOK'
    <3>1. requests' = {t \in Stream : handler'[t] \in {"loop", "leaving"}}
      BY <2>1
    <3>2. QED BY <2>1, <2>2, <2>3, <3>1
  <2>5. QED BY <2>1, <2>3, <2>4
<1>7. QED BY <1>1, <1>2, <1>3, <1>4, <1>5, <1>6

LEMMA HubInvNext == HubInv /\ [HubNext]_hubVars => HubInv'
<1>1. HubInv /\ UNCHANGED hubVars => HubInv'
  BY DEF hubVars, HubInv, HubTypeOK, SentAtMostAll, DeliveredOnce, NoLateSend
<1>2. QED BY <1>1, HubInvSend, HubInvHandler DEF HubNext

(* The hub's state is well typed, and its table lists exactly the streams  *)
(* whose handlers have registered and not yet unregistered; no goroutine   *)
(* starts to send on a channel that is closed, since the deferred function *)
(* deletes the entry in the section that closes (proxy.go, ServeHTTP).     *)
THEOREM HubTypeCorrect == HubSpec => []HubTypeOK
<1>1. HubInv => HubTypeOK
  BY DEF HubInv
<1>2. QED BY <1>1, HubInvInit, HubInvNext, PTL DEF HubSpec

(* Any client that stays is sent every event once, however many streams    *)
(* come and go around it (proxy.go, Send and the loop of ServeHTTP).       *)
THEOREM NothingLostOrRepeated == HubSpec => []DeliveredOnce
<1>1. HubInv => DeliveredOnce
  BY DEF HubInv
<1>2. QED BY <1>1, HubInvInit, HubInvNext, PTL DEF HubSpec
=============================================================================
