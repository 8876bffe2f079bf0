------------------------------ MODULE HotReload ------------------------------
(***************************************************************************)
(* The hot-reload command: the file watcher, the debounce timer, rebuilds  *)
(* (goroutines that queue for one mutex), and the application processes    *)
(* they start and cancel.                                                  *)
(***************************************************************************)
EXTENDS Integers, Sequences

CONSTANTS
  MaxEdits,  \* bound on the edits the user makes; edit v leaves the sources at version v
  Broken     \* the versions that do not generate or compile

ASSUME HotReloadAssumption == MaxEdits \in Nat /\ Broken \subseteq 1..MaxEdits

VARIABLES
  source,       \* version of the watched sources
  watching,     \* how far watchForChanges is with its directories and its loop
  missed,       \* version of the last edit that raised no event, NotYet if none
  events,       \* file events not handled yet
  timer,        \* debounceTimer is armed
  waiting,      \* rebuilds waiting for the mutex
  step,         \* where the rebuild that holds the mutex is
  from,         \* version of the oldest source it has read
  normalized,   \* version of the topic sources that were last rewritten in place
  binary,       \* version tmp/main was built from
  runs          \* the application processes, in the order rebuilds launched them

watcher == <<watching, missed>>
builder == <<waiting, step, from, normalized, binary>>
vars == <<source, watching, missed, events, timer, waiting, step, from, normalized,
          binary, runs>>

NotYet == -1
Version == 0..MaxEdits
\* Directories: none, some (walking, or after a failed walk), all; the loop runs last.
Stage == {"no", "adding", "failed", "partly", "all"}
Steps == {"none", "generate", "wasm", "compile", "restart"}
Run == [state : {"launched", "starting", "serving", "gone"},
        cancelled : BOOLEAN, version : Version \cup {NotYet}]

TypeOK ==
  /\ source \in Version /\ watching \in Stage /\ missed \in Version \cup {NotYet}
  /\ events \in Nat /\ timer \in BOOLEAN /\ waiting \in Nat
  /\ step \in Steps /\ from \in Version
  /\ normalized \in Version \cup {NotYet}
  /\ binary \in Version \cup {NotYet}
  /\ runs \in Seq(Run)
  /\ step # "none" => from <= source

Init ==
  /\ source = 0 /\ watching = "no" /\ missed = NotYet
  /\ events = 0 /\ timer = FALSE
  /\ waiting = 1              \* watchForChanges begins with a rebuild
  /\ step = "none" /\ from = 0 /\ normalized = NotYet
  /\ binary = NotYet
  /\ runs = <<>>

\* The loop of watchForChanges runs.
Watching == watching \in {"partly", "all"}

\* A file of the watched tree is written.  The watcher notices it for sure when it
\* has every directory, and never before it has the first.
Noticed == watching # "no" /\ events' = events + 1
Unnoticed == watching # "all" /\ events' = events

-----------------------------------------------------------------------------
(***************************************************************************)
(* Edits, events and the debounce timer.                                   *)
(***************************************************************************)
Edit ==
  /\ source < MaxEdits /\ source' = source + 1
  /\ \/ Noticed /\ missed' = missed
     \/ Unnoticed /\ missed' = source'
  /\ UNCHANGED <<watching, timer, builder, runs>>

\* After the first rebuild watchForChanges adds the directories one by one.
StartWatching ==
  /\ watching = "no" /\ step = "none" /\ waiting = 0
  /\ watching' = "adding"
  /\ UNCHANGED <<source, missed, events, timer, builder, runs>>

\* All are added, or all but the root, whose error is only printed.
WalkEnds ==
  /\ watching = "adding" /\ watching' \in {"all", "partly"}
  /\ UNCHANGED <<source, missed, events, timer, builder, runs>>

\* The walk stops at an error: some directories are never added, and it rebuilds again
WalkFails ==
  /\ watching = "adding" /\ watching' = "failed"
  /\ waiting' = waiting + 1
  /\ UNCHANGED <<source, missed, events, timer, step, from, normalized, binary, runs>>

\* before the loop begins.
WatchTheRest ==
  /\ watching = "failed" /\ step = "none" /\ waiting = 0
  /\ watching' = "partly"
  /\ UNCHANGED <<source, missed, events, timer, builder, runs>>

\* handleWatchEvent and scheduleRebuild: stop the timer, if any, and arm a new one.
ScheduleRebuild ==
  /\ Watching /\ events > 0 /\ events' = events - 1
  /\ timer' = TRUE
  /\ UNCHANGED <<source, watcher, builder, runs>>

\* The timer's goroutine calls rebuild.
Queue_UnlessBusy == waiting' = IF step = "none" THEN waiting + 1 ELSE waiting
Queue == waiting' = waiting + 1
Fire ==
  /\ timer /\ timer' = FALSE
  /\ Queue
  /\ UNCHANGED <<source, watcher, events, step, from, normalized, binary, runs>>

-----------------------------------------------------------------------------
(***************************************************************************)
(* rebuild, under the mutex.                                               *)
(***************************************************************************)
Lock_Unqueued ==
  /\ step = "none"
  /\ waiting' = waiting - 1
  /\ step' = "generate" /\ from' = source
  /\ UNCHANGED <<source, watcher, events, timer, normalized, binary, runs>>
Lock ==
  /\ waiting > 0 /\ step = "none"
  /\ waiting' = waiting - 1
  /\ step' = "generate" /\ from' = source
  /\ UNCHANGED <<source, watcher, events, timer, normalized, binary, runs>>

\* Routes and templ: an error ends the rebuild.  What only the compiler minds passes.
Generate ==
  /\ step = "generate"
  /\ step' \in {"wasm"} \cup (IF source \in Broken THEN {"none"} ELSE {})
  /\ UNCHANGED <<source, watcher, events, timer, waiting, from, normalized, binary, runs>>

\* buildWasmAll: errors do not end the rebuild.  Topic sources that are not in
\* normal form are rewritten in place, which the watcher sees; others are not written.
Rewritable_Always == normalized <= source
Rewritable == normalized < source
Wasm ==
  /\ step = "wasm" /\ step' = "compile"
  /\ \/ UNCHANGED <<normalized, events>>
     \/ Rewritable /\ normalized' = source /\ (Noticed \/ Unnoticed)
  /\ UNCHANGED <<source, watcher, timer, waiting, from, binary, runs>>

Compile ==
  /\ step = "compile"
  /\ IF source \in Broken THEN step' = "none" /\ UNCHANGED binary
     ELSE step' = "restart" /\ binary' = from
  /\ UNCHANGED <<source, watcher, events, timer, waiting, from, normalized, runs>>

\* Cancel the previous process, launch the new one.
CancelPrevious_Forgotten == runs
CancelPrevious == [i \in DOMAIN runs |-> [runs[i] EXCEPT !.cancelled = TRUE]]
Restart ==
  /\ step = "restart" /\ step' = "none"
  /\ runs' = Append(CancelPrevious,
                    [state |-> "launched", cancelled |-> FALSE, version |-> NotYet])
  /\ UNCHANGED <<source, watcher, events, timer, waiting, from, normalized, binary>>

-----------------------------------------------------------------------------
(***************************************************************************)
(* The application processes.                                              *)
(***************************************************************************)
Serving(i) == i \in DOMAIN runs /\ runs[i].state = "serving"

\* runCmd.Run starts whatever binary is there, or nothing once it is cancelled.
Exec(i) ==
  /\ i \in DOMAIN runs /\ runs[i].state = "launched"
  /\ runs' = [runs EXCEPT ![i].state = IF runs[i].cancelled THEN "gone" ELSE "starting",
                          ![i].version = IF runs[i].cancelled THEN NotYet ELSE binary]
  /\ UNCHANGED <<source, watcher, events, timer, builder>>

\* The application listens, or exits because the port is still taken.
Listen(i) ==
  /\ i \in DOMAIN runs /\ runs[i].state = "starting"
  /\ runs' = [runs EXCEPT ![i].state =
                IF \E j \in DOMAIN runs : Serving(j) THEN "gone" ELSE "serving"]
  /\ UNCHANGED <<source, watcher, events, timer, builder>>

\* The signal that the cancelled context sends takes effect.
Killed(i) ==
  /\ i \in DOMAIN runs /\ runs[i].cancelled /\ runs[i].state \in {"starting", "serving"}
  /\ runs' = [runs EXCEPT ![i].state = "gone"]
  /\ UNCHANGED <<source, watcher, events, timer, builder>>

-----------------------------------------------------------------------------
Rebuild == Lock \/ Generate \/ Wasm \/ Compile \/ Restart
Process(i) == Exec(i) \/ Listen(i) \/ Killed(i)
Next ==
  \/ Edit \/ StartWatching \/ WalkEnds \/ WalkFails \/ WatchTheRest
  \/ ScheduleRebuild \/ Fire
  \/ Lock \/ Generate \/ Wasm \/ Compile \/ Restart
  \/ \E i \in DOMAIN runs : Exec(i) \/ Listen(i) \/ Killed(i)

Spec == Init /\ [][Next]_vars

(***************************************************************************)
(* The command's goroutines run, its timers fire and its processes start   *)
(* and die; nobody has to edit.                                            *)
(***************************************************************************)
Fairness ==
  /\ WF_vars(StartWatching \/ WalkEnds \/ WalkFails \/ WatchTheRest)
  /\ WF_vars(ScheduleRebuild) /\ WF_vars(Fire)
  /\ WF_vars(Rebuild)
  /\ WF_vars(\E i \in DOMAIN runs : Process(i))

FairSpec == Spec /\ Fairness

-----------------------------------------------------------------------------
(***************************************************************************)
(* Properties.                                                             *)
(***************************************************************************)

\* Nothing is left to do for the watcher, the timer and the rebuilds,
BuildSettled == events = 0 /\ ~timer /\ waiting = 0 /\ step = "none"
\* nor for the processes,
Settled ==
  /\ BuildSettled
  /\ \A i \in DOMAIN runs : runs[i].state \notin {"launched", "starting"}
                            /\ (runs[i].cancelled => runs[i].state = "gone")

(* Coalescing loses no edit the watcher saw: once the builder has settled, *)
(* the binary is built from the last edit, unless that one does not build. *)
(* Edits may fall between any two steps of a rebuild, many on one timer.   *)
LastEditIsBuilt ==
  BuildSettled /\ source > missed /\ source \notin Broken => binary = source

(* Processes are replaced, never piled up: when all has settled only the   *)
(* newest one may be alive, and if it serves, it serves the newest binary. *)
OnlyNewestServes ==
  Settled => \A i \in DOMAIN runs :
    Serving(i) => i = Len(runs) /\ runs[i].version = binary

(* The command comes to rest, with the last edit built if it was noticed:  *)
(* a timer that each event pushes back does fire, a queued rebuild gets    *)
(* the mutex, and the rebuilds that a rebuild causes by rewriting watched  *)
(* topic sources come to an end.                                           *)
EditsGetBuilt ==
  <>[](/\ Watching /\ BuildSettled
       /\ source > missed /\ source \notin Broken => binary = source)
==============================================================================
