------------------------------- MODULE PageBoot -------------------------------
(***************************************************************************)
(* How the WASM modules of a page start and find their events.  Each       *)
(* render of a page or component brings a script (wasm_bootstrap.go) that  *)
(* marks its element with a scope id of its own, loads the shim of its     *)
(* compiler unless that is there, instantiates its module and runs it; the *)
(* module registers functions (runtime/events.go), which the page calls    *)
(* through one global proxy for each name.  Scripts run concurrently, and  *)
(* go on when the page they came with is gone.                             *)
(*                                                                         *)
(* A scope id is random and stands here for the render that made it.       *)
(***************************************************************************)
EXTENDS Integers, Sequences, FiniteSets, SequencesExt

CONSTANTS Instance,  \* renders: one element and one script each
          Full,      \* those that are whole pages; the others have a wrapper
          Wasm,      \* Wasm[i]: the name of the module of render i
          Compiler,  \* Compiler[i]: what it was built with, and needs the shim of
          Funcs,     \* Funcs[i]: the functions its main registers
          Body, None

Compilers == {Compiler[i] : i \in Instance}
Names == UNION {Funcs[i] : i \in Instance}
Elements == Instance \cup {Body}

ASSUME PageBootAssumption ==
  /\ Full \subseteq Instance
  /\ Body \notin Instance /\ None \notin Instance \cup Compilers
  /\ Funcs \in [Instance -> SUBSET Names]

VARIABLES
  doc,      \* the renders that are in the document
  scope,    \* data-gothic-scope of each element
  at,       \* where the script of each render is
  prev,     \* prevGo of each script: what Go was when it began to load a shim
  class,    \* the compiler of the class its go is an object of
  live,     \* window.Go: whose class it is
  slots,    \* window.__gothicGoClasses
  made,     \* what each module has registered so far
  order,    \* the keys of window.__gothic_registry
  has,      \* the names in each of its entries
  proxied,  \* window.__gothic_proxied
  bound     \* the proxies on window

vars == <<doc, scope, at, prev, class, live, slots, made, order, has, proxied, bound>>
page == <<doc, scope>>
shims == <<prev, class, live, slots>>
functions == <<made, order, has, proxied, bound>>

Steps == {"new", "shim", "fetch", "run", "failed"}
Started == {i \in Instance : at[i] = "run"}

TypeOK ==
  /\ doc \subseteq Instance
  /\ scope \in [Elements -> Instance \cup {None}]
  /\ at \in [Instance -> Steps]
  /\ prev \in [Instance -> Compilers \cup {None}]
  /\ class \in [Instance -> Compilers \cup {None}]
  /\ live \in Compilers \cup {None}
  /\ slots \in [Compilers -> Compilers \cup {None}]
  /\ made \in [Instance -> SUBSET Names]
  /\ order \in Seq(Instance) /\ IsInjective(order)
  /\ has \in [Instance -> SUBSET Names]
  /\ \A i \in Instance : has[i] # {} => i \in Range(order)
  /\ proxied \subseteq bound /\ bound \subseteq Names

Init ==
  /\ doc = {} /\ scope = [e \in Elements |-> None]
  /\ at = [i \in Instance |-> "new"]
  /\ prev = [i \in Instance |-> None] /\ class = [i \in Instance |-> None]
  /\ live = None /\ slots = [c \in Compilers |-> None]
  /\ made = [i \in Instance |-> {}]
  /\ order = <<>> /\ has = [i \in Instance |-> {}]
  /\ proxied = {} /\ bound = {}

Goto(i, step) == at' = [at EXCEPT ![i] = step]

-----------------------------------------------------------------------------
(* The bootstrap script.                                                   *)

ElementOf(i) == IF i \in Full THEN Body ELSE i

\* The body, or the element before the script.
FindEl_ByName(i) ==
  IF i \in Full THEN Body
  ELSE CHOOSE j \in doc \cup {i} : j \notin Full /\ Wasm[j] = Wasm[i]
FindEl(i) == ElementOf(i)

\* new GoCls(): from the slot of the compiler, whatever Go is by now.
Class_Live(c) == live'
Class(c) == slots'[c]
New(i) ==
  /\ class' = [class EXCEPT ![i] = Class(Compiler[i])]
  /\ Goto(i, "fetch")

\* A render comes into the document and its script runs, up to its first await.
Insert(i) ==
  /\ at[i] = "new"
  /\ i \in Full => doc \cap Full = {}
  /\ doc' = doc \cup {i}
  /\ scope' = [scope EXCEPT ![FindEl(i)] = i]
  /\ UNCHANGED <<live, slots, functions>>
  /\ IF slots[Compiler[i]] # None THEN New(i) /\ UNCHANGED prev
     ELSE Goto(i, "shim") /\ prev' = [prev EXCEPT ![i] = live] /\ UNCHANGED class

\* The shim defines Go; its load event comes in the same task and the script goes
\* on at the end of it, before any other: it keeps the class and puts back the one
\* that was there when it began.
LoadShim(i) ==
  /\ at[i] = "shim"
  /\ slots' = [slots EXCEPT ![Compiler[i]] = Compiler[i]]
  /\ live' = IF prev[i] # None THEN prev[i] ELSE Compiler[i]
  /\ New(i)
  /\ UNCHANGED <<page, prev, functions>>

\* instantiateStreaming, and go.run, which runs main until it first waits.
Run(i) ==
  /\ at[i] = "fetch" /\ Goto(i, "run")
  /\ UNCHANGED <<page, shims, functions>>

\* The shim or the module cannot be loaded.
Fail(i) ==
  /\ at[i] \in {"shim", "fetch"} /\ Goto(i, "failed")
  /\ UNCHANGED <<page, shims, functions>>

-----------------------------------------------------------------------------
(* The runtime of a module.                                                *)

\* moduleRegistry: the entry of the module's own scope id, made when missing.
Enrolled_Again(i) == Append(order, i)
Enrolled(i) == IF i \in Range(order) THEN order ELSE Append(order, i)

\* CreateWasmFunc, ...StringFunc and ...BoolFunc: registerLocal, then
\* installProxy unless a module has installed one for that name.
CreateWasmFunc(i, f) ==
  /\ i \in Started /\ f \in Funcs[i] \ made[i]
  /\ made' = [made EXCEPT ![i] = @ \cup {f}]
  /\ order' = Enrolled(i)
  /\ has' = [has EXCEPT ![i] = @ \cup {f}]
  /\ proxied' = proxied \cup {f} /\ bound' = bound \cup {f}
  /\ UNCHANGED <<page, at, shims>>

\* findScope: the scope of the nearest element that has one.
FindScope(e) == IF scope[e] # None THEN scope[e] ELSE scope[Body]

\* dispatch: the function of that scope's module, or else of the first module
\* that has one of this name.
Fallback(f) ==
  LET Has(i) == f \in has[i]
      known == SelectSeq(order, Has)
  IN  IF known = <<>> THEN None ELSE known[1]
Dispatch(e, f) ==
  IF FindScope(e) # None /\ f \in has[FindScope(e)] THEN FindScope(e)
  ELSE Fallback(f)

-----------------------------------------------------------------------------
(* The page.                                                               *)

\* hx-boost: the contents of the body are replaced and its attributes are not.
Boost ==
  /\ doc # {}
  /\ doc' = {}
  /\ scope' = [e \in Elements |-> IF e = Body THEN scope[Body] ELSE None]
  /\ UNCHANGED <<at, shims, functions>>

\* Hot reload (script.js) clears the registry and writes the document anew;
\* window, and what else hangs on it, stays.
Reload ==
  /\ doc' = {}
  /\ scope' = [e \in Elements |-> None]
  /\ order' = <<>> /\ has' = [i \in Instance |-> {}] /\ proxied' = {}
  /\ UNCHANGED <<at, shims, made, bound>>

Next ==
  \/ \E i \in Instance : Insert(i) \/ LoadShim(i) \/ Run(i) \/ Fail(i)
  \/ \E i \in Instance : \E f \in Names : CreateWasmFunc(i, f)
  \/ Boost \/ Reload

Spec == Init /\ [][Next]_vars

-----------------------------------------------------------------------------
(* Properties.                                                             *)

\* wasm_bootstrap.go:144-152: although all shims define the one global Go, and
\* load in any order, no module is started by the shim of another compiler.
RightShim ==
  \A i \in Instance : at[i] \in {"fetch", "run"} => class[i] = Compiler[i]

\* An event inside the element of a module reaches that module, once it has
\* registered the function, whichever other modules of the page, or of pages
\* that are gone, have registered the same name, before or after it.
HeardByOwner ==
  \A i \in doc : \A f \in made[i] :
    f \in bound /\ Dispatch(ElementOf(i), f) = i
=============================================================================
