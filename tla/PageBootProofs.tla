---------------------------- MODULE PageBootProofs ----------------------------
(***************************************************************************)
(* Proofs about the start of WASM modules: for any renders, compilers and  *)
(* names, modules are started by their own shims and hear their own        *)
(* events.                                                                 *)
(***************************************************************************)
EXTENDS PageBoot, TLAPS

-----------------------------------------------------------------------------
(* Types.                                                                  *)

\* An entry of the registry is made once, at the end.
LEMMA EnrolledOnce ==
  ASSUME NEW i \in Instance, order \in Seq(Instance), IsInjective(order)
  PROVE  /\ Enrolled(i) \in Seq(Instance) /\ IsInjective(Enrolled(i))
         /\ i \in Range(Enrolled(i)) /\ Range(order) \subseteq Range(Enrolled(i))
<1>1. CASE i \in Range(order)
  BY <1>1 DEF Enrolled
<1>2. CASE i \notin Range(order)
  <2>1. Enrolled(i) = Append(order, i)
    BY <1>2 DEF Enrolled
  <2>2. /\ Append(order, i) \in Seq(Instance)
        /\ DOMAIN Append(order, i) = 1 .. Len(order) + 1
        /\ Append(order, i)[Len(order) + 1] = i
        /\ \A k \in 1 .. Len(order) : Append(order, i)[k] = order[k]
        /\ DOMAIN order = 1 .. Len(order) /\ Len(order) \in Nat
    OBVIOUS
  <2>3. \A k \in DOMAIN order : order[k] # i
    BY <1>2 DEF Range
  <2>4. IsInjective(Append(order, i))
    <3>1. SUFFICES ASSUME NEW a \in 1 .. Len(order) + 1, NEW b \in 1 .. Len(order) + 1,
                          Append(order, i)[a] = Append(order, i)[b]
                   PROVE  a = b
      BY <2>2 DEF IsInjective
    <3>2. CASE a \in 1 .. Len(order) /\ b \in 1 .. Len(order)
      BY <2>2, <3>1, <3>2 DEF IsInjective
    <3>3. CASE a = Len(order) + 1 \/ b = Len(order) + 1
      BY <2>2, <2>3, <3>1, <3>3
    <3> QED
      BY <2>2, <3>2, <3>3
  <2>5. i \in Range(Append(order, i)) /\ Range(order) \subseteq Range(Append(order, i))
    BY <2>2 DEF Range
  <2> QED
    BY <2>1, <2>2, <2>4, <2>5
<1> QED
  BY <1>1, <1>2

\* A class is constructed for a script only from the slot of its compiler.
LEMMA NewType ==
  ASSUME TypeOK, NEW i \in Instance, New(i), slots' \in [Compilers -> Compilers \cup {None}]
  PROVE  /\ at' \in [Instance -> Steps]
         /\ class' \in [Instance -> Compilers \cup {None}]
<1>1. slots'[Compiler[i]] \in Compilers \cup {None}
  BY DEF Compilers
<1> QED
  BY <1>1 DEF TypeOK, New, Class, Goto, Steps

LEMMA InitType == Init => TypeOK
<1> SUFFICES ASSUME Init PROVE TypeOK
  OBVIOUS
<1>1. <<>> \in Seq(Instance) /\ IsInjective(<<>>)
  BY DEF IsInjective
<1> QED
  BY <1>1 DEF Init, TypeOK, Steps

LEMMA NextType == TypeOK /\ [Next]_vars => TypeOK'
<1> SUFFICES ASSUME TypeOK, [Next]_vars PROVE TypeOK'
  OBVIOUS
<1> USE PageBootAssumption
<1>1. ASSUME NEW i \in Instance, Insert(i) PROVE TypeOK'
  <2>1. ElementOf(i) \in Elements
    BY DEF ElementOf, Elements
  <2>2. scope' \in [Elements -> Instance \cup {None}]
    BY <1>1, <2>1 DEF Insert, FindEl, TypeOK
  <2>3. /\ at' \in [Instance -> Steps]
        /\ class' \in [Instance -> Compilers \cup {None}]
        /\ prev' \in [Instance -> Compilers \cup {None}]
    <3>1. CASE slots[Compiler[i]] # None
      <4>1. New(i) /\ UNCHANGED <<prev, slots>>
        BY <1>1, <3>1 DEF Insert
      <4> QED
        BY <4>1, NewType DEF TypeOK
    <3>2. CASE slots[Compiler[i]] = None
      BY <1>1, <3>2 DEF Insert, Goto, TypeOK, Steps
    <3> QED
      BY <3>1, <3>2
  <2> QED
    BY <1>1, <2>2, <2>3 DEF Insert, TypeOK, functions
<1>2. ASSUME NEW i \in Instance, LoadShim(i) PROVE TypeOK'
  <2>1. Compiler[i] \in Compilers
    BY DEF Compilers
  <2>2. /\ slots' \in [Compilers -> Compilers \cup {None}]
        /\ live' \in Compilers \cup {None}
    BY <1>2, <2>1 DEF LoadShim, TypeOK
  <2>3. New(i)
    BY <1>2 DEF LoadShim
  <2> QED
    BY <1>2, <2>2, <2>3, NewType DEF LoadShim, TypeOK, page, functions
<1>3. ASSUME NEW i \in Instance, Run(i) \/ Fail(i) PROVE TypeOK'
  BY <1>3 DEF Run, Fail, Goto, TypeOK, Steps, page, shims, functions
<1>4. ASSUME NEW i \in Instance, NEW f \in Names, CreateWasmFunc(i, f) PROVE TypeOK'
  <2>1. /\ order' \in Seq(Instance) /\ IsInjective(order')
        /\ i \in Range(order') /\ Range(order) \subseteq Range(order')
    BY <1>4, EnrolledOnce DEF CreateWasmFunc, TypeOK
  <2>2. /\ made' \in [Instance -> SUBSET Names]
        /\ has' \in [Instance -> SUBSET Names]
        /\ \A j \in Instance \ {i} : has'[j] = has[j]
    BY <1>4 DEF CreateWasmFunc, TypeOK
  <2>3. \A j \in Instance : has'[j] # {} => j \in Range(order')
    BY <2>1, <2>2 DEF TypeOK
  <2>4. proxied' \subseteq bound' /\ bound' \subseteq Names
    BY <1>4 DEF CreateWasmFunc, TypeOK
  <2> QED
    BY <1>4, <2>1, <2>2, <2>3, <2>4 DEF CreateWasmFunc, TypeOK, page, shims
<1>5. CASE Boost
  BY <1>5 DEF Boost, TypeOK, Elements, shims, functions
<1>6. CASE Reload
  <2>1. <<>> \in Seq(Instance) /\ IsInjective(<<>>)
    BY DEF IsInjective
  <2> QED
    BY <1>6, <2>1 DEF Reload, TypeOK, shims
<1>7. CASE UNCHANGED vars
  BY <1>7 DEF TypeOK, vars
<1> QED
  BY <1>1, <1>2, <1>3, <1>4, <1>5, <1>6, <1>7 DEF Next

\* Every reachable state is well typed.  In particular a module has at most one
\* entry in the registry (moduleRegistry), whatever came between its functions.
THEOREM TypeCorrect == Spec => []TypeOK
<1> QED
  BY InitType, NextType, PTL DEF Spec

-----------------------------------------------------------------------------
(* Shims.                                                                  *)

SlotsAreRight == \A c \in Compilers : slots[c] \in {c, None}

LEMMA ShimStep ==
  TypeOK /\ SlotsAreRight /\ RightShim /\ [Next]_vars => (SlotsAreRight /\ RightShim)'
<1> SUFFICES ASSUME TypeOK, SlotsAreRight, RightShim, [Next]_vars
             PROVE  SlotsAreRight' /\ RightShim'
  OBVIOUS
<1>1. ASSUME NEW i \in Instance, Insert(i) PROVE SlotsAreRight' /\ RightShim'
  <2>1. SlotsAreRight'
    BY <1>1 DEF Insert, SlotsAreRight
  <2>2. CASE slots[Compiler[i]] # None
    <3>1. slots'[Compiler[i]] = Compiler[i]
      BY <1>1, <2>2 DEF Insert, SlotsAreRight, Compilers
    <3> QED
      BY <1>1, <2>1, <2>2, <3>1 DEF Insert, New, Class, Goto, RightShim, TypeOK
  <2>3. CASE slots[Compiler[i]] = None
    BY <1>1, <2>1, <2>3 DEF Insert, Goto, RightShim, TypeOK
  <2> QED
    BY <2>2, <2>3
<1>2. ASSUME NEW i \in Instance, LoadShim(i) PROVE SlotsAreRight' /\ RightShim'
  <2>1. Compiler[i] \in Compilers
    BY DEF Compilers
  <2>2. SlotsAreRight' /\ slots'[Compiler[i]] = Compiler[i]
    BY <1>2, <2>1 DEF LoadShim, SlotsAreRight, TypeOK
  <2> QED
    BY <1>2, <2>2 DEF LoadShim, New, Class, Goto, RightShim, TypeOK
<1>3. ASSUME NEW i \in Instance, Run(i) \/ Fail(i) PROVE SlotsAreRight' /\ RightShim'
  BY <1>3 DEF Run, Fail, Goto, RightShim, SlotsAreRight, TypeOK, shims
<1>4. ASSUME NEW i \in Instance, NEW f \in Names, CreateWasmFunc(i, f)
      PROVE  SlotsAreRight' /\ RightShim'
  BY <1>4 DEF CreateWasmFunc, RightShim, SlotsAreRight, shims
<1>5. CASE Boost \/ Reload \/ UNCHANGED vars
  BY <1>5 DEF Boost, Reload, vars, RightShim, SlotsAreRight, shims
<1> QED
  BY <1>1, <1>2, <1>3, <1>4, <1>5 DEF Next

\* For any number of renders and compilers: a module is never started by the shim
\* of another compiler, in whichever order the shims load.
THEOREM ShimsNeverMix == Spec => []RightShim
<1>1. Init => SlotsAreRight /\ RightShim
  BY DEF Init, SlotsAreRight, RightShim
<1> QED
  BY <1>1, TypeCorrect, ShimStep, PTL DEF Spec

-----------------------------------------------------------------------------
(* Events.                                                                 *)

\* A render in the document has begun, owns its element, and what its module
\* has registered is still there.
Owns ==
  /\ \A i \in Instance : at[i] = "new" => made[i] = {}
  /\ \A i \in doc : /\ at[i] # "new"
                    /\ scope[ElementOf(i)] = i
                    /\ made[i] \subseteq has[i] /\ made[i] \subseteq bound

LEMMA OwnsStep == TypeOK /\ Owns /\ [Next]_vars => Owns'
<1> SUFFICES ASSUME TypeOK, Owns, [Next]_vars PROVE Owns'
  OBVIOUS
<1> USE PageBootAssumption
<1>1. ASSUME NEW i \in Instance, Insert(i) PROVE Owns'
  <2>1. /\ at[i] = "new" /\ doc' = doc \cup {i}
        /\ scope' = [scope EXCEPT ![ElementOf(i)] = i]
        /\ made' = made /\ has' = has /\ bound' = bound
        /\ i \in Full => doc \cap Full = {}
    BY <1>1 DEF Insert, FindEl, functions
  <2>2. \A j \in Instance : (j # i => at'[j] = at[j]) /\ at'[i] # "new"
    BY <1>1 DEF Insert, New, Goto, TypeOK
  <2>3. scope'[ElementOf(i)] = i
    BY <2>1 DEF ElementOf, Elements, TypeOK
  <2>4. ASSUME NEW j \in doc PROVE scope'[ElementOf(j)] = j
    <3>1. ElementOf(j) # ElementOf(i) /\ ElementOf(j) \in Elements
      BY <2>1 DEF ElementOf, Elements, Owns, TypeOK
    <3> QED
      BY <2>1, <3>1 DEF Owns, TypeOK
  <2> QED
    BY <2>1, <2>2, <2>3, <2>4 DEF Owns, TypeOK
<1>2. ASSUME NEW i \in Instance, LoadShim(i) PROVE Owns'
  BY <1>2 DEF LoadShim, New, Goto, Owns, TypeOK, page, functions
<1>3. ASSUME NEW i \in Instance, Run(i) \/ Fail(i) PROVE Owns'
  BY <1>3 DEF Run, Fail, Goto, Owns, TypeOK, page, functions
<1>4. ASSUME NEW i \in Instance, NEW f \in Names, CreateWasmFunc(i, f) PROVE Owns'
  <2>1. \A j \in Instance : /\ j # i => made'[j] = made[j] /\ has'[j] = has[j]
                            /\ made'[i] = made[i] \cup {f}
                            /\ has'[i] = has[i] \cup {f}
    BY <1>4 DEF CreateWasmFunc, TypeOK
  <2>2. at[i] = "run" /\ at' = at /\ doc' = doc /\ scope' = scope /\ bound' = bound \cup {f}
    BY <1>4 DEF CreateWasmFunc, Started, page
  <2> QED
    BY <2>1, <2>2 DEF Owns, TypeOK, ElementOf
<1>5. CASE Boost \/ Reload
  BY <1>5 DEF Boost, Reload, Owns, functions
<1>6. CASE UNCHANGED vars
  BY <1>6 DEF Owns, ElementOf, vars
<1> QED
  BY <1>1, <1>2, <1>3, <1>4, <1>5, <1>6 DEF Next

LEMMA OwnersHear == TypeOK /\ Owns => HeardByOwner
<1> SUFFICES ASSUME TypeOK, Owns, NEW i \in doc, NEW f \in made[i]
             PROVE  f \in bound /\ Dispatch(ElementOf(i), f) = i
  BY DEF HeardByOwner
<1>1. i # None
  BY PageBootAssumption DEF TypeOK
<1>2. FindScope(ElementOf(i)) = i
  BY <1>1 DEF FindScope, Owns
<1> QED
  BY <1>1, <1>2 DEF Dispatch, Owns

\* For any renders on any pages: once a module has registered a function, an
\* event in its element reaches it, across navigations and reloads.
THEOREM EventsReachTheirModule == Spec => []HeardByOwner
<1>1. Init => Owns
  BY DEF Init, Owns
<1> QED
  BY <1>1, TypeCorrect, OwnsStep, OwnersHear, PTL DEF Spec
=============================================================================
