--------------------------- MODULE GenerationProofs ---------------------------
(***************************************************************************)
(* Proofs about what a build generates from the sources: routes_gen.go     *)
(* (RouteGen), the part of a page that goes into its WASM module           *)
(* (TreeShake), and the accessors of the topics (TopicGen).                *)
(***************************************************************************)
EXTENDS Generation, TLAPS, WellFoundedInduction

LEMMA ElementIn ==
  ASSUME NEW T, NEW s \in Seq(T)
  PROVE  \A i \in DOMAIN s : s[i] \in T
  OBVIOUS

LEMMA LeastOf ==
  ASSUME NEW T, T \subseteq Nat, T # {}
  PROVE  \E n \in T : \A k \in T : ~ (k < n)
<1> DEFINE R == OpToRel(<, Nat)
<1>1. \E n \in T : \A k \in T : ~ (<<k, n>> \in R)
  BY WFMin, NatLessThanWellFounded
<1>2. \A n, k \in Nat : <<k, n>> \in R <=> k < n
  BY DEF OpToRel
<1> HIDE DEF R
<1> QED
  BY <1>1, <1>2

-----------------------------------------------------------------------------
(* routes_gen.go: any tree of files and any changes of it, between renders *)
(* and during them.                                                        *)

LEMMA InitType == Init => TypeOK
  BY DEF Init, TypeOK, NoRoutes, Content, Routed

LEMMA NextType == TypeOK /\ [Next]_vars => TypeOK'
<1> SUFFICES ASSUME TypeOK, [Next]_vars PROVE TypeOK'
  OBVIOUS
<1>1. ASSUME NEW f \in File, Save(f) PROVE TypeOK'
  BY <1>1 DEF Save, TypeOK, helper
<1>2. CASE Initialize
  BY <1>2 DEF Initialize, TypeOK, NoRoutes, Roots
<1>3. ASSUME NEW r \in Roots, Walk(r) PROVE TypeOK'
  <2>1. Found(r) \subseteq File /\ \A f \in Found(r) : disk[f] \in Routed
    BY DEF Found, Scanned
  <2>2. /\ DOMAIN routes' \subseteq File
        /\ \A f \in DOMAIN routes' : routes'[f] \in Routed
    BY <1>3, <2>1 DEF Walk, TypeOK
  <2>3. imports' \subseteq Dirs
    BY <1>3 DEF Walk, TypeOK, Imported, Scanned, Dirs
  <2>4. step' \in Roots \cup {"duplicates"}
    BY <1>3 DEF Walk, After, Roots
  <2> QED
    BY <1>3, <2>2, <2>3, <2>4 DEF Walk, TypeOK
<1>4. ASSUME NEW r \in Roots, FailWalk(r) PROVE TypeOK'
  BY <1>4 DEF FailWalk, TypeOK, helper
<1>5. CASE RemoveDuplicates
  BY <1>5 DEF RemoveDuplicates, TypeOK
<1>6. CASE Prune
  <2>1. /\ DOMAIN routes' \subseteq File
        /\ \A f \in DOMAIN routes' : routes'[f] \in Routed
    BY <1>6 DEF Prune, TypeOK
  <2>2. imports' \subseteq Dirs
    BY <1>6 DEF Prune, Used, TypeOK
  <2> QED
    BY <1>6, <2>1, <2>2 DEF Prune, TypeOK
<1>7. CASE Write
  BY <1>7 DEF Write, TypeOK, helper
<1>8. CASE UNCHANGED vars
  BY <1>8 DEF TypeOK, vars
<1> QED
  BY <1>1, <1>2, <1>3, <1>4, <1>5, <1>6, <1>7, <1>8 DEF Next

\* Every reachable state is well typed: a file without a route function is never
\* among the routes, whatever it held when the render before read it.
THEOREM TypeCorrect == Spec => []TypeOK
<1> QED
  BY InitType, NextType, PTL DEF Spec

-----------------------------------------------------------------------------
(* What the helper has collected, at every step of a render.               *)

Collected ==
  /\ \A f \in DOMAIN routes : Dir[f] \in imports
  /\ step \in {"prune", "write"} =>
       ((\E f \in DOMAIN routes : routes[f] = "default") => default)

LEMMA CollectedStep ==
  TypeOK /\ Collected /\ RoutesAreImported /\ [Next]_vars
    => (Collected /\ RoutesAreImported)'
<1> SUFFICES ASSUME TypeOK, Collected, RoutesAreImported, [Next]_vars
             PROVE  Collected' /\ RoutesAreImported'
  OBVIOUS
<1>1. ASSUME NEW f \in File, Save(f) PROVE Collected' /\ RoutesAreImported'
  BY <1>1 DEF Save, Collected, RoutesAreImported, helper
<1>2. CASE Initialize
  BY <1>2 DEF Initialize, Collected, RoutesAreImported, NoRoutes
<1>3. ASSUME NEW r \in Roots, Walk(r) PROVE Collected' /\ RoutesAreImported'
  <2>1. \A f \in Found(r) : Dir[f] \in Imported(r)
    BY DEF Found, Imported
  <2>2. step' \notin {"prune", "write"}
    BY <1>3 DEF Walk, After, Roots
  <2> QED
    BY <1>3, <2>1, <2>2 DEF Walk, Collected, RoutesAreImported
<1>4. ASSUME NEW r \in Roots, FailWalk(r) PROVE Collected' /\ RoutesAreImported'
  BY <1>4 DEF FailWalk, Collected, RoutesAreImported, helper
<1>5. CASE RemoveDuplicates
  BY <1>5 DEF RemoveDuplicates, Collected, RoutesAreImported
<1>6. CASE Prune
  <2>1. DOMAIN routes' \subseteq DOMAIN routes
        /\ \A f \in DOMAIN routes' : routes'[f] = routes[f]
    BY <1>6 DEF Prune
  <2>2. \A f \in DOMAIN routes' : Dir[f] \in imports'
    BY <1>6, <2>1 DEF Prune, Used, Collected
  <2> QED
    BY <1>6, <2>1, <2>2 DEF Prune, Collected, RoutesAreImported
<1>7. CASE Write
  BY <1>7 DEF Write, Collected, RoutesAreImported, helper
<1>8. CASE UNCHANGED vars
  BY <1>8 DEF Collected, RoutesAreImported, vars
<1> QED
  BY <1>1, <1>2, <1>3, <1>4, <1>5, <1>6, <1>7, <1>8 DEF Next

\* Whenever files come and go, every route that is written has its package and
\* its default configuration imported.
THEOREM NoRouteWithoutItsPackage == Spec => []RoutesAreImported
<1>1. Init => Collected /\ RoutesAreImported
  BY DEF Init, Collected, RoutesAreImported, NoRoutes
<1> QED
  BY <1>1, TypeCorrect, CollectedStep, PTL DEF Spec

-----------------------------------------------------------------------------
(* A render that nothing disturbs.                                         *)

\* The folders that have been walked.
Walked ==
  CASE step = "pages" -> {} [] step = "components" -> {"pages"}
    [] step = "api" -> {"pages", "components"} [] OTHER -> Roots

RoutedIn(roots) == {f \in File : Root[f] \in roots /\ disk[f] \in Routed}

\* While the tree is as it was when the render began, the routes are those of
\* the folders walked so far, and what is derived from them fits them.
Quiet ==
  read # None /\ step # "idle" =>
    /\ DOMAIN routes = RoutedIn(Walked)
    /\ \A f \in DOMAIN routes : routes[f] = disk[f]
    /\ \A f \in DOMAIN routes : Dir[f] \in imports
    /\ step \in {"prune", "write"} =>
         (default <=> \E f \in DOMAIN routes : routes[f] = "default")
    /\ step = "write" => imports = {Dir[f] : f \in DOMAIN routes}

LEMMA QuietStep ==
  TypeOK /\ Quiet /\ QuietMeansExact /\ [Next]_vars => (Quiet /\ QuietMeansExact)'
<1> SUFFICES ASSUME TypeOK, Quiet, QuietMeansExact, [Next]_vars
             PROVE  Quiet' /\ QuietMeansExact'
  OBVIOUS
<1>1. ASSUME NEW f \in File, Save(f) PROVE Quiet' /\ QuietMeansExact'
  BY <1>1 DEF Save, Quiet, QuietMeansExact
<1>2. CASE Initialize
  <2>1. Walked' = {} /\ RoutedIn({})' = {}
    BY <1>2 DEF Initialize, Walked, RoutedIn
  <2>2. DOMAIN routes' = {} /\ step' = "pages" /\ out' = None
    BY <1>2 DEF Initialize, NoRoutes
  <2>3. RoutedIn(Walked)' = {}
    BY <2>1, <2>2 DEF RoutedIn
  <2> QED
    BY <2>2, <2>3 DEF Quiet, QuietMeansExact
<1>3. ASSUME NEW r \in Roots, Walk(r) PROVE Quiet' /\ QuietMeansExact'
  <2>1. QuietMeansExact'
    BY <1>3 DEF Walk, QuietMeansExact
  <2>2. ASSUME read' # None PROVE Quiet'
    <3>1. /\ read # None /\ step # "idle" /\ step = r /\ step' = After(r) /\ disk' = disk
          /\ routes' = [f \in DOMAIN routes \cup Found(r) |->
                          IF f \in Found(r) THEN disk[f] ELSE routes[f]]
          /\ imports' = imports \cup Imported(r)
      BY <1>3, <2>2 DEF Walk, Roots
    <3>2. Walked' = Walked \cup {r} /\ step' \notin {"prune", "write"}
      BY <3>1 DEF Walked, After, Roots
    <3>3. Found(r) = RoutedIn({r})
      BY DEF Found, Scanned, RoutedIn, Content, Routed
    <3>4. RoutedIn(Walked)' = RoutedIn(Walked) \cup RoutedIn({r})
      BY <3>1, <3>2 DEF RoutedIn
    <3>5. DOMAIN routes' = RoutedIn(Walked)'
      BY <3>1, <3>3, <3>4 DEF Quiet
    <3>6. \A f \in DOMAIN routes' : routes'[f] = disk'[f]
      BY <3>1 DEF Quiet
    <3>7. \A f \in Found(r) : Dir[f] \in Imported(r)
      BY DEF Found, Imported
    <3>8. \A f \in DOMAIN routes' : Dir[f] \in imports'
      BY <3>1, <3>7 DEF Quiet
    <3> QED
      BY <3>2, <3>5, <3>6, <3>8 DEF Quiet
  <2> QED
    BY <2>1, <2>2 DEF Quiet
<1>4. ASSUME NEW r \in Roots, FailWalk(r) PROVE Quiet' /\ QuietMeansExact'
  BY <1>4 DEF FailWalk, Quiet, QuietMeansExact
<1>5. CASE RemoveDuplicates
  <2>1. Walked' = Walked
    BY <1>5 DEF RemoveDuplicates, Walked
  <2>2. RoutedIn(Walked)' = RoutedIn(Walked)
    BY <1>5, <2>1 DEF RemoveDuplicates, RoutedIn
  <2> QED
    BY <1>5, <2>2 DEF RemoveDuplicates, Quiet, QuietMeansExact
<1>6. CASE Prune
  <2>1. QuietMeansExact'
    BY <1>6 DEF Prune, QuietMeansExact
  <2>2. ASSUME read' # None PROVE Quiet'
    <3>1. read # None /\ step = "prune" /\ step' = "write" /\ disk' = disk /\ default' = default
      BY <1>6, <2>2 DEF Prune
    <3>2. Walked' = Walked
      BY <3>1 DEF Walked
    <3>3. RoutedIn(Walked)' = RoutedIn(Walked)
      BY <3>1, <3>2 DEF RoutedIn
    <3>4. \A f \in DOMAIN routes : disk[f] # None
      BY <3>1, RouteGenAssumption DEF Quiet, RoutedIn, Routed, Content
    <3>5. DOMAIN routes' = DOMAIN routes /\ \A f \in DOMAIN routes : routes'[f] = routes[f]
      BY <1>6, <3>4 DEF Prune
    <3>6. imports' = {Dir[f] : f \in DOMAIN routes'}
      BY <1>6, <3>1, <3>5 DEF Prune, Used, Quiet
    <3> QED
      BY <3>1, <3>3, <3>5, <3>6 DEF Quiet
  <2> QED
    BY <2>1, <2>2 DEF Quiet
<1>7. CASE Write
  <2>1. Walked = Roots \/ step # "write"
    BY DEF Walked
  <2>2. RoutedIn(Roots) = {f \in File : disk[f] \in Routed}
    BY RouteGenAssumption DEF RoutedIn
  <2> QED
    BY <1>7, <2>1, <2>2 DEF Write, Quiet, QuietMeansExact, helper
<1>8. CASE UNCHANGED vars
  <2>1. RoutedIn(Walked)' = RoutedIn(Walked)
    BY <1>8 DEF RoutedIn, Walked, vars
  <2> QED
    BY <1>8, <2>1 DEF Quiet, QuietMeansExact, vars
<1> QED
  BY <1>1, <1>2, <1>3, <1>4, <1>5, <1>6, <1>7, <1>8 DEF Next

\* For any tree and whatever was rendered before with the same helper, although
\* its imports are never reset: a render that no change disturbs writes exactly
\* the routes of the tree and their packages.
THEOREM QuietRendersAreExact == Spec => []QuietMeansExact
<1>1. Init => Quiet /\ QuietMeansExact
  BY DEF Init, Quiet, QuietMeansExact
<1> QED
  BY <1>1, TypeCorrect, QuietStep, PTL DEF Spec

-----------------------------------------------------------------------------
(* Facts about sequences, and about a package the loader has type-checked. *)

LEMMA RangeOfEmpty == Range(<<>>) = {}
  BY DEF Range

LEMMA AppendIn ==
  ASSUME NEW T, NEW s \in Seq(T), NEW x \in T
  PROVE  Append(s, x) \in Seq(T)
  OBVIOUS

LEMMA RangeIn ==
  ASSUME NEW T, NEW s \in Seq(T)
  PROVE  Range(s) \subseteq T
  BY DEF Range

LEMMA InRange ==
  ASSUME NEW T, NEW s \in Seq(T), NEW U, Range(s) \subseteq U
  PROVE  s \in Seq(U)
<1>1. DOMAIN s = 1 .. Len(s) /\ Len(s) \in Nat /\ s = [i \in 1 .. Len(s) |-> s[i]]
  OBVIOUS
<1>2. \A i \in 1 .. Len(s) : s[i] \in U
  BY <1>1 DEF Range
<1> QED
  BY <1>1, <1>2

LEMMA RangeOfTail ==
  ASSUME NEW T, NEW s \in Seq(T), s # <<>>
  PROVE  /\ Head(s) \in T /\ Tail(s) \in Seq(T)
         /\ Range(s) = {Head(s)} \cup Range(Tail(s))
<1>1. Head(s) \in T /\ Tail(s) \in Seq(T) /\ Len(s) \in Nat \ {0}
  OBVIOUS
<1>2. Head(s) = s[1] /\ DOMAIN s = 1 .. Len(s) /\ DOMAIN Tail(s) = 1 .. Len(s) - 1
  BY <1>1
<1>3. \A i \in 1 .. Len(s) - 1 : Tail(s)[i] = s[i + 1]
  BY <1>1
<1>4. \A i \in 1 .. Len(s) : i = 1 \/ (i - 1 \in 1 .. Len(s) - 1 /\ s[i] = Tail(s)[i - 1])
  BY <1>1, <1>3
<1>5. \A i \in 1 .. Len(s) - 1 : i + 1 \in 1 .. Len(s)
  BY <1>1
<1>6. 1 \in 1 .. Len(s)
  BY <1>1
<1>7. Range(s) \subseteq {Head(s)} \cup Range(Tail(s))
  <2> DEFINE t == Tail(s)
  <2>1. \A i \in DOMAIN s : s[i] = Head(s) \/ \E j \in DOMAIN t : s[i] = t[j]
    BY <1>2, <1>4
  <2> HIDE DEF t
  <2> QED
    BY <2>1 DEF Range, t
<1>8. {Head(s)} \cup Range(Tail(s)) \subseteq Range(s)
  <2> DEFINE t == Tail(s)
  <2>1. \A i \in DOMAIN t : t[i] = s[i + 1] /\ i + 1 \in DOMAIN s
    BY <1>2, <1>3, <1>5
  <2> HIDE DEF t
  <2>2. \A x \in Range(t) : x \in Range(s)
    BY <2>1 DEF Range
  <2>3. Head(s) \in Range(s)
    BY <1>2, <1>6 DEF Range
  <2> QED
    BY <2>2, <2>3 DEF t
<1> QED
  BY <1>1, <1>7, <1>8

LEMMA RangeOfAppend ==
  ASSUME NEW T, NEW s \in Seq(T), NEW x
  PROVE  Range(Append(s, x)) = Range(s) \cup {x}
<1>1. DOMAIN s = 1 .. Len(s) /\ DOMAIN Append(s, x) = 1 .. Len(s) + 1 /\ Len(s) \in Nat
  OBVIOUS
<1>2. \A i \in 1 .. Len(s) : Append(s, x)[i] = s[i]
  OBVIOUS
<1>3. Append(s, x)[Len(s) + 1] = x
  OBVIOUS
<1> DEFINE t == Append(s, x)
<1>4. t[Len(s) + 1] = x /\ (\A i \in 1 .. Len(s) : t[i] = s[i]) /\ DOMAIN t = 1 .. Len(s) + 1
  BY <1>1, <1>2, <1>3
<1> HIDE DEF t
<1>5. \A i \in 1 .. Len(s) + 1 : i = Len(s) + 1 \/ i \in 1 .. Len(s)
  BY <1>1
<1>6. Len(s) + 1 \in 1 .. Len(s) + 1 /\ 1 .. Len(s) \subseteq 1 .. Len(s) + 1
  BY <1>1
<1>7. Range(t) = Range(s) \cup {x}
  BY <1>1, <1>4, <1>5, <1>6 DEF Range
<1> QED
  BY <1>7 DEF t

LEMMA CheckedPackage ==
  ASSUME NEW p \in Package
  PROVE  /\ \A i \in DOMAIN p.decls :
              /\ p.decls[i] \in Decl /\ Range(p.decls[i].uses) \subseteq Known(p)
         /\ \A i \in DOMAIN p.imports : p.imports[i] \in ImportSpec
         /\ \A i \in DOMAIN p.literals :
              /\ p.literals[i] \in Literal /\ Range(p.literals[i].uses) \subseteq Known(p)
         /\ p.decls \in Seq(Decl) /\ p.imports \in Seq(ImportSpec)
         /\ p.literals \in Seq(Literal)
<1>1. TypeChecked(p)
  BY TreeShakeAssumption
<1>2. p.decls \in Seq(Decl) /\ p.imports \in Seq(ImportSpec) /\ p.literals \in Seq(Literal)
  BY <1>1 DEF TypeChecked
<1> QED
  BY <1>1, <1>2, ElementIn DEF TypeChecked

LEMMA KnownKinds ==
  ASSUME NEW p \in Package
  PROVE  /\ Known(p) \cap Object = Objects(p) /\ Known(p) \cap Path = ImportedPaths(p)
         /\ Known(p) \subseteq Object \cup Path
<1>1. \A i \in DOMAIN p.decls : p.decls[i].defines \subseteq Object
  BY CheckedPackage DEF Decl
<1>2. \A i \in DOMAIN p.imports : p.imports[i].path \in Path
  BY CheckedPackage DEF ImportSpec
<1> QED
  BY <1>1, <1>2, TreeShakeAssumption DEF Known, Objects, ImportedPaths

LEMMA DeclDefines ==
  ASSUME NEW p \in Package, NEW x \in Objects(p)
  PROVE  DeclOf(p, x) \in DOMAIN p.decls /\ x \in p.decls[DeclOf(p, x)].defines
<1>1. \E i \in DOMAIN p.decls : x \in p.decls[i].defines
  BY DEF Objects
<1> QED
  BY <1>1 DEF DeclOf

LEMMA UsesKnown ==
  ASSUME NEW p \in Package, NEW i \in DOMAIN p.decls
  PROVE  p.decls[i].uses \in Seq(Known(p))
<1>1. p.decls[i] \in Decl /\ Range(p.decls[i].uses) \subseteq Known(p)
  BY CheckedPackage
<1>2. p.decls[i].uses \in Uses
  BY <1>1 DEF Decl
<1> QED
  BY <1>1, <1>2, InRange DEF Uses

LEMMA LiteralKnown ==
  ASSUME NEW p \in Package, NEW i \in DOMAIN p.literals
  PROVE  p.literals[i].uses \in Seq(Known(p)) /\ p.literals[i].state \in States
<1>1. p.literals[i] \in Literal /\ Range(p.literals[i].uses) \subseteq Known(p)
  BY CheckedPackage
<1>2. p.literals[i].uses \in Uses /\ p.literals[i].state \in States
  BY <1>1 DEF Literal
<1> QED
  BY <1>1, <1>2, InRange DEF Uses

-----------------------------------------------------------------------------
(* The scan of a page: what the search has seen and what it still has to   *)
(* see, against the set it is to find.                                     *)

FirstOfPath(k) ==
  \A j \in 1 .. k - 1 : package.imports[j].path # package.imports[k].path
LinePaths == {lines[i].path : i \in DOMAIN lines}
IsBody(i) ==
  Decides(i) /\ package.literals[i].state = "func" /\ body = package.literals[i].uses

\* The literals before the one looked at have no state, and the one found decides.
LiteralsInv ==
  /\ stage = "literals" =>
       /\ \A j \in 1 .. at - 1 : package.literals[j].state = "none"
       /\ seen = {} /\ queue = <<>> /\ helpers = <<>> /\ pkgs = <<>> /\ lines = <<>>
  /\ stage = "nothing" =>
       \A i \in DOMAIN package.literals : package.literals[i].state = "none"
  /\ stage \in {"search", "imports", "page"} => \E i \in DOMAIN package.literals : IsBody(i)
  /\ stage = "error" =>
       \E i \in DOMAIN package.literals :
         \/ Decides(i) /\ package.literals[i].state = "unknown"
         \/ IsBody(i) /\ Reached \cap Vars # {}

\* Nothing is seen that is not to be found: it is in every closed set.
SoundSearch ==
  stage = "search" =>
    \A S \in SUBSET Known(package) : IsClosed(S) =>
      /\ seen \subseteq S /\ Range(todo) \subseteq S
      /\ \A d \in Range(queue) : Range(UsesAt(d)) \subseteq S

\* Nothing is lost: what a seen object uses is seen, or waits to be.
CompleteSearch ==
  stage = "search" =>
    /\ Range(body) \subseteq seen \cup Range(todo)
    /\ \A x \in seen \cap Object :
         \/ DeclOf(package, x) \in Range(queue)
         \/ Range(UsesAt(DeclOf(package, x))) \subseteq seen \cup Range(todo)

\* Where what is seen, or about to be, comes from.
Origin ==
  stage = "search" =>
    /\ Range(queue) \subseteq Range(helpers)
    /\ \A x \in seen \cup Range(todo) :
         x \in Range(body) \/ \E d \in Range(helpers) : x \in Range(UsesAt(d))
    /\ lines = <<>>

FoundInv ==
  stage \in {"search", "imports", "page"} =>
    /\ Range(helpers) = {DeclOf(package, x) : x \in seen \cap Object}
    /\ Range(pkgs) = seen \cap Path
    /\ seen \cap Vars = {}

SearchInv ==
  LiteralsInv /\ SoundSearch /\ CompleteSearch /\ Origin /\ FoundInv
    /\ (stage \in {"imports", "page"} => seen = Reached)

\* The lines so far, and the imports that are still to come: of the node looked
\* at, from the current spec on, and of the nodes after it.
ImportsInv ==
  /\ stage \in {"imports", "page"} =>
       /\ LinePaths \subseteq Reached \cap Path
       /\ \A i \in DOMAIN lines :
            \E k \in DOMAIN package.imports : lines[i] = package.imports[k] /\ FirstOfPath(k)
       /\ \A i, j \in DOMAIN lines : lines[i].path = lines[j].path => i = j
  /\ stage = "imports" =>
       /\ Range(todo) \subseteq Reached
       /\ \A d \in Range(queue) : Range(UsesAt(d)) \subseteq Reached
       /\ \A x \in Reached \cap Path :
            \/ x \in LinePaths
            \/ /\ x \in Range(todo)
               /\ \E k \in DOMAIN package.imports :
                    at <= k /\ package.imports[k].path = x /\ FirstOfPath(k)
            \/ \E d \in Range(queue) : x \in Range(UsesAt(d))
  /\ stage = "page" => Reached \cap Path \subseteq LinePaths

-----------------------------------------------------------------------------
(* Types.                                                                  *)

LEMMA ScanInitType == ScanInit => ScanTypeOK
<1> SUFFICES ASSUME ScanInit PROVE ScanTypeOK
  OBVIOUS
<1>1. package.literals \in Seq(Literal)
  BY CheckedPackage DEF ScanInit
<1> QED
  BY <1>1 DEF ScanInit, ScanTypeOK

\* What the node the search stands at may hold.
LEMMA HeadOfTodo ==
  ASSUME ScanTypeOK, todo # <<>>
  PROVE  /\ Head(todo) \in Known(package) /\ Tail(todo) \in Seq(Known(package))
         /\ Range(todo) = {Head(todo)} \cup Range(Tail(todo))
         /\ Head(todo) \in Object => Head(todo) \in Objects(package)
         /\ Head(todo) \in Path => Head(todo) \in ImportedPaths(package)
         /\ Head(todo) \in Object \cup Path
<1>1. todo \in Seq(Known(package)) /\ package \in Package
  BY DEF ScanTypeOK
<1>2. /\ Head(todo) \in Known(package) /\ Tail(todo) \in Seq(Known(package))
      /\ Range(todo) = {Head(todo)} \cup Range(Tail(todo))
  BY <1>1, RangeOfTail
<1> QED
  BY <1>1, <1>2, KnownKinds

\* ... and the declaration that waits first, to be inspected next.
LEMMA HeadOfQueue ==
  ASSUME ScanTypeOK, queue # <<>>
  PROVE  /\ Head(queue) \in DOMAIN package.decls
         /\ Tail(queue) \in Seq(DOMAIN package.decls)
         /\ Range(queue) = {Head(queue)} \cup Range(Tail(queue))
         /\ UsesAt(Head(queue)) \in Seq(Known(package))
<1>1. queue \in Seq(DOMAIN package.decls) /\ package \in Package
  BY DEF ScanTypeOK
<1>2. /\ Head(queue) \in DOMAIN package.decls
      /\ Tail(queue) \in Seq(DOMAIN package.decls)
      /\ Range(queue) = {Head(queue)} \cup Range(Tail(queue))
  BY <1>1, RangeOfTail
<1> QED
  BY <1>1, <1>2, UsesKnown DEF UsesAt

LEMMA ScanNextType == ScanTypeOK /\ [ScanNext]_scanVars => ScanTypeOK'
<1> SUFFICES ASSUME ScanTypeOK, [ScanNext]_scanVars PROVE ScanTypeOK'
  OBVIOUS
<1>p. /\ package \in Package /\ package.literals \in Seq(Literal)
      /\ package.imports \in Seq(ImportSpec)
  BY CheckedPackage DEF ScanTypeOK
<1>n. /\ Len(package.literals) \in Nat /\ DOMAIN package.literals = 1 .. Len(package.literals)
      /\ Len(package.imports) \in Nat /\ DOMAIN package.imports = 1 .. Len(package.imports)
  BY <1>p
<1>1. CASE NextLiteral
  BY <1>1, <1>p, <1>n DEF NextLiteral, ScanTypeOK, found, Final
<1>2. CASE FindBody
  <2>1. package.literals[at].uses \in Seq(Known(package))
    BY <1>2, <1>p, LiteralKnown DEF FindBody
  <2> QED
    BY <1>2, <2>1 DEF FindBody, ScanTypeOK, found, Final
<1>3. CASE RejectState \/ NoPage
  BY <1>3 DEF RejectState, NoPage, ScanTypeOK, found, Final
<1>4. CASE SkipSeen
  <2>1. Tail(todo) \in Seq(Known(package))
    BY <1>4, HeadOfTodo DEF SkipSeen
  <2> QED
    BY <1>4, <2>1 DEF SkipSeen, ScanTypeOK, found
<1>5. ASSUME NEW x \in Object \cup Path, VisitPackage(x) PROVE ScanTypeOK'
  <2>1. x \in ImportedPaths(package) /\ x \in Known(package) /\ Tail(todo) \in Seq(Known(package))
    BY <1>5, HeadOfTodo DEF VisitPackage, Visit
  <2> QED
    BY <1>5, <2>1 DEF VisitPackage, Visit, ScanTypeOK
<1>6. ASSUME NEW x \in Object \cup Path, VisitDecl(x) PROVE ScanTypeOK'
  <2>1. x \in Objects(package) /\ x \in Known(package) /\ Tail(todo) \in Seq(Known(package))
    BY <1>6, HeadOfTodo DEF VisitDecl, Visit
  <2>2. DeclOf(package, x) \in DOMAIN package.decls
    BY <1>p, <2>1, DeclDefines
  <2>3. /\ helpers' \in Seq(DOMAIN package.decls) /\ queue' \in Seq(DOMAIN package.decls)
    BY <1>6, <2>2, AppendIn DEF VisitDecl, ScanTypeOK
  <2> QED
    BY <1>6, <2>1, <2>3 DEF VisitDecl, Visit, ScanTypeOK
<1>7. ASSUME NEW x \in Object \cup Path, RejectVar(x) PROVE ScanTypeOK'
  <2>1. x \in Known(package) /\ Tail(todo) \in Seq(Known(package))
    BY <1>7, HeadOfTodo DEF RejectVar, Visit
  <2> QED
    BY <1>7, <2>1 DEF RejectVar, Visit, ScanTypeOK, Final
<1>8. CASE InspectNext
  BY <1>8, HeadOfQueue DEF InspectNext, ScanTypeOK, found
<1>9. CASE EndSearch
  BY <1>9, <1>n DEF EndSearch, ScanTypeOK, found, Final
<1>10. CASE NextSpec
  <2>1. package.imports[at] \in Range(package.imports)
    BY <1>10 DEF NextSpec, Range
  <2>2. lines' \in Seq(Range(package.imports))
    <3>1. lines \in Seq(Range(package.imports))
      BY DEF ScanTypeOK
    <3>2. lines' = lines \/ lines' = Append(lines, package.imports[at])
      BY <1>10 DEF NextSpec
    <3>3. Append(lines, package.imports[at]) \in Seq(Range(package.imports))
      BY <2>1, <3>1, AppendIn
    <3> QED
      BY <3>1, <3>2, <3>3
  <2> QED
    BY <1>10, <1>n, <2>2 DEF NextSpec, ScanTypeOK, found, Final
<1>11. CASE NextHelper
  BY <1>11, <1>n, HeadOfQueue DEF NextHelper, ScanTypeOK, found
<1>12. CASE Finish
  BY <1>12 DEF Finish, ScanTypeOK, found, Final
<1>13. CASE UNCHANGED scanVars
  BY <1>13 DEF scanVars, ScanTypeOK
<1> QED
  BY <1>1, <1>2, <1>3, <1>4, <1>5, <1>6, <1>7, <1>8, <1>9, <1>10, <1>11, <1>12, <1>13
     DEF ScanNext

\* Every index the scan holds is one of its package: what waits is a declaration,
\* what is seen is known to the package, and the spec looked at is at most one
\* past the last, whichever phase the scan came from.
THEOREM ScanTypeCorrect == ScanSpec => []ScanTypeOK
<1> QED
  BY ScanInitType, ScanNextType, PTL DEF ScanSpec

-----------------------------------------------------------------------------
(* The search.                                                             *)

LEMMA ScanInitSearch == ScanInit => SearchInv
  BY DEF ScanInit, SearchInv, LiteralsInv, SoundSearch, CompleteSearch, Origin, FoundInv

\* What is to be found does not change while the package and the body stay.
LEMMA SameGoal ==
  ASSUME package' = package, body' = body
  PROVE  /\ Reached' = Reached /\ Vars' = Vars
         /\ \A S : IsClosed(S)' = IsClosed(S)
         /\ \A d : UsesAt(d)' = UsesAt(d)
         /\ \A i : Decides(i)' = Decides(i) /\ IsBody(i)' = IsBody(i)
         /\ \A k : FirstOfPath(k)' = FirstOfPath(k)
  BY DEF Reached, Vars, KindOf, IsClosed, UsesAt, Decides, IsBody, FirstOfPath

\* When nothing waits, what is seen is closed, and so it is what was to be found.
LEMMA SeenIsReached ==
  ASSUME ScanTypeOK, SoundSearch, CompleteSearch, stage = "search",
         todo = <<>>, queue = <<>>
  PROVE  seen = Reached
<1>1. Range(todo) = {} /\ Range(queue) = {}
  BY RangeOfEmpty
<1>2. seen \in SUBSET Known(package)
  BY DEF ScanTypeOK
<1>3. IsClosed(seen)
  BY <1>1 DEF CompleteSearch, IsClosed
<1>4. Reached \subseteq seen
  BY <1>2, <1>3 DEF Reached
<1>5. seen \subseteq Reached
  BY <1>2 DEF SoundSearch, Reached
<1> QED
  BY <1>4, <1>5

LEMMA LiteralsStep ==
  ASSUME ScanTypeOK, SearchInv, NextLiteral \/ FindBody \/ RejectState \/ NoPage
  PROVE  SearchInv'
<1>p. /\ package \in Package /\ DOMAIN package.literals = 1 .. Len(package.literals)
      /\ Len(package.literals) \in Nat
      /\ \A i \in DOMAIN package.literals : package.literals[i].state \in States
  BY CheckedPackage, LiteralKnown DEF ScanTypeOK
<1>a. stage = "literals" /\ at \in Nat \ {0} /\ package' = package
  BY DEF NextLiteral, FindBody, RejectState, NoPage, ScanTypeOK
<1>b. /\ \A j \in 1 .. at - 1 : package.literals[j].state = "none"
      /\ seen = {} /\ queue = <<>> /\ helpers = <<>> /\ pkgs = <<>> /\ lines = <<>>
      /\ at <= Len(package.literals) + 1
  BY <1>a DEF SearchInv, LiteralsInv, ScanTypeOK
<1>1. CASE NextLiteral
  <2>1. \A j \in 1 .. at' - 1 : package.literals[j].state = "none"
    BY <1>1, <1>a, <1>b DEF NextLiteral
  <2> QED
    BY <1>1, <1>b, <2>1
       DEF NextLiteral, found, SearchInv, LiteralsInv, SoundSearch, CompleteSearch, Origin,
           FoundInv
<1>2. CASE FindBody
  <2>1. Decides(at) /\ at \in DOMAIN package.literals
    BY <1>2, <1>b DEF FindBody, Decides
  <2>2. Decides(at)'
    BY <1>a, <1>2, <2>1 DEF Decides, FindBody
  <2>3. IsBody(at)'
    BY <1>2, <2>2 DEF FindBody, IsBody
  <2>4. LiteralsInv'
    BY <1>2, <1>a, <2>1, <2>3 DEF LiteralsInv, FindBody
  <2>5. /\ stage' = "search" /\ todo' = body' /\ seen' = {} /\ queue' = <<>> /\ helpers' = <<>>
        /\ pkgs' = <<>> /\ lines' = <<>>
    BY <1>2, <1>b DEF FindBody, found
  <2>6. Range(queue') = {} /\ Range(helpers') = {} /\ Range(pkgs') = {}
    BY <2>5, RangeOfEmpty
  <2>7. SoundSearch'
    BY <2>5, <2>6 DEF SoundSearch, IsClosed
  <2>8. CompleteSearch' /\ Origin'
    BY <2>5, <2>6 DEF CompleteSearch, Origin
  <2>9. FoundInv'
    BY <2>5, <2>6 DEF FoundInv
  <2> QED
    BY <2>4, <2>5, <2>7, <2>8, <2>9 DEF SearchInv
<1>3. CASE RejectState
  <2>1. Decides(at)' /\ at \in DOMAIN package.literals
    BY <1>3, <1>a, <1>b DEF RejectState, Decides
  <2> QED
    BY <1>3, <1>a, <2>1
       DEF RejectState, SearchInv, LiteralsInv, SoundSearch, CompleteSearch, Origin, FoundInv
<1>4. CASE NoPage
  <2>1. \A i \in DOMAIN package.literals : package.literals[i].state = "none"
    BY <1>4, <1>p, <1>a, <1>b DEF NoPage
  <2> QED
    BY <1>4, <1>a, <2>1
       DEF NoPage, SearchInv, LiteralsInv, SoundSearch, CompleteSearch, Origin, FoundInv
<1> QED
  BY <1>1, <1>2, <1>3, <1>4

\* A step of the search leaves the page as it is.
LEMMA SearchLiterals ==
  ASSUME SearchInv, package' = package, body' = body, stage = "search",
         stage' \in {"search", "imports"}
  PROVE  LiteralsInv'
<1>1. PICK i \in DOMAIN package.literals : IsBody(i)
  BY DEF SearchInv, LiteralsInv
<1>2. IsBody(i)'
  BY <1>1, SameGoal
<1> QED
  BY <1>1, <1>2 DEF LiteralsInv

LEMMA VisitStep ==
  ASSUME ScanTypeOK, SearchInv, SkipSeen \/ \E x \in Object \cup Path : VisitPackage(x)
  PROVE  SearchInv'
<1>1. /\ stage = "search" /\ stage' = "search" /\ package' = package /\ body' = body
      /\ todo # <<>> /\ todo' = Tail(todo) /\ queue' = queue /\ helpers' = helpers
      /\ lines' = lines /\ seen' = seen \cup {Head(todo)}
  BY DEF SkipSeen, VisitPackage, Visit, found
<1>2. Range(todo) = {Head(todo)} \cup Range(todo')
  BY <1>1, HeadOfTodo
<1>3. LiteralsInv'
  BY <1>1, SearchLiterals
<1>4. SoundSearch'
  BY <1>1, <1>2, SameGoal DEF SearchInv, SoundSearch
<1>5. \A x \in seen' \cap Object : x \in seen
  BY TreeShakeAssumption DEF SkipSeen, VisitPackage, Visit, found
<1>6. CompleteSearch'
  BY <1>1, <1>2, <1>5, SameGoal DEF SearchInv, CompleteSearch
<1>7. Origin'
  BY <1>1, <1>2, SameGoal DEF SearchInv, Origin
<1>8. Range(pkgs') = seen' \cap Path
  <2>1. CASE SkipSeen
    BY <1>1, <2>1 DEF SkipSeen, found, SearchInv, FoundInv
  <2>2. ASSUME NEW x \in Object \cup Path, VisitPackage(x) PROVE Range(pkgs') = seen' \cap Path
    BY <1>1, <2>2, RangeOfAppend DEF VisitPackage, Visit, SearchInv, FoundInv, ScanTypeOK
  <2> QED
    BY <2>1, <2>2
<1>9. seen' \cap Vars = {}
  <2>1. Vars \subseteq Object
    BY KnownKinds DEF Vars, ScanTypeOK
  <2> QED
    BY <1>1, <1>5, <2>1 DEF SearchInv, FoundInv
<1>10. {DeclOf(package, x) : x \in seen' \cap Object} = {DeclOf(package, x) : x \in seen \cap Object}
  BY <1>1, <1>5
<1>11. FoundInv'
  BY <1>1, <1>8, <1>9, <1>10, SameGoal DEF SearchInv, FoundInv
<1> QED
  BY <1>1, <1>3, <1>4, <1>6, <1>7, <1>11 DEF SearchInv

LEMMA VisitDeclStep ==
  ASSUME ScanTypeOK, SearchInv, NEW x \in Object \cup Path, VisitDecl(x)
  PROVE  SearchInv'
<1> DEFINE d == DeclOf(package, x)
<1>1. /\ stage = "search" /\ stage' = "search" /\ package' = package /\ body' = body
      /\ todo # <<>> /\ x = Head(todo) /\ todo' = Tail(todo) /\ lines' = lines /\ pkgs' = pkgs
      /\ queue' = Append(queue, d) /\ helpers' = Append(helpers, d)
      /\ seen' = seen \cup {x} /\ x \in Object \ seen /\ KindOf(x) # "var"
  BY DEF VisitDecl, Visit
<1> HIDE DEF d
<1>2. /\ Range(todo) = {x} \cup Range(todo') /\ x \in Known(package)
  BY <1>1, HeadOfTodo
<1>3. Range(queue') = Range(queue) \cup {d} /\ Range(helpers') = Range(helpers) \cup {d}
  BY <1>1, RangeOfAppend DEF ScanTypeOK
<1>4. LiteralsInv'
  BY <1>1, SearchLiterals
<1>5. SoundSearch'
  <2> SUFFICES ASSUME NEW S \in SUBSET Known(package), IsClosed(S)
               PROVE  /\ seen' \subseteq S /\ Range(todo') \subseteq S
                      /\ \A e \in Range(queue') : Range(UsesAt(e)) \subseteq S
    BY <1>1, SameGoal DEF SoundSearch
  <2>1. /\ seen \subseteq S /\ Range(todo) \subseteq S
        /\ \A e \in Range(queue) : Range(UsesAt(e)) \subseteq S
    BY <1>1 DEF SearchInv, SoundSearch
  <2>2. Range(UsesAt(d)) \subseteq S
    BY <1>1, <1>2, <2>1 DEF IsClosed, d
  <2> QED
    BY <1>1, <1>2, <1>3, <2>1, <2>2
<1>6. CompleteSearch'
  <2>1. Range(body) \subseteq seen' \cup Range(todo')
    BY <1>1, <1>2 DEF SearchInv, CompleteSearch
  <2>2. ASSUME NEW y \in seen' \cap Object
        PROVE  \/ DeclOf(package, y) \in Range(queue')
               \/ Range(UsesAt(DeclOf(package, y))) \subseteq seen' \cup Range(todo')
    <3>1. CASE y = x
      BY <1>3, <3>1 DEF d
    <3>2. CASE y # x
      BY <1>1, <1>2, <1>3, <3>2 DEF SearchInv, CompleteSearch
    <3> QED
      BY <3>1, <3>2
  <2> QED
    BY <1>1, <2>1, <2>2, SameGoal DEF CompleteSearch
<1>7. Origin'
  BY <1>1, <1>2, <1>3, SameGoal DEF SearchInv, Origin
<1>8. FoundInv'
  <2>1. Range(helpers') = {DeclOf(package, y) : y \in seen' \cap Object}
    BY <1>1, <1>3 DEF SearchInv, FoundInv, d
  <2>2. Range(pkgs') = seen' \cap Path
    BY <1>1, TreeShakeAssumption DEF SearchInv, FoundInv
  <2>3. seen' \cap Vars = {}
    BY <1>1 DEF SearchInv, FoundInv, Vars
  <2> QED
    BY <1>1, <2>1, <2>2, <2>3, SameGoal DEF FoundInv
<1> QED
  BY <1>1, <1>4, <1>5, <1>6, <1>7, <1>8 DEF SearchInv

\* The variable that ends a scan is one the page reaches.
LEMMA RejectVarStep ==
  ASSUME ScanTypeOK, SearchInv, NEW x \in Object \cup Path, RejectVar(x)
  PROVE  SearchInv'
<1>1. /\ stage = "search" /\ stage' = "error" /\ package' = package /\ body' = body
      /\ todo # <<>> /\ x = Head(todo) /\ x \in Object \ seen /\ KindOf(x) = "var"
  BY DEF RejectVar, Visit
<1>2. x \in Range(todo) /\ x \in Objects(package) /\ x \in Known(package)
  BY <1>1, HeadOfTodo
<1>3. x \in Reached \cap Vars
  BY <1>1, <1>2 DEF SearchInv, SoundSearch, Reached, Vars
<1>4. PICK i \in DOMAIN package.literals : IsBody(i)
  BY <1>1 DEF SearchInv, LiteralsInv
<1>5. IsBody(i)' /\ Reached' \cap Vars' # {}
  BY <1>1, <1>3, <1>4, SameGoal
<1>6. LiteralsInv'
  BY <1>1, <1>4, <1>5 DEF LiteralsInv
<1> QED
  BY <1>1, <1>6 DEF SearchInv, SoundSearch, CompleteSearch, Origin, FoundInv

LEMMA InspectStep ==
  ASSUME ScanTypeOK, SearchInv, InspectNext
  PROVE  SearchInv'
<1> DEFINE d == Head(queue)
<1>1. /\ stage = "search" /\ stage' = "search" /\ package' = package /\ body' = body
      /\ todo = <<>> /\ queue # <<>> /\ todo' = UsesAt(d) /\ queue' = Tail(queue)
      /\ seen' = seen /\ helpers' = helpers /\ pkgs' = pkgs /\ lines' = lines
  BY DEF InspectNext, found
<1> HIDE DEF d
<1>2. Range(todo) = {} /\ Range(queue) = {d} \cup Range(queue')
  BY <1>1, RangeOfEmpty, HeadOfQueue DEF d
<1>3. LiteralsInv'
  BY <1>1, SearchLiterals
<1>4. SoundSearch'
  BY <1>1, <1>2, SameGoal DEF SearchInv, SoundSearch
<1>5. CompleteSearch'
  <2>1. Range(body) \subseteq seen' \cup Range(todo')
    BY <1>1, <1>2 DEF SearchInv, CompleteSearch
  <2>2. ASSUME NEW y \in seen' \cap Object
        PROVE  \/ DeclOf(package, y) \in Range(queue')
               \/ Range(UsesAt(DeclOf(package, y))) \subseteq seen' \cup Range(todo')
    BY <1>1, <1>2 DEF SearchInv, CompleteSearch
  <2> QED
    BY <1>1, <2>1, <2>2, SameGoal DEF CompleteSearch
<1>6. Origin'
  BY <1>1, <1>2, SameGoal DEF SearchInv, Origin
<1>7. FoundInv'
  BY <1>1, SameGoal DEF SearchInv, FoundInv
<1> QED
  BY <1>1, <1>3, <1>4, <1>5, <1>6, <1>7 DEF SearchInv

LEMMA EndSearchStep ==
  ASSUME ScanTypeOK, SearchInv, EndSearch
  PROVE  SearchInv'
<1>1. /\ stage = "search" /\ stage' = "imports" /\ package' = package /\ body' = body
      /\ todo = <<>> /\ queue = <<>>
      /\ seen' = seen /\ helpers' = helpers /\ pkgs' = pkgs /\ lines' = lines
  BY DEF EndSearch, found
<1>2. seen = Reached
  BY <1>1, SeenIsReached DEF SearchInv
<1>3. LiteralsInv'
  BY <1>1, SearchLiterals
<1>4. FoundInv'
  BY <1>1, SameGoal DEF SearchInv, FoundInv
<1> QED
  BY <1>1, <1>2, <1>3, <1>4, SameGoal DEF SearchInv, SoundSearch, CompleteSearch, Origin

LEMMA StillFound ==
  ASSUME SearchInv, stage = "imports", stage' \in {"imports", "page"}, package' = package,
         body' = body, seen' = seen, helpers' = helpers, pkgs' = pkgs
  PROVE  SearchInv'
<1>1. PICK i \in DOMAIN package.literals : IsBody(i)
  BY DEF SearchInv, LiteralsInv
<1>2. IsBody(i)'
  BY <1>1, SameGoal
<1>3. LiteralsInv' /\ FoundInv'
  BY <1>1, <1>2, SameGoal DEF SearchInv, LiteralsInv, FoundInv
<1> QED
  BY <1>3, SameGoal DEF SearchInv, SoundSearch, CompleteSearch, Origin

LEMMA SearchStep == ScanTypeOK /\ SearchInv /\ [ScanNext]_scanVars => SearchInv'
<1> SUFFICES ASSUME ScanTypeOK, SearchInv, [ScanNext]_scanVars PROVE SearchInv'
  OBVIOUS
<1>1. CASE NextLiteral \/ FindBody \/ RejectState \/ NoPage
  BY <1>1, LiteralsStep
<1>2. CASE SkipSeen \/ \E x \in Object \cup Path : VisitPackage(x)
  BY <1>2, VisitStep
<1>3. ASSUME NEW x \in Object \cup Path, VisitDecl(x) PROVE SearchInv'
  BY <1>3, VisitDeclStep
<1>4. ASSUME NEW x \in Object \cup Path, RejectVar(x) PROVE SearchInv'
  BY <1>4, RejectVarStep
<1>5. CASE InspectNext
  BY <1>5, InspectStep
<1>6. CASE EndSearch
  BY <1>6, EndSearchStep
<1>7. CASE NextSpec \/ NextHelper \/ Finish
  BY <1>7, StillFound DEF NextSpec, NextHelper, Finish, found
<1>8. CASE UNCHANGED scanVars
  <2>1. /\ package' = package /\ body' = body /\ stage' = stage /\ at' = at /\ todo' = todo
        /\ queue' = queue /\ seen' = seen /\ helpers' = helpers /\ pkgs' = pkgs /\ lines' = lines
    BY <1>8 DEF scanVars
  <2> QED
    BY <2>1, SameGoal
       DEF SearchInv, LiteralsInv, SoundSearch, CompleteSearch, Origin, FoundInv
<1> QED
  BY <1>1, <1>2, <1>3, <1>4, <1>5, <1>6, <1>7, <1>8 DEF ScanNext

\* For any package: whichever declarations use each other, and however far the
\* variable is, the scan fails when the page reaches a package variable and only
\* then, and otherwise finds the declarations and packages it reaches.
LEMMA ScanHelpersFit == ScanSpec => []HelpersFit
<1>1. SearchInv => HelpersFit
  BY DEF SearchInv, LiteralsInv, FoundInv, IsBody, HelpersFit
<1> QED
  BY <1>1, ScanInitSearch, ScanTypeCorrect, SearchStep, PTL DEF ScanSpec

-----------------------------------------------------------------------------
(* The imports.                                                            *)

\* A path that is imported has a first spec.
LEMMA FirstExists ==
  ASSUME package \in Package, NEW x \in ImportedPaths(package)
  PROVE  \E k \in DOMAIN package.imports :
           1 <= k /\ package.imports[k].path = x /\ FirstOfPath(k)
<1>1. /\ DOMAIN package.imports = 1 .. Len(package.imports) /\ Len(package.imports) \in Nat
  BY CheckedPackage
<1> DEFINE T == {k \in DOMAIN package.imports : package.imports[k].path = x}
<1>2. T \subseteq Nat /\ T # {}
  BY <1>1 DEF ImportedPaths
<1>3. PICK k \in T : \A j \in T : ~ (j < k)
  BY <1>2, LeastOf
<1>4. k \in 1 .. Len(package.imports) /\ package.imports[k].path = x
  BY <1>1
<1>5. \A j \in 1 .. k - 1 : j \in DOMAIN package.imports /\ j < k
  BY <1>1, <1>4
<1>6. \A j \in 1 .. k - 1 : package.imports[j].path # x
  BY <1>3, <1>5
<1> QED
  BY <1>1, <1>4, <1>6 DEF FirstOfPath

LEMMA ImportsBegin ==
  ASSUME ScanTypeOK, SearchInv, EndSearch
  PROVE  ImportsInv'
<1>1. /\ stage = "search" /\ stage' = "imports" /\ package' = package /\ body' = body
      /\ todo = <<>> /\ queue = <<>> /\ at' = 1 /\ todo' = body /\ queue' = helpers
      /\ seen' = seen /\ helpers' = helpers /\ pkgs' = pkgs /\ lines' = lines
      /\ package \in Package
  BY DEF EndSearch, found, ScanTypeOK
<1>2. seen = Reached /\ Reached' = Reached
  BY <1>1, SeenIsReached, SameGoal DEF SearchInv
<1>3. Range(todo) = {} /\ Range(queue) = {}
  BY <1>1, RangeOfEmpty
<1>4. Range(body) \subseteq seen
  BY <1>1, <1>3 DEF SearchInv, CompleteSearch
<1>5. \A d \in Range(helpers) : Range(UsesAt(d)) \subseteq seen
  BY <1>1, <1>3 DEF SearchInv, CompleteSearch, FoundInv
<1>6. lines = <<>>
  BY <1>1 DEF SearchInv, Origin
<1>7. LinePaths' = {}
  BY <1>1, <1>6 DEF LinePaths
<1>8. ASSUME NEW x \in Reached \cap Path
      PROVE  \/ /\ x \in Range(todo')
                /\ \E k \in DOMAIN package.imports :
                     at' <= k /\ package.imports[k].path = x /\ FirstOfPath(k)
             \/ \E d \in Range(queue') : x \in Range(UsesAt(d))
  <2>1. x \in ImportedPaths(package)
    BY <1>1, KnownKinds DEF Reached
  <2>2. x \in Range(body) \/ \E d \in Range(helpers) : x \in Range(UsesAt(d))
    BY <1>1, <1>2 DEF SearchInv, Origin
  <2> QED
    BY <1>1, <2>1, <2>2, FirstExists
<1> QED
  BY <1>1, <1>2, <1>4, <1>5, <1>6, <1>7, <1>8, SameGoal DEF ImportsInv

LEMMA NextSpecStep ==
  ASSUME ScanTypeOK, ImportsInv, NextSpec
  PROVE  ImportsInv'
<1>1. /\ stage = "imports" /\ stage' = "imports" /\ package' = package /\ body' = body
      /\ todo' = todo /\ queue' = queue /\ at' = at + 1 /\ at \in Nat
      /\ at \in DOMAIN package.imports /\ package \in Package
      /\ lines \in Seq(Range(package.imports))
      /\ lines' = IF IsUsed(at) /\ package.imports[at] \notin Range(lines)
                  THEN Append(lines, package.imports[at]) ELSE lines
  BY DEF NextSpec, ScanTypeOK
<1>2. package.imports[at].path \in Path
  BY <1>1, CheckedPackage DEF ImportSpec
<1>i. /\ LinePaths \subseteq Reached \cap Path
      /\ \A i \in DOMAIN lines :
           \E k \in DOMAIN package.imports : lines[i] = package.imports[k] /\ FirstOfPath(k)
      /\ \A i, j \in DOMAIN lines : lines[i].path = lines[j].path => i = j
      /\ Range(todo) \subseteq Reached
      /\ \A d \in Range(queue) : Range(UsesAt(d)) \subseteq Reached
      /\ \A x \in Reached \cap Path :
           \/ x \in LinePaths
           \/ /\ x \in Range(todo)
              /\ \E k \in DOMAIN package.imports :
                   at <= k /\ package.imports[k].path = x /\ FirstOfPath(k)
           \/ \E d \in Range(queue) : x \in Range(UsesAt(d))
  BY <1>1 DEF ImportsInv
<1>n. DOMAIN package.imports = 1 .. Len(package.imports) /\ Len(package.imports) \in Nat
  BY <1>1, CheckedPackage
\* Two specs that are the first of one path are one spec.
<1>f. ASSUME NEW k \in DOMAIN package.imports, NEW j \in DOMAIN package.imports,
             FirstOfPath(k), FirstOfPath(j), package.imports[k].path = package.imports[j].path
      PROVE  k = j
  <2>1. ~ (k < j) /\ ~ (j < k)
    BY <1>n, <1>f DEF FirstOfPath
  <2> QED
    BY <1>n, <2>1
<1>3. CASE IsUsed(at) /\ package.imports[at] \notin Range(lines)
  <2>1. lines' = Append(lines, package.imports[at]) /\ Len(lines) \in Nat
        /\ DOMAIN lines = 1 .. Len(lines)
    BY <1>1, <1>3
  <2>2. /\ DOMAIN lines' = 1 .. Len(lines) + 1
        /\ lines'[Len(lines) + 1] = package.imports[at]
        /\ \A i \in 1 .. Len(lines) : lines'[i] = lines[i]
    BY <1>1, <2>1
  <2>3. \A i \in DOMAIN lines' : i \in DOMAIN lines \/ i = Len(lines) + 1
    BY <2>1, <2>2
  <2>4. FirstOfPath(at) /\ package.imports[at].path \in Range(todo)
    BY <1>3 DEF IsUsed, FirstOfPath
  <2>5. LinePaths' = LinePaths \cup {package.imports[at].path}
    <3>1. \A i \in DOMAIN lines' :
            lines'[i].path \in LinePaths \cup {package.imports[at].path}
      BY <2>1, <2>2, <2>3 DEF LinePaths
    <3>2. \A i \in DOMAIN lines : lines[i].path \in LinePaths'
      <4>1. \A i \in 1 .. Len(lines) : i \in 1 .. Len(lines) + 1
        BY <2>1
      <4> QED
        BY <2>1, <2>2, <4>1 DEF LinePaths
    <3>3. package.imports[at].path \in LinePaths'
      <4>1. Len(lines) + 1 \in 1 .. Len(lines) + 1
        BY <2>1
      <4> QED
        BY <2>2, <4>1 DEF LinePaths
    <3> QED
      BY <3>1, <3>2, <3>3 DEF LinePaths
  <2>6. \A i \in DOMAIN lines' :
          \E k \in DOMAIN package.imports : lines'[i] = package.imports[k] /\ FirstOfPath(k)
    BY <1>1, <1>i, <2>1, <2>2, <2>3, <2>4
  <2>7. ASSUME NEW i \in DOMAIN lines PROVE lines[i].path # package.imports[at].path
    <3>1. PICK k \in DOMAIN package.imports : lines[i] = package.imports[k] /\ FirstOfPath(k)
      BY <1>i
    <3>2. lines[i] # package.imports[at]
      BY <1>3 DEF Range
    <3> QED
      BY <1>1, <1>f, <2>4, <3>1, <3>2
  <2>8. \A i, j \in DOMAIN lines' : lines'[i].path = lines'[j].path => i = j
    BY <1>i, <2>1, <2>2, <2>3, <2>7
  <2>9. ASSUME NEW k \in DOMAIN package.imports, at <= k
        PROVE  at + 1 <= k \/ package.imports[k].path \in LinePaths'
    BY <1>1, <1>n, <2>5, <2>9
  <2>10. ASSUME NEW x \in Reached \cap Path
         PROVE  \/ x \in LinePaths'
                \/ /\ x \in Range(todo)
                   /\ \E k \in DOMAIN package.imports :
                        at + 1 <= k /\ package.imports[k].path = x /\ FirstOfPath(k)
                \/ \E d \in Range(queue) : x \in Range(UsesAt(d))
    BY <1>i, <2>5, <2>9
  <2>11. LinePaths' \subseteq Reached \cap Path
    BY <1>2, <1>i, <2>4, <2>5
  <2> QED
    BY <1>1, <1>i, <2>6, <2>8, <2>10, <2>11, SameGoal DEF ImportsInv
<1>4. CASE ~ (IsUsed(at) /\ package.imports[at] \notin Range(lines))
  <2>1. lines' = lines /\ LinePaths' = LinePaths
    BY <1>1, <1>4 DEF LinePaths
  <2>2. ASSUME NEW k \in DOMAIN package.imports, at <= k, FirstOfPath(k),
               package.imports[k].path \in Range(todo)
        PROVE  at + 1 <= k \/ package.imports[k].path \in LinePaths
    <3>1. CASE k = at
      <4>1. IsUsed(at)
        BY <2>2, <3>1 DEF IsUsed, FirstOfPath
      <4>2. package.imports[at] \in Range(lines)
        BY <1>4, <4>1
      <4> QED
        BY <3>1, <4>2 DEF Range, LinePaths
    <3>2. CASE k # at
      BY <1>1, <1>n, <2>2, <3>2
    <3> QED
      BY <3>1, <3>2
  <2>3. ASSUME NEW x \in Reached \cap Path
        PROVE  \/ x \in LinePaths
               \/ /\ x \in Range(todo)
                  /\ \E k \in DOMAIN package.imports :
                       at + 1 <= k /\ package.imports[k].path = x /\ FirstOfPath(k)
               \/ \E d \in Range(queue) : x \in Range(UsesAt(d))
    BY <1>i, <2>2
  <2> QED
    BY <1>1, <1>i, <2>1, <2>3, SameGoal DEF ImportsInv
<1> QED
  BY <1>3, <1>4

LEMMA NextHelperStep ==
  ASSUME ScanTypeOK, ImportsInv, NextHelper \/ Finish
  PROVE  ImportsInv'
<1>1. /\ stage = "imports" /\ package' = package /\ body' = body /\ at \in Nat \ {0}
      /\ lines' = lines /\ at \notin DOMAIN package.imports /\ package \in Package
      /\ at <= Len(package.imports) + 1
  BY DEF NextHelper, Finish, found, ScanTypeOK
<1>2. DOMAIN package.imports = 1 .. Len(package.imports) /\ Len(package.imports) \in Nat
  BY <1>1, CheckedPackage
<1>3. ~ \E k \in DOMAIN package.imports : at <= k
  BY <1>1, <1>2
<1>4. \A x \in Reached \cap Path :
        x \in LinePaths \/ \E d \in Range(queue) : x \in Range(UsesAt(d))
  BY <1>1, <1>3 DEF ImportsInv
<1>5. LinePaths' = LinePaths
  BY <1>1 DEF LinePaths
<1>6. CASE NextHelper
  <2> DEFINE d == Head(queue)
  <2>1. /\ stage' = "imports" /\ queue # <<>> /\ at' = 1
        /\ todo' = UsesAt(d) /\ queue' = Tail(queue)
    BY <1>6 DEF NextHelper
  <2> HIDE DEF d
  <2>2. Range(queue) = {d} \cup Range(queue')
    BY <2>1, HeadOfQueue DEF d
  <2>3. ASSUME NEW x \in Reached \cap Path
        PROVE  \/ x \in LinePaths
               \/ /\ x \in Range(todo')
                  /\ \E k \in DOMAIN package.imports :
                       at' <= k /\ package.imports[k].path = x /\ FirstOfPath(k)
               \/ \E e \in Range(queue') : x \in Range(UsesAt(e))
    <3>1. x \in ImportedPaths(package)
      BY <1>1, KnownKinds DEF Reached
    <3> QED
      BY <1>1, <1>4, <2>1, <2>2, <3>1, FirstExists
  <2>4. Range(todo') \subseteq Reached /\ \A e \in Range(queue') : Range(UsesAt(e)) \subseteq Reached
    BY <1>1, <2>1, <2>2 DEF ImportsInv
  <2> QED
    BY <1>1, <1>5, <2>1, <2>3, <2>4, SameGoal DEF ImportsInv
<1>7. CASE Finish
  <2>1. stage' = "page" /\ Range(queue) = {}
    BY <1>7, RangeOfEmpty DEF Finish
  <2> QED
    BY <1>1, <1>4, <1>5, <2>1, SameGoal DEF ImportsInv
<1> QED
  BY <1>6, <1>7

LEMMA ImportsStep ==
  ScanTypeOK /\ SearchInv /\ ImportsInv /\ [ScanNext]_scanVars => ImportsInv'
<1> SUFFICES ASSUME ScanTypeOK, SearchInv, ImportsInv, [ScanNext]_scanVars PROVE ImportsInv'
  OBVIOUS
<1>1. CASE NextLiteral \/ FindBody \/ RejectState \/ NoPage \/ SkipSeen \/ InspectNext
  BY <1>1 DEF NextLiteral, FindBody, RejectState, NoPage, SkipSeen, InspectNext, ImportsInv
<1>2. ASSUME NEW x \in Object \cup Path, VisitPackage(x) \/ VisitDecl(x) \/ RejectVar(x)
      PROVE  ImportsInv'
  BY <1>2 DEF VisitPackage, VisitDecl, RejectVar, Visit, ImportsInv
<1>3. CASE EndSearch
  BY <1>3, ImportsBegin
<1>4. CASE NextSpec
  BY <1>4, NextSpecStep
<1>5. CASE NextHelper \/ Finish
  BY <1>5, NextHelperStep
<1>6. CASE UNCHANGED scanVars
  <2>1. /\ package' = package /\ body' = body /\ stage' = stage /\ at' = at /\ todo' = todo
        /\ queue' = queue /\ lines' = lines
    BY <1>6 DEF scanVars
  <2>2. LinePaths' = LinePaths
    BY <2>1 DEF LinePaths
  <2> QED
    BY <2>1, <2>2, SameGoal DEF ImportsInv
<1> QED
  BY <1>1, <1>2, <1>3, <1>4, <1>5, <1>6 DEF ScanNext

\* For any package, in whichever of its files a path is imported and under
\* whichever names: the main has one line for each package its body and its
\* helpers use, and no other line.
LEMMA ScanImportsFit == ScanSpec => []ImportsFit
<1>1. ScanInit => ImportsInv
  BY DEF ScanInit, ImportsInv
<1>2. ImportsInv => ImportsFit
  BY DEF ImportsInv, ImportsFit, LinePaths
<1> QED
  BY <1>1, <1>2, ScanInitSearch, ScanTypeCorrect, SearchStep, ImportsStep, PTL DEF ScanSpec

\* For any package the main of a page is made of the declarations and the imports
\* that its ClientSideState body reaches.
THEOREM ScanFindsWhatIsReached == ScanSpec => []KeepsWhatIsReached
<1>1. HelpersFit /\ ImportsFit => KeepsWhatIsReached
  BY DEF KeepsWhatIsReached
<1> QED
  BY <1>1, ScanHelpersFit, ScanImportsFit, PTL

-----------------------------------------------------------------------------
(* The declarations of a topic source, and what is left of them.           *)

LEMMA FunctionIn ==
  ASSUME NEW T, NEW n \in Nat, NEW s \in [1 .. n -> T]
  PROVE  s \in Seq(T)
  OBVIOUS

LEMMA FreshFits ==
  ASSUME NEW c \in Creation, NEW T
  PROVE  /\ Fresh(c, T) \in Creation
         /\ Fresh(c, T).var = IF c.var \in T THEN Blank ELSE c.var
         /\ Fresh(c, T).of = c.of /\ Fresh(c, T).key = c.key
         /\ Fresh(c, T).subscriber = c.subscriber /\ Fresh(c, T).component = c.component
  BY DEF Fresh, Creation

LEMMA WithoutFits ==
  ASSUME NEW x \in Source, NEW T
  PROVE  /\ Without(T, x) \in Source /\ Without(T, x).structs = x.structs
         /\ DOMAIN Without(T, x).creates = DOMAIN x.creates
         /\ \A j \in DOMAIN x.creates :
              /\ Without(T, x).creates[j] = Fresh(x.creates[j], T)
              /\ x.creates[j] \in Creation
<1>1. x.creates \in Seq(Creation) /\ x.structs \in SUBSET Name
  BY DEF Source
<1>2. \A j \in DOMAIN x.creates : x.creates[j] \in Creation
  BY <1>1, ElementIn
<1> DEFINE cs == [j \in DOMAIN x.creates |-> Fresh(x.creates[j], T)]
<1>3. \A j \in DOMAIN x.creates : cs[j] \in Creation
  BY <1>2, FreshFits
<1>4. DOMAIN x.creates = 1 .. Len(x.creates) /\ Len(x.creates) \in Nat
  BY <1>1
<1>5. cs \in Seq(Creation)
  <2>1. cs \in [1 .. Len(x.creates) -> Creation]
    BY <1>3, <1>4
  <2> HIDE DEF cs
  <2> QED
    BY <1>4, <2>1, FunctionIn
<1>6. Without(T, x).structs = x.structs /\ Without(T, x).creates = cs
  BY DEF Without, Source
<1>7. Without(T, x) = [structs |-> x.structs, creates |-> cs]
  BY DEF Without, Source
<1> HIDE DEF cs
<1>8. Without(T, x) \in Source
  BY <1>1, <1>5, <1>7 DEF Source
<1> QED
  BY <1>2, <1>6, <1>8 DEF cs

\* Two sources that agree on their structs and on each declaration are the same.
LEMMA SameSource ==
  ASSUME NEW x \in Source, NEW y \in Source, x.structs = y.structs,
         DOMAIN x.creates = DOMAIN y.creates,
         \A j \in DOMAIN x.creates : x.creates[j] = y.creates[j]
  PROVE  x = y
<1>1. x.creates \in Seq(Creation) /\ y.creates \in Seq(Creation)
  BY DEF Source
<1>2. x.creates = y.creates
  BY <1>1
<1> QED
  BY <1>2 DEF Source

LEMMA WithoutAgain ==
  ASSUME NEW x \in Source, NEW T,
         \A j \in DOMAIN x.creates : x.creates[j].var \in T => x.creates[j].var = Blank
  PROVE  Without(T, x) = x
<1>1. ASSUME NEW j \in DOMAIN x.creates PROVE Fresh(x.creates[j], T) = x.creates[j]
  <2>1. x.creates[j] \in Creation
    BY WithoutFits
  <2> QED
    BY <2>1 DEF Fresh, Creation
<1> QED
  BY <1>1, WithoutFits, SameSource

LEMMA WithoutSame ==
  ASSUME NEW x \in Source, NEW T, NEW U,
         \A j \in DOMAIN x.creates :
           x.creates[j].var = Blank \/ (x.creates[j].var \in T <=> x.creates[j].var \in U)
  PROVE  Without(T, x) = Without(U, x)
<1>1. ASSUME NEW j \in DOMAIN x.creates
      PROVE  Fresh(x.creates[j], T) = Fresh(x.creates[j], U)
  <2>1. x.creates[j] \in Creation
    BY WithoutFits
  <2> QED
    BY <2>1 DEF Fresh, Creation
<1> QED
  BY <1>1, WithoutFits, SameSource

LEMMA MaxIn ==
  ASSUME NEW n \in Nat, NEW S \in SUBSET (1 .. n), S # {}
  PROVE  Max(S) \in S
<1> DEFINE T == {d \in 0 .. n : n - d \in S}
<1>1. \A j \in S : n - j \in T /\ j \in 1 .. n
  OBVIOUS
<1>2. T \subseteq Nat /\ T # {}
  <2>1. T \subseteq Nat
    OBVIOUS
  <2> HIDE DEF T
  <2> QED
    BY <1>1, <2>1
<1>3. PICK d \in T : \A k \in T : ~ (k < d)
  BY <1>2, LeastOf
<1>4. n - d \in S /\ d \in 0 .. n
  OBVIOUS
<1>5. \A k \in S : ~ (n - k < d)
  BY <1>1, <1>3
<1> HIDE DEF T
<1>6. \A k \in S : n - d >= k
  BY <1>1, <1>4, <1>5
<1> QED
  BY <1>4, <1>6 DEF Max

\* The declaration that counts for a struct is one of its file.
LEMMA MetaIn ==
  ASSUME NEW x \in Source, NEW s, Declared(x, s) # {}
  PROVE  /\ Max(Declared(x, s)) \in DOMAIN x.creates
         /\ Meta(x, s).of = s /\ Meta(x, s) \in Creation
         /\ Meta(x, s) = x.creates[Max(Declared(x, s))]
<1>1. x.creates \in Seq(Creation)
  BY DEF Source
<1>2. DOMAIN x.creates = 1 .. Len(x.creates) /\ Len(x.creates) \in Nat
  BY <1>1
<1>3. Declared(x, s) \in SUBSET (1 .. Len(x.creates))
  BY <1>2 DEF Declared
<1>4. Max(Declared(x, s)) \in Declared(x, s)
  BY <1>2, <1>3, MaxIn
<1> QED
  BY <1>1, <1>4, ElementIn DEF Declared, Meta

\* What is left of a source has the same structs and keys; where an accessor has
\* changed it was a variable that was taken away, and none has taken its place.
LEMMA StructOfWithout ==
  ASSUME NEW x \in Source, NEW s, NEW T
  PROVE  LET p == StructOf(x, s)
             q == StructOf(Without(T, x), s)
         IN  /\ q.key = p.key /\ q.component = p.component
             /\ \/ q.accessor = p.accessor
                \/ /\ q.accessor = NoName /\ Declared(x, s) # {}
                   /\ Meta(x, s).subscriber = NoName /\ p.accessor = Meta(x, s).var
                   /\ Meta(x, s).var # Blank /\ Meta(x, s).var \in T
<1>1. Declared(Without(T, x), s) = Declared(x, s)
  BY WithoutFits, FreshFits DEF Declared
<1>2. CASE Declared(x, s) = {}
  BY <1>1, <1>2 DEF StructOf
<1>3. CASE Declared(x, s) # {}
  <2> DEFINE c == Meta(x, s)
             d == Meta(Without(T, x), s)
  <2>1. c \in Creation /\ d = Fresh(c, T)
    BY <1>1, <1>3, MetaIn, WithoutFits DEF Meta
  <2>2. /\ d.key = c.key /\ d.component = c.component /\ d.subscriber = c.subscriber
        /\ d.var = IF c.var \in T THEN Blank ELSE c.var
    BY <2>1, FreshFits
  <2>3. StructOf(x, s) = [key |-> c.key, accessor |-> NameOf(c), component |-> c.component]
    BY <1>3 DEF StructOf
  <2>4. StructOf(Without(T, x), s) =
          [key |-> d.key, accessor |-> NameOf(d), component |-> d.component]
    BY <1>1, <1>3 DEF StructOf
  <2> HIDE DEF c, d
  <2>5. \/ NameOf(d) = NameOf(c)
        \/ /\ NameOf(d) = NoName /\ c.subscriber = NoName /\ NameOf(c) = c.var
           /\ c.var # Blank /\ c.var \in T
    BY <2>2 DEF NameOf
  <2> QED
    BY <1>3, <2>2, <2>3, <2>4, <2>5 DEF c, d
<1> QED
  BY <1>2, <1>3

-----------------------------------------------------------------------------
(* Between the author's sources and what is left of them when every name   *)
(* is taken away there are those of a pass that was stopped half way.      *)

Half(s) == \A f \in DOMAIN s : s[f] \in {author[f], Rewritten(author)[f]}

LEMMA AuthorFits ==
  ASSUME author \in Author
  PROVE  /\ author \in [TopicFile -> Source] /\ Once(OfAuthor(author))
         /\ DOMAIN Rewritten(author) = TopicFile
         /\ \A f \in TopicFile :
              /\ Rewritten(author)[f] = Without(Taken(author), author[f])
              /\ author[f] \in Source /\ Rewritten(author)[f] \in Source
<1>1. author \in [TopicFile -> Source] /\ Once(OfAuthor(author))
  BY TopicGenAssumption
<1>2. DOMAIN Rewritten(author) = TopicFile
      /\ \A f \in TopicFile : Rewritten(author)[f] = Without(Taken(author), author[f])
  BY <1>1 DEF Rewritten
<1> QED
  BY <1>1, <1>2, WithoutFits

LEMMA HalfFits ==
  ASSUME author \in Author, NEW s, DOMAIN s = TopicFile, Half(s)
  PROVE  /\ \A f \in TopicFile :
              /\ s[f] \in Source /\ s[f].structs = author[f].structs
              /\ s[f] = author[f] \/ s[f] = Without(Taken(author), author[f])
         /\ Structs(s) = Structs(author) /\ Topics(s) = Topics(author)
         /\ \A t \in Structs(author) :
              /\ t \in [file : TopicFile, name : Name]
              /\ Info(s, t) = Info(author, t) \/ Info(s, t) = Info(Rewritten(author), t)
<1>1. ASSUME NEW f \in TopicFile
      PROVE  /\ s[f] \in Source /\ s[f].structs = author[f].structs
             /\ s[f] = author[f] \/ s[f] = Without(Taken(author), author[f])
  <2>1. author[f] \in Source /\ (s[f] = author[f] \/ s[f] = Rewritten(author)[f])
    BY AuthorFits DEF Half
  <2> QED
    BY <2>1, AuthorFits, WithoutFits
<1>2. UNION {s[f].structs : f \in DOMAIN s} = UNION {author[f].structs : f \in DOMAIN author}
  <2>1. DOMAIN author = TopicFile
    BY AuthorFits
  <2> QED
    BY <1>1, <2>1
<1>3. Structs(s) = Structs(author)
  <2>1. DOMAIN author = TopicFile
    BY AuthorFits
  <2> QED
    BY <1>1, <1>2, <2>1 DEF Structs
<1>4. ASSUME NEW t \in Structs(author)
      PROVE  /\ t \in [file : TopicFile, name : Name]
             /\ Info(s, t) = Info(author, t) \/ Info(s, t) = Info(Rewritten(author), t)
             /\ Info(s, t).key = Info(author, t).key
  <2>1. DOMAIN author = TopicFile /\ \A f \in TopicFile : author[f].structs \in SUBSET Name
    BY AuthorFits DEF Source
  <2>2. t.file \in TopicFile /\ t \in [file : TopicFile, name : Name]
    BY <2>1 DEF Structs
  <2>3. s[t.file] = author[t.file] \/ s[t.file] = Rewritten(author)[t.file]
    BY <2>2 DEF Half
  <2>4. Info(s, t) = Info(author, t) \/ Info(s, t) = Info(Rewritten(author), t)
    BY <2>3 DEF Info
  <2>5. Info(Rewritten(author), t).key = Info(author, t).key
    BY <2>2, AuthorFits, StructOfWithout DEF Info
  <2> QED
    BY <2>2, <2>4, <2>5
<1>5. Topics(s) = Topics(author)
  BY <1>3, <1>4 DEF Topics
<1> QED
  BY <1>1, <1>3, <1>4, <1>5

\* A pass over half rewritten sources takes no other names than the first one.
LEMMA TakenHalf ==
  ASSUME author \in Author, NEW s, DOMAIN s = TopicFile, Half(s)
  PROVE  Taken(s) \subseteq Taken(author)
<1> SUFFICES ASSUME NEW t \in Structs(s), Info(s, t).accessor # NoName
             PROVE  Info(s, t).accessor = Info(author, t).accessor /\ t \in Structs(author)
  BY DEF Taken
<1>1. t \in Structs(author) /\ t.file \in TopicFile
  BY HalfFits
<1>2. s[t.file] = author[t.file] \/ s[t.file] = Without(Taken(author), author[t.file])
  BY <1>1, HalfFits
<1>3. author[t.file] \in Source
  BY <1>1, AuthorFits
<1> QED
  BY <1>1, <1>2, <1>3, StructOfWithout DEF Info

\* No variable that is left has a name that was taken.
LEMMA NothingLeft ==
  ASSUME author \in Author, NEW f \in TopicFile, NEW j \in DOMAIN Rewritten(author)[f].creates
  PROVE  LET v == Rewritten(author)[f].creates[j].var
         IN  /\ j \in DOMAIN author[f].creates
             /\ v = Blank \/ (v = author[f].creates[j].var /\ v \notin Taken(author))
<1>1. author[f] \in Source /\ Rewritten(author)[f] = Without(Taken(author), author[f])
  BY AuthorFits
<1>2. j \in DOMAIN author[f].creates
      /\ Rewritten(author)[f].creates[j] = Fresh(author[f].creates[j], Taken(author))
      /\ author[f].creates[j] \in Creation
  BY <1>1, WithoutFits
<1> QED
  BY <1>2, FreshFits

\* The declarations of an author have names of their own.
LEMMA OneVariable ==
  ASSUME author \in Author, NEW f \in TopicFile, NEW g \in TopicFile,
         NEW i \in DOMAIN author[f].creates, NEW j \in DOMAIN author[g].creates,
         author[f].creates[i].var = author[g].creates[j].var,
         author[f].creates[i].var # Blank
  PROVE  f = g
<1> DEFINE D(h, k) == [kind |-> "var", of |-> [file |-> h, at |-> k],
                       name |-> author[h].creates[k].var]
<1>1. DOMAIN author = TopicFile /\ Once(OfAuthor(author))
  BY AuthorFits
<1>2. ASSUME NEW h \in TopicFile, NEW k \in DOMAIN author[h].creates,
             author[h].creates[k].var # Blank
      PROVE  D(h, k) \in OfAuthor(author)
  <2> DEFINE js(e) == {l \in DOMAIN author[e].creates : author[e].creates[l].var # Blank}
             V(e) == {D(e, l) : l \in js(e)}
  <2>1. k \in js(h)
    BY <1>2
  <2>2. D(h, k) \in V(h)
    BY <2>1
  <2>3. V(h) \in {V(e) : e \in DOMAIN author}
    BY <1>1
  <2> HIDE DEF D
  <2>4. D(h, k) \in UNION {V(e) : e \in DOMAIN author}
    BY <2>2, <2>3
  <2> QED
    BY <2>4 DEF OfAuthor, D
<1>3. D(f, i) = D(g, j)
  <2>1. D(f, i) \in OfAuthor(author) /\ D(g, j) \in OfAuthor(author)
    BY <1>2
  <2>2. D(f, i).name = D(g, j).name
    OBVIOUS
  <2> QED
    BY <1>1, <2>1, <2>2 DEF Once
<1> QED
  BY <1>3

\* Whatever a pass that was stopped has left: the one that reads it takes away
\* what is still there, and nothing else.
LEMMA RewriteFits ==
  ASSUME author \in Author, NEW s, DOMAIN s = TopicFile, Half(s), NEW f \in TopicFile,
         NEW x \in {author[f], Rewritten(author)[f]},
         s[f] = Rewritten(author)[f] => x = Rewritten(author)[f]
  PROVE  Without(Taken(s), x) = Rewritten(author)[f]
<1>1. author[f] \in Source /\ Rewritten(author)[f] = Without(Taken(author), author[f])
      /\ Rewritten(author)[f] \in Source
  BY AuthorFits
<1>2. CASE x = Rewritten(author)[f]
  <2>1. ASSUME NEW j \in DOMAIN x.creates, x.creates[j].var \in Taken(s)
        PROVE  x.creates[j].var = Blank
    BY <1>2, <2>1, TakenHalf, NothingLeft
  <2> QED
    BY <1>1, <1>2, <2>1, WithoutAgain
<1>3. CASE x # Rewritten(author)[f]
  <2>1. x = author[f] /\ s[f] = author[f] /\ s[f] # Rewritten(author)[f]
    BY <1>3 DEF Half
  <2>2. ASSUME NEW j \in DOMAIN x.creates, x.creates[j].var # Blank,
               x.creates[j].var \in Taken(author)
        PROVE  x.creates[j].var \in Taken(s)
    <3>1. PICK t \in Structs(author) :
            Info(author, t).accessor = x.creates[j].var /\ Info(author, t).accessor # NoName
      BY <2>2 DEF Taken
    <3>2. t \in Structs(s) /\ t.file \in TopicFile
      BY HalfFits
    <3>3. author[t.file] \in Source
      BY <3>2, AuthorFits
    <3>4. CASE Info(s, t).accessor = Info(author, t).accessor
      BY <3>1, <3>2, <3>4 DEF Taken
    <3>5. CASE Info(s, t).accessor # Info(author, t).accessor
      <4>1. s[t.file] = Without(Taken(author), author[t.file])
        BY <3>2, <3>5, HalfFits DEF Info
      <4>2. /\ Declared(author[t.file], t.name) # {}
            /\ Info(author, t).accessor = Meta(author[t.file], t.name).var
        BY <3>3, <3>5, <4>1, StructOfWithout DEF Info
      <4> DEFINE m == Max(Declared(author[t.file], t.name))
      <4>3. m \in DOMAIN author[t.file].creates
            /\ Meta(author[t.file], t.name) = author[t.file].creates[m]
        BY <3>3, <4>2, MetaIn
      <4>4. author[t.file].creates[m].var = author[f].creates[j].var
            /\ author[f].creates[j].var # Blank /\ j \in DOMAIN author[f].creates
        BY <2>1, <2>2, <3>1, <4>2, <4>3
      <4> HIDE DEF m
      <4>5. t.file = f
        BY <3>2, <4>3, <4>4, OneVariable
      <4> QED
        BY <1>1, <2>1, <4>1, <4>5
    <3> QED
      BY <3>4, <3>5
  <2>3. Taken(s) \subseteq Taken(author)
    BY TakenHalf
  <2> QED
    BY <1>1, <2>1, <2>2, <2>3, WithoutSame
<1> QED
  BY <1>2, <1>3

-----------------------------------------------------------------------------
(* The passes of a command, and those of the commands before it.           *)

Later == Passes \ {"stubs"}
Clean(s) == \A f \in DOMAIN s : s[f] = Rewritten(author)[f]
Mixed(T) == [f \in TopicFile |-> IF f \in T THEN Rewritten(author)[f] ELSE author[f]]

\* The files are the author's, with some names taken away or all of them; what a
\* pass has read is no further than what is there.
SourcesInv ==
  /\ Half(sources)
  /\ \A w \in Passes : Half(snapshot[w])
  /\ \A w \in Passes : \A f \in DOMAIN snapshot[w] :
       snapshot[w][f] = Rewritten(author)[f] => sources[f] = Rewritten(author)[f]
  /\ \A w \in Passes : \A f \in TopicFile :
       phase[w] = "rewriting" /\ f \notin left[w] => sources[f] = Rewritten(author)[f]

\* Once the first pass is done nothing is left to take away, and only then do
\* the other passes begin.
PassesInv ==
  /\ phase["stubs"] = "done" => Clean(sources)
  /\ \A w \in Later : phase[w] # "waiting" => phase["stubs"] = "done" /\ Clean(snapshot[w])

\* topic_gen.go was generated from such sources.
GenInv ==
  phase["stubs"] \in {"rewriting", "done"} => \E T \in SUBSET TopicFile : genFile = GenFile(Mixed(T))

TopicInv == SourcesInv /\ PassesInv /\ GenInv

LEMMA TopicInitInv == TopicInit => TopicTypeOK /\ TopicInv
<1> SUFFICES ASSUME TopicInit PROVE TopicTypeOK /\ TopicInv
  OBVIOUS
<1>1. author \in Author /\ author \in [TopicFile -> Source] /\ sources = author
  BY AuthorFits DEF TopicInit
<1>2. \A w \in Passes : /\ phase[w] = "waiting" /\ snapshot[w] = Nothing
                        /\ DOMAIN snapshot[w] = {} /\ HasRead(w) = {}
  BY DEF TopicInit, Nothing, HasRead
<1>3. Nothing \in [{} -> Source]
  BY DEF Nothing
<1>4. TopicTypeOK
  BY <1>1, <1>2, <1>3 DEF TopicInit, TopicTypeOK, NoFile, Nothing
<1>5. Half(sources) /\ \A w \in Passes : Half(snapshot[w])
  BY <1>1, <1>2 DEF Half
<1>6. SourcesInv
  BY <1>2, <1>5 DEF SourcesInv
<1>7. "stubs" \in Passes
  BY DEF Passes
<1>8. PassesInv /\ GenInv
  BY <1>2, <1>7 DEF PassesInv, GenInv, Later
<1> QED
  BY <1>4, <1>6, <1>8 DEF TopicInv

\* The topics of a file that was generated are structs of the sources.
LEMMA GenFileFits ==
  ASSUME NEW s \in [TopicFile -> Source]
  PROVE  /\ GenFile(s).exists \in BOOLEAN
         /\ DOMAIN GenFile(s).topics \subseteq [file : TopicFile, name : Name]
         /\ DOMAIN GenFile(s).topics \subseteq Topics(s)
         /\ \A t \in DOMAIN GenFile(s).topics : GenFile(s).topics[t] = Generated(s, t)
<1>1. Structs(s) \subseteq [file : TopicFile, name : Name]
  <2>1. \A f \in TopicFile : s[f].structs \in SUBSET Name
    BY DEF Source
  <2> QED
    BY <2>1 DEF Structs
<1>2. Topics(s) \subseteq [file : TopicFile, name : Name]
  BY <1>1 DEF Topics
<1> QED
  BY <1>2 DEF GenFile, NoFile, Nothing

LEMMA TopicNextType ==
  ASSUME TopicTypeOK, [TopicNext]_topicVars
  PROVE  TopicTypeOK'
<1>1. ASSUME NEW w \in Passes, Begin(w) PROVE TopicTypeOK'
  <2>1. \A v \in Passes : HasRead(v)' = HasRead(v)
    BY <1>1 DEF Begin, HasRead, TopicTypeOK
  <2> QED
    BY <1>1, <2>1 DEF Begin, TopicTypeOK
<1>2. ASSUME NEW w \in Passes, NEW f \in TopicFile, ReadFile(w, f) PROVE TopicTypeOK'
  <2>1. /\ phase[w] = "reading" /\ f \in left[w] /\ sources[f] \in Source
        /\ left[w] \subseteq TopicFile /\ DOMAIN snapshot = Passes
        /\ snapshot[w] \in [TopicFile \ left[w] -> Source]
    BY <1>2 DEF ReadFile, TopicTypeOK, HasRead
  <2>2. /\ left'[w] = left[w] \ {f} /\ phase' = phase
        /\ snapshot'[w] = [g \in DOMAIN snapshot[w] \cup {f} |->
                             IF g = f THEN sources[f] ELSE snapshot[w][g]]
        /\ DOMAIN snapshot' = Passes
    BY <1>2, <2>1 DEF ReadFile, TopicTypeOK
  <2>3. snapshot'[w] \in [TopicFile \ left'[w] -> Source]
    <3>1. (TopicFile \ left[w]) \cup {f} = TopicFile \ left'[w]
      BY <2>1, <2>2
    <3> QED
      BY <2>1, <2>2, <3>1
  <2>4. HasRead(w)' = TopicFile \ left'[w]
    BY <2>1, <2>2 DEF HasRead
  <2>5. \A v \in Passes \ {w} : HasRead(v)' = HasRead(v) /\ snapshot'[v] = snapshot[v]
    BY <1>2 DEF ReadFile, HasRead, TopicTypeOK
  <2>6. \A v \in Passes : snapshot'[v] \in [HasRead(v)' -> Source]
    BY <2>3, <2>4, <2>5 DEF TopicTypeOK
  <2> QED
    BY <1>2, <2>2, <2>6 DEF ReadFile, TopicTypeOK
<1>3. ASSUME NEW w \in Passes, RejectKeys(w) PROVE TopicTypeOK'
  <2>1. \A v \in Passes : HasRead(v)' = HasRead(v)
    BY <1>3 DEF RejectKeys, HasRead, TopicTypeOK
  <2> QED
    BY <1>3, <2>1 DEF RejectKeys, TopicTypeOK
<1>4. ASSUME NEW w \in Passes, WriteStubs(w) PROVE TopicTypeOK'
  <2>1. \A v \in Passes : HasRead(v)' = HasRead(v)
    BY <1>4 DEF WriteStubs, HasRead, TopicTypeOK
  <2>2. snapshot[w] \in [TopicFile -> Source]
    BY <1>4 DEF WriteStubs, TopicTypeOK, HasRead
  <2> QED
    BY <1>4, <2>1, <2>2, GenFileFits DEF WriteStubs, TopicTypeOK
<1>5. ASSUME NEW w \in Passes, NEW f \in TopicFile, Rewrite(w, f) PROVE TopicTypeOK'
  <2>1. \A v \in Passes : HasRead(v)' = HasRead(v)
    BY <1>5 DEF Rewrite, HasRead, TopicTypeOK
  <2>2. Without(Taken(snapshot[w]), sources[f]) \in Source
    BY WithoutFits DEF TopicTypeOK
  <2>3. sources' \in [TopicFile -> Source]
    BY <1>5, <2>2 DEF Rewrite, TopicTypeOK
  <2> QED
    BY <1>5, <2>1, <2>3 DEF Rewrite, TopicTypeOK
<1>6. ASSUME NEW w \in Passes, EndPass(w) PROVE TopicTypeOK'
  <2>1. \A v \in Passes : HasRead(v)' = HasRead(v)
    BY <1>6 DEF EndPass, HasRead, TopicTypeOK
  <2> QED
    BY <1>6, <2>1 DEF EndPass, TopicTypeOK
<1>7. CASE NextCommand
  <2>1. \A v \in Passes : HasRead(v)' = {} /\ snapshot'[v] \in [{} -> Source]
    BY <1>7 DEF NextCommand, HasRead, Nothing
  <2> QED
    BY <1>7, <2>1 DEF NextCommand, TopicTypeOK
<1>8. CASE Edit
  <2>1. \A v \in Passes : HasRead(v)' = HasRead(v)
    BY <1>8 DEF Edit, HasRead
  <2> QED
    BY <1>8, <2>1, TopicGenAssumption DEF Edit, TopicTypeOK
<1>9. CASE UNCHANGED topicVars
  <2>1. \A v \in Passes : HasRead(v)' = HasRead(v)
    BY <1>9 DEF topicVars, HasRead
  <2> QED
    BY <1>9, <2>1 DEF topicVars, TopicTypeOK
<1> QED
  BY <1>1, <1>2, <1>3, <1>4, <1>5, <1>6, <1>7, <1>8, <1>9 DEF TopicNext

\* Whatever is killed in the middle of a rewriting: what a pass has read are
\* files of Go declarations, and what is generated is for structs of them.
THEOREM TopicTypeCorrect == TopicSpec => []TopicTypeOK
<1>1. TopicInit => TopicTypeOK
  BY TopicInitInv
<1>2. TopicTypeOK /\ [TopicNext]_topicVars => TopicTypeOK'
  BY TopicNextType
<1> QED
  BY <1>1, <1>2, PTL DEF TopicSpec

-----------------------------------------------------------------------------

LEMMA StubsIsPass == "stubs" \in Passes /\ "managers" \in Passes /\ "managers" \in Later
  BY DEF Passes, Later

\* A pass that begins after the first one begins when that one is done.
LEMMA BeginsAfterStubs ==
  ASSUME PassesInv, NEW w \in Later, MayBegin(w)
  PROVE  phase["stubs"] = "done"
<1>1. phase["stubs"] = "done" \/ phase["managers"] = "done"
  BY DEF MayBegin, Later
<1> QED
  BY <1>1, StubsIsPass DEF PassesInv

LEMMA BeginInv ==
  ASSUME TopicTypeOK, TopicInv, NEW w \in Passes, Begin(w)
  PROVE  TopicInv'
<1>1. /\ author' = author /\ sources' = sources /\ genFile' = genFile /\ snapshot' = snapshot
      /\ phase[w] = "waiting" /\ phase'[w] = "reading" /\ left'[w] = TopicFile
      /\ \A v \in Passes \ {w} : phase'[v] = phase[v] /\ left'[v] = left[v]
      /\ MayBegin(w)
  BY DEF Begin, TopicTypeOK
<1>2. DOMAIN snapshot[w] = {}
  BY <1>1 DEF TopicTypeOK, HasRead
<1>3. SourcesInv'
  BY <1>1 DEF TopicInv, SourcesInv, Half
<1>4. PassesInv'
  <2>1. phase'["stubs"] = "done" => Clean(sources)'
    BY <1>1, StubsIsPass DEF TopicInv, PassesInv, Clean
  <2>2. ASSUME NEW v \in Later, phase'[v] # "waiting"
        PROVE  phase'["stubs"] = "done" /\ Clean(snapshot[v])'
    <3>1. CASE v = w
      <4>1. phase["stubs"] = "done" /\ w # "stubs"
        BY <1>1, <3>1, BeginsAfterStubs DEF TopicInv, Later
      <4> QED
        BY <1>1, <1>2, <3>1, <4>1, StubsIsPass DEF Clean
    <3>2. CASE v # w
      <4>1. phase["stubs"] = "done" /\ Clean(snapshot[v]) /\ w # "stubs"
        BY <1>1, <2>2, <3>2 DEF TopicInv, PassesInv, Later
      <4> QED
        BY <1>1, <4>1, StubsIsPass DEF Clean
    <3> QED
      BY <3>1, <3>2
  <2> QED
    BY <2>1, <2>2 DEF PassesInv
<1>5. GenInv'
  <2>1. phase'["stubs"] \in {"rewriting", "done"} => phase["stubs"] \in {"rewriting", "done"}
    BY <1>1, StubsIsPass
  <2> QED
    BY <1>1, <2>1 DEF TopicInv, GenInv, Mixed
<1> QED
  BY <1>3, <1>4, <1>5 DEF TopicInv

LEMMA ReadFileInv ==
  ASSUME TopicTypeOK, TopicInv, NEW w \in Passes, NEW f \in TopicFile, ReadFile(w, f)
  PROVE  TopicInv'
<1>1. /\ author' = author /\ sources' = sources /\ genFile' = genFile /\ phase' = phase
      /\ phase[w] = "reading" /\ left'[w] = left[w] \ {f}
      /\ snapshot'[w] = [g \in DOMAIN snapshot[w] \cup {f} |->
                           IF g = f THEN sources[f] ELSE snapshot[w][g]]
      /\ \A v \in Passes \ {w} : snapshot'[v] = snapshot[v] /\ left'[v] = left[v]
      /\ DOMAIN sources = TopicFile
  BY DEF ReadFile, TopicTypeOK
<1>2. \A g \in DOMAIN snapshot'[w] :
        (g = f /\ snapshot'[w][g] = sources[f])
          \/ (g \in DOMAIN snapshot[w] /\ snapshot'[w][g] = snapshot[w][g])
  BY <1>1
<1>3. SourcesInv'
  <2>1. Half(sources)' /\ \A v \in Passes : Half(snapshot[v])'
    BY <1>1, <1>2 DEF TopicInv, SourcesInv, Half
  <2>2. \A v \in Passes : \A g \in DOMAIN snapshot'[v] :
          snapshot'[v][g] = Rewritten(author)[g] => sources[g] = Rewritten(author)[g]
    BY <1>1, <1>2 DEF TopicInv, SourcesInv
  <2>3. \A v \in Passes : \A g \in TopicFile :
          phase[v] = "rewriting" /\ g \notin left'[v] => sources[g] = Rewritten(author)[g]
    BY <1>1 DEF TopicInv, SourcesInv
  <2> QED
    BY <1>1, <2>1, <2>2, <2>3 DEF SourcesInv
<1>4. PassesInv'
  <2>1. phase["stubs"] = "done" => Clean(sources)
    BY DEF TopicInv, PassesInv
  <2>2. ASSUME NEW v \in Later, phase[v] # "waiting"
        PROVE  phase["stubs"] = "done" /\ Clean(snapshot[v])'
    <3>1. phase["stubs"] = "done" /\ Clean(snapshot[v])
      BY <2>2 DEF TopicInv, PassesInv
    <3> QED
      BY <1>1, <1>2, <2>1, <3>1 DEF Clean, Later
  <2> QED
    BY <1>1, <2>1, <2>2 DEF PassesInv, Clean
<1>5. GenInv'
  BY <1>1 DEF TopicInv, GenInv, Mixed
<1> QED
  BY <1>3, <1>4, <1>5 DEF TopicInv

\* What a pass that has read every file has read is a mixture.
LEMMA SnapshotMixed ==
  ASSUME TopicTypeOK, TopicInv, NEW w \in Passes, phase[w] # "waiting",
         phase[w] = "reading" => left[w] = {}
  PROVE  /\ snapshot[w] \in [TopicFile -> Source] /\ Half(snapshot[w])
         /\ \E T \in SUBSET TopicFile : snapshot[w] = Mixed(T)
<1>1. snapshot[w] \in [TopicFile -> Source] /\ Half(snapshot[w])
  BY DEF TopicTypeOK, HasRead, TopicInv, SourcesInv
<1> DEFINE T == {f \in TopicFile : snapshot[w][f] = Rewritten(author)[f]}
<1>2. \A f \in TopicFile : snapshot[w][f] = Mixed(T)[f]
  BY <1>1 DEF Half, Mixed
<1>3. snapshot[w] = Mixed(T)
  BY <1>1, <1>2 DEF Mixed
<1> QED
  BY <1>1, <1>3

LEMMA WriteInv ==
  ASSUME TopicTypeOK, TopicInv, NEW w \in Passes, WriteStubs(w)
  PROVE  TopicInv'
<1>1. /\ author' = author /\ sources' = sources /\ snapshot' = snapshot
      /\ genFile' = GenFile(snapshot[w])
      /\ phase[w] = "reading" /\ phase'[w] = "rewriting" /\ left'[w] = TopicFile /\ left[w] = {}
      /\ \A v \in Passes \ {w} : phase'[v] = phase[v] /\ left'[v] = left[v]
  BY DEF WriteStubs, TopicTypeOK
<1>2. SourcesInv'
  BY <1>1 DEF TopicInv, SourcesInv, Half
<1>3. PassesInv'
  <2>1. phase'["stubs"] = "done" <=> phase["stubs"] = "done"
    BY <1>1, StubsIsPass DEF TopicInv, PassesInv, Later
  <2>2. \A v \in Later : phase'[v] # "waiting" => phase[v] # "waiting"
    BY <1>1 DEF Later
  <2> QED
    BY <1>1, <2>1, <2>2 DEF TopicInv, PassesInv, Clean
<1>4. GenInv'
  <2>1. \E T \in SUBSET TopicFile : snapshot[w] = Mixed(T)
    BY <1>1, SnapshotMixed
  <2> QED
    BY <1>1, <2>1 DEF GenInv, Mixed
<1> QED
  BY <1>2, <1>3, <1>4 DEF TopicInv

\* Rewriting a file leaves of it what is left when every name is taken away.
LEMMA RewriteResult ==
  ASSUME TopicTypeOK, TopicInv, NEW w \in Passes, NEW f \in TopicFile, Rewrite(w, f)
  PROVE  /\ sources'[f] = Rewritten(author)[f]
         /\ \A g \in TopicFile \ {f} : sources'[g] = sources[g]
         /\ DOMAIN sources' = TopicFile
<1>1. /\ phase[w] = "rewriting" /\ DOMAIN sources = TopicFile
      /\ sources' = [sources EXCEPT ![f] = Without(Taken(snapshot[w]), @)]
      /\ author \in Author
  BY DEF Rewrite, TopicTypeOK
<1>2. Half(snapshot[w]) /\ DOMAIN snapshot[w] = TopicFile
  BY <1>1, SnapshotMixed
<1>3. sources[f] \in {author[f], Rewritten(author)[f]}
  BY <1>1 DEF TopicInv, SourcesInv, Half
<1>4. snapshot[w][f] = Rewritten(author)[f] => sources[f] = Rewritten(author)[f]
  BY <1>2 DEF TopicInv, SourcesInv
<1>5. Without(Taken(snapshot[w]), sources[f]) = Rewritten(author)[f]
  BY <1>1, <1>2, <1>3, <1>4, RewriteFits
<1> QED
  BY <1>1, <1>5

LEMMA RewriteInv ==
  ASSUME TopicTypeOK, TopicInv, NEW w \in Passes, NEW f \in TopicFile, Rewrite(w, f)
  PROVE  TopicInv'
<1>1. /\ author' = author /\ snapshot' = snapshot /\ genFile' = genFile /\ phase' = phase
      /\ left'[w] = left[w] \ {f} /\ \A v \in Passes \ {w} : left'[v] = left[v]
      /\ DOMAIN sources = TopicFile
  BY DEF Rewrite, TopicTypeOK
<1>2. /\ sources'[f] = Rewritten(author)[f] /\ DOMAIN sources' = TopicFile
      /\ \A g \in TopicFile \ {f} : sources'[g] = sources[g]
  BY RewriteResult
<1>3. SourcesInv'
  <2>1. Half(sources)' /\ \A v \in Passes : Half(snapshot[v])'
    BY <1>1, <1>2 DEF TopicInv, SourcesInv, Half
  <2>2. \A v \in Passes : \A g \in DOMAIN snapshot[v] :
          snapshot[v][g] = Rewritten(author)[g] => sources'[g] = Rewritten(author)[g]
    <3>1. \A v \in Passes : DOMAIN snapshot[v] \subseteq TopicFile
      BY DEF TopicTypeOK, HasRead
    <3> QED
      BY <1>2, <3>1 DEF TopicInv, SourcesInv
  <2>3. \A v \in Passes : \A g \in TopicFile :
          phase[v] = "rewriting" /\ g \notin left'[v] => sources'[g] = Rewritten(author)[g]
    BY <1>1, <1>2 DEF TopicInv, SourcesInv
  <2> QED
    BY <1>1, <2>1, <2>2, <2>3 DEF SourcesInv
<1>4. PassesInv'
  BY <1>1, <1>2 DEF TopicInv, PassesInv, Clean
<1>5. GenInv'
  BY <1>1 DEF TopicInv, GenInv, Mixed
<1> QED
  BY <1>3, <1>4, <1>5 DEF TopicInv

LEMMA EndPassInv ==
  ASSUME TopicTypeOK, TopicInv, NEW w \in Passes, EndPass(w)
  PROVE  TopicInv'
<1>1. /\ author' = author /\ sources' = sources /\ snapshot' = snapshot /\ genFile' = genFile
      /\ phase[w] = "rewriting" /\ phase'[w] = "done" /\ left' = left /\ left[w] = {}
      /\ \A v \in Passes \ {w} : phase'[v] = phase[v]
      /\ DOMAIN sources = TopicFile
  BY DEF EndPass, TopicTypeOK
<1>2. Clean(sources)
  BY <1>1 DEF TopicInv, SourcesInv, Clean
<1>3. SourcesInv'
  BY <1>1 DEF TopicInv, SourcesInv, Half
<1>4. PassesInv'
  <2>1. phase["stubs"] = "done" => phase'["stubs"] = "done"
    BY <1>1, StubsIsPass
  <2>2. \A v \in Later : phase'[v] # "waiting" => phase[v] # "waiting"
    BY <1>1 DEF Later
  <2> QED
    BY <1>1, <1>2, <2>1, <2>2 DEF TopicInv, PassesInv, Clean
<1>5. GenInv'
  <2>1. phase'["stubs"] \in {"rewriting", "done"} => phase["stubs"] \in {"rewriting", "done"}
    BY <1>1, StubsIsPass
  <2> QED
    BY <1>1, <2>1 DEF TopicInv, GenInv, Mixed
<1> QED
  BY <1>3, <1>4, <1>5 DEF TopicInv

LEMMA RejectKeysInv ==
  ASSUME TopicTypeOK, TopicInv, NEW w \in Passes, RejectKeys(w)
  PROVE  TopicInv'
<1>1. /\ author' = author /\ sources' = sources /\ snapshot' = snapshot /\ genFile' = genFile
      /\ phase[w] = "reading" /\ phase'[w] = "exit" /\ left' = left
      /\ \A v \in Passes \ {w} : phase'[v] = phase[v]
  BY DEF RejectKeys, TopicTypeOK
<1>2. SourcesInv'
  BY <1>1 DEF TopicInv, SourcesInv, Half
<1>3. PassesInv'
  <2>1. phase["stubs"] = "done" <=> phase'["stubs"] = "done"
    BY <1>1, StubsIsPass
  <2>2. \A v \in Later : phase'[v] # "waiting" => phase[v] # "waiting"
    BY <1>1 DEF Later
  <2> QED
    BY <1>1, <2>1, <2>2 DEF TopicInv, PassesInv, Clean
<1>4. GenInv'
  <2>1. phase'["stubs"] \in {"rewriting", "done"} => phase["stubs"] \in {"rewriting", "done"}
    BY <1>1, StubsIsPass
  <2> QED
    BY <1>1, <2>1 DEF TopicInv, GenInv, Mixed
<1> QED
  BY <1>2, <1>3, <1>4 DEF TopicInv

LEMMA TopicStep == TopicTypeOK /\ TopicInv /\ [TopicNext]_topicVars => TopicInv'
<1> SUFFICES ASSUME TopicTypeOK, TopicInv, [TopicNext]_topicVars PROVE TopicInv'
  OBVIOUS
<1>1. ASSUME NEW w \in Passes, Begin(w) \/ RejectKeys(w) \/ WriteStubs(w) \/ EndPass(w)
      PROVE  TopicInv'
  BY <1>1, BeginInv, RejectKeysInv, WriteInv, EndPassInv
<1>2. ASSUME NEW w \in Passes, NEW f \in TopicFile, ReadFile(w, f) \/ Rewrite(w, f)
      PROVE  TopicInv'
  BY <1>2, ReadFileInv, RewriteInv
<1>3. CASE NextCommand
  <2>1. /\ author' = author /\ sources' = sources /\ genFile' = genFile
        /\ \A v \in Passes : phase'[v] = "waiting" /\ DOMAIN snapshot'[v] = {}
    BY <1>3 DEF NextCommand, Nothing
  <2> QED
    BY <2>1, StubsIsPass
       DEF TopicInv, SourcesInv, PassesInv, GenInv, Half, Later
<1>4. CASE Edit
  <2>1. /\ author' = sources' /\ snapshot' = snapshot
        /\ \A v \in Passes : phase'[v] = "waiting" /\ phase[v] = "waiting"
    BY <1>4 DEF Edit
  <2>2. \A v \in Passes : DOMAIN snapshot[v] = {}
    BY <2>1 DEF TopicTypeOK, HasRead
  <2> QED
    BY <2>1, <2>2, StubsIsPass
       DEF TopicInv, SourcesInv, PassesInv, GenInv, Half, Later
<1>5. CASE UNCHANGED topicVars
  <2>1. /\ author' = author /\ sources' = sources /\ genFile' = genFile /\ phase' = phase
        /\ snapshot' = snapshot /\ left' = left
    BY <1>5 DEF topicVars
  <2> QED
    BY <2>1 DEF TopicInv, SourcesInv, PassesInv, GenInv, Half, Clean, Mixed
<1> QED
  BY <1>1, <1>2, <1>3, <1>4, <1>5 DEF TopicNext

LEMMA TopicInvHolds == TopicSpec => [](TopicTypeOK /\ TopicInv)
<1>1. TopicTypeOK /\ TopicInv /\ [TopicNext]_topicVars => (TopicTypeOK /\ TopicInv)'
  BY TopicNextType, TopicStep
<1> QED
  BY <1>1, TopicInitInv, PTL DEF TopicSpec

LEMMA MixedIsHalf ==
  ASSUME author \in Author, NEW T
  PROVE  DOMAIN Mixed(T) = TopicFile /\ Half(Mixed(T))
BY DEF Mixed, Half

-----------------------------------------------------------------------------
(* What is generated, before and after the author's variables go.          *)

LEMMA GeneratedHalf ==
  ASSUME author \in Author, NEW s, DOMAIN s = TopicFile, Half(s), NEW t \in Structs(author)
  PROVE  Generated(s, t) \in {Generated(author, t), Generated(Rewritten(author), t)}
<1>1. Info(s, t) = Info(author, t) \/ Info(s, t) = Info(Rewritten(author), t)
  BY HalfFits
<1> QED
  BY <1>1 DEF Generated, Accessor, Component

LEMMA AccessorKept ==
  ASSUME author \in Author, NamesAreConfigured(author),
         NEW s, DOMAIN s = TopicFile, Half(s), NEW t \in Structs(author)
  PROVE  /\ Info(s, t).key = Info(author, t).key
         /\ Info(s, t).component = Info(author, t).component
         /\ Accessor(s, t) = Accessor(author, t)
<1>1. t.file \in TopicFile /\ DOMAIN author = TopicFile
  BY HalfFits, AuthorFits
<1>2. author[t.file] \in Source
      /\ (s[t.file] = author[t.file] \/ s[t.file] = Without(Taken(author), author[t.file]))
  BY <1>1, AuthorFits, HalfFits
<1>3. CASE s[t.file] = author[t.file]
  BY <1>3 DEF Info, Accessor
<1>4. CASE s[t.file] = Without(Taken(author), author[t.file])
  <2> DEFINE c == Meta(author[t.file], t.name)
  <2>1. /\ Info(s, t).key = Info(author, t).key
        /\ Info(s, t).component = Info(author, t).component
        /\ \/ Info(s, t).accessor = Info(author, t).accessor
           \/ /\ Info(s, t).accessor = NoName /\ Declared(author[t.file], t.name) # {}
              /\ c.subscriber = NoName /\ Info(author, t).accessor = c.var /\ c.var # Blank
    BY <1>2, <1>4, StructOfWithout DEF Info
  <2>2. CASE Info(s, t).accessor = Info(author, t).accessor
    BY <2>1, <2>2 DEF Accessor
  <2>3. CASE Info(s, t).accessor # Info(author, t).accessor
    <3>1. /\ Max(Declared(author[t.file], t.name)) \in DOMAIN author[t.file].creates
          /\ c.of = t.name
          /\ c = author[t.file].creates[Max(Declared(author[t.file], t.name))]
      BY <1>2, <2>1, <2>3, MetaIn
    <3> HIDE DEF c
    <3>2. c.subscriber # NoName \/ c.var \in {Blank, c.of \o <<"Topic">>}
      BY <1>1, <3>1 DEF NamesAreConfigured
    <3>3. c.var = t.name \o <<"Topic">>
      BY <2>1, <2>3, <3>1, <3>2
    <3> QED
      BY <2>1, <2>3, <3>3 DEF Accessor
  <2> QED
    BY <2>2, <2>3
<1> QED
  BY <1>2, <1>3, <1>4

LEMMA GenFileKept ==
  ASSUME author \in Author, NamesAreConfigured(author),
         NEW s, DOMAIN s = TopicFile, Half(s)
  PROVE  GenFile(s) = GenFile(author)
<1>1. Structs(s) = Structs(author) /\ Topics(s) = Topics(author)
  BY HalfFits
<1>2. ASSUME NEW t \in Topics(author) PROVE Generated(s, t) = Generated(author, t)
  <2>1. t \in Structs(author)
    BY DEF Topics
  <2> QED
    BY <2>1, AccessorKept DEF Generated, Component
<1> QED
  BY <1>1, <1>2 DEF GenFile

LEMMA AccessorsStayInv == TopicTypeOK /\ TopicInv => AccessorsStay
<1> SUFFICES ASSUME TopicTypeOK, TopicInv, NamesAreConfigured(author),
                    NEW w \in Passes, phase[w] = "done"
             PROVE  genFile = GenFile(author) /\ GenFile(snapshot[w]) = GenFile(author)
  BY DEF AccessorsStay
<1>1. author \in Author
  BY DEF TopicTypeOK
<1>2. phase["stubs"] = "done"
  BY DEF TopicInv, PassesInv, Later
<1>3. PICK T \in SUBSET TopicFile : genFile = GenFile(Mixed(T))
  BY <1>2 DEF TopicInv, GenInv
<1>4. genFile = GenFile(author)
  BY <1>1, <1>3, MixedIsHalf, GenFileKept
<1>5. DOMAIN snapshot[w] = TopicFile /\ Half(snapshot[w])
  BY SnapshotMixed
<1> QED
  BY <1>1, <1>4, <1>5, GenFileKept

\* What pages are type-checked against stays what the mains define, through every
\* later pass, and across commands that were killed while rewriting, for every
\* number of files, declarations and pages: without the condition on the names it
\* is false, as the run of RepeatIsSafe shows.
THEOREM AccessorsAreStable == TopicSpec => []AccessorsStay
BY TopicInvHolds, AccessorsStayInv, PTL

-----------------------------------------------------------------------------
(* The names of a package of topic sources and generated code.             *)

LEMMA CleanAuthor ==
  ASSUME author \in Author, NEW s, DOMAIN s = TopicFile, Clean(s)
  PROVE  \A d \in OfAuthor(s) :
           d \in OfAuthor(author) /\ (d.kind = "var" => d.name \notin Taken(author))
<1> DEFINE vs(r, f) == {[kind |-> "var", of |-> [file |-> f, at |-> j],
                         name |-> r[f].creates[j].var] :
                           j \in {i \in DOMAIN r[f].creates : r[f].creates[i].var # Blank}}
           ss(r) == {[kind |-> "struct", of |-> t, name |-> t.name] : t \in Structs(r)}
<1>1. \A r : OfAuthor(r) = ss(r) \cup UNION {vs(r, f) : f \in DOMAIN r}
  BY DEF OfAuthor
<1>2. DOMAIN author = TopicFile /\ Half(s)
  BY AuthorFits DEF Clean, Half
<1>3. ss(s) = ss(author)
  BY <1>2, HalfFits
<1>4. ASSUME NEW f \in TopicFile, NEW d \in vs(s, f)
      PROVE  d \in vs(author, f) /\ d.name \notin Taken(author)
  <2>1. PICK j \in DOMAIN s[f].creates :
          /\ s[f].creates[j].var # Blank
          /\ d = [kind |-> "var", of |-> [file |-> f, at |-> j], name |-> s[f].creates[j].var]
    BY <1>4
  <2>2. s[f] = Rewritten(author)[f]
    BY DEF Clean
  <2>3. /\ j \in DOMAIN author[f].creates
        /\ s[f].creates[j].var = author[f].creates[j].var
        /\ s[f].creates[j].var \notin Taken(author)
    BY <2>1, <2>2, NothingLeft
  <2> QED
    BY <2>1, <2>3
<1>5. \A d \in ss(s) : d.kind = "struct"
  OBVIOUS
<1> HIDE DEF vs, ss
<1> QED
  BY <1>1, <1>2, <1>3, <1>4, <1>5

LEMMA PackageFits ==
  ASSUME author \in Author, NamesAreOwn(author), NEW s, DOMAIN s = TopicFile, Clean(s),
         NEW r \in [TopicFile -> Source], Half(r), NEW K \in SUBSET OnDisk
  PROVE  Once(OfAuthor(s) \cup OfTool(GenFile(r).topics, K))
<1> DEFINE may(t) == {Generated(author, t), Generated(Rewritten(author), t)}
<1>1. \A d \in OfAuthor(s) :
        d \in OfAuthor(author) /\ (d.kind = "var" => d.name \notin Taken(author))
  BY CleanAuthor
<1>2. ASSUME NEW d \in OfTool(GenFile(r).topics, K)
      PROVE  \E k \in K : \E t \in Topics(author) :
               \E g \in may(t) :
                 d = [kind |-> k, of |-> t, name |-> g[k]]
  <2>1. PICK k \in K, t \in DOMAIN GenFile(r).topics :
          d = [kind |-> k, of |-> t, name |-> GenFile(r).topics[t][k]]
    BY DEF OfTool
  <2>2. t \in Topics(author) /\ GenFile(r).topics[t] = Generated(r, t)
    BY GenFileFits, HalfFits
  <2>3. t \in Structs(author)
    BY <2>2 DEF Topics
  <2> QED
    BY <2>1, <2>2, <2>3, GeneratedHalf
<1>3. ASSUME NEW t \in Topics(author), NEW k \in OnDisk,
             NEW g \in may(t)
      PROVE  /\ \A d \in OfAuthor(author) : d.name = g[k] => d.kind = "var" /\ d.name \in Taken(author)
             /\ \A u \in Topics(author) : \A l \in OnDisk :
                  \A h \in may(u) :
                    g[k] = h[l] => t = u /\ k = l
  BY <1>3 DEF NamesAreOwn
<1>4. Once(OfAuthor(author))
  BY AuthorFits
<1> SUFFICES ASSUME NEW d \in OfAuthor(s) \cup OfTool(GenFile(r).topics, K),
                    NEW e \in OfAuthor(s) \cup OfTool(GenFile(r).topics, K), d.name = e.name
             PROVE  d = e
  BY DEF Once
<1>5. CASE d \in OfAuthor(s) /\ e \in OfAuthor(s)
  BY <1>1, <1>4, <1>5 DEF Once
<1>6. ASSUME NEW a \in OfAuthor(s), NEW b \in OfTool(GenFile(r).topics, K), a.name = b.name
      PROVE  FALSE
  <2>1. PICK k \in K, t \in Topics(author) : \E g \in may(t) :
          b = [kind |-> k, of |-> t, name |-> g[k]]
    BY <1>2, <1>6
  <2>2. PICK g \in may(t) : b = [kind |-> k, of |-> t, name |-> g[k]]
    BY <2>1
  <2>3. a.name = g[k] /\ k \in OnDisk
    BY <1>6, <2>2
  <2> HIDE DEF may
  <2> QED
    BY <1>1, <1>3, <2>3
<1>7. CASE d \in OfTool(GenFile(r).topics, K) /\ e \in OfTool(GenFile(r).topics, K)
  <2> HIDE DEF may
  <2>1. PICK k \in K, t \in Topics(author) : \E g \in may(t) :
          d = [kind |-> k, of |-> t, name |-> g[k]]
    BY <1>2, <1>7
  <2>2. PICK l \in K, u \in Topics(author) : \E h \in may(u) :
          e = [kind |-> l, of |-> u, name |-> h[l]]
    BY <1>2, <1>7
  <2>3. PICK g \in may(t) : d = [kind |-> k, of |-> t, name |-> g[k]]
    BY <2>1
  <2>4. PICK h \in may(u) : e = [kind |-> l, of |-> u, name |-> h[l]]
    BY <2>2
  <2>5. g[k] = h[l] /\ k \in OnDisk /\ l \in OnDisk
    BY <2>3, <2>4
  <2>6. t = u /\ k = l
    BY <1>3, <2>5
  <2> QED
    BY <2>3, <2>4, <2>5, <2>6
<1> QED
  BY <1>5, <1>6, <1>7

LEMMA NamesOnceInv == TopicTypeOK /\ TopicInv => NamesOnce
<1> SUFFICES ASSUME TopicTypeOK, TopicInv, phase["stubs"] = "done", NamesAreOwn(author)
             PROVE  /\ Once(OfAuthor(sources) \cup OfTool(genFile.topics, OnDisk))
                    /\ \A w \in Passes \ {"stubs"} : phase[w] = "done" =>
                         Once(OfAuthor(snapshot[w]) \cup OfTool(GenFile(snapshot[w]).topics, InMain))
  BY DEF NamesOnce
<1>1. author \in Author /\ DOMAIN sources = TopicFile
  BY DEF TopicTypeOK
<1>2. Once(OfAuthor(sources) \cup OfTool(genFile.topics, OnDisk))
  <2>1. Clean(sources)
    BY DEF TopicInv, PassesInv
  <2>2. PICK T \in SUBSET TopicFile : genFile = GenFile(Mixed(T))
    BY DEF TopicInv, GenInv
  <2>3. Mixed(T) \in [TopicFile -> Source]
    BY <1>1, AuthorFits DEF Mixed
  <2> QED
    BY <1>1, <2>1, <2>2, <2>3, MixedIsHalf, PackageFits
<1>3. ASSUME NEW w \in Passes \ {"stubs"}, phase[w] = "done"
      PROVE  Once(OfAuthor(snapshot[w]) \cup OfTool(GenFile(snapshot[w]).topics, InMain))
  <2>1. Clean(snapshot[w])
    BY <1>3 DEF TopicInv, PassesInv, Later
  <2>2. snapshot[w] \in [TopicFile -> Source] /\ Half(snapshot[w])
    BY <1>3, SnapshotMixed
  <2>3. InMain \in SUBSET OnDisk
    BY DEF InMain
  <2> QED
    BY <1>1, <2>1, <2>2, <2>3, PackageFits
<1> QED
  BY <1>2, <1>3

\* Whatever names the author chooses, if the topics have names of their own,
\* nothing is declared twice, on disk or in a main: the variables that gave the
\* accessors their names are gone from every file a later pass reads, even when
\* the first one was stopped half way and began again.
THEOREM NoNameTwice == TopicSpec => []NamesOnce
BY TopicInvHolds, NamesOnceInv, PTL

LEMMA LaterOnesRewriteNothing ==
  ASSUME TopicTypeOK, TopicInv, [TopicNext]_topicVars,
         phase["stubs"] = "done", phase'["stubs"] = "done"
  PROVE  sources' = sources
<1>1. ASSUME NEW w \in Passes, NEW f \in TopicFile, Rewrite(w, f)
      PROVE  sources' = sources
  <2>1. Clean(sources) /\ sources \in [TopicFile -> Source] /\ sources' \in [TopicFile -> Source]
    BY TopicNextType DEF TopicInv, PassesInv, TopicTypeOK
  <2>2. \A g \in TopicFile : sources'[g] = sources[g]
    BY <1>1, <2>1, RewriteResult DEF Clean
  <2> QED
    BY <2>1, <2>2
<1>2. ~ Edit
  BY StubsIsPass DEF Edit
<1> QED
  BY <1>1, <1>2
     DEF TopicNext, topicVars, Begin, RejectKeys, WriteStubs, EndPass, ReadFile, NextCommand

\* However many files and pages there are, the passes that run at the same time
\* write no source that another of them may be reading.
THEOREM LaterPassesOnlyRead == TopicSpec => OnlyFirstRewrites
<1>1. TopicTypeOK /\ TopicInv /\ [TopicNext]_topicVars
        => [phase["stubs"] = "done" /\ phase'["stubs"] = "done" => sources' = sources]_topicVars
  BY LaterOnesRewriteNothing
<1> QED
  BY <1>1, TopicInvHolds, PTL DEF TopicSpec, OnlyFirstRewrites

-----------------------------------------------------------------------------
\* All of generation, whatever the author writes: each generator keeps to the
\* types of what it reads, holds and writes.
THEOREM GeneratorsAreTyped == GenerationSpec => []GenerationTypeOK
<1>1. TypeOK /\ ScanTypeOK /\ TopicTypeOK => GenerationTypeOK
  BY DEF GenerationTypeOK
<1> QED
  BY <1>1, TypeCorrect, ScanTypeCorrect, TopicTypeCorrect, PTL DEF GenerationSpec
==============================================================================
