------------------------------ MODULE TreeShake ------------------------------
(***************************************************************************)
(* What of a page's package goes into its WASM main: the declarations its  *)
(* ClientSideState body needs and the imports those need (wasm_scan.go,    *)
(* astx/extract.go).  One goroutine walks, in this order, the literals of  *)
(* the page's file, the identifiers of the body and of each declaration    *)
(* they lead to, and the import specs of the package, for each of these    *)
(* nodes again.                                                            *)
(*                                                                         *)
(* A package is [decls, imports, literals], each in the order of its files *)
(* and of their lines.  What an identifier means is resolved: uses has an  *)
(* object of the package, or the path of a package, for each identifier    *)
(* that stands for one.                                                    *)
(***************************************************************************)
EXTENDS Integers, Sequences, FiniteSets, SequencesExt

CONSTANTS Object,  \* what top-level declarations define
          Path,    \* import paths
          Package  \* the packages a page can be in

Uses == Seq(Object \cup Path)
Kinds == {"func", "const", "type", "var"}
Decl == [kind : Kinds, defines : SUBSET Object, uses : Uses]
ImportSpec == [path : Path, name : STRING]

\* Literals of type RouteConfig; "unknown" is a state that is no function with a body.
States == {"none", "func", "unknown"}
Literal == [state : States, uses : Uses]

Objects(p) == UNION {p.decls[i].defines : i \in DOMAIN p.decls}
ImportedPaths(p) == {p.imports[i].path : i \in DOMAIN p.imports}
Known(p) == Objects(p) \cup ImportedPaths(p)

\* What the Go loader guarantees of a package it has type-checked.
TypeChecked(p) ==
  /\ p.decls \in Seq(Decl) /\ p.imports \in Seq(ImportSpec) /\ p.literals \in Seq(Literal)
  /\ \A i, j \in DOMAIN p.decls : i # j => p.decls[i].defines \cap p.decls[j].defines = {}
  /\ \A i \in DOMAIN p.decls : Range(p.decls[i].uses) \subseteq Known(p)
  /\ \A i \in DOMAIN p.literals : Range(p.literals[i].uses) \subseteq Known(p)

ASSUME TreeShakeAssumption ==
  Object \cap Path = {} /\ \A p \in Package : TypeChecked(p)

VARIABLES
  package,  \* the package of the page
  stage,    \* where scanFile is
  at,       \* the literal, or the import spec, it looks at
  body,     \* what the ClientSideState body uses
  todo,     \* the node it inspects: identifiers to visit, or the node's uses
  queue,    \* nodes to inspect after it: indices of declarations
  seen,     \* seenObj and seenPkg
  helpers,  \* the declarations found, in order
  pkgs,     \* the packages found, in order
  lines     \* the import lines of the main

scanVars == <<package, stage, at, body, todo, queue, seen, helpers, pkgs, lines>>
found == <<seen, helpers, pkgs>>

ScanInit ==
  /\ package \in Package
  /\ stage = "literals" /\ at = 1
  /\ body = <<>> /\ todo = <<>> /\ queue = <<>>
  /\ seen = {} /\ helpers = <<>> /\ pkgs = <<>> /\ lines = <<>>

-----------------------------------------------------------------------------
(* ExtractClientSideStateBody: the first literal with a state decides.     *)

NextLiteral ==
  /\ stage = "literals" /\ at \in DOMAIN package.literals
  /\ package.literals[at].state = "none"
  /\ at' = at + 1
  /\ UNCHANGED <<package, stage, body, todo, queue, found, lines>>

FindBody ==
  /\ stage = "literals" /\ at \in DOMAIN package.literals
  /\ package.literals[at].state = "func"
  /\ stage' = "search"
  /\ body' = package.literals[at].uses /\ todo' = body'
  /\ UNCHANGED <<package, at, queue, found, lines>>

RejectState ==
  /\ stage = "literals" /\ at \in DOMAIN package.literals
  /\ package.literals[at].state = "unknown"
  /\ stage' = "error"
  /\ UNCHANGED <<package, at, body, todo, queue, found, lines>>

NoPage ==
  /\ stage = "literals" /\ at \notin DOMAIN package.literals
  /\ stage' = "nothing"
  /\ UNCHANGED <<package, at, body, todo, queue, found, lines>>

-----------------------------------------------------------------------------
(* ExtractUsedHelpers: breadth first over the identifiers, in their order. *)

DeclOf(p, x) == CHOOSE i \in DOMAIN p.decls : x \in p.decls[i].defines
KindOf(x) == package.decls[DeclOf(package, x)].kind

Visit(x) ==
  /\ stage = "search" /\ todo # <<>> /\ x = Head(todo)
  /\ todo' = Tail(todo)
  /\ seen' = seen \cup {x}

SkipSeen ==
  /\ stage = "search" /\ todo # <<>> /\ Head(todo) \in seen
  /\ todo' = Tail(todo)
  /\ UNCHANGED <<package, stage, at, body, queue, found, lines>>

VisitPackage(x) ==
  /\ Visit(x) /\ x \in Path \ seen
  /\ pkgs' = Append(pkgs, x)
  /\ UNCHANGED <<package, stage, at, body, queue, helpers, lines>>

\* One declaration stands for all the names it defines, and is found once for
\* each of them that is used.
VisitDecl_NotQueued(x) ==
  /\ Visit(x) /\ x \in Object \ seen /\ KindOf(x) # "var"
  /\ helpers' = Append(helpers, DeclOf(package, x))
  /\ UNCHANGED <<package, stage, at, body, queue, pkgs, lines>>
VisitDecl(x) ==
  /\ Visit(x) /\ x \in Object \ seen /\ KindOf(x) # "var"
  /\ helpers' = Append(helpers, DeclOf(package, x))
  /\ queue' = Append(queue, DeclOf(package, x))
  /\ UNCHANGED <<package, stage, at, body, pkgs, lines>>

RejectVar(x) ==
  /\ Visit(x) /\ x \in Object \ seen /\ KindOf(x) = "var"
  /\ stage' = "error"
  /\ UNCHANGED <<package, at, body, queue, helpers, pkgs, lines>>

UsesAt(i) == package.decls[i].uses

InspectNext ==
  /\ stage = "search" /\ todo = <<>> /\ queue # <<>>
  /\ todo' = UsesAt(Head(queue)) /\ queue' = Tail(queue)
  /\ UNCHANGED <<package, stage, at, body, found, lines>>

\* scanFile then collects the imports of the body and of each helper.
EndSearch_FromThere ==
  /\ stage = "search" /\ todo = <<>> /\ queue = <<>>
  /\ stage' = "imports"
  /\ todo' = body /\ queue' = helpers
  /\ UNCHANGED <<package, at, body, found, lines>>
EndSearch ==
  /\ stage = "search" /\ todo = <<>> /\ queue = <<>>
  /\ stage' = "imports" /\ at' = 1
  /\ todo' = body /\ queue' = helpers
  /\ UNCHANGED <<package, body, found, lines>>

-----------------------------------------------------------------------------
(* ExtractUsedImports, stdImportLines: the first spec of each package that *)
(* the node uses, whichever file it stands in; a line is added once.       *)

IsUsed(k) ==
  /\ package.imports[k].path \in Range(todo)
  /\ \A j \in 1 .. k - 1 : package.imports[j].path # package.imports[k].path

NextSpec ==
  /\ stage = "imports" /\ at \in DOMAIN package.imports
  /\ lines' = IF IsUsed(at) /\ package.imports[at] \notin Range(lines)
              THEN Append(lines, package.imports[at]) ELSE lines
  /\ at' = at + 1
  /\ UNCHANGED <<package, stage, body, todo, queue, found>>

NextHelper ==
  /\ stage = "imports" /\ at \notin DOMAIN package.imports /\ queue # <<>>
  /\ todo' = UsesAt(Head(queue)) /\ queue' = Tail(queue) /\ at' = 1
  /\ UNCHANGED <<package, stage, body, found, lines>>

Finish ==
  /\ stage = "imports" /\ at \notin DOMAIN package.imports /\ queue = <<>>
  /\ stage' = "page"
  /\ UNCHANGED <<package, at, body, todo, queue, found, lines>>

ScanNext ==
  \/ NextLiteral \/ FindBody \/ RejectState \/ NoPage
  \/ SkipSeen
  \/ \E x \in Object \cup Path : VisitPackage(x) \/ VisitDecl(x) \/ RejectVar(x)
  \/ InspectNext \/ EndSearch
  \/ NextSpec \/ NextHelper \/ Finish

ScanSpec == ScanInit /\ [][ScanNext]_scanVars

-----------------------------------------------------------------------------
Final == {"nothing", "error", "page"}

ScanTypeOK ==
  /\ package \in Package
  /\ stage \in {"literals", "search", "imports"} \cup Final
  /\ at \in Nat \ {0}
  /\ stage = "literals" => at <= Len(package.literals) + 1
  /\ stage = "imports" => at <= Len(package.imports) + 1
  /\ body \in Seq(Known(package)) /\ todo \in Seq(Known(package))
  /\ queue \in Seq(DOMAIN package.decls) /\ helpers \in Seq(DOMAIN package.decls)
  /\ seen \subseteq Known(package)
  /\ pkgs \in Seq(ImportedPaths(package))
  /\ lines \in Seq(Range(package.imports))

\* The reference: the least set that has what the body uses, and what the
\* declarations of its objects use.
IsClosed(S) ==
  /\ Range(body) \subseteq S
  /\ \A x \in S \cap Object : Range(UsesAt(DeclOf(package, x))) \subseteq S
Reached ==
  {x \in Known(package) : \A S \in SUBSET Known(package) : IsClosed(S) => x \in S}

Vars == {x \in Objects(package) : KindOf(x) = "var"}

\* The literal that decides: the first one with a state.
Decides(i) ==
  /\ package.literals[i].state # "none"
  /\ \A j \in 1 .. i - 1 : package.literals[j].state = "none"

\* The build fails exactly when the page reaches a package variable, however
\* many declarations lie between; and the helpers of a page are the declarations
\* it reaches, no more and no less, as are the packages its cache entry follows.
HelpersFit ==
  /\ stage = "nothing" =>
       \A i \in DOMAIN package.literals : package.literals[i].state = "none"
  /\ stage \in {"error", "page"} =>
       \E i \in DOMAIN package.literals :
         /\ Decides(i)
         /\ \/ stage = "error" /\ package.literals[i].state = "unknown"
            \/ /\ package.literals[i].state = "func" /\ body = package.literals[i].uses
               /\ stage = "error" <=> Reached \cap Vars # {}
  /\ stage = "page" =>
       /\ Range(helpers) = {DeclOf(package, x) : x \in Reached \cap Object}
       /\ Range(pkgs) = Reached \cap Path

\* The main imports each package its body and helpers use, exactly once, and no
\* other: an unused import is an error in Go, as is a name imported twice.
ImportsFit ==
  stage = "page" =>
    /\ \A i, j \in DOMAIN lines : lines[i].path = lines[j].path => i = j
    /\ {lines[i].path : i \in DOMAIN lines} = Reached \cap Path

\* A page is built from what its body reaches: those declarations, those imports.
KeepsWhatIsReached == HelpersFit /\ ImportsFit
==============================================================================
