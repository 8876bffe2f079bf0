------------------------------- MODULE RouteGen -------------------------------
(***************************************************************************)
(* Generation of src/routes/routes_gen.go from the files of src/pages,     *)
(* src/components and src/api (fileBasedRouting.go, routescan_ast.go).     *)
(* The author saves and removes files at any moment; hot reload renders    *)
(* again and again with one helper, whose list of imports is never reset.  *)
(***************************************************************************)
EXTENDS Integers, Sequences, FiniteSets, SequencesExt

CONSTANTS None,
          File,     \* the files that can be there
          Dir,      \* Dir[f]: the directory of file f
          Root      \* Root[f]: the folder it is in, one of Roots

Roots == {"pages", "components", "api"}
Dirs == {Dir[f] : f \in File}

\* What the scanner tells apart in a file: one that does not parse, one with no
\* route function, a route with a configuration of its own, or with none.
Content == {"broken", "helpers", "configured", "default"}
Routed == {"configured", "default"}

\* No two directories have packages of one name: Dir[f] stands for both.
ASSUME RouteGenAssumption == Root \in [File -> Roots] /\ None \notin Content

VARIABLES
  disk,     \* disk[f]: the content of f, None when there is no such file
  step,     \* where Render is
  routes,   \* helper.TemplateInfo.Routes and ApiRoutes: file -> content
  imports,  \* helper.TemplateInfo.Imports: directories
  default,  \* helper.TemplateInfo.ImportDefault
  out,      \* routes_gen.go, None while there is no such file
  read      \* history: the disk when Render began, None once it is changed

vars == <<disk, step, routes, imports, default, out, read>>
helper == <<routes, imports, default>>

NoRoutes == [f \in {} |-> None]

Init ==
  /\ disk \in [File -> Routed \cup {None}]
  /\ step = "idle" /\ routes = NoRoutes /\ imports = {} /\ default = FALSE
  /\ out = None /\ read = None

-----------------------------------------------------------------------------
\* The author.
Save(f) ==
  /\ \E c \in Content \cup {None} :
       c # disk[f] /\ disk' = [disk EXCEPT ![f] = c]
  /\ read' = None
  /\ UNCHANGED <<step, helper, out>>

\* Initialize deletes the old file, and keeps the imports.
Initialize ==
  /\ step = "idle" /\ step' = "pages"
  /\ routes' = NoRoutes /\ default' = FALSE
  /\ out' = None /\ read' = disk
  /\ UNCHANGED <<disk, imports>>

\* collectPageInfo, collectComponentsInfo, collectApiRoutesInfo: a file that does
\* not parse is skipped; one with no route still has its package imported.
Scanned(r) == {f \in File : Root[f] = r /\ disk[f] \in Content \ {"broken"}}

Imported_OfRoutes(r) == {Dir[f] : f \in {g \in Scanned(r) : disk[g] = "configured"}}
Imported(r) == {Dir[f] : f \in Scanned(r)}

\* A file with no route function is no route.
Found(r) == {f \in Scanned(r) : disk[f] \in Routed}

After(r) == CASE r = "pages" -> "components" [] r = "components" -> "api"
              [] r = "api" -> "duplicates"

Walk(r) ==
  /\ step = r /\ step' = After(r)
  /\ routes' = [f \in DOMAIN routes \cup Found(r) |->
                  IF f \in Found(r) THEN disk[f] ELSE routes[f]]
  /\ imports' = imports \cup Imported(r)
  /\ UNCHANGED <<disk, default, out, read>>

\* A file that goes away under the walk ends it, and Render, with an error.
FailWalk(r) ==
  /\ step = r /\ read = None /\ step' = "idle"
  /\ UNCHANGED <<disk, helper, out, read>>

RemoveDuplicates ==
  /\ step = "duplicates" /\ step' = "prune"
  /\ default' = \E f \in DOMAIN routes : routes[f] = "default"
  /\ UNCHANGED <<disk, routes, imports, out, read>>

\* pruneMissingFiles: routes whose file is gone, then packages with no route.
Used_Any(dirs, rs) == dirs
Used(dirs, rs) == dirs \cap {Dir[f] : f \in DOMAIN rs}

Prune ==
  /\ step = "prune" /\ step' = "write"
  /\ routes' = [f \in {g \in DOMAIN routes : disk[g] # None} |-> routes[f]]
  /\ imports' = Used(imports, routes')
  /\ UNCHANGED <<disk, default, out, read>>

Write ==
  /\ step = "write" /\ step' = "idle"
  /\ out' = [routes |-> routes, imports |-> imports, default |-> default]
  /\ UNCHANGED <<disk, helper, read>>

Next ==
  \/ \E f \in File : Save(f)
  \/ Initialize
  \/ \E r \in Roots : Walk(r) \/ FailWalk(r)
  \/ RemoveDuplicates \/ Prune \/ Write

Spec == Init /\ [][Next]_vars

-----------------------------------------------------------------------------
TypeOK ==
  /\ disk \in [File -> Content \cup {None}]
  /\ step \in Roots \cup {"idle", "duplicates", "prune", "write"}
  /\ DOMAIN routes \subseteq File /\ \A f \in DOMAIN routes : routes[f] \in Routed
  /\ imports \subseteq Dirs /\ default \in BOOLEAN
  /\ out # None =>
       /\ DOMAIN out.routes \subseteq File /\ out.imports \subseteq Dirs
       /\ \A f \in DOMAIN out.routes : out.routes[f] \in Routed
       /\ out.default \in BOOLEAN
  /\ read \in {None, disk}

\* However often and between whichever changes the helper has rendered before,
\* a render that no change of the tree disturbed writes the routes of the tree,
\* and imports exactly their packages: an import too many does not compile.
QuietMeansExact ==
  out # None /\ read # None =>
    /\ DOMAIN out.routes = {f \in File : disk[f] \in Routed}
    /\ \A f \in DOMAIN out.routes : out.routes[f] = disk[f]
    /\ out.imports = {Dir[f] : f \in DOMAIN out.routes}
    /\ out.default <=> \E f \in DOMAIN out.routes : out.routes[f] = "default"

\* Also when files come and go while the folders are walked, every route that
\* is written has its package, and its default configuration, imported.
RoutesAreImported ==
  out # None =>
    /\ \A f \in DOMAIN out.routes : Dir[f] \in out.imports
    /\ (\E f \in DOMAIN out.routes : out.routes[f] = "default") => out.default
==============================================================================
