------------------------------ MODULE WasmBuild ------------------------------
(***************************************************************************)
(* The incremental build of a project's WASM modules, `gothic wasm`: one   *)
(* module per page and one per topic.  A target whose recorded hash equals *)
(* the hash of its inputs is skipped; the others are compiled and          *)
(* compressed, topic managers one after the other, pages by goroutines     *)
(* that share Cpus permits.  The hashes are kept in memory and written to  *)
(* the hash cache when every page is built; sources may be edited, and the *)
(* process killed, between any two steps.                                  *)
(*                                                                         *)
(* The text of a source is a number: two texts of one source are equal or  *)
(* not, and Brotli holds those whose page or topic asks for brotli.        *)
(***************************************************************************)
EXTENDS Naturals, FiniteSets

CONSTANTS Page,       \* pages and components with a ClientSideState body
          Topic,      \* topic structs with a key name
          TopicDir,   \* src/topics, the one source of every topic manager
          Qualified,  \* pages that name the topics package in front of its
                      \* symbols; the others import it with a dot
          Text,       \* the texts a source may have
          FirstText,  \* the one each has when the project is new
          Brotli,     \* the texts that ask for brotli
          Cpus,       \* runtime.NumCPU()
          MaxEdits,   \* bound of the model: edits of all sources together
          None, Torn  \* no file or no hash; a file cut short

ASSUME BuildAssumption ==
    /\ IsFiniteSet(Page) /\ IsFiniteSet(Topic) /\ Page \cap Topic = {}
    /\ TopicDir \notin Page
    /\ Qualified \subseteq Page
    /\ Brotli \subseteq Text /\ FirstText \in Text
    /\ Cpus \in Nat \ {0} /\ MaxEdits \in Nat
    /\ Torn # None /\ None \notin Text /\ Torn \notin Text
    /\ None \notin [file : Text, dirs : Text \cup {None}, ext : {"gz", "br"}]

Target == Page \cup Topic
Source == Page \cup {TopicDir}
SourceOf(t) == IF t \in Page THEN t ELSE TopicDir

\* What compressionExt appends to the name of a target's file.
Exts == {"gz", "br"}
Ext(text) == IF text \in Brotli THEN "br" ELSE "gz"

VARIABLES
  text,       \* the sources on disk
  edits,      \* how many edits there have been
  cacheFile,  \* wasm-cache.json: missing, cut short, or a hash per target
  out,        \* public/wasm: the file of a target for each compression
  phase,      \* where the command is; "off" when none runs
  scanned,    \* the text of each source the command works from
  cache,      \* h.cache, the hashes in memory
  at,         \* where the build of each target is
  hash,       \* the hash of a target the command builds, None for the others
  used,       \* the topics a target was compiled with
  quiet,      \* history: since the last scan nothing was edited or removed, and
              \* the command did not end early
  suspect     \* history: targets the hash cache may be wrong about

vars == <<text, edits, cacheFile, out, phase, scanned, cache, at, hash, used,
          quiet, suspect>>

\* What a hash covers.  The runtime and the templates it covers too come with the
\* tool, and are the same in all builds of one installation.
Hash == [file : Text, dirs : Text \cup {None}, ext : Exts]
Module == [code : Text, topics : Text]
Phase == {"off", "scanned", "managers", "pages", "saving"}
Step == {"idle", "waiting", "compile", "writing",
         "built", "skipped", "failed", "cancelled"}
Hashes == [Target -> Hash \cup {None}]
NoHash == [t \in Target |-> None]

TypeOK ==
  /\ text \in [Source -> Text]
  /\ edits \in 0 .. MaxEdits
  /\ cacheFile \in Hashes \cup {None, Torn}
  /\ out \in [Target -> [Exts -> Module \cup {None, Torn}]]
  /\ phase \in Phase
  /\ scanned \in [Source -> Text \cup {None}]
  /\ cache \in Hashes
  /\ at \in [Target -> Step]
  /\ hash \in Hashes
  /\ used \in [Target -> Text \cup {None}]
  /\ quiet \in BOOLEAN
  /\ suspect \subseteq Target

Init ==
  /\ text = [s \in Source |-> FirstText]
  /\ edits = 0
  /\ cacheFile = None
  /\ out = [t \in Target |-> [e \in Exts |-> None]]
  /\ phase = "off"
  /\ scanned = [s \in Source |-> None]
  /\ cache = NoHash
  /\ at = [t \in Target |-> "idle"]
  /\ hash = NoHash
  /\ used = [t \in Target |-> None]
  /\ quiet = FALSE
  /\ suspect = {}

sources == <<text, edits>>
command == <<phase, scanned, cache, at, hash, used>>

-----------------------------------------------------------------------------
(* The developer, and the other commands.                                  *)

Edit(s, new) ==
  /\ edits < MaxEdits
  /\ new # text[s]
  /\ text' = [text EXCEPT ![s] = new]
  /\ edits' = edits + 1
  /\ quiet' = FALSE
  /\ UNCHANGED <<cacheFile, out, command, suspect>>

\* `gothic wasm clean` removes public/wasm and leaves the hash cache.
Clean ==
  /\ phase = "off"
  /\ \E t \in Target, e \in Exts : out[t][e] # None
  /\ out' = [t \in Target |-> [e \in Exts |-> None]]
  /\ quiet' = FALSE
  /\ UNCHANGED <<sources, cacheFile, command, suspect>>

-----------------------------------------------------------------------------
(* The command.                                                            *)

\* ScanPages reads every page; page bodies are taken from here on.
Scan ==
  /\ phase = "off"
  /\ Page # {}
  /\ phase' = "scanned"
  /\ scanned' = [text EXCEPT ![TopicDir] = None]
  /\ at' = [t \in Target |-> IF t \in Page THEN "waiting" ELSE "idle"]
  /\ quiet' = TRUE
  /\ UNCHANGED <<sources, cacheFile, out, cache, hash, used, suspect>>

\* A hash cache that is missing or does not parse is an empty one.
Loaded_AsRead == IF cacheFile = None THEN NoHash ELSE cacheFile
Loaded == IF cacheFile \in {None, Torn} THEN NoHash ELSE cacheFile

\* loadWasmCache, and the one collectTopicSnippets of all topic managers.
CollectTopics ==
  /\ phase = "scanned"
  /\ phase' = "managers"
  /\ cache' = Loaded
  /\ scanned' = [scanned EXCEPT ![TopicDir] = text[TopicDir]]
  /\ at' = [t \in Target |-> IF t \in Topic THEN "waiting" ELSE at[t]]
  /\ UNCHANGED <<sources, cacheFile, out, hash, used, quiet, suspect>>

Busy_CountsWaiting ==
  {t \in Target : at[t] \in {"waiting", "compile", "writing"}}
Busy == {t \in Target : at[t] \in {"compile", "writing"}}

\* The directories of local packages a page names in front of a symbol.
LocalDirs_Never(p) == None
LocalDirs(p) == IF p \in Qualified THEN text[TopicDir] ELSE None

PageHash(p) == [file |-> text[p], dirs |-> LocalDirs(p),
                ext |-> Ext(scanned[p])]

ManagerHash(t) == [file |-> text[TopicDir], dirs |-> None,
                   ext |-> Ext(scanned[TopicDir])]

InputHash(t) == IF t \in Page THEN PageHash(t) ELSE ManagerHash(t)

UpToDate_HashOnly(t) == cache[t] = InputHash(t)
UpToDate(t) ==
  /\ cache[t] = InputHash(t)
  /\ out[t][Ext(scanned[SourceOf(t)])] # None

Skip(t) ==
  /\ UpToDate(t)
  /\ at' = [at EXCEPT ![t] = "skipped"]
  /\ UNCHANGED <<out, hash>>

\* The stale file of the other compression is removed before the compiler runs.
Rebuild(t) ==
  /\ ~ UpToDate(t)
  /\ hash' = [hash EXCEPT ![t] = InputHash(t)]
  /\ out' = [out EXCEPT ![t] = [e \in Exts |->
                 IF e = Ext(scanned[SourceOf(t)]) THEN out[t][e] ELSE None]]
  /\ at' = [at EXCEPT ![t] = "compile"]

\* Topic managers are built one at a time and no more of them after a failure;
\* a page waits for a permit.  A page that fails gives its permit back before
\* the group is cancelled, so others may still begin.
MayBegin(t) ==
  /\ at[t] = "waiting"
  /\ IF t \in Topic
       THEN /\ phase = "managers"
            /\ Busy = {}
            /\ \A u \in Topic : at[u] # "failed"
       ELSE /\ phase = "pages"
            /\ Cardinality(Busy) < Cpus

Check(t) ==
  /\ MayBegin(t)
  /\ Skip(t) \/ Rebuild(t)
  /\ UNCHANGED <<sources, cacheFile, phase, scanned, cache, used, quiet,
                 suspect>>

Cancel(p) ==
  /\ phase = "pages"
  /\ at[p] = "waiting"
  /\ \E q \in Page : at[q] = "failed"
  /\ at' = [at EXCEPT ![p] = "cancelled"]
  /\ UNCHANGED <<sources, cacheFile, out, phase, scanned, cache, hash, used,
                 quiet, suspect>>

\* A page collects the topics again, after its hash was taken.
Snippets(t) == IF t \in Page THEN text[TopicDir] ELSE scanned[TopicDir]

\* compressWasmWith empties the file that is served and then fills it.
Compile(t) ==
  /\ at[t] = "compile"
  /\ used' = [used EXCEPT ![t] = Snippets(t)]
  /\ out' = [out EXCEPT ![t][Ext(scanned[SourceOf(t)])] = Torn]
  /\ at' = [at EXCEPT ![t] = "writing"]
  /\ UNCHANGED <<sources, cacheFile, phase, scanned, cache, hash, quiet,
                 suspect>>

\* No directory, no compiler, an error in the code, also after `go mod vendor`,
\* or a disk that is full: the target's build returns an error.
Fail(t) ==
  /\ t \in Busy
  /\ at' = [at EXCEPT ![t] = "failed"]
  /\ UNCHANGED <<sources, cacheFile, out, phase, scanned, cache, hash, used,
                 quiet, suspect>>

Record(t) == cache' = [cache EXCEPT ![t] = hash[t]]

Fill(t) ==
  /\ at[t] = "writing"
  /\ out' = [out EXCEPT ![t][Ext(scanned[SourceOf(t)])] =
                 [code |-> scanned[SourceOf(t)], topics |-> used[t]]]
  /\ Record(t)
  /\ at' = [at EXCEPT ![t] = "built"]
  /\ UNCHANGED <<sources, cacheFile, phase, scanned, hash, used, quiet,
                 suspect>>

\* GenerateTopicManagers returns; an error of it is only logged.
ManagersEnd ==
  /\ phase = "managers"
  /\ Busy = {}
  /\ \/ \A t \in Topic : at[t] # "waiting"
     \/ \E t \in Topic : at[t] = "failed"
  /\ phase' = "pages"
  /\ UNCHANGED <<sources, cacheFile, out, scanned, cache, at, hash, used,
                 quiet, suspect>>

PagesEnded == /\ phase = "pages"
              /\ \A p \in Page :
                   at[p] \in {"built", "skipped", "failed", "cancelled"}

\* The outputs the command has touched, and those compiled from other texts
\* than it hashed: an edit fell between the scan and the hash, or between the
\* hash and the collection of the topics.
Touched == {t \in Target : hash[t] # None}
Raced == {t \in Touched : \/ hash[t].file # scanned[SourceOf(t)]
                         \/ hash[t].dirs \notin {None, used[t]}}

\* The process ends, and its memory with it.
Exit ==
  /\ phase' = "off"
  /\ scanned' = [s \in Source |-> None]
  /\ cache' = NoHash
  /\ at' = [t \in Target |-> "idle"]
  /\ hash' = NoHash
  /\ used' = [t \in Target |-> None]
  /\ UNCHANGED <<sources, out>>

\* GenerateAll returns the error of a page; nothing is written to the cache.
GiveUp ==
  /\ PagesEnded
  /\ \E p \in Page : at[p] = "failed"
  /\ Exit
  /\ suspect' = suspect \cup Touched
  /\ quiet' = FALSE
  /\ UNCHANGED cacheFile

\* save writes the file in place: first it is empty,
Save ==
  /\ PagesEnded
  /\ \A p \in Page : at[p] # "failed"
  /\ phase' = "saving"
  /\ cacheFile' = Torn
  /\ UNCHANGED <<sources, out, scanned, cache, at, hash, used, quiet, suspect>>

\* then it holds the hashes, and the command ends.
Saved ==
  /\ phase = "saving"
  /\ cacheFile' = cache
  /\ Exit
  /\ UNCHANGED quiet
  /\ suspect' = (suspect \ {t \in Target : at[t] = "built"})
                  \cup Raced \cup {t \in Topic : at[t] \in {"failed", "waiting"}}

\* The process is killed, or exits by itself (os.Exit) on code it cannot parse.
Kill ==
  /\ phase # "off"
  /\ Exit
  /\ suspect' = suspect \cup Touched
  /\ quiet' = FALSE
  /\ UNCHANGED cacheFile

Building(t) == Check(t) \/ Compile(t) \/ Fill(t)
GenerateAll == CollectTopics \/ ManagersEnd \/ GiveUp \/ Save \/ Saved

Next ==
  \/ \E s \in Source, new \in Text : Edit(s, new)
  \/ Clean
  \/ Scan
  \/ GenerateAll
  \/ \E t \in Target : Building(t)
  \/ \E t \in Target : Fail(t)
  \/ \E p \in Page : Cancel(p)
  \/ Kill

\* A command that runs goes on, as long as one of its goroutines can: they are
\* scheduled and compilers end.  Nothing makes the developer start one or edit.
Work ==
  \/ GenerateAll
  \/ \E t \in Target : Building(t)
  \/ \E p \in Page : Cancel(p)
Fairness == WF_vars(Work)

Spec == Init /\ [][Next]_vars /\ Fairness

-----------------------------------------------------------------------------
(* Properties.                                                             *)

Whole(t, code) ==
  /\ out[t][Ext(code)] \in Module
  /\ out[t][Ext(code)].code = code
  /\ \A e \in Exts \ {Ext(code)} : out[t][e] = None

\* After a command that reports no error, and with no edit since its scan,
\* every target is served whole, compiled from the text its source has now, and
\* in one compression only -- however earlier commands were cut short, failed or
\* raced with edits, and whatever was skipped.  Left out are the targets in
\* suspect: those rebuilt by a command that did not write its hashes, or that an
\* edit reached while they were built, until a later command builds them again,
\* and the topic managers the command tried to build and could not.
BuiltIsCurrent ==
  phase = "off" /\ quiet =>
    \A t \in Target \ suspect : Whole(t, text[SourceOf(t)])

\* A page that names the topics package, so that its directory is hashed, is
\* also compiled with the topics as they are now.
QualifiedUseCurrentTopics ==
  phase = "off" /\ quiet =>
    \A p \in Qualified \ suspect :
      out[p][Ext(text[p])].topics = text[TopicDir]

\* A command never waits for ever: every page gets a permit or is cancelled,
\* whichever fail and in which order they come.
CommandEnds == []<>(phase = "off")

=============================================================================
