------------------------------- MODULE TopicGen -------------------------------
(***************************************************************************)
(* Generation of topic accessors.  Each pass reads src/topics, writes      *)
(* topic_gen.go and then takes the names it has turned into functions away *)
(* from the declarations of the author (wasm_topic.go).  A command makes a *)
(* pass before the pages are scanned, one to count the managers, one to    *)
(* build them, and then one for each page, all pages at the same time.     *)
(* Commands may be killed at any step; the author edits between commands.  *)
(*                                                                         *)
(* A file is [structs, creates]: the names of its structs, and its         *)
(* CreateTopic declarations in order.  Go identifiers are sequences of     *)
(* words, the empty one standing for no name.                              *)
(***************************************************************************)
EXTENDS Integers, Sequences, FiniteSets, FiniteSetsExt

CONSTANTS TopicFile,  \* the files of src/topics
          Author,     \* what an author may write there: a file for each of them
          Page        \* the pages of the project

NoName == <<>>
Blank == <<"_">>
NoKey == ""
Nothing == [x \in {} |-> NoName]

Passes == {"stubs", "count", "managers"} \cup Page

-----------------------------------------------------------------------------
(* parseStructsFromSource, per file.                                       *)

\* collectCreateTopicMetas: the last declaration for a struct in the file.
Declared(file, s) == {j \in DOMAIN file.creates : file.creates[j].of = s}
Meta(file, s) == file.creates[Max(Declared(file, s))]

NameOf_VarFirst(c) ==
  IF c.var # Blank THEN c.var ELSE c.subscriber
NameOf(c) ==
  CASE c.subscriber # NoName -> c.subscriber
    [] c.subscriber = NoName /\ c.var # Blank -> c.var
    [] OTHER -> NoName

StructOf(file, s) ==
  IF Declared(file, s) = {} THEN [key |-> NoKey, accessor |-> NoName, component |-> NoName]
  ELSE [key |-> Meta(file, s).key, accessor |-> NameOf(Meta(file, s)),
        component |-> Meta(file, s).component]

Name == Seq(STRING)
Creation ==
  [var : Name \cup {Blank}, of : Name, key : STRING, subscriber : Name, component : Name]
Source == [structs : SUBSET Name, creates : Seq(Creation)]

\* A struct is [file, name].
Structs(src) == {t \in [file : DOMAIN src, name : UNION {src[f].structs : f \in DOMAIN src}] :
                   t.name \in src[t.file].structs}
Info(src, t) == StructOf(src[t.file], t.name)
Topics(src) == {t \in Structs(src) : Info(src, t).key # NoKey}

\* topicFuncNameFor, componentFuncNameFor, topicTypeName.
Accessor(src, t) ==
  IF Info(src, t).accessor # NoName THEN Info(src, t).accessor ELSE t.name \o <<"Topic">>
Component(src, t) ==
  IF Info(src, t).component # NoName THEN Info(src, t).component
  ELSE <<"Add">> \o Accessor(src, t)

\* What is generated for a topic.
Generated(src, t) ==
  [id |-> t.name \o <<"Key">>, type |-> <<"lower">> \o t.name \o <<"Topic">>,
   func |-> Accessor(src, t), mount |-> Component(src, t), wasm |-> Info(src, t).key]

-----------------------------------------------------------------------------
VARIABLES
  author,    \* history: the sources as the author left them
  sources,   \* src/topics: file -> content
  genFile,   \* src/topics/topic_gen.go
  phase,     \* phase[w]: where pass w of the command is
  snapshot,  \* snapshot[w]: the files it has read
  left       \* left[w]: the files it has still to read, or to rewrite

topicVars == <<author, sources, genFile, phase, snapshot, left>>

\* topic_gen.go goes when no struct is left.
NoFile == [exists |-> FALSE, topics |-> Nothing]
GenFile(src) ==
  IF Structs(src) = {} THEN NoFile
  ELSE [exists |-> TRUE, topics |-> [t \in Topics(src) |-> Generated(src, t)]]

TopicInit ==
  /\ author \in Author /\ sources = author /\ genFile = NoFile
  /\ phase = [w \in Passes |-> "waiting"]
  /\ snapshot = [w \in Passes |-> Nothing]
  /\ left = [w \in Passes |-> {}]

\* A pass that finds an error ends the process, with all its goroutines.
Exited == \E w \in Passes : phase[w] = "exit"

\* The stubs, then the managers, then the pages; the managers may be counted first.
MayBegin(w) ==
  CASE w = "stubs" -> TRUE
    [] w = "count" -> phase["stubs"] = "done" /\ phase["managers"] = "waiting"
    [] w = "managers" -> phase["stubs"] = "done" /\ phase["count"] \in {"waiting", "done"}
    [] OTHER -> phase["managers"] = "done"

Begin(w) ==
  /\ ~ Exited /\ phase[w] = "waiting" /\ MayBegin(w)
  /\ phase' = [phase EXCEPT ![w] = "reading"]
  /\ left' = [left EXCEPT ![w] = TopicFile]
  /\ UNCHANGED <<author, sources, genFile, snapshot>>

ReadFile(w, f) ==
  /\ ~ Exited /\ phase[w] = "reading" /\ f \in left[w]
  /\ left' = [left EXCEPT ![w] = @ \ {f}]
  /\ snapshot' = [snapshot EXCEPT ![w] =
                    [g \in DOMAIN @ \cup {f} |-> IF g = f THEN sources[f] ELSE @[g]]]
  /\ UNCHANGED <<author, sources, genFile, phase>>

SameKey(src) ==
  \E t, u \in Topics(src) : t # u /\ Info(src, t).key = Info(src, u).key

RejectKeys(w) ==
  /\ ~ Exited /\ phase[w] = "reading" /\ left[w] = {} /\ SameKey(snapshot[w])
  /\ phase' = [phase EXCEPT ![w] = "exit"]
  /\ UNCHANGED <<author, sources, genFile, snapshot, left>>

\* writeTopicKeyStubs.
WriteStubs(w) ==
  /\ ~ Exited /\ phase[w] = "reading" /\ left[w] = {} /\ ~ SameKey(snapshot[w])
  /\ genFile' = GenFile(snapshot[w])
  /\ phase' = [phase EXCEPT ![w] = "rewriting"]
  /\ left' = [left EXCEPT ![w] = TopicFile]
  /\ UNCHANGED <<author, sources, snapshot>>

\* normalizeTopicDeclarations: in every file, as it is by then, whichever struct
\* the name is of.
Taken(src) == {Info(src, t).accessor : t \in Structs(src)} \ {NoName}

Fresh(c, names) == IF c.var \in names THEN [c EXCEPT !.var = Blank] ELSE c
Without_First(names, file) ==
  [file EXCEPT !.creates =
     [j \in DOMAIN @ |-> IF \E i \in DOMAIN @ : i < j /\ @[i].var \in names
                         THEN @[j] ELSE Fresh(@[j], names)]]
Without_None(names, file) == file
Without(names, file) ==
  [file EXCEPT !.creates = [j \in DOMAIN @ |-> Fresh(@[j], names)]]

Rewrite(w, f) ==
  /\ ~ Exited /\ phase[w] = "rewriting" /\ f \in left[w]
  /\ sources' = [sources EXCEPT ![f] = Without(Taken(snapshot[w]), @)]
  /\ left' = [left EXCEPT ![w] = @ \ {f}]
  /\ UNCHANGED <<author, genFile, phase, snapshot>>

\* The pass returns the files as it read them, for the mains to include.
EndPass(w) ==
  /\ ~ Exited /\ phase[w] = "rewriting" /\ left[w] = {}
  /\ phase' = [phase EXCEPT ![w] = "done"]
  /\ UNCHANGED <<author, sources, genFile, snapshot, left>>

\* The command is over, or killed: the next one finds the files as they are.
NextCommand ==
  /\ phase' = [w \in Passes |-> "waiting"]
  /\ snapshot' = [w \in Passes |-> Nothing]
  /\ left' = [w \in Passes |-> {}]
  /\ UNCHANGED <<author, sources, genFile>>

Edit ==
  /\ \A w \in Passes : phase[w] = "waiting"
  /\ author' \in Author /\ sources' = author'
  /\ UNCHANGED <<genFile, phase, snapshot, left>>

TopicNext ==
  \/ \E w \in Passes :
       \/ Begin(w) \/ RejectKeys(w) \/ WriteStubs(w) \/ EndPass(w)
       \/ \E f \in TopicFile : ReadFile(w, f) \/ Rewrite(w, f)
  \/ NextCommand \/ Edit

TopicSpec == TopicInit /\ [][TopicNext]_topicVars

-----------------------------------------------------------------------------
\* The declarations of a package made of topic sources and generated code.
OfAuthor(src) ==
  {[kind |-> "struct", of |-> t, name |-> t.name] : t \in Structs(src)} \cup
  UNION {{[kind |-> "var", of |-> [file |-> f, at |-> j], name |-> src[f].creates[j].var] :
            j \in {i \in DOMAIN src[f].creates : src[f].creates[i].var # Blank}} :
         f \in DOMAIN src}
OfTool(topics, kinds) ==
  {[kind |-> k, of |-> t, name |-> topics[t][k]] : k \in kinds, t \in DOMAIN topics}

Once(decls) == \A d, e \in decls : d.name = e.name => d = e

OnDisk == {"id", "type", "func", "mount"}
InMain == OnDisk \ {"mount"}

\* Topic sources are a Go package: no name is declared twice in them.
ASSUME TopicGenAssumption ==
  \A src \in Author :
    src \in [TopicFile -> Source] /\ Once(OfAuthor(src))

HasRead(w) ==
  CASE phase[w] = "waiting" -> {}
    [] phase[w] = "reading" -> TopicFile \ left[w]
    [] OTHER -> TopicFile

TopicTypeOK ==
  /\ author \in Author
  /\ sources \in [TopicFile -> Source]
  /\ phase \in [Passes -> {"waiting", "reading", "rewriting", "done", "exit"}]
  /\ left \in [Passes -> SUBSET TopicFile]
  /\ DOMAIN snapshot = Passes
  /\ \A w \in Passes : snapshot[w] \in [HasRead(w) -> Source]
  /\ genFile.exists \in BOOLEAN
  /\ DOMAIN genFile.topics \subseteq [file : TopicFile, name : Name]

\* What the sources are once no name is left to take away.
Rewritten(src) == [f \in DOMAIN src |-> Without(Taken(src), src[f])]

\* Sources whose names survive: a variable that is not the default name of its
\* topic comes with a SubscriberFnName (the form the documentation shows).
NamesAreConfigured(src) ==
  \A f \in DOMAIN src : \A j \in DOMAIN src[f].creates :
    LET c == src[f].creates[j]
    IN  c.subscriber # NoName \/ c.var \in {Blank, c.of \o <<"Topic">>}

\* The accessors and mounts that pages are type-checked against, after the first
\* pass, are those of every later one, when the author's variables are gone, of
\* this command or of one after a kill in the middle of the rewriting: topic_gen.go
\* stays the same, and the mains define what the pages call.
AccessorsStay ==
  NamesAreConfigured(author) =>
    \A w \in Passes : phase[w] = "done" =>
      genFile = GenFile(author) /\ GenFile(snapshot[w]) = GenFile(author)

\* Sources that give each topic names of its own: with the author's variable or
\* without it, what is generated has no name of another topic, nor of a struct,
\* and that of a variable only where it is the accessor.
NamesAreOwn(src) ==
  LET may == [t \in Topics(src) |-> {Generated(src, t), Generated(Rewritten(src), t)}]
      own == OfAuthor(src)
      taken == Taken(src)
  IN  \A t \in DOMAIN may : \A g \in may[t] : \A k \in OnDisk :
        /\ \A u \in DOMAIN may : \A h \in may[u] : \A l \in OnDisk :
             g[k] = h[l] => t = u /\ k = l
        /\ \A d \in own : d.name = g[k] => d.kind = "var" /\ d.name \in taken

\* Generated code and topic sources live in one package and no name is declared
\* twice in it, although the accessors are named after the author's own
\* variables: on disk once the first pass is done, and in the mains.
NamesOnce ==
  phase["stubs"] = "done" /\ NamesAreOwn(author) =>
    /\ Once(OfAuthor(sources) \cup OfTool(genFile.topics, OnDisk))
    /\ \A w \in Passes \ {"stubs"} : phase[w] = "done" =>
         Once(OfAuthor(snapshot[w]) \cup OfTool(GenFile(snapshot[w]).topics, InMain))

\* Only the first pass of a command rewrites the author's files, however many
\* variables they have: the passes of the pages, which run at the same time, read
\* files that nobody writes.
OnlyFirstRewrites ==
  [][phase["stubs"] = "done" /\ phase'["stubs"] = "done" => sources' = sources]_topicVars

\* PregenerateTopicStubs is safe to call repeatedly: topic_gen.go stays as it is.
RepeatIsSafe == phase["stubs"] = "done" => genFile = GenFile(author)
==============================================================================
