--------------------------- MODULE WasmBuildProofs ---------------------------
(***************************************************************************)
(* Proofs about the incremental build: for any pages, topics, texts and    *)
(* number of permits, what a quiet command leaves is current.              *)
(***************************************************************************)
EXTENDS WasmBuild, TLAPS

-----------------------------------------------------------------------------
(* The invariant.                                                          *)

Worked == {"compile", "writing", "built", "failed"}

\* Where the targets can be in each phase.
Control ==
  /\ \A t \in Target : hash[t] # None <=> at[t] \in Worked
  /\ phase = "off" => \A t \in Target : at[t] = "idle"
  /\ phase = "scanned" => \A t \in Target :
       at[t] = IF t \in Page THEN "waiting" ELSE "idle"
  /\ phase = "managers" => \A p \in Page : at[p] = "waiting"
  /\ phase \in {"managers", "pages", "saving"} => \A t \in Target : at[t] # "idle"
  /\ phase \in {"pages", "saving"} => \A t \in Topic :
       at[t] \in {"built", "skipped", "failed", "waiting"}
  /\ \A t \in Topic : at[t] # "cancelled"
  /\ \A p \in Page : at[p] = "cancelled" => \E q \in Page : at[q] = "failed"
  /\ phase = "saving" => \A p \in Page : at[p] \in {"built", "skipped"}
  /\ phase # "off" => \A p \in Page : scanned[p] \in Text
  /\ phase \in {"managers", "pages", "saving"} => scanned[TopicDir] \in Text
  /\ \A t \in Target : at[t] \in {"writing", "built"} => used[t] \in Text

\* A hash that still describes the outputs o of its target: if there is one of
\* its compression at all, it is the whole one that was compiled from its inputs.
Fits(o, h) ==
  h # None /\ o[h.ext] # None =>
    /\ h.ext = Ext(h.file)
    /\ o[h.ext] \in Module /\ o[h.ext].code = h.file
    /\ \A e \in Exts \ {h.ext} : o[e] = None
    /\ h.dirs # None => o[h.ext].topics = h.dirs

Trusted == {t \in Target \ suspect : hash[t] = None}

HashesFit ==
  /\ cacheFile \notin {None, Torn} => \A t \in Trusted : Fits(out[t], cacheFile[t])
  /\ \A t \in Trusted : Fits(out[t], cache[t])

\* What is known of a target that is being built, or has been.
InWork(t) ==
  /\ at[t] \in {"compile", "writing", "built"} =>
       /\ hash[t].ext = Ext(scanned[SourceOf(t)])
       /\ t \in Qualified => hash[t].dirs # None
       /\ t \notin Qualified => hash[t].dirs = None
       /\ \A e \in Exts \ {hash[t].ext} : out[t][e] = None
  /\ at[t] = "built" =>
       /\ cache[t] = hash[t]
       /\ out[t][hash[t].ext] = [code |-> scanned[SourceOf(t)], topics |-> used[t]]

Current(t) ==
  /\ Whole(t, text[SourceOf(t)])
  /\ t \in Qualified => out[t][Ext(text[t])].topics = text[TopicDir]

\* While nothing is edited, the command works from the texts on disk.
Quiet ==
  quiet =>
    /\ phase = "off" => \A t \in Target \ suspect : Current(t)
    /\ phase # "off" => \A p \in Page : scanned[p] = text[p]
    /\ phase \in {"managers", "pages", "saving"} => scanned[TopicDir] = text[TopicDir]
    /\ \A t \in Target :
         /\ at[t] \in {"writing", "built"} => used[t] = text[TopicDir]
         /\ at[t] = "skipped" /\ t \notin suspect => Current(t)

IInv ==
  /\ TypeOK
  /\ Control
  /\ HashesFit
  /\ \A t \in Target : InWork(t)
  /\ Quiet

-----------------------------------------------------------------------------
(* Types and control.                                                      *)

LEMMA ExtType == \A x : Ext(x) \in Exts
  BY DEF Ext, Exts

LEMMA SourceType ==
  /\ TopicDir \in Source
  /\ \A t \in Target : SourceOf(t) \in Source
  /\ \A p \in Page : p \in Target /\ p \in Source /\ SourceOf(p) = p
  /\ \A t \in Topic : t \in Target /\ t \notin Page /\ SourceOf(t) = TopicDir
  BY BuildAssumption DEF Source, Target, SourceOf

LEMMA HashType ==
  ASSUME TypeOK, NEW t \in Target
  PROVE  InputHash(t) \in Hash /\ InputHash(t) # None
<1>1. InputHash(t) \in Hash
  BY ExtType, SourceType, BuildAssumption
     DEF TypeOK, InputHash, PageHash, ManagerHash, LocalDirs, Hash, Target
<1> QED
  BY <1>1, BuildAssumption DEF Hash, Exts

LEMMA Bounds == MaxEdits \in Nat /\ FirstText \in Text
  BY BuildAssumption

LEMMA InitType == Init => TypeOK
<1> SUFFICES ASSUME Init PROVE TypeOK
  OBVIOUS
<1>1. edits \in 0 .. MaxEdits
  BY Bounds DEF Init
<1> QED
  BY <1>1, Bounds DEF Init, TypeOK, Hashes, NoHash, Phase, Step

LEMMA NoHashType == NoHash \in Hashes
  BY DEF NoHash, Hashes

LEMMA ExitType ==
  ASSUME TypeOK, Exit
  PROVE  /\ text' \in [Source -> Text] /\ edits' \in 0 .. MaxEdits
         /\ out' \in [Target -> [Exts -> Module \cup {None, Torn}]]
         /\ phase' \in Phase /\ scanned' \in [Source -> Text \cup {None}]
         /\ cache' \in Hashes /\ at' \in [Target -> Step] /\ hash' \in Hashes
         /\ used' \in [Target -> Text \cup {None}]
  BY NoHashType DEF TypeOK, Exit, sources, Phase, Step

LEMMA NextType == TypeOK /\ Control /\ [Next]_vars => TypeOK'
<1> SUFFICES ASSUME TypeOK, Control, [Next]_vars PROVE TypeOK'
  OBVIOUS
<1> USE DEF sources, command
<1>1. ASSUME NEW s \in Source, NEW new \in Text, Edit(s, new) PROVE TypeOK'
  <2>1. edits' \in 0 .. MaxEdits
    BY <1>1, Bounds DEF TypeOK, Edit
  <2> QED
    BY <1>1, <2>1 DEF TypeOK, Edit
<1>2. CASE Clean
  BY <1>2 DEF TypeOK, Clean
<1>3. CASE Scan
  BY <1>3, SourceType DEF TypeOK, Scan, Phase, Step
<1>4. CASE CollectTopics
  <2>1. Loaded \in Hashes
    BY NoHashType DEF TypeOK, Loaded
  <2> QED
    BY <1>4, <2>1, SourceType DEF TypeOK, CollectTopics, Phase, Step
<1>5. CASE ManagersEnd
  BY <1>5 DEF TypeOK, ManagersEnd, Phase
<1>6. CASE GiveUp
  BY <1>6, ExitType DEF TypeOK, GiveUp, Touched
<1>7. CASE Save
  BY <1>7 DEF TypeOK, Save, Phase
<1>8. CASE Saved
  BY <1>8, ExitType, SourceType DEF TypeOK, Saved, Touched, Raced
<1>9. ASSUME NEW t \in Target, Check(t) PROVE TypeOK'
  <2>1. CASE Skip(t)
    BY <1>9, <2>1 DEF TypeOK, Check, Skip, Step
  <2>2. CASE Rebuild(t)
    <3>1. hash' \in Hashes
      BY <2>2, HashType DEF TypeOK, Rebuild, Hashes
    <3>2. out' \in [Target -> [Exts -> Module \cup {None, Torn}]]
      BY <2>2 DEF TypeOK, Rebuild
    <3> QED
      BY <1>9, <2>2, <3>1, <3>2 DEF TypeOK, Check, Rebuild, Step
  <2> QED
    BY <1>9, <2>1, <2>2 DEF Check
<1>10. ASSUME NEW t \in Target, Compile(t) PROVE TypeOK'
  <2>1. Snippets(t) \in Text \cup {None}
    BY SourceType DEF TypeOK, Snippets
  <2>2. out' \in [Target -> [Exts -> Module \cup {None, Torn}]]
    BY <1>10, ExtType DEF TypeOK, Compile
  <2> QED
    BY <1>10, <2>1, <2>2 DEF TypeOK, Compile, Step
<1>11. ASSUME NEW t \in Target, Fill(t) PROVE TypeOK'
  <2>1. scanned[SourceOf(t)] \in Text /\ used[t] \in Text
    <3>1. phase \notin {"off", "scanned"}
      BY <1>11 DEF Fill, Control
    <3> QED
      BY <1>11, <3>1, SourceType DEF Control, Fill, TypeOK, Phase, Target
  <2>2. [code |-> scanned[SourceOf(t)], topics |-> used[t]] \in Module
    BY <2>1 DEF Module
  <2>3. out' \in [Target -> [Exts -> Module \cup {None, Torn}]]
    BY <1>11, <2>2, ExtType DEF TypeOK, Fill
  <2>4. cache' \in Hashes
    BY <1>11 DEF Fill, Record, TypeOK, Hashes
  <2> QED
    BY <1>11, <2>3, <2>4 DEF TypeOK, Fill, Step
<1>12. ASSUME NEW t \in Target, Fail(t) PROVE TypeOK'
  BY <1>12 DEF TypeOK, Fail, Step
<1>13. ASSUME NEW p \in Page, Cancel(p) PROVE TypeOK'
  BY <1>13 DEF TypeOK, Cancel, Step
<1>14. CASE Kill
  BY <1>14, ExitType DEF TypeOK, Kill, Touched
<1>15. CASE UNCHANGED vars
  BY <1>15 DEF TypeOK, vars
<1> QED
  BY <1>1, <1>2, <1>3, <1>4, <1>5, <1>6, <1>7, <1>8, <1>9, <1>10, <1>11, <1>12,
     <1>13, <1>14, <1>15 DEF Next, GenerateAll, Building

LEMMA ExitControl == Exit => Control'
<1> SUFFICES ASSUME Exit PROVE Control'
  OBVIOUS
<1>1. \A t \in Target : at'[t] = "idle" /\ hash'[t] = None
  BY DEF Exit, NoHash
<1>2. phase' = "off"
  BY DEF Exit
<1> QED
  BY <1>1, <1>2, SourceType DEF Control, Worked

LEMMA InitControl == Init => Control
  BY SourceType DEF Init, Control, NoHash, Worked

LEMMA NextControl == TypeOK /\ Control /\ [Next]_vars => Control'
<1> SUFFICES ASSUME TypeOK, Control, [Next]_vars PROVE Control'
  OBVIOUS
<1> USE SourceType DEF sources, command
<1>1. ASSUME NEW s \in Source, NEW new \in Text, Edit(s, new) PROVE Control'
  BY <1>1 DEF Control, Edit
<1>2. CASE Clean
  BY <1>2 DEF Control, Clean
<1>3. CASE Scan
  BY <1>3, BuildAssumption DEF TypeOK, Control, Scan, Worked, Source
<1>4. CASE CollectTopics
  BY <1>4 DEF TypeOK, Control, CollectTopics, Worked, Target
<1>5. CASE ManagersEnd
  <2>1. \A t \in Topic : at[t] \in {"built", "skipped", "failed", "waiting"}
    BY <1>5 DEF TypeOK, Control, ManagersEnd, Busy, Step
  <2> QED
    BY <1>5, <2>1 DEF Control, ManagersEnd
<1>6. CASE GiveUp
  BY <1>6, ExitControl DEF GiveUp
<1>7. CASE Save
  BY <1>7 DEF Control, Save, PagesEnded
<1>8. CASE Saved
  BY <1>8, ExitControl DEF Saved
<1>9. ASSUME NEW t \in Target, Check(t) PROVE Control'
  <2>1. /\ at[t] = "waiting" /\ phase \in {"managers", "pages"}
        /\ t \in Page => phase = "pages"
        /\ t \in Topic => phase = "managers"
    BY <1>9 DEF Check, MayBegin, Target
  <2>2. CASE Skip(t)
    BY <1>9, <2>1, <2>2 DEF TypeOK, Control, Check, Skip, Worked, Target
  <2>3. CASE Rebuild(t)
    BY <1>9, <2>1, <2>3, HashType
       DEF TypeOK, Control, Check, Rebuild, Worked, Target, Hashes
  <2> QED
    BY <1>9, <2>2, <2>3 DEF Check
<1>10. ASSUME NEW t \in Target, Compile(t) PROVE Control'
  <2>1. phase \in {"managers", "pages"} /\ (t \in Topic => phase = "managers")
        /\ (t \in Page => phase = "pages")
    BY <1>10 DEF Control, Compile, TypeOK, Phase, Target
  <2>2. Snippets(t) \in Text
    BY <2>1 DEF Control, Snippets, TypeOK
  <2> QED
    BY <1>10, <2>1, <2>2 DEF TypeOK, Control, Compile, Worked, Target
<1>11. ASSUME NEW t \in Target, Fill(t) PROVE Control'
  <2>1. phase \in {"managers", "pages"} /\ (t \in Page => phase = "pages")
    BY <1>11 DEF Control, Fill, TypeOK, Phase, Target
  <2> QED
    BY <1>11, <2>1 DEF TypeOK, Control, Fill, Worked, Target
<1>12. ASSUME NEW t \in Target, Fail(t) PROVE Control'
  <2>1. at[t] \in {"compile", "writing"}
    BY <1>12 DEF Fail, Busy
  <2>2. phase \in {"managers", "pages"} /\ (t \in Page => phase = "pages")
    BY <2>1 DEF Control, TypeOK, Phase, Target
  <2> QED
    BY <1>12, <2>1, <2>2 DEF TypeOK, Control, Fail, Worked, Target
<1>13. ASSUME NEW p \in Page, Cancel(p) PROVE Control'
  BY <1>13 DEF TypeOK, Control, Cancel, Worked, Target
<1>14. CASE Kill
  BY <1>14, ExitControl DEF Kill
<1>15. CASE UNCHANGED vars
  BY <1>15 DEF Control, vars
<1> QED
  BY <1>1, <1>2, <1>3, <1>4, <1>5, <1>6, <1>7, <1>8, <1>9, <1>10, <1>11, <1>12,
     <1>13, <1>14, <1>15 DEF Next, GenerateAll, Building

-----------------------------------------------------------------------------
(* Targets in work.                                                        *)

LEMMA WorkKept ==
  ASSUME NEW t \in Target, InWork(t),
         at'[t] = at[t], hash'[t] = hash[t], out'[t] = out[t],
         cache'[t] = cache[t], used'[t] = used[t],
         scanned'[SourceOf(t)] = scanned[SourceOf(t)]
  PROVE  InWork(t)'
  BY DEF InWork

LEMMA NotWorked ==
  ASSUME NEW t \in Target, at'[t] \notin {"compile", "writing", "built"}
  PROVE  InWork(t)'
  BY DEF InWork

LEMMA NextInWork ==
  ASSUME TypeOK, Control, NEW u \in Target, InWork(u), [Next]_vars
  PROVE  InWork(u)'
<1> USE SourceType DEF sources, command
<1>1. ASSUME NEW s \in Source, NEW new \in Text, Edit(s, new) PROVE InWork(u)'
  BY <1>1, WorkKept DEF Edit
<1>2. CASE Clean
  BY <1>2, NotWorked DEF Clean, Control
<1>3. CASE Scan
  BY <1>3, NotWorked DEF Scan
<1>4. CASE CollectTopics
  BY <1>4, NotWorked DEF CollectTopics, Control
<1>5. CASE ManagersEnd
  BY <1>5, WorkKept DEF ManagersEnd
<1>6. CASE GiveUp \/ Saved \/ Kill
  BY <1>6, NotWorked DEF GiveUp, Saved, Kill, Exit
<1>7. CASE Save
  BY <1>7, WorkKept DEF Save
<1>8. ASSUME NEW t \in Target, Skip(t), Check(t) PROVE InWork(u)'
  <2>1. CASE u = t
    BY <1>8, <2>1, NotWorked DEF TypeOK, Skip
  <2>2. CASE u # t
    BY <1>8, <2>2, WorkKept DEF TypeOK, Skip, Check
  <2> QED
    BY <2>1, <2>2
<1>9. ASSUME NEW t \in Target, Rebuild(t), Check(t) PROVE InWork(u)'
  <2>1. CASE u = t
    <3>1. /\ at'[t] = "compile" /\ hash'[t] = InputHash(t)
          /\ scanned' = scanned
      BY <1>9 DEF TypeOK, Hashes, Rebuild, Check
    <3>2. InputHash(t).ext = Ext(scanned[SourceOf(t)])
      BY DEF InputHash, PageHash, ManagerHash, Target
    <3>3. /\ t \in Qualified => InputHash(t).dirs # None
          /\ t \notin Qualified => InputHash(t).dirs = None
      BY BuildAssumption
         DEF InputHash, PageHash, ManagerHash, LocalDirs, TypeOK, Target
    <3>4. \A e \in Exts \ {Ext(scanned[SourceOf(t)])} : out'[t][e] = None
      BY <1>9 DEF Rebuild, TypeOK
    <3> QED
      BY <2>1, <3>1, <3>2, <3>3, <3>4 DEF InWork
  <2>2. CASE u # t
    BY <1>9, <2>2, WorkKept DEF TypeOK, Rebuild, Check, Hashes
  <2> QED
    BY <2>1, <2>2
<1>10. ASSUME NEW t \in Target, Compile(t) PROVE InWork(u)'
  <2>1. CASE u = t
    <3>1. /\ at[t] = "compile" /\ at'[t] = "writing" /\ hash' = hash
          /\ scanned' = scanned
      BY <1>10 DEF Compile, TypeOK
    <3>2. \A e \in Exts \ {Ext(scanned[SourceOf(t)])} : out'[t][e] = out[t][e]
      BY <1>10 DEF Compile, TypeOK
    <3> QED
      BY <2>1, <3>1, <3>2 DEF InWork
  <2>2. CASE u # t
    BY <1>10, <2>2, WorkKept DEF TypeOK, Compile
  <2> QED
    BY <2>1, <2>2
<1>11. ASSUME NEW t \in Target, Fill(t) PROVE InWork(u)'
  <2>1. CASE u = t
    <3>1. /\ at[t] = "writing" /\ at'[t] = "built" /\ hash' = hash
          /\ scanned' = scanned /\ used' = used /\ cache'[t] = hash[t]
      BY <1>11 DEF Fill, Record, TypeOK, Hashes
    <3>2. /\ \A e \in Exts \ {Ext(scanned[SourceOf(t)])} : out'[t][e] = out[t][e]
          /\ out'[t][Ext(scanned[SourceOf(t)])]
               = [code |-> scanned[SourceOf(t)], topics |-> used[t]]
      BY <1>11, ExtType DEF Fill, TypeOK
    <3> QED
      BY <2>1, <3>1, <3>2 DEF InWork
  <2>2. CASE u # t
    BY <1>11, <2>2, WorkKept DEF TypeOK, Fill, Record, Hashes
  <2> QED
    BY <2>1, <2>2
<1>12. ASSUME NEW t \in Target, Fail(t) PROVE InWork(u)'
  <2>1. CASE u = t
    BY <1>12, <2>1, NotWorked DEF TypeOK, Fail
  <2>2. CASE u # t
    BY <1>12, <2>2, WorkKept DEF TypeOK, Fail
  <2> QED
    BY <2>1, <2>2
<1>13. ASSUME NEW p \in Page, Cancel(p) PROVE InWork(u)'
  <2>1. CASE u = p
    BY <1>13, <2>1, NotWorked DEF TypeOK, Cancel
  <2>2. CASE u # p
    BY <1>13, <2>2, WorkKept DEF TypeOK, Cancel
  <2> QED
    BY <2>1, <2>2
<1>14. CASE UNCHANGED vars
  BY <1>14, WorkKept DEF vars
<1> QED
  BY <1>1, <1>2, <1>3, <1>4, <1>5, <1>6, <1>7, <1>8, <1>9, <1>10, <1>11, <1>12,
     <1>13, <1>14 DEF Next, GenerateAll, Building, Check

-----------------------------------------------------------------------------
(* Hashes.                                                                 *)

LEMMA InitFits == Init => HashesFit
  BY DEF Init, HashesFit, Fits, NoHash, Trusted

\* What matters of a step that keeps the outputs of all targets it trusts.
LEMMA FitsKept ==
  ASSUME HashesFit, cacheFile' = cacheFile, Trusted' \subseteq Trusted,
         \A t \in Trusted' : out'[t] = out[t] /\ cache'[t] \in {cache[t], None}
  PROVE  HashesFit'
  BY DEF HashesFit, Fits, Trusted

LEMMA NextFits ==
  ASSUME TypeOK, Control, \A t \in Target : InWork(t), HashesFit, [Next]_vars
  PROVE  HashesFit'
<1> USE SourceType DEF sources, command
<1>1. ASSUME NEW s \in Source, NEW new \in Text, Edit(s, new) PROVE HashesFit'
  BY <1>1, FitsKept DEF Edit, Trusted
<1>2. CASE Clean
  <2>1. \A t \in Target, e \in Exts : out'[t][e] = None
    BY <1>2 DEF Clean
  <2>2. \A t \in Target : cache[t] = None \/ cache[t].ext \in Exts
    BY DEF TypeOK, Hashes, Hash
  <2>3. cacheFile \notin {None, Torn} =>
          \A t \in Target : cacheFile[t] = None \/ cacheFile[t].ext \in Exts
    BY DEF TypeOK, Hashes, Hash
  <2>4. cache' = cache /\ cacheFile' = cacheFile
    BY <1>2 DEF Clean
  <2> QED
    BY <2>1, <2>2, <2>3, <2>4 DEF HashesFit, Fits, Trusted
<1>3. CASE Scan
  BY <1>3, FitsKept DEF Scan, Trusted
<1>4. CASE CollectTopics
  BY <1>4 DEF CollectTopics, HashesFit, Loaded, NoHash, Fits, Trusted
<1>5. CASE ManagersEnd
  BY <1>5, FitsKept DEF ManagersEnd, Trusted
<1>6. CASE GiveUp \/ Kill
  <2>1. Trusted' = Trusted
    BY <1>6 DEF GiveUp, Kill, Exit, Touched, Trusted, NoHash
  <2>2. out' = out /\ cacheFile' = cacheFile /\ \A t \in Target : cache'[t] = None
    BY <1>6 DEF GiveUp, Kill, Exit, NoHash
  <2> QED
    BY <2>1, <2>2, FitsKept DEF Trusted
<1>7. CASE Save
  BY <1>7 DEF Save, HashesFit, Fits, Trusted
<1>8. CASE Saved
  <2>1. /\ phase = "saving" /\ cacheFile' = cache /\ out' = out
        /\ \A t \in Target : cache'[t] = None
    BY <1>8 DEF Saved, Exit, NoHash
  <2>2. SUFFICES ASSUME NEW t \in Trusted' PROVE Fits(out[t], cache[t])
    BY <2>1 DEF HashesFit, Fits, Trusted
  <2>3. /\ t \in Target /\ t \notin Raced
        /\ t \notin suspect \/ at[t] = "built"
        /\ t \in Topic => at[t] \notin {"failed", "waiting"}
    BY <1>8 DEF Saved, Trusted
  <2>4. at[t] \in {"built", "skipped"}
    BY <2>1, <2>3 DEF Control, Target
  <2>5. CASE at[t] = "built"
    <3>1. hash[t] # None /\ hash[t] \in Hash
      BY <2>3, <2>5 DEF Control, Worked, TypeOK, Hashes
    <3>2. hash[t].file = scanned[SourceOf(t)] /\ hash[t].dirs \in {None, used[t]}
      BY <2>3, <3>1 DEF Raced, Touched
    <3>3. /\ hash[t].ext = Ext(scanned[SourceOf(t)]) /\ cache[t] = hash[t]
          /\ out[t][hash[t].ext] = [code |-> scanned[SourceOf(t)], topics |-> used[t]]
          /\ \A e \in Exts \ {hash[t].ext} : out[t][e] = None
      BY <2>3, <2>5 DEF InWork
    <3>4. scanned[SourceOf(t)] \in Text /\ used[t] \in Text
      BY <2>1, <2>3, <2>5 DEF Control, Target
    <3> QED
      BY <3>2, <3>3, <3>4 DEF Fits, Module
  <2>6. CASE at[t] = "skipped"
    BY <2>3, <2>6 DEF Control, Worked, Trusted, HashesFit
  <2> QED
    BY <2>4, <2>5, <2>6
<1>9. ASSUME NEW t \in Target, Check(t) PROVE HashesFit'
  <2>1. CASE Skip(t)
    BY <1>9, <2>1, FitsKept DEF Check, Skip, Trusted
  <2>2. CASE Rebuild(t)
    BY <1>9, <2>2, HashType, FitsKept DEF Check, Rebuild, Trusted, TypeOK, Hashes
  <2> QED
    BY <1>9, <2>1, <2>2 DEF Check
<1>10. ASSUME NEW t \in Target, Compile(t) PROVE HashesFit'
  <2>1. t \notin Trusted
    BY <1>10 DEF Compile, Control, Worked, Trusted
  <2> QED
    BY <1>10, <2>1, FitsKept DEF Compile, Trusted, TypeOK
<1>11. ASSUME NEW t \in Target, Fill(t) PROVE HashesFit'
  <2>1. t \notin Trusted
    BY <1>11 DEF Fill, Control, Worked, Trusted
  <2> QED
    BY <1>11, <2>1, FitsKept DEF Fill, Record, Trusted, TypeOK, Hashes
<1>12. ASSUME NEW t \in Target, Fail(t) PROVE HashesFit'
  BY <1>12, FitsKept DEF Fail, Trusted
<1>13. ASSUME NEW p \in Page, Cancel(p) PROVE HashesFit'
  BY <1>13, FitsKept DEF Cancel, Trusted
<1>14. CASE UNCHANGED vars
  BY <1>14, FitsKept DEF vars, Trusted
<1> QED
  BY <1>1, <1>2, <1>3, <1>4, <1>5, <1>6, <1>7, <1>8, <1>9, <1>10, <1>11, <1>12,
     <1>13, <1>14 DEF Next, GenerateAll, Building

-----------------------------------------------------------------------------
(* Quiet commands.                                                         *)

LEMMA BuiltCurrent ==
  ASSUME TypeOK, Control, Quiet, quiet, NEW t \in Target, InWork(t),
         phase # "off", at[t] = "built"
  PROVE  Current(t)
<1> USE SourceType
<1>1. phase \in {"managers", "pages", "saving"}
  BY DEF TypeOK, Phase, Control, Target
<1>2. /\ scanned[SourceOf(t)] = text[SourceOf(t)] /\ used[t] = text[TopicDir]
      /\ text[SourceOf(t)] \in Text /\ text[TopicDir] \in Text
  BY <1>1 DEF Quiet, TypeOK, Target
<1>3. /\ out[t][Ext(text[SourceOf(t)])]
             = [code |-> text[SourceOf(t)], topics |-> text[TopicDir]]
      /\ \A e \in Exts \ {Ext(text[SourceOf(t)])} : out[t][e] = None
  BY <1>2 DEF InWork
<1>4. t \in Qualified => SourceOf(t) = t
  BY BuildAssumption
<1> QED
  BY <1>2, <1>3, <1>4 DEF Current, Whole, Module

LEMMA SkippedCurrent ==
  ASSUME TypeOK, HashesFit, quiet, Quiet, NEW t \in Trusted, UpToDate(t),
         phase \in {"managers", "pages"}
  PROVE  Current(t)
<1> USE SourceType DEF Trusted
<1>1. scanned[SourceOf(t)] = text[SourceOf(t)]
  BY DEF Quiet, Target
<1>2. /\ InputHash(t).ext = Ext(text[SourceOf(t)])
      /\ InputHash(t).file = text[SourceOf(t)]
      /\ t \in Qualified => InputHash(t).dirs = text[TopicDir]
  BY <1>1, BuildAssumption
     DEF InputHash, PageHash, ManagerHash, LocalDirs, Target
<1>3. out[t][Ext(text[SourceOf(t)])] # None /\ Fits(out[t], InputHash(t))
  BY <1>1 DEF UpToDate, HashesFit
<1>4. /\ t \in Qualified => SourceOf(t) = t
      /\ text[TopicDir] # None
  BY BuildAssumption DEF TypeOK
<1> QED
  BY <1>2, <1>3, <1>4, HashType DEF Fits, Current, Whole

\* A step of the command that leaves the outputs of skipped targets alone.
LEMMA QuietKept ==
  ASSUME Quiet, phase # "off", phase' = phase, UNCHANGED <<text, scanned, quiet, suspect>>,
         \A t \in Target :
           /\ quiet /\ at'[t] \in {"writing", "built"} => used'[t] = text[TopicDir]
           /\ at'[t] = "skipped" => at[t] = "skipped" /\ out'[t] = out[t]
  PROVE  Quiet'
  BY DEF Quiet, Current, Whole

LEMMA InitQuiet == Init => Quiet
  BY DEF Init, Quiet

LEMMA NextQuiet == IInv /\ [Next]_vars => Quiet'
<1> SUFFICES ASSUME IInv, [Next]_vars PROVE Quiet'
  OBVIOUS
<1> USE SourceType DEF sources, command
<1>0. TypeOK /\ Control /\ HashesFit /\ Quiet /\ \A t \in Target : InWork(t)
  BY DEF IInv
<1>1. ASSUME NEW s \in Source, NEW new \in Text, Edit(s, new) PROVE Quiet'
  BY <1>1 DEF Quiet, Edit
<1>2. CASE Clean \/ GiveUp \/ Kill
  BY <1>2 DEF Quiet, Clean, GiveUp, Kill
<1>3. CASE Scan
  BY <1>0, <1>3, BuildAssumption DEF TypeOK, Quiet, Scan
<1>4. CASE CollectTopics
  <2>1. \A t \in Target : at'[t] = "waiting"
    BY <1>0, <1>4 DEF TypeOK, Control, CollectTopics, Target
  <2>2. /\ scanned'[TopicDir] = text[TopicDir]
        /\ \A p \in Page : scanned'[p] = scanned[p]
    BY <1>0, <1>4, BuildAssumption DEF TypeOK, CollectTopics
  <2> QED
    BY <1>0, <1>4, <2>1, <2>2 DEF Quiet, CollectTopics
<1>5. CASE ManagersEnd
  BY <1>0, <1>5 DEF Quiet, ManagersEnd, Current, Whole
<1>6. CASE Save
  BY <1>0, <1>6 DEF Quiet, Save, PagesEnded, Current, Whole
<1>7. CASE Saved
  <2>1. /\ phase = "saving" /\ phase' = "off" /\ out' = out /\ text' = text
        /\ quiet' = quiet /\ \A t \in Target : at'[t] = "idle"
    BY <1>7 DEF Saved, Exit
  <2>2. ASSUME quiet, NEW t \in Target \ suspect' PROVE Current(t)
    <3>1. /\ t \notin suspect \/ at[t] = "built"
          /\ t \in Topic => at[t] \notin {"failed", "waiting"}
      BY <1>7 DEF Saved
    <3>2. at[t] \in {"built", "skipped"}
      BY <1>0, <2>1, <3>1 DEF Control, Target
    <3>3. CASE at[t] = "built"
      BY <1>0, <2>1, <2>2, <3>3, BuiltCurrent
    <3>4. CASE at[t] = "skipped"
      BY <1>0, <2>2, <3>1, <3>4 DEF Quiet
    <3> QED
      BY <3>2, <3>3, <3>4
  <2> QED
    BY <2>1, <2>2 DEF Quiet, Current, Whole
<1>8. ASSUME NEW t \in Target, Skip(t), Check(t) PROVE Quiet'
  <2>1. /\ at[t] = "waiting" /\ phase \in {"managers", "pages"}
        /\ UpToDate(t) /\ at' = [at EXCEPT ![t] = "skipped"]
        /\ UNCHANGED <<text, out, phase, scanned, used, quiet, suspect>>
    BY <1>8 DEF Check, Skip, MayBegin
  <2>2. t \notin suspect => t \in Trusted
    BY <1>0, <2>1 DEF Control, Worked, Trusted
  <2>3. quiet /\ t \notin suspect => Current(t)
    BY <1>0, <2>1, <2>2, SkippedCurrent
  <2> QED
    BY <1>0, <2>1, <2>3 DEF TypeOK, Quiet, Current, Whole
<1>9. ASSUME NEW t \in Target, Rebuild(t), Check(t) PROVE Quiet'
  <2>1. /\ phase # "off" /\ at' = [at EXCEPT ![t] = "compile"]
        /\ UNCHANGED <<text, phase, scanned, used, quiet, suspect>>
        /\ \A u \in Target \ {t} : out'[u] = out[u]
    BY <1>0, <1>9 DEF TypeOK, Check, Rebuild, MayBegin
  <2> QED
    BY <1>0, <2>1, QuietKept DEF TypeOK, Quiet
<1>10. ASSUME NEW t \in Target, Compile(t) PROVE Quiet'
  <2>1. /\ phase \in {"managers", "pages"} /\ at' = [at EXCEPT ![t] = "writing"]
        /\ used' = [used EXCEPT ![t] = Snippets(t)]
        /\ UNCHANGED <<text, phase, scanned, quiet, suspect>>
        /\ \A u \in Target \ {t} : out'[u] = out[u]
    BY <1>0, <1>10 DEF TypeOK, Compile, Control, Phase, Target
  <2>2. quiet => Snippets(t) = text[TopicDir]
    BY <1>0, <2>1 DEF Snippets, Quiet
  <2> QED
    BY <1>0, <2>1, <2>2, QuietKept DEF TypeOK, Quiet
<1>11. ASSUME NEW t \in Target, Fill(t) PROVE Quiet'
  <2>1. /\ phase # "off" /\ at[t] = "writing" /\ at' = [at EXCEPT ![t] = "built"]
        /\ UNCHANGED <<text, phase, scanned, used, quiet, suspect>>
        /\ \A u \in Target \ {t} : out'[u] = out[u]
    BY <1>0, <1>11 DEF TypeOK, Fill, Control
  <2> QED
    BY <1>0, <2>1, QuietKept DEF TypeOK, Quiet
<1>12. ASSUME NEW t \in Target, Fail(t) PROVE Quiet'
  <2>1. phase # "off" /\ at' = [at EXCEPT ![t] = "failed"]
    BY <1>0, <1>12 DEF Fail, Busy, Control
  <2> QED
    BY <1>0, <1>12, <2>1, QuietKept DEF TypeOK, Fail, Quiet
<1>13. ASSUME NEW p \in Page, Cancel(p) PROVE Quiet'
  BY <1>0, <1>13, QuietKept DEF TypeOK, Cancel, Quiet
<1>14. CASE UNCHANGED vars
  BY <1>0, <1>14 DEF vars, Quiet, Current, Whole
<1> QED
  BY <1>1, <1>2, <1>3, <1>4, <1>5, <1>6, <1>7, <1>8, <1>9, <1>10, <1>11, <1>12,
     <1>13, <1>14 DEF Next, GenerateAll, Building, Check

-----------------------------------------------------------------------------
(* Theorems.                                                               *)

LEMMA InitIInv == Init => IInv
  BY InitType, InitControl, InitFits, InitQuiet DEF IInv, InWork, Init

LEMMA NextIInv == IInv /\ [Next]_vars => IInv'
<1> SUFFICES ASSUME IInv, [Next]_vars PROVE IInv'
  OBVIOUS
<1>1. TypeOK /\ Control /\ HashesFit /\ \A t \in Target : InWork(t)
  BY DEF IInv
<1>2. TypeOK' /\ Control' /\ HashesFit' /\ Quiet'
  BY <1>1, NextType, NextControl, NextFits, NextQuiet
<1>3. ASSUME NEW t \in Target PROVE InWork(t)'
  BY <1>1, NextInWork
<1> QED
  BY <1>2, <1>3 DEF IInv

LEMMA Invariance == Spec => []IInv
  BY InitIInv, NextIInv, PTL DEF Spec

\* Every reachable state of the build is well typed: a hash cache that was cut
\* short is never taken for hashes, and nothing is compiled from a text that was
\* not read.
THEOREM TypeCorrect == Spec => []TypeOK
<1>1. IInv => TypeOK
  BY DEF IInv
<1> QED
  BY <1>1, Invariance, PTL

\* For any pages, topics, texts and permits, and whichever commands were killed,
\* failed or raced with edits before: what a quiet command leaves is whole and
\* compiled from the sources, suspects aside.
THEOREM QuietBuildsAreCurrent == Spec => []BuiltIsCurrent
<1>1. IInv => BuiltIsCurrent
  BY DEF IInv, Quiet, Current, BuiltIsCurrent
<1> QED
  BY <1>1, Invariance, PTL

\* For the same instances: pages that name the topics package are compiled with
\* the topics as they are.
THEOREM QualifiedPagesSeeTopics == Spec => []QualifiedUseCurrentTopics
<1>1. IInv => QualifiedUseCurrentTopics
  BY BuildAssumption, SourceType DEF IInv, Quiet, Current, QualifiedUseCurrentTopics
<1> QED
  BY <1>1, Invariance, PTL
=============================================================================
