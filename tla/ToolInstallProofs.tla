-------------------------- MODULE ToolInstallProofs --------------------------
(***************************************************************************)
(* Proofs about the installation of tools: for any number of processes, of *)
(* files in an archive and of retries.                                     *)
(***************************************************************************)
EXTENDS ToolInstall, TLAPS

USE ToolAssumption

-----------------------------------------------------------------------------
(* The invariant.                                                          *)

Holding == {"verify", "clear", "extract", "list", "remove", "rename"}
PastVerify == Holding \ {"verify"}

\* A process past its download has an archive, and past the comparison one that
\* was not refused.
Archives ==
  \A p \in Proc :
    /\ at[p] \in Holding => got[p] # None
    /\ at[p] \in PastVerify => Accepted(p)

Binary ==
  /\ TailwindNeverTorn
  /\ \A p \in Proc : at[p] = "replace" => temp[p] = "whole"

\* What an installer that is alone has made of the temporary directory.
Progress(p) ==
  /\ at[p] = "extract" =>
       tmp = [e \in Entry |-> IF e \in left[p] THEN Missing ELSE got[p]]
  /\ at[p] \in {"list", "remove", "rename"} => tmp = [e \in Entry |-> got[p]]

\* Without a clash one process installs, and only what is not ready.
Alone ==
  ~ clashed =>
    /\ \A p, q \in Installing : p = q
    /\ \A p \in Installing : ~ Ready /\ Progress(p)

IInv == TypeOK /\ Archives /\ Binary /\ Alone /\ ReadyMeansComplete

-----------------------------------------------------------------------------
(* Types.                                                                  *)

LEMMA InitType == Init => TypeOK
<1> SUFFICES ASSUME Init PROVE TypeOK
  OBVIOUS
<1>1. 0 \in 0 .. MaxRetries - 1
  OBVIOUS
<1> QED
  BY <1>1 DEF Init, TypeOK, Tree, Steps

LEMMA TreeType ==
  /\ None \in Tree /\ NoEntry \in Tree /\ NoEntry # None
  /\ \A t \in Tree : t # None =>
       \A e \in Entry, q \in {Missing, "good", "bad"} : [t EXCEPT ![e] = q] \in Tree
  BY DEF Tree, NoEntry, Missing

\* What a process forgets when it returns.
LEMMA ReturnType ==
  ASSUME TypeOK, NEW p \in Proc, Return(p)
  PROVE  /\ at' \in [Proc -> Steps] /\ tries' \in [Proc -> 0 .. MaxRetries - 1]
         /\ got' \in [Proc -> {None, "good", "bad"}]
         /\ expected' \in [Proc -> BOOLEAN] /\ left' \in [Proc -> SUBSET Entry]
<1>1. 0 \in 0 .. MaxRetries - 1
  OBVIOUS
<1> QED
  BY <1>1 DEF TypeOK, Return, Go, Steps

LEMMA NextType == TypeOK /\ Archives /\ [Next]_vars => TypeOK'
<1> SUFFICES ASSUME TypeOK, Archives, [Next]_vars PROVE TypeOK'
  OBVIOUS
<1> USE DEF tailwind, archive, history
<1>1. ASSUME NEW p \in Proc,
             StartTailwind(p) \/ FetchTailwind(p) \/ FillTailwind(p)
               \/ FailTailwind(p) \/ ReplaceTailwind(p)
      PROVE  TypeOK'
  BY <1>1 DEF TypeOK, StartTailwind, FetchTailwind, TempOf, FillTailwind,
              FailTailwind, ReplaceTailwind, Go, Steps
<1>2. ASSUME NEW p \in Proc, StartTinyGo(p) PROVE TypeOK'
  BY <1>2 DEF TypeOK, StartTinyGo, Go, Steps
<1>3. ASSUME NEW p \in Proc, ForceTinyGo(p) PROVE TypeOK'
  BY <1>3, TreeType DEF TypeOK, ForceTinyGo, Ready, Go, Steps
<1>4. ASSUME NEW p \in Proc, Stat(p) PROVE TypeOK'
  BY <1>4 DEF TypeOK, Stat, Go, Steps
<1>5. ASSUME NEW p \in Proc, Expect(p) PROVE TypeOK'
  BY <1>5 DEF TypeOK, Expect, Go, Steps
<1>6. ASSUME NEW p \in Proc, Download(p) PROVE TypeOK'
  <2>1. 0 \in 0 .. MaxRetries - 1
    OBVIOUS
  <2> QED
    BY <1>6, <2>1 DEF TypeOK, Download, Go, Steps
<1>7. ASSUME NEW p \in Proc, FailDownload(p) PROVE TypeOK'
  <2>1. CASE GiveUp(tries[p] + 1)
    BY <1>7, <2>1, ReturnType DEF TypeOK, FailDownload
  <2>2. CASE ~ GiveUp(tries[p] + 1)
    <3>1. tries[p] + 1 \in 0 .. MaxRetries - 1
      BY <2>2 DEF TypeOK, GiveUp
    <3> QED
      BY <1>7, <2>2, <3>1 DEF TypeOK, FailDownload
  <2> QED
    BY <2>1, <2>2
<1>8. ASSUME NEW p \in Proc, Verify(p) PROVE TypeOK'
  <2>1. CASE Accepted(p)
    BY <1>8, <2>1 DEF TypeOK, Verify, Go, Steps
  <2>2. CASE ~ Accepted(p)
    BY <1>8, <2>2, ReturnType DEF TypeOK, Verify, Reject
  <2> QED
    BY <2>1, <2>2
<1>9. ASSUME NEW p \in Proc, Clear(p) PROVE TypeOK'
  BY <1>9, TreeType DEF TypeOK, Clear, Go, Steps
<1>10. ASSUME NEW p \in Proc, Extract(p) PROVE TypeOK'
  <2>1. PICK e \in left[p] :
          /\ Unpack(p, e) /\ left' = [left EXCEPT ![p] = @ \ {e}]
          /\ IF left[p] = {e} THEN Go(p, "list") ELSE UNCHANGED at
    BY <1>10 DEF Extract
  <2>2. e \in Entry /\ got[p] \in {"good", "bad"}
    BY <1>10, <2>1 DEF TypeOK, Extract, Archives, Holding
  <2>3. tmp' \in Tree /\ final' = final
    <3> DEFINE t == IF tmp = None THEN NoEntry ELSE tmp
    <3>1. t \in Tree /\ t # None
      BY TreeType DEF TypeOK
    <3>2. tmp' = [t EXCEPT ![e] = got[p]] /\ final' = final
      BY <2>1 DEF Unpack
    <3> HIDE DEF t
    <3> QED
      BY <2>2, <3>1, <3>2, TreeType
  <2> QED
    BY <1>10, <2>1, <2>2, <2>3 DEF TypeOK, Extract, Go, Steps
<1>11. ASSUME NEW p \in Proc, FailExtract(p) PROVE TypeOK'
  BY <1>11, ReturnType, TreeType DEF TypeOK, FailExtract
<1>12. ASSUME NEW p \in Proc, List(p) PROVE TypeOK'
  BY <1>12 DEF TypeOK, List, Go, Steps
<1>13. ASSUME NEW p \in Proc, RemoveEntry(p) PROVE TypeOK'
  <2>1. PICK e \in left[p] :
          final' = IF final = None THEN None ELSE [final EXCEPT ![e] = Missing]
    BY <1>13 DEF RemoveEntry
  <2>2. e \in Entry
    BY <2>1 DEF TypeOK
  <2>3. final' \in Tree
    BY <2>1, <2>2, TreeType DEF TypeOK
  <2> QED
    BY <1>13, <2>3 DEF TypeOK, RemoveEntry
<1>14. ASSUME NEW p \in Proc, RemoveDir(p) PROVE TypeOK'
  BY <1>14, TreeType DEF TypeOK, RemoveDir, Go, Steps
<1>15. ASSUME NEW p \in Proc, Rename(p) PROVE TypeOK'
  BY <1>15, ReturnType, TreeType DEF TypeOK, Rename
<1>16. ASSUME NEW p \in Proc, Kill(p) PROVE TypeOK'
  BY <1>16, ReturnType DEF TypeOK, Kill
<1>17. CASE UNCHANGED vars
  BY <1>17 DEF TypeOK, vars
<1> QED
  BY <1>1, <1>2, <1>3, <1>4, <1>5, <1>6, <1>7, <1>8, <1>9, <1>10, <1>11, <1>12,
     <1>13, <1>14, <1>15, <1>16, <1>17 DEF Next, Installs

-----------------------------------------------------------------------------
(* The archive and the Tailwind binary.                                    *)

LEMMA NextArchives == TypeOK /\ Archives /\ [Next]_vars => Archives'
<1> SUFFICES ASSUME TypeOK, Archives, [Next]_vars PROVE Archives'
  OBVIOUS
<1> USE DEF TypeOK, Archives, Holding, PastVerify, Accepted, Go, tailwind, archive,
            history
<1>1. ASSUME NEW p \in Proc,
             \/ StartTailwind(p) \/ FetchTailwind(p) \/ FillTailwind(p)
             \/ FailTailwind(p) \/ ReplaceTailwind(p)
             \/ StartTinyGo(p) \/ ForceTinyGo(p) \/ Stat(p)
      PROVE  Archives'
  BY <1>1 DEF StartTailwind, FetchTailwind, TempOf, FillTailwind, FailTailwind,
              ReplaceTailwind, StartTinyGo, ForceTinyGo, Stat
<1>2. ASSUME NEW p \in Proc, Expect(p) \/ Download(p) PROVE Archives'
  BY <1>2 DEF Expect, Download
<1>3. ASSUME NEW p \in Proc, Return(p) PROVE Archives'
  BY <1>3 DEF Return
<1>4. ASSUME NEW p \in Proc, FailDownload(p) \/ Verify(p) PROVE Archives'
  BY <1>3, <1>4 DEF FailDownload, Verify, Reject
<1>5. ASSUME NEW p \in Proc, Clear(p) \/ Extract(p) \/ List(p) PROVE Archives'
  BY <1>5 DEF Clear, Extract, List
<1>6. ASSUME NEW p \in Proc, RemoveEntry(p) \/ RemoveDir(p) PROVE Archives'
  BY <1>6 DEF RemoveEntry, RemoveDir
<1>7. ASSUME NEW p \in Proc, FailExtract(p) \/ Rename(p) \/ Kill(p) PROVE Archives'
  BY <1>3, <1>7 DEF FailExtract, Rename, Kill
<1>8. CASE UNCHANGED vars
  BY <1>8 DEF vars
<1> QED
  BY <1>1, <1>2, <1>4, <1>5, <1>6, <1>7, <1>8 DEF Next, Installs

LEMMA NextBinary == TypeOK /\ Binary /\ [Next]_vars => Binary'
<1> SUFFICES ASSUME TypeOK, Binary, [Next]_vars PROVE Binary'
  OBVIOUS
<1> USE DEF TypeOK, Binary, TailwindNeverTorn, Go, tailwind, archive, history
<1>1. ASSUME NEW p \in Proc,
             \/ StartTailwind(p) \/ FetchTailwind(p) \/ FillTailwind(p)
             \/ FailTailwind(p) \/ ReplaceTailwind(p)
      PROVE  Binary'
  BY <1>1 DEF StartTailwind, FetchTailwind, TempOf, FillTailwind, FailTailwind,
              ReplaceTailwind
<1>2. ASSUME NEW p \in Proc,
             \/ StartTinyGo(p) \/ ForceTinyGo(p) \/ Stat(p) \/ Expect(p)
             \/ Download(p) \/ Clear(p) \/ Extract(p) \/ List(p)
             \/ RemoveEntry(p) \/ RemoveDir(p)
      PROVE  Binary'
  BY <1>2 DEF StartTinyGo, ForceTinyGo, Stat, Expect, Download, Clear, Extract, List,
              RemoveEntry, RemoveDir
<1>3. ASSUME NEW p \in Proc,
             FailDownload(p) \/ Verify(p) \/ FailExtract(p) \/ Rename(p) \/ Kill(p)
      PROVE  Binary'
  BY <1>3 DEF FailDownload, Verify, Reject, FailExtract, Rename, Kill, Return
<1>4. CASE UNCHANGED vars
  BY <1>4 DEF vars
<1> QED
  BY <1>1, <1>2, <1>3, <1>4 DEF Next, Installs

-----------------------------------------------------------------------------
(* The directory.                                                          *)

\* A process that leaves the installation, or is not in it, disturbs nobody.
LEMMA LeaveAlone ==
  ASSUME TypeOK, Alone, NEW p \in Proc, at' = [at EXCEPT ![p] = "off"],
         left' = [left EXCEPT ![p] = {}], got' = [got EXCEPT ![p] = None],
         UNCHANGED <<final, clashed>>, tmp' = tmp \/ p \in Installing
  PROVE  Alone'
<1> SUFFICES ASSUME ~ clashed PROVE Alone'
  BY DEF Alone
<1>1. Installing' = Installing \ {p}
  BY DEF TypeOK, Installing
<1>2. ASSUME NEW q \in Installing' PROVE ~ Ready' /\ Progress(q)'
  <2>1. q # p /\ q \in Installing /\ ~ Ready /\ Progress(q)
    BY <1>1, <1>2 DEF Alone
  <2>2. tmp' = tmp
    BY <2>1 DEF Alone
  <2>3. at'[q] = at[q] /\ left'[q] = left[q] /\ got'[q] = got[q]
    BY <2>1 DEF TypeOK, Installing
  <2> QED
    BY <2>1, <2>2, <2>3 DEF Ready, Progress
<1> QED
  BY <1>1, <1>2 DEF Alone

\* An installer that is alone goes on.
LEMMA GoOnAlone ==
  ASSUME TypeOK, TypeOK', Alone, NEW p \in Proc, p \in Installing, UNCHANGED clashed,
         \A q \in Proc \ {p} : at'[q] = at[q],
         ~ clashed => (p \in Installing' => ~ Ready' /\ Progress(p)')
  PROVE  Alone'
<1> SUFFICES ASSUME ~ clashed PROVE Alone'
  BY DEF Alone
<1>1. Installing' \subseteq {p}
  BY DEF Alone, Installing
<1> QED
  BY <1>1 DEF Alone

LEMMA NextAlone == IInv /\ [Next]_vars => Alone' /\ ReadyMeansComplete'
<1> SUFFICES ASSUME IInv, [Next]_vars PROVE Alone' /\ ReadyMeansComplete'
  OBVIOUS
<1>0. TypeOK /\ TypeOK' /\ Archives /\ Alone /\ ReadyMeansComplete
  BY NextType DEF IInv
<1>a. ASSUME UNCHANGED <<final, verified, clashed>> PROVE ReadyMeansComplete'
  BY <1>0, <1>a DEF ReadyMeansComplete, Ready
<1>b. ASSUME UNCHANGED <<verified, clashed>>, ~ Ready' PROVE ReadyMeansComplete'
  BY <1>b DEF ReadyMeansComplete
<1> USE <1>0 DEF tailwind, archive, history
<1>1. ASSUME NEW p \in Proc,
             \/ StartTailwind(p) \/ FetchTailwind(p) \/ FillTailwind(p)
             \/ FailTailwind(p) \/ ReplaceTailwind(p) \/ StartTinyGo(p)
      PROVE  Alone' /\ ReadyMeansComplete'
  <2>1. UNCHANGED <<final, tmp, archive, history>> /\ Installing' = Installing
    BY <1>1 DEF TypeOK, StartTailwind, FetchTailwind, TempOf, FillTailwind,
                FailTailwind, ReplaceTailwind, StartTinyGo, Go, Installing
  <2>2. \A q \in Installing : at'[q] = at[q]
    BY <1>1 DEF TypeOK, StartTailwind, FetchTailwind, TempOf, FillTailwind,
                FailTailwind, ReplaceTailwind, StartTinyGo, Go, Installing
  <2> QED
    BY <1>a, <2>1, <2>2 DEF Alone, Ready, Progress
<1>2. ASSUME NEW p \in Proc, ForceTinyGo(p) PROVE Alone' /\ ReadyMeansComplete'
  <2>1. ~ Ready' /\ Installing' = Installing
    BY <1>2 DEF TypeOK, Tree, ForceTinyGo, Ready, Go, Installing, Missing
  <2>2. ~ clashed => Installing = {}
    BY <1>2 DEF Alone, ForceTinyGo
  <2> QED
    BY <1>2, <1>b, <2>1, <2>2 DEF Alone, ForceTinyGo
<1>3. ASSUME NEW p \in Proc, Stat(p) PROVE Alone' /\ ReadyMeansComplete'
  <2>1. CASE Ready
    <3>1. Installing' = Installing /\ \A q \in Installing : at'[q] = at[q]
      BY <1>3, <2>1 DEF TypeOK, Stat, Go, Installing
    <3> QED
      BY <1>3, <1>a, <2>1, <3>1 DEF Stat, Alone, Ready, Progress
  <2>2. CASE ~ Ready
    <3>1. Installing' = Installing \cup {p} /\ at'[p] = "expect"
      BY <1>3, <2>2 DEF TypeOK, Stat, Go, Installing
    <3>2. ~ clashed' => ~ clashed /\ Installing = {}
      BY <1>3, <2>2 DEF Stat, TypeOK
    <3>3. ~ Ready'
      BY <1>3, <2>2 DEF Stat, Ready
    <3> QED
      BY <3>1, <3>2, <3>3 DEF Alone, Progress, ReadyMeansComplete
  <2> QED
    BY <2>1, <2>2
<1>4. ASSUME NEW p \in Proc, Expect(p) \/ Download(p)
      PROVE  Alone' /\ ReadyMeansComplete'
  <2>1. /\ UNCHANGED <<final, history>> /\ p \in Installing
        /\ \A q \in Proc \ {p} : at'[q] = at[q]
        /\ at'[p] \in {"download", "verify"}
    BY <1>4 DEF TypeOK, Expect, Download, Go, Installing
  <2> QED
    BY <1>a, <2>1, GoOnAlone DEF Alone, Ready, Progress
<1>5. ASSUME NEW p \in Proc, Return(p), UNCHANGED <<final, tmp, history>>
      PROVE  Alone' /\ ReadyMeansComplete'
  BY <1>5, <1>a, LeaveAlone DEF Return, Go
<1>6. ASSUME NEW p \in Proc, FailDownload(p) PROVE Alone' /\ ReadyMeansComplete'
  <2>1. CASE UNCHANGED <<at, got, expected, left>>
    BY <1>6, <1>a, <2>1 DEF FailDownload, Alone, Installing, Ready, Progress
  <2> QED
    BY <1>5, <1>6, <2>1 DEF FailDownload
<1>7. ASSUME NEW p \in Proc, Verify(p) PROVE Alone' /\ ReadyMeansComplete'
  <2>1. CASE Accepted(p)
    <3>1. /\ p \in Installing /\ at'[p] = "clear"
          /\ \A q \in Proc \ {p} : at'[q] = at[q]
      BY <1>7, <2>1 DEF TypeOK, Verify, Go, Installing
    <3> QED
      BY <1>7, <1>a, <3>1, GoOnAlone DEF Verify, Alone, Ready, Progress
  <2> QED
    BY <1>5, <1>7, <2>1 DEF Verify, Reject
<1>8. ASSUME NEW p \in Proc, Clear(p) PROVE Alone' /\ ReadyMeansComplete'
  <2>1. /\ p \in Installing /\ at'[p] = "extract" /\ left'[p] = Entry
        /\ \A q \in Proc \ {p} : at'[q] = at[q]
    BY <1>8 DEF TypeOK, Clear, Go, Installing
  <2>2. Progress(p)'
    BY <1>8, <2>1 DEF Clear, NoEntry, Progress
  <2> QED
    BY <1>8, <1>a, <2>1, <2>2, GoOnAlone DEF Clear, Alone, Ready
<1>9. ASSUME NEW p \in Proc, Extract(p) PROVE Alone' /\ ReadyMeansComplete'
  <2>1. PICK e \in left[p] :
          /\ Unpack(p, e) /\ left' = [left EXCEPT ![p] = @ \ {e}]
          /\ IF left[p] = {e} THEN Go(p, "list") ELSE UNCHANGED at
    BY <1>9 DEF Extract
  <2>2. /\ p \in Installing /\ at[p] = "extract" /\ UNCHANGED <<final, history, got>>
        /\ \A q \in Proc \ {p} : at'[q] = at[q]
    BY <1>9, <2>1 DEF TypeOK, Extract, Unpack, Go, Installing
  <2>3. ASSUME ~ clashed PROVE ~ Ready' /\ Progress(p)'
    <3>1. ~ Ready /\ tmp = [d \in Entry |-> IF d \in left[p] THEN Missing ELSE got[p]]
      BY <2>2, <2>3 DEF Alone, Progress
    <3>2. tmp # None
      <4>1. tmp \in [Entry -> {Missing, "good", "bad"}]
        BY <2>2, <3>1 DEF TypeOK, Extract, Archives, Holding
      <4> QED
        BY <4>1 DEF Missing
    <3>3. tmp' = [tmp EXCEPT ![e] = got[p]]
      BY <2>1, <3>2 DEF Unpack
    <3>4. tmp' = [d \in Entry |-> IF d \in left[p] \ {e} THEN Missing ELSE got[p]]
      BY <3>1, <3>3
    <3>5. left'[p] = left[p] \ {e}
      BY <2>1 DEF TypeOK
    <3>6. at'[p] = IF left[p] = {e} THEN "list" ELSE "extract"
      BY <2>1, <2>2 DEF TypeOK, Go
    <3>7. Progress(p)'
      <4>1. CASE left[p] = {e}
        BY <2>2, <3>4, <3>6, <4>1 DEF Progress
      <4>2. CASE left[p] # {e}
        BY <2>2, <3>4, <3>5, <3>6, <4>2 DEF Progress
      <4> QED
        BY <4>1, <4>2
    <3> QED
      BY <2>2, <3>1, <3>7 DEF Ready
  <2> QED
    BY <1>a, <2>2, <2>3, GoOnAlone
<1>10. ASSUME NEW p \in Proc, FailExtract(p) PROVE Alone' /\ ReadyMeansComplete'
  <2>1. p \in Installing
    BY <1>10 DEF FailExtract, Installing
  <2> QED
    BY <1>10, <1>a, <2>1, LeaveAlone DEF FailExtract, Return, Go
<1>11. ASSUME NEW p \in Proc, List(p) PROVE Alone' /\ ReadyMeansComplete'
  <2>1. /\ p \in Installing /\ at'[p] = "remove" /\ at[p] = "list"
        /\ \A q \in Proc \ {p} : at'[q] = at[q]
    BY <1>11 DEF TypeOK, List, Go, Installing
  <2> QED
    BY <1>11, <1>a, <2>1, GoOnAlone DEF List, Alone, Ready, Progress
<1>12. ASSUME NEW p \in Proc, RemoveEntry(p) \/ RemoveDir(p)
       PROVE  Alone' /\ ReadyMeansComplete'
  <2>1. /\ p \in Installing /\ at'[p] \in {"remove", "rename"} /\ at[p] = "remove"
        /\ \A q \in Proc \ {p} : at'[q] = at[q]
        /\ UNCHANGED <<tmp, got, history>>
    BY <1>12 DEF TypeOK, RemoveEntry, RemoveDir, Go, Installing
  <2>2. ~ Ready => ~ Ready'
    BY <1>12 DEF TypeOK, Tree, RemoveEntry, RemoveDir, Ready, Missing
  <2>3. Alone'
    BY <2>1, <2>2, GoOnAlone DEF Alone, Progress
  <2>4. clashed' = clashed /\ (~ clashed => ~ Ready')
    BY <2>1, <2>2 DEF Alone
  <2> QED
    BY <2>3, <2>4 DEF ReadyMeansComplete
<1>13. ASSUME NEW p \in Proc, Rename(p) PROVE Alone' /\ ReadyMeansComplete'
  <2>1. /\ p \in Installing /\ at[p] = "rename" /\ p \notin Installing'
        /\ \A q \in Proc \ {p} : at'[q] = at[q]
        /\ UNCHANGED clashed
    BY <1>13 DEF TypeOK, Rename, Return, Go, Installing
  <2>2. Alone'
    BY <2>1, GoOnAlone
  <2>3. CASE clashed
    BY <2>1, <2>2, <2>3 DEF ReadyMeansComplete
  <2>4. CASE ~ clashed
    <3>1. ~ Ready /\ tmp = [e \in Entry |-> got[p]]
      BY <2>1, <2>4 DEF Alone, Progress
    <3>2. got[p] \in {"good", "bad"} /\ (expected[p] => got[p] = "good")
      BY <2>1 DEF TypeOK, Archives, Holding, PastVerify, Accepted
    <3>3. CASE tmp # None /\ final = None
      <4>1. final' = tmp /\ verified' = expected[p]
        BY <1>13, <3>3 DEF Rename
      <4>2. final' \in Whole
        BY <3>1, <3>2, <4>1 DEF Whole
      <4>3. verified' => \A e \in Entry : final'[e] = "good"
        BY <3>1, <3>2, <4>1
      <4> QED
        BY <2>2, <4>2, <4>3 DEF ReadyMeansComplete
    <3>4. CASE ~ (tmp # None /\ final = None)
      <4>1. UNCHANGED final
        BY <1>13, <3>4 DEF Rename
      <4> QED
        BY <2>2, <3>1, <4>1 DEF ReadyMeansComplete, Ready
    <3> QED
      BY <3>3, <3>4
  <2> QED
    BY <2>2, <2>3, <2>4
<1>14. ASSUME NEW p \in Proc, Kill(p) PROVE Alone' /\ ReadyMeansComplete'
  BY <1>5, <1>14 DEF Kill
<1>15. CASE UNCHANGED vars
  BY <1>a, <1>15 DEF vars, Alone, Installing, Ready, Progress
<1> QED
  BY <1>1, <1>2, <1>3, <1>4, <1>6, <1>7, <1>8, <1>9, <1>10, <1>11, <1>12, <1>13,
     <1>14, <1>15 DEF Next, Installs

-----------------------------------------------------------------------------
(* The theorems.                                                           *)

LEMMA InitInv == Init => IInv
<1> SUFFICES ASSUME Init PROVE IInv
  OBVIOUS
<1>1. Archives /\ Binary
  BY DEF Init, Archives, Holding, PastVerify, Binary, TailwindNeverTorn
<1>2. Installing = {} /\ ~ Ready
  BY DEF Init, Installing, Ready
<1> QED
  BY <1>1, <1>2, InitType DEF IInv, Alone, ReadyMeansComplete

LEMMA NextInv == IInv /\ [Next]_vars => IInv'
BY NextType, NextArchives, NextBinary, NextAlone DEF IInv

LEMMA Invariance == Spec => []IInv
BY InitInv, NextInv, PTL DEF Spec

\* Every state of an installation has the declared type: no step of EnsureBinary
\* leaves a count of retries, a directory or an archive outside it.
THEOREM TypeCorrect == Spec => []TypeOK
<1>1. IInv => TypeOK
  BY DEF IInv
<1> QED
  BY <1>1, Invariance, PTL

\* Whoever downloads the Tailwind binary and whenever one is killed, the installed
\* file is whole (TailwindHelper.EnsureBinary).
THEOREM TailwindIsNeverTorn == Spec => []TailwindNeverTorn
<1>1. IInv => TailwindNeverTorn
  BY DEF IInv, Binary
<1> QED
  BY <1>1, Invariance, PTL

\* A TinyGo compiler that is there has its whole toolchain, and the one a checksum
\* was compared with, unless two processes installed at once (ensureTinyGo).
THEOREM ReadyToolsAreComplete == Spec => []ReadyMeansComplete
<1>1. IInv => ReadyMeansComplete
  BY DEF IInv
<1> QED
  BY <1>1, Invariance, PTL
=============================================================================
