----------------------------- MODULE ToolInstall -----------------------------
(***************************************************************************)
(* How a command gets its tools into the user's cache directory: the       *)
(* Tailwind binary, one file, and the TinyGo toolchain, a directory, which *)
(* is ready when its compiler is there.  Several processes may do so at    *)
(* once, and each may be killed between any two steps.  Binaryen's         *)
(* directory is installed in the same way, with no checksum, and shares    *)
(* nothing with TinyGo's: it is the case where Expect finds none.          *)
(***************************************************************************)
EXTENDS Naturals

CONSTANTS Proc,        \* processes of the command line tool
          Entry,       \* the files of the archive
          Bin,         \* the one TinyGoBinary names
          MaxRetries,  \* wasmMaxRetries
          None

ASSUME ToolAssumption ==
  /\ Bin \in Entry /\ MaxRetries \in Nat \ {0}
  /\ None \notin {"good", "bad", "torn", "whole"}
  /\ None \notin [Entry -> {"missing", "good", "bad"}]

VARIABLES
  final,     \* the installed directory: None, or what each entry holds
  tmp,       \* final's name with ".tmp", the same for all processes
  file,      \* Tailwind's binary: None, "torn" or "whole"
  temp,      \* the temporary file of each process
  at,        \* where each process is
  tries,     \* how often it asked for the archive in vain
  got,       \* the archive it downloaded: None, "good" or "bad"
  expected,  \* it has a checksum to compare with
  left,      \* the entries it has still to extract
  verified,  \* history: what is installed passed a comparison
  clashed    \* history: two processes installed at the same time

vars == <<final, tmp, file, temp, at, tries, got, expected, left, verified,
          clashed>>

Missing == "missing"
NoEntry == [e \in Entry |-> Missing]
Tree == [Entry -> {Missing, "good", "bad"}] \cup {None}
Whole == {[e \in Entry |-> q] : q \in {"good", "bad"}}

Steps == {"off", "fetch", "replace", "stat", "expect", "download", "verify",
          "clear", "extract", "list", "remove", "rename"}

TypeOK ==
  /\ final \in Tree /\ tmp \in Tree
  /\ file \in {None, "torn", "whole"}
  /\ temp \in [Proc -> {None, "torn", "whole"}]
  /\ at \in [Proc -> Steps]
  /\ tries \in [Proc -> 0 .. MaxRetries - 1]
  /\ got \in [Proc -> {None, "good", "bad"}]
  /\ expected \in [Proc -> BOOLEAN]
  /\ left \in [Proc -> SUBSET Entry]
  /\ verified \in BOOLEAN /\ clashed \in BOOLEAN

Init ==
  /\ final = None /\ tmp = None /\ file = None
  /\ temp = [p \in Proc |-> None]
  /\ at = [p \in Proc |-> "off"]
  /\ tries = [p \in Proc |-> 0]
  /\ got = [p \in Proc |-> None]
  /\ expected = [p \in Proc |-> FALSE]
  /\ left = [p \in Proc |-> {}]
  /\ verified = FALSE /\ clashed = FALSE

tailwind == <<file, temp>>
archive == <<tries, got, expected, left>>
history == <<verified, clashed>>

Go(p, step) == at' = [at EXCEPT ![p] = step]

\* A process returns from EnsureBinary, with an error or without; its archive
\* is removed (defer os.Remove).
Return(p) ==
  /\ Go(p, "off")
  /\ tries' = [tries EXCEPT ![p] = 0]
  /\ got' = [got EXCEPT ![p] = None]
  /\ expected' = [expected EXCEPT ![p] = FALSE]
  /\ left' = [left EXCEPT ![p] = {}]

-----------------------------------------------------------------------------
(* Tailwind.                                                               *)

\* TailwindHelper.EnsureBinary: a binary that is there is taken as it is.
StartTailwind(p) ==
  /\ at[p] = "off"
  /\ file = None
  /\ Go(p, "fetch")
  /\ UNCHANGED <<final, tmp, tailwind, archive, history>>

\* CreateTemp gives each download a file of its own.
TempOf_Final(p) == /\ file' = "torn"
                   /\ temp' = [temp EXCEPT ![p] = "torn"]
TempOf(p) == /\ temp' = [temp EXCEPT ![p] = "torn"]
             /\ UNCHANGED file
FetchTailwind(p) ==
  /\ at[p] = "fetch" /\ temp[p] = None
  /\ TempOf(p)
  /\ UNCHANGED <<final, tmp, at, archive, history>>

\* Copied, made executable and flushed.
FillTailwind(p) ==
  /\ at[p] = "fetch" /\ temp[p] = "torn"
  /\ temp' = [temp EXCEPT ![p] = "whole"]
  /\ Go(p, "replace")
  /\ UNCHANGED <<final, tmp, file, archive, history>>

\* No connection, another status, a disk that is full: the file is removed.
FailTailwind(p) ==
  /\ at[p] \in {"fetch", "replace"}
  /\ temp' = [temp EXCEPT ![p] = None]
  /\ Go(p, "off")
  /\ UNCHANGED <<final, tmp, file, archive, history>>

ReplaceTailwind(p) ==
  /\ at[p] = "replace"
  /\ file' = temp[p]
  /\ temp' = [temp EXCEPT ![p] = None]
  /\ Go(p, "off")
  /\ UNCHANGED <<final, tmp, archive, history>>

-----------------------------------------------------------------------------
(* TinyGo.                                                                 *)

Ready == final # None /\ final[Bin] # Missing

\* EnsureBinary; `wasm install` first removes the compiler.
StartTinyGo(p) ==
  /\ at[p] = "off" /\ ~ Ready
  /\ Go(p, "stat")
  /\ UNCHANGED <<final, tmp, tailwind, archive, history>>

ForceTinyGo(p) ==
  /\ at[p] = "off" /\ Ready
  /\ final' = [final EXCEPT ![Bin] = Missing]
  /\ Go(p, "stat")
  /\ UNCHANGED <<tmp, tailwind, archive, history>>

Installing == {p \in Proc : at[p] \notin {"off", "fetch", "replace", "stat"}}

\* ensureTinyGo looks again, under a mutex of its own process only.
Stat(p) ==
  /\ at[p] = "stat"
  /\ IF Ready THEN Go(p, "off") /\ UNCHANGED clashed
     ELSE Go(p, "expect") /\ clashed' = (clashed \/ Installing # {})
  /\ UNCHANGED <<final, tmp, tailwind, archive, verified>>

\* checksums.txt may be out of reach, or not name the archive.
Expect(p) ==
  /\ at[p] = "expect"
  /\ \E found \in BOOLEAN : expected' = [expected EXCEPT ![p] = found]
  /\ Go(p, "download")
  /\ UNCHANGED <<final, tmp, tailwind, tries, got, left, history>>

GiveUp_Late(n) == n > MaxRetries
GiveUp(n) == n >= MaxRetries

Download(p) ==
  /\ at[p] = "download"
  /\ tries' = [tries EXCEPT ![p] = 0]
  /\ \E a \in {"good", "bad"} : got' = [got EXCEPT ![p] = a]
  /\ Go(p, "verify")
  /\ UNCHANGED <<final, tmp, tailwind, expected, left, history>>

\* A request that fails or times out is repeated after a pause.
FailDownload(p) ==
  /\ at[p] = "download"
  /\ IF GiveUp(tries[p] + 1) THEN Return(p)
     ELSE /\ tries' = [tries EXCEPT ![p] = @ + 1]
          /\ UNCHANGED <<at, got, expected, left>>
  /\ UNCHANGED <<final, tmp, tailwind, history>>

\* With no checksum the digest is written next to the directory and never read.
Accepted(p) == expected[p] => got[p] = "good"
Reject_Retry(p) == Go(p, "download") /\ UNCHANGED archive
Reject(p) == Return(p)
Verify(p) ==
  /\ at[p] = "verify"
  /\ IF Accepted(p) THEN Go(p, "clear") /\ UNCHANGED archive ELSE Reject(p)
  /\ UNCHANGED <<final, tmp, tailwind, history>>

Clear(p) ==
  /\ at[p] = "clear"
  /\ tmp' = NoEntry
  /\ left' = [left EXCEPT ![p] = Entry]
  /\ Go(p, "extract")
  /\ UNCHANGED <<final, tailwind, tries, got, expected, history>>

\* The directory of an entry is made if it is not there.
Unpack_InPlace(p, e) ==
  /\ final' = [IF final = None THEN NoEntry ELSE final EXCEPT ![e] = got[p]]
  /\ UNCHANGED tmp
Unpack(p, e) ==
  /\ tmp' = [IF tmp = None THEN NoEntry ELSE tmp EXCEPT ![e] = got[p]]
  /\ UNCHANGED final
Extract(p) ==
  /\ at[p] = "extract"
  /\ \E e \in left[p] :
       /\ Unpack(p, e)
       /\ left' = [left EXCEPT ![p] = @ \ {e}]
       /\ IF left[p] = {e} THEN Go(p, "list") ELSE UNCHANGED at
  /\ UNCHANGED <<tailwind, tries, got, expected, history>>

\* An archive that does not parse, a disk that is full.
FailExtract(p) ==
  /\ at[p] = "extract"
  /\ tmp' = None
  /\ Return(p)
  /\ UNCHANGED <<final, tailwind, history>>

\* RemoveAll reads the directory, takes the entries one by one and the
\* directory last, which fails when others have put entries there.
List(p) ==
  /\ at[p] = "list"
  /\ left' = [left EXCEPT ![p] =
        IF final = None THEN {} ELSE {e \in Entry : final[e] # Missing}]
  /\ Go(p, "remove")
  /\ UNCHANGED <<final, tmp, tailwind, tries, got, expected, history>>

RemoveEntry(p) ==
  /\ at[p] = "remove"
  /\ \E e \in left[p] :
       /\ left' = [left EXCEPT ![p] = @ \ {e}]
       /\ final' = IF final = None THEN None ELSE [final EXCEPT ![e] = Missing]
  /\ UNCHANGED <<tmp, tailwind, at, tries, got, expected, history>>

RemoveDir(p) ==
  /\ at[p] = "remove" /\ left[p] = {}
  /\ final' = IF final = NoEntry THEN None ELSE final
  /\ Go(p, "rename")
  /\ UNCHANGED <<tmp, tailwind, archive, history>>

\* os.Rename fails when the source is gone or the target is a directory.
Rename(p) ==
  /\ at[p] = "rename"
  /\ tmp' = None
  /\ IF tmp # None /\ final = None
       THEN final' = tmp /\ verified' = expected[p]
       ELSE UNCHANGED <<final, verified>>
  /\ Return(p)
  /\ UNCHANGED <<tailwind, clashed>>

\* The temporary file of a process that is killed stays, under a name nobody
\* uses again.
Kill(p) ==
  /\ at[p] # "off"
  /\ Return(p)
  /\ temp' = [temp EXCEPT ![p] = None]
  /\ UNCHANGED <<final, tmp, file, history>>

Installs(p) ==
  \/ Stat(p) \/ Expect(p) \/ Download(p) \/ FailDownload(p) \/ Verify(p)
  \/ Clear(p) \/ Extract(p) \/ FailExtract(p) \/ List(p) \/ RemoveEntry(p)
  \/ RemoveDir(p) \/ Rename(p)

Next == \E p \in Proc :
  \/ StartTailwind(p) \/ FetchTailwind(p) \/ FillTailwind(p)
  \/ FailTailwind(p) \/ ReplaceTailwind(p)
  \/ StartTinyGo(p) \/ ForceTinyGo(p) \/ Installs(p) \/ Kill(p)

\* The requests for TinyGo have timeouts; the one for Tailwind has none.
Fairness == \A p \in Proc : WF_vars(Installs(p))

Spec == Init /\ [][Next]_vars /\ Fairness

-----------------------------------------------------------------------------
(* Properties.                                                             *)

\* tailwind.go:147-150: "Uses os.CreateTemp in the target directory ... so the
\* binary is never visible with wrong permissions or incomplete data", whoever
\* else downloads it and whenever a process is killed.
TailwindNeverTorn == file # "torn"

\* A compiler that is there is not alone: unless two processes installed at the
\* same time, whoever was killed, and wherever, the next command either finds a
\* whole toolchain or installs one.  What was compared with a checksum is what is
\* installed, never mixed with what a process killed while it extracted has left.
ReadyMeansComplete ==
  Ready /\ ~ clashed =>
    /\ final \in Whole
    /\ verified => \A e \in Entry : final[e] = "good"

\* EnsureBinary returns, whatever fails and however often.
EnsureEnds ==
  \A p \in Proc : at[p] \notin {"off", "fetch", "replace"} ~> at[p] = "off"
=============================================================================
